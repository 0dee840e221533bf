------------------------------- MODULE MCGoGen -------------------------------
(* Instances of GoGen: small api files and how they change. *)
EXTENDS GoGen

B(g, hs, ms) == [group |-> g, handlers |-> hs, middlewares |-> ms]

\* A group "errors" whose two handlers have one file, with more routes than the error codes
\* leave room for: behind it a block without a group, and one that is far enough for codes of
\* its own; two groups whose auth files collide, the first with a middleware, the second so
\* near that it shares a code.
Grown == { << B("errors", {"list", "List"}, {}), B(NoGroup, {"ban"}, {}), B("users", {"ban"}, {}) >>,
           << B("user", {"list", "List"}, {"Trace"}), B("users", {"list"}, {}) >> }

MCAuthFile == [g \in Group |-> CASE g = "users" -> "user" [] g = "errors" -> "error" [] OTHER -> g]
MCHandlerFile == [h \in Handler |-> IF h = "List" THEN "list" ELSE h]
MCMiddlewareFile == [m \in Middleware |-> "trace"]
=============================================================================
