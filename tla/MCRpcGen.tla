------------------------------ MODULE MCRpcGen ------------------------------
(* Instances of RpcGen: small proto files and how they change. *)
EXTENDS RpcGen

Unary(n)  == [name |-> n, stream |-> FALSE]
Stream(n) == [name |-> n, stream |-> TRUE]
S(n, rpcs) == [name |-> n, rpcs |-> rpcs]
P(pkg, services) == [pkg |-> pkg, services |-> services]

\* One service; its rpc becomes a stream, gets a namesake, and go_package moves,
\* at last into the output directory; two
\* services whose directories are one.
Grown == { P(2, <<S("User", <<Unary("getIt")>>)>>),
           P(1, <<S("User", <<Stream("getIt"), Unary("getit")>>)>>),
           P(0, <<S("User", <<Stream("getIt")>>)>>),
           P(2, <<S("UserApi", <<Unary("getIt")>>), S("Userapi", <<Stream("getIt")>>)>>) }

MCLowerName == [s \in Service |-> IF s = "User" THEN "user" ELSE "userapi"]
MCFileName == [n \in Service \cup RpcName |->
                 IF n \in Service THEN MCLowerName[n] ELSE "getit"]
MCPackageBase == [p \in PbPath |-> IF p = 2 THEN "user" ELSE "pb"]
MCModes == {[multiple |-> FALSE, client |-> FALSE], [multiple |-> TRUE, client |-> TRUE]}
=============================================================================
