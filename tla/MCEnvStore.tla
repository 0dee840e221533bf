------------------------------ MODULE MCEnvStore ------------------------------
(* Two processes that write one setting, a path with another, or what is refused. *)
EXTENDS EnvStore, TLC

CONSTANTS p1, p2

MCProc == {p1, p2}
Symmetry == Permutations(MCProc)

MCVersion == {"old", "new"}

MCRequest ==
    {("HOME" :> "custom"), ("DEBUG" :> "odd"), ("EXPERIMENTAL" :> "empty"),
     ("HOME" :> "default") @@ ("EXPERIMENTAL" :> "odd"),
     ("UNKNOWN" :> "custom"), ("VERSION" :> "odd"),
     ("DEBUG" :> "custom") @@ ("HOME" :> "odd")}
===============================================================================
