----------------------------- MODULE MCSortedMap -----------------------------
(* Instances of SortedMap. *)
EXTENDS SortedMap
=============================================================================
