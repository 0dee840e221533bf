------------------------------ MODULE OrderedMap ------------------------------
(***************************************************************************)
(* What pkg/collection promises: maps from keys to values that remember in *)
(* which order their keys first came, and are ranged over in that order.   *)
(***************************************************************************)
EXTENDS Naturals, Sequences

CONSTANTS Map, Key, Value

VARIABLE entries    \* per map, its key-value pairs in order

Has(s, k) == \E i \in DOMAIN s : s[i][1] = k

\* The value of a key keeps its place; a new key goes to the end.
Put(s, k, v) ==
    IF Has(s, k)
    THEN [i \in DOMAIN s |-> IF s[i][1] = k THEN <<k, v>> ELSE s[i]]
    ELSE Append(s, <<k, v>>)

\* s without its i-th element.
Without(s, i) == [j \in 1..(Len(s) - 1) |-> IF j < i THEN s[j] ELSE s[j + 1]]

Init == entries = [m \in Map |-> <<>>]

SetKV(m, k, v) == entries' = [entries EXCEPT ![m] = Put(entries[m], k, v)]

Remove(m) ==
    \E i \in DOMAIN entries[m] : entries' = [entries EXCEPT ![m] = Without(entries[m], i)]

Reset(m) == entries' = [entries EXCEPT ![m] = <<>>]

Next ==
    \E m \in Map :
      \/ \E k \in Key, v \in Value : SetKV(m, k, v)
      \/ Remove(m)
      \/ Reset(m)

Spec == Init /\ [][Next]_entries
=============================================================================
