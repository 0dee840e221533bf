------------------------------ MODULE SortedMap ------------------------------
(***************************************************************************)
(* pkg/collection/sortedmap.go: a container/list of key-value slices and a *)
(* Go map from each key to its list element.  A variable holds several     *)
(* maps, because Insert and Copy range over one while they change another. *)
(***************************************************************************)
EXTENDS Naturals, Sequences

CONSTANTS
    Map,      \* the variables of type *SortedMap
    Key, Value,
    Element,  \* list elements (bounds how many are in use)
    None

ASSUME SortedMapAssumption == None \notin Element /\ None \notin Key \X Value

\* The ways an expression given to SetExpression may look.
Form == {"key=value", "key=", "no equals sign", "blank in key", "blank in value", "no key"}

VARIABLES
    kv,      \* per map, the list
    slice,   \* the KV of each element
    keys,    \* per map, the Go map
    loop     \* the Insert or Copy that is ranging over its source, or None

mapVars == <<kv, slice, keys, loop>>

MapInit ==
    /\ kv = [m \in Map |-> <<>>]
    /\ slice = [e \in Element |-> None]
    /\ keys = [m \in Map |-> [k \in Key |-> None]]
    /\ loop = None

InList(m) == {kv[m][i] : i \in DOMAIN kv[m]}
Used == UNION {InList(m) : m \in Map}

\* list.Remove of the i-th element.
Without(s, i) == [j \in 1..(Len(s) - 1) |-> IF j < i THEN s[j] ELSE s[j + 1]]

\* Mutant: the element of a known key moves to the end.
SetKnownMoves(m, k, v) ==
    \E i \in DOMAIN kv[m] :
      /\ kv[m][i] = keys[m][k]
      /\ kv' = [kv EXCEPT ![m] = Append(Without(kv[m], i), keys[m][k])]
      /\ slice' = [slice EXCEPT ![keys[m][k]] = <<k, v>>]
      /\ UNCHANGED keys

\* SetKV of a key the map has: e.Value.(KV)[1] = value.
SetKnown(m, k, v) ==
    /\ keys[m][k] # None
    /\ slice' = [slice EXCEPT ![keys[m][k]] = <<slice[keys[m][k]][1], v>>]
    /\ UNCHANGED <<kv, keys>>

\* SetKV of a new key: PushBack.
SetNew(m, k, v) ==
    \E e \in Element \ Used :
      /\ keys[m][k] = None
      /\ kv' = [kv EXCEPT ![m] = Append(kv[m], e)]
      /\ slice' = [slice EXCEPT ![e] = <<k, v>>]
      /\ keys' = [keys EXCEPT ![m] = [keys[m] EXCEPT ![k] = e]]

SetTo(m, k, v) == SetKnown(m, k, v) \/ SetNew(m, k, v)

SetKV(m, k, v) ==
    /\ loop = None
    /\ SetTo(m, k, v)
    /\ UNCHANGED loop

\* SetExpression refuses all forms but the first two, and then changes nothing.
SetExpression(m, form, k, v) ==
    /\ loop = None
    /\ IF form \in {"key=value", "key="} THEN SetTo(m, k, v) ELSE UNCHANGED <<kv, slice, keys>>
    /\ UNCHANGED loop

\* Mutant: the key stays in the Go map.
RemoveKeepKey(m, k) ==
    \E i \in DOMAIN kv[m] :
      /\ loop = None
      /\ kv[m][i] = keys[m][k]
      /\ kv' = [kv EXCEPT ![m] = Without(kv[m], i)]
      /\ slice' = [slice EXCEPT ![keys[m][k]] = None]
      /\ UNCHANGED <<keys, loop>>

\* list.Remove, delete and what the collector does.
RemoveKey(m, k) ==
    \E i \in DOMAIN kv[m] :
      /\ loop = None
      /\ kv[m][i] = keys[m][k]
      /\ kv' = [kv EXCEPT ![m] = Without(kv[m], i)]
      /\ slice' = [slice EXCEPT ![keys[m][k]] = None]
      /\ keys' = [keys EXCEPT ![m] = [keys[m] EXCEPT ![k] = None]]
      /\ UNCHANGED loop

Emptied(m) ==
    /\ kv' = [kv EXCEPT ![m] = <<>>]
    /\ slice' = [e \in Element |-> IF e \in InList(m) THEN None ELSE slice[e]]
    /\ keys' = [keys EXCEPT ![m] = [k \in Key |-> None]]

Reset(m) ==
    /\ loop = None
    /\ Emptied(m)
    /\ UNCHANGED loop

\* Mutant: the loop starts before the first element.
LoopOverZero(dst, src) == [dst |-> dst, src |-> src, next |-> 0]

\* next := sm.kv.Front()
LoopOver(dst, src) == [dst |-> dst, src |-> src, next |-> 1]

\* dst.Insert(src); a map may be inserted into itself.
Insert(dst, src) ==
    /\ loop = None
    /\ loop' = LoopOver(dst, src)
    /\ UNCHANGED <<kv, slice, keys>>

\* dst = src.Copy() starts with an empty map.
Copy(dst, src) ==
    /\ loop = None
    /\ dst # src
    /\ Emptied(dst)
    /\ loop' = LoopOver(dst, src)

\* The iterator of Range is called with the slice at next.
Iterate ==
    /\ loop # None
    /\ loop.next \in DOMAIN kv[loop.src]
    /\ LET pair == slice[kv[loop.src][loop.next]] IN SetTo(loop.dst, pair[1], pair[2])
    /\ loop' = [loop EXCEPT !.next = loop.next + 1]

LoopEnd ==
    /\ loop # None
    /\ loop.next \notin DOMAIN kv[loop.src]
    /\ loop' = None
    /\ UNCHANGED <<kv, slice, keys>>

MapNext ==
    \/ \E m \in Map, k \in Key, v \in Value : SetKV(m, k, v)
    \/ \E m \in Map, form \in Form, k \in Key, v \in Value : SetExpression(m, form, k, v)
    \/ \E m \in Map, k \in Key : RemoveKey(m, k)
    \/ \E m \in Map : Reset(m)
    \/ \E dst, src \in Map : Insert(dst, src) \/ Copy(dst, src)
    \/ Iterate
    \/ LoopEnd

MapSpec == MapInit /\ [][MapNext]_mapVars

-----------------------------------------------------------------------------
(* The queries *)

\* Range, Keys and Format go along the list.
Entries(m) == [i \in DOMAIN kv[m] |-> slice[kv[m][i]]]

\* Get and HasKey go through the Go map.
HasKey(m, k) == keys[m][k] # None
Get(m, k) == slice[keys[m][k]][2]

-----------------------------------------------------------------------------
(* Properties *)

TypeOK ==
    /\ kv \in [Map -> Seq(Element)]
    /\ slice \in [Element -> (Key \X Value) \cup {None}]
    /\ keys \in [Map -> [Key -> Element \cup {None}]]
    /\ loop \in [dst : Map, src : Map, next : Nat \ {0}] \cup {None}

\* The list and the Go map of a SortedMap agree: a key is looked up exactly if it is
\* ranged over, once and with the same value, and no two maps share an element.
Coherent ==
    /\ \A m \in Map, k \in Key :
         /\ HasKey(m, k) <=> \E i \in DOMAIN kv[m] : Entries(m)[i][1] = k
         /\ \A i, j \in DOMAIN kv[m] :
              Entries(m)[i][1] = k /\ Entries(m)[j][1] = k => i = j
         /\ HasKey(m, k) => \E i \in DOMAIN kv[m] : Entries(m)[i] = <<k, Get(m, k)>>
    /\ \A m, n \in Map : \A i \in DOMAIN kv[m], j \in DOMAIN kv[n] :
         kv[m][i] = kv[n][j] => m = n /\ i = j

\* While Insert or Copy ranges over its source, the source does not change, and what
\* has been ranged over is in the destination with the source's value.
RangedIsCopied ==
    loop # None =>
      /\ loop.next \in 1..(Len(kv[loop.src]) + 1)
      /\ \A i \in 1..(loop.next - 1) :
           LET pair == Entries(loop.src)[i] IN
           HasKey(loop.dst, pair[1]) /\ Get(loop.dst, pair[1]) = pair[2]

\* A sorted map implements the abstract ordered map.
Abstract == INSTANCE OrderedMap WITH entries <- [m \in Map |-> Entries(m)]
ImplementsOrderedMap == Abstract!Spec
=============================================================================
