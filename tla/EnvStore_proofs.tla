---------------------------- MODULE EnvStore_proofs ----------------------------
(***************************************************************************)
(* Proofs about the go environment: first about SortedMap, which holds it  *)
(* in memory, for any number of maps, keys, values and elements, with the  *)
(* refinement of OrderedMap; then about EnvStore, which sees a sorted map  *)
(* as an ordered one, for any number of processes, requests, versions,     *)
(* commands, and lines that show behind a shorter text.                    *)
(***************************************************************************)
EXTENDS SortedMap, EnvStore, Unfolding

-----------------------------------------------------------------------------
(* Sorted maps: the inductive invariant *)

\* The key of an element in a list is mapped to that element.
ListInKeys ==
    \A m \in Map : \A i \in DOMAIN kv[m] :
      /\ slice[kv[m][i]] \in Key \X Value
      /\ keys[m][slice[kv[m][i]][1]] = kv[m][i]

\* What a key is mapped to is in the list, and has that key.
KeysInList ==
    \A m \in Map, k \in Key : keys[m][k] # None =>
      \E i \in DOMAIN kv[m] : kv[m][i] = keys[m][k] /\ slice[kv[m][i]][1] = k

\* An element stands in one place of one list.
ElementsApart ==
    \A m, n \in Map : \A i \in DOMAIN kv[m], j \in DOMAIN kv[n] :
      kv[m][i] = kv[n][j] => m = n /\ i = j

MapInv == ListInKeys /\ KeysInList /\ ElementsApart

-----------------------------------------------------------------------------
(* Helpers *)

LEMMA WithoutShape ==
  ASSUME NEW S, NEW s \in Seq(S), NEW i \in DOMAIN s
  PROVE  /\ Without(s, i) \in Seq(S)
         /\ Len(Without(s, i)) = Len(s) - 1
         /\ DOMAIN Without(s, i) = 1..(Len(s) - 1)
         /\ \A j \in 1..(Len(s) - 1) : Without(s, i)[j] = IF j < i THEN s[j] ELSE s[j + 1]
  <1>1. Len(s) \in Nat /\ i \in 1..Len(s) /\ \A j \in 1..Len(s) : s[j] \in S
    OBVIOUS
  <1>2. \A j \in 1..(Len(s) - 1) : j \in 1..Len(s) /\ j + 1 \in 1..Len(s)
    BY <1>1
  <1>3. Without(s, i) \in [1..(Len(s) - 1) -> S]
    BY <1>1, <1>2 DEF Without
  <1>4. Len(s) - 1 \in Nat
    BY <1>1
  <1> QED
    BY <1>3, <1>4 DEF Without

LEMMA AppendShape ==
  ASSUME NEW S, NEW s \in Seq(S), NEW e \in S
  PROVE  /\ Append(s, e) \in Seq(S)
         /\ Len(Append(s, e)) = Len(s) + 1
         /\ DOMAIN Append(s, e) = 1..(Len(s) + 1)
         /\ \A j \in 1..Len(s) : Append(s, e)[j] = s[j]
         /\ Append(s, e)[Len(s) + 1] = e
  OBVIOUS

\* A key's element is in the list of its map.
LEMMA KeyElement ==
  ASSUME TypeOK, MapInv, NEW m \in Map, NEW k \in Key, keys[m][k] # None
  PROVE  /\ keys[m][k] \in Element
         /\ slice[keys[m][k]] \in Key \X Value
         /\ slice[keys[m][k]][1] = k
         /\ \E i \in DOMAIN kv[m] : kv[m][i] = keys[m][k]
  BY DEF TypeOK, MapInv, ListInKeys, KeysInList

-----------------------------------------------------------------------------
(* SetTo *)

LEMMA SetToTypes ==
  ASSUME TypeOK, MapInv, NEW m \in Map, NEW k \in Key, NEW v \in Value, SetTo(m, k, v)
  PROVE  /\ kv' \in [Map -> Seq(Element)]
         /\ slice' \in [Element -> (Key \X Value) \cup {None}]
         /\ keys' \in [Map -> [Key -> Element \cup {None}]]
  <1>1. CASE SetKnown(m, k, v)
    <2>1. slice[keys[m][k]][1] = k
      BY <1>1, KeyElement DEF SetKnown
    <2> QED
      BY <1>1, <2>1 DEF SetKnown, TypeOK
  <1>2. CASE SetNew(m, k, v)
    BY <1>2 DEF SetNew, TypeOK
  <1> QED
    BY <1>1, <1>2 DEF SetTo

\* SetKnown replaces the value of the one element that has the key.
LEMMA SetKnownEffect ==
  ASSUME TypeOK, MapInv, NEW m \in Map, NEW k \in Key, NEW v \in Value, SetKnown(m, k, v)
  PROVE  /\ kv' = kv /\ keys' = keys
         /\ \A e \in Element : slice'[e] = IF e = keys[m][k] THEN <<k, v>> ELSE slice[e]
  BY KeyElement DEF SetKnown, TypeOK

LEMMA SetKnownInv ==
  ASSUME TypeOK, MapInv, NEW m \in Map, NEW k \in Key, NEW v \in Value, SetKnown(m, k, v)
  PROVE  MapInv'
  <1>1. /\ kv' = kv /\ keys' = keys
        /\ \A e \in Element : slice'[e] = IF e = keys[m][k] THEN <<k, v>> ELSE slice[e]
    BY SetKnownEffect
  <1>2. \A n \in Map : \A i \in DOMAIN kv[n] : kv[n][i] \in Element
    BY DEF TypeOK
  <1>3. slice[keys[m][k]][1] = k
    BY KeyElement DEF SetKnown
  <1>4. \A n \in Map : \A i \in DOMAIN kv[n] :
          slice'[kv[n][i]][1] = slice[kv[n][i]][1] /\ slice'[kv[n][i]] \in Key \X Value
    BY <1>1, <1>2, <1>3 DEF MapInv, ListInKeys
  <1> QED
    BY <1>1, <1>4 DEF MapInv, ListInKeys, KeysInList, ElementsApart

\* SetNew appends an element that no list has.
LEMMA SetNewInv ==
  ASSUME TypeOK, MapInv, NEW m \in Map, NEW k \in Key, NEW v \in Value, SetNew(m, k, v)
  PROVE  MapInv'
  <1>1. PICK e \in Element \ Used :
          /\ keys[m][k] = None
          /\ kv' = [kv EXCEPT ![m] = Append(kv[m], e)]
          /\ slice' = [slice EXCEPT ![e] = <<k, v>>]
          /\ keys' = [keys EXCEPT ![m] = [keys[m] EXCEPT ![k] = e]]
    BY DEF SetNew
  <1> DEFINE n == Len(kv[m])
  <1>2. /\ kv[m] \in Seq(Element) /\ n \in Nat
        /\ kv'[m] = Append(kv[m], e) /\ DOMAIN kv[m] = 1..n
        /\ DOMAIN kv'[m] = 1..(n + 1)
        /\ \A i \in 1..n : kv'[m][i] = kv[m][i]
        /\ kv'[m][n + 1] = e
        /\ \A o \in Map : o # m => kv'[o] = kv[o]
    BY <1>1, AppendShape DEF TypeOK
  <1>3. \A o \in Map : \A i \in DOMAIN kv[o] : kv[o][i] \in Element /\ kv[o][i] # e
    BY <1>1 DEF TypeOK, Used, InList
  <1>4. slice'[e] = <<k, v>> /\ \A f \in Element : f # e => slice'[f] = slice[f]
    BY <1>1 DEF TypeOK
  <1>5. /\ keys'[m][k] = e
        /\ \A l \in Key : l # k => keys'[m][l] = keys[m][l]
        /\ \A o \in Map : o # m => keys'[o] = keys[o]
    BY <1>1 DEF TypeOK
  <1>6. \A i \in 1..(n + 1) : i \in 1..n \/ i = n + 1
    BY <1>2
  <1>7. e # None /\ 1..n \subseteq 1..(n + 1) /\ n + 1 \in 1..(n + 1)
    BY <1>2, SortedMapAssumption
  <1> HIDE DEF n
  <1>8. ListInKeys'
    <2>1. ASSUME NEW o \in Map, NEW i \in DOMAIN kv[o]
          PROVE  /\ slice'[kv[o][i]] \in Key \X Value
                 /\ keys'[o][slice'[kv[o][i]][1]] = kv[o][i]
      <3>1. slice[kv[o][i]] \in Key \X Value /\ keys[o][slice[kv[o][i]][1]] = kv[o][i]
        BY DEF MapInv, ListInKeys
      <3>2. slice'[kv[o][i]] = slice[kv[o][i]]
        BY <1>3, <1>4
      <3>3. o = m => slice[kv[o][i]][1] # k
        BY <3>1, <1>1, <1>3, SortedMapAssumption
      <3> QED
        BY <3>1, <3>2, <3>3, <1>5
    <2>2. slice'[e] \in Key \X Value /\ keys'[m][slice'[e][1]] = e
      BY <1>4, <1>5
    <2> QED
      BY <2>1, <2>2, <1>2, <1>6 DEF ListInKeys
  <1>9. KeysInList'
    <2> SUFFICES ASSUME NEW o \in Map, NEW l \in Key, keys'[o][l] # None
                 PROVE  \E i \in DOMAIN kv'[o] : kv'[o][i] = keys'[o][l] /\ slice'[kv'[o][i]][1] = l
      BY DEF KeysInList
    <2>1. CASE o = m /\ l = k
      BY <2>1, <1>2, <1>4, <1>5, <1>7
    <2>2. CASE ~(o = m /\ l = k)
      <3>1. keys'[o][l] = keys[o][l]
        BY <2>2, <1>5
      <3>2. PICK i \in DOMAIN kv[o] : kv[o][i] = keys[o][l] /\ slice[kv[o][i]][1] = l
        BY <3>1 DEF MapInv, KeysInList
      <3>3. i \in DOMAIN kv'[o] /\ kv'[o][i] = kv[o][i]
        BY <1>2, <1>7
      <3>4. slice'[kv[o][i]] = slice[kv[o][i]]
        BY <1>3, <1>4
      <3> QED
        BY <3>1, <3>2, <3>3, <3>4
    <2> QED
      BY <2>1, <2>2
  <1>10. ElementsApart'
    <2> SUFFICES ASSUME NEW o \in Map, NEW p \in Map, NEW i \in DOMAIN kv'[o], NEW j \in DOMAIN kv'[p],
                        kv'[o][i] = kv'[p][j]
                 PROVE  o = p /\ i = j
      BY DEF ElementsApart
    <2>1. kv'[o][i] = e <=> o = m /\ i = n + 1
      BY <1>2, <1>3, <1>6
    <2>2. kv'[p][j] = e <=> p = m /\ j = n + 1
      BY <1>2, <1>3, <1>6
    <2>3. kv'[o][i] # e => i \in DOMAIN kv[o] /\ kv'[o][i] = kv[o][i]
      BY <1>2, <1>6
    <2>4. kv'[p][j] # e => j \in DOMAIN kv[p] /\ kv'[p][j] = kv[p][j]
      BY <1>2, <1>6
    <2> QED
      BY <2>1, <2>2, <2>3, <2>4 DEF MapInv, ElementsApart
  <1> QED
    BY <1>8, <1>9, <1>10 DEF MapInv
LEMMA SetToInv ==
  ASSUME TypeOK, MapInv, NEW m \in Map, NEW k \in Key, NEW v \in Value, SetTo(m, k, v)
  PROVE  MapInv'
  BY SetKnownInv, SetNewInv DEF SetTo

-----------------------------------------------------------------------------
(* RemoveKey *)

\* RemoveKey takes the i-th element, that of the key.
RemoveIth(m, k, i) ==
    /\ kv[m][i] = keys[m][k]
    /\ kv' = [kv EXCEPT ![m] = Without(kv[m], i)]
    /\ slice' = [slice EXCEPT ![keys[m][k]] = None]
    /\ keys' = [keys EXCEPT ![m] = [keys[m] EXCEPT ![k] = None]]

\* The key's element leaves the list, the others stay.
LEMMA RemoveEffect ==
  ASSUME TypeOK, MapInv, NEW m \in Map, NEW k \in Key, NEW i \in DOMAIN kv[m],
         RemoveIth(m, k, i)
  PROVE  /\ kv' \in [Map -> Seq(Element)]
         /\ slice' \in [Element -> (Key \X Value) \cup {None}]
         /\ keys' \in [Map -> [Key -> Element \cup {None}]]
         /\ keys[m][k] # None
         /\ kv[m] \in Seq(Element)
         /\ DOMAIN kv[m] = 1..Len(kv[m]) /\ Len(kv[m]) \in Nat
         /\ DOMAIN kv'[m] = 1..(Len(kv[m]) - 1)
         /\ \A j \in 1..(Len(kv[m]) - 1) : kv'[m][j] = IF j < i THEN kv[m][j] ELSE kv[m][j + 1]
         /\ \A o \in Map : o # m => kv'[o] = kv[o]
         /\ \A o \in Map, l \in Key : keys'[o][l] = IF o = m /\ l = k THEN None ELSE keys[o][l]
         /\ \A o \in Map : \A j \in DOMAIN kv[o] :
              (o # m \/ j # i) => slice'[kv[o][j]] = slice[kv[o][j]]
  <1> USE DEF RemoveIth
  <1>1. kv[m] \in Seq(Element) /\ kv[m][i] \in Element
    BY DEF TypeOK
  <1>2. keys[m][k] # None
    BY <1>1, SortedMapAssumption
  <1>3. /\ Without(kv[m], i) \in Seq(Element)
        /\ DOMAIN Without(kv[m], i) = 1..(Len(kv[m]) - 1)
        /\ \A j \in 1..(Len(kv[m]) - 1) :
             Without(kv[m], i)[j] = IF j < i THEN kv[m][j] ELSE kv[m][j + 1]
    BY <1>1, WithoutShape
  <1>4. kv'[m] = Without(kv[m], i) /\ \A o \in Map : o # m => kv'[o] = kv[o]
    BY DEF TypeOK
  <1>5. kv' \in [Map -> Seq(Element)]
    BY <1>3 DEF TypeOK
  <1>6. /\ slice' \in [Element -> (Key \X Value) \cup {None}]
        /\ keys' \in [Map -> [Key -> Element \cup {None}]]
    BY DEF TypeOK
  <1>7. \A o \in Map, l \in Key : keys'[o][l] = IF o = m /\ l = k THEN None ELSE keys[o][l]
    BY DEF TypeOK
  <1>8. \A o \in Map : \A j \in DOMAIN kv[o] :
          (o # m \/ j # i) => kv[o][j] \in Element /\ kv[o][j] # keys[m][k]
    BY DEF TypeOK, MapInv, ElementsApart
  <1>9. \A o \in Map : \A j \in DOMAIN kv[o] :
          (o # m \/ j # i) => slice'[kv[o][j]] = slice[kv[o][j]]
    BY <1>8 DEF TypeOK
  <1> QED
    BY <1>1, <1>2, <1>3, <1>4, <1>5, <1>6, <1>7, <1>9

LEMMA RemoveInv ==
  ASSUME TypeOK, MapInv, NEW m \in Map, NEW k \in Key, RemoveKey(m, k)
  PROVE  TypeOK' /\ MapInv'
  <1>1. PICK i \in DOMAIN kv[m] : RemoveIth(m, k, i) /\ kv[m][i] = keys[m][k] /\ UNCHANGED loop
    BY DEF RemoveKey, RemoveIth
  <1> DEFINE n == Len(kv[m])
             Old(o, j) == IF o = m /\ j >= i THEN j + 1 ELSE j
  <1>2. TypeOK'
    BY <1>1, RemoveEffect DEF TypeOK
  <1>3. /\ keys[m][k] # None
        /\ DOMAIN kv[m] = 1..n /\ n \in Nat /\ DOMAIN kv'[m] = 1..(n - 1)
        /\ \A j \in 1..(n - 1) : kv'[m][j] = IF j < i THEN kv[m][j] ELSE kv[m][j + 1]
        /\ \A o \in Map : o # m => kv'[o] = kv[o]
        /\ \A o \in Map, l \in Key : keys'[o][l] = IF o = m /\ l = k THEN None ELSE keys[o][l]
        /\ \A o \in Map : \A j \in DOMAIN kv[o] :
             (o # m \/ j # i) => slice'[kv[o][j]] = slice[kv[o][j]]
    <2>2. keys[m][k] # None /\ DOMAIN kv[m] = 1..n /\ n \in Nat
      BY <1>1, RemoveEffect
    <2>3. /\ DOMAIN kv'[m] = 1..(n - 1)
          /\ \A j \in 1..(n - 1) : kv'[m][j] = IF j < i THEN kv[m][j] ELSE kv[m][j + 1]
          /\ \A o \in Map : o # m => kv'[o] = kv[o]
      BY <1>1, RemoveEffect
    <2>4. /\ \A o \in Map, l \in Key : keys'[o][l] = IF o = m /\ l = k THEN None ELSE keys[o][l]
          /\ \A o \in Map : \A j \in DOMAIN kv[o] :
               (o # m \/ j # i) => slice'[kv[o][j]] = slice[kv[o][j]]
      BY <1>1, RemoveEffect
    <2> QED
      BY <2>2, <2>3, <2>4
  <1> HIDE DEF n
  \* Every place of the new lists is a place of the old ones.
  <1>4. \A o \in Map : \A j \in DOMAIN kv'[o] :
          /\ Old(o, j) \in DOMAIN kv[o] /\ (o # m \/ Old(o, j) # i)
          /\ kv'[o][j] = kv[o][Old(o, j)]
    BY <1>1, <1>3
  <1>5. \A o \in Map, p \in Map : \A j \in DOMAIN kv'[o], q \in DOMAIN kv'[p] :
          o = p /\ Old(o, j) = Old(p, q) => j = q
    <2>1. \A o \in Map : \A j \in DOMAIN kv'[o] : j \in Nat
      BY <1>2 DEF TypeOK
    <2> QED
      BY <2>1, <1>1, <1>3
  <1>6. \A o \in Map : \A j \in DOMAIN kv[o] :
          (o # m \/ j # i) => \E q \in DOMAIN kv'[o] : kv'[o][q] = kv[o][j]
    <2> SUFFICES ASSUME NEW o \in Map, NEW j \in DOMAIN kv[o], o # m \/ j # i
                 PROVE  \E q \in DOMAIN kv'[o] : kv'[o][q] = kv[o][j]
      OBVIOUS
    <2>1. CASE o # m
      BY <2>1, <1>3
    <2>2. CASE o = m /\ j < i
      <3>1. j \in 1..(n - 1) /\ kv'[m][j] = kv[m][j]
        BY <2>2, <1>1, <1>3
      <3> QED
        BY <3>1, <2>2, <1>3
    <2>3. CASE o = m /\ j > i
      <3>1. j - 1 \in 1..(n - 1) /\ ~(j - 1 < i) /\ (j - 1) + 1 = j
        BY <2>3, <1>1, <1>3
      <3>2. kv'[m][j - 1] = kv[m][j]
        BY <3>1, <1>3
      <3> QED
        BY <3>1, <3>2, <2>3, <1>3
    <2> QED
      BY <2>1, <2>2, <2>3, <1>1, <1>3
  <1>7. ListInKeys'
    <2> SUFFICES ASSUME NEW o \in Map, NEW j \in DOMAIN kv'[o]
                 PROVE  /\ slice'[kv'[o][j]] \in Key \X Value
                        /\ keys'[o][slice'[kv'[o][j]][1]] = kv'[o][j]
      BY DEF ListInKeys
    <2> DEFINE q == Old(o, j)
    <2>1. q \in DOMAIN kv[o] /\ (o # m \/ q # i) /\ kv'[o][j] = kv[o][q]
      BY <1>4
    <2> HIDE DEF q
    <2>2. slice[kv[o][q]] \in Key \X Value /\ keys[o][slice[kv[o][q]][1]] = kv[o][q]
      BY <2>1 DEF MapInv, ListInKeys
    <2>3. slice'[kv[o][q]] = slice[kv[o][q]]
      BY <2>1, <1>3
    <2>4. ~(o = m /\ slice[kv[o][q]][1] = k)
      BY <2>1, <2>2, <1>1 DEF MapInv, ElementsApart
    <2> QED
      BY <2>1, <2>2, <2>3, <2>4, <1>3
  <1>8. KeysInList'
    <2> SUFFICES ASSUME NEW o \in Map, NEW l \in Key, keys'[o][l] # None
                 PROVE  \E j \in DOMAIN kv'[o] : kv'[o][j] = keys'[o][l] /\ slice'[kv'[o][j]][1] = l
      BY DEF KeysInList
    <2>1. keys'[o][l] = keys[o][l] /\ ~(o = m /\ l = k)
      BY <1>3
    <2>2. PICK j \in DOMAIN kv[o] : kv[o][j] = keys[o][l] /\ slice[kv[o][j]][1] = l
      BY <2>1 DEF MapInv, KeysInList
    <2>3. o # m \/ j # i
      <3>1. slice[keys[m][k]][1] = k
        BY <1>3, KeyElement
      <3> QED
        BY <3>1, <2>1, <2>2, <1>1
    <2>4. PICK q \in DOMAIN kv'[o] : kv'[o][q] = kv[o][j]
      BY <2>3, <1>6
    <2>5. slice'[kv[o][j]] = slice[kv[o][j]]
      BY <2>3, <1>3
    <2> QED
      BY <2>1, <2>2, <2>4, <2>5
  <1>9. ElementsApart'
    BY <1>4, <1>5 DEF MapInv, ElementsApart
  <1> QED
    BY <1>2, <1>7, <1>8, <1>9 DEF MapInv

-----------------------------------------------------------------------------
(* Reset and the empty map of Copy *)

LEMMA EmptiedInv ==
  ASSUME TypeOK, MapInv, NEW m \in Map, Emptied(m)
  PROVE  /\ kv' \in [Map -> Seq(Element)]
         /\ slice' \in [Element -> (Key \X Value) \cup {None}]
         /\ keys' \in [Map -> [Key -> Element \cup {None}]]
         /\ kv'[m] = <<>> /\ \A o \in Map : o # m => kv'[o] = kv[o] /\ keys'[o] = keys[o]
         /\ \A o \in Map : o # m => \A i \in DOMAIN kv[o] : slice'[kv[o][i]] = slice[kv[o][i]]
         /\ MapInv'
  <1>1. /\ kv' = [kv EXCEPT ![m] = <<>>]
        /\ slice' = [e \in Element |-> IF e \in InList(m) THEN None ELSE slice[e]]
        /\ keys' = [keys EXCEPT ![m] = [k \in Key |-> None]]
    BY DEF Emptied
  <1>2. /\ kv' \in [Map -> Seq(Element)]
        /\ slice' \in [Element -> (Key \X Value) \cup {None}]
        /\ keys' \in [Map -> [Key -> Element \cup {None}]]
    BY <1>1 DEF TypeOK
  <1>3. /\ kv'[m] = <<>> /\ keys'[m] = [k \in Key |-> None]
        /\ \A o \in Map : o # m => kv'[o] = kv[o] /\ keys'[o] = keys[o]
    BY <1>1 DEF TypeOK
  <1>4. \A o \in Map : o # m => \A i \in DOMAIN kv[o] :
          kv[o][i] \in Element /\ kv[o][i] \notin InList(m)
    BY DEF TypeOK, MapInv, ElementsApart, InList
  <1>5. \A o \in Map : o # m => \A i \in DOMAIN kv[o] : slice'[kv[o][i]] = slice[kv[o][i]]
    BY <1>1, <1>4
  <1>6. DOMAIN kv'[m] = {} /\ \A k \in Key : keys'[m][k] = None
    BY <1>3
  <1>7. ListInKeys'
    BY <1>3, <1>5, <1>6 DEF MapInv, ListInKeys
  <1>8. KeysInList'
    <2> SUFFICES ASSUME NEW o \in Map, NEW k \in Key, keys'[o][k] # None
                 PROVE  \E i \in DOMAIN kv'[o] : kv'[o][i] = keys'[o][k] /\ slice'[kv'[o][i]][1] = k
      BY DEF KeysInList
    <2>1. o # m
      BY <1>6
    <2>2. PICK i \in DOMAIN kv[o] : kv[o][i] = keys[o][k] /\ slice[kv[o][i]][1] = k
      BY <2>1, <1>3 DEF MapInv, KeysInList
    <2> QED
      BY <2>1, <2>2, <1>3, <1>5
  <1>9. ElementsApart'
    BY <1>3, <1>6 DEF MapInv, ElementsApart
  <1> QED
    BY <1>2, <1>3, <1>5, <1>7, <1>8, <1>9 DEF MapInv
-----------------------------------------------------------------------------
(* What SetTo does to the queries *)

\* The other maps have the entries they had.
LEMMA SetToOthers ==
  ASSUME TypeOK, MapInv, NEW m \in Map, NEW k \in Key, NEW v \in Value, SetTo(m, k, v),
         NEW o \in Map, o # m
  PROVE  kv'[o] = kv[o] /\ \A i \in DOMAIN kv[o] : slice'[kv[o][i]] = slice[kv[o][i]]
  <1>1. \A i \in DOMAIN kv[o] : kv[o][i] \in Element /\ kv[o][i] \in Used
    BY DEF TypeOK, Used, InList
  <1>2. CASE SetKnown(m, k, v)
    <2>1. \A i \in DOMAIN kv[o] : kv[o][i] # keys[m][k]
      <3>1. PICK j \in DOMAIN kv[m] : kv[m][j] = keys[m][k]
        BY <1>2, KeyElement DEF SetKnown
      <3> QED
        BY <3>1 DEF MapInv, ElementsApart
    <2>2. /\ kv' = kv
          /\ \A e \in Element : slice'[e] = IF e = keys[m][k] THEN <<k, v>> ELSE slice[e]
      BY <1>2, SetKnownEffect
    <2> QED
      BY <1>1, <2>1, <2>2
  <1>3. CASE SetNew(m, k, v)
    BY <1>1, <1>3 DEF SetNew, TypeOK
  <1> QED
    BY <1>2, <1>3 DEF SetTo

\* The key has the new value, and the other keys have what they had.
LEMMA SetToGet ==
  ASSUME TypeOK, MapInv, NEW m \in Map, NEW k \in Key, NEW v \in Value, SetTo(m, k, v)
  PROVE  /\ keys'[m][k] # None /\ slice'[keys'[m][k]] = <<k, v>>
         /\ \A l \in Key : l # k /\ keys[m][l] # None =>
              keys'[m][l] = keys[m][l] /\ slice'[keys[m][l]] = slice[keys[m][l]]
  <1>1. \A l \in Key : keys[m][l] # None =>
          /\ keys[m][l] \in Element /\ slice[keys[m][l]][1] = l /\ keys[m][l] \in Used
    <2> SUFFICES ASSUME NEW l \in Key, keys[m][l] # None
                 PROVE  /\ keys[m][l] \in Element /\ slice[keys[m][l]][1] = l
                        /\ keys[m][l] \in Used
      OBVIOUS
    <2>1. PICK i \in DOMAIN kv[m] : kv[m][i] = keys[m][l]
      BY KeyElement
    <2> QED
      BY <2>1, KeyElement DEF Used, InList
  <1>2. CASE SetKnown(m, k, v)
    <2>1. keys[m][k] # None
      BY <1>2 DEF SetKnown
    <2>2. /\ keys' = keys
          /\ \A e \in Element : slice'[e] = IF e = keys[m][k] THEN <<k, v>> ELSE slice[e]
      BY <1>2, SetKnownEffect
    <2>3. slice'[keys[m][k]] = <<k, v>>
      BY <1>1, <2>1, <2>2
    <2>4. \A l \in Key : l # k /\ keys[m][l] # None => slice'[keys[m][l]] = slice[keys[m][l]]
      BY <1>1, <2>1, <2>2
    <2> QED
      BY <2>1, <2>2, <2>3, <2>4
  <1>3. CASE SetNew(m, k, v)
    <2>1. PICK e \in Element \ Used :
            /\ slice' = [slice EXCEPT ![e] = <<k, v>>]
            /\ keys' = [keys EXCEPT ![m] = [keys[m] EXCEPT ![k] = e]]
      BY <1>3 DEF SetNew
    <2>2. keys'[m][k] = e /\ \A l \in Key : l # k => keys'[m][l] = keys[m][l]
      BY <2>1 DEF TypeOK
    <2>3. slice'[e] = <<k, v>> /\ \A f \in Element : f # e => slice'[f] = slice[f]
      BY <2>1 DEF TypeOK
    <2> QED
      BY <1>1, <2>1, <2>2, <2>3, SortedMapAssumption
  <1> QED
    BY <1>2, <1>3 DEF SetTo

\* The pairs of src before place n are in dst.
Copied(src, dst, n) ==
    /\ n \in 1..(Len(kv[src]) + 1)
    /\ \A i \in 1..(n - 1) :
         /\ keys[dst][slice[kv[src][i]][1]] # None
         /\ slice[keys[dst][slice[kv[src][i]][1]]][2] = slice[kv[src][i]][2]

LoopCopied == loop # None => Copied(loop.src, loop.dst, loop.next)

LEMMA CopiedIsRanged == TypeOK => (RangedIsCopied <=> LoopCopied)
  <1> SUFFICES ASSUME TypeOK, loop # None
               PROVE  RangedIsCopied <=> Copied(loop.src, loop.dst, loop.next)
    BY DEF RangedIsCopied, LoopCopied
  <1>1. /\ loop.src \in Map /\ loop.next \in Nat /\ kv[loop.src] \in Seq(Element)
    BY DEF TypeOK
  <1>2. loop.next \in 1..(Len(kv[loop.src]) + 1) =>
          \A i \in 1..(loop.next - 1) :
            i \in DOMAIN kv[loop.src] /\ Entries(loop.src)[i] = slice[kv[loop.src][i]]
    BY <1>1 DEF Entries
  <1> QED
    BY <1>2 DEF RangedIsCopied, Copied, HasKey, Get

\* Setting the next pair in the destination keeps what was copied, and the source.
LEMMA CopyOne ==
  ASSUME TypeOK, MapInv,
         NEW src \in Map, NEW dst \in Map, NEW n \in DOMAIN kv[src],
         NEW key \in Key, NEW value \in Value,
         slice[kv[src][n]] = <<key, value>>,
         SetTo(dst, key, value), Copied(src, dst, n)
  PROVE  Copied(src, dst, n + 1)'
  <1>1. /\ kv[src] \in Seq(Element) /\ n \in Nat /\ n >= 1 /\ n <= Len(kv[src])
        /\ \A i \in DOMAIN kv[src] : kv[src][i] \in Element
    BY DEF TypeOK
  <1>2. keys[src][key] = kv[src][n] /\ keys[src][key] # None
    BY <1>1, SortedMapAssumption DEF MapInv, ListInKeys
  <1>3. kv'[src] = kv[src] /\ \A i \in DOMAIN kv[src] : slice'[kv[src][i]] = slice[kv[src][i]]
    <2>1. CASE dst = src
      <3>1. SetKnown(src, key, value)
        BY <2>1, <1>2 DEF SetNew, SetTo
      <3>2. /\ kv' = kv
            /\ \A e \in Element : slice'[e] = IF e = keys[src][key] THEN <<key, value>> ELSE slice[e]
        BY <3>1, SetKnownEffect
      <3> QED
        BY <3>2, <1>1, <1>2
    <2>2. CASE dst # src
      BY <2>2, SetToOthers
    <2> QED
      BY <2>1, <2>2
  <1>4. /\ keys'[dst][key] # None /\ slice'[keys'[dst][key]] = <<key, value>>
        /\ \A l \in Key : l # key /\ keys[dst][l] # None =>
             keys'[dst][l] = keys[dst][l] /\ slice'[keys[dst][l]] = slice[keys[dst][l]]
    BY SetToGet
  <1>5. ASSUME NEW i \in 1..n
        PROVE  /\ keys'[dst][slice[kv[src][i]][1]] # None
               /\ slice'[keys'[dst][slice[kv[src][i]][1]]][2] = slice[kv[src][i]][2]
    <2>1. CASE i = n
      BY <2>1, <1>4
    <2>2. CASE i # n
      <3>1. i \in 1..(n - 1) /\ i \in DOMAIN kv[src]
        BY <2>2, <1>1
      <3>2. slice[kv[src][i]] \in Key \X Value /\ keys[src][slice[kv[src][i]][1]] = kv[src][i]
        BY <3>1 DEF MapInv, ListInKeys
      <3>3. kv[src][i] # kv[src][n]
        BY <3>1, <2>2 DEF MapInv, ElementsApart
      <3> DEFINE l == slice[kv[src][i]][1]
      <3>4. l \in Key /\ l # key
        BY <3>2, <3>3, <1>2
      <3>5. keys[dst][l] # None /\ slice[keys[dst][l]][2] = slice[kv[src][i]][2]
        BY <3>1 DEF Copied
      <3>6. keys'[dst][l] = keys[dst][l] /\ slice'[keys[dst][l]] = slice[keys[dst][l]]
        BY <3>4, <3>5, <1>4
      <3> QED
        BY <3>5, <3>6
    <2> QED
      BY <2>1, <2>2
  <1>6. \A i \in 1..n : i \in DOMAIN kv[src] /\ slice'[kv'[src][i]] = slice[kv[src][i]]
    BY <1>1, <1>3
  <1>7. (n + 1) - 1 = n /\ n + 1 \in 1..(Len(kv'[src]) + 1)
    BY <1>1, <1>3
  <1>8. \A i \in 1..n :
          /\ keys'[dst][slice'[kv'[src][i]][1]] # None
          /\ slice'[keys'[dst][slice'[kv'[src][i]][1]]][2] = slice'[kv'[src][i]][2]
    BY <1>5, <1>6
  <1> QED
    BY <1>7, <1>8 DEF Copied

LEMMA IterateInv ==
  ASSUME TypeOK, MapInv, RangedIsCopied, Iterate
  PROVE  TypeOK' /\ MapInv' /\ RangedIsCopied'
  <1>1. loop \in [dst : Map, src : Map, next : Nat \ {0}] /\ loop # None
    BY DEF TypeOK, Iterate
  <1>2. PICK src \in Map, dst \in Map, n \in Nat \ {0} :
          loop = [dst |-> dst, src |-> src, next |-> n]
    BY <1>1
  <1>3. n \in DOMAIN kv[src] /\ slice[kv[src][n]] \in Key \X Value
    BY <1>2 DEF Iterate, MapInv, ListInKeys
  <1>4. PICK key \in Key, value \in Value : slice[kv[src][n]] = <<key, value>>
    BY <1>3
  <1>5. SetTo(dst, key, value)
    BY <1>2, <1>4 DEF Iterate
  <1>6. loop' = [dst |-> dst, src |-> src, next |-> n + 1]
    BY <1>2 DEF Iterate
  <1>7. TypeOK'
    BY <1>5, <1>6, SetToTypes DEF TypeOK
  <1>8. MapInv'
    BY <1>5, SetToInv
  <1>9. Copied(src, dst, n)
    BY <1>1, <1>2, CopiedIsRanged DEF LoopCopied
  <1>10. Copied(src, dst, n + 1)'
    BY <1>3, <1>4, <1>5, <1>9, CopyOne
  <1>11. RangedIsCopied'
    <2>1. TypeOK' => (RangedIsCopied' <=> LoopCopied')
      BY CopiedIsRanged, PTL
    <2>2. LoopCopied'
      BY <1>6, <1>10 DEF Copied, LoopCopied
    <2> QED
      BY <2>1, <2>2, <1>7
  <1> QED
    BY <1>7, <1>8, <1>11
-----------------------------------------------------------------------------
(* Every step of a sorted map keeps the invariant *)

\* RangedIsCopied is vacuous while nothing ranges, and holds when a loop starts.
LEMMA LoopStart ==
  ASSUME NEW dst \in Map, NEW src \in Map, kv' \in [Map -> Seq(Element)],
         loop' = LoopOver(dst, src)
  PROVE  RangedIsCopied'
  <1>1. loop'.src = src /\ loop'.dst = dst /\ loop'.next = 1 /\ Len(kv'[src]) \in Nat
    BY DEF LoopOver
  <1> QED
    BY <1>1 DEF RangedIsCopied

LEMMA MapNextInv ==
  ASSUME TypeOK, MapInv, RangedIsCopied, [MapNext]_mapVars
  PROVE  TypeOK' /\ MapInv' /\ RangedIsCopied'
  <1> DEFINE Goal == TypeOK' /\ MapInv' /\ RangedIsCopied'
  <1>1. ASSUME NEW m \in Map, NEW k \in Key, NEW v \in Value,
               loop = None, SetTo(m, k, v), UNCHANGED loop
        PROVE  Goal
    <2>1. TypeOK'
      BY <1>1, SetToTypes DEF TypeOK
    <2>2. RangedIsCopied'
      BY <1>1 DEF RangedIsCopied
    <2> QED
      BY <1>1, <2>1, <2>2, SetToInv
  <1>2. ASSUME UNCHANGED <<kv, slice, keys>>
        PROVE  MapInv' /\ (kv' \in [Map -> Seq(Element)])
               /\ (slice' \in [Element -> (Key \X Value) \cup {None}])
               /\ (keys' \in [Map -> [Key -> Element \cup {None}]])
    BY <1>2 DEF TypeOK, MapInv, ListInKeys, KeysInList, ElementsApart
  <1>3. ASSUME NEW m \in Map, NEW k \in Key, NEW v \in Value, SetKV(m, k, v) PROVE Goal
    BY <1>1, <1>3 DEF SetKV
  <1>4. ASSUME NEW m \in Map, NEW form \in Form, NEW k \in Key, NEW v \in Value,
               SetExpression(m, form, k, v)
        PROVE  Goal
    <2>1. CASE form \in {"key=value", "key="}
      BY <1>1, <1>4, <2>1 DEF SetExpression
    <2>2. CASE form \notin {"key=value", "key="}
      BY <1>2, <1>4, <2>2 DEF SetExpression, TypeOK, RangedIsCopied
    <2> QED
      BY <2>1, <2>2
  <1>5. ASSUME NEW m \in Map, NEW k \in Key, RemoveKey(m, k) PROVE Goal
    BY <1>5, RemoveInv DEF RemoveKey, RangedIsCopied
  <1>6. ASSUME NEW m \in Map, Reset(m) PROVE Goal
    BY <1>6, EmptiedInv DEF Reset, TypeOK, RangedIsCopied
  <1>7. ASSUME NEW dst \in Map, NEW src \in Map, Insert(dst, src) PROVE Goal
    <2>1. LoopOver(dst, src) \in [dst : Map, src : Map, next : Nat \ {0}]
      BY DEF LoopOver
    <2> QED
      BY <1>2, <1>7, <2>1, LoopStart DEF Insert, TypeOK
  <1>8. ASSUME NEW dst \in Map, NEW src \in Map, Copy(dst, src) PROVE Goal
    <2>1. LoopOver(dst, src) \in [dst : Map, src : Map, next : Nat \ {0}]
      BY DEF LoopOver
    <2> QED
      BY <1>8, <2>1, EmptiedInv, LoopStart DEF Copy, TypeOK
  <1>9. CASE Iterate
    BY <1>9, IterateInv
  <1>10. CASE LoopEnd
    BY <1>2, <1>10 DEF LoopEnd, TypeOK, RangedIsCopied
  <1>11. CASE UNCHANGED mapVars
    <2>1. kv' = kv /\ slice' = slice /\ keys' = keys /\ loop' = loop
      BY <1>11 DEF mapVars
    <2>2. TypeOK'
      BY <2>1 DEF TypeOK
    <2>3. TypeOK' => (RangedIsCopied' <=> LoopCopied')
      BY CopiedIsRanged, PTL
    <2>4. LoopCopied'
      BY <2>1, CopiedIsRanged DEF LoopCopied, Copied
    <2> QED
      BY <1>2, <2>1, <2>2, <2>3, <2>4
  <1> QED
    BY <1>3, <1>4, <1>5, <1>6, <1>7, <1>8, <1>9, <1>10, <1>11 DEF MapNext

LEMMA MapInitInv == MapInit => TypeOK /\ MapInv /\ RangedIsCopied
  <1> SUFFICES ASSUME MapInit PROVE TypeOK /\ MapInv /\ RangedIsCopied
    OBVIOUS
  <1>1. ASSUME NEW m \in Map
        PROVE  DOMAIN kv[m] = {} /\ \A k \in Key : keys[m][k] = None
    <2>1. kv[m] = <<>>
      BY DEF MapInit
    <2> QED
      BY <2>1 DEF MapInit
  <1>2. TypeOK
    BY DEF MapInit, TypeOK
  <1>3. MapInv
    BY <1>1 DEF MapInv, ListInKeys, KeysInList, ElementsApart
  <1> QED
    BY <1>2, <1>3 DEF MapInit, RangedIsCopied

-----------------------------------------------------------------------------
(* Theorems about sorted maps *)

\* The types, and that every key leads to its element and every element to its key.
THEOREM MapInvariant == MapSpec => [](TypeOK /\ MapInv /\ RangedIsCopied)
  <1>1. TypeOK /\ MapInv /\ RangedIsCopied /\ [MapNext]_mapVars => (TypeOK /\ MapInv /\ RangedIsCopied)'
    BY MapNextInv
  <1> QED
    BY <1>1, MapInitInv, PTL DEF MapSpec

\* The list and the Go map of a SortedMap always agree: Get and Range tell the same.
THEOREM ListAndKeysAgree == MapSpec => []Coherent
  <1>1. TypeOK /\ MapInv => Coherent
    <2> SUFFICES ASSUME TypeOK, MapInv PROVE Coherent
      OBVIOUS
    <2>1. ASSUME NEW m \in Map, NEW k \in Key
          PROVE  /\ HasKey(m, k) <=> \E i \in DOMAIN kv[m] : Entries(m)[i][1] = k
                 /\ \A i, j \in DOMAIN kv[m] :
                      Entries(m)[i][1] = k /\ Entries(m)[j][1] = k => i = j
                 /\ HasKey(m, k) => \E i \in DOMAIN kv[m] : Entries(m)[i] = <<k, Get(m, k)>>
      <3>1. \A i \in DOMAIN kv[m] : /\ Entries(m)[i] = slice[kv[m][i]]
                                    /\ Entries(m)[i] \in Key \X Value
                                    /\ keys[m][Entries(m)[i][1]] = kv[m][i]
                                    /\ kv[m][i] # None
        BY SortedMapAssumption DEF Entries, TypeOK, MapInv, ListInKeys
      <3>2. HasKey(m, k) => \E i \in DOMAIN kv[m] : kv[m][i] = keys[m][k] /\ Entries(m)[i][1] = k
        BY <3>1 DEF HasKey, MapInv, KeysInList
      <3>3. \A i, j \in DOMAIN kv[m] : Entries(m)[i][1] = k /\ Entries(m)[j][1] = k => i = j
        BY <3>1 DEF MapInv, ElementsApart
      <3>4. HasKey(m, k) => \E i \in DOMAIN kv[m] : Entries(m)[i] = <<k, Get(m, k)>>
        BY <3>1, <3>2 DEF Get
      <3> QED
        BY <3>1, <3>2, <3>3, <3>4 DEF HasKey
    <2> QED
      BY <2>1 DEF Coherent, MapInv, ElementsApart
  <1> QED
    BY <1>1, MapInvariant, PTL

\* Insert and Copy range over a source that stays as it is, and leave nothing out.
THEOREM LoopsCopy == MapSpec => []RangedIsCopied
  BY MapInvariant, PTL

-----------------------------------------------------------------------------
(* A sorted map implements the abstract ordered map *)

Listed == [m \in Map |-> Entries(m)]

\* A map whose list and pairs stay has the entries it had.
LEMMA SameEntries ==
  ASSUME NEW o, kv'[o] = kv[o], \A i \in DOMAIN kv[o] : slice'[kv[o][i]] = slice[kv[o][i]]
  PROVE  Entries(o)' = Entries(o)
  <1>1. [i \in DOMAIN kv'[o] |-> slice'[kv'[o][i]]] = [i \in DOMAIN kv[o] |-> slice[kv[o][i]]]
    OBVIOUS
  <1> QED
    BY <1>1 DEF Entries

LEMMA OneMapChanges ==
  ASSUME NEW m \in Map, NEW new, Entries(m)' = new,
         \A o \in Map : o # m => Entries(o)' = Entries(o)
  PROVE  Listed' = [Listed EXCEPT ![m] = new]
  BY DEF Listed

\* SetTo of a known key keeps its place, that of a new key appends it.
LEMMA SetToPuts ==
  ASSUME TypeOK, MapInv, NEW m \in Map, NEW k \in Key, NEW v \in Value, SetTo(m, k, v)
  PROVE  Abstract!SetKV(m, k, v)
  <1> DEFINE put == Abstract!Put(Listed[m], k, v)
  <1>1. \A o \in Map : o # m => Entries(o)' = Entries(o)
    BY SetToOthers, SameEntries
  <1>2. /\ Listed[m] = Entries(m)
        /\ kv[m] \in Seq(Element) /\ DOMAIN kv[m] = 1..Len(kv[m]) /\ Len(kv[m]) \in Nat
        /\ \A i \in DOMAIN kv[m] : kv[m][i] \in Element
    BY DEF Listed, TypeOK
  <1>3. /\ DOMAIN Entries(m) = 1..Len(kv[m])
        /\ \A i \in DOMAIN kv[m] : Entries(m)[i] = slice[kv[m][i]]
        /\ Entries(m) \in Seq(Key \X Value)
    <2>1. \A i \in 1..Len(kv[m]) : slice[kv[m][i]] \in Key \X Value
      BY <1>2 DEF MapInv, ListInKeys
    <2>2. Entries(m) \in [1..Len(kv[m]) -> Key \X Value]
      BY <1>2, <2>1 DEF Entries
    <2> QED
      BY <1>2, <2>2 DEF Entries
  <1>4. Entries(m)' = put
    <2>1. CASE SetKnown(m, k, v)
      <3>1. /\ kv' = kv
            /\ \A e \in Element : slice'[e] = IF e = keys[m][k] THEN <<k, v>> ELSE slice[e]
        BY <2>1, SetKnownEffect
      <3>2. PICK p \in DOMAIN kv[m] : kv[m][p] = keys[m][k] /\ slice[kv[m][p]][1] = k
        BY <2>1 DEF MapInv, KeysInList, SetKnown
      <3>3. \A i \in DOMAIN kv[m] : kv[m][i] = keys[m][k] <=> slice[kv[m][i]][1] = k
        BY <3>2 DEF MapInv, ListInKeys
      <3>4. \E i \in DOMAIN Entries(m) : Entries(m)[i][1] = k
        BY <1>2, <1>3, <3>2
      <3>5. put = [i \in DOMAIN Entries(m) |->
                     IF Entries(m)[i][1] = k THEN <<k, v>> ELSE Entries(m)[i]]
        BY <1>2, <3>4 DEF Abstract!Put, Abstract!Has
      <3>6. \A i \in DOMAIN kv[m] :
              slice'[kv[m][i]] = IF Entries(m)[i][1] = k THEN <<k, v>> ELSE Entries(m)[i]
        <4> SUFFICES ASSUME NEW i \in DOMAIN kv[m]
                     PROVE  slice'[kv[m][i]] =
                              IF Entries(m)[i][1] = k THEN <<k, v>> ELSE Entries(m)[i]
          OBVIOUS
        <4>1. kv[m][i] \in Element /\ Entries(m)[i] = slice[kv[m][i]]
          BY <1>2, <1>3
        <4>2. slice'[kv[m][i]] = IF kv[m][i] = keys[m][k] THEN <<k, v>> ELSE slice[kv[m][i]]
          BY <4>1, <3>1
        <4> QED
          BY <4>1, <4>2, <3>3
      <3>7. Entries(m)' = [i \in DOMAIN kv[m] |-> slice'[kv[m][i]]]
        BY <3>1 DEF Entries
      <3> QED
        BY <1>2, <1>3, <3>5, <3>6, <3>7
    <2>2. CASE SetNew(m, k, v)
      <3>1. PICK e \in Element \ Used :
              /\ keys[m][k] = None
              /\ kv' = [kv EXCEPT ![m] = Append(kv[m], e)]
              /\ slice' = [slice EXCEPT ![e] = <<k, v>>]
        BY <2>2 DEF SetNew
      <3>2. /\ kv'[m] = Append(kv[m], e)
            /\ slice'[e] = <<k, v>> /\ \A f \in Element : f # e => slice'[f] = slice[f]
        BY <3>1 DEF TypeOK
      <3>3. \A i \in DOMAIN kv[m] : kv[m][i] # e /\ slice'[kv[m][i]] = Entries(m)[i]
        BY <1>2, <1>3, <3>1, <3>2 DEF Used, InList
      <3>4. ~Abstract!Has(Listed[m], k)
        <4>1. \A i \in DOMAIN Entries(m) : Entries(m)[i][1] # k
          BY <1>2, <1>3, <3>1, SortedMapAssumption DEF MapInv, ListInKeys
        <4> QED
          BY <4>1, <1>2 DEF Abstract!Has
      <3>5. put = Append(Entries(m), <<k, v>>)
        BY <1>2, <3>4 DEF Abstract!Put
      <3>6. /\ DOMAIN put = 1..(Len(kv[m]) + 1)
            /\ \A i \in 1..Len(kv[m]) : put[i] = Entries(m)[i]
            /\ put[Len(kv[m]) + 1] = <<k, v>>
        <4>1. Len(Entries(m)) = Len(kv[m]) /\ <<k, v>> \in Key \X Value
          BY <1>2, <1>3
        <4> HIDE DEF put
        <4> QED
          BY <1>3, <3>5, <4>1, AppendShape
      <3>7. /\ DOMAIN kv'[m] = 1..(Len(kv[m]) + 1)
            /\ \A i \in 1..Len(kv[m]) : kv'[m][i] = kv[m][i]
            /\ kv'[m][Len(kv[m]) + 1] = e
        BY <1>2, <3>1, <3>2, AppendShape
      <3> HIDE DEF put
      <3>8. \A i \in 1..(Len(kv[m]) + 1) : i \in 1..Len(kv[m]) \/ i = Len(kv[m]) + 1
        BY <1>2
      <3>9. \A i \in 1..(Len(kv[m]) + 1) : slice'[kv'[m][i]] = put[i]
        BY <1>2, <3>2, <3>3, <3>6, <3>7, <3>8
      <3>10. put = [i \in DOMAIN put |-> put[i]]
        BY <3>5, <1>3
      <3>11. Entries(m)' = [i \in 1..(Len(kv[m]) + 1) |-> slice'[kv'[m][i]]]
        BY <3>7 DEF Entries
      <3> QED
        BY <3>6, <3>9, <3>10, <3>11
    <2> QED
      BY <2>1, <2>2 DEF SetTo
  <1> QED
    BY <1>1, <1>4, OneMapChanges DEF Abstract!SetKV, Listed

LEMMA RemoveTakesOut ==
  ASSUME TypeOK, MapInv, NEW m \in Map, NEW k \in Key, RemoveKey(m, k)
  PROVE  Abstract!Remove(m)
  <1>1. PICK i \in DOMAIN kv[m] : RemoveIth(m, k, i)
    BY DEF RemoveKey, RemoveIth
  <1>2. /\ DOMAIN kv[m] = 1..Len(kv[m]) /\ Len(kv[m]) \in Nat
        /\ DOMAIN kv'[m] = 1..(Len(kv[m]) - 1)
        /\ \A j \in 1..(Len(kv[m]) - 1) : kv'[m][j] = IF j < i THEN kv[m][j] ELSE kv[m][j + 1]
    <2>1. DOMAIN kv[m] = 1..Len(kv[m]) /\ Len(kv[m]) \in Nat
      BY <1>1, RemoveEffect
    <2>2. /\ DOMAIN kv'[m] = 1..(Len(kv[m]) - 1)
          /\ \A j \in 1..(Len(kv[m]) - 1) : kv'[m][j] = IF j < i THEN kv[m][j] ELSE kv[m][j + 1]
      BY <1>1, RemoveEffect
    <2> QED
      BY <2>1, <2>2
  <1>3. /\ \A o \in Map : o # m => kv'[o] = kv[o]
        /\ \A o \in Map : \A j \in DOMAIN kv[o] :
             (o # m \/ j # i) => slice'[kv[o][j]] = slice[kv[o][j]]
    BY <1>1, RemoveEffect
  <1>4. \A o \in Map : o # m => Entries(o)' = Entries(o)
    BY <1>3, SameEntries
  <1>5. /\ Listed[m] = Entries(m) /\ DOMAIN Entries(m) = DOMAIN kv[m]
        /\ \A j \in DOMAIN kv[m] : Entries(m)[j] = slice[kv[m][j]]
        /\ Len(Entries(m)) = Len(kv[m])
    <2>1. Entries(m) = [j \in 1..Len(kv[m]) |-> slice[kv[m][j]]]
      BY <1>2 DEF Entries
    <2>2. \A j \in 1..Len(kv[m]) : slice[kv[m][j]] \in Key \X Value
      BY <1>2 DEF MapInv, ListInKeys
    <2>3. Entries(m) \in Seq(Key \X Value) /\ DOMAIN Entries(m) = 1..Len(kv[m])
      BY <1>2, <2>1, <2>2
    <2> QED
      BY <1>2, <2>1, <2>3 DEF Listed
  <1>6. ASSUME NEW j \in 1..(Len(kv[m]) - 1)
        PROVE  slice'[kv'[m][j]] = IF j < i THEN Entries(m)[j] ELSE Entries(m)[j + 1]
    <2>1. j \in DOMAIN kv[m] /\ j + 1 \in DOMAIN kv[m] /\ i \in Nat /\ j \in Nat
      BY <1>2
    <2>2. CASE j < i
      <3>1. kv'[m][j] = kv[m][j] /\ slice'[kv[m][j]] = slice[kv[m][j]]
        BY <2>1, <2>2, <1>2, <1>3
      <3> QED
        BY <3>1, <2>1, <2>2, <1>5
    <2>3. CASE ~(j < i)
      <3>1. kv'[m][j] = kv[m][j + 1] /\ slice'[kv[m][j + 1]] = slice[kv[m][j + 1]]
        BY <2>1, <2>3, <1>2, <1>3
      <3> QED
        BY <3>1, <2>1, <2>3, <1>5
    <2> QED
      BY <2>2, <2>3
  <1>7. Entries(m)' = Abstract!Without(Listed[m], i)
    <2>1. Entries(m)' = [j \in 1..(Len(kv[m]) - 1) |-> slice'[kv'[m][j]]]
      BY <1>2 DEF Entries
    <2>2. Abstract!Without(Listed[m], i) =
            [j \in 1..(Len(kv[m]) - 1) |-> IF j < i THEN Entries(m)[j] ELSE Entries(m)[j + 1]]
      BY <1>5 DEF Abstract!Without
    <2> QED
      BY <1>6, <2>1, <2>2
  <1>8. Listed' = [Listed EXCEPT ![m] = Abstract!Without(Listed[m], i)]
    BY <1>4, <1>7, OneMapChanges
  <1> QED
    BY <1>5, <1>8 DEF Abstract!Remove, Listed

LEMMA EmptiedResets ==
  ASSUME TypeOK, MapInv, NEW m \in Map, Emptied(m)
  PROVE  Abstract!Reset(m)
  <1>1. \A o \in Map : o # m => Entries(o)' = Entries(o)
    BY EmptiedInv, SameEntries
  <1>2. kv'[m] = <<>>
    BY EmptiedInv
  <1>3. Entries(m)' = <<>>
    BY <1>2 DEF Entries
  <1> QED
    BY <1>1, <1>3, OneMapChanges DEF Abstract!Reset, Listed

LEMMA NextImplements ==
  ASSUME TypeOK, MapInv, [MapNext]_mapVars
  PROVE  Abstract!Next \/ UNCHANGED Listed
  <1> DEFINE Goal == Abstract!Next \/ UNCHANGED Listed
  <1>1. ASSUME NEW m \in Map, NEW k \in Key, NEW v \in Value, SetTo(m, k, v) PROVE Goal
    BY <1>1, SetToPuts DEF Abstract!Next
  <1>2. ASSUME UNCHANGED <<kv, slice, keys>> PROVE Goal
    BY <1>2 DEF Listed, Entries
  <1>3. ASSUME NEW m \in Map, Emptied(m) PROVE Goal
    BY <1>3, EmptiedResets DEF Abstract!Next
  <1>4. ASSUME NEW m \in Map, NEW k \in Key, RemoveKey(m, k) PROVE Goal
    BY <1>4, RemoveTakesOut DEF Abstract!Next
  <1>5. ASSUME Iterate PROVE Goal
    <2>1. loop \in [dst : Map, src : Map, next : Nat \ {0}]
      BY <1>5 DEF TypeOK, Iterate
    <2>2. slice[kv[loop.src][loop.next]] \in Key \X Value
      BY <1>5, <2>1 DEF Iterate, MapInv, ListInKeys
    <2>3. PICK k \in Key, v \in Value : slice[kv[loop.src][loop.next]] = <<k, v>>
      BY <2>2
    <2>4. SetTo(loop.dst, k, v)
      BY <1>5, <2>3 DEF Iterate
    <2> QED
      BY <1>1, <2>1, <2>4
  <1>6. ASSUME NEW m \in Map, NEW form \in Form, NEW k \in Key, NEW v \in Value,
               SetExpression(m, form, k, v)
        PROVE  Goal
    BY <1>1, <1>2, <1>6 DEF SetExpression
  <1>7. CASE UNCHANGED mapVars
    BY <1>2, <1>7 DEF mapVars
  <1> HIDE DEF Goal
  <1>8. ASSUME NEW m \in Map, NEW k \in Key, NEW v \in Value, SetKV(m, k, v) PROVE Goal
    BY <1>1, <1>8 DEF SetKV
  <1>9. ASSUME NEW m \in Map, Reset(m) PROVE Goal
    BY <1>3, <1>9 DEF Reset
  <1>10. ASSUME NEW dst \in Map, NEW src \in Map, Insert(dst, src) \/ Copy(dst, src) PROVE Goal
    BY <1>2, <1>3, <1>10 DEF Insert, Copy
  <1>11. CASE LoopEnd
    BY <1>2, <1>11 DEF LoopEnd, Goal
  <1> QED
    BY <1>4, <1>5, <1>6, <1>7, <1>8, <1>9, <1>10, <1>11 DEF MapNext, Goal

\* With the list read through its elements as the entries, every behaviour of the map
\* is one of the ordered map: a known key keeps its place, a new one goes to the end.
THEOREM ImplementsTheOrderedMap == MapSpec => ImplementsOrderedMap
  <1>1. MapInit => Abstract!Init
    BY DEF MapInit, Abstract!Init, Entries
  <1>2. TypeOK /\ MapInv /\ [MapNext]_mapVars => Abstract!Next \/ UNCHANGED [m \in Map |-> Entries(m)]
    BY NextImplements DEF Listed
  <1> QED
    BY <1>1, <1>2, MapInvariant, PTL DEF MapSpec, ImplementsOrderedMap, Abstract!Spec

-----------------------------------------------------------------------------
(* Reading the file *)

\* What readEnv makes of one more line.
ReadLine(s, line) == IF line = BadLine THEN s ELSE Ordered!Put(s, line[1], line[2])

\* What FoldLeft's recursion makes of the first m lines, and of every subset of them.
Folded(lines, h, m) ==
    h = [t \in SUBSET (1..m) |->
           IF t = {} THEN <<>> ELSE ReadLine(h[t \ {Max(t)}], lines[Max(t)])]

\* A solution for one line less gives a solution.
LEMMA FoldExtends ==
  ASSUME NEW lines, NEW k \in Nat \ {0}, NEW g, Folded(lines, g, k - 1)
  PROVE  \E h : Folded(lines, h, k)
  <1> DEFINE h == [t \in SUBSET (1..k) |->
                     IF k \in t THEN ReadLine(g[t \ {k}], lines[k]) ELSE g[t]]
             Line(t) == IF t = {} THEN <<>> ELSE ReadLine(h[t \ {Max(t)}], lines[Max(t)])
  <1>1. ASSUME NEW t \in SUBSET (1..k), k \notin t PROVE t \in SUBSET (1..(k - 1))
    BY <1>1
  <1>2. ASSUME NEW t \in SUBSET (1..(k - 1)) PROVE t \in SUBSET (1..k) /\ k \notin t /\ h[t] = g[t]
    <2>1. t \in SUBSET (1..k) /\ k \notin t
      OBVIOUS
    <2> QED
      BY <2>1
  <1>3. ASSUME NEW t \in SUBSET (1..k), k \in t PROVE h[t] = Line(t)
    <2>1. Max(t) = k
      BY <1>3, MaxIsTop
    <2>2. t \ {k} \in SUBSET (1..(k - 1))
      BY <1>1
    <2>3. h[t \ {k}] = g[t \ {k}]
      BY <1>2, <2>2
    <2>4. h[t] = ReadLine(g[t \ {k}], lines[k])
      BY <1>3
    <2> HIDE DEF h
    <2> QED
      BY <1>3, <2>1, <2>3, <2>4
  <1>4. ASSUME NEW t \in SUBSET (1..k), k \notin t PROVE h[t] = Line(t)
    <2>1. t \in SUBSET (1..(k - 1))
      BY <1>1, <1>4
    <2>2. h[t] = g[t] /\ h[t \ {Max(t)}] = g[t \ {Max(t)}]
      BY <1>2, <2>1
    <2>3. g[t] = IF t = {} THEN <<>> ELSE ReadLine(g[t \ {Max(t)}], lines[Max(t)])
      BY <2>1, Zenon DEF Folded
    <2> HIDE DEF h
    <2> QED
      BY <2>2, <2>3
  <1>5. h = [t \in SUBSET (1..k) |-> Line(t)]
    <2>1. h = [t \in SUBSET (1..k) |-> h[t]]
      OBVIOUS
    <2> HIDE DEF h, Line
    <2> QED
      BY <1>3, <1>4, <2>1
  <1>6. Folded(lines, h, k)
    <2> HIDE DEF h
    <2> QED
      BY <1>5 DEF Folded
  <1> QED
    BY <1>6

LEMMA FoldExists ==
  ASSUME NEW lines, NEW n \in Nat
  PROVE  \E h : Folded(lines, h, n)
  <1> DEFINE Bad == {i \in 0..n : ~ \E h : Folded(lines, h, i)}
  <1>1. SUFFICES ASSUME Bad # {} PROVE FALSE
    OBVIOUS
  <1>2. PICK k \in Bad : \A j \in Bad : k <= j
    <2>1. Bad \in SUBSET Nat
      OBVIOUS
    <2> HIDE DEF Bad
    <2> QED
      BY <1>1, <2>1, Least
  <1>3. k \in 0..n /\ ~ \E h : Folded(lines, h, k)
    BY <1>2
  <1>4. CASE k = 0
    <2> DEFINE h == [t \in SUBSET (1..0) |-> <<>>]
    <2>1. \A t \in SUBSET (1..0) : t = {}
      OBVIOUS
    <2>2. Folded(lines, h, 0)
      BY <2>1 DEF Folded
    <2> QED
      BY <1>3, <1>4, <2>2
  <1>5. CASE k # 0
    <2>1. k - 1 \in 0..n /\ k \in Nat \ {0} /\ k - 1 \notin Bad
      <3>1. k \in 0..n
        BY <1>3
      <3> HIDE DEF Bad
      <3> QED
        BY <1>2, <1>5, <3>1
    <2>2. \E g : Folded(lines, g, k - 1)
      BY <2>1
    <2> QED
      BY <1>3, <2>1, <2>2, FoldExtends
  <1> QED
    BY <1>4, <1>5

\* readEnv line by line: r[m] is what it has made of the first m lines.
ReadSoFar(lines, r) ==
    /\ r[0] = <<>>
    /\ \A m \in DOMAIN lines : r[m] = ReadLine(r[m - 1], lines[m])
    /\ ReadEnv(lines) = r[Len(lines)]

LEMMA ReadEnvUnfolds ==
  ASSUME NEW lines, NEW n \in Nat, DOMAIN lines = 1..n, Len(lines) = n
  PROVE  \E r : ReadSoFar(lines, r)
  <1> DEFINE Fold(h) == h = [t \in SUBSET DOMAIN lines |->
                               IF t = {} THEN <<>> ELSE ReadLine(h[t \ {Max(t)}], lines[Max(t)])]
             c == CHOOSE h : Fold(h)
  <1>1. \E h : Fold(h)
    <2>1. \E h : Folded(lines, h, n)
      BY FoldExists
    <2> QED
      BY <2>1 DEF Folded
  <1>2. Fold(c)
    <2> HIDE DEF Fold
    <2> QED
      BY <1>1, Zenon
  <1>3. ReadEnv(lines) = c[DOMAIN lines]
    BY DEF ReadEnv, FoldLeft, MapThenFoldSet, ReadLine
  <1> DEFINE r == [m \in 0..n |-> c[1..m]]
  <1>4. \A t \in SUBSET (1..n) : c[t] = IF t = {} THEN <<>> ELSE ReadLine(c[t \ {Max(t)}], lines[Max(t)])
    <2> HIDE DEF c
    <2> QED
      BY <1>2, Zenon
  <1> HIDE DEF c, Fold
  <1>5. r[0] = <<>>
    <2>1. 1..0 = {} /\ {} \in SUBSET (1..n) /\ 0 \in 0..n
      OBVIOUS
    <2>2. c[{}] = <<>>
      BY <1>4, <2>1
    <2>3. r[0] = c[1..0]
      BY <2>1
    <2> QED
      BY <2>1, <2>2, <2>3
  <1>6. ASSUME NEW m \in 1..n PROVE r[m] = ReadLine(r[m - 1], lines[m])
    <2>1. 1..m \in SUBSET (1..n) /\ m \in 1..m /\ m - 1 \in 0..n /\ m \in 0..n
      <3> HIDE DEF r
      <3> QED
        OBVIOUS
    <2>2. Max(1..m) = m
      BY MaxIsTop
    <2>3. (1..m) \ {m} = 1..(m - 1)
      OBVIOUS
    <2>4. c[1..m] = ReadLine(c[(1..m) \ {m}], lines[m])
      BY <1>4, <2>1, <2>2
    <2> QED
      BY <2>1, <2>3, <2>4
  <1>7. ReadEnv(lines) = r[n]
    BY <1>3
  <1> QED
    BY <1>5, <1>6, <1>7 DEF ReadSoFar

\* Lines of the file and pairs of goctlEnv; "" is the key of a line that is skipped.
Line == (EnvKey \cup {""}) \X Values

Occurs(s, pair) == \E i \in DOMAIN s : s[i] = pair
Keys(s) == {s[i][1] : i \in DOMAIN s}
OncePerKey(s) == \A i, j \in DOMAIN s : s[i][1] = s[j][1] => i = j

LEMMA PairsAreTwo ==
  /\ \A pair \in Line : /\ pair = <<pair[1], pair[2]>>
                         /\ pair[1] \in EnvKey \cup {""} /\ pair[2] \in Values
  /\ \A k \in EnvKey \cup {""}, v \in Values : <<k, v>> \in Line
  <1> DEFINE K == EnvKey \cup {""}
  <1>1. Line = K \X Values
    BY DEF Line
  <1> HIDE DEF K
  <1>2. \A pair \in Line : pair = <<pair[1], pair[2]>> /\ pair[1] \in K /\ pair[2] \in Values
    BY <1>1
  <1>3. \A k \in K, v \in Values : <<k, v>> \in Line
    BY <1>1
  <1> QED
    BY <1>2, <1>3, Zenon DEF K

\* Put replaces the pair of its key, or adds one.
LEMMA PutHolds ==
  ASSUME NEW s \in Seq(Line), OncePerKey(s), NEW line \in Line
  PROVE  LET put == Ordered!Put(s, line[1], line[2])
         IN  /\ put \in Seq(Line)
             /\ OncePerKey(put)
             /\ \A pair \in Line :
                  Occurs(put, pair) <=> pair = line \/ (pair[1] # line[1] /\ Occurs(s, pair))
  <1> DEFINE put == Ordered!Put(s, line[1], line[2])
  <1>1. line = <<line[1], line[2]>> /\ \A pair \in Line : pair = <<pair[1], pair[2]>>
    BY PairsAreTwo
  <1>2. Len(s) \in Nat /\ DOMAIN s = 1..Len(s) /\ \A i \in DOMAIN s : s[i] \in Line
    OBVIOUS
  <1>3. CASE Ordered!Has(s, line[1])
    <2>1. put = [i \in DOMAIN s |-> IF s[i][1] = line[1] THEN line ELSE s[i]]
      BY <1>1, <1>3 DEF Ordered!Put
    <2>2. PICK n \in DOMAIN s : s[n][1] = line[1]
      BY <1>3 DEF Ordered!Has
    <2>3. DOMAIN put = DOMAIN s /\ \A i \in DOMAIN s : put[i] = IF i = n THEN line ELSE s[i]
      BY <2>1, <2>2 DEF OncePerKey
    <2>4. put \in Seq(Line)
      BY <1>2, <2>1
    <2> HIDE DEF put
    <2>5. \A i \in DOMAIN s : put[i][1] = s[i][1]
      BY <2>2, <2>3
    <2>6. OncePerKey(put)
      BY <2>3, <2>5 DEF OncePerKey
    <2>7. ASSUME NEW pair \in Line
          PROVE  Occurs(put, pair) <=> pair = line \/ (pair[1] # line[1] /\ Occurs(s, pair))
      BY <2>2, <2>3 DEF Occurs, OncePerKey
    <2> QED
      BY <2>4, <2>6, <2>7 DEF put
  <1>4. CASE ~Ordered!Has(s, line[1])
    <2>1. put = Append(s, line)
      BY <1>1, <1>4 DEF Ordered!Put
    <2>2. \A i \in DOMAIN s : s[i][1] # line[1]
      BY <1>4 DEF Ordered!Has
    <2> DEFINE n == Len(s)
    <2>3. /\ DOMAIN put = 1..(n + 1) /\ DOMAIN s = 1..n /\ n \in Nat
          /\ \A i \in 1..n : put[i] = s[i]
          /\ put[n + 1] = line
      BY <1>2, <2>1
    <2>4. put \in Seq(Line)
      BY <2>1
    <2> HIDE DEF put, n
    <2>5. \A i \in 1..(n + 1) : i \in 1..n \/ i = n + 1
      BY <2>3
    <2>6. OncePerKey(put)
      BY <2>2, <2>3, <2>5 DEF OncePerKey
    <2>7. n + 1 \in 1..(n + 1) /\ \A i \in 1..n : i \in 1..(n + 1)
      BY <2>3
    <2>8. ASSUME NEW pair \in Line
          PROVE  Occurs(put, pair) <=> pair = line \/ (pair[1] # line[1] /\ Occurs(s, pair))
      BY <2>2, <2>3, <2>5, <2>7 DEF Occurs
    <2> QED
      BY <2>4, <2>6, <2>8 DEF put
  <1> QED
    BY <1>3, <1>4

\* Of the first m lines, the pair is the last one for its key.
LastOf(lines, m, pair) ==
    \E i \in 1..m :
      /\ lines[i] = pair /\ pair # BadLine
      /\ \A j \in (i + 1)..m : lines[j] # BadLine => lines[j][1] # pair[1]

LEMMA LastOfOneMore ==
  ASSUME NEW lines, NEW m \in Nat \ {0}, NEW pair
  PROVE  LastOf(lines, m, pair) <=>
           IF lines[m] = BadLine THEN LastOf(lines, m - 1, pair)
           ELSE pair = lines[m] \/ (pair[1] # lines[m][1] /\ LastOf(lines, m - 1, pair))
  <1>1. m - 1 \in Nat /\ m \in 1..m /\ (m + 1)..m = {}
    OBVIOUS
  <1>2. \A i \in 1..m : i \in 1..(m - 1) \/ i = m
    OBVIOUS
  <1>3. \A i \in 1..(m - 1) : i \in 1..m
    OBVIOUS
  <1>4. ASSUME NEW i \in 1..(m - 1)
        PROVE  (\A j \in (i + 1)..m : lines[j] # BadLine => lines[j][1] # pair[1])
                 <=> /\ \A j \in (i + 1)..(m - 1) : lines[j] # BadLine => lines[j][1] # pair[1]
                     /\ lines[m] # BadLine => lines[m][1] # pair[1]
    <2>1. \A j : j \in (i + 1)..m <=> j \in (i + 1)..(m - 1) \/ j = m
      BY <1>4
    <2> QED
      BY <2>1
  <1>5. LastOf(lines, m, pair) <=>
          \/ lines[m] = pair /\ pair # BadLine
          \/ \E i \in 1..(m - 1) :
               /\ lines[i] = pair /\ pair # BadLine
               /\ \A j \in (i + 1)..m : lines[j] # BadLine => lines[j][1] # pair[1]
    BY <1>1, <1>2, <1>3 DEF LastOf
  <1> QED
    BY <1>4, <1>5 DEF LastOf

\* readEnv keeps of every key the last line, and every key once.
LEMMA ReadEnvHolds ==
  ASSUME NEW lines \in Seq(Line)
  PROVE  /\ ReadEnv(lines) \in Seq(Line)
         /\ OncePerKey(ReadEnv(lines))
         /\ \A pair \in Line : Occurs(ReadEnv(lines), pair) <=> LastOf(lines, Len(lines), pair)
  <1> DEFINE n == Len(lines)
  <1>1. n \in Nat /\ DOMAIN lines = 1..n /\ \A m \in 1..n : lines[m] \in Line
    OBVIOUS
  <1>2. PICK r : ReadSoFar(lines, r)
    BY <1>1, ReadEnvUnfolds
  <1> DEFINE Good(m) == /\ r[m] \in Seq(Line)
                        /\ OncePerKey(r[m])
                        /\ \A pair \in Line : Occurs(r[m], pair) <=> LastOf(lines, m, pair)
             Bad == {m \in 0..n : ~Good(m)}
  <1>3. SUFFICES ASSUME Bad # {} PROVE FALSE
    <2>1. n \in 0..n
      BY <1>1
    <2>2. Good(n)
      BY <1>3, <2>1
    <2> QED
      BY <1>2, <2>2 DEF ReadSoFar
  <1>4. PICK k \in Bad : \A j \in Bad : k <= j
    <2>1. Bad \in SUBSET Nat
      BY <1>1
    <2> HIDE DEF Bad
    <2> QED
      BY <1>3, <2>1, Least
  <1>5. k \in 0..n /\ ~Good(k)
    BY <1>4
  <1>6. CASE k = 0
    <2>1. r[0] = <<>>
      BY <1>2 DEF ReadSoFar
    <2>2. DOMAIN r[0] = {} /\ r[0] \in Seq(Line)
      BY <2>1
    <2>3. \A pair \in Line : ~LastOf(lines, 0, pair)
      BY DEF LastOf
    <2> QED
      BY <1>5, <1>6, <2>2, <2>3 DEF OncePerKey, Occurs
  <1>7. CASE k # 0
    <2> HIDE DEF Good
    <2>1. k \in Nat \ {0} /\ k \in 1..n /\ k - 1 \in 0..n /\ k - 1 \notin Bad
      <3>1. k \in 1..n /\ k - 1 \in 0..n
        BY <1>1, <1>5, <1>7
      <3> HIDE DEF Bad
      <3> QED
        BY <1>1, <1>4, <3>1
    <2>2. Good(k - 1)
      BY <2>1
    <2>3. r[k] = ReadLine(r[k - 1], lines[k]) /\ lines[k] \in Line
      BY <1>1, <1>2, <2>1 DEF ReadSoFar
    <2>4. r[k - 1] \in Seq(Line) /\ OncePerKey(r[k - 1])
          /\ \A pair \in Line : Occurs(r[k - 1], pair) <=> LastOf(lines, k - 1, pair)
      BY <2>2 DEF Good
    <2>5. Good(k)
      <3>1. CASE lines[k] = BadLine
        <4>1. r[k] = r[k - 1]
          BY <2>3, <3>1 DEF ReadLine
        <4>2. \A pair \in Line : LastOf(lines, k, pair) <=> LastOf(lines, k - 1, pair)
          BY <2>1, <3>1, LastOfOneMore
        <4> QED
          BY <2>4, <4>1, <4>2 DEF Good
      <3>2. CASE lines[k] # BadLine
        <4>1. r[k] = Ordered!Put(r[k - 1], lines[k][1], lines[k][2])
          BY <2>3, <3>2 DEF ReadLine
        <4>2. /\ r[k] \in Seq(Line) /\ OncePerKey(r[k])
              /\ \A pair \in Line :
                   Occurs(r[k], pair) <=>
                     pair = lines[k] \/ (pair[1] # lines[k][1] /\ Occurs(r[k - 1], pair))
          <5> DEFINE s == r[k - 1]
                     line == lines[k]
          <5>1. s \in Seq(Line) /\ OncePerKey(s) /\ line \in Line
            BY <2>3, <2>4
          <5>2. r[k] = Ordered!Put(s, line[1], line[2])
            BY <4>1
          <5> HIDE DEF s, line
          <5>3. /\ r[k] \in Seq(Line) /\ OncePerKey(r[k])
                /\ \A pair \in Line :
                     Occurs(r[k], pair) <=> pair = line \/ (pair[1] # line[1] /\ Occurs(s, pair))
            BY <5>1, <5>2, PutHolds
          <5> QED
            BY <5>3 DEF s, line
        <4>3. \A pair \in Line :
                LastOf(lines, k, pair) <=>
                  pair = lines[k] \/ (pair[1] # lines[k][1] /\ LastOf(lines, k - 1, pair))
          BY <2>1, <3>2, LastOfOneMore
        <4> QED
          BY <2>4, <4>2, <4>3 DEF Good
      <3> QED
        BY <3>1, <3>2
    <2> QED
      BY <1>5, <2>5
  <1> QED
    BY <1>6, <1>7

-----------------------------------------------------------------------------
(* What init makes of the file *)

\* A key that occurs has one value, and GetOr gives it.
LEMMA GetOrGives ==
  ASSUME NEW s \in Seq(Line), OncePerKey(s), NEW k, NEW v, Occurs(s, <<k, v>>)
  PROVE  Ordered!Has(s, k) /\ \A d : GetOr(s, k, d) = v
  <1>1. PICK n \in DOMAIN s : s[n] = <<k, v>>
    BY DEF Occurs
  <1>2. Ordered!Has(s, k)
    BY <1>1 DEF Ordered!Has
  <1> DEFINE c == CHOOSE i \in DOMAIN s : s[i][1] = k
  <1>3. c \in DOMAIN s /\ s[c][1] = k
    BY <1>1
  <1>4. c = n
    BY <1>1, <1>3 DEF OncePerKey
  <1>5. \A d : GetOr(s, k, d) = s[c][2]
    BY <1>2 DEF GetOr
  <1> HIDE DEF c
  <1> QED
    BY <1>1, <1>2, <1>4, <1>5

LEMMA GetOrFinds ==
  ASSUME NEW s \in Seq(Line), NEW k, Ordered!Has(s, k), NEW d
  PROVE  <<k, GetOr(s, k, d)>> \in Line /\ Occurs(s, <<k, GetOr(s, k, d)>>)
  <1> DEFINE c == CHOOSE i \in DOMAIN s : s[i][1] = k
  <1>1. c \in DOMAIN s /\ s[c][1] = k
    BY DEF Ordered!Has
  <1>2. GetOr(s, k, d) = s[c][2]
    BY DEF GetOr
  <1> HIDE DEF c
  <1>3. s[c] \in Line
    BY <1>1
  <1>4. s[c] = <<k, GetOr(s, k, d)>>
    BY <1>1, <1>2, <1>3, PairsAreTwo
  <1> QED
    BY <1>1, <1>3, <1>4 DEF Occurs

\* InitFrom, with what the processes' versions are as a parameter.
Arranged(v, lines) ==
    LET fromFile(k)  == SetFromFile(ReadEnv(lines), lines # <<>>, k)
        byDefault(k) == SetByDefault(ReadEnv(lines), lines # <<>>, k)
    IN <<<<"OS", v>>>>
         \o fromFile("HOME") \o fromFile("DEBUG") \o fromFile("CACHE") \o fromFile("EXPERIMENTAL")
         \o byDefault("HOME") \o byDefault("DEBUG") \o byDefault("CACHE") \o byDefault("EXPERIMENTAL")
         \o <<<<"VERSION", v>>>>

\* init has set OS and the keys K, l in number and each once.
Laid(read, v, s, K, l) ==
    /\ s \in Seq(Line) /\ OncePerKey(s)
    /\ Keys(s) = K
    /\ l \in Nat \ {0} /\ Len(s) = l /\ s[1] = <<"OS", v>>
    /\ \A k \in K \cap Setting : Occurs(s, Pair(read, k))

\* Whether init sets the key while it looks at the file.
Early(read, exists, k) == Taken(read, k) \/ (k = "EXPERIMENTAL" /\ exists)

LEMMA OnePieceMore ==
  ASSUME NEW s \in Seq(Line), OncePerKey(s), NEW line \in Line, line[1] \notin Keys(s)
  PROVE  LET t == s \o <<line>>
         IN  /\ t \in Seq(Line) /\ OncePerKey(t) /\ Keys(t) = Keys(s) \cup {line[1]}
             /\ Len(t) = Len(s) + 1 /\ t[Len(s) + 1] = line
             /\ \A i \in DOMAIN s : t[i] = s[i]
             /\ \A pair : Occurs(t, pair) <=> pair = line \/ Occurs(s, pair)
  <1> DEFINE t == s \o <<line>>
             n == Len(s)
  <1>1. /\ n \in Nat /\ DOMAIN s = 1..n /\ DOMAIN t = 1..(n + 1) /\ Len(t) = n + 1
        /\ t \in Seq(Line) /\ t[n + 1] = line
        /\ \A i \in 1..n : t[i] = s[i]
    <2>1. Len(<<line>>) = 1 /\ <<line>>[1] = line /\ <<line>> \in Seq(Line)
      OBVIOUS
    <2> QED
      BY <2>1
  <1> HIDE DEF t, n
  <1>2. \A i \in 1..(n + 1) : i \in 1..n \/ i = n + 1
    BY <1>1
  <1>3. n + 1 \in 1..(n + 1) /\ \A i \in 1..n : i \in 1..(n + 1)
    BY <1>1
  <1>4. \A i \in 1..n : t[i][1] # line[1]
    BY <1>1 DEF Keys
  <1>5. OncePerKey(t)
    BY <1>1, <1>2, <1>4 DEF OncePerKey
  <1>6. Keys(t) = Keys(s) \cup {line[1]}
    BY <1>1, <1>2, <1>3 DEF Keys
  <1>7. \A pair : Occurs(t, pair) <=> pair = line \/ Occurs(s, pair)
    BY <1>1, <1>2, <1>3 DEF Occurs
  <1> QED
    BY <1>1, <1>5, <1>6, <1>7 DEF t, n

LEMMA LaidMore ==
  ASSUME NEW read, NEW v, NEW s, NEW K, NEW l, Laid(read, v, s, K, l),
         NEW k \in Setting, Pair(read, k) \in Line, k \notin K
  PROVE  Laid(read, v, s \o <<Pair(read, k)>>, K \cup {k}, l + 1)
  <1> DEFINE t == s \o <<Pair(read, k)>>
  <1>1. Pair(read, k)[1] = k
    BY DEF Pair
  <1>2. /\ s \in Seq(Line) /\ OncePerKey(s) /\ Keys(s) = K
        /\ l \in Nat \ {0} /\ Len(s) = l /\ s[1] = <<"OS", v>>
        /\ \A q \in K \cap Setting : Occurs(s, Pair(read, q))
    BY DEF Laid
  <1>3. /\ t \in Seq(Line) /\ OncePerKey(t) /\ Keys(t) = K \cup {k}
        /\ Len(t) = l + 1
        /\ \A i \in DOMAIN s : t[i] = s[i]
        /\ \A pair : Occurs(t, pair) <=> pair = Pair(read, k) \/ Occurs(s, pair)
    BY <1>1, <1>2, OnePieceMore
  <1>4. 1 \in DOMAIN s
    BY <1>2
  <1> HIDE DEF t
  <1> QED
    BY <1>2, <1>3, <1>4 DEF Laid, t

LEMMA LaidFromFile ==
  ASSUME NEW read, NEW v, NEW s, NEW K, NEW l, Laid(read, v, s, K, l), NEW exists,
         NEW k \in Setting, Pair(read, k) \in Line, Early(read, exists, k) => k \notin K
  PROVE  Laid(read, v, s \o SetFromFile(read, exists, k),
              K \cup (IF Early(read, exists, k) THEN {k} ELSE {}),
              l + (IF Early(read, exists, k) THEN 1 ELSE 0))
  <1>1. CASE Early(read, exists, k)
    <2>1. SetFromFile(read, exists, k) = <<Pair(read, k)>>
      BY <1>1 DEF SetFromFile, Early
    <2> QED
      BY <1>1, <2>1, LaidMore
  <1>2. CASE ~Early(read, exists, k)
    <2>1. SetFromFile(read, exists, k) = <<>>
      BY <1>2 DEF SetFromFile, Early
    <2>2. s \in Seq(Line) /\ l \in Nat
      BY DEF Laid
    <2>3. s \o <<>> = s /\ K \cup {} = K /\ l + 0 = l
      BY <2>2
    <2> QED
      BY <1>2, <2>1, <2>3
  <1> QED
    BY <1>1, <1>2

LEMMA LaidByDefault ==
  ASSUME NEW read, NEW v, NEW s, NEW K, NEW l, Laid(read, v, s, K, l), NEW exists,
         NEW k \in Setting, Pair(read, k) \in Line, ~Early(read, exists, k) => k \notin K
  PROVE  Laid(read, v, s \o SetByDefault(read, exists, k),
              K \cup (IF Early(read, exists, k) THEN {} ELSE {k}),
              l + (IF Early(read, exists, k) THEN 0 ELSE 1))
  <1>1. CASE ~Early(read, exists, k)
    <2>1. SetByDefault(read, exists, k) = <<Pair(read, k)>>
      BY <1>1 DEF SetFromFile, SetByDefault, Early
    <2> QED
      BY <1>1, <2>1, LaidMore
  <1>2. CASE Early(read, exists, k)
    <2>1. SetFromFile(read, exists, k) = <<Pair(read, k)>>
      BY <1>2 DEF SetFromFile, Early
    <2>2. <<Pair(read, k)>> # <<>>
      OBVIOUS
    <2>3. SetByDefault(read, exists, k) = <<>>
      BY <2>1, <2>2 DEF SetByDefault
    <2>4. s \in Seq(Line) /\ l \in Nat
      BY DEF Laid
    <2>5. s \o <<>> = s /\ K \cup {} = K /\ l + 0 = l
      BY <2>4
    <2> QED
      BY <1>2, <2>3, <2>5
  <1> QED
    BY <1>1, <1>2

\* Every setting is given a value init accepts.
LEMMA PairsAreLines ==
  ASSUME NEW read \in Seq(Line), NEW k \in Setting
  PROVE  Pair(read, k) \in Line
  <1>1. Default(k) \in Values /\ k \in EnvKey
    BY DEF Default, Values, SettingValue, EnvKey
  <1>2. CASE Taken(read, k)
    BY <1>2, GetOrFinds DEF Pair, Taken
  <1>3. CASE ~Taken(read, k)
    BY <1>1, <1>3 DEF Pair, Line
  <1> QED
    BY <1>2, <1>3

\* init sets OS, the four settings in some order, and VERSION.
LEMMA ArrangedHolds ==
  ASSUME NEW v \in Version, NEW lines \in Seq(Line)
  PROVE  LET e == Arranged(v, lines)
         IN  /\ e \in Seq(Line) /\ OncePerKey(e) /\ Keys(e) = EnvKey
             /\ Len(e) = 6 /\ e[1] = <<"OS", v>> /\ e[6] = <<"VERSION", v>>
             /\ \A k \in Setting : Occurs(e, Pair(ReadEnv(lines), k))
  <1> DEFINE read == ReadEnv(lines)
             exists == lines # <<>>
             F(k) == SetFromFile(read, exists, k)
             D(k) == SetByDefault(read, exists, k)
             os == <<"OS", v>>
             version == <<"VERSION", v>>
             L(s, K, l) == Laid(read, v, s, K, l)
             E(k) == Early(read, exists, k)
             If(k) == IF E(k) THEN {k} ELSE {}
             IfNot(k) == IF E(k) THEN {} ELSE {k}
             N(k) == IF E(k) THEN 1 ELSE 0
             M(k) == IF E(k) THEN 0 ELSE 1
             a1 == <<os>> \o F("HOME")
             a2 == a1 \o F("DEBUG")
             a3 == a2 \o F("CACHE")
             a4 == a3 \o F("EXPERIMENTAL")
             b1 == a4 \o D("HOME")
             b2 == b1 \o D("DEBUG")
             b3 == b2 \o D("CACHE")
             b4 == b3 \o D("EXPERIMENTAL")
             A1 == {"OS"} \cup If("HOME")
             A2 == A1 \cup If("DEBUG")
             A3 == A2 \cup If("CACHE")
             A4 == A3 \cup If("EXPERIMENTAL")
             B1 == A4 \cup IfNot("HOME")
             B2 == B1 \cup IfNot("DEBUG")
             B3 == B2 \cup IfNot("CACHE")
             B4 == B3 \cup IfNot("EXPERIMENTAL")
             n4 == 1 + N("HOME") + N("DEBUG") + N("CACHE") + N("EXPERIMENTAL")
             m4 == n4 + M("HOME") + M("DEBUG") + M("CACHE") + M("EXPERIMENTAL")
  <1>1. read \in Seq(Line)
    BY ReadEnvHolds
  <1>2. \A k \in Setting : Pair(read, k) \in Line
    BY <1>1, PairsAreLines
  <1>3. os \in Line /\ version \in Line
    BY DEF Line, EnvKey, Values
  <1>4. "HOME" \in Setting /\ "DEBUG" \in Setting /\ "CACHE" \in Setting /\ "EXPERIMENTAL" \in Setting
    BY DEF Setting
  <1>5. ASSUME NEW s, NEW K, NEW l, NEW k \in Setting, L(s, K, l), E(k) => k \notin K
        PROVE  L(s \o F(k), K \cup If(k), l + N(k))
    <2> HIDE DEF read, exists
    <2> QED
      BY <1>2, <1>5, LaidFromFile
  <1>6. ASSUME NEW s, NEW K, NEW l, NEW k \in Setting, L(s, K, l), ~E(k) => k \notin K
        PROVE  L(s \o D(k), K \cup IfNot(k), l + M(k))
    <2> HIDE DEF read, exists
    <2> QED
      BY <1>2, <1>6, LaidByDefault
  <1>7. L(<<os>>, {"OS"}, 1)
    <2>1. Len(<<os>>) = 1 /\ <<os>>[1] = os /\ <<os>> \in Seq(Line) /\ DOMAIN <<os>> = {1}
      BY <1>3
    <2> DEFINE s == <<os>>
    <2>2. os[1] = "OS"
      OBVIOUS
    <2>3. OncePerKey(s) /\ Keys(s) = {"OS"}
      <3>1. s[1] = os /\ DOMAIN s = {1}
        BY <2>1
      <3> HIDE DEF s, os
      <3> QED
        BY <3>1, <2>2 DEF OncePerKey, Keys
    <2>4. {"OS"} \cap Setting = {}
      BY DEF Setting
    <2>5. s \in Seq(Line) /\ Len(s) = 1 /\ s[1] = os
      BY <2>1
    <2> HIDE DEF s, os
    <2>6. Laid(read, v, s, {"OS"}, 1)
      <3>1. \A k \in {"OS"} \cap Setting : Occurs(s, Pair(read, k))
        BY <2>4
      <3>2. s[1] = <<"OS", v>>
        BY <2>5 DEF os
      <3> HIDE DEF read
      <3> QED
        BY <2>3, <2>5, <3>1, <3>2 DEF Laid
    <2> QED
      BY <2>6 DEF s
  <1>8. L(a4, A4, n4)
    <2> HIDE DEF F, L, E, os
    <2>1. L(a1, A1, 1 + N("HOME"))
      BY <1>4, <1>5, <1>7
    <2>2. "DEBUG" \notin A1
      OBVIOUS
    <2> HIDE DEF a1, N
    <2>3. L(a2, A2, 1 + N("HOME") + N("DEBUG"))
      BY <1>4, <1>5, <2>1, <2>2
    <2>4. "CACHE" \notin A2
      OBVIOUS
    <2> HIDE DEF a2
    <2>5. L(a3, A3, 1 + N("HOME") + N("DEBUG") + N("CACHE"))
      BY <1>4, <1>5, <2>3, <2>4
    <2>6. "EXPERIMENTAL" \notin A3
      OBVIOUS
    <2> HIDE DEF a3
    <2> QED
      BY <1>4, <1>5, <2>5, <2>6
  <1>9. L(b4, B4, m4)
    <2> HIDE DEF D, L, E, os, a4, n4
    <2>1. ~E("HOME") => "HOME" \notin A4
      OBVIOUS
    <2>2. ~E("DEBUG") => "DEBUG" \notin B1
      OBVIOUS
    <2>3. ~E("CACHE") => "CACHE" \notin B2
      OBVIOUS
    <2>4. ~E("EXPERIMENTAL") => "EXPERIMENTAL" \notin B3
      OBVIOUS
    <2> HIDE DEF M, A4
    <2>5. L(b1, B1, n4 + M("HOME"))
      BY <1>4, <1>6, <1>8, <2>1
    <2> HIDE DEF b1, B1
    <2>6. L(b2, B2, n4 + M("HOME") + M("DEBUG"))
      BY <1>4, <1>6, <2>5, <2>2
    <2> HIDE DEF b2, B2
    <2>7. L(b3, B3, n4 + M("HOME") + M("DEBUG") + M("CACHE"))
      BY <1>4, <1>6, <2>6, <2>3
    <2> HIDE DEF b3, B3
    <2> QED
      BY <1>4, <1>6, <2>7, <2>4
  <1>10. B4 = {"OS"} \cup Setting /\ m4 = 5
    <2> HIDE DEF E
    <2> QED
      BY DEF Setting
  <1>11. Arranged(v, lines) = b4 \o <<version>>
    BY DEF Arranged
  <1> HIDE DEF L, read, exists, os, b4, B4, m4
  <1>12. /\ b4 \in Seq(Line) /\ OncePerKey(b4) /\ Keys(b4) = {"OS"} \cup Setting
         /\ Len(b4) = 5 /\ b4[1] = os
         /\ \A k \in Setting : Occurs(b4, Pair(read, k))
    BY <1>9, <1>10 DEF L, Laid, os
  <1>13. version[1] \notin Keys(b4)
    BY <1>12 DEF Setting
  <1> DEFINE e == b4 \o <<version>>
  <1>14. /\ e \in Seq(Line) /\ OncePerKey(e) /\ Keys(e) = Keys(b4) \cup {version[1]}
         /\ Len(e) = Len(b4) + 1 /\ e[Len(b4) + 1] = version
         /\ \A i \in DOMAIN b4 : e[i] = b4[i]
         /\ \A pair : Occurs(e, pair) <=> pair = version \/ Occurs(b4, pair)
    BY <1>3, <1>12, <1>13, OnePieceMore
  <1>15. 1 \in DOMAIN b4
    BY <1>12
  <1>16. Keys(e) = EnvKey
    <2>1. version[1] = "VERSION"
      OBVIOUS
    <2> QED
      BY <1>12, <1>14, <2>1 DEF EnvKey
  <1>17. Arranged(v, lines) = e
    BY <1>11
  <1> HIDE DEF e
  <1>18. e[1] = os /\ Len(e) = 6 /\ e[6] = version
    BY <1>12, <1>14, <1>15
  <1>19. \A k \in Setting : Occurs(e, Pair(read, k))
    BY <1>12, <1>14
  <1> QED
    BY <1>14, <1>16, <1>17, <1>18, <1>19 DEF read, os

\* What init honours.
LEMMA HonouredIs ==
  /\ \A k \in Path : \A v : Honoured(k, v) <=> v # "empty"
  /\ \A v : Honoured("DEBUG", v) <=> v \in {"default", "custom"}
  /\ \A k \in Setting : Honoured(k, "default")
  <1>1. ASSUME NEW k \in Path, NEW v PROVE Honoured(k, v) <=> v # "empty"
    <2>1. k = "HOME" \/ k = "CACHE"
      BY DEF Path
    <2>2. k # "DEBUG" /\ k # "EXPERIMENTAL"
      BY <2>1
    <2> QED
      BY <2>2 DEF Honoured
  <1>2. ASSUME NEW v PROVE Honoured("DEBUG", v) <=> v \in {"default", "custom"}
    <2>1. "DEBUG" \notin Path
      BY DEF Path
    <2> QED
      BY <2>1 DEF Honoured
  <1>3. Honoured("EXPERIMENTAL", "default")
    <2>1. "EXPERIMENTAL" \notin Path
      BY DEF Path
    <2> QED
      BY <2>1 DEF Honoured
  <1>4. \A k \in Setting : k \in Path \/ k = "DEBUG" \/ k = "EXPERIMENTAL"
    BY DEF Setting, Path
  <1>5. ASSUME NEW k \in Setting PROVE Honoured(k, "default")
    BY <1>1, <1>2, <1>3, <1>4
  <1> QED
    BY <1>1, <1>2, <1>5

\* The value of a setting after init.
LEMMA InitValue ==
  ASSUME NEW v \in Version, NEW lines \in Seq(Line), NEW k \in Setting, NEW d
  PROVE  GetOr(Arranged(v, lines), k, d) = Pair(ReadEnv(lines), k)[2]
  <1> DEFINE e == Arranged(v, lines)
  <1>1. e \in Seq(Line) /\ OncePerKey(e) /\ Occurs(e, Pair(ReadEnv(lines), k))
    BY ArrangedHolds
  <1>2. Pair(ReadEnv(lines), k) = <<k, Pair(ReadEnv(lines), k)[2]>>
    BY DEF Pair
  <1> HIDE DEF e
  <1>3. GetOr(e, k, d) = Pair(ReadEnv(lines), k)[2]
    BY <1>1, <1>2, GetOrGives
  <1> QED
    BY <1>3 DEF e

\* The values that s has for paths.
PathsIn(s, values) == \A i \in DOMAIN s : s[i][1] \in Path => s[i][2] \in values

Checked == {"default", "custom", "cut"}

LEMMA InitPaths ==
  ASSUME NEW v \in Version, NEW lines \in Seq(Line), PathsIn(lines, Checked \cup {"empty"})
  PROVE  PathsIn(Arranged(v, lines), Checked)
  <1> DEFINE e == Arranged(v, lines)
             read == ReadEnv(lines)
  <1>1. e \in Seq(Line) /\ OncePerKey(e) /\ \A k \in Setting : Occurs(e, Pair(read, k))
    BY ArrangedHolds
  <1>2. read \in Seq(Line) /\ OncePerKey(read)
        /\ \A pair \in Line : Occurs(read, pair) <=> LastOf(lines, Len(lines), pair)
    BY ReadEnvHolds
  <1> HIDE DEF e, read
  <1>3. ASSUME NEW i \in DOMAIN e, e[i][1] \in Path PROVE e[i][2] \in Checked
    <2> DEFINE k == e[i][1]
    <2>1. k \in Setting
      BY <1>3 DEF Path, Setting
    <2>2. PICK n \in DOMAIN e : e[n] = Pair(read, k)
      BY <1>1, <2>1 DEF Occurs
    <2>3. e[n][1] = k
      BY <2>2 DEF Pair
    <2>4. e[i] = Pair(read, k)
      BY <1>1, <1>3, <2>2, <2>3 DEF OncePerKey
    <2>5. k \in Path
      BY <1>3
    <2>6. e[i][2] = IF Taken(read, k) THEN GetOr(read, k, Default(k)) ELSE Default(k)
      BY <2>4 DEF Pair
    <2> HIDE DEF k
    <2>7. CASE Taken(read, k)
      <3> DEFINE x == GetOr(read, k, Default(k))
      <3>1. Ordered!Has(read, k) /\ x # "empty"
        BY <2>5, <2>7, HonouredIs DEF Taken
      <3>2. <<k, x>> \in Line /\ Occurs(read, <<k, x>>)
        BY <1>2, <3>1, GetOrFinds
      <3>3. LastOf(lines, Len(lines), <<k, x>>)
        BY <1>2, <3>2
      <3> HIDE DEF x
      <3>4. PICK j \in 1..Len(lines) : lines[j] = <<k, x>>
        BY <3>3 DEF LastOf
      <3>5. lines[j][1] = k /\ lines[j][2] = x /\ j \in DOMAIN lines
        BY <3>4
      <3>6. x \in Checked \cup {"empty"}
        BY <2>5, <3>5 DEF PathsIn
      <3> QED
        BY <2>6, <2>7, <3>1, <3>6 DEF x
    <2>8. CASE ~Taken(read, k)
      BY <2>6, <2>8 DEF Default, Checked
    <2> QED
      BY <2>7, <2>8
  <1> QED
    BY <1>3 DEF PathsIn, e

\* A file with every key once is read back as it is.
LEMMA ReadBack ==
  ASSUME NEW lines \in Seq(Line), OncePerKey(lines), Keys(lines) = EnvKey,
         NEW k, NEW v, Occurs(lines, <<k, v>>)
  PROVE  Occurs(ReadEnv(lines), <<k, v>>)
  <1>1. PICK i \in DOMAIN lines : lines[i] = <<k, v>>
    BY DEF Occurs
  <1>2. lines[i] \in Line /\ lines[i][1] = k
    BY <1>1
  <1>3. k \in EnvKey
    BY <1>1, <1>2 DEF Keys
  <1>4. <<k, v>> # BadLine
    BY <1>3 DEF BadLine, EnvKey, Setting
  <1>5. i \in 1..Len(lines) /\ \A j \in (i + 1)..Len(lines) : j \in DOMAIN lines /\ j # i
    OBVIOUS
  <1>6. \A j \in (i + 1)..Len(lines) : lines[j][1] # k
    BY <1>2, <1>5 DEF OncePerKey
  <1>7. <<k, v>>[1] = k
    OBVIOUS
  <1>8. LastOf(lines, Len(lines), <<k, v>>)
    BY <1>1, <1>4, <1>5, <1>6, <1>7 DEF LastOf
  <1> QED
    BY <1>1, <1>2, <1>8, ReadEnvHolds

\* env -w changes values, not keys nor places.
LEMMA UpdatedHolds ==
  ASSUME NEW s \in Seq(Line), OncePerKey(s), NEW r \in Request
  PROVE  LET u == Updated(s, r)
         IN  /\ u \in Seq(Line) /\ OncePerKey(u) /\ Keys(u) = Keys(s) /\ Len(u) = Len(s)
             /\ \A i \in DOMAIN s :
                  u[i] = IF s[i][1] \in DOMAIN r THEN <<s[i][1], r[s[i][1]]>> ELSE s[i]
             /\ \A k \in Keys(s) : \A d : GetOr(u, k, d) = IF k \in DOMAIN r THEN r[k] ELSE GetOr(s, k, d)
  <1> DEFINE u == Updated(s, r)
  <1>1. /\ DOMAIN u = DOMAIN s /\ Len(s) \in Nat /\ DOMAIN s = 1..Len(s)
        /\ \A i \in DOMAIN s :
             u[i] = IF s[i][1] \in DOMAIN r THEN <<s[i][1], r[s[i][1]]>> ELSE s[i]
    BY DEF Updated
  <1>2. \A k \in DOMAIN r : r[k] \in Values
    BY EnvAssumption DEF Values
  <1> HIDE DEF u
  <1>3. \A i \in DOMAIN s : s[i] \in Line
    OBVIOUS
  <1>4. ASSUME NEW i \in DOMAIN s PROVE u[i] \in Line
    <2> DEFINE k == s[i][1]
    <2>1. k \in EnvKey \cup {""}
      BY <1>3, PairsAreTwo, Zenon
    <2>2. u[i] = IF k \in DOMAIN r THEN <<k, r[k]>> ELSE s[i]
      BY <1>1
    <2> HIDE DEF k
    <2>3. k \in DOMAIN r => <<k, r[k]>> \in Line
      BY <1>2, <2>1, PairsAreTwo, Zenon
    <2> QED
      BY <1>3, <2>2, <2>3
  <1>5. u \in Seq(Line) /\ Len(u) = Len(s)
    <2>1. u = [i \in 1..Len(s) |-> u[i]]
      BY <1>1 DEF u, Updated
    <2> QED
      BY <1>1, <1>4, <2>1
  <1>6. \A i \in DOMAIN s : u[i][1] = s[i][1]
    BY <1>1
  <1>7. OncePerKey(u) /\ Keys(u) = Keys(s)
    BY <1>1, <1>6 DEF OncePerKey, Keys
  <1>8. ASSUME NEW k \in Keys(s), NEW d
        PROVE  GetOr(u, k, d) = IF k \in DOMAIN r THEN r[k] ELSE GetOr(s, k, d)
    <2>1. PICK i \in DOMAIN s : s[i][1] = k
      BY <1>8 DEF Keys
    <2>2. s[i] = <<k, s[i][2]>>
      BY <1>3, <2>1, PairsAreTwo
    <2>3. GetOr(s, k, d) = s[i][2]
      BY <2>2, GetOrGives DEF Occurs
    <2>4. u[i] = IF k \in DOMAIN r THEN <<k, r[k]>> ELSE <<k, s[i][2]>>
      BY <1>1, <2>1, <2>2
    <2>5. CASE k \in DOMAIN r
      <3>1. Occurs(u, <<k, r[k]>>)
        BY <1>1, <2>4, <2>5 DEF Occurs
      <3> QED
        BY <1>5, <1>7, <2>5, <3>1, GetOrGives
    <2>6. CASE k \notin DOMAIN r
      <3>1. Occurs(u, <<k, s[i][2]>>)
        BY <1>1, <2>4, <2>6 DEF Occurs
      <3> QED
        BY <1>5, <1>7, <2>3, <2>6, <3>1, GetOrGives
    <2> QED
      BY <2>5, <2>6
  <1> QED
    BY <1>1, <1>5, <1>7, <1>8 DEF u

-----------------------------------------------------------------------------
(* The inductive invariant *)

Stage == {"off", "started", "accepted", "truncated"}

Types ==
    /\ pc \in [Proc -> Stage]
    /\ env \in [Proc -> Seq(Line)]
    /\ asked \in [Proc -> Request \cup {NoRequest}]
    /\ file \in Seq(Line)
    /\ installed \in Version
    /\ stale \subseteq Proc
    /\ settings \in [Setting -> SettingValue]
    /\ disturbed \in BOOLEAN

\* goctlEnv of a process has every key once, and no path that did not exist but a cut one.
Sound(e) == OncePerKey(e) /\ Len(e) = 6 /\ Keys(e) = EnvKey /\ PathsIn(e, Checked)

EnvsSound == \A p \in Proc : pc[p] # "off" => Sound(env[p])

\* However often the file was cut off, its paths are empty or were checked.
FileChecked == PathsIn(file, Checked \cup {"empty"})

NothingAsked == \A p \in Proc : pc[p] \in {"off", "started"} => asked[p] = NoRequest

\* Until a stale process writes, a process that writes is the only one that knows the
\* file: all others that are there read it before.
OneWriter ==
    ~disturbed => \A p \in Proc : pc[p] = "truncated" =>
      /\ p \notin stale
      /\ file = <<BadLine>>
      /\ \A q \in Proc \ {p} : pc[q] # "off" => q \in stale

\* The value of a setting, as if every command were atomic, and as far as init honours it.
Told(k) == IF Honoured(k, settings[k]) THEN settings[k] ELSE Default(k)

\* A process that is not stale has the last value of every setting, or the one it was asked for.
FreshEnvs ==
    ~disturbed => \A p \in Proc \ stale : pc[p] # "off" =>
      \A k \in Setting :
        GetOr(env[p], k, "odd") = IF k \in DOMAIN asked[p] THEN asked[p][k] ELSE Told(k)

\* CommandsAddUp, said of what init reads: the versions play no part in it.
AddsUp ==
    ~disturbed /\ (\A p \in Proc : pc[p] # "truncated") =>
      \A k \in Setting : Pair(ReadEnv(file), k)[2] = Told(k)

Inv ==
    /\ Types
    /\ EnvsSound /\ FileChecked /\ NothingAsked /\ EnvComplete
    /\ OneWriter /\ FreshEnvs /\ AddsUp

\* What no process but p notices.
OnlyAt(p) ==
    \A q \in Proc \ {p} : pc'[q] = pc[q] /\ env'[q] = env[q] /\ asked'[q] = asked[q]

LEMMA NobodyAsks == DOMAIN NoRequest = {}
  BY DEF NoRequest

LEMMA BadLineIsLine == BadLine \in Line /\ BadLine[1] = "" /\ "" \notin Path /\ <<BadLine>> \in Seq(Line)
  <1>1. BadLine \in Line
    BY PairsAreTwo DEF BadLine, Values, SettingValue
  <1>2. BadLine[1] = "" /\ "" \notin Path
    BY DEF BadLine, Path
  <1>3. <<BadLine>> \in Seq(Line)
    BY <1>1
  <1> QED
    BY <1>1, <1>2, <1>3

LEMMA GoneFacts ==
  ASSUME Types, NEW p \in Proc, Gone(p)
  PROVE  /\ pc' \in [Proc -> Stage] /\ env' \in [Proc -> Seq(Line)]
         /\ asked' \in [Proc -> Request \cup {NoRequest}] /\ stale' \subseteq Proc
         /\ pc'[p] = "off" /\ asked'[p] = NoRequest
         /\ OnlyAt(p)
         /\ \A q \in Proc \ {p} : q \in stale' <=> q \in stale
  <1>1. <<>> \in Seq(Line)
    OBVIOUS
  <1> QED
    BY <1>1 DEF Types, Gone, OnlyAt, Stage

\* The text that a Flush leaves.
LEMMA FlushText ==
  ASSUME Types, FileChecked, NEW p \in Proc, Sound(env[p]), Flush(p)
  PROVE  /\ file' \in Seq(Line) /\ PathsIn(file', Checked \cup {"empty"})
         /\ file = <<BadLine>> => file' = env[p]
  <1> DEFINE n == Len(file)
             e == env[p]
  <1>1. PICK tail \in Behind(file) : file' = e \o tail
    BY DEF Flush, TextOf
  <1>2. n \in Nat /\ file \in Seq(Line) /\ e \in Seq(Line) /\ DOMAIN file = 1..n
    BY DEF Types
  <1>3. tail \in Seq(Line) /\ \A i \in DOMAIN tail : \E j \in DOMAIN file : tail[i] = file[j]
    <2>1. CASE tail = <<>>
      BY <2>1
    <2>2. CASE tail # <<>>
      <3>1. PICK i \in Max({1, n + 1 - MaxBehind})..(n + 1) : tail = SubSeq(file, i, n)
        BY <1>1, <2>2 DEF Behind
      <3>2. i \in Nat \ {0} /\ i <= n + 1
        <4> DEFINE x == n + 1 - MaxBehind
                   top == Max({1, x})
        <4>1. x \in Int
          BY <1>2, EnvAssumption
        <4> HIDE DEF x
        <4>2. top \in Int /\ top >= 1
          <5>1. \E y \in {1, x} : \A z \in {1, x} : y >= z
            BY <4>1
          <5>2. top \in {1, x} /\ \A z \in {1, x} : top >= z
            BY <5>1 DEF Max
          <5> QED
            BY <4>1, <5>2
        <4>3. i \in top..(n + 1)
          BY <3>1 DEF x
        <4> HIDE DEF top
        <4> QED
          BY <1>2, <4>2, <4>3
      <3>3. /\ tail \in Seq(Line)
            /\ DOMAIN tail = 1..(n - i + 1)
            /\ \A j \in 1..(n - i + 1) : tail[j] = file[i + j - 1] /\ i + j - 1 \in 1..n
        BY <1>2, <3>1, <3>2
      <3> QED
        BY <1>2, <3>3
    <2> QED
      BY <2>1, <2>2
  <1>4. file' \in Seq(Line)
    BY <1>1, <1>2, <1>3
  <1>5. \A i \in DOMAIN file' : (\E j \in DOMAIN e : file'[i] = e[j]) \/ (\E j \in DOMAIN tail : file'[i] = tail[j])
    <2> DEFINE f == e \o tail
    <2>1. /\ Len(e) \in Nat /\ Len(tail) \in Nat
          /\ DOMAIN e = 1..Len(e) /\ DOMAIN tail = 1..Len(tail)
          /\ DOMAIN f = 1..(Len(e) + Len(tail))
          /\ \A i \in DOMAIN f : f[i] = IF i <= Len(e) THEN e[i] ELSE tail[i - Len(e)]
      BY <1>2, <1>3
    <2>2. \A i \in DOMAIN f : (\E j \in DOMAIN e : f[i] = e[j]) \/ (\E j \in DOMAIN tail : f[i] = tail[j])
      <3> HIDE DEF f, e
      <3> QED
        BY <2>1
    <2> QED
      BY <1>1, <2>2
  <1>6. PathsIn(file', Checked \cup {"empty"})
    <2>1. PathsIn(e, Checked) /\ PathsIn(file, Checked \cup {"empty"})
      BY DEF Sound, FileChecked
    <2> HIDE DEF e
    <2> QED
      BY <1>3, <1>5, <2>1 DEF PathsIn
  <1>7. ASSUME file = <<BadLine>> PROVE file' = e
    <2>1. tail = <<>>
      BY <1>1, <1>7 DEF Behind
    <2> QED
      BY <1>1, <1>2, <2>1
  <1> QED
    BY <1>4, <1>6, <1>7

\* The text that a write leaves which ends early.
LEMMA CutText ==
  ASSUME Types, NEW p \in Proc, Sound(env[p]), CutWrite(p)
  PROVE  file' \in Seq(Line) /\ PathsIn(file', Checked \cup {"empty"})
  <1> DEFINE e == env[p]
  <1>0. PICK i \in DOMAIN e :
          \E line \in {BadLine, <<e[i][1], "empty">>, <<e[i][1], "cut">>} :
            file' = SubSeq(e, 1, i - 1) \o <<line>>
    BY DEF CutWrite, TextOf
  <1>1. PICK line \in {BadLine, <<e[i][1], "empty">>, <<e[i][1], "cut">>} :
          file' = SubSeq(e, 1, i - 1) \o <<line>>
    BY <1>0
  <1>2. e \in Seq(Line) /\ Len(e) \in Nat /\ DOMAIN e = 1..Len(e) /\ e[i] \in Line
    BY DEF Types
  <1>3. e[i][1] \in EnvKey \cup {""} /\ "empty" \in Values /\ "cut" \in Values
    BY <1>2, PairsAreTwo DEF Values, SettingValue
  <1>4. line \in Line /\ (line[1] \in Path => line[2] \in Checked \cup {"empty"})
    <2>1. CASE line = BadLine
      BY <2>1, BadLineIsLine
    <2>2. CASE line = <<e[i][1], "empty">>
      BY <1>3, <2>2, PairsAreTwo
    <2>3. CASE line = <<e[i][1], "cut">>
      BY <1>3, <2>3, PairsAreTwo DEF Checked
    <2> QED
      BY <1>1, <2>1, <2>2, <2>3
  <1> DEFINE t == SubSeq(e, 1, i - 1)
             f == t \o <<line>>
  <1> HIDE DEF e
  <1>5. /\ t \in Seq(Line) /\ Len(t) = i - 1 /\ i \in 1..Len(e)
        /\ \A j \in 1..(i - 1) : t[j] = e[j]
    BY <1>2
  <1> HIDE DEF t
  <1>6. /\ f \in Seq(Line) /\ DOMAIN f = 1..i /\ f[i] = line
        /\ \A j \in 1..(i - 1) : f[j] = e[j]
    <2>1. Len(<<line>>) = 1 /\ <<line>>[1] = line /\ <<line>> \in Seq(Line)
      BY <1>4
    <2>2. i \in Nat \ {0}
      BY <1>2, <1>5
    <2>3. f \in Seq(Line) /\ Len(f) = i
      BY <1>4, <1>5, <2>1, <2>2
    <2>4. f[i] = line /\ \A j \in 1..(i - 1) : f[j] = e[j]
      BY <1>4, <1>5, <2>1, <2>2
    <2> QED
      BY <2>3, <2>4
  <1>7. PathsIn(f, Checked \cup {"empty"})
    <2>1. PathsIn(e, Checked)
      BY DEF Sound, e
    <2>2. \A j \in 1..i : j = i \/ (j \in 1..(i - 1) /\ j \in DOMAIN e)
      BY <1>2, <1>5
    <2> HIDE DEF f
    <2> QED
      BY <1>4, <1>6, <2>1, <2>2 DEF PathsIn
  <1>8. file' = f
    BY <1>1 DEF e, t
  <1> QED
    BY <1>6, <1>7, <1>8

-----------------------------------------------------------------------------
(* Every step keeps it *)

LEMMA InitFromIsArranged == \A lines : InitFrom(lines) = Arranged(installed, lines)
  BY DEF InitFrom, Arranged

LEMMA NextTypes ==
  ASSUME Inv, [Next]_vars
  PROVE  Types'
  <1>1. Types /\ FileChecked /\ EnvsSound
    BY DEF Inv
  <1>2. ASSUME NEW p \in Proc, Start(p) PROVE Types'
    <2>1. InitFrom(file) \in Seq(Line)
      BY <1>1, InitFromIsArranged, ArrangedHolds DEF Types
    <2> QED
      BY <1>1, <1>2, <2>1 DEF Start, Types, Stage
  <1>3. ASSUME NEW p \in Proc, NEW r \in Request, WriteEnv(p, r) PROVE Types'
    <2>1. CASE Accepted(p, r)
      <3>1. pc[p] = "started"
        BY <1>3 DEF WriteEnv
      <3>2. env[p] \in Seq(Line) /\ OncePerKey(env[p])
        BY <1>1, <3>1 DEF Types, EnvsSound, Sound
      <3>3. Updated(env[p], r) \in Seq(Line)
        BY <3>2, UpdatedHolds
      <3> QED
        BY <1>1, <1>3, <2>1, <3>3 DEF WriteEnv, Types, Stage
    <2>2. CASE ~Accepted(p, r)
      <3>1. Gone(p) /\ UNCHANGED <<file, installed, settings, disturbed>>
        BY <1>3, <2>2 DEF WriteEnv
      <3> QED
        BY <1>1, <3>1, GoneFacts DEF Types
    <2> QED
      BY <2>1, <2>2
  <1>4. ASSUME NEW p \in Proc, Truncate(p) PROVE Types'
    BY <1>1, <1>4, BadLineIsLine DEF Truncate, Types, Stage
  <1>5. ASSUME NEW p \in Proc, Flush(p) PROVE Types'
    <2>1. Gone(p) /\ pc[p] = "truncated" /\ UNCHANGED installed
      BY <1>5 DEF Flush
    <2>2. file' \in Seq(Line)
      BY <1>1, <1>5, <2>1, FlushText DEF EnvsSound
    <2>3. asked[p] \in Request \cup {NoRequest}
      BY <1>1 DEF Types
    <2>4. \A k \in DOMAIN asked[p] : asked[p][k] \in SettingValue
      BY <2>3, NobodyAsks, EnvAssumption
    <2>5. settings' \in [Setting -> SettingValue] /\ disturbed' \in BOOLEAN
      <3>1. \A k \in Setting : Default(k) \in SettingValue /\ settings[k] \in SettingValue
        BY <1>1 DEF Types, Default, SettingValue
      <3>2. settings' = [k \in Setting |->
                           IF disturbed' THEN Default(k)
                           ELSE IF k \in DOMAIN asked[p] THEN asked[p][k] ELSE settings[k]]
            /\ disturbed' \in BOOLEAN
        BY <1>1, <1>5 DEF Flush, Types
      <3> QED
        BY <2>4, <3>1, <3>2
    <2> QED
      BY <1>1, <2>1, <2>2, <2>5, GoneFacts DEF Types
  <1>6. ASSUME NEW p \in Proc, CutWrite(p) PROVE Types'
    <2>1. Gone(p) /\ pc[p] = "truncated" /\ UNCHANGED installed /\ disturbed' = TRUE
          /\ settings' = [k \in Setting |-> Default(k)]
      BY <1>6 DEF CutWrite
    <2>2. file' \in Seq(Line)
      BY <1>1, <1>6, <2>1, CutText DEF EnvsSound
    <2>3. settings' \in [Setting -> SettingValue]
      BY <2>1 DEF Default, SettingValue
    <2> QED
      BY <1>1, <2>1, <2>2, <2>3, GoneFacts DEF Types
  <1>7. ASSUME NEW p \in Proc, End(p) PROVE Types'
    <2>1. Gone(p) /\ UNCHANGED <<file, installed, settings>>
          /\ disturbed' = (disturbed \/ pc[p] = "truncated")
      BY <1>7 DEF End
    <2> QED
      BY <1>1, <2>1, GoneFacts DEF Types
  <1>8. CASE Upgrade
    BY <1>1, <1>8 DEF Upgrade, Types
  <1>9. CASE UNCHANGED vars
    BY <1>1, <1>9 DEF vars, Types
  <1> QED
    BY <1>2, <1>3, <1>4, <1>5, <1>6, <1>7, <1>8, <1>9 DEF Next

\* What a process starts with, whatever the file holds.
Started(e) ==
    /\ Len(e) = 6
    /\ {e[i][1] : i \in 1..6} = EnvKey
    /\ e[1] \in {"OS"} \X Version /\ e[6] \in {"VERSION"} \X Version
    /\ e[1][2] = e[6][2]
    /\ GetOr(e, "DEBUG", "odd") \in {"default", "custom"}

LEMMA InitIsSound ==
  ASSUME Types, FileChecked
  PROVE  Sound(InitFrom(file)) /\ Started(InitFrom(file))
  <1> DEFINE e == Arranged(installed, file)
  <1>1. e = InitFrom(file) /\ installed \in Version /\ file \in Seq(Line)
    BY InitFromIsArranged DEF Types
  <1>2. /\ e \in Seq(Line) /\ OncePerKey(e) /\ Keys(e) = EnvKey
        /\ Len(e) = 6 /\ e[1] = <<"OS", installed>> /\ e[6] = <<"VERSION", installed>>
    BY <1>1, ArrangedHolds
  <1>3. PathsIn(e, Checked)
    BY <1>1, InitPaths DEF FileChecked
  <1>4. GetOr(e, "DEBUG", "odd") \in {"default", "custom"}
    <2>1. "DEBUG" \in Setting
      BY DEF Setting
    <2>2. GetOr(e, "DEBUG", "odd") = Pair(ReadEnv(file), "DEBUG")[2]
      BY <1>1, <2>1, InitValue
    <2>3. Taken(ReadEnv(file), "DEBUG") =>
            GetOr(ReadEnv(file), "DEBUG", Default("DEBUG")) \in {"default", "custom"}
      BY HonouredIs DEF Taken
    <2> QED
      BY <2>2, <2>3 DEF Pair, Default
  <1> HIDE DEF e
  <1>5. {e[i][1] : i \in 1..6} = EnvKey
    <2>1. DOMAIN e = 1..6
      BY <1>2
    <2> QED
      BY <1>2, <2>1 DEF Keys
  <1> QED
    BY <1>1, <1>2, <1>3, <1>4, <1>5 DEF Sound, Started

LEMMA UpdatedIsSound ==
  ASSUME Types, NEW p \in Proc, Sound(env[p]), NEW r \in Request, Accepted(p, r)
  PROVE  Sound(Updated(env[p], r))
  <1> DEFINE s == env[p]
             u == Updated(s, r)
  <1>1. s \in Seq(Line) /\ OncePerKey(s) /\ Len(s) = 6 /\ Keys(s) = EnvKey /\ PathsIn(s, Checked)
    BY DEF Types, Sound
  <1>2. /\ u \in Seq(Line) /\ OncePerKey(u) /\ Keys(u) = Keys(s) /\ Len(u) = Len(s)
        /\ \A i \in DOMAIN s :
             u[i] = IF s[i][1] \in DOMAIN r THEN <<s[i][1], r[s[i][1]]>> ELSE s[i]
    BY <1>1, UpdatedHolds
  <1>3. \A k \in DOMAIN r : k \in Path => r[k] \in {"default", "custom"}
    BY DEF Accepted
  <1> HIDE DEF s, u
  <1>4. DOMAIN u = DOMAIN s
    BY <1>1, <1>2
  <1>5. ASSUME NEW i \in DOMAIN u, u[i][1] \in Path PROVE u[i][2] \in Checked
    <2>1. CASE s[i][1] \in DOMAIN r
      <3>1. u[i] = <<s[i][1], r[s[i][1]]>>
        BY <1>2, <1>4, <2>1
      <3>2. u[i][1] = s[i][1] /\ u[i][2] = r[s[i][1]]
        BY <3>1
      <3> QED
        BY <1>3, <1>5, <2>1, <3>2 DEF Checked
    <2>2. CASE s[i][1] \notin DOMAIN r
      BY <1>1, <1>2, <1>4, <1>5, <2>2 DEF PathsIn
    <2> QED
      BY <2>1, <2>2
  <1> QED
    BY <1>1, <1>2, <1>5 DEF Sound, PathsIn, s, u

LEMMA NextSound ==
  ASSUME Inv, [Next]_vars
  PROVE  EnvsSound' /\ FileChecked' /\ NothingAsked' /\ EnvComplete'
  <1>1. Types /\ EnvsSound /\ FileChecked /\ NothingAsked
        /\ \A p \in Proc : pc[p] = "started" => Started(env[p])
    BY DEF Inv, EnvComplete, Started
  <1> DEFINE S(p) == /\ pc'[p] # "off" => Sound(env'[p])
                     /\ pc'[p] \in {"off", "started"} => asked'[p] = NoRequest
                     /\ pc'[p] = "started" => Started(env'[p])
             Kept(q) == pc'[q] = pc[q] /\ env'[q] = env[q] /\ asked'[q] = asked[q]
  <1>2. SUFFICES (\A q \in Proc : S(q)) /\ FileChecked'
    BY DEF EnvsSound, NothingAsked, EnvComplete, Started, Sound
  <1>3. \A q \in Proc : Kept(q) => S(q)
    BY <1>1 DEF EnvsSound, NothingAsked
  <1>4. ASSUME NEW p \in Proc, S(p), OnlyAt(p) PROVE \A q \in Proc : S(q)
    <2> HIDE DEF S
    <2> QED
      BY <1>3, <1>4 DEF OnlyAt
  <1>5. ASSUME NEW p \in Proc, Gone(p) PROVE \A q \in Proc : S(q)
    BY <1>1, <1>4, <1>5, GoneFacts
  <1>6. ASSUME NEW p \in Proc, Start(p) PROVE (\A q \in Proc : S(q)) /\ FileChecked'
    <2>1. /\ pc[p] = "off" /\ pc' = [pc EXCEPT ![p] = "started"]
          /\ env' = [env EXCEPT ![p] = InitFrom(file)] /\ asked' = asked /\ file' = file
      BY <1>6 DEF Start
    <2>2. Sound(InitFrom(file)) /\ Started(InitFrom(file))
      BY <1>1, InitIsSound
    <2>3. pc'[p] = "started" /\ env'[p] = InitFrom(file) /\ asked'[p] = NoRequest
      BY <1>1, <2>1 DEF Types, NothingAsked
    <2>4. OnlyAt(p)
      BY <1>1, <2>1 DEF Types, OnlyAt
    <2> QED
      BY <1>1, <1>4, <2>1, <2>2, <2>3, <2>4 DEF FileChecked
  <1>7. ASSUME NEW p \in Proc, NEW r \in Request, WriteEnv(p, r)
        PROVE  (\A q \in Proc : S(q)) /\ FileChecked'
    <2>1. pc[p] = "started" /\ file' = file
      BY <1>7 DEF WriteEnv
    <2>2. CASE Accepted(p, r)
      <3>1. /\ pc' = [pc EXCEPT ![p] = "accepted"]
            /\ env' = [env EXCEPT ![p] = Updated(env[p], r)]
            /\ asked' = [asked EXCEPT ![p] = r]
        BY <1>7, <2>2 DEF WriteEnv
      <3>2. Sound(Updated(env[p], r))
        BY <1>1, <2>1, <2>2, UpdatedIsSound DEF EnvsSound
      <3>3. pc'[p] = "accepted" /\ env'[p] = Updated(env[p], r) /\ OnlyAt(p)
        BY <1>1, <3>1 DEF Types, OnlyAt
      <3> QED
        BY <1>1, <1>4, <2>1, <3>2, <3>3 DEF FileChecked
    <2>3. CASE ~Accepted(p, r)
      BY <1>1, <1>5, <1>7, <2>1, <2>3 DEF WriteEnv, FileChecked
    <2> QED
      BY <2>2, <2>3
  <1>8. ASSUME NEW p \in Proc, Truncate(p) PROVE (\A q \in Proc : S(q)) /\ FileChecked'
    <2>1. /\ pc[p] = "accepted" /\ pc' = [pc EXCEPT ![p] = "truncated"]
          /\ env' = env /\ asked' = asked /\ file' = <<BadLine>>
      BY <1>8 DEF Truncate
    <2>2. pc'[p] = "truncated" /\ Sound(env'[p]) /\ OnlyAt(p)
      BY <1>1, <2>1 DEF Types, OnlyAt, EnvsSound
    <2>3. FileChecked'
      <3>1. DOMAIN <<BadLine>> = {1} /\ <<BadLine>>[1] = BadLine
        OBVIOUS
      <3> QED
        BY <2>1, <3>1, BadLineIsLine DEF FileChecked, PathsIn
    <2> QED
      BY <1>4, <2>2, <2>3
  <1>9. ASSUME NEW p \in Proc, Flush(p) PROVE (\A q \in Proc : S(q)) /\ FileChecked'
    <2>1. Gone(p) /\ pc[p] = "truncated"
      BY <1>9 DEF Flush
    <2>2. FileChecked'
      BY <1>1, <1>9, <2>1, FlushText DEF EnvsSound, FileChecked
    <2> QED
      BY <1>5, <2>1, <2>2
  <1>10. ASSUME NEW p \in Proc, CutWrite(p) PROVE (\A q \in Proc : S(q)) /\ FileChecked'
    <2>1. Gone(p) /\ pc[p] = "truncated"
      BY <1>10 DEF CutWrite
    <2>2. FileChecked'
      BY <1>1, <1>10, <2>1, CutText DEF EnvsSound, FileChecked
    <2> QED
      BY <1>5, <2>1, <2>2
  <1>11. ASSUME NEW p \in Proc, End(p) PROVE (\A q \in Proc : S(q)) /\ FileChecked'
    BY <1>1, <1>5, <1>11 DEF End, FileChecked
  <1>12. CASE Upgrade
    BY <1>1, <1>3, <1>12 DEF Upgrade, FileChecked
  <1>13. CASE UNCHANGED vars
    BY <1>1, <1>3, <1>13 DEF vars, FileChecked
  <1> QED
    BY <1>6, <1>7, <1>8, <1>9, <1>10, <1>11, <1>12, <1>13 DEF Next

LEMMA InitClean ==
  ASSUME Init
  PROVE  Inv
  <1>1. Types
    <2>1. <<>> \in Seq(Line)
      OBVIOUS
    <2>2. settings \in [Setting -> SettingValue]
      BY DEF Init, Default, SettingValue
    <2> QED
      BY <2>1, <2>2 DEF Init, Types, Stage
  <1>2. EnvsSound /\ FileChecked /\ NothingAsked /\ EnvComplete /\ OneWriter /\ FreshEnvs
    <2>1. DOMAIN <<>> = {}
      OBVIOUS
    <2> QED
      BY <2>1 DEF Init, EnvsSound, FileChecked, PathsIn, NothingAsked, EnvComplete, OneWriter, FreshEnvs
  <1>3. AddsUp
    <2> SUFFICES ASSUME NEW k \in Setting
                 PROVE  Pair(ReadEnv(<<>>), k)[2] = Told(k)
      BY DEF Init, AddsUp
    <2>1. settings[k] = Default(k)
      BY DEF Init
    <2>2. Told(k) = Default(k)
      BY <2>1 DEF Told
    <2>3. DOMAIN ReadEnv(<<>>) = {}
      <3>1. <<>> \in Seq(Line) /\ Len(<<>>) = 0 /\ DOMAIN <<>> = 1..0
        OBVIOUS
      <3>2. PICK r : ReadSoFar(<<>>, r)
        BY <3>1, ReadEnvUnfolds
      <3>3. ReadEnv(<<>>) = <<>>
        BY <3>1, <3>2 DEF ReadSoFar
      <3> QED
        BY <3>1, <3>3
    <2>4. ~Taken(ReadEnv(<<>>), k)
      BY <2>3 DEF Taken, Ordered!Has
    <2> QED
      BY <2>2, <2>4 DEF Pair
  <1> QED
    BY <1>1, <1>2, <1>3 DEF Inv

\* What a process that is not stale has written is read back as if every command were atomic.
LEMMA FlushAddsUp ==
  ASSUME Inv, NEW p \in Proc, Flush(p), ~disturbed', NEW k \in Setting
  PROVE  Pair(ReadEnv(file'), k)[2] = Told(k)'
  <1>1. /\ pc[p] = "truncated" /\ p \notin stale /\ ~disturbed
        /\ settings'[k] = IF k \in DOMAIN asked[p] THEN asked[p][k] ELSE settings[k]
    <2>1. pc[p] = "truncated" /\ disturbed' = (disturbed \/ p \in stale)
          /\ settings' = [q \in Setting |->
                            IF disturbed' THEN Default(q)
                            ELSE IF q \in DOMAIN asked[p] THEN asked[p][q] ELSE settings[q]]
      BY DEF Flush
    <2> QED
      BY <2>1
  <1>2. /\ Sound(env[p]) /\ env[p] \in Seq(Line) /\ file = <<BadLine>>
        /\ GetOr(env[p], k, "odd") = IF k \in DOMAIN asked[p] THEN asked[p][k] ELSE Told(k)
    BY <1>1 DEF Inv, Types, EnvsSound, OneWriter, FreshEnvs
  <1>3. file' = env[p]
    BY <1>2, FlushText DEF Inv
  <1> DEFINE s == env[p]
             read == ReadEnv(s)
             x == GetOr(s, k, "odd")
  <1>4. Ordered!Has(s, k)
    <2>1. k \in Keys(s)
      BY <1>2 DEF Sound, EnvKey
    <2> QED
      BY <2>1 DEF Keys, Ordered!Has
  <1>5. Occurs(s, <<k, x>>)
    BY <1>2, <1>4, GetOrFinds
  <1>6. Occurs(read, <<k, x>>)
    BY <1>2, <1>5, ReadBack DEF Sound
  <1>7. read \in Seq(Line) /\ OncePerKey(read)
    BY <1>2, ReadEnvHolds
  <1> HIDE DEF s, read, x
  <1>8. Ordered!Has(read, k) /\ GetOr(read, k, Default(k)) = x
    BY <1>6, <1>7, GetOrGives
  <1>9. Pair(read, k)[2] = IF Honoured(k, x) THEN x ELSE Default(k)
    BY <1>8 DEF Pair, Taken
  <1>10. Told(k)' = IF Honoured(k, settings'[k]) THEN settings'[k] ELSE Default(k)
    BY DEF Told, Honoured, Default
  <1>11. Pair(ReadEnv(file'), k)[2] = Pair(read, k)[2]
    BY <1>3 DEF read, s
  <1>12. CASE k \in DOMAIN asked[p]
    <2>1. x = settings'[k]
      BY <1>1, <1>2, <1>12 DEF x, s
    <2> QED
      BY <1>9, <1>10, <1>11, <2>1
  <1>13. CASE k \notin DOMAIN asked[p]
    <2>1. x = Told(k) /\ settings'[k] = settings[k]
      BY <1>1, <1>2, <1>13 DEF x, s
    <2>2. CASE Honoured(k, settings[k])
      <3>1. x = settings[k]
        BY <2>1, <2>2 DEF Told
      <3> QED
        BY <1>9, <1>10, <1>11, <2>1, <3>1
    <2>3. CASE ~Honoured(k, settings[k])
      <3>1. x = "default" /\ Default(k) = "default"
        BY <2>1, <2>3 DEF Told, Default
      <3>2. Honoured(k, x)
        BY <3>1, HonouredIs
      <3> QED
        BY <1>9, <1>10, <1>11, <2>1, <2>3, <3>1, <3>2
    <2> QED
      BY <2>2, <2>3
  <1> QED
    BY <1>12, <1>13

\* A process that goes while nobody writes.
LEMMA GoneClean ==
  ASSUME Inv, NEW p \in Proc, Gone(p), pc[p] # "truncated",
         UNCHANGED <<file, settings, disturbed>>
  PROVE  OneWriter' /\ FreshEnvs' /\ AddsUp'
  <1>1. /\ pc'[p] = "off" /\ OnlyAt(p)
        /\ \A q \in Proc \ {p} : q \in stale' <=> q \in stale
    BY GoneFacts DEF Inv
  <1>2. \A k : Told(k)' = Told(k)
    BY DEF Told, Honoured, Default
  <1>3. OneWriter /\ FreshEnvs /\ AddsUp
    BY DEF Inv
  <1>4. OneWriter'
    BY <1>1, <1>3 DEF OneWriter, OnlyAt
  <1>5. FreshEnvs'
    BY <1>1, <1>2, <1>3 DEF FreshEnvs, OnlyAt
  <1>6. AddsUp'
    BY <1>1, <1>2, <1>3 DEF AddsUp, OnlyAt
  <1> QED
    BY <1>4, <1>5, <1>6

LEMMA NextClean ==
  ASSUME Inv, [Next]_vars
  PROVE  OneWriter' /\ FreshEnvs' /\ AddsUp'
  <1>1. Types /\ EnvsSound /\ NothingAsked /\ OneWriter /\ FreshEnvs /\ AddsUp
    BY DEF Inv
  <1>2. settings' = settings => \A k : Told(k)' = Told(k)
    BY DEF Told, Honoured, Default
  <1>3. ASSUME NEW p \in Proc, Start(p) PROVE OneWriter' /\ FreshEnvs' /\ AddsUp'
    <2>1. /\ pc[p] = "off" /\ pc' = [pc EXCEPT ![p] = "started"]
          /\ env' = [env EXCEPT ![p] = InitFrom(file)]
          /\ stale' = IF \E q \in Proc : pc[q] = "truncated" THEN stale \cup {p} ELSE stale
          /\ UNCHANGED <<asked, file, installed, settings, disturbed>>
      BY <1>3 DEF Start
    <2>2. pc'[p] = "started" /\ env'[p] = InitFrom(file) /\ OnlyAt(p)
      BY <1>1, <2>1 DEF Types, OnlyAt
    <2>3. OneWriter'
      BY <1>1, <2>1, <2>2 DEF OneWriter, OnlyAt
    <2>4. AddsUp'
      BY <1>1, <1>2, <2>1, <2>2 DEF AddsUp, OnlyAt
    <2>5. FreshEnvs'
      <3> SUFFICES ASSUME ~disturbed, NEW q \in Proc, q \notin stale', pc'[q] # "off", NEW k \in Setting
                   PROVE  GetOr(env'[q], k, "odd") = IF k \in DOMAIN asked[q] THEN asked[q][k] ELSE Told(k)
        BY <1>2, <2>1 DEF FreshEnvs
      <3>1. CASE q = p
        <4>1. \A r \in Proc : pc[r] # "truncated"
          BY <2>1, <3>1
        <4>2. Pair(ReadEnv(file), k)[2] = Told(k)
          BY <1>1, <4>1 DEF AddsUp
        <4>3. env'[q] = Arranged(installed, file)
          BY <2>2, <3>1, InitFromIsArranged
        <4>4. GetOr(env'[q], k, "odd") = Told(k)
          BY <1>1, <4>2, <4>3, InitValue DEF Types
        <4>5. k \notin DOMAIN asked[q]
          BY <1>1, <2>1, <3>1, NobodyAsks DEF NothingAsked
        <4> QED
          BY <4>4, <4>5
      <3>2. CASE q # p
        BY <1>1, <2>1, <2>2, <3>2 DEF FreshEnvs, OnlyAt
      <3> QED
        BY <3>1, <3>2
    <2> QED
      BY <2>3, <2>4, <2>5
  <1>4. ASSUME NEW p \in Proc, NEW r \in Request, WriteEnv(p, r)
        PROVE  OneWriter' /\ FreshEnvs' /\ AddsUp'
    <2>1. pc[p] = "started" /\ UNCHANGED <<file, installed, settings, disturbed>>
      BY <1>4 DEF WriteEnv
    <2>2. CASE Accepted(p, r)
      <3>1. /\ pc' = [pc EXCEPT ![p] = "accepted"]
            /\ env' = [env EXCEPT ![p] = Updated(env[p], r)]
            /\ asked' = [asked EXCEPT ![p] = r]
            /\ stale' = stale
        BY <1>4, <2>2 DEF WriteEnv
      <3>2. /\ pc'[p] = "accepted" /\ env'[p] = Updated(env[p], r) /\ asked'[p] = r
            /\ OnlyAt(p)
        BY <1>1, <3>1 DEF Types, OnlyAt
      <3>3. OneWriter'
        BY <1>1, <2>1, <3>1, <3>2 DEF OneWriter, OnlyAt
      <3>4. AddsUp'
        BY <1>1, <1>2, <2>1, <3>2 DEF AddsUp, OnlyAt
      <3>5. FreshEnvs'
        <4> SUFFICES ASSUME ~disturbed, NEW q \in Proc, q \notin stale, pc'[q] # "off", NEW k \in Setting
                     PROVE  GetOr(env'[q], k, "odd") =
                              IF k \in DOMAIN asked'[q] THEN asked'[q][k] ELSE Told(k)
          BY <1>2, <2>1, <3>1 DEF FreshEnvs
        <4>1. CASE q = p
          <5>1. env[p] \in Seq(Line) /\ OncePerKey(env[p]) /\ k \in Keys(env[p])
            BY <1>1, <2>1 DEF Types, EnvsSound, Sound, EnvKey
          <5>2. GetOr(Updated(env[p], r), k, "odd") =
                  IF k \in DOMAIN r THEN r[k] ELSE GetOr(env[p], k, "odd")
            BY <5>1, UpdatedHolds
          <5>3. k \notin DOMAIN asked[p]
            BY <1>1, <2>1, NobodyAsks DEF NothingAsked
          <5>4. GetOr(env[p], k, "odd") = Told(k)
            BY <1>1, <2>1, <4>1, <5>3 DEF FreshEnvs
          <5> QED
            BY <3>2, <4>1, <5>2, <5>4
        <4>2. CASE q # p
          BY <1>1, <3>2, <4>2 DEF FreshEnvs, OnlyAt
        <4> QED
          BY <4>1, <4>2
      <3> QED
        BY <3>3, <3>4, <3>5
    <2>3. CASE ~Accepted(p, r)
      <3>1. Gone(p)
        BY <1>4, <2>3 DEF WriteEnv
      <3> QED
        BY <2>1, <3>1, GoneClean
    <2> QED
      BY <2>2, <2>3
  <1>5. ASSUME NEW p \in Proc, Truncate(p) PROVE OneWriter' /\ FreshEnvs' /\ AddsUp'
    <2>1. /\ pc[p] = "accepted" /\ pc' = [pc EXCEPT ![p] = "truncated"] /\ file' = <<BadLine>>
          /\ stale' = stale \cup {q \in Proc \ {p} : pc[q] # "off"}
          /\ disturbed' = (disturbed \/ p \in stale)
          /\ env' = env /\ asked' = asked /\ settings' = settings
      BY <1>5 DEF Truncate
    <2>2. pc'[p] = "truncated" /\ OnlyAt(p)
      BY <1>1, <2>1 DEF Types, OnlyAt
    <2>3. AddsUp'
      BY <2>2 DEF AddsUp
    <2>4. OneWriter'
      <3> SUFFICES ASSUME ~disturbed, p \notin stale, NEW q \in Proc, pc'[q] = "truncated"
                   PROVE  /\ q \notin stale'
                          /\ file' = <<BadLine>>
                          /\ \A r \in Proc \ {q} : pc'[r] # "off" => r \in stale'
        BY <2>1 DEF OneWriter
      <3>1. q = p
        <4>1. q # p => pc[q] = "truncated"
          BY <2>2 DEF OnlyAt
        <4>2. q # p => p \in stale
          BY <1>1, <2>1, <4>1 DEF OneWriter
        <4> QED
          BY <4>2
      <3> QED
        BY <2>1, <2>2, <3>1 DEF OnlyAt
    <2>5. FreshEnvs'
      BY <1>1, <1>2, <2>1, <2>2 DEF FreshEnvs, OnlyAt
    <2> QED
      BY <2>3, <2>4, <2>5
  <1>6. ASSUME NEW p \in Proc, Flush(p) PROVE OneWriter' /\ FreshEnvs' /\ AddsUp'
    <2>1. Gone(p) /\ pc[p] = "truncated" /\ disturbed' = (disturbed \/ p \in stale)
      BY <1>6 DEF Flush
    <2>2. /\ pc'[p] = "off" /\ OnlyAt(p)
          /\ \A q \in Proc \ {p} : q \in stale' <=> q \in stale
      BY <1>1, <2>1, GoneFacts
    <2>3. AddsUp'
      BY <1>6, FlushAddsUp DEF AddsUp
    <2>4. ~disturbed' => \A q \in Proc \ {p} : pc[q] # "off" => q \in stale
      BY <1>1, <2>1 DEF OneWriter
    <2>5. FreshEnvs'
      BY <2>2, <2>4 DEF FreshEnvs, OnlyAt
    <2>6. OneWriter'
      BY <1>1, <2>1, <2>2, <2>4 DEF OneWriter, OnlyAt
    <2> QED
      BY <2>3, <2>5, <2>6
  <1>7. ASSUME NEW p \in Proc, CutWrite(p) PROVE OneWriter' /\ FreshEnvs' /\ AddsUp'
    BY <1>7 DEF CutWrite, OneWriter, FreshEnvs, AddsUp
  <1>8. ASSUME NEW p \in Proc, End(p) PROVE OneWriter' /\ FreshEnvs' /\ AddsUp'
    <2>1. Gone(p) /\ disturbed' = (disturbed \/ pc[p] = "truncated") /\ UNCHANGED <<file, settings>>
      BY <1>8 DEF End
    <2>2. CASE pc[p] = "truncated"
      BY <2>1, <2>2 DEF OneWriter, FreshEnvs, AddsUp
    <2>3. CASE pc[p] # "truncated"
      <3>1. disturbed' = disturbed
        BY <1>1, <2>1, <2>3 DEF Types
      <3> QED
        BY <2>1, <2>3, <3>1, GoneClean
    <2> QED
      BY <2>2, <2>3
  <1>9. CASE Upgrade
    BY <1>1, <1>2, <1>9 DEF Upgrade, OneWriter, FreshEnvs, AddsUp
  <1>10. CASE UNCHANGED vars
    BY <1>1, <1>2, <1>10 DEF vars, OneWriter, FreshEnvs, AddsUp
  <1> QED
    BY <1>3, <1>4, <1>5, <1>6, <1>7, <1>8, <1>9, <1>10 DEF Next

-----------------------------------------------------------------------------
(* Theorems *)

\* What the processes, the file and the histories always are, in every interleaving.
THEOREM StoreInvariant == Spec => []Inv
  <1>1. Init => Inv
    BY InitClean
  <1>2. Inv /\ [Next]_vars => Inv'
    BY NextTypes, NextSound, NextClean DEF Inv
  <1> QED
    BY <1>1, <1>2, PTL DEF Spec

\* Whatever the file holds, cut off, torn or written by another version, a process starts
\* with every key once: init falls back on its defaults and never reads a system key.
THEOREM ProcessesStartComplete == Spec => []EnvComplete
  <1>1. Inv => EnvComplete
    BY DEF Inv
  <1> QED
    BY <1>1, StoreInvariant, PTL

\* No process, and no chain of processes that overwrite each other's files, comes by a path
\* that did not exist when env -w was asked to set it, but for the rest of a cut one.
THEOREM PathsWereChecked == Spec => []PathsExisted
  <1>1. Inv => PathsExisted
    <2> SUFFICES ASSUME Inv, NEW p \in Proc, NEW k \in Path, pc[p] # "off"
                 PROVE  GetOr(env[p], k, "odd") \in {"default", "custom", "cut"}
      BY DEF PathsExisted
    <2>1. env[p] \in Seq(Line) /\ OncePerKey(env[p]) /\ Keys(env[p]) = EnvKey /\ PathsIn(env[p], Checked)
      BY DEF Inv, Types, EnvsSound, Sound
    <2> DEFINE s == env[p]
    <2>2. k \in Keys(s)
      BY <2>1 DEF Path, EnvKey, Setting
    <2> HIDE DEF s
    <2>3. PICK i \in DOMAIN s : s[i][1] = k
      BY <2>2 DEF Keys
    <2>4. s \in Seq(Line) /\ OncePerKey(s) /\ s[i] \in Line
      BY <2>1, <2>3 DEF s
    <2>5. s[i] = <<k, s[i][2]>>
      BY <2>3, <2>4, PairsAreTwo
    <2>6. GetOr(s, k, "odd") = s[i][2]
      BY <2>4, <2>5, GetOrGives DEF Occurs
    <2> QED
      BY <2>1, <2>3, <2>6 DEF s, PathsIn, Checked
  <1> QED
    BY <1>1, StoreInvariant, PTL

\* As long as no write is cut off and no process writes that read before another wrote, the
\* commands add up: a later process starts with the last value accepted for each setting.
THEOREM LastValuesStand == Spec => []CommandsAddUp
  <1>1. Inv => CommandsAddUp
    <2> SUFFICES ASSUME Inv, ~disturbed, \A p \in Proc : pc[p] # "truncated", NEW k \in Setting
                 PROVE  GetOr(InitFrom(file), k, "odd") =
                          IF Honoured(k, settings[k]) THEN settings[k] ELSE Default(k)
      BY DEF CommandsAddUp
    <2>1. Pair(ReadEnv(file), k)[2] = Told(k)
      BY DEF Inv, AddsUp
    <2>2. GetOr(Arranged(installed, file), k, "odd") = Pair(ReadEnv(file), k)[2]
      BY InitValue DEF Inv, Types
    <2>3. InitFrom(file) = Arranged(installed, file)
      BY InitFromIsArranged
    <2> QED
      BY <2>1, <2>2, <2>3 DEF Told
  <1> QED
    BY <1>1, StoreInvariant, PTL
===============================================================================
