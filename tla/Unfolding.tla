------------------------------ MODULE Unfolding ------------------------------
(***************************************************************************)
(* What proofs need of the recursions in the community modules: nonempty    *)
(* sets of natural numbers have a least element, and an upper bound makes a *)
(* greatest one; FlattenSeq lays sequences one after the other.  The        *)
(* library's SmallestNatural takes an operator as a parameter; Least goes   *)
(* through the intervals 0..i, which are finite and therefore well-founded  *)
(* under strict inclusion.                                                  *)
(***************************************************************************)
EXTENDS Integers, SequencesExt, FiniteSetTheorems, SequenceTheorems, TLAPS

-----------------------------------------------------------------------------
(* Sets of numbers *)

\* Every nonempty set of natural numbers has a least element: what "the first that
\* matches" relies on, in the switches and loops of the code.
LEMMA Least ==
    ASSUME NEW S \in SUBSET Nat, S # {}
    PROVE  \E i \in S : \A j \in S : i <= j
<1> DEFINE Below == {0..i : i \in S}
<1>1. ASSUME NEW B \in Below PROVE B \in FiniteSubsetsOf(Nat)
  <2>1. PICK i \in S : B = 0..i
    BY <1>1
  <2>2. IsFiniteSet(0..i)
    BY FS_Interval
  <2>3. 0..i \subseteq Nat
    OBVIOUS
  <2> QED BY <2>1, <2>2, <2>3 DEF FiniteSubsetsOf
<1>2. Below # {}
  OBVIOUS
<1>3. PICK B \in Below : \A C \in Below : ~ (<<C, B>> \in StrictSubsetOrdering(Nat))
  <2> HIDE DEF Below
  <2>1. Below \subseteq FiniteSubsetsOf(Nat)
    BY <1>1
  <2> QED BY <2>1, <1>2, FS_StrictSubsetOrderingWellFounded, WFMin
<1>4. PICK i \in S : B = 0..i
  BY <1>3
<1>5. ASSUME NEW j \in S, j < i PROVE FALSE
  <2>1. 0..j \in Below
    OBVIOUS
  <2>2. 0..j \subseteq 0..i /\ 0..j # 0..i
    BY <1>5
  <2>3. <<0..j, 0..i>> \in (SUBSET Nat) \X (SUBSET Nat)
    OBVIOUS
  <2>4. <<0..j, 0..i>> \in StrictSubsetOrdering(Nat)
    BY <2>2, <2>3, Zenon DEF StrictSubsetOrdering
  <2> HIDE DEF Below
  <2> QED BY <1>3, <1>4, <2>1, <2>4
<1> QED BY <1>5

\* Every nonempty set of numbers up to n has a greatest element.
LEMMA Greatest ==
    ASSUME NEW n \in Nat, NEW S \in SUBSET (0..n), S # {}
    PROVE  \E i \in S : \A j \in S : j <= i
<1> DEFINE Distances == {n - i : i \in S}
<1>1. Distances \in SUBSET Nat /\ Distances # {}
  <2>1. \A i \in S : n - i \in Nat
    OBVIOUS
  <2>2. Distances # {}
    OBVIOUS
  <2> QED BY <2>1, <2>2
<1>2. PICK d \in Distances : \A e \in Distances : d <= e
  <2> HIDE DEF Distances
  <2> QED BY <1>1, Least
<1>3. PICK i \in S : d = n - i
  BY <1>2
<1>4. ASSUME NEW j \in S PROVE j <= i
  <2>1. n - j \in Distances
    OBVIOUS
  <2>2. n - i <= n - j
    <3> HIDE DEF Distances
    <3> QED BY <1>2, <1>3, <2>1
  <2> QED BY <2>2
<1> QED BY <1>4

\* The greatest of a set of numbers up to n, as Max chooses it.
LEMMA MaxIs ==
  ASSUME NEW S, NEW m \in S, \A x \in S : x \in Int, \A x \in S : x <= m
  PROVE  Max(S) = m
  <1>1. \A y \in S : m >= y
    OBVIOUS
  <1>2. Max(S) \in S /\ \A y \in S : Max(S) >= y
    BY <1>1 DEF Max
  <1> QED
    BY <1>2

LEMMA MaxOf ==
  ASSUME NEW n \in Nat, NEW S \in SUBSET (0 .. n), S # {}
  PROVE  Max(S) \in S /\ \A x \in S : x <= Max(S)
  <1>1. PICK m \in S : \A x \in S : x <= m
    BY Greatest
  <1>2. Max(S) = m
    <2>1. \A x \in S : x \in Int
      OBVIOUS
    <2> QED
      BY <1>1, <2>1, MaxIs
  <1> QED
    BY <1>1, <1>2

\* And the least, as Min does.
LEMMA MinOf ==
  ASSUME NEW S \in SUBSET Nat, S # {}
  PROVE  Min(S) \in S /\ \A x \in S : Min(S) <= x
  <1>1. PICK m \in S : \A x \in S : m <= x
    BY Least
  <1>2. \A y \in S : m =< y
    BY <1>1
  <1> QED
    BY <1>2 DEF Min

LEMMA MaxIsTop ==
  ASSUME NEW n \in Nat, NEW t \in SUBSET (1..n), n \in t
  PROVE  Max(t) = n
  <1>1. \A x \in t : x \in Int /\ x <= n
    OBVIOUS
  <1> QED
    BY <1>1, MaxIs

-----------------------------------------------------------------------------
(* FlattenSeq *)

\* What FlattenSeq's recursion makes of the first m sequences.
Flat(seqs, h, m) == h = [i \in 1..m |-> IF i = 1 THEN seqs[i] ELSE h[i-1] \o seqs[i]]

\* The recursion of FlattenSeq has a solution, and FlattenSeq is its last value.
LEMMA FlattenUnfolds ==
  ASSUME NEW S, NEW seqs \in Seq(Seq(S)), seqs # << >>
  PROVE  /\ Len(seqs) \in Nat \ {0}
         /\ \E h : Flat(seqs, h, Len(seqs)) /\ FlattenSeq(seqs) = h[Len(seqs)]
  <1> DEFINE n == Len(seqs)
             Fl(h, m) == h = [i \in 1..m |-> IF i = 1 THEN seqs[i] ELSE h[i-1] \o seqs[i]]
  <1>1. n \in Nat \ {0} /\ \A i \in 1..n : seqs[i] \in Seq(S)
    OBVIOUS
  <1>2. ASSUME NEW m \in 0..n PROVE \E h : Fl(h, m)
    <2> DEFINE Bad == {i \in 0..n : ~ \E h : Fl(h, i)}
    <2>1. SUFFICES ASSUME Bad # {} PROVE FALSE
      BY <1>1
    <2>2. Bad \in SUBSET Nat
      <3> HIDE DEF Fl
      <3> QED
        BY <1>1
    <2>3. PICK k \in Bad : \A j \in Bad : k <= j
      <3> HIDE DEF Bad
      <3> QED
        BY <2>1, <2>2, Least
    <2>4. k \in 0..n /\ ~ \E h : Fl(h, k)
      BY <2>3
    <2>5. CASE k = 0
      <3>1. Fl([i \in 1..0 |-> <<>>], 0)
        OBVIOUS
      <3> QED
        BY <2>4, <2>5, <3>1
    <2>6. CASE k # 0
      <3>1. k - 1 \in 0..n /\ k - 1 \notin Bad /\ k \in Nat \ {0}
        <4> HIDE DEF Bad, Fl
        <4> QED
          BY <1>1, <2>3, <2>4, <2>6
      <3>2. PICK g : Fl(g, k - 1)
        BY <3>1
      <3> DEFINE h == [i \in 1..k |-> IF i = 1 THEN seqs[i] ELSE g[i-1] \o seqs[i]]
      <3>3. ASSUME NEW i \in 1..(k - 1) PROVE h[i] = g[i]
        <4> HIDE DEF Bad
        <4>1. i \in 1..k
          BY <3>1
        <4>2. g[i] = IF i = 1 THEN seqs[i] ELSE g[i-1] \o seqs[i]
          BY <3>2
        <4> QED
          BY <4>1, <4>2
      <3>4. ASSUME NEW i \in 1..k PROVE h[i] = IF i = 1 THEN seqs[i] ELSE h[i-1] \o seqs[i]
        <4>1. i # 1 => i - 1 \in 1..(k - 1)
          BY <3>1
        <4> QED
          BY <3>1, <3>3, <4>1
      <3>5. Fl(h, k)
        <4> HIDE DEF h
        <4>1. h = [i \in 1..k |-> h[i]]
          BY DEF h
        <4> QED
          BY <3>4, <4>1
      <3> QED
        BY <2>4, <3>5
    <2> QED
      BY <2>5, <2>6
  <1>3. \E h : Fl(h, n)
    <2> HIDE DEF Fl
    <2> QED
      BY <1>1, <1>2
  <1>4. Fl(CHOOSE h : Fl(h, n), n)
    BY <1>3, Zenon
  <1>5. FlattenSeq(seqs) = (CHOOSE h : Fl(h, n))[n]
    BY <1>1 DEF FlattenSeq
  <1>6. \A h : Fl(h, n) <=> Flat(seqs, h, n)
    BY DEF Flat
  <1> HIDE DEF Fl
  <1> QED
    BY <1>1, <1>4, <1>5, <1>6

\* Every value of that recursion is a sequence.
LEMMA FlatIsSeq ==
  ASSUME NEW S, NEW seqs \in Seq(Seq(S)), NEW m \in 1..Len(seqs), NEW h, Flat(seqs, h, m)
  PROVE  \A i \in 1..m : h[i] \in Seq(S)
  <1>1. \A i \in 1..m : seqs[i] \in Seq(S)
    OBVIOUS
  <1> DEFINE Bad == {i \in 1..m : h[i] \notin Seq(S)}
  <1>2. SUFFICES ASSUME Bad # {} PROVE FALSE
    OBVIOUS
  <1>3. Bad \in SUBSET Nat
    OBVIOUS
  <1>4. PICK k \in Bad : \A j \in Bad : k <= j
    <2> HIDE DEF Bad
    <2> QED
      BY <1>2, <1>3, Least
  <1>5. k \in 1..m /\ h[k] \notin Seq(S) /\ seqs[k] \in Seq(S)
    BY <1>1, <1>4
  <1>6. h[k] = IF k = 1 THEN seqs[k] ELSE h[k - 1] \o seqs[k]
    BY <1>5 DEF Flat
  <1>7. k # 1 => h[k - 1] \in Seq(S)
    BY <1>4, <1>5
  <1> QED
    BY <1>5, <1>6, <1>7

\* The flattening of a sequence of sequences is a sequence of their elements.
LEMMA FlattenIsSeq ==
  ASSUME NEW S, NEW seqs \in Seq(Seq(S))
  PROVE  FlattenSeq(seqs) \in Seq(S)
  <1>1. CASE seqs = << >>
    BY <1>1, EmptySeq DEF FlattenSeq
  <1>2. CASE seqs # << >>
    <2>1. PICK h : Flat(seqs, h, Len(seqs)) /\ FlattenSeq(seqs) = h[Len(seqs)]
      BY <1>2, FlattenUnfolds
    <2>2. Len(seqs) \in 1..Len(seqs)
      BY <1>2
    <2> QED
      BY <2>1, <2>2, FlatIsSeq
  <1> QED
    BY <1>1, <1>2

\* What a sequence holds.
Holding(s, x) == \E i \in 1..Len(s) : s[i] = x

LEMMA ConcatHolds ==
  ASSUME NEW S, NEW s \in Seq(S), NEW t \in Seq(S), NEW x, Holding(s, x) \/ Holding(t, x)
  PROVE  Holding(s \o t, x)
  <1>1. /\ Len(s) \in Nat /\ Len(t) \in Nat /\ Len(s \o t) = Len(s) + Len(t)
        /\ \A i \in 1..Len(s) : (s \o t)[i] = s[i]
        /\ \A i \in 1..Len(t) : (s \o t)[Len(s) + i] = t[i]
    OBVIOUS
  <1>2. ASSUME NEW i \in 1..Len(s), s[i] = x PROVE Holding(s \o t, x)
    <2>1. i \in 1..Len(s \o t) /\ (s \o t)[i] = x
      BY <1>1, <1>2
    <2> QED
      BY <2>1 DEF Holding
  <1>3. ASSUME NEW i \in 1..Len(t), t[i] = x PROVE Holding(s \o t, x)
    <2>1. Len(s) + i \in 1..Len(s \o t) /\ (s \o t)[Len(s) + i] = x
      BY <1>1, <1>3
    <2> QED
      BY <2>1 DEF Holding
  <1> QED
    BY <1>2, <1>3 DEF Holding

\* Flattening loses nothing.
LEMMA FlattenHolds ==
  ASSUME NEW S, NEW seqs \in Seq(Seq(S)), NEW b \in 1..Len(seqs), NEW x, Holding(seqs[b], x)
  PROVE  Holding(FlattenSeq(seqs), x)
  <1> DEFINE n == Len(seqs)
  <1>1. seqs # << >> /\ n \in Nat /\ \A i \in 1..n : seqs[i] \in Seq(S)
    OBVIOUS
  <1>2. PICK h : Flat(seqs, h, n) /\ FlattenSeq(seqs) = h[n]
    BY <1>1, FlattenUnfolds
  <1>3. \A i \in 1..n : h[i] \in Seq(S)
    <2>1. n \in 1..n
      BY <1>1
    <2> HIDE DEF n
    <2> QED
      BY <1>2, <2>1, FlatIsSeq DEF n
  <1>4. \A i \in 1..n : h[i] = IF i = 1 THEN seqs[i] ELSE h[i - 1] \o seqs[i]
    BY <1>2 DEF Flat
  <1> DEFINE Bad == {i \in b..n : ~Holding(h[i], x)}
  <1>5. Bad = {}
    <2>1. SUFFICES ASSUME Bad # {} PROVE FALSE
      OBVIOUS
    <2>2. Bad \in SUBSET Nat
      BY <1>1
    <2>3. PICK k \in Bad : \A j \in Bad : k <= j
      <3> HIDE DEF Bad
      <3> QED
        BY <2>1, <2>2, Least
    <2>4. k \in b..n /\ k \in 1..n /\ ~Holding(h[k], x)
      BY <1>1, <2>3
    <2>5. k # b => k - 1 \in b..n /\ k - 1 \in 1..n /\ Holding(h[k - 1], x)
      BY <1>1, <2>3, <2>4
    <2>6. CASE k = 1
      <3>1. k = b /\ h[k] = seqs[b]
        BY <1>4, <2>4, <2>6
      <3> QED
        BY <2>4, <3>1
    <2>7. CASE k # 1
      <3>0. h[k] = h[k - 1] \o seqs[k]
        <4> HIDE DEF Bad, n
        <4> QED
          BY <1>4, <2>4, <2>7
      <3>1. h[k] = h[k - 1] \o seqs[k] /\ k - 1 \in 1..n
        BY <1>1, <2>4, <2>7, <3>0
      <3>2. h[k - 1] \in Seq(S) /\ seqs[k] \in Seq(S)
        BY <1>1, <1>3, <2>4, <3>1
      <3>3. Holding(h[k - 1], x) \/ Holding(seqs[k], x)
        BY <2>5
      <3> QED
        BY <2>4, <3>1, <3>2, <3>3, ConcatHolds
    <2> QED
      BY <2>6, <2>7
  <1>6. n \in b..n
    BY <1>1
  <1> QED
    BY <1>2, <1>5, <1>6

(***************************************************************************)
(* Where FlattenSeq puts the elements: row[x] and col[x] say from which     *)
(* sequence, and from which place of it, the element at x comes.            *)
(***************************************************************************)
LaidOut(seqs, m, s, row, col) ==
    /\ row \in [1..Len(s) -> 1..m] /\ col \in [1..Len(s) -> Nat]
    /\ \A x \in 1..Len(s) : col[x] \in 1..Len(seqs[row[x]]) /\ s[x] = seqs[row[x]][col[x]]
    /\ \A x, y \in 1..Len(s) : x < y => row[x] < row[y] \/ (row[x] = row[y] /\ col[x] < col[y])
    /\ \A b \in 1..m : \A k \in 1..Len(seqs[b]) : \E x \in 1..Len(s) : row[x] = b /\ col[x] = k

\* One more sequence comes behind the others.
LEMMA LaidNext ==
  ASSUME NEW S, NEW seqs \in Seq(Seq(S)), NEW m \in Nat, m + 1 \in 1..Len(seqs),
         NEW s \in Seq(S), NEW row, NEW col, LaidOut(seqs, m, s, row, col)
  PROVE  \E r, c : LaidOut(seqs, m + 1, s \o seqs[m + 1], r, c)
  <1> DEFINE n == Len(s)
             t == s \o seqs[m + 1]
             r == [x \in 1..Len(t) |-> IF x <= n THEN row[x] ELSE m + 1]
             c == [x \in 1..Len(t) |-> IF x <= n THEN col[x] ELSE x - n]
  <1>1. /\ n \in Nat /\ seqs[m + 1] \in Seq(S) /\ Len(seqs[m + 1]) \in Nat
        /\ Len(t) = n + Len(seqs[m + 1])
        /\ \A x \in 1..n : t[x] = s[x]
        /\ \A k \in 1..Len(seqs[m + 1]) : t[n + k] = seqs[m + 1][k]
    OBVIOUS
  <1> HIDE DEF t, n
  <1>2. ASSUME NEW x \in 1..Len(t), x <= n
        PROVE  /\ x \in 1..n /\ t[x] = s[x] /\ r[x] = row[x] /\ c[x] = col[x]
               /\ row[x] \in 1..m /\ col[x] \in 1..Len(seqs[row[x]]) /\ s[x] = seqs[row[x]][col[x]]
    <2>1. x \in 1..n
      BY <1>1, <1>2
    <2>2. row[x] \in 1..m /\ col[x] \in 1..Len(seqs[row[x]]) /\ s[x] = seqs[row[x]][col[x]]
      BY <2>1 DEF LaidOut, n
    <2> QED
      BY <1>1, <1>2, <2>1, <2>2
  <1>3. ASSUME NEW x \in 1..Len(t), ~(x <= n)
        PROVE  /\ x - n \in 1..Len(seqs[m + 1]) /\ t[x] = seqs[m + 1][x - n]
               /\ r[x] = m + 1 /\ c[x] = x - n
    <2>1. x - n \in 1..Len(seqs[m + 1]) /\ n + (x - n) = x
      BY <1>1, <1>3
    <2> QED
      BY <1>1, <1>3, <2>1
  <1>4. r \in [1..Len(t) -> 1..(m + 1)] /\ c \in [1..Len(t) -> Nat]
    <2>1. \A x \in 1..Len(t) : r[x] \in 1..(m + 1) /\ c[x] \in Nat
      <3> TAKE x \in 1..Len(t)
      <3>1. CASE x <= n
        <4>1. col[x] \in Nat
          BY <1>2, <3>1 DEF LaidOut, n
        <4>2. r[x] = row[x] /\ c[x] = col[x] /\ row[x] \in 1..m
          BY <1>2, <3>1
        <4> HIDE DEF r, c
        <4> QED
          BY <4>1, <4>2
      <3>2. CASE ~(x <= n)
        <4>1. x - n \in 1..Len(seqs[m + 1]) /\ r[x] = m + 1 /\ c[x] = x - n
          BY <1>3, <3>2
        <4> HIDE DEF r, c
        <4> QED
          BY <4>1
      <3> QED
        BY <3>1, <3>2
    <2>2. r = [x \in 1..Len(t) |-> r[x]] /\ c = [x \in 1..Len(t) |-> c[x]]
      OBVIOUS
    <2> HIDE DEF r, c
    <2> QED
      BY <2>1, <2>2
  <1>5. ASSUME NEW x \in 1..Len(t) PROVE c[x] \in 1..Len(seqs[r[x]]) /\ t[x] = seqs[r[x]][c[x]]
    <2>1. x <= n \/ ~(x <= n)
      OBVIOUS
    <2> HIDE DEF r, c
    <2> QED
      BY <1>2, <1>3, <2>1
  <1>6. ASSUME NEW x \in 1..Len(t), NEW y \in 1..Len(t), x < y
        PROVE  r[x] < r[y] \/ (r[x] = r[y] /\ c[x] < c[y])
    <2>0. n \in Nat /\ x \in Nat /\ y \in Nat
      BY <1>1
    <2>1. CASE y <= n
      <3>1. x <= n
        BY <2>0, <2>1, <1>6
      <3>2. x \in 1..n /\ y \in 1..n /\ r[x] = row[x] /\ c[x] = col[x] /\ r[y] = row[y] /\ c[y] = col[y]
        BY <1>2, <2>1, <3>1
      <3>3. row[x] < row[y] \/ (row[x] = row[y] /\ col[x] < col[y])
        BY <1>6, <3>2 DEF LaidOut, n
      <3> HIDE DEF r, c
      <3> QED
        BY <3>2, <3>3
    <2>2. CASE ~(y <= n) /\ x <= n
      <3>1. r[y] = m + 1 /\ r[x] = row[x] /\ row[x] \in 1..m
        BY <1>2, <1>3, <2>2
      <3> HIDE DEF r, c
      <3> QED
        BY <3>1
    <2>3. CASE ~(y <= n) /\ ~(x <= n)
      <3>1. r[x] = m + 1 /\ r[y] = m + 1 /\ c[x] = x - n /\ c[y] = y - n
        BY <1>3, <2>3
      <3> HIDE DEF r, c
      <3> QED
        BY <1>6, <2>0, <3>1
    <2> QED
      BY <2>1, <2>2, <2>3
  <1>7. ASSUME NEW b \in 1..(m + 1), NEW k \in 1..Len(seqs[b])
        PROVE  \E x \in 1..Len(t) : r[x] = b /\ c[x] = k
    <2>1. CASE b = m + 1
      <3>1. n + k \in 1..Len(t) /\ ~(n + k <= n) /\ (n + k) - n = k
        BY <1>1, <2>1
      <3>2. r[n + k] = m + 1 /\ c[n + k] = k
        BY <3>1
      <3> HIDE DEF r, c
      <3> QED
        BY <2>1, <3>1, <3>2
    <2>2. CASE b # m + 1
      <3>1. b \in 1..m
        BY <2>2
      <3>2. PICK x \in 1..n : row[x] = b /\ col[x] = k
        BY <3>1 DEF LaidOut, n
      <3>3. x \in 1..Len(t) /\ x <= n
        BY <1>1
      <3>4. r[x] = b /\ c[x] = k
        BY <3>2, <3>3
      <3> HIDE DEF r, c
      <3> QED
        BY <3>3, <3>4
    <2> QED
      BY <2>1, <2>2
  <1>8. LaidOut(seqs, m + 1, t, r, c)
    <2> HIDE DEF r, c
    <2> QED
      BY <1>4, <1>5, <1>6, <1>7 DEF LaidOut
  <1> HIDE DEF r, c
  <1> QED
    BY <1>8 DEF t

\* Every element of every sequence has one place in the flattening, in their order.
LEMMA FlattenLays ==
  ASSUME NEW S, NEW seqs \in Seq(Seq(S))
  PROVE  /\ FlattenSeq(seqs) \in Seq(S)
         /\ \E row, col : LaidOut(seqs, Len(seqs), FlattenSeq(seqs), row, col)
  <1>1. CASE seqs = << >>
    <2>1. FlattenSeq(seqs) = << >> /\ Len(seqs) = 0
      BY <1>1 DEF FlattenSeq
    <2> DEFINE none == [x \in 1..0 |-> 0]
    <2>2. none \in [1..0 -> 1..0] /\ none \in [1..0 -> Nat]
      OBVIOUS
    <2>3. LaidOut(seqs, 0, << >>, none, none)
      <3> HIDE DEF none
      <3>1. Len(<< >>) = 0
        OBVIOUS
      <3> QED
        BY <2>2, <3>1 DEF LaidOut
    <2>4. << >> \in Seq(S)
      OBVIOUS
    <2> HIDE DEF none
    <2> QED
      BY <2>1, <2>3, <2>4
  <1>2. CASE seqs # << >>
    <2> DEFINE n == Len(seqs)
    <2>1. n \in Nat \ {0} /\ \A i \in 1..n : seqs[i] \in Seq(S)
      BY <1>2
    <2>2. PICK h : Flat(seqs, h, n) /\ FlattenSeq(seqs) = h[n]
      BY <1>2, FlattenUnfolds
    <2> HIDE DEF n
    <2>3. \A i \in 1..n : h[i] \in Seq(S)
      BY <2>1, <2>2, FlatIsSeq DEF n
    <2>4. \A i \in 1..n : h[i] = IF i = 1 THEN seqs[i] ELSE h[i - 1] \o seqs[i]
      BY <2>2 DEF Flat
    <2> DEFINE Done(i) == \E row, col : LaidOut(seqs, i, h[i], row, col)
               Bad == {i \in 1..n : ~Done(i)}
    <2>5. Bad = {}
      <3>1. SUFFICES ASSUME Bad # {} PROVE FALSE
        OBVIOUS
      <3>2. Bad \in SUBSET Nat
        OBVIOUS
      <3>3. PICK k \in Bad : \A j \in Bad : k <= j
        <4> HIDE DEF Bad
        <4> QED
          BY <3>1, <3>2, Least
      <3>4. k \in 1..n /\ ~Done(k) /\ seqs[k] \in Seq(S)
        BY <2>1, <3>3
      <3>5. CASE k = 1
        <4> DEFINE none == [x \in 1..0 |-> 0]
        <4>1. none \in [1..0 -> 1..0] /\ none \in [1..0 -> Nat]
          OBVIOUS
        <4>2. LaidOut(seqs, 0, << >>, none, none)
          <5> HIDE DEF none, Bad
          <5>1. Len(<< >>) = 0
            OBVIOUS
          <5> QED
            BY <4>1, <5>1 DEF LaidOut
        <4> HIDE DEF none
        <4>3. << >> \in Seq(S) /\ 0 + 1 \in 1..Len(seqs) /\ 0 \in Nat /\ 0 + 1 = 1
          BY <2>1 DEF n
        <4>4. \E r, c : LaidOut(seqs, 0 + 1, << >> \o seqs[0 + 1], r, c)
          BY <4>2, <4>3, LaidNext
        <4>5. << >> \o seqs[0 + 1] = h[1] /\ 0 + 1 = 1
          BY <2>1, <2>4, <3>4, <3>5
        <4>6. Done(1)
          BY <4>4, <4>5
        <4> QED
          BY <3>4, <3>5, <4>6
      <3>6. CASE k # 1
        <4>1. k - 1 \in 1..n /\ k - 1 \notin Bad /\ k - 1 \in Nat /\ (k - 1) + 1 = k
          <5> HIDE DEF Bad
          <5>1. k - 1 \in 1..n /\ k - 1 \in Nat /\ (k - 1) + 1 = k /\ ~(k <= k - 1)
            BY <2>1, <3>4, <3>6
          <5> QED
            BY <3>3, <5>1
        <4>2. PICK row, col : LaidOut(seqs, k - 1, h[k - 1], row, col)
          BY <4>1
        <4>3. h[k - 1] \in Seq(S) /\ k \in 1..Len(seqs)
          BY <2>3, <3>4, <4>1 DEF n
        <4>4. \E r, c : LaidOut(seqs, (k - 1) + 1, h[k - 1] \o seqs[(k - 1) + 1], r, c)
          <5> HIDE DEF Bad
          <5>1. (k - 1) + 1 \in 1..Len(seqs)
            BY <4>1, <4>3
          <5> QED
            BY <4>1, <4>2, <4>3, <5>1, LaidNext
        <4>5. h[k] = h[k - 1] \o seqs[k]
          BY <2>4, <3>4, <3>6
        <4>6. Done(k)
          BY <4>1, <4>4, <4>5
        <4> QED
          BY <3>4, <4>6
      <3> QED
        BY <3>5, <3>6
    <2>6. n \in 1..n /\ Done(n)
      <3>1. n \in 1..n
        BY <2>1
      <3> HIDE DEF Done
      <3> QED
        BY <2>5, <3>1
    <2>7. h[n] \in Seq(S)
      BY <2>3, <2>6
    <2> QED
      BY <2>2, <2>6, <2>7 DEF n
  <1> QED
    BY <1>1, <1>2

\* Flattening loses nothing and adds nothing.
LEMMA FlattenElements ==
  ASSUME NEW S, NEW seqs \in Seq(Seq(S))
  PROVE  ToSet(FlattenSeq(seqs)) = UNION {ToSet(seqs[b]) : b \in DOMAIN seqs}
  <1>1. PICK row, col : LaidOut(seqs, Len(seqs), FlattenSeq(seqs), row, col)
    BY FlattenLays
  <1> DEFINE s == FlattenSeq(seqs)
             n == Len(seqs)
  <1>2. s \in Seq(S) /\ DOMAIN s = 1..Len(s)
    BY FlattenLays
  <1>3. DOMAIN seqs = 1..n /\ \A b \in 1..n : DOMAIN seqs[b] = 1..Len(seqs[b])
    OBVIOUS
  <1> HIDE DEF s, n
  <1>4. ASSUME NEW x \in 1..Len(s) PROVE \E b \in 1..n : s[x] \in ToSet(seqs[b])
    <2>1. row[x] \in 1..n /\ col[x] \in 1..Len(seqs[row[x]]) /\ s[x] = seqs[row[x]][col[x]]
      BY <1>1 DEF LaidOut, s, n
    <2>2. seqs[row[x]][col[x]] \in ToSet(seqs[row[x]])
      BY <1>3, <2>1 DEF ToSet
    <2> QED
      BY <2>1, <2>2
  <1>5. ASSUME NEW b \in 1..n, NEW k \in 1..Len(seqs[b]) PROVE seqs[b][k] \in ToSet(s)
    <2>1. PICK x \in 1..Len(s) : row[x] = b /\ col[x] = k
      BY <1>1 DEF LaidOut, s, n
    <2>2. s[x] = seqs[b][k]
      BY <1>1, <2>1 DEF LaidOut, s, n
    <2> QED
      BY <1>2, <2>2 DEF ToSet
  <1>6. ToSet(s) \subseteq UNION {ToSet(seqs[b]) : b \in 1..n}
    BY <1>2, <1>4 DEF ToSet
  <1>7. UNION {ToSet(seqs[b]) : b \in 1..n} \subseteq ToSet(s)
    <2>1. SUFFICES ASSUME NEW b \in 1..n, NEW e \in ToSet(seqs[b]) PROVE e \in ToSet(s)
      OBVIOUS
    <2>2. PICK k \in 1..Len(seqs[b]) : e = seqs[b][k]
      BY <1>3 DEF ToSet
    <2> QED
      BY <1>5, <2>2
  <1> QED
    BY <1>3, <1>6, <1>7 DEF s
===============================================================================
