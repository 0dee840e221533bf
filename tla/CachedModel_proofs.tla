-------------------------- MODULE CachedModel_proofs --------------------------
(***************************************************************************)
(* Proofs about ModelGen and CachedModel: for any tables, options and       *)
(* values, any number of services' calls and of keys that expire.           *)
(***************************************************************************)
EXTENDS CachedModel, Unfolding

-----------------------------------------------------------------------------
(* A joined key tells its values *)

\* What a layout is made of: the piece of an element, the element of a piece, their order.
LEMMA PieceOf ==
  ASSUME NEW p, NEW m, NEW s, NEW row, NEW c, LaidOut(p, m, s, row, c), NEW x \in 1..Len(s)
  PROVE  row[x] \in 1..m /\ c[x] \in Nat /\ c[x] \in 1..Len(p[row[x]]) /\ s[x] = p[row[x]][c[x]]
  BY DEF LaidOut

LEMMA PlaceOf ==
  ASSUME NEW p, NEW m, NEW s, NEW row, NEW c, LaidOut(p, m, s, row, c), NEW b \in 1..m, NEW k \in 1..Len(p[b])
  PROVE  \E x \in 1..Len(s) : row[x] = b /\ c[x] = k
  BY DEF LaidOut

LEMMA InOrder ==
  ASSUME NEW p, NEW m, NEW s, NEW row, NEW c, LaidOut(p, m, s, row, c),
         NEW x \in 1..Len(s), NEW y \in 1..Len(s), x < y
  PROVE  row[x] < row[y] \/ (row[x] = row[y] /\ c[x] < c[y])
  BY DEF LaidOut

\* Up to where two layouts of one sequence put everything into the same columns, the second
\* is not ahead.
LEMMA NotAhead ==
  ASSUME NEW S, NEW m \in Nat, NEW p \in Seq(Seq(S)), NEW q \in Seq(Seq(S)), NEW s \in Seq(S),
         NEW row, NEW c, NEW d, Len(p) = m, Len(q) = m,
         LaidOut(p, m, s, row, c), LaidOut(q, m, s, row, d),
         NEW x \in 1..Len(s), \A y \in 1..Len(s) : y < x => c[y] = d[y]
  PROVE  d[x] <= c[x]
<1> SUFFICES ASSUME c[x] < d[x] PROVE FALSE
  <2>1. c[x] \in Nat /\ d[x] \in Nat
    BY DEF LaidOut
  <2> QED
    BY <2>1
<1>1. row[x] \in 1..m /\ c[x] \in 1..Len(p[row[x]]) /\ d[x] \in 1..Len(q[row[x]]) /\ Len(q[row[x]]) \in Nat
  <2>1. row[x] \in 1..m /\ c[x] \in 1..Len(p[row[x]]) /\ d[x] \in 1..Len(q[row[x]])
    BY DEF LaidOut
  <2>2. q[row[x]] \in Seq(S)
    BY <2>1
  <2> QED
    BY <2>1, <2>2, LenProperties
<1>2. d[x] - 1 \in 1..Len(q[row[x]])
  BY <1>1
<1>3. PICK y \in 1..Len(s) : row[y] = row[x] /\ d[y] = d[x] - 1
  BY <1>1, <1>2 DEF LaidOut
<1>4. ~(x < y)
  <2>1. x < y => row[x] < row[y] \/ (row[x] = row[y] /\ d[x] < d[y])
    BY DEF LaidOut
  <2> QED
    BY <1>1, <1>3, <2>1
<1>5. y # x
  BY <1>1, <1>3
<1>6. y < x
  BY <1>4, <1>5, LenProperties
<1>7. c[y] < c[x]
  <2>1. row[y] < row[x] \/ (row[y] = row[x] /\ c[y] < c[x])
    BY <1>6 DEF LaidOut
  <2> QED
    BY <1>1, <1>3, <2>1
<1>8. c[y] = d[x] - 1
  BY <1>3, <1>6
<1> QED
  BY <1>1, <1>7, <1>8

\* What one layout says of two sequences of pieces.
Within(p, q, m) == \A b \in 1..m : \A k \in 1..Len(p[b]) : k \in 1..Len(q[b]) /\ p[b][k] = q[b][k]

LEMMA OneLayout ==
  ASSUME NEW p, NEW q, NEW m, NEW s, NEW row, NEW c, LaidOut(p, m, s, row, c), LaidOut(q, m, s, row, c)
  PROVE  Within(p, q, m)
<1> SUFFICES ASSUME NEW b \in 1..m, NEW k \in 1..Len(p[b])
             PROVE  k \in 1..Len(q[b]) /\ p[b][k] = q[b][k]
  BY DEF Within
<1>1. PICK x \in 1..Len(s) : row[x] = b /\ c[x] = k
  BY DEF LaidOut
<1>2. c[x] \in 1..Len(q[row[x]]) /\ s[x] = q[row[x]][c[x]]
  BY PieceOf
<1>3. s[x] = p[row[x]][c[x]]
  BY PieceOf
<1> QED
  BY <1>1, <1>2, <1>3

\* Two layouts of one sequence that have the same rows are layouts of the same pieces.
LEMMA SameRowsSamePieces ==
  ASSUME NEW S, NEW m \in Nat, NEW p \in Seq(Seq(S)), NEW q \in Seq(Seq(S)), NEW s \in Seq(S),
         NEW row, NEW c, NEW d, Len(p) = m, Len(q) = m,
         LaidOut(p, m, s, row, c), LaidOut(q, m, s, row, d)
  PROVE  p = q
<1>1. \A x \in 1..Len(s) : c[x] = d[x]
  <2> DEFINE D == {x \in 1..Len(s) : c[x] # d[x]}
  <2> SUFFICES ASSUME D # {} PROVE FALSE
    OBVIOUS
  <2>1. PICK x \in D : \A y \in D : x <= y
    <3>1. D \in SUBSET Nat
      OBVIOUS
    <3> HIDE DEF D
    <3> QED
      BY <3>1, Least
  <2>2. x \in 1..Len(s) /\ \A y \in 1..Len(s) : y < x => c[y] = d[y]
    BY <2>1, LenProperties
  <2>3. d[x] <= c[x]
    BY <2>2, NotAhead
  <2>4. \A y \in 1..Len(s) : y < x => d[y] = c[y]
    BY <2>2
  <2>5. c[x] <= d[x]
    BY <2>2, <2>4, NotAhead
  <2>6. c[x] \in Nat /\ d[x] \in Nat
    BY <2>2 DEF LaidOut
  <2> QED
    BY <2>1, <2>3, <2>5, <2>6
<1>2. \A b \in 1..m : p[b] \in Seq(S) /\ q[b] \in Seq(S)
  OBVIOUS
<1>3. Within(p, q, m) /\ Within(q, p, m)
  <2>1. c \in [1..Len(s) -> Nat]
    BY DEF LaidOut
  <2>2. d \in [1..Len(s) -> Nat]
    BY DEF LaidOut
  <2>3. c = d
    BY <1>1, <2>1, <2>2
  <2>4. LaidOut(q, m, s, row, c)
    BY <2>3
  <2> QED
    BY <2>4, OneLayout
<1>5. ASSUME NEW b \in 1..m PROVE p[b] = q[b]
  <2>1. Len(p[b]) \in Nat /\ Len(q[b]) \in Nat
    BY <1>2, LenProperties
  <2>2. Len(p[b]) = Len(q[b])
    <3>1. Len(p[b]) > 0 => Len(p[b]) \in 1..Len(q[b])
      BY <1>3, <2>1 DEF Within
    <3>2. Len(q[b]) > 0 => Len(q[b]) \in 1..Len(p[b])
      BY <1>3, <2>1 DEF Within
    <3> QED
      BY <2>1, <3>1, <3>2
  <2> QED
    BY <1>2, <1>3, <2>2, SeqEqual DEF Within
<1> QED
  BY <1>5, SeqEqual

\* Arithmetic of rows: an increasing function of a range into itself is the identity; two
\* rows with the same ones up to them are one; a row begins where its head is.
LEMMA IncreasingIsIdentity ==
  ASSUME NEW m \in Nat, NEW g \in [2..m -> 2..m], \A b, e \in 2..m : b < e => g[b] < g[e]
  PROVE  \A b \in 2..m : g[b] = b
<1>1. ASSUME NEW b \in 2..m, g[b] < b PROVE FALSE
  <2> DEFINE D == {e \in 2..m : g[e] < e}
  <2>1. D \in SUBSET Nat /\ D # {}
    BY <1>1
  <2>2. PICK e \in D : \A f \in D : e <= f
    <3> HIDE DEF D
    <3> QED
      BY <2>1, Least
  <2>3. e \in 2..m /\ g[e] < e /\ g[e] \in 2..m
    BY <2>2
  <2>4. g[g[e]] < g[e]
    BY <2>3
  <2>5. g[e] \in D
    BY <2>3, <2>4
  <2>6. e <= g[e]
    BY <2>2, <2>5
  <2> QED
    BY <2>3, <2>6
<1>2. ASSUME NEW b \in 2..m, b < g[b] PROVE FALSE
  <2> DEFINE D == {e \in 2..m : e < g[e]}
  <2>1. D \in SUBSET (0..m) /\ D # {}
    BY <1>2
  <2>2. PICK e \in D : \A f \in D : f <= e
    <3> HIDE DEF D
    <3> QED
      BY <2>1, Greatest
  <2>3. e \in 2..m /\ e < g[e] /\ g[e] \in 2..m
    BY <2>2
  <2>4. g[e] < g[g[e]]
    BY <2>3
  <2>5. g[e] \in D
    BY <2>3, <2>4
  <2>6. g[e] <= e
    BY <2>2, <2>5
  <2> QED
    BY <2>3, <2>6
<1>3. ASSUME NEW b \in 2..m PROVE g[b] = b
  <2>1. g[b] \in 2..m
    OBVIOUS
  <2>2. ~(g[b] < b) /\ ~(b < g[b])
    BY <1>1, <1>2
  <2> QED
    BY <2>1, <2>2
<1> QED
  BY <1>3

LEMMA SameRow ==
  ASSUME NEW m \in Nat, NEW r \in 1..m, NEW t \in 1..m, \A b \in 2..m : b <= r <=> b <= t
  PROVE  r = t
<1>1. ASSUME r < t PROVE FALSE
  <2>1. t \in 2..m
    BY <1>1
  <2>2. t <= r <=> t <= t
    BY <2>1
  <2> QED
    BY <1>1, <2>2
<1>2. ASSUME t < r PROVE FALSE
  <2>1. r \in 2..m
    BY <1>2
  <2>2. r <= r <=> r <= t
    BY <2>1
  <2> QED
    BY <1>2, <2>2
<1> QED
  BY <1>1, <1>2

LEMMA BehindHead ==
  ASSUME NEW b \in Nat, NEW x \in Nat, NEW y \in Nat, NEW r \in Nat, NEW c \in Nat, c >= 1,
         x < y => r < b \/ (r = b /\ c < 1), y < x => b < r \/ (b = r /\ 1 < c), x = y => r = b
  PROVE  b <= r <=> y <= x
  OBVIOUS

\* Every piece but the first begins with a separator; no separator is anywhere else.
Headed(q, m, colon) == \A b \in 2..m : 1 \in 1..Len(q[b]) /\ q[b][1] = colon
HeadsOnly(p, m, colon) == \A b \in 1..m : \A k \in 1..Len(p[b]) : p[b][k] = colon => b # 1 /\ k = 1

\* The elements of a row and of later ones are those from its head on.
FromHeads(s, row, c) ==
    \A x, y \in 1..Len(s) : c[y] = 1 => (row[y] <= row[x] <=> y <= x)

LEMMA BehindHeads ==
  ASSUME NEW S, NEW m \in Nat, NEW p, NEW s \in Seq(S), NEW row, NEW c, LaidOut(p, m, s, row, c),
         \A b \in 1..m : Len(p[b]) \in Nat
  PROVE  FromHeads(s, row, c)
<1> SUFFICES ASSUME NEW x \in 1..Len(s), NEW y \in 1..Len(s), c[y] = 1
             PROVE  row[y] <= row[x] <=> y <= x
  BY DEF FromHeads
<1>1. row[x] \in 1..m /\ row[y] \in 1..m /\ c[x] \in 1..Len(p[row[x]]) /\ c[x] \in Nat
  BY PieceOf
<1>2. PICK n \in Nat : n = Len(p[row[x]])
  BY <1>1
<1>3. c[x] >= 1
  BY <1>1, <1>2
<1>4. x < y => row[x] < row[y] \/ (row[x] = row[y] /\ c[x] < 1)
  BY InOrder
<1>5. y < x => row[y] < row[x] \/ (row[y] = row[x] /\ 1 < c[x])
  BY InOrder
<1>6. x \in Nat /\ y \in Nat /\ row[x] \in Nat /\ row[y] \in Nat
  BY <1>1, LenProperties
<1> HIDE DEF LaidOut
<1> QED
  BY <1>1, <1>3, <1>4, <1>5, <1>6, BehindHead

\* When one sequence of pieces has separators at heads only, and the other one at all of its
\* heads, both layouts of a sequence have the same rows.
LEMMA SeparatorsTell ==
  ASSUME NEW S, NEW m \in Nat, NEW p, NEW q, NEW s \in Seq(S), NEW colon,
         NEW row, NEW c, NEW rank, NEW d,
         \A b \in 1..m : Len(p[b]) \in Nat, \A b \in 1..m : Len(q[b]) \in Nat,
         LaidOut(p, m, s, row, c), LaidOut(q, m, s, rank, d),
         Headed(q, m, colon), HeadsOnly(p, m, colon)
  PROVE  row = rank
<1>0. Len(s) \in Nat
  BY LenProperties
<1>c. ASSUME NEW b \in 2..m PROVE \E x \in 1..Len(s) : rank[x] = b /\ d[x] = 1 /\ s[x] = colon
  <2>1. b \in 1..m /\ 1 \in 1..Len(q[b]) /\ q[b][1] = colon
    BY DEF Headed
  <2>2. PICK x \in 1..Len(s) : rank[x] = b /\ d[x] = 1
    BY <2>1 DEF LaidOut
  <2>3. s[x] = q[rank[x]][d[x]]
    BY PieceOf
  <2> QED
    BY <2>1, <2>2, <2>3
<1>d. row \in [1..Len(s) -> 1..m] /\ rank \in [1..Len(s) -> 1..m]
  <2>1. row \in [1..Len(s) -> 1..m]
    BY DEF LaidOut
  <2>2. rank \in [1..Len(s) -> 1..m]
    BY DEF LaidOut
  <2> QED
    BY <2>1, <2>2
<1>h. FromHeads(s, row, c) /\ FromHeads(s, rank, d)
  BY BehindHeads
<1>1. PICK at \in [2..m -> 1..Len(s)] : \A b \in 2..m : rank[at[b]] = b /\ d[at[b]] = 1 /\ s[at[b]] = colon
  <2> DEFINE f == [b \in 2..m |-> CHOOSE x \in 1..Len(s) : rank[x] = b /\ d[x] = 1 /\ s[x] = colon]
  <2>1. \A b \in 2..m : f[b] \in 1..Len(s) /\ rank[f[b]] = b /\ d[f[b]] = 1 /\ s[f[b]] = colon
    BY <1>c
  <2> QED
    BY <2>1
<1>2. ASSUME NEW b \in 2..m PROVE row[at[b]] \in 2..m /\ c[at[b]] = 1
  <2>1. PICK y \in 1..Len(s) : y = at[b]
    BY <1>1
  <2>2. row[y] \in 1..m /\ c[y] \in 1..Len(p[row[y]]) /\ p[row[y]][c[y]] = colon
    <3>1. s[y] = colon
      BY <1>1, <2>1
    <3>2. row[y] \in 1..m /\ c[y] \in 1..Len(p[row[y]]) /\ s[y] = p[row[y]][c[y]]
      BY PieceOf
    <3> QED
      BY <3>1, <3>2
  <2>3. row[y] # 1 /\ c[y] = 1
    BY <2>2 DEF HeadsOnly
  <2> QED
    BY <2>1, <2>2, <2>3
<1>3. PICK g \in [2..m -> 2..m] : \A b \in 2..m : g[b] = row[at[b]]
  <2> DEFINE f == [b \in 2..m |-> row[at[b]]]
  <2>1. f \in [2..m -> 2..m]
    BY <1>2
  <2>2. \A b \in 2..m : f[b] = row[at[b]]
    OBVIOUS
  <2> HIDE DEF f
  <2> QED
    BY <2>1, <2>2
<1>4. ASSUME NEW b \in 2..m, NEW e \in 2..m, b < e
      PROVE  g[b] < g[e]
  <2>1. PICK x \in 1..Len(s), y \in 1..Len(s) : x = at[b] /\ y = at[e]
    BY <1>1
  <2>2. rank[x] = b /\ rank[y] = e /\ d[x] = 1 /\ d[y] = 1 /\ c[x] = 1 /\ c[y] = 1
    BY <1>1, <1>2, <2>1
  <2>3. rank[y] <= rank[x] <=> y <= x
    BY <1>h, <2>2 DEF FromHeads
  <2>4. row[y] <= row[x] <=> y <= x
    BY <1>h, <2>2 DEF FromHeads
  <2>5. g[b] = row[x] /\ g[e] = row[y] /\ g[b] \in 2..m /\ g[e] \in 2..m
    BY <1>3, <2>1
  <2> QED
    BY <1>4, <2>2, <2>3, <2>4, <2>5
<1>5. \A b \in 2..m : row[at[b]] = b /\ c[at[b]] = 1
  <2>1. \A b \in 2..m : g[b] = b
    BY <1>4, IncreasingIsIdentity
  <2> QED
    BY <1>2, <1>3, <2>1
<1>6. ASSUME NEW x \in 1..Len(s) PROVE row[x] = rank[x]
  <2>1. row[x] \in 1..m /\ rank[x] \in 1..m
    BY PieceOf
  <2>2. ASSUME NEW b \in 2..m PROVE b <= row[x] <=> b <= rank[x]
    <3>1. PICK y \in 1..Len(s) : y = at[b]
      BY <1>1
    <3>2. rank[y] = b /\ d[y] = 1 /\ row[y] = b /\ c[y] = 1
      BY <1>1, <1>5, <3>1
    <3>3. row[y] <= row[x] <=> y <= x
      BY <1>h, <3>2 DEF FromHeads
    <3>4. rank[y] <= rank[x] <=> y <= x
      BY <1>h, <3>2 DEF FromHeads
    <3> QED
      BY <3>2, <3>3, <3>4
  <2> QED
    BY <2>1, <2>2, SameRow
<1> QED
  BY <1>6, <1>d
\* The pieces that JoinColon joins.
Joined(values, colon) == [i \in DOMAIN values |-> IF i = 1 THEN values[1] ELSE <<colon>> \o values[i]]

LEMMA Behind ==
  ASSUME NEW S, NEW colon \in S, NEW u \in Seq(S)
  PROVE  /\ <<colon>> \o u \in Seq(S)
         /\ Len(<<colon>> \o u) = Len(u) + 1
         /\ (<<colon>> \o u)[1] = colon
         /\ \A k \in 1..Len(u) : (<<colon>> \o u)[k + 1] = u[k]
<1>1. <<colon>> \in Seq(S) /\ Len(<<colon>>) = 1 /\ <<colon>>[1] = colon
  OBVIOUS
<1>2. PICK t \in Seq(S) : t = <<colon>>
  BY <1>1
<1>3. Len(t) = 1 /\ t[1] = colon
  BY <1>1, <1>2
<1>4. /\ t \o u \in Seq(S)
      /\ Len(t \o u) = Len(t) + Len(u)
      /\ \A k \in 1..Len(t) : (t \o u)[k] = t[k]
      /\ \A k \in 1..Len(u) : (t \o u)[Len(t) + k] = u[k]
  OBVIOUS
<1>5. Len(u) \in Nat
  BY LenProperties
<1> QED
  BY <1>2, <1>3, <1>4, <1>5

LEMMA JoinedPieces ==
  ASSUME NEW S, NEW colon \in S, NEW u \in Seq(Seq(S))
  PROVE  /\ Joined(u, colon) \in Seq(Seq(S))
         /\ Len(Joined(u, colon)) = Len(u)
         /\ 1 \in 1..Len(u) => Joined(u, colon)[1] = u[1]
         /\ \A b \in 2..Len(u) : Joined(u, colon)[b] = <<colon>> \o u[b]
<1>1. Len(u) \in Nat /\ DOMAIN u = 1..Len(u)
  BY LenProperties
<1>2. ASSUME NEW b \in 1..Len(u) PROVE u[b] \in Seq(S) /\ <<colon>> \o u[b] \in Seq(S)
  <2>1. u[b] \in Seq(S)
    OBVIOUS
  <2> QED
    BY <2>1, Behind
<1>3. Joined(u, colon) = [b \in 1..Len(u) |-> IF b = 1 THEN u[1] ELSE <<colon>> \o u[b]]
  BY <1>1 DEF Joined
<1>4. \A b \in 1..Len(u) : (IF b = 1 THEN u[1] ELSE <<colon>> \o u[b]) \in Seq(S)
  BY <1>2
<1> DEFINE P(b) == IF b = 1 THEN u[1] ELSE <<colon>> \o u[b]
<1>5. \A b \in 2..Len(u) : P(b) = <<colon>> \o u[b]
  BY <1>1
<1>6. P(1) = u[1]
  OBVIOUS
<1>7. Joined(u, colon) = [b \in 1..Len(u) |-> P(b)] /\ \A b \in 1..Len(u) : P(b) \in Seq(S)
  BY <1>3, <1>4
<1> HIDE DEF P
<1>8. \A b \in 2..Len(u) : b \in 1..Len(u)
  BY <1>1
<1> QED
  BY <1>1, <1>5, <1>6, <1>7, <1>8

\* Values without a separator are told from any others.
LEMMA JoinTells ==
  ASSUME NEW S, NEW colon \in S, NEW u \in Seq(Seq(S)), NEW v \in Seq(Seq(S)), Len(u) = Len(v),
         \A i \in DOMAIN u : colon \notin Range(u[i]),
         FlattenSeq(Joined(u, colon)) = FlattenSeq(Joined(v, colon))
  PROVE  u = v
<1>1. PICK m \in Nat : m = Len(u) /\ m = Len(v) /\ DOMAIN u = 1..m /\ DOMAIN v = 1..m
  BY LenProperties
<1>2. PICK p \in Seq(Seq(S)) : p = Joined(u, colon) /\ Len(p) = m
  BY <1>1, JoinedPieces
<1>3. PICK q \in Seq(Seq(S)) : q = Joined(v, colon) /\ Len(q) = m
  BY <1>1, JoinedPieces
<1>4. PICK s \in Seq(S) : s = FlattenSeq(p) /\ s = FlattenSeq(q)
  BY <1>2, <1>3, FlattenLays
<1>5. PICK row, c : LaidOut(p, m, s, row, c)
  BY <1>2, <1>4, FlattenLays
<1>6. PICK rank, d : LaidOut(q, m, s, rank, d)
  BY <1>3, <1>4, FlattenLays
<1>7. \A b \in 1..m : p[b] \in Seq(S) /\ q[b] \in Seq(S) /\ u[b] \in Seq(S) /\ v[b] \in Seq(S)
  BY <1>1, <1>2, <1>3
<1>8. \A b \in 1..m : Len(p[b]) \in Nat /\ Len(q[b]) \in Nat /\ Len(u[b]) \in Nat /\ Len(v[b]) \in Nat
  BY <1>7, LenProperties
<1>9. ASSUME NEW b \in 2..m
      PROVE  /\ b \in 1..m
             /\ Len(p[b]) = Len(u[b]) + 1 /\ p[b][1] = colon /\ \A k \in 1..Len(u[b]) : p[b][k + 1] = u[b][k]
             /\ Len(q[b]) = Len(v[b]) + 1 /\ q[b][1] = colon /\ \A k \in 1..Len(v[b]) : q[b][k + 1] = v[b][k]
  <2>1. b \in 1..m
    OBVIOUS
  <2>2. p[b] = <<colon>> \o u[b] /\ u[b] \in Seq(S)
    BY <1>1, <1>2, <1>7, <2>1 DEF Joined
  <2>3. q[b] = <<colon>> \o v[b] /\ v[b] \in Seq(S)
    BY <1>1, <1>3, <1>7, <2>1 DEF Joined
  <2>4. Len(p[b]) = Len(u[b]) + 1 /\ p[b][1] = colon /\ \A k \in 1..Len(u[b]) : p[b][k + 1] = u[b][k]
    <3>1. PICK w \in Seq(S) : w = u[b]
      BY <2>2
    <3>2. p[b] = <<colon>> \o w
      BY <2>2, <3>1
    <3>3. Len(<<colon>> \o w) = Len(w) + 1 /\ (<<colon>> \o w)[1] = colon /\ \A k \in 1..Len(w) : (<<colon>> \o w)[k + 1] = w[k]
      BY Behind
    <3> QED
      BY <3>1, <3>2, <3>3
  <2>5. Len(q[b]) = Len(v[b]) + 1 /\ q[b][1] = colon /\ \A k \in 1..Len(v[b]) : q[b][k + 1] = v[b][k]
    <3>1. PICK w \in Seq(S) : w = v[b]
      BY <2>3
    <3>2. q[b] = <<colon>> \o w
      BY <2>3, <3>1
    <3>3. Len(<<colon>> \o w) = Len(w) + 1 /\ (<<colon>> \o w)[1] = colon /\ \A k \in 1..Len(w) : (<<colon>> \o w)[k + 1] = w[k]
      BY Behind
    <3> QED
      BY <3>1, <3>2, <3>3
  <2> QED
    BY <2>1, <2>4, <2>5
<1>10. 1 \in 1..m => p[1] = u[1] /\ q[1] = v[1]
  BY <1>1, <1>2, <1>3, JoinedPieces
<1>11. Headed(q, m, colon)
  <2>1. ASSUME NEW b \in 2..m PROVE 1 \in 1..Len(q[b]) /\ q[b][1] = colon
    BY <1>8, <1>9
  <2> QED
    BY <2>1 DEF Headed
<1>12. \A b \in 1..m : \A k \in 1..Len(u[b]) : u[b][k] # colon
  <2>1. ASSUME NEW b \in 1..m, NEW k \in 1..Len(u[b]) PROVE u[b][k] # colon
    <3>1. PICK w \in Seq(S) : w = u[b] /\ colon \notin Range(w)
      BY <1>1, <1>7
    <3>2. DOMAIN w = 1..Len(w)
      BY LenProperties
    <3> QED
      BY <3>1, <3>2 DEF Range
  <2> QED
    BY <2>1
<1>13. HeadsOnly(p, m, colon)
  <2>1. ASSUME NEW b \in 1..m, NEW k \in 1..Len(p[b]), p[b][k] = colon PROVE b # 1 /\ k = 1
    <3>1. b # 1
      BY <1>10, <1>12, <2>1
    <3>2. b \in 2..m
      BY <3>1
    <3>3. Len(p[b]) = Len(u[b]) + 1 /\ \A j \in 1..Len(u[b]) : p[b][j + 1] = u[b][j]
      BY <1>9, <3>2
    <3>4. PICK n \in Nat : n = Len(u[b]) /\ Len(p[b]) = n + 1
      BY <1>8, <3>3
    <3>5. k # 1 => k - 1 \in 1..n /\ p[b][(k - 1) + 1] = u[b][k - 1] /\ (k - 1) + 1 = k
      BY <3>3, <3>4
    <3>6. k # 1 => u[b][k - 1] = colon
      BY <2>1, <3>5
    <3> QED
      BY <1>12, <3>1, <3>4, <3>5, <3>6
  <2> QED
    BY <2>1 DEF HeadsOnly
<1>14. row = rank
  BY <1>5, <1>6, <1>8, <1>11, <1>13, SeparatorsTell
<1>15. p = q
  BY <1>2, <1>3, <1>5, <1>6, <1>14, SameRowsSamePieces
<1>16. ASSUME NEW b \in 1..m PROVE u[b] = v[b]
  <2>1. CASE b = 1
    BY <1>10, <1>15, <2>1
  <2>2. CASE b # 1
    <3>1. b \in 2..m
      BY <2>2
    <3>2. Len(u[b]) = Len(v[b])
      <4>1. Len(p[b]) = Len(u[b]) + 1 /\ Len(p[b]) = Len(v[b]) + 1
        BY <1>9, <1>15, <3>1
      <4>2. PICK i \in Nat, j \in Nat : i = Len(u[b]) /\ j = Len(v[b])
        BY <1>8
      <4>3. i + 1 = j + 1
        BY <4>1, <4>2
      <4> QED
        BY <4>2, <4>3
    <3>3. \A k \in 1..Len(u[b]) : u[b][k] = v[b][k]
      BY <1>9, <1>15, <3>1, <3>2
    <3> QED
      BY <1>7, <3>2, <3>3, SeqEqual
  <2> QED
    BY <2>1, <2>2
<1> QED
  BY <1>1, <1>16, SeqEqual

\* One value is its own key.
LEMMA FlattenOne ==
  ASSUME NEW S, NEW u \in Seq(S)
  PROVE  FlattenSeq(<<u>>) = u
<1>1. <<u>> \in Seq(Seq(S)) /\ Len(<<u>>) = 1 /\ <<u>>[1] = u /\ <<u>> # << >>
  OBVIOUS
<1>2. PICK h : Flat(<<u>>, h, 1) /\ FlattenSeq(<<u>>) = h[1]
  BY <1>1, FlattenUnfolds
<1> QED
  BY <1>1, <1>2 DEF Flat

-----------------------------------------------------------------------------
(* The inductive invariant *)

\* What the generator makes of a table.
SoundTable(d) ==
    /\ Names(d) \in Seq(Name)
    /\ d.primary \in Range(Names(d))
    /\ d.auto \in BOOLEAN
    /\ \A columns \in d.unique : columns \in Seq(Range(Names(d))) /\ columns # <<d.primary>>

\* The values of a statement are those of its columns, and of the row's key.
SoundInsert(d, ignored, s) ==
    /\ s.columns \in Seq(Range(Names(d)))
    /\ Range(s.columns) = Range(Names(d)) \ (AutoSet(d) \cup ignored)
    /\ s.values = s.columns

SoundUpdate(d, ignored, s) ==
    /\ s.columns \in Seq(Range(Names(d)))
    /\ Range(s.columns) = Range(Names(d)) \ ({d.primary} \cup ignored)
    /\ \/ s.first = 2 /\ s.where = 1 /\ s.values = <<d.primary>> \o s.columns
       \/ s.first = 1 /\ s.where = Len(s.columns) + 1 /\ s.values = s.columns \o <<d.primary>>

SoundModel(g) ==
    /\ SoundTable(g.table)
    /\ g.cache \in BOOLEAN
    /\ SoundInsert(g.table, g.ignored, g.insert)
    /\ SoundUpdate(g.table, g.ignored, g.update)

GenInv ==
    /\ files \in Seq(Seq(Statement)) /\ files # << >>
    /\ job # None => job = [options |-> job.options, at |-> job.at] /\ job.options \in Options /\ job.at \in DOMAIN files
    /\ \A n \in DOMAIN dir : SoundModel(dir[n].gen)

\* Rows, cached entries and calls hold what they are for.
IsRow(r, id) == r \in [Columns -> Datum] /\ r[Primary] = id

IsRowEntry(e, id) == e = RowEntry(e.row) /\ IsRow(e.row, id)
IsEntry(e, id) == e = Mark \/ IsRowEntry(e, id)
IsIndexKey(key) == \E columns \in Indexes : \E data \in Sought(columns) : key = DataKey(columns, data)
IsIndexEntry(e) == e = Mark \/ \E id \in Ids : e = IdEntry(id)

TableIs(table) ==
    /\ DOMAIN table \subseteq Ids
    /\ \A id \in DOMAIN table : IsRow(table[id], id)
    /\ Distinct(table)

TableInv == TableIs(rows) /\ lastId \in 0..MaxId

CacheInv ==
    /\ \A id \in Ids : PrimaryKey(id) \in DOMAIN cache => IsEntry(cache[PrimaryKey(id)], id)
    /\ \A key \in DOMAIN cache : IsIndexKey(key) => IsIndexEntry(cache[key])
    /\ DOMAIN cache # {} => model.cache

IsCall(k) == DOMAIN k = {"op", "step", "data", "columns", "id", "got"}

\* Calls of each method.
CallFor(k) ==
    \/ k.op = "find" /\ k.step \in {"query", "fill"} /\ k.id \in Ids
    \/ /\ k.op = "findBy" /\ k.step \in {"query", "fill", "queryIndex", "fillFound", "fillIndex"}
       /\ k.columns \in Indexes /\ k.data \in Sought(k.columns)
       /\ k.step \in {"query", "fill"} => k.id \in Ids
    \/ k.op = "insert" /\ k.step \in {"exec", "del"} /\ k.data \in NewRows /\ k.id = k.data[Primary]
    \/ k.op = "update" /\ k.step \in {"query", "fill", "exec", "del"} /\ k.id \in Ids /\ k.data \in Data(k.id)
    \/ k.op = "delete" /\ k.step \in {"query", "fill", "exec", "del"} /\ k.id \in Ids

CallGot(k) ==
    /\ k.step = "fill" => IsEntry(k.got, k.id)
    /\ k.step = "fillFound" => k.got.row[Primary] \in Ids /\ IsRowEntry(k.got, k.got.row[Primary])
    /\ k.step = "fillIndex" => IsIndexEntry(k.got)
    /\ k.step \in {"exec", "del"} /\ k.op \in {"update", "delete"} /\ ReadsFirst => IsRowEntry(k.got, k.id)

CallOk(k) == k = NoCall \/ (IsCall(k) /\ CallFor(k) /\ CallGot(k) /\ (k.step # "exec" => model.cache))

ServeInv ==
    /\ SoundModel(model)
    /\ TableInv
    /\ CacheInv
    /\ \A c \in Clients : CallOk(call[c])

Idle == DOMAIN cache = {} /\ \A c \in Clients : call[c] = NoCall

Inv ==
    /\ GenInv
    /\ DOMAIN call = Clients
    /\ IF model = None THEN Idle ELSE ServeInv

\* While it is calm: what the cache and a call that has read say is so, unless a call is
\* about to delete the key.
Pending(key) == \E c \in Clients : call[c].step = "del" /\ key \in KeysOf(call[c])

TellsRow(id, e) ==
    IF e.kind = "mark" THEN id \notin DOMAIN rows \/ model.table.auto
    ELSE id \in DOMAIN rows /\ rows[id] = e.row

TellsIndex(columns, data, e) ==
    IF e.kind = "mark" THEN Having(columns, data) \subseteq moved \/ GivenLater(columns, data)
    ELSE Having(columns, data) = {e.id}

Picked(columns, data) == [i \in DOMAIN columns |-> data[columns[i]]]

\* Values that their key tells.
Telling(columns, data) == Plain(Picked(columns, data)) /\ ~SharedKey(columns, data)

RowsTold == \A id \in Ids :
    PrimaryKey(id) \in DOMAIN cache => TellsRow(id, cache[PrimaryKey(id)]) \/ Pending(PrimaryKey(id))

IndexesTold == \A columns \in Indexes : \A data \in Sought(columns) :
    DataKey(columns, data) \in DOMAIN cache /\ Telling(columns, data) =>
        TellsIndex(columns, data, cache[DataKey(columns, data)]) \/ Pending(DataKey(columns, data))

Accurate(c, k) ==
    /\ k.step = "fill" => TellsRow(k.id, k.got)
    /\ k.step = "fillFound" =>
         TellsRow(k.got.row[Primary], k.got) /\ Having(k.columns, k.data) = {k.got.row[Primary]}
    /\ k.step = "fillIndex" => TellsIndex(k.columns, k.data, k.got)
    /\ k.step = "exec" /\ k.op \in {"update", "delete"} /\ ReadsFirst =>
         TellsRow(k.id, k.got) \/ \E o \in Clients \ {c} : call[o].step = "del"

CalmInv == calm /\ model # None => RowsTold /\ IndexesTold /\ \A c \in Clients : Accurate(c, call[c])

-----------------------------------------------------------------------------
(* What the generator makes *)

LEMMA RangeIsToSet ==
  ASSUME NEW s
  PROVE  Range(s) = ToSet(s)
  BY DEF Range, ToSet

LEMMA SeqOverRange ==
  ASSUME NEW S, NEW s \in Seq(S)
  PROVE  s \in Seq(Range(s)) /\ Range(s) \subseteq S
<1>1. DOMAIN s = 1..Len(s) /\ Len(s) \in Nat /\ \A i \in 1..Len(s) : s[i] \in S
  BY LenProperties
<1>2. s = [i \in 1..Len(s) |-> s[i]]
  BY <1>1
<1>3. \A i \in 1..Len(s) : s[i] \in Range(s)
  BY <1>1 DEF Range
<1>4. PICK R : R = Range(s)
  OBVIOUS
<1>5. PICK n \in Nat : n = Len(s)
  BY <1>1
<1>6. s \in Seq(R)
  <2>1. s = [i \in 1..n |-> s[i]] /\ \A i \in 1..n : s[i] \in R
    BY <1>2, <1>3, <1>4, <1>5
  <2>2. s \in [1..n -> R]
    BY <2>1
  <2> QED
    BY <2>2, SeqDef
<1>7. Range(s) \subseteq S
  BY <1>1 DEF Range
<1> QED
  BY <1>4, <1>6, <1>7

\* The names without those removed.
LEMMA WithoutIs ==
  ASSUME NEW S, NEW names \in Seq(S), NEW removed
  PROVE  Without(names, removed) \in Seq(S) /\ Range(Without(names, removed)) = Range(names) \ removed
<1> DEFINE pieces == [i \in DOMAIN names |-> IF names[i] \in removed THEN << >> ELSE <<names[i]>>]
<1>1. DOMAIN names = 1..Len(names) /\ Len(names) \in Nat /\ \A i \in 1..Len(names) : names[i] \in S
  BY LenProperties
<1>2. \A i \in 1..Len(names) : (IF names[i] \in removed THEN << >> ELSE <<names[i]>>) \in Seq(S)
  BY <1>1
<1>3. pieces \in Seq(Seq(S)) /\ DOMAIN pieces = DOMAIN names
  BY <1>1, <1>2
<1>4. \A i \in DOMAIN names : ToSet(pieces[i]) = IF names[i] \in removed THEN {} ELSE {names[i]}
  <2>1. ASSUME NEW i \in DOMAIN names PROVE ToSet(pieces[i]) = IF names[i] \in removed THEN {} ELSE {names[i]}
    <3>1. CASE names[i] \in removed
      <4>1. pieces[i] = << >> /\ DOMAIN << >> = {}
        BY <3>1
      <4> QED
        BY <3>1, <4>1 DEF ToSet
    <3>2. CASE names[i] \notin removed
      <4>1. pieces[i] = <<names[i]>> /\ DOMAIN <<names[i]>> = {1} /\ <<names[i]>>[1] = names[i]
        BY <3>2
      <4> QED
        BY <3>2, <4>1 DEF ToSet
    <3> QED
      BY <3>1, <3>2
  <2> QED
    BY <2>1
<1>5. Without(names, removed) = FlattenSeq(pieces)
  BY DEF Without
<1> HIDE DEF pieces
<1>6. FlattenSeq(pieces) \in Seq(S)
  BY <1>3, FlattenIsSeq
<1>7. ToSet(FlattenSeq(pieces)) = UNION {ToSet(pieces[b]) : b \in DOMAIN pieces}
  BY <1>3, FlattenElements
<1>8. UNION {ToSet(pieces[b]) : b \in DOMAIN pieces} = Range(names) \ removed
  BY <1>3, <1>4 DEF Range
<1> QED
  BY <1>5, <1>6, <1>7, <1>8, RangeIsToSet

\* A statement binds the values of its own columns.
LEMMA InsertIsSound ==
  ASSUME NEW d, NEW o, SoundTable(d)
  PROVE  SoundInsert(d, o.ignored, GenInsert(d, o))
<1> DEFINE names == Names(d)
           removed == AutoSet(d) \cup o.ignored
<1>1. names \in Seq(Range(names))
  BY SeqOverRange DEF SoundTable
<1>2. DOMAIN names = DOMAIN d.fields /\ \A i \in DOMAIN d.fields : names[i] = d.fields[i].name
  BY DEF Names
<1>3. \A n : n \in removed <=> n \in o.ignored \/ (n = d.primary /\ d.auto)
  BY DEF AutoSet
<1>4. [i \in DOMAIN names |-> IF names[i] \in removed THEN << >> ELSE <<names[i]>>]
        = [i \in DOMAIN d.fields |-> LET n == d.fields[i].name IN
             IF n \in o.ignored \/ (n = d.primary /\ d.auto) THEN << >> ELSE <<n>>]
  BY <1>2, <1>3
<1>5. GenInsert(d, o).columns = Without(names, removed) /\ GenInsert(d, o).values = Without(names, removed)
  BY <1>4 DEF GenInsert, RowsExpectAutoSet, Without
<1> QED
  BY <1>1, <1>5, WithoutIs DEF SoundInsert

LEMMA UpdateIsSound ==
  ASSUME NEW d, NEW o, SoundTable(d)
  PROVE  SoundUpdate(d, o.ignored, GenUpdate(d, o))
<1> DEFINE names == Names(d)
           removed == {d.primary} \cup o.ignored
<1>1. names \in Seq(Range(names))
  BY SeqOverRange DEF SoundTable
<1>2. DOMAIN names = DOMAIN d.fields /\ \A i \in DOMAIN d.fields : names[i] = d.fields[i].name
  BY DEF Names
<1>3. \A n : n \in removed <=> n \in o.ignored \/ n = d.primary
  OBVIOUS
<1>4. [i \in DOMAIN names |-> IF names[i] \in removed THEN << >> ELSE <<names[i]>>]
        = [i \in DOMAIN d.fields |-> LET n == d.fields[i].name IN
             IF n \in o.ignored \/ n = d.primary THEN << >> ELSE <<n>>]
  BY <1>2, <1>3
<1>5. RowsWithPlaceHolder(d, o.ignored) = Without(names, removed) /\ GenSet(d, o) = Without(names, removed)
  BY <1>4 DEF GenSet, RowsWithPlaceHolder, Without
<1>6. PICK s : s = Without(names, removed)
  OBVIOUS
<1>7. GenUpdate(d, o) = [columns |-> s, values |-> IF o.from = "pg" THEN <<d.primary>> \o s ELSE s \o <<d.primary>>,
                         first |-> IF o.from = "pg" THEN 2 ELSE 1,
                         where |-> IF o.from = "pg" THEN 1 ELSE Len(s) + 1]
  BY <1>5, <1>6 DEF GenUpdate
<1>8. s \in Seq(Range(names)) /\ Range(s) = Range(names) \ removed
  BY <1>1, <1>6, WithoutIs
<1> QED
  BY <1>7, <1>8 DEF SoundUpdate

LEMMA ModelIsSound ==
  ASSUME NEW d, NEW o \in Options, SoundTable(d)
  PROVE  SoundModel(GenModel(d, o))
<1>1. o.cache \in BOOLEAN
  BY ProjectAssumption
<1>2. GenModel(d, o) = [table |-> d, cache |-> o.cache, ignored |-> o.ignored, pg |-> o.from = "pg",
                        insert |-> GenInsert(d, o), update |-> GenUpdate(d, o)]
  BY DEF GenModel
<1>3. SoundInsert(d, o.ignored, GenInsert(d, o)) /\ SoundUpdate(d, o.ignored, GenUpdate(d, o))
  BY InsertIsSound, UpdateIsSound
<1> QED
  BY <1>1, <1>2, <1>3 DEF SoundModel

-----------------------------------------------------------------------------
(* Finite sets of what the database knows *)

LEMMA ImageFinite ==
  ASSUME NEW S, IsFiniteSet(S), NEW f, DOMAIN f = S
  PROVE  IsFiniteSet({f[x] : x \in S})
<1> DEFINE T == {f[x] : x \in S}
           g == [x \in S |-> f[x]]
<1>1. g \in Surjection(S, T)
  <2>1. g \in [S -> T]
    OBVIOUS
  <2>2. \A y \in T : \E x \in S : g[x] = y
    OBVIOUS
  <2> QED
    BY <2>1, <2>2 DEF Surjection
<1> QED
  BY <1>1, FS_Surjection

LEMMA RangeFinite ==
  ASSUME NEW S, NEW s \in Seq(S)
  PROVE  IsFiniteSet(Range(s)) /\ IsFiniteSet(DOMAIN s)
<1>1. DOMAIN s = 1..Len(s) /\ Len(s) \in Nat
  BY LenProperties
<1>2. IsFiniteSet(1..Len(s))
  BY <1>1, FS_Interval
<1>3. Range(s) = {s[x] : x \in DOMAIN s}
  BY DEF Range
<1> QED
  BY <1>1, <1>2, <1>3, ImageFinite

LEMMA OrderedSet ==
  ASSUME NEW S, IsFiniteSet(S)
  PROVE  SetToSeq(S) \in Seq(S)
<1>1. PICK n \in Nat : n = Cardinality(S) /\ ExistsBijection(1..n, S)
  BY FS_CardinalityType
<1>2. PICK f \in [1..n -> S] : IsInjective(f)
  BY <1>1 DEF ExistsBijection, Bijection, Injection
<1>3. SetToSeq(S) \in [1..n -> S]
  BY <1>1, <1>2 DEF SetToSeq
<1> QED
  BY <1>3

\* Numbers of a sequence have a greatest one.
LEMMA Bounded ==
  ASSUME NEW s, NEW n \in Nat, \A i \in 1..n : s[i] \in Nat
  PROVE  \E b \in Nat : \A i \in 1..n : s[i] <= b
<1> DEFINE Below(m) == \E b \in Nat : \A i \in 1..m : s[i] <= b
           D == {m \in 0..n : ~Below(m)}
<1> SUFFICES ASSUME D # {} PROVE FALSE
  <2>1. n \in 0..n
    OBVIOUS
  <2> QED
    BY <2>1
<1>1. D \in SUBSET Nat
  OBVIOUS
<1>2. PICK m \in D : \A k \in D : m <= k
  <2> HIDE DEF D
  <2> QED
    BY <1>1, Least
<1>3. m \in 0..n /\ ~Below(m)
  BY <1>2
<1>4. Below(0)
  <2>1. \A i \in 1..0 : s[i] <= 0
    OBVIOUS
  <2> QED
    BY <2>1
<1>5. PICK k \in 0..n : m = k + 1
  <2>1. m # 0
    BY <1>3, <1>4
  <2>2. m - 1 \in 0..n /\ m = (m - 1) + 1
    BY <1>3, <2>1
  <2> QED
    BY <2>2
<1>6. Below(k)
  <2>1. k \in D => m <= k
    <3> HIDE DEF D
    <3> QED
      BY <1>2
  <2>2. ~(m <= k)
    BY <1>5
  <2>3. k \notin D
    BY <2>1, <2>2
  <2> QED
    BY <2>3
<1>7. PICK b \in Nat : \A i \in 1..k : s[i] <= b
  BY <1>6
<1>8. PICK e \in Nat : e = s[m]
  <2>1. m \in 1..n
    BY <1>3, <1>5
  <2>2. s[m] \in Nat
    BY <2>1
  <2> QED
    BY <2>2
<1>9. PICK u \in Nat : b <= u /\ e <= u
  <2>1. b <= b + e /\ e <= b + e /\ b + e \in Nat
    OBVIOUS
  <2> QED
    BY <2>1
<1>10. ASSUME NEW i \in 1..m PROVE s[i] <= u
  <2>1. CASE i = m
    BY <1>8, <1>9, <2>1
  <2>2. CASE i # m
    <3>1. i \in 1..k /\ i \in 1..n
      BY <1>3, <1>5, <2>2
    <3>2. PICK x \in Nat : x = s[i] /\ x <= b
      BY <1>7, <3>1
    <3> QED
      BY <1>9, <3>2
  <2> QED
    BY <2>1, <2>2
<1> QED
  BY <1>3, <1>9, <1>10

LEMMA GreatestPlace ==
  ASSUME NEW S, NEW s \in Seq(S), s # << >>, \A x \in Range(s) : x.seq \in Nat
  PROVE  Max({x.seq : x \in Range(s)}) \in Nat
<1> DEFINE M == {x.seq : x \in Range(s)}
           p == [i \in 1..Len(s) |-> s[i].seq]
<1>1. Len(s) \in Nat /\ DOMAIN s = 1..Len(s) /\ Len(s) # 0
  BY LenProperties, EmptySeq
<1>2. \A i \in 1..Len(s) : s[i] \in Range(s)
  BY <1>1 DEF Range
<1>3. \A i \in 1..Len(s) : p[i] \in Nat
  BY <1>2
<1>4. PICK b \in Nat : \A i \in 1..Len(s) : p[i] <= b
  <2> HIDE DEF p
  <2> QED
    BY <1>1, <1>3, Bounded
<1>5. M \subseteq Nat
  OBVIOUS
<1>6. \A y \in M : y <= b
  BY <1>1, <1>4 DEF Range
<1>7. M \subseteq 0..b
  BY <1>5, <1>6
<1>8. M # {}
  <2>1. s[1] \in Range(s)
    BY <1>1, <1>2
  <2>2. s[1].seq \in M
    BY <2>1
  <2> QED
    BY <2>2
<1>9. Max(M) \in M
  <2> HIDE DEF M
  <2> QED
    BY <1>7, <1>8, MaxOf
<1> QED
  BY <1>5, <1>9

-----------------------------------------------------------------------------
(* Both ways to read a table describe it soundly *)

ColumnNames(t) == {c.name : c \in Range(t.columns)}

LEMMA StatementIs ==
  ASSUME NEW t \in Statement
  PROVE  /\ t.columns \in Seq(ColumnDecl) /\ t.constraints \in Seq(ConstraintDecl)
         /\ DOMAIN t.columns = 1..Len(t.columns) /\ Len(t.columns) \in Nat
         /\ \A i \in DOMAIN t.columns : t.columns[i] \in ColumnDecl /\ t.columns[i] \in Range(t.columns)
         /\ Range(t.columns) \subseteq ColumnDecl
         /\ \A c \in ColumnDecl : c.name \in Name
<1>1. t.columns \in Seq(ColumnDecl) /\ t.constraints \in Seq(ConstraintDecl)
  BY DEF Statement
<1>2. PICK s \in Seq(ColumnDecl) : s = t.columns
  BY <1>1
<1>3. DOMAIN s = 1..Len(s) /\ Len(s) \in Nat /\ \A i \in DOMAIN s : s[i] \in ColumnDecl
  BY LenProperties
<1>4. Range(s) \subseteq ColumnDecl /\ \A i \in DOMAIN s : s[i] \in Range(s)
  BY <1>3 DEF Range
<1>5. \A c \in ColumnDecl : c.name \in Name
  BY DEF ColumnDecl
<1> QED
  BY <1>1, <1>2, <1>3, <1>4, <1>5

LEMMA Described ==
  ASSUME NEW t \in Statement, NEW d, DOMAIN d.fields = DOMAIN t.columns,
         \A i \in DOMAIN t.columns : d.fields[i].name = t.columns[i].name
  PROVE  Names(d) \in Seq(Name) /\ Range(Names(d)) = ColumnNames(t)
<1>1. PICK n \in Nat : DOMAIN t.columns = 1..n
  BY StatementIs
<1>2. \A i \in 1..n : t.columns[i].name \in Name
  BY <1>1, StatementIs
<1>3. Names(d) = [i \in 1..n |-> t.columns[i].name]
  BY <1>1 DEF Names
<1>4. Names(d) \in Seq(Name)
  BY <1>2, <1>3
<1>5. Range(Names(d)) = ColumnNames(t)
  BY <1>1, <1>3 DEF Range, ColumnNames
<1> QED
  BY <1>4, <1>5

\* Entries of uniqueKeyMap are named after their columns.
EntrySet == {Entry(columns, suffix) : columns \in Seq(Name), suffix \in {"unique", "idx"}}

LEMMA EntryIsNamed ==
  ASSUME NEW columns \in Seq(Name), NEW suffix \in {"unique", "idx"}
  PROVE  Entry(columns, suffix) \in EntrySet
  BY DEF EntrySet

LEMMA OneOrNone ==
  ASSUME NEW S, NEW x \in S, NEW one
  PROVE  (IF one THEN <<x>> ELSE << >>) \in Seq(S)
  OBVIOUS

LEMMA ConcatIsSeq ==
  ASSUME NEW S, NEW u \in Seq(S), NEW v \in Seq(S)
  PROVE  u \o v \in Seq(S)
  OBVIOUS

LEMMA EntriesAre ==
  ASSUME NEW t \in Statement
  PROVE  Entries(t) \in Seq(EntrySet)
<1> DEFINE A == [i \in DOMAIN t.columns |->
                  LET c == t.columns[i] IN
                  (IF "unique" \in c.options THEN <<Entry(<<c.name>>, "unique")>> ELSE <<>>)
                    \o (IF "key" \in c.options THEN <<Entry(<<c.name>>, "idx")>> ELSE <<>>)]
           B == [i \in DOMAIN t.constraints |->
                  IF t.constraints[i].kind = "unique" THEN <<Entry(t.constraints[i].columns, "unique")>> ELSE <<>>]
<1>1. A \in Seq(Seq(EntrySet))
  <2>1. PICK n \in Nat : DOMAIN t.columns = 1..n
    BY StatementIs
  <2>2. ASSUME NEW i \in 1..n PROVE A[i] \in Seq(EntrySet)
    <3>1. t.columns[i].name \in Name
      BY <2>1, StatementIs
    <3>2. <<t.columns[i].name>> \in Seq(Name)
      BY <3>1
    <3>3. PICK x \in EntrySet, y \in EntrySet :
            x = Entry(<<t.columns[i].name>>, "unique") /\ y = Entry(<<t.columns[i].name>>, "idx")
      BY <3>2, EntryIsNamed
    <3>4. PICK u \in Seq(EntrySet) : u = IF "unique" \in t.columns[i].options THEN <<x>> ELSE << >>
      BY OneOrNone
    <3>5. PICK v \in Seq(EntrySet) : v = IF "key" \in t.columns[i].options THEN <<y>> ELSE << >>
      BY OneOrNone
    <3>6. A[i] = u \o v
      BY <2>1, <3>3, <3>4, <3>5
    <3> HIDE DEF A
    <3> QED
      BY <3>6, ConcatIsSeq
  <2>3. A = [i \in 1..n |-> A[i]]
    BY <2>1
  <2> HIDE DEF A
  <2> QED
    BY <2>2, <2>3
<1>2. B \in Seq(Seq(EntrySet))
  <2>1. t.constraints \in Seq(ConstraintDecl)
    BY StatementIs
  <2>2. PICK n \in Nat : DOMAIN t.constraints = 1..n
    BY <2>1, LenProperties
  <2>3. ASSUME NEW i \in 1..n PROVE B[i] \in Seq(EntrySet)
    <3>1. t.constraints[i] \in ConstraintDecl
      BY <2>1, <2>2
    <3>2. t.constraints[i].columns \in Seq(Name)
      BY <3>1 DEF ConstraintDecl
    <3>3. Entry(t.constraints[i].columns, "unique") \in EntrySet
      BY <3>2 DEF EntrySet
    <3> QED
      BY <2>2, <3>3
  <2>4. B = [i \in 1..n |-> B[i]]
    BY <2>2
  <2> HIDE DEF B
  <2> QED
    BY <2>3, <2>4
<1>3. Entries(t) = FlattenSeq(A) \o FlattenSeq(B)
  BY DEF Entries
<1> HIDE DEF A, B
<1>4. FlattenSeq(A) \in Seq(EntrySet) /\ FlattenSeq(B) \in Seq(EntrySet)
  BY <1>1, <1>2, FlattenIsSeq
<1> QED
  BY <1>3, <1>4

\* A unique key has the columns of an entry that is not named after the primary key.
LEMMA UniqueKeyIs ==
  ASSUME NEW t \in Statement, NEW columns \in UniqueKeys(t)
  PROVE  /\ columns \in Seq(Name)
         /\ PrimaryColumn(t) \in Name => columns # <<PrimaryColumn(t)>>
<1> DEFINE e == Entries(t)
           dropped == {PrimaryColumn(t) \o <<suffix>> : suffix \in {"idx", "unique"}}
<1>1. PICK i \in DOMAIN e : e[i].index \notin dropped /\ columns = e[Max({k \in DOMAIN e : e[k].index = e[i].index})].columns
  BY DEF UniqueKeys
<1>2. e \in Seq(EntrySet)
  BY EntriesAre
<1> HIDE DEF e
<1>3. PICK n \in Nat : DOMAIN e = 1..n
  BY <1>2, LenProperties
<1>4. PICK k \in DOMAIN e : e[k].index = e[i].index /\ columns = e[k].columns
  <2> DEFINE T == {k \in DOMAIN e : e[k].index = e[i].index}
  <2>1. T \subseteq 0..n /\ i \in T
    BY <1>3
  <2>2. Max(T) \in T
    <3> HIDE DEF T
    <3> QED
      BY <2>1, MaxOf
  <2> QED
    BY <1>1, <2>2
<1>5. PICK names \in Seq(Name), suffix \in {"unique", "idx"} : e[k] = Entry(names, suffix)
  <2>1. e[k] \in EntrySet
    BY <1>2, <1>3, <1>4
  <2> QED
    BY <2>1 DEF EntrySet
<1>6. columns = names /\ e[k].index = FlattenSeq(names) \o <<suffix>>
  BY <1>4, <1>5 DEF Entry
<1>7. ASSUME PrimaryColumn(t) \in Name, columns = <<PrimaryColumn(t)>>
      PROVE  FALSE
  <2>1. FlattenSeq(names) = PrimaryColumn(t)
    BY <1>6, <1>7, FlattenOne DEF Name
  <2>2. e[k].index \in dropped
    BY <1>6, <2>1
  <2> QED
    BY <1>1, <1>4, <2>2
<1> QED
  BY <1>6, <1>7

\* A table read from a file.
LEMMA ParseIsSound ==
  ASSUME NEW t \in Statement, NEW strict, NEW experimental, Parse(t, strict, experimental) # None
  PROVE  SoundTable(Parse(t, strict, experimental))
<1> DEFINE fields == [i \in DOMAIN t.columns |->
                        LET c == t.columns[i] IN
                        [name |-> c.name,
                         type |-> MayConvertNullType(DeclaredTypes(experimental)[c.type], IsDefaultNull(t, c), c.unsigned, strict)]]
           auto == \E c \in Range(t.columns) : c.name = PrimaryColumn(t) /\ "auto" \in c.options
<1>1. ~ParseError(t, experimental) /\ ~MissingPrimaryKey(t)
  BY DEF Parse
<1>2. Parse(t, strict, experimental) = [name |-> t.name, primary |-> PrimaryColumn(t), auto |-> auto,
                          unique |-> UniqueKeys(t), fields |-> fields]
  BY <1>1 DEF Parse
<1>3. DOMAIN fields = DOMAIN t.columns /\ \A i \in DOMAIN t.columns : fields[i].name = t.columns[i].name
  OBVIOUS
<1>4. auto \in BOOLEAN
  BY Zenon
<1> HIDE DEF fields, auto
<1>5. PICK d : d = Parse(t, strict, experimental)
  OBVIOUS
<1>6. d.fields = fields /\ d.primary = PrimaryColumn(t) /\ d.auto = auto /\ d.unique = UniqueKeys(t)
  BY <1>2, <1>5
<1>7. Names(d) \in Seq(Name) /\ Range(Names(d)) = ColumnNames(t)
  BY <1>3, <1>6, Described
<1>8. PrimaryColumn(t) \in ColumnNames(t)
  BY <1>1 DEF MissingPrimaryKey, ColumnNames
<1>9. PrimaryColumn(t) \in Name
  BY <1>8, StatementIs DEF ColumnNames
<1>10. ASSUME NEW columns \in UniqueKeys(t)
       PROVE  columns \in Seq(ColumnNames(t)) /\ columns # <<PrimaryColumn(t)>>
  <2>1. Range(columns) \subseteq ColumnNames(t)
    BY <1>1 DEF ParseError, ColumnNames
  <2>2. columns \in Seq(Name) /\ columns # <<PrimaryColumn(t)>>
    BY <1>9, UniqueKeyIs
  <2>3. columns \in Seq(Range(columns))
    BY <2>2, SeqOverRange
  <2>4. columns \in Seq(ColumnNames(t))
    BY <2>1, <2>3, SeqMonotonic
  <2> QED
    BY <2>2, <2>4
<1> QED
  BY <1>4, <1>5, <1>6, <1>7, <1>8, <1>10 DEF SoundTable
\* The database's indexes are finite sets of sequences of names.
LEMMA PrimariesAre ==
  ASSUME NEW t \in Statement
  PROVE  Primaries(t) \in Seq(ConstraintDecl)
<1> DEFINE B == [i \in DOMAIN t.constraints |-> IF t.constraints[i].kind = "primary" THEN <<t.constraints[i]>> ELSE << >>]
<1>1. t.constraints \in Seq(ConstraintDecl)
  BY StatementIs
<1>2. PICK n \in Nat : DOMAIN t.constraints = 1..n
  BY <1>1, LenProperties
<1>3. ASSUME NEW i \in 1..n PROVE B[i] \in Seq(ConstraintDecl)
  <2>1. t.constraints[i] \in ConstraintDecl
    BY <1>1, <1>2
  <2> QED
    BY <1>2, <2>1
<1>4. B = [i \in 1..n |-> B[i]]
  BY <1>2
<1>5. Primaries(t) = FlattenSeq(B)
  BY DEF Primaries
<1> HIDE DEF B
<1>6. B \in Seq(Seq(ConstraintDecl))
  BY <1>3, <1>4
<1> QED
  BY <1>5, <1>6, FlattenIsSeq

LEMMA DbIndexIs ==
  ASSUME NEW t \in Statement, NEW x \in DbIndexes(t)
  PROVE  x.columns \in Seq(Name)
<1>1. \A k \in ConstraintDecl : k.columns \in Seq(Name)
  BY DEF ConstraintDecl
<1>2. \A c \in ColumnDecl : <<c.name>> \in Seq(Name)
  BY DEF ColumnDecl
<1>3. \A k \in Range(Primaries(t)) : k.columns \in Seq(Name)
  <2>1. Range(Primaries(t)) \subseteq ConstraintDecl
    BY PrimariesAre, SeqOverRange
  <2> QED
    BY <1>1, <2>1
<1>4. \A c \in Range(t.columns) : <<c.name>> \in Seq(Name)
  BY <1>2, StatementIs
<1>5. \A i \in DOMAIN t.constraints : t.constraints[i].columns \in Seq(Name)
  <2>1. t.constraints \in Seq(ConstraintDecl)
    BY StatementIs
  <2>2. \A i \in DOMAIN t.constraints : t.constraints[i] \in ConstraintDecl
    BY <2>1
  <2> QED
    BY <1>1, <2>2
<1>6. \A i \in DOMAIN t.columns : <<t.columns[i].name>> \in Seq(Name)
  BY <1>2, StatementIs
<1>7. \/ \E k \in Range(Primaries(t)) : x.columns = k.columns
      \/ \E c \in Range(t.columns) : x.columns = <<c.name>>
      \/ \E i \in DOMAIN t.constraints : x.columns = t.constraints[i].columns
      \/ \E i \in DOMAIN t.columns : x.columns = <<t.columns[i].name>>
  BY DEF DbIndexes
<1> QED
  BY <1>3, <1>4, <1>5, <1>6, <1>7

LEMMA DbIndexesFinite ==
  ASSUME NEW t \in Statement
  PROVE  IsFiniteSet(DbIndexes(t))
<1> DEFINE P == Range(Primaries(t))
           C == {c \in Range(t.columns) : "primary" \in c.options}
           I == {i \in DOMAIN t.constraints : t.constraints[i].kind # "primary"}
           U == {i \in DOMAIN t.columns : "unique" \in t.columns[i].options}
           p == [k \in P |-> [index |-> indexPri, nonUnique |-> FALSE, columns |-> k.columns]]
           c == [k \in C |-> [index |-> indexPri, nonUnique |-> FALSE, columns |-> <<k.name>>]]
           i == [k \in I |-> [index |-> <<"constraint", k>>, nonUnique |-> t.constraints[k].kind = "index",
                              columns |-> t.constraints[k].columns]]
           u == [k \in U |-> [index |-> <<"column", k>>, nonUnique |-> FALSE, columns |-> <<t.columns[k].name>>]]
<1>1. IsFiniteSet(P) /\ IsFiniteSet(C) /\ IsFiniteSet(I) /\ IsFiniteSet(U)
  <2>1. IsFiniteSet(Range(Primaries(t)))
    BY PrimariesAre, RangeFinite
  <2>2. IsFiniteSet(Range(t.columns)) /\ IsFiniteSet(DOMAIN t.columns) /\ IsFiniteSet(DOMAIN t.constraints)
    BY StatementIs, RangeFinite
  <2>3. C \in SUBSET Range(t.columns) /\ I \in SUBSET (DOMAIN t.constraints) /\ U \in SUBSET (DOMAIN t.columns)
    OBVIOUS
  <2> HIDE DEF C, I, U
  <2> QED
    BY <2>1, <2>2, <2>3, FS_Subset
<1>2. DOMAIN p = P /\ DOMAIN c = C /\ DOMAIN i = I /\ DOMAIN u = U
  OBVIOUS
<1>3. DbIndexes(t) = {p[k] : k \in P} \cup {c[k] : k \in C} \cup {i[k] : k \in I} \cup {u[k] : k \in U}
  BY DEF DbIndexes
<1> HIDE DEF P, C, I, U, p, c, i, u
<1>4. IsFiniteSet({p[k] : k \in P}) /\ IsFiniteSet({c[k] : k \in C})
  BY <1>1, <1>2, ImageFinite
<1>5. IsFiniteSet({i[k] : k \in I}) /\ IsFiniteSet({u[k] : k \in U})
  BY <1>1, <1>2, ImageFinite
<1>6. \A S, T : IsFiniteSet(S) /\ IsFiniteSet(T) => IsFiniteSet(S \cup T)
  BY FS_Union
<1>7. IsFiniteSet({p[k] : k \in P} \cup {c[k] : k \in C})
  BY <1>4, <1>6
<1>8. IsFiniteSet({p[k] : k \in P} \cup {c[k] : k \in C} \cup {i[k] : k \in I})
  BY <1>5, <1>6, <1>7
<1>9. IsFiniteSet({p[k] : k \in P} \cup {c[k] : k \in C} \cup {i[k] : k \in I} \cup {u[k] : k \in U})
  BY <1>5, <1>6, <1>8
<1> QED
  BY <1>3, <1>9

\* What FindColumns finds.
FoundSet(t) ==
    [column : Range(t.columns), ordinal : DOMAIN t.columns,
     index : {x.index : x \in DbIndexes(t)} \cup {NoIndex},
     nonUnique : {x.nonUnique : x \in DbIndexes(t)} \cup {FALSE}, seq : Nat]

LEMMA FoundAre ==
  ASSUME NEW t \in Statement
  PROVE  FindColumns(t) \in Seq(FoundSet(t))
<1> DEFINE Own(c) == {x \in DbIndexes(t) : c.name \in Range(x.columns)}
           Of(i, x) == [column |-> t.columns[i], ordinal |-> i, index |-> x.index, nonUnique |-> x.nonUnique,
                        seq |-> CHOOSE s \in DOMAIN x.columns : x.columns[s] = t.columns[i].name]
           None1(i) == [column |-> t.columns[i], ordinal |-> i, index |-> NoIndex, nonUnique |-> FALSE, seq |-> 0]
           piece == [i \in DOMAIN t.columns |->
                       IF Own(t.columns[i]) = {} THEN <<None1(i)>>
                       ELSE [k \in DOMAIN SetToSeq(Own(t.columns[i])) |-> Of(i, SetToSeq(Own(t.columns[i]))[k])]]
<1>1. PICK n \in Nat : DOMAIN t.columns = 1..n
  BY StatementIs
<1>2. ASSUME NEW i \in 1..n PROVE t.columns[i] \in Range(t.columns)
  BY <1>1, StatementIs
<1>3. ASSUME NEW i \in 1..n PROVE None1(i) \in FoundSet(t)
  BY <1>1, <1>2 DEF FoundSet
<1>4. ASSUME NEW i \in 1..n, NEW x \in Own(t.columns[i]) PROVE Of(i, x) \in FoundSet(t)
  <2>1. PICK cols \in Seq(Name) : cols = x.columns
    BY DbIndexIs
  <2>2. DOMAIN cols \subseteq Nat
    <3>1. DOMAIN cols = 1..Len(cols) /\ Len(cols) \in Nat
      BY LenProperties
    <3> QED
      BY <3>1
  <2>3. \E s \in DOMAIN cols : cols[s] = t.columns[i].name
    BY <2>1 DEF Range
  <2>4. PICK s \in Nat : s = CHOOSE z \in DOMAIN cols : cols[z] = t.columns[i].name
    BY <2>2, <2>3
  <2>5. Of(i, x) = [column |-> t.columns[i], ordinal |-> i, index |-> x.index, nonUnique |-> x.nonUnique, seq |-> s]
    BY <2>1, <2>4
  <2>6. x \in DbIndexes(t)
    OBVIOUS
  <2> QED
    BY <1>1, <1>2, <2>5, <2>6 DEF FoundSet
<1>5. ASSUME NEW i \in 1..n PROVE piece[i] \in Seq(FoundSet(t))
  <2>1. CASE Own(t.columns[i]) = {}
    <3>1. piece[i] = <<None1(i)>>
      BY <1>1, <2>1
    <3>2. PICK x \in FoundSet(t) : x = None1(i)
      BY <1>3
    <3>3. <<x>> \in Seq(FoundSet(t))
      OBVIOUS
    <3> QED
      BY <3>1, <3>2, <3>3
  <2>2. CASE Own(t.columns[i]) # {}
    <3>1. IsFiniteSet(Own(t.columns[i]))
      BY DbIndexesFinite, FS_Subset
    <3>2. PICK order \in Seq(Own(t.columns[i])) : order = SetToSeq(Own(t.columns[i]))
      BY <3>1, OrderedSet
    <3>3. PICK m \in Nat : DOMAIN order = 1..m /\ \A k \in 1..m : order[k] \in Own(t.columns[i])
      <4> HIDE DEF Own
      <4> QED
        BY LenProperties
    <3>4. piece[i] = [k \in 1..m |-> Of(i, order[k])]
      BY <1>1, <2>2, <3>2, <3>3
    <3>5. \A k \in 1..m : Of(i, order[k]) \in FoundSet(t)
      BY <1>4, <3>3
    <3> HIDE DEF piece, Of
    <3> QED
      BY <3>4, <3>5
  <2> QED
    BY <2>1, <2>2
<1>6. piece = [i \in 1..n |-> piece[i]]
  BY <1>1
<1>7. FindColumns(t) = FlattenSeq(piece)
  BY DEF FindColumns
<1> HIDE DEF piece
<1>8. piece \in Seq(Seq(FoundSet(t)))
  BY <1>5, <1>6
<1> QED
  BY <1>7, <1>8, FlattenIsSeq
LEMMA SeqFrom ==
  ASSUME NEW S, NEW n \in Nat, NEW f, f = [i \in 1..n |-> f[i]], \A i \in 1..n : f[i] \in S
  PROVE  f \in Seq(S)
  OBVIOUS

LEMMA MemberIsBoolean ==
  ASSUME NEW x, NEW S
  PROVE  (x \in S) \in BOOLEAN
  OBVIOUS

LEMMA IndexedIs ==
  ASSUME NEW S, NEW found \in Seq(S), NEW index
  PROVE  /\ Indexed(found, index) \in Seq(S)
         /\ Range(Indexed(found, index)) = {x \in Range(found) : x.index = index}
<1> DEFINE piece == [i \in DOMAIN found |-> IF found[i].index = index THEN <<found[i]>> ELSE << >>]
<1>1. PICK n \in Nat : DOMAIN found = 1..n /\ \A i \in 1..n : found[i] \in S
  BY LenProperties
<1>2. ASSUME NEW i \in 1..n
      PROVE  /\ piece[i] \in Seq(S)
             /\ ToSet(piece[i]) = {x \in {found[i]} : x.index = index}
  <2>1. CASE found[i].index = index
    <3>1. piece[i] = <<found[i]>> /\ found[i] \in S
      BY <1>1, <2>1
    <3>2. PICK x \in S : x = found[i]
      BY <3>1
    <3>3. <<x>> \in Seq(S) /\ ToSet(<<x>>) = {x}
      BY DEF ToSet
    <3> QED
      BY <2>1, <3>1, <3>2, <3>3
  <2>2. CASE found[i].index # index
    <3>1. piece[i] = << >>
      BY <1>1, <2>2
    <3>2. << >> \in Seq(S) /\ ToSet(<< >>) = {}
      BY DEF ToSet
    <3> QED
      BY <2>2, <3>1, <3>2
  <2> QED
    BY <2>1, <2>2
<1>3. piece = [i \in 1..n |-> piece[i]]
  BY <1>1
<1>4. Indexed(found, index) = FlattenSeq(piece)
  BY DEF Indexed
<1> HIDE DEF piece
<1>5. piece \in Seq(Seq(S)) /\ DOMAIN piece = 1..n
  BY <1>2, <1>3
<1>6. Indexed(found, index) \in Seq(S)
  BY <1>4, <1>5, FlattenIsSeq
<1>7. Range(Indexed(found, index)) = UNION {ToSet(piece[i]) : i \in 1..n}
  BY <1>4, <1>5, FlattenElements, RangeIsToSet
<1>8. UNION {ToSet(piece[i]) : i \in 1..n} = UNION {{x \in {found[i]} : x.index = index} : i \in 1..n}
  BY <1>2
<1>9. UNION {{x \in {found[i]} : x.index = index} : i \in 1..n} = {x \in Range(found) : x.index = index}
  BY <1>1 DEF Range
<1> QED
  BY <1>6, <1>7, <1>8, <1>9

LEMMA IndexOrderIs ==
  ASSUME NEW N, NEW S, NEW entries \in Seq(S), entries # << >>,
         \A x \in S : x.seq \in Nat /\ x.column.name \in N
  PROVE  InIndexOrder(entries) \in Seq(N)
<1>1. PICK n \in Nat : DOMAIN entries = 1..n /\ \A i \in 1..n : entries[i] \in S
  BY LenProperties
<1>2. ASSUME NEW seq PROVE ColumnsAt(entries, seq) \in Seq(N)
  <2> DEFINE piece == [k \in DOMAIN entries |-> IF entries[k].seq = seq THEN <<entries[k].column.name>> ELSE << >>]
  <2>1. ASSUME NEW k \in 1..n PROVE piece[k] \in Seq(N)
    <3>1. PICK x \in N : x = entries[k].column.name
      BY <1>1
    <3>2. piece[k] = IF entries[k].seq = seq THEN <<x>> ELSE << >>
      BY <1>1, <3>1
    <3> HIDE DEF piece
    <3> QED
      BY <3>2, OneOrNone
  <2>2. piece = [k \in 1..n |-> piece[k]]
    BY <1>1
  <2>3. ColumnsAt(entries, seq) = FlattenSeq(piece)
    BY DEF ColumnsAt
  <2> HIDE DEF piece
  <2>4. \A k \in 1..n : piece[k] \in Seq(N)
    BY <2>1
  <2>5. piece \in Seq(Seq(N))
    BY <2>2, <2>4, SeqFrom
  <2> QED
    BY <2>3, <2>5, FlattenIsSeq
<1>3. PICK m \in Nat : m = Max({e.seq : e \in Range(entries)})
  <2>1. \A x \in Range(entries) : x.seq \in Nat
    BY <1>1 DEF Range
  <2> QED
    BY <2>1, GreatestPlace
<1>4. InIndexOrder(entries) = FlattenSeq([seq \in 1..m |-> ColumnsAt(entries, seq)])
  BY <1>3 DEF InIndexOrder
<1>5. [seq \in 1..m |-> ColumnsAt(entries, seq)] \in Seq(Seq(N))
  BY <1>2
<1> QED
  BY <1>4, <1>5, FlattenIsSeq

\* A table read from the database.
LEMMA ConvertIsSound ==
  ASSUME NEW t \in Statement, NEW from, NEW strict, ConvertDataType(t, from, strict) # None
  PROVE  SoundTable(ConvertDataType(t, from, strict))
<1> DEFINE found == FindColumns(t)
           key == Indexed(found, indexPri)[1].column
           fields == [i \in DOMAIN t.columns |->
                        LET c == t.columns[i] IN
                        [name |-> c.name,
                         type |-> MayConvertNullType(commonMysqlDataTypeMapString[ReportedType(c.type, from)], DbDefaultNull(t, c), c.unsigned, strict)]]
           auto == "auto" \in key.options
           unique == {InIndexOrder(x) : x \in UniqueIndexes(found)} \ {<<key.name>>}
<1>1. ~ConvertError(found)
  BY DEF ConvertDataType
<1>2. ConvertDataType(t, from, strict) = [name |-> t.name, primary |-> key.name, auto |-> auto, unique |-> unique, fields |-> fields]
  BY <1>1 DEF ConvertDataType
<1>3. DOMAIN fields = DOMAIN t.columns /\ \A i \in DOMAIN t.columns : fields[i].name = t.columns[i].name
  OBVIOUS
<1>4. auto \in BOOLEAN
  BY MemberIsBoolean
<1>5. found \in Seq(FoundSet(t))
  BY FoundAre
<1>6. \A x \in FoundSet(t) : x.seq \in Nat /\ x.column \in Range(t.columns)
  BY DEF FoundSet
<1>7. \A x \in FoundSet(t) : x.seq \in Nat /\ x.column.name \in ColumnNames(t)
  BY <1>6 DEF ColumnNames
<1>8. key \in Range(t.columns)
  <2>1. PICK s \in Seq(FoundSet(t)) : s = Indexed(found, indexPri)
    BY <1>5, IndexedIs
  <2>2. Len(s) = 1
    BY <1>1, <2>1 DEF ConvertError
  <2>3. \A i \in 1..Len(s) : s[i] \in FoundSet(t)
    BY LenProperties
  <2>4. s[1] \in FoundSet(t)
    BY <2>2, <2>3
  <2> QED
    BY <1>6, <2>1, <2>4
<1>9. key.name \in ColumnNames(t)
  BY <1>8 DEF ColumnNames
<1>10. ASSUME NEW x \in UniqueIndexes(found) PROVE InIndexOrder(x) \in Seq(ColumnNames(t))
  <2>1. PICK e \in Range(found) : x = Indexed(found, e.index)
    BY DEF UniqueIndexes
  <2>2. x \in Seq(FoundSet(t)) /\ e \in Range(x)
    BY <1>5, <2>1, IndexedIs
  <2>3. x # << >>
    BY <2>2 DEF Range
  <2> QED
    BY <1>7, <2>2, <2>3, IndexOrderIs
<1>11. \A columns \in unique : columns \in Seq(ColumnNames(t)) /\ columns # <<key.name>>
  BY <1>10
<1> HIDE DEF fields, auto, key, unique, found
<1>12. PICK d : d = ConvertDataType(t, from, strict)
  OBVIOUS
<1>13. d.fields = fields /\ d.primary = key.name /\ d.auto = auto /\ d.unique = unique
  BY <1>2, <1>12
<1>14. Names(d) \in Seq(Name) /\ Range(Names(d)) = ColumnNames(t)
  BY <1>3, <1>13, Described
<1> QED
  BY <1>4, <1>9, <1>11, <1>12, <1>13, <1>14 DEF SoundTable

-----------------------------------------------------------------------------
(* Whatever commands are run, every model in the directory is sound *)

LEMMA WriteModelsSound ==
  ASSUME NEW ds, NEW custom, NEW o \in Options, \A d \in ds : SoundTable(d), \A n \in DOMAIN dir : SoundModel(dir[n].gen),
         WriteModels(ds, custom, o)
  PROVE  \A n \in DOMAIN dir' : SoundModel(dir'[n].gen)
<1> DEFINE new == {d.name : d \in ds}
<1>1. /\ DOMAIN dir' = DOMAIN dir \cup new
      /\ \A n \in DOMAIN dir' :
            dir'[n].gen = IF n \in new THEN GenModel(CHOOSE d \in ds : d.name = n, o) ELSE dir[n].gen
  BY DEF WriteModels
<1>2. ASSUME NEW n \in new PROVE SoundModel(dir'[n].gen)
  <2>1. PICK d \in ds : d = CHOOSE z \in ds : z.name = n
    OBVIOUS
  <2>2. dir'[n].gen = GenModel(d, o)
    BY <1>1, <2>1
  <2>3. SoundTable(d)
    OBVIOUS
  <2> QED
    BY <2>2, <2>3, ModelIsSound
<1>3. ASSUME NEW n \in DOMAIN dir, n \notin new PROVE SoundModel(dir'[n].gen)
  <2>1. dir'[n].gen = dir[n].gen
    BY <1>1, <1>3
  <2> QED
    BY <2>1
<1> HIDE DEF new
<1> QED
  BY <1>1, <1>2, <1>3

LEMMA CreateSound ==
  ASSUME NEW ds, NEW o \in Options, \A d \in ds : SoundTable(d), \A n \in DOMAIN dir : SoundModel(dir[n].gen),
         CreateFile(ds, o) \/ CreateFails(ds, o)
  PROVE  \A n \in DOMAIN dir' : SoundModel(dir'[n].gen)
<1>1. CASE CreateFile(ds, o)
  BY <1>1, WriteModelsSound DEF CreateFile
<1>2. CASE CreateFails(ds, o)
  <2>1. PICK done \in SUBSET ds : \E begun \in {{}} \cup {{d} : d \in ds \ done} : WriteModels(done \cup begun, done, o)
    BY <1>2 DEF CreateFails
  <2>2. PICK begun \in {{}} \cup {{d} : d \in ds \ done} : WriteModels(done \cup begun, done, o)
    BY <2>1
  <2>3. PICK some : some = done \cup begun
    OBVIOUS
  <2>4. some \subseteq ds
    BY <2>3
  <2>5. \A d \in some : SoundTable(d)
    BY <2>4
  <2> QED
    BY <2>2, <2>3, <2>5, WriteModelsSound
<1> QED
  BY <1>1, <1>2

LEMMA GenInitInv ==
  ASSUME GenInit
  PROVE  GenInv
<1>1. files \in Seq(Seq(Statement)) /\ files # << >>
  BY ProjectAssumption DEF GenInit
<1>2. job = None /\ DOMAIN dir = {}
  BY DEF GenInit
<1> QED
  BY <1>1, <1>2 DEF GenInv

LEMMA GenStepInv ==
  ASSUME GenInv, GenNext
  PROVE  GenInv'
<1>0. /\ files \in Seq(Seq(Statement)) /\ files # << >>
      /\ job # None => job = [options |-> job.options, at |-> job.at] /\ job.options \in Options /\ job.at \in DOMAIN files
      /\ \A n \in DOMAIN dir : SoundModel(dir[n].gen)
  BY DEF GenInv
<1>1. PICK n \in Nat : n = Len(files) /\ DOMAIN files = 1..n /\ n # 0 /\ \A i \in 1..n : files[i] \in Seq(Statement)
  <2>1. DOMAIN files = 1..Len(files) /\ Len(files) \in Nat /\ \A i \in 1..Len(files) : files[i] \in Seq(Statement)
    BY <1>0, LenProperties
  <2>2. Len(files) # 0
    BY <1>0, EmptySeq
  <2> QED
    BY <2>1, <2>2
<1>2. ASSUME NEW o \in Options, MysqlDDL(o) PROVE GenInv'
  <2>1. job' = [options |-> o, at |-> 1] /\ files' = files /\ dir' = dir
    BY <1>2 DEF MysqlDDL
  <2>2. job'.options = o /\ job'.at = 1 /\ 1 \in DOMAIN files /\ job' = [options |-> job'.options, at |-> job'.at]
    BY <1>1, <2>1
  <2> QED
    BY <1>0, <2>1, <2>2 DEF GenInv
<1>3. ASSUME FromDDL PROVE GenInv'
  <2>1. job # None /\ files' = files
    BY <1>3 DEF FromDDL
  <2>2. PICK o \in Options, at \in 1..n : o = job.options /\ at = job.at
    BY <1>0, <1>1, <2>1
  <2> DEFINE ds == Parsed(files[at], o)
  <2>3. StartFromDDL(o, ds)
    BY <1>3, <2>2 DEF FromDDL
  <2>4. CASE None \in ds
    <3>1. job' = None /\ dir' = dir
      BY <2>3, <2>4 DEF StartFromDDL
    <3> QED
      BY <1>0, <2>1, <3>1 DEF GenInv
  <2>5. CASE None \notin ds
    <3>1. CreateFile(ds, o) \/ CreateFails(ds, o)
      BY <2>3, <2>5 DEF StartFromDDL
    <3>2. job' = None \/ job' = IF job.at = Len(files) THEN None ELSE [job EXCEPT !.at = @ + 1]
      BY <2>3, <2>5 DEF StartFromDDL
    <3>3. \A d \in ds : SoundTable(d)
      <4>1. Range(files[at]) \subseteq Statement
        BY <1>1, SeqOverRange
      <4>2. \A t \in Range(files[at]) : Parse(t, o.strict, o.experimental) # None => SoundTable(Parse(t, o.strict, o.experimental))
        BY <4>1, ParseIsSound
      <4> QED
        BY <2>5, <4>2 DEF Parsed
    <3>4. \A k \in DOMAIN dir' : SoundModel(dir'[k].gen)
      <4> HIDE DEF ds
      <4> QED
        BY <1>0, <3>1, <3>3, CreateSound
    <3>5. job' # None => job' = [options |-> job'.options, at |-> job'.at] /\ job'.options \in Options /\ job'.at \in DOMAIN files
      <4>1. CASE job' = None
        BY <4>1
      <4>2. CASE job' # None
        <5>1. job' = [job EXCEPT !.at = @ + 1]
          BY <3>2, <4>2
        <5>2. job = [options |-> o, at |-> at]
          BY <1>0, <2>1, <2>2
        <5>3. job' = [options |-> o, at |-> at + 1]
          BY <5>1, <5>2
        <5>4. at + 1 \in 1..n
          BY <1>1, <2>2, <3>2, <4>2
        <5> QED
          BY <1>1, <5>3, <5>4
      <4> QED
        BY <4>1, <4>2
    <3> QED
      BY <1>0, <2>1, <3>4, <3>5 DEF GenInv
  <2> QED
    BY <2>4, <2>5
<1>4. ASSUME NEW o \in Options, DataSource(o) PROVE GenInv'
  <2> DEFINE ds == Converted(o)
  <2>1. files' = files /\ job' = job
    BY <1>4 DEF DataSource
  <2>2. CASE None \in ds
    <3>1. dir' = dir
      BY <1>4, <2>2 DEF DataSource
    <3> QED
      BY <1>0, <2>1, <3>1 DEF GenInv
  <2>3. CASE None \notin ds
    <3>1. CreateFile(ds, o) \/ CreateFails(ds, o)
      BY <1>4, <2>3 DEF DataSource
    <3>2. Tables \subseteq Statement
      <4>1. FlattenSeq(files) \in Seq(Statement)
        BY <1>0, FlattenIsSeq
      <4> QED
        BY <4>1, SeqOverRange DEF Tables
    <3>3. \A t \in Tables : ConvertDataType(t, o.from, o.strict) # None => SoundTable(ConvertDataType(t, o.from, o.strict))
      BY <3>2, ConvertIsSound
    <3>4. \A d \in ds : SoundTable(d)
      BY <2>3, <3>3 DEF Converted
    <3>5. \A k \in DOMAIN dir' : SoundModel(dir'[k].gen)
      <4> HIDE DEF ds
      <4> QED
        BY <1>0, <3>1, <3>4, CreateSound
    <3> QED
      BY <1>0, <2>1, <3>5 DEF GenInv
  <2> QED
    BY <2>2, <2>3
<1> QED
  BY <1>2, <1>3, <1>4 DEF GenNext

-----------------------------------------------------------------------------
(* Values and keys *)

LEMMA ValuesAre ==
  /\ Values \subseteq Datum /\ Ids \subseteq Datum /\ Default \in Datum
  /\ Id(0) \in Datum /\ Id(0) \notin Ids
  /\ \A n \in 0..MaxId : n # 0 => Id(n) \in Ids
  /\ MaxId \in Nat /\ MaxId # 0
  /\ \A x \in Ids : ":" \notin Range(x) /\ x # << >>
<1>1. MaxId \in Nat /\ MaxId # 0
  BY ServiceAssumption
<1>2. 0 \in 0..MaxId /\ \A n \in 1..MaxId : n \in 0..MaxId /\ n # 0
  BY <1>1
<1>3. \A m, n \in 0..MaxId : Id(m) \in Datum /\ ":" \notin Range(Id(m)) /\ (Id(m) = Id(n) => m = n)
  BY ServiceAssumption
<1>4. Ids \subseteq Datum /\ Id(0) \in Datum /\ Id(0) \notin Ids
  BY <1>2, <1>3 DEF Ids
<1>5. \A n \in 0..MaxId : n # 0 => Id(n) \in Ids
  BY <1>1 DEF Ids
<1>6. Values \subseteq Datum
  BY ServiceAssumption
<1>7. Default \in Datum
  BY ServiceAssumption
<1>8. \A x \in Ids : ":" \notin Range(x)
  BY <1>2, <1>3 DEF Ids
<1>9. \A x \in Ids : x # << >>
  BY DEF Ids, Id
<1> QED
  BY <1>1, <1>4, <1>5, <1>6, <1>7, <1>8, <1>9

LEMMA JoinIsJoined ==
  ASSUME NEW values
  PROVE  JoinColon(values) = FlattenSeq(Joined(values, ":"))
  BY DEF JoinColon, Joined

LEMMA SeqOfMore ==
  ASSUME NEW S, NEW T, S \subseteq T
  PROVE  Seq(S) \subseteq Seq(T)
<1>1. SUFFICES ASSUME NEW s \in Seq(S) PROVE s \in Seq(T)
  OBVIOUS
<1>2. PICK n \in Nat : DOMAIN s = 1..n /\ \A i \in 1..n : s[i] \in S
  BY LenProperties
<1>3. s = [i \in 1..n |-> s[i]] /\ \A i \in 1..n : s[i] \in T
  BY <1>2, LenProperties
<1>4. s \in [1..n -> T]
  BY <1>3
<1> QED
  BY <1>4, SeqDef

LEMMA OfOne ==
  ASSUME NEW S, NEW u \in Seq(S), Len(u) = 1
  PROVE  \E x \in S : u = <<x>>
<1>1. DOMAIN u = 1..1 /\ u[1] \in S
  BY LenProperties
<1>2. u = <<u[1]>>
  BY <1>1
<1> QED
  BY <1>1, <1>2

\* What names and values are made of.
Letters == STRING \cup {":"}

LEMMA WrittenIs ==
  /\ Name \subseteq Seq(Letters) /\ Datum \subseteq Seq(Letters)
  /\ ":" \in Letters /\ \A name \in Name : ":" \notin Range(name)
<1>1. STRING \ {":"} \subseteq Letters /\ STRING \subseteq Letters /\ ":" \in Letters
  BY DEF Letters
<1>2. Name \subseteq Seq(Letters) /\ Datum \subseteq Seq(Letters)
  BY <1>1, SeqOfMore DEF Name, Datum
<1>3. ASSUME NEW name \in Name PROVE ":" \notin Range(name)
  <2>1. PICK T : T = STRING \ {":"}
    OBVIOUS
  <2>2. name \in Seq(T)
    BY <2>1 DEF Name
  <2>3. Range(name) \subseteq T
    BY <2>2, SeqOverRange
  <2> QED
    BY <2>1, <2>3
<1> QED
  BY <1>1, <1>2, <1>3

LEMMA JoinIs ==
  ASSUME NEW u \in Seq(Seq(Letters))
  PROVE  /\ JoinColon(u) \in Seq(Letters)
         /\ Len(u) = 0 => JoinColon(u) = << >>
         /\ Len(u) = 1 => JoinColon(u) = u[1]
         /\ Len(u) \notin {0, 1} => ":" \in Range(JoinColon(u))
<1>0. ":" \in Letters /\ Len(u) \in Nat
  BY WrittenIs, LenProperties
<1>1. PICK p \in Seq(Seq(Letters)) : p = Joined(u, ":") /\ Len(p) = Len(u)
  BY <1>0, JoinedPieces
<1>2. JoinColon(u) = FlattenSeq(p)
  BY <1>1, JoinIsJoined
<1>3. JoinColon(u) \in Seq(Letters)
  BY <1>2, FlattenIsSeq
<1>4. CASE Len(u) = 0
  <2>1. p = << >>
    BY <1>1, <1>4, EmptySeq
  <2>2. FlattenSeq(<< >>) = << >>
    BY DEF FlattenSeq
  <2> QED
    BY <1>2, <1>3, <1>4, <2>1, <2>2
<1>5. CASE Len(u) = 1
  <2>1. PICK x \in Seq(Letters) : u = <<x>>
    BY <1>5, OfOne
  <2>2. Joined(<<x>>, ":") = <<x>>
    BY DEF Joined
  <2>3. FlattenSeq(<<x>>) = x
    BY FlattenOne
  <2> QED
    BY <1>1, <1>2, <1>3, <1>5, <2>1, <2>2, <2>3
<1>6. CASE Len(u) \notin {0, 1}
  <2>1. 2 \in 2..Len(u) /\ 2 \in 1..Len(p) /\ 2 \in 1..Len(u)
    BY <1>0, <1>1, <1>6
  <2>2. PICK w \in Seq(Letters) : w = u[2]
    BY <2>1
  <2>3. p[2] = <<":">> \o w
    BY <1>0, <1>1, <2>1, <2>2, JoinedPieces
  <2>4. Len(<<":">> \o w) = Len(w) + 1 /\ (<<":">> \o w)[1] = ":" /\ Len(w) \in Nat
    BY <1>0, Behind, LenProperties
  <2>5. Holding(p[2], ":")
    BY <2>3, <2>4 DEF Holding
  <2>6. Holding(FlattenSeq(p), ":")
    BY <2>1, <2>5, FlattenHolds
  <2>7. PICK f \in Seq(Letters) : f = FlattenSeq(p)
    BY <1>2, <1>3
  <2>8. DOMAIN f = 1..Len(f)
    BY LenProperties
  <2>9. ":" \in Range(f)
    BY <2>6, <2>7, <2>8 DEF Holding, Range
  <2> QED
    BY <1>2, <1>3, <1>6, <2>7, <2>9
<1> QED
  BY <1>3, <1>4, <1>5, <1>6

LEMMA Concatenated ==
  ASSUME NEW S, NEW colon \in S, NEW s \in Seq(S), NEW t \in Seq(S)
  PROVE  /\ Len(s \o <<colon>> \o t) = Len(s) + 1 + Len(t)
         /\ \A k \in 1..Len(s) : (s \o <<colon>> \o t)[k] = s[k]
         /\ (s \o <<colon>> \o t)[Len(s) + 1] = colon
         /\ \A k \in 1..Len(t) : (s \o <<colon>> \o t)[Len(s) + 1 + k] = t[k]
<1>1. PICK w \in Seq(S) : w = s \o <<colon>>
  <2>1. <<colon>> \in Seq(S)
    OBVIOUS
  <2> QED
    BY <2>1, ConcatProperties
<1>2. Len(w) = Len(s) + 1 /\ (\A k \in 1..Len(s) : w[k] = s[k]) /\ w[Len(s) + 1] = colon /\ Len(s) \in Nat /\ Len(t) \in Nat
  <2>1. <<colon>> \in Seq(S) /\ Len(<<colon>>) = 1 /\ <<colon>>[1] = colon
    OBVIOUS
  <2> QED
    BY <1>1, <2>1, LenProperties, ConcatProperties
<1>3. /\ Len(w \o t) = Len(w) + Len(t)
      /\ \A k \in 1..Len(w) : (w \o t)[k] = w[k]
      /\ \A k \in 1..Len(t) : (w \o t)[Len(w) + k] = t[k]
  OBVIOUS
<1> QED
  BY <1>1, <1>2, <1>3

LEMMA SamePrefix ==
  ASSUME NEW S, NEW colon \in S, NEW s \in Seq(S), NEW t \in Seq(S), NEW u \in Seq(S),
         s \o <<colon>> \o t = s \o <<colon>> \o u
  PROVE  t = u
<1>0. PICK l \in Nat, m \in Nat, n \in Nat : l = Len(s) /\ m = Len(t) /\ n = Len(u)
  BY LenProperties
<1>1. PICK w : w = s \o <<colon>> \o t /\ w = s \o <<colon>> \o u
  OBVIOUS
<1>2. Len(w) = l + 1 + m /\ \A k \in 1..m : w[l + 1 + k] = t[k]
  BY <1>0, <1>1, Concatenated
<1>3. Len(w) = l + 1 + n /\ \A k \in 1..n : w[l + 1 + k] = u[k]
  BY <1>0, <1>1, Concatenated
<1>4. m = n
  BY <1>2, <1>3
<1> QED
  BY <1>0, <1>2, <1>3, <1>4, SeqEqual

\* A key that is no longer than the prefix, a separator and a value without one, tells both.
LEMMA OneSeparator ==
  ASSUME NEW S, NEW colon \in S, NEW s \in Seq(S), NEW t \in Seq(S), NEW a \in Seq(S), NEW b \in Seq(S),
         colon \notin Range(s), colon \notin Range(t), s \o <<colon>> \o t = a \o <<colon>> \o b
  PROVE  s = a /\ t = b
<1>0. PICK l \in Nat, m \in Nat, i \in Nat, j \in Nat : l = Len(s) /\ m = Len(t) /\ i = Len(a) /\ j = Len(b)
  BY LenProperties
<1>1. PICK u : u = s \o <<colon>> \o t /\ u = a \o <<colon>> \o b
  OBVIOUS
<1>2. /\ Len(u) = l + 1 + m
      /\ \A k \in 1..l : u[k] = s[k]
      /\ u[l + 1] = colon
      /\ \A k \in 1..m : u[l + 1 + k] = t[k]
  BY <1>0, <1>1, Concatenated
<1>3. /\ Len(u) = i + 1 + j
      /\ \A k \in 1..i : u[k] = a[k]
      /\ u[i + 1] = colon
      /\ \A k \in 1..j : u[i + 1 + k] = b[k]
  <2>1. /\ Len(a \o <<colon>> \o b) = Len(a) + 1 + Len(b)
        /\ \A k \in 1..Len(a) : (a \o <<colon>> \o b)[k] = a[k]
        /\ (a \o <<colon>> \o b)[Len(a) + 1] = colon
        /\ \A k \in 1..Len(b) : (a \o <<colon>> \o b)[Len(a) + 1 + k] = b[k]
    BY Concatenated
  <2>2. PICK v : v = a \o <<colon>> \o b /\ v = u
    BY <1>1
  <2> QED
    BY <1>0, <2>1, <2>2
<1>4. (\A k \in 1..l : s[k] # colon) /\ (\A k \in 1..m : t[k] # colon)
  <2>1. DOMAIN s = 1..l /\ DOMAIN t = 1..m
    BY <1>0, LenProperties
  <2> QED
    BY <2>1 DEF Range
<1>5. l = i
  <2>1. i + 1 \in 1..(l + 1 + m)
    BY <1>2, <1>3
  <2>2. CASE i + 1 <= l
    BY <1>2, <1>3, <1>4, <2>2
  <2>3. CASE i + 1 > l + 1
    <3>1. PICK k \in 1..m : i + 1 = l + 1 + k
      <4>1. i - l \in 1..m /\ i + 1 = l + 1 + (i - l)
        BY <2>1, <2>3
      <4> QED
        BY <4>1
    <3>2. u[l + 1 + k] = t[k] /\ t[k] # colon
      BY <1>2, <1>4
    <3>3. u[i + 1] = colon
      BY <1>3
    <3> QED
      BY <3>1, <3>2, <3>3
  <2> QED
    BY <2>1, <2>2, <2>3
<1>6. m = j
  BY <1>2, <1>3, <1>5
<1>7. s = a
  BY <1>0, <1>2, <1>3, <1>5, SeqEqual
<1>8. t = b
  <2>1. \A k \in 1..m : t[k] = b[k]
    <3>1. TAKE k \in 1..m
    <3>2. u[l + 1 + k] = t[k]
      BY <1>2
    <3>3. u[i + 1 + k] = b[k]
      BY <1>3, <1>6
    <3> QED
      BY <1>5, <3>2, <3>3
  <2> QED
    BY <1>0, <1>6, <2>1, SeqEqual
<1> QED
  BY <1>7, <1>8

LEMMA ModelIs ==
  ASSUME SoundModel(model)
  PROVE  /\ Primary \in Columns
         /\ model.table.auto \in BOOLEAN /\ model.cache \in BOOLEAN
         /\ \A columns \in Indexes : columns \in Seq(Columns)
<1>1. SoundTable(model.table) /\ model.cache \in BOOLEAN
  BY DEF SoundModel
<1> QED
  BY <1>1 DEF SoundTable, Primary, Columns, Indexes

LEMMA IndexColumns ==
  ASSUME SoundModel(model), NEW columns \in Indexes
  PROVE  \A i \in DOMAIN columns : columns[i] \in Columns /\ columns[i] \in Range(columns)
<1>1. columns \in Seq(Columns)
  BY ModelIs
<1>2. DOMAIN columns = 1..Len(columns) /\ \A i \in 1..Len(columns) : columns[i] \in Columns
  BY <1>1, LenProperties
<1> QED
  BY <1>2 DEF Range

LEMMA SoughtIs ==
  ASSUME NEW columns, NEW data \in Sought(columns)
  PROVE  data \in [Columns -> Datum]
<1>1. \A f \in Columns : Asked(columns, f) \subseteq Datum
  BY ValuesAre DEF Asked
<1>2. data \in [Columns -> UNION {Asked(columns, f) : f \in Columns}] /\ \A f \in Columns : data[f] \in Asked(columns, f)
  BY DEF Sought
<1>3. data = [f \in Columns |-> data[f]] /\ \A f \in Columns : data[f] \in Datum
  BY <1>1, <1>2
<1> QED
  BY <1>3

LEMMA PickedIs ==
  ASSUME SoundModel(model), NEW columns \in Indexes, NEW data \in [Columns -> Datum]
  PROVE  /\ Picked(columns, data) \in Seq(Datum) /\ Len(Picked(columns, data)) = Len(columns)
         /\ DOMAIN Picked(columns, data) = DOMAIN columns
<1>1. columns \in Seq(Columns)
  BY ModelIs
<1>2. PICK n \in Nat : n = Len(columns) /\ DOMAIN columns = 1..n
  BY <1>1, LenProperties
<1>3. \A i \in 1..n : columns[i] \in Columns
  BY <1>2, IndexColumns
<1>4. Picked(columns, data) = [i \in 1..n |-> data[columns[i]]]
  BY <1>2 DEF Picked
<1>5. \A i \in 1..n : data[columns[i]] \in Datum
  BY <1>3
<1>6. Picked(columns, data) \in [1..n -> Datum]
  BY <1>4, <1>5
<1> QED
  BY <1>2, <1>6

LEMMA PrimaryIsName ==
  ASSUME SoundModel(model)
  PROVE  Primary \in Name /\ Columns \subseteq Name
<1>1. Names(model.table) \in Seq(Name) /\ Primary \in Columns
  BY DEF SoundModel, SoundTable, Primary, Columns
<1>2. Columns \subseteq Name
  BY <1>1, SeqOverRange DEF Columns
<1> QED
  BY <1>1, <1>2

LEMMA KeyIs ==
  ASSUME SoundModel(model), NEW columns \in Indexes, NEW data \in [Columns -> Datum]
  PROVE  \E u \in Seq(Seq(Letters)), v \in Seq(Seq(Letters)) :
           /\ u = columns /\ v = Picked(columns, data) /\ Len(u) = Len(v)
           /\ DataKey(columns, data) = JoinColon(u) \o <<":">> \o JoinColon(v)
<1>1. columns \in Seq(Columns) /\ Columns \subseteq Seq(Letters)
  BY ModelIs, PrimaryIsName, WrittenIs
<1>2. columns \in Seq(Seq(Letters))
  BY <1>1, SeqOfMore
<1>3. Picked(columns, data) \in Seq(Datum) /\ Len(Picked(columns, data)) = Len(columns)
  BY PickedIs
<1>4. Picked(columns, data) \in Seq(Seq(Letters))
  BY <1>3, WrittenIs, SeqOfMore
<1>5. DataKey(columns, data) = JoinColon(columns) \o <<":">> \o JoinColon(Picked(columns, data))
  BY DEF DataKey, Key, Picked
<1> QED
  BY <1>2, <1>3, <1>4, <1>5

\* Keys of rows are told apart, and are not those of indexes.
LEMMA KeysApart ==
  ASSUME SoundModel(model), NEW x \in Ids
  PROVE  /\ ~IsIndexKey(PrimaryKey(x))
         /\ \A y \in Ids : PrimaryKey(x) = PrimaryKey(y) => x = y
<1>1. Primary \in Name /\ ":" \notin Range(Primary) /\ Primary \in Seq(Letters) /\ ":" \in Letters
  BY PrimaryIsName, WrittenIs
<1>2. ASSUME NEW y \in Ids
      PROVE  /\ PrimaryKey(y) = Primary \o <<":">> \o y
             /\ y \in Seq(Letters) /\ ":" \notin Range(y) /\ y # << >>
  <2>1. y \in Seq(Letters) /\ ":" \notin Range(y) /\ y # << >>
    BY ValuesAre, WrittenIs
  <2>2. JoinColon(<<y>>) = y /\ JoinColon(<<Primary>>) = Primary
    <3>1. <<y>> \in Seq(Seq(Letters)) /\ Len(<<y>>) = 1 /\ <<y>>[1] = y
      BY <2>1
    <3>2. <<Primary>> \in Seq(Seq(Letters)) /\ Len(<<Primary>>) = 1 /\ <<Primary>>[1] = Primary
      BY <1>1
    <3> QED
      BY <3>1, <3>2, JoinIs
  <2> QED
    BY <2>1, <2>2 DEF PrimaryKey, Key
<1>3. ASSUME NEW y \in Ids, PrimaryKey(x) = PrimaryKey(y) PROVE x = y
  BY <1>1, <1>2, <1>3, OneSeparator
<1>4. ASSUME NEW columns \in Indexes, NEW data \in Sought(columns), PrimaryKey(x) = DataKey(columns, data)
      PROVE  FALSE
  <2>1. PICK u \in Seq(Seq(Letters)), v \in Seq(Seq(Letters)) :
           /\ u = columns /\ v = Picked(columns, data) /\ Len(u) = Len(v)
           /\ DataKey(columns, data) = JoinColon(u) \o <<":">> \o JoinColon(v)
    BY SoughtIs, KeyIs
  <2>2. JoinColon(u) \in Seq(Letters) /\ JoinColon(v) \in Seq(Letters)
    BY JoinIs
  <2>3. Primary = JoinColon(u) /\ x = JoinColon(v)
    BY <1>1, <1>2, <1>4, <2>1, <2>2, OneSeparator
  <2>4. CASE Len(u) = 0
    BY <1>2, <2>1, <2>3, <2>4, JoinIs
  <2>5. CASE Len(u) = 1
    <3>1. u[1] = Primary
      BY <2>3, <2>5, JoinIs
    <3>2. u = <<Primary>>
      BY <2>5, <3>1, OfOne
    <3>3. columns # <<Primary>>
      BY DEF SoundModel, SoundTable, Indexes, Primary
    <3> QED
      BY <2>1, <3>2, <3>3
  <2>6. CASE Len(u) \notin {0, 1}
    BY <1>1, <2>3, <2>6, JoinIs
  <2> QED
    BY <2>4, <2>5, <2>6
<1> QED
  BY <1>3, <1>4 DEF IsIndexKey

\* What a caller passes are values.
LEMMA DataIs ==
  ASSUME SoundModel(model), NEW id \in Datum, NEW data \in Data(id)
  PROVE  data \in [Columns -> Datum] /\ data[Primary] = id
<1>1. data \in [Columns -> Values \cup {id}] /\ data[Primary] = id
  BY DEF Data
<1>2. Values \cup {id} \subseteq Datum
  BY ValuesAre
<1> QED
  BY <1>1, <1>2

LEMMA NewRowIs ==
  ASSUME SoundModel(model), NEW data \in NewRows
  PROVE  /\ data \in [Columns -> Datum]
         /\ IF model.table.auto THEN data[Primary] = Id(0) ELSE data[Primary] \in Ids
<1>1. PICK id \in (IF model.table.auto THEN {Id(0)} ELSE Ids) : data \in Data(id)
  BY DEF NewRows
<1>2. id \in Datum
  BY <1>1, ValuesAre
<1>3. data \in [Columns -> Datum] /\ data[Primary] = id
  BY <1>1, <1>2, DataIs
<1> QED
  BY <1>1, <1>3

-----------------------------------------------------------------------------
(* What a statement puts into a row *)

LEMMA PlaceIs ==
  ASSUME NEW S, NEW columns \in Seq(S), NEW f \in Range(columns)
  PROVE  Place(columns, f) \in 1..Len(columns) /\ columns[Place(columns, f)] = f
<1>1. DOMAIN columns = 1..Len(columns)
  BY LenProperties
<1>2. \E i \in DOMAIN columns : columns[i] = f
  BY DEF Range
<1> QED
  BY <1>1, <1>2 DEF Place

LEMMA InsertBinds ==
  ASSUME SoundModel(model), NEW data, NEW f, NEW otherwise
  PROVE  Bound(model.insert.columns, model.insert.values, 1, data, f, otherwise)
           = IF f \in Range(model.insert.columns) THEN data[f] ELSE otherwise
<1>1. PICK columns \in Seq(Columns) : columns = model.insert.columns /\ columns = model.insert.values
  BY DEF SoundModel, SoundInsert, Columns
<1>2. CASE f \in Range(columns)
  <2>1. PICK p \in Nat : p = Place(columns, f) /\ columns[p] = f
    BY <1>2, PlaceIs
  <2>2. p + 1 - 1 = p
    BY <2>1
  <2> QED
    BY <1>1, <1>2, <2>1, <2>2 DEF Bound
<1>3. CASE f \notin Range(columns)
  BY <1>1, <1>3 DEF Bound
<1> QED
  BY <1>1, <1>2, <1>3

LEMMA Behind2 ==
  ASSUME NEW S, NEW x \in S, NEW u \in Seq(S)
  PROVE  /\ Len(u \o <<x>>) = Len(u) + 1
         /\ (u \o <<x>>)[Len(u) + 1] = x
         /\ \A k \in 1..Len(u) : (u \o <<x>>)[k] = u[k]
<1>0. <<x>> \in Seq(S) /\ Len(<<x>>) = 1 /\ <<x>>[1] = x
  OBVIOUS
<1>1. PICK t \in Seq(S) : t = <<x>> /\ Len(t) = 1 /\ t[1] = x
  BY <1>0
<1>2. /\ Len(u \o t) = Len(u) + Len(t)
      /\ \A k \in 1..Len(u) : (u \o t)[k] = u[k]
      /\ \A k \in 1..Len(t) : (u \o t)[Len(u) + k] = t[k]
  OBVIOUS
<1>3. Len(u) \in Nat
  BY LenProperties
<1> QED
  BY <1>1, <1>2, <1>3

LEMMA UpdateBinds ==
  ASSUME SoundModel(model), NEW data
  PROVE  /\ \A f, otherwise :
              Bound(model.update.columns, model.update.values, model.update.first, data, f, otherwise)
                = IF f \in Range(model.update.columns) THEN data[f] ELSE otherwise
         /\ model.update.values[model.update.where] = Primary
         /\ Len(model.update.values) = Len(model.update.columns) + 1
<1>1. PICK columns \in Seq(Columns) : columns = model.update.columns
  BY DEF SoundModel, SoundUpdate, Columns
<1>2. PICK values, first, where : values = model.update.values /\ first = model.update.first /\ where = model.update.where
  OBVIOUS
<1>3. \/ first = 2 /\ where = 1 /\ values = <<Primary>> \o columns
      \/ first = 1 /\ where = Len(columns) + 1 /\ values = columns \o <<Primary>>
  BY <1>1, <1>2 DEF SoundModel, SoundUpdate, Primary
<1>4. Primary \in Columns /\ Len(columns) \in Nat
  BY ModelIs, LenProperties
<1>5. CASE first = 2 /\ where = 1 /\ values = <<Primary>> \o columns
  <2>1. Len(values) = Len(columns) + 1 /\ values[1] = Primary /\ \A k \in 1..Len(columns) : values[k + 1] = columns[k]
    BY <1>4, <1>5, Behind
  <2>2. ASSUME NEW f, NEW otherwise, f \in Range(columns)
        PROVE  Bound(columns, values, first, data, f, otherwise) = data[f]
    <3>1. PICK p \in 1..Len(columns) : p = Place(columns, f) /\ columns[p] = f
      BY <2>2, PlaceIs
    <3>2. p + first - 1 = p + 1
      BY <1>4, <1>5
    <3>3. values[p + 1] = f
      BY <2>1, <3>1
    <3> QED
      BY <2>2, <3>1, <3>2, <3>3 DEF Bound
  <2> QED
    BY <1>1, <1>2, <1>5, <2>1, <2>2 DEF Bound
<1>6. CASE first = 1 /\ where = Len(columns) + 1 /\ values = columns \o <<Primary>>
  <2>1. Len(values) = Len(columns) + 1 /\ values[Len(columns) + 1] = Primary /\ \A k \in 1..Len(columns) : values[k] = columns[k]
    BY <1>4, <1>6, Behind2
  <2>2. ASSUME NEW f, NEW otherwise, f \in Range(columns)
        PROVE  Bound(columns, values, first, data, f, otherwise) = data[f]
    <3>1. PICK p \in 1..Len(columns) : p = Place(columns, f) /\ columns[p] = f
      BY <2>2, PlaceIs
    <3>2. p + first - 1 = p
      BY <1>4, <1>6
    <3>3. values[p] = f
      BY <2>1, <3>1
    <3> QED
      BY <2>2, <3>1, <3>2, <3>3 DEF Bound
  <2> QED
    BY <1>1, <1>2, <1>6, <2>1, <2>2 DEF Bound
<1> QED
  BY <1>3, <1>5, <1>6

-----------------------------------------------------------------------------
(* What a statement makes of the table *)

\* The row that an insert makes, and the one that an update makes of an old one.
InsertedRow(row, id, data) ==
    /\ IsRow(row, id)
    /\ \A f \in Columns \ {Primary} : row[f] = IF f \in model.ignored THEN Default ELSE data[f]

UpdatedRow(row, id, data, old) ==
    /\ IsRow(row, id)
    /\ \A f \in Columns \ {Primary} : row[f] = IF f \in model.ignored THEN old[f] ELSE data[f]

LEMMA InsertEffect ==
  ASSUME SoundModel(model), TableInv, NEW data \in NewRows, model.table.auto => lastId < MaxId,
         NEW id, id = IF model.table.auto THEN Id(lastId + 1) ELSE data[Primary]
  PROVE  /\ id \in Ids
         /\ \E row :
              /\ InsertedRow(row, id, data)
              /\ Inserted(data) = IF (Primary \in model.ignored /\ ~model.table.auto) \/ id \in DOMAIN rows THEN {}
                                  ELSE Accepts(Put(rows, id, row))
<1> DEFINE s == model.insert
           Row(i) == [f \in Columns |-> IF f = Primary THEN i ELSE Bound(s.columns, s.values, 1, data, f, Default)]
           i == IF Primary \in Range(s.columns) THEN data[s.values[Place(s.columns, Primary)]] ELSE Id(lastId + 1)
<1>1. data \in [Columns -> Datum] /\ IF model.table.auto THEN data[Primary] = Id(0) ELSE data[Primary] \in Ids
  BY NewRowIs
<1>2. id \in Ids
  <2>1. CASE model.table.auto
    <3>1. lastId + 1 \in 0..MaxId /\ lastId + 1 # 0
      BY <2>1, ValuesAre DEF TableInv
    <3> QED
      BY <2>1, <3>1, ValuesAre
  <2>2. CASE ~model.table.auto
    BY <1>1, <2>2
  <2> QED
    BY <2>1, <2>2
<1>3. PICK columns \in Seq(Columns) :
        /\ columns = s.columns /\ columns = s.values
        /\ Range(columns) = Columns \ ((IF model.table.auto THEN {Primary} ELSE {}) \cup model.ignored)
  BY DEF SoundModel, SoundInsert, Columns, AutoSet, Primary
<1>4. Inserted(data) = IF \/ Len(s.columns) # Len(s.values)
                          \/ Primary \notin Range(s.columns) /\ ~model.table.auto
                          \/ i \in DOMAIN rows
                       THEN {} ELSE Accepts(Put(rows, i, Row(i)))
  BY DEF Inserted
<1>5. Primary \in Columns
  BY ModelIs
<1>6. Primary \in Range(s.columns) <=> ~model.table.auto /\ Primary \notin model.ignored
  BY <1>3, <1>5
<1>7. ~(Primary \in model.ignored /\ ~model.table.auto) => i = id
  <2>1. CASE Primary \in Range(s.columns)
    <3>1. Place(columns, Primary) \in 1..Len(columns) /\ columns[Place(columns, Primary)] = Primary
      BY <1>3, <2>1, PlaceIs
    <3> QED
      BY <1>3, <1>6, <2>1, <3>1
  <2>2. CASE Primary \notin Range(s.columns)
    BY <1>6, <2>2
  <2> QED
    BY <2>1, <2>2
<1>8. InsertedRow(Row(id), id, data)
  <2>1. \A f \in Columns : Row(id)[f] = IF f = Primary THEN id ELSE IF f \in Range(s.columns) THEN data[f] ELSE Default
    BY InsertBinds
  <2>2. \A f \in Columns \ {Primary} : f \in Range(s.columns) <=> f \notin model.ignored
    BY <1>3
  <2>3. \A f \in Columns \ {Primary} : Row(id)[f] = IF f \in model.ignored THEN Default ELSE data[f]
    BY <2>1, <2>2
  <2>4. \A f \in Columns : Row(id)[f] \in Datum
    BY <1>1, <1>2, <2>1, ValuesAre
  <2>5. Row(id) = [f \in Columns |-> Row(id)[f]]
    OBVIOUS
  <2>6. Row(id)[Primary] = id
    BY <1>5
  <2> HIDE DEF Row
  <2>7. Row(id) \in [Columns -> Datum]
    BY <2>4, <2>5
  <2> QED
    BY <2>3, <2>6, <2>7 DEF InsertedRow, IsRow
<1> HIDE DEF Row, i
<1>9. Inserted(data) = IF (Primary \in model.ignored /\ ~model.table.auto) \/ id \in DOMAIN rows THEN {}
                       ELSE Accepts(Put(rows, id, Row(id)))
  <2>1. CASE Primary \in model.ignored /\ ~model.table.auto
    BY <1>4, <1>6, <2>1
  <2>2. CASE ~(Primary \in model.ignored /\ ~model.table.auto)
    <3>1. i = id /\ ~(Primary \notin Range(s.columns) /\ ~model.table.auto) /\ ~(Len(s.columns) # Len(s.values))
      BY <1>3, <1>6, <1>7, <2>2
    <3> QED
      BY <1>4, <2>2, <3>1
  <2> QED
    BY <2>1, <2>2
<1> QED
  BY <1>2, <1>8, <1>9

LEMMA UpdateEffect ==
  ASSUME SoundModel(model), TableInv, NEW id \in Ids, NEW data \in Data(id)
  PROVE  /\ id \notin DOMAIN rows => Updated(data) \subseteq {rows}
         /\ id \in DOMAIN rows =>
              \E row :
                 /\ UpdatedRow(row, id, data, rows[id])
                 /\ \/ Updated(data) = {} /\ Columns \subseteq {Primary} \cup model.ignored
                    \/ Updated(data) = Accepts(Put(rows, id, row))
<1> DEFINE s == model.update
           i == data[s.values[s.where]]
           row == [f \in Columns |-> Bound(s.columns, s.values, s.first, data, f, rows[id][f])]
<1>1. data \in [Columns -> Datum] /\ data[Primary] = id
  BY ValuesAre, DataIs
<1>2. i = id /\ Len(s.values) = Len(s.columns) + 1
  BY <1>1, UpdateBinds
<1>3. PICK columns \in Seq(Columns) :
        columns = s.columns /\ Range(columns) = Columns \ ({Primary} \cup model.ignored)
  BY DEF SoundModel, SoundUpdate, Columns, Primary
<1>4. Updated(data) = IF Len(s.columns) + 1 # Len(s.values) \/ s.columns = << >> THEN {}
                      ELSE IF i \notin DOMAIN rows THEN {rows}
                      ELSE Accepts(Put(rows, i, [f \in Columns |-> Bound(s.columns, s.values, s.first, data, f, rows[i][f])]))
  BY DEF Updated
<1>5. Updated(data) = IF columns = << >> THEN {}
                      ELSE IF id \notin DOMAIN rows THEN {rows} ELSE Accepts(Put(rows, id, row))
  BY <1>2, <1>3, <1>4
<1>6. Primary \in Columns
  BY ModelIs
<1>7. ASSUME id \in DOMAIN rows PROVE UpdatedRow(row, id, data, rows[id])
  <2>1. \A f \in Columns : row[f] = IF f \in Range(columns) THEN data[f] ELSE rows[id][f]
    BY <1>3, UpdateBinds
  <2>2. \A f \in Columns \ {Primary} : f \in Range(columns) <=> f \notin model.ignored
    BY <1>3
  <2>3. Primary \notin Range(columns)
    BY <1>3
  <2>4. rows[id] \in [Columns -> Datum] /\ rows[id][Primary] = id
    BY <1>7 DEF TableInv, TableIs, IsRow
  <2>5. \A f \in Columns : row[f] \in Datum
    BY <1>1, <2>1, <2>4
  <2>6. row = [f \in Columns |-> row[f]]
    OBVIOUS
  <2> HIDE DEF row
  <2>7. row \in [Columns -> Datum]
    BY <2>5, <2>6
  <2>8. row[Primary] = id
    BY <1>6, <2>1, <2>3, <2>4
  <2> QED
    BY <2>1, <2>2, <2>7, <2>8 DEF UpdatedRow, IsRow
<1> HIDE DEF row
<1>8. columns = << >> => Columns \subseteq {Primary} \cup model.ignored
  <2>1. columns = << >> => Range(columns) = {}
    BY DEF Range
  <2> QED
    BY <1>3, <2>1
<1> QED
  BY <1>5, <1>7, <1>8

LEMMA AcceptedTable ==
  ASSUME TableInv, NEW id \in Ids, NEW row, IsRow(row, id), NEW table \in Accepts(Put(rows, id, row))
  PROVE  table = Put(rows, id, row) /\ TableIs(table)
<1>1. table = Put(rows, id, row) /\ Distinct(table)
  BY DEF Accepts
<1>2. DOMAIN table = DOMAIN rows \cup {id} /\ table[id] = row /\ \A i \in DOMAIN rows \ {id} : table[i] = rows[i]
  BY <1>1 DEF Put
<1>3. DOMAIN rows \subseteq Ids /\ \A i \in DOMAIN rows : IsRow(rows[i], i)
  BY DEF TableInv, TableIs
<1>4. ASSUME NEW i \in DOMAIN table PROVE IsRow(table[i], i)
  <2>1. CASE i = id
    BY <1>2, <2>1
  <2>2. CASE i # id
    BY <1>2, <1>3, <2>2
  <2> QED
    BY <2>1, <2>2
<1> QED
  BY <1>1, <1>2, <1>3, <1>4 DEF TableIs

-----------------------------------------------------------------------------
(* A call is one of its method's at every step *)

LEMMA StepTo ==
  ASSUME NEW k, IsCall(k), NEW step, NEW got, NEW n, n = [k EXCEPT !.step = step, !.got = got]
  PROVE  /\ IsCall(n) /\ n.op = k.op /\ n.step = step /\ n.data = k.data /\ n.columns = k.columns
         /\ n.id = k.id /\ n.got = got
  BY DEF IsCall

LEMMA StepOnly ==
  ASSUME NEW k, IsCall(k), NEW step, NEW n, n = [k EXCEPT !.step = step]
  PROVE  /\ IsCall(n) /\ n.op = k.op /\ n.step = step /\ n.data = k.data /\ n.columns = k.columns
         /\ n.id = k.id /\ n.got = k.got
  BY DEF IsCall

LEMMA WithId ==
  ASSUME NEW k, IsCall(k), NEW id, NEW n, n = [k EXCEPT !.id = id]
  PROVE  /\ IsCall(n) /\ n.op = k.op /\ n.step = k.step /\ n.data = k.data /\ n.columns = k.columns
         /\ n.id = id /\ n.got = k.got
  BY DEF IsCall

LEMMA CallIs ==
  ASSUME NEW op, NEW step, NEW data, NEW columns, NEW k, k = Call(op, step, data, columns)
  PROVE  /\ IsCall(k) /\ k.op = op /\ k.step = step /\ k.data = data /\ k.columns = columns
         /\ k.id = data[Primary] /\ k.got = Mark
  BY DEF Call, IsCall

LEMMA EntryIs ==
  ASSUME NEW e, NEW id, IsEntry(e, id)
  PROVE  e.kind = "mark" \/ (e.kind # "mark" /\ IsRowEntry(e, id))
<1>1. e = Mark => e.kind = "mark"
  BY DEF Mark
<1>2. IsRowEntry(e, id) => e.kind = "row"
  BY DEF IsRowEntry, RowEntry
<1> QED
  BY <1>1, <1>2 DEF IsEntry

LEMMA IndexEntryIs ==
  ASSUME NEW e, IsIndexEntry(e)
  PROVE  e.kind = "mark" \/ (e.kind # "mark" /\ e.id \in Ids)
<1>1. e = Mark => e.kind = "mark"
  BY DEF Mark
<1>2. \A id \in Ids : e = IdEntry(id) => e.kind = "id" /\ e.id = id
  BY DEF IdEntry
<1> QED
  BY <1>1, <1>2 DEF IsIndexEntry

\* A call that looks for the row of its id.
Taking(k) ==
    /\ IsCall(k)
    /\ k.id \in Ids
    /\ \/ k.op = "find"
       \/ k.op = "findBy" /\ k.columns \in Indexes /\ k.data \in Sought(k.columns)
       \/ k.op = "update" /\ k.data \in Data(k.id)
       \/ k.op = "delete"
    /\ model.cache

LEMMA ResumeOk ==
  ASSUME NEW k, Taking(k), NEW entry, IsEntry(entry, k.id)
  PROVE  CallOk(Resume(k, entry))
<1>1. CASE k.op \in {"find", "findBy"} \/ entry.kind = "mark"
  BY <1>1 DEF Resume, CallOk
<1>2. CASE ~(k.op \in {"find", "findBy"} \/ entry.kind = "mark")
  <2>0. IsCall(k)
    BY DEF Taking
  <2>1. PICK n : n = [k EXCEPT !.step = "exec", !.got = entry]
    OBVIOUS
  <2>2. /\ IsCall(n) /\ n.op = k.op /\ n.step = "exec" /\ n.data = k.data /\ n.id = k.id /\ n.got = entry
    BY <2>0, <2>1 DEF IsCall
  <2>3. IsRowEntry(entry, k.id)
    BY <1>2, EntryIs
  <2>4. CallFor(n)
    BY <1>2, <2>2 DEF CallFor, Taking
  <2>5. CallGot(n)
    BY <2>2, <2>3 DEF CallGot
  <2>6. CallOk(n)
    BY <2>2, <2>4, <2>5 DEF CallOk
  <2> QED
    BY <1>2, <2>1, <2>6 DEF Resume
<1> QED
  BY <1>1, <1>2

LEMMA TakeOk ==
  ASSUME NEW k, Taking(k), CacheInv
  PROVE  CallOk(Take(k))
<1>1. CASE PrimaryKey(k.id) \in DOMAIN cache
  <2>1. IsEntry(cache[PrimaryKey(k.id)], k.id)
    BY <1>1 DEF CacheInv, Taking
  <2> QED
    BY <1>1, <2>1, ResumeOk DEF Take
<1>2. CASE PrimaryKey(k.id) \notin DOMAIN cache
  <2>1. PICK n : n = [k EXCEPT !.step = "query"]
    OBVIOUS
  <2>2. /\ IsCall(n) /\ n.op = k.op /\ n.step = "query" /\ n.data = k.data /\ n.columns = k.columns /\ n.id = k.id
    BY <2>1, StepOnly DEF Taking
  <2>3. CallFor(n)
    BY <2>2 DEF CallFor, Taking
  <2>4. CallGot(n)
    BY <2>2 DEF CallGot
  <2>5. CallOk(n)
    BY <2>2, <2>3, <2>4 DEF CallOk, Taking
  <2> QED
    BY <1>2, <2>1, <2>5 DEF Take
<1> QED
  BY <1>1, <1>2

LEMMA TakeIndexOk ==
  ASSUME SoundModel(model), CacheInv, model.cache,
         NEW k, IsCall(k), k.op = "findBy", k.columns \in Indexes, k.data \in Sought(k.columns)
  PROVE  CallOk(TakeIndex(k))
<1> DEFINE key == DataKey(k.columns, k.data)
<1>1. IsIndexKey(key)
  BY DEF IsIndexKey
<1> HIDE DEF key
<1>2. CASE key \notin DOMAIN cache
  <2>1. PICK n : n = [k EXCEPT !.step = "queryIndex"]
    OBVIOUS
  <2>2. /\ IsCall(n) /\ n.op = "findBy" /\ n.step = "queryIndex" /\ n.data = k.data /\ n.columns = k.columns
    BY <2>1, StepOnly
  <2>3. CallFor(n) /\ CallGot(n)
    BY <2>2 DEF CallFor, CallGot
  <2> QED
    BY <1>2, <2>1, <2>2, <2>3 DEF TakeIndex, CallOk, key
<1>3. CASE key \in DOMAIN cache
  <2>1. IsIndexEntry(cache[key])
    BY <1>1, <1>3 DEF CacheInv
  <2>2. CASE cache[key].kind = "mark"
    BY <1>3, <2>2 DEF TakeIndex, CallOk, key
  <2>3. CASE cache[key].kind # "mark"
    <3>1. cache[key].id \in Ids
      BY <2>1, <2>3, IndexEntryIs
    <3>2. PICK n : n = [k EXCEPT !.id = cache[key].id]
      OBVIOUS
    <3>3. Taking(n)
      <4>1. IsCall(n) /\ n.op = "findBy" /\ n.data = k.data /\ n.columns = k.columns /\ n.id = cache[key].id
        BY <3>2, WithId
      <4> QED
        BY <3>1, <4>1 DEF Taking
    <3>4. CallOk(Take(n))
      BY <3>3, TakeOk
    <3> QED
      BY <1>3, <2>3, <3>2, <3>4 DEF TakeIndex, key
  <2> QED
    BY <2>2, <2>3
<1> QED
  BY <1>2, <1>3

-----------------------------------------------------------------------------
(* The invariant of the services *)

\* A service keeps its model.
LEMMA SameModel ==
  ASSUME model' = model
  PROVE  /\ Columns' = Columns /\ Primary' = Primary /\ Indexes' = Indexes /\ ReadsFirst' = ReadsFirst
         /\ (SoundModel(model) <=> SoundModel(model)')
         /\ \A id : PrimaryKey(id)' = PrimaryKey(id)
         /\ \A e, id : IsEntry(e, id)' <=> IsEntry(e, id)
         /\ \A table : TableIs(table)' <=> TableIs(table)
         /\ \A k : CallOk(k)' <=> CallOk(k)
         /\ \A key : IsIndexKey(key)' <=> IsIndexKey(key)
<1>1. Columns' = Columns /\ Primary' = Primary /\ Indexes' = Indexes /\ ReadsFirst' = ReadsFirst
  BY DEF Columns, Primary, Indexes, ReadsFirst
<1>2. SoundModel(model) <=> SoundModel(model)'
  OBVIOUS
<1>3. \A id : PrimaryKey(id)' = PrimaryKey(id)
  BY <1>1 DEF PrimaryKey
<1>4. \A r, id : IsRow(r, id)' <=> IsRow(r, id)
  BY <1>1 DEF IsRow
<1>5. \A e, id : IsRowEntry(e, id)' <=> IsRowEntry(e, id)
  BY <1>4 DEF IsRowEntry
<1>6. \A e, id : IsEntry(e, id)' <=> IsEntry(e, id)
  BY <1>5 DEF IsEntry
<1>7. \A table : Distinct(table)' <=> Distinct(table)
  BY <1>1 DEF Distinct
<1>8. \A table : TableIs(table)' <=> TableIs(table)
  BY <1>4, <1>7 DEF TableIs
<1>9. \A id : Data(id)' = Data(id)
  BY <1>1 DEF Data
<1>10. NewRows' = NewRows
  BY <1>9 DEF NewRows
<1>11. \A columns : Sought(columns)' = Sought(columns)
  BY <1>1 DEF Sought, Asked
<1>12. \A k : CallFor(k)' <=> CallFor(k)
  BY <1>1, <1>9, <1>10, <1>11 DEF CallFor
<1>13. \A k : CallGot(k)' <=> CallGot(k)
  BY <1>1, <1>5, <1>6 DEF CallGot
<1>14. \A k : CallOk(k)' <=> CallOk(k)
  BY <1>12, <1>13 DEF CallOk
<1>15. \A columns, data : DataKey(columns, data)' = DataKey(columns, data)
  BY DEF DataKey
<1>16. \A key : IsIndexKey(key)' <=> IsIndexKey(key)
  BY <1>1, <1>11, <1>15 DEF IsIndexKey
<1> QED
  BY <1>1, <1>2, <1>3, <1>6, <1>8, <1>14, <1>16

LEMMA NoCallOk == CallOk(NoCall)
  BY DEF CallOk

LEMMA NextCall ==
  ASSUME model' = model, DOMAIN call = Clients, \A o \in Clients : CallOk(call[o]),
         NEW c \in Clients, NEW k, CallOk(k), call' = [call EXCEPT ![c] = k]
  PROVE  DOMAIN call' = Clients /\ (\A o \in Clients : CallOk(call[o]))'
<1>1. \A n : CallOk(n)' <=> CallOk(n)
  BY SameModel
<1>2. DOMAIN call' = Clients /\ \A o \in Clients : call'[o] = IF o = c THEN k ELSE call[o]
  OBVIOUS
<1>3. \A o \in Clients : CallOk(call'[o])
  BY <1>2
<1> QED
  BY <1>1, <1>2, <1>3

LEMMA FillRow ==
  ASSUME model' = model, SoundModel(model), CacheInv, model.cache,
         NEW id \in Ids, NEW entry, IsEntry(entry, id), Set(PrimaryKey(id), entry)
  PROVE  CacheInv'
<1>1. (\A x : IsIndexKey(x)' <=> IsIndexKey(x)) /\ (\A x : PrimaryKey(x)' = PrimaryKey(x)) /\ \A e, x : IsEntry(e, x)' <=> IsEntry(e, x)
  BY SameModel
<1>2. PICK key : key = PrimaryKey(id)
  OBVIOUS
<1>3. DOMAIN cache' = DOMAIN cache \cup {key} /\ \A x \in DOMAIN cache' : cache'[x] = IF x = key THEN entry ELSE cache[x]
  BY <1>2 DEF Set
<1>4. \A x \in Ids : PrimaryKey(x) = key => x = id
  BY <1>2, KeysApart
<1>5. ~IsIndexKey(key)
  BY <1>2, KeysApart
<1>6. \A x \in Ids : PrimaryKey(x) \in DOMAIN cache' => IsEntry(cache'[PrimaryKey(x)], x)
  BY <1>3, <1>4 DEF CacheInv
<1>7. \A x \in DOMAIN cache' : IsIndexKey(x) => IsIndexEntry(cache'[x])
  BY <1>3, <1>5 DEF CacheInv
<1> QED
  BY <1>1, <1>6, <1>7 DEF CacheInv, IsIndexEntry

LEMMA FillIndexKey ==
  ASSUME model' = model, SoundModel(model), CacheInv, model.cache,
         NEW columns \in Indexes, NEW data \in Sought(columns), NEW entry, IsIndexEntry(entry), Set(DataKey(columns, data), entry)
  PROVE  CacheInv'
<1>1. (\A x : IsIndexKey(x)' <=> IsIndexKey(x)) /\ (\A x : PrimaryKey(x)' = PrimaryKey(x)) /\ \A e, x : IsEntry(e, x)' <=> IsEntry(e, x)
  BY SameModel
<1>2. PICK key : key = DataKey(columns, data)
  OBVIOUS
<1>3. DOMAIN cache' = DOMAIN cache \cup {key} /\ \A x \in DOMAIN cache' : cache'[x] = IF x = key THEN entry ELSE cache[x]
  BY <1>2 DEF Set
<1>4. IsIndexKey(key)
  BY <1>2 DEF IsIndexKey
<1>5. \A x \in Ids : PrimaryKey(x) # key
  BY <1>4, KeysApart
<1>6. \A x \in Ids : PrimaryKey(x) \in DOMAIN cache' => IsEntry(cache'[PrimaryKey(x)], x)
  BY <1>3, <1>5 DEF CacheInv
<1>7. \A x \in DOMAIN cache' : IsIndexKey(x) => IsIndexEntry(cache'[x])
  BY <1>3 DEF CacheInv
<1> QED
  BY <1>1, <1>6, <1>7 DEF CacheInv, IsIndexEntry

LEMMA CacheLess ==
  ASSUME model' = model, CacheInv, NEW S, cache' = [x \in DOMAIN cache \ S |-> cache[x]]
  PROVE  CacheInv'
<1>1. (\A x : IsIndexKey(x)' <=> IsIndexKey(x)) /\ (\A x : PrimaryKey(x)' = PrimaryKey(x)) /\ \A e, x : IsEntry(e, x)' <=> IsEntry(e, x)
  BY SameModel
<1>2. DOMAIN cache' \subseteq DOMAIN cache /\ \A x \in DOMAIN cache' : cache'[x] = cache[x]
  OBVIOUS
<1> QED
  BY <1>1, <1>2 DEF CacheInv, IsIndexEntry
Serving == ServeInv /\ DOMAIN call = Clients

\* A step that leaves the table alone.
LEMMA StepServes ==
  ASSUME Serving, model' = model, UNCHANGED <<rows, lastId>>, CacheInv',
         NEW c \in Clients, NEW k, CallOk(k), call' = [call EXCEPT ![c] = k]
  PROVE  Serving'
<1>1. DOMAIN call' = Clients /\ (\A o \in Clients : CallOk(call[o]))'
  BY NextCall DEF Serving, ServeInv
<1>2. SoundModel(model)' /\ TableInv'
  <2>1. (SoundModel(model) <=> SoundModel(model)') /\ \A table : TableIs(table)' <=> TableIs(table)
    BY SameModel
  <2> QED
    BY <2>1 DEF Serving, ServeInv, TableInv
<1> QED
  BY <1>1, <1>2 DEF Serving, ServeInv

LEMMA SameCache ==
  ASSUME model' = model, CacheInv, cache' = cache
  PROVE  CacheInv'
<1>1. (\A x : IsIndexKey(x)' <=> IsIndexKey(x)) /\ (\A x : PrimaryKey(x)' = PrimaryKey(x)) /\ \A e, x : IsEntry(e, x)' <=> IsEntry(e, x)
  BY SameModel
<1> QED
  BY <1>1 DEF CacheInv, IsIndexEntry

LEMMA BeginServes ==
  ASSUME Serving, NEW c, c \in Clients, NEW k, CallOk(k), Begin(c, k)
  PROVE  Serving'
<1>1. CacheInv'
  BY SameCache DEF Begin, Serving, ServeInv
<1> QED
  BY <1>1, StepServes DEF Begin

LEMMA FindOneServes ==
  ASSUME Serving, NEW c \in Clients, FindOne(c)
  PROVE  Serving'
<1>1. PICK id \in Ids : model.cache /\ Begin(c, Take(Call("find", "take", [f \in Columns |-> id], << >>)))
  BY DEF FindOne
<1>2. PICK data : data = [f \in Columns |-> id]
  OBVIOUS
<1>3. data[Primary] = id
  BY <1>2, ModelIs DEF Serving, ServeInv
<1>4. PICK k : k = Call("find", "take", data, << >>)
  OBVIOUS
<1>5. IsCall(k) /\ k.op = "find" /\ k.id = id
  BY <1>3, <1>4, CallIs
<1>6. Taking(k)
  BY <1>1, <1>5 DEF Taking
<1>7. CallOk(Take(k))
  BY <1>6, TakeOk DEF Serving, ServeInv
<1> QED
  BY <1>1, <1>2, <1>4, <1>7, BeginServes

LEMMA FindOneByFieldServes ==
  ASSUME Serving, NEW c \in Clients, FindOneByField(c)
  PROVE  Serving'
<1>1. PICK columns \in Indexes : \E data \in Sought(columns) :
        model.cache /\ Begin(c, TakeIndex(Call("findBy", "take", data, columns)))
  BY DEF FindOneByField
<1>2. PICK data \in Sought(columns) : model.cache /\ Begin(c, TakeIndex(Call("findBy", "take", data, columns)))
  BY <1>1
<1>3. PICK k : k = Call("findBy", "take", data, columns)
  OBVIOUS
<1>4. IsCall(k) /\ k.op = "findBy" /\ k.columns = columns /\ k.data = data
  BY <1>3, CallIs
<1>5. CallOk(TakeIndex(k))
  BY <1>2, <1>4, TakeIndexOk DEF Serving, ServeInv
<1> QED
  BY <1>2, <1>3, <1>5, BeginServes

LEMMA InsertServes ==
  ASSUME Serving, NEW c \in Clients, Insert(c)
  PROVE  Serving'
<1>1. PICK data \in NewRows : Begin(c, Call("insert", "exec", data, << >>))
  BY DEF Insert
<1>2. PICK k : k = Call("insert", "exec", data, << >>)
  OBVIOUS
<1>3. IsCall(k) /\ k.op = "insert" /\ k.step = "exec" /\ k.data = data /\ k.id = data[Primary]
  BY <1>2, CallIs
<1>4. CallOk(k)
  BY <1>3 DEF CallOk, CallFor, CallGot
<1> QED
  BY <1>1, <1>2, <1>4, BeginServes

\* A call that changes the row of an id.
LEMMA WriteServes ==
  ASSUME Serving, NEW c \in Clients, NEW k, IsCall(k), k.step = "exec" \/ ReadsFirst, k.id \in Ids,
         (k.op = "update" /\ k.data \in Data(k.id)) \/ k.op = "delete",
         Begin(c, IF ReadsFirst THEN Take(k) ELSE k)
  PROVE  Serving'
<1>1. CASE ReadsFirst
  <2>1. Taking(k)
    BY <1>1 DEF Taking, ReadsFirst
  <2>2. CallOk(Take(k))
    BY <2>1, TakeOk DEF Serving, ServeInv
  <2> QED
    BY <1>1, <2>2, BeginServes
<1>2. CASE ~ReadsFirst
  <2>1. CallOk(k)
    BY <1>2 DEF CallOk, CallFor, CallGot
  <2> QED
    BY <1>2, <2>1, BeginServes
<1> QED
  BY <1>1, <1>2

LEMMA UpdateServes ==
  ASSUME Serving, NEW c \in Clients, Update(c)
  PROVE  Serving'
<1>1. PICK id \in Ids : \E data \in Data(id) :
        Begin(c, IF ReadsFirst THEN Take(Call("update", "take", data, << >>)) ELSE Call("update", "exec", data, << >>))
  BY DEF Update
<1>2. PICK data \in Data(id) :
        Begin(c, IF ReadsFirst THEN Take(Call("update", "take", data, << >>)) ELSE Call("update", "exec", data, << >>))
  BY <1>1
<1>3. data[Primary] = id
  BY ValuesAre, DataIs DEF Serving, ServeInv
<1>4. PICK k : k = Call("update", IF ReadsFirst THEN "take" ELSE "exec", data, << >>)
  OBVIOUS
<1>5. /\ IsCall(k) /\ k.op = "update" /\ k.step = (IF ReadsFirst THEN "take" ELSE "exec")
      /\ k.data = data /\ k.id = id
  BY <1>3, <1>4, CallIs
<1>6. Begin(c, IF ReadsFirst THEN Take(k) ELSE k)
  BY <1>2, <1>4
<1> QED
  BY <1>5, <1>6, WriteServes

LEMMA DeleteServes ==
  ASSUME Serving, NEW c \in Clients, Delete(c)
  PROVE  Serving'
<1>1. PICK id \in Ids :
        Begin(c, IF ReadsFirst THEN Take(Call("delete", "take", [f \in Columns |-> id], << >>))
                 ELSE Call("delete", "exec", [f \in Columns |-> id], << >>))
  BY DEF Delete
<1>2. PICK data : data = [f \in Columns |-> id]
  OBVIOUS
<1>3. data[Primary] = id
  BY <1>2, ModelIs DEF Serving, ServeInv
<1>4. PICK k : k = Call("delete", IF ReadsFirst THEN "take" ELSE "exec", data, << >>)
  OBVIOUS
<1>5. IsCall(k) /\ k.op = "delete" /\ k.step = (IF ReadsFirst THEN "take" ELSE "exec") /\ k.id = id
  BY <1>3, <1>4, CallIs
<1>6. Begin(c, IF ReadsFirst THEN Take(k) ELSE k)
  BY <1>1, <1>2, <1>4
<1> QED
  BY <1>5, <1>6, WriteServes
\* The call at a step is under way.
LEMMA AtStep ==
  ASSUME Serving, NEW c \in Clients, NEW from, Step(c, from), from # "idle",
         NEW k, k = call[c]
  PROVE  IsCall(k) /\ CallFor(k) /\ CallGot(k) /\ k.step = from /\ (from # "exec" => model.cache)
<1>1. k.step = from
  BY DEF Step
<1>2. k # NoCall
  BY <1>1 DEF NoCall
<1>3. CallOk(k)
  BY DEF Serving, ServeInv
<1> QED
  BY <1>1, <1>2, <1>3 DEF CallOk

LEMMA GotoIs ==
  ASSUME NEW c, NEW k, Goto(c, k)
  PROVE  call' = [call EXCEPT ![c] = k] /\ model' = model /\ UNCHANGED genVars
  BY DEF Goto

LEMMA QueryPrimaryServes ==
  ASSUME Serving, NEW c \in Clients, QueryPrimary(c)
  PROVE  Serving'
<1>1. PICK k : k = call[c]
  OBVIOUS
<1>2. IsCall(k) /\ CallFor(k) /\ CallGot(k) /\ k.step = "query" /\ model.cache
  BY <1>1, AtStep DEF QueryPrimary
<1>3. PICK got : got = IF k.id \in DOMAIN rows THEN RowEntry(rows[k.id]) ELSE Mark
  OBVIOUS
<1>4. IsEntry(got, k.id)
  <2>1. CASE k.id \in DOMAIN rows
    <3>1. IsRow(rows[k.id], k.id)
      BY <2>1 DEF Serving, ServeInv, TableInv, TableIs
    <3>2. got = RowEntry(rows[k.id])
      BY <1>3, <2>1
    <3>3. got.row = rows[k.id]
      BY <3>2 DEF RowEntry
    <3> QED
      BY <3>1, <3>2, <3>3 DEF IsEntry, IsRowEntry
  <2>2. CASE k.id \notin DOMAIN rows
    BY <1>3, <2>2 DEF IsEntry
  <2> QED
    BY <2>1, <2>2
<1>5. PICK n : n = [k EXCEPT !.step = "fill", !.got = got]
  OBVIOUS
<1>6. /\ IsCall(n) /\ n.op = k.op /\ n.step = "fill" /\ n.data = k.data /\ n.columns = k.columns
      /\ n.id = k.id /\ n.got = got
  BY <1>2, <1>5 DEF IsCall
<1>7. CallFor(n)
  BY <1>2, <1>6 DEF CallFor
<1>8. CallOk(n)
  BY <1>2, <1>4, <1>6, <1>7 DEF CallOk, CallGot
<1>9. Goto(c, n)
  BY <1>1, <1>3, <1>5 DEF QueryPrimary
<1>10. call' = [call EXCEPT ![c] = n] /\ model' = model
  BY <1>9, GotoIs
<1>11. CacheInv' /\ UNCHANGED <<rows, lastId>>
  BY <1>10, SameCache DEF QueryPrimary, Serving, ServeInv
<1> QED
  BY <1>8, <1>10, <1>11, StepServes

LEMMA FillPrimaryServes ==
  ASSUME Serving, NEW c \in Clients, FillPrimary(c)
  PROVE  Serving'
<1>1. PICK k : k = call[c]
  OBVIOUS
<1>2. IsCall(k) /\ CallFor(k) /\ CallGot(k) /\ k.step = "fill" /\ model.cache
  BY <1>1, AtStep DEF FillPrimary
<1>3. IsEntry(k.got, k.id) /\ k.id \in Ids
  BY <1>2 DEF CallGot, CallFor
<1>4. Taking(k)
  BY <1>2, <1>3 DEF CallFor, Taking
<1>5. CallOk(Resume(k, k.got))
  BY <1>3, <1>4, ResumeOk
<1>6. call' = [call EXCEPT ![c] = Resume(k, k.got)] /\ model' = model
  BY <1>1, GotoIs DEF FillPrimary
<1>7. CacheInv'
  BY <1>1, <1>2, <1>3, <1>6, FillRow DEF FillPrimary, Serving, ServeInv
<1>8. UNCHANGED <<rows, lastId>>
  BY DEF FillPrimary
<1> QED
  BY <1>5, <1>6, <1>7, <1>8, StepServes

\* A query by index finds one row, if it finds one at all.
LEMMA FoundRow ==
  ASSUME TableInv, NEW columns, NEW data, Having(columns, data) # {},
         NEW found, found = RowEntry(rows[CHOOSE id \in Having(columns, data) : TRUE])
  PROVE  \E id \in Having(columns, data) :
            found.row = rows[id] /\ found.row[Primary] = id /\ id \in Ids /\ IsRowEntry(found, id)
<1>1. PICK id \in Having(columns, data) : id = CHOOSE x \in Having(columns, data) : TRUE
  OBVIOUS
<1>2. id \in DOMAIN rows
  BY DEF Having
<1>3. id \in Ids /\ IsRow(rows[id], id)
  BY <1>2 DEF TableInv, TableIs
<1>4. found = RowEntry(rows[id]) /\ found.row = rows[id]
  BY <1>1 DEF RowEntry
<1>5. IsRowEntry(found, id) /\ found.row[Primary] = id
  BY <1>3, <1>4 DEF IsRowEntry, IsRow
<1> QED
  BY <1>3, <1>4, <1>5

LEMMA QueryIndexServes ==
  ASSUME Serving, NEW c \in Clients, QueryIndex(c)
  PROVE  Serving'
<1>1. PICK k : k = call[c]
  OBVIOUS
<1>2. IsCall(k) /\ CallFor(k) /\ CallGot(k) /\ k.step = "queryIndex" /\ model.cache
  BY <1>1, AtStep DEF QueryIndex
<1>3. k.op = "findBy" /\ k.columns \in Indexes /\ k.data \in Sought(k.columns)
  BY <1>2 DEF CallFor
<1>4. CASE Having(k.columns, k.data) = {}
  <2>1. PICK n : n = [k EXCEPT !.step = "fillIndex", !.got = Mark]
    OBVIOUS
  <2>2. IsCall(n) /\ n.op = k.op /\ n.step = "fillIndex" /\ n.data = k.data /\ n.columns = k.columns /\ n.got = Mark
    BY <1>2, <2>1 DEF IsCall
  <2>3. CallFor(n)
    BY <1>3, <2>2 DEF CallFor
  <2>4. CallOk(n)
    BY <1>2, <2>2, <2>3 DEF CallOk, CallGot, IsIndexEntry
  <2>5. Goto(c, n)
    BY <1>1, <1>4, <2>1 DEF QueryIndex
  <2>6. call' = [call EXCEPT ![c] = n] /\ model' = model
    BY <2>5, GotoIs
  <2>7. CacheInv' /\ UNCHANGED <<rows, lastId>>
    BY <2>6, SameCache DEF QueryIndex, Serving, ServeInv
  <2> QED
    BY <2>4, <2>6, <2>7, StepServes
<1>5. CASE Having(k.columns, k.data) # {}
  <2>0. PICK got : got = RowEntry(rows[CHOOSE id \in Having(k.columns, k.data) : TRUE])
    OBVIOUS
  <2>1. PICK n : n = [k EXCEPT !.step = "fillFound", !.got = got]
    OBVIOUS
  <2>2. IsCall(n) /\ n.op = k.op /\ n.step = "fillFound" /\ n.data = k.data /\ n.columns = k.columns /\ n.got = got
    BY <1>2, <2>1 DEF IsCall
  <2>3. CallFor(n)
    BY <1>3, <2>2 DEF CallFor
  <2>4. got.row[Primary] \in Ids /\ IsRowEntry(got, got.row[Primary])
    BY <1>5, <2>0, FoundRow DEF Serving, ServeInv
  <2>5. CallOk(n)
    BY <1>2, <2>2, <2>3, <2>4 DEF CallOk, CallGot
  <2>6. Goto(c, n)
    BY <1>1, <1>5, <2>0, <2>1 DEF QueryIndex
  <2>7. call' = [call EXCEPT ![c] = n] /\ model' = model
    BY <2>6, GotoIs
  <2>8. CacheInv' /\ UNCHANGED <<rows, lastId>>
    BY <2>7, SameCache DEF QueryIndex, Serving, ServeInv
  <2> QED
    BY <2>5, <2>7, <2>8, StepServes
<1> QED
  BY <1>4, <1>5

LEMMA FillFoundServes ==
  ASSUME Serving, NEW c \in Clients, FillFound(c)
  PROVE  Serving'
<1>1. PICK k : k = call[c]
  OBVIOUS
<1>2. IsCall(k) /\ CallFor(k) /\ CallGot(k) /\ k.step = "fillFound" /\ model.cache
  BY <1>1, AtStep DEF FillFound
<1>3. PICK id \in Ids : id = k.got.row[Primary] /\ IsRowEntry(k.got, id)
  BY <1>2 DEF CallGot
<1>4. PICK n : n = [k EXCEPT !.step = "fillIndex", !.got = IdEntry(id)]
  OBVIOUS
<1>5. IsCall(n) /\ n.op = k.op /\ n.step = "fillIndex" /\ n.data = k.data /\ n.columns = k.columns /\ n.got = IdEntry(id)
  BY <1>2, <1>4 DEF IsCall
<1>6. CallFor(n)
  BY <1>2, <1>5 DEF CallFor
<1>7. CallOk(n)
  BY <1>2, <1>5, <1>6 DEF CallOk, CallGot, IsIndexEntry
<1>8. Goto(c, n)
  BY <1>1, <1>3, <1>4 DEF FillFound
<1>9. call' = [call EXCEPT ![c] = n] /\ model' = model
  BY <1>8, GotoIs
<1>10. IsEntry(k.got, id) /\ Set(PrimaryKey(id), k.got)
  BY <1>1, <1>3 DEF IsEntry, FillFound
<1>11. CacheInv'
  BY <1>2, <1>9, <1>10, FillRow DEF Serving, ServeInv
<1>12. UNCHANGED <<rows, lastId>>
  BY DEF FillFound
<1> QED
  BY <1>7, <1>9, <1>11, <1>12, StepServes

LEMMA FillIndexServes ==
  ASSUME Serving, NEW c \in Clients, FillIndex(c)
  PROVE  Serving'
<1>1. PICK k : k = call[c]
  OBVIOUS
<1>2. IsCall(k) /\ CallFor(k) /\ CallGot(k) /\ k.step = "fillIndex" /\ model.cache
  BY <1>1, AtStep DEF FillIndex
<1>3. call' = [call EXCEPT ![c] = NoCall] /\ model' = model
  BY GotoIs DEF FillIndex
<1>4. k.columns \in Indexes /\ k.data \in Sought(k.columns) /\ IsIndexEntry(k.got)
  BY <1>2 DEF CallFor, CallGot
<1>5. Set(DataKey(k.columns, k.data), k.got)
  BY <1>1 DEF FillIndex
<1>6. CacheInv'
  BY <1>2, <1>3, <1>4, <1>5, FillIndexKey DEF Serving, ServeInv
<1>7. UNCHANGED <<rows, lastId>>
  BY DEF FillIndex
<1> QED
  BY <1>3, <1>6, <1>7, NoCallOk, StepServes

LEMMA DelCacheServes ==
  ASSUME Serving, NEW c \in Clients, DelCache(c)
  PROVE  Serving'
<1>1. call' = [call EXCEPT ![c] = NoCall] /\ model' = model
  BY GotoIs DEF DelCache
<1>2. CacheInv'
  BY <1>1, CacheLess DEF DelCache, Serving, ServeInv
<1>3. UNCHANGED <<rows, lastId>>
  BY DEF DelCache
<1> QED
  BY <1>1, <1>2, <1>3, NoCallOk, StepServes

LEMMA CrashServes ==
  ASSUME Serving, NEW c \in Clients, Crash(c)
  PROVE  Serving'
<1>1. call' = [call EXCEPT ![c] = NoCall] /\ model' = model
  BY GotoIs DEF Crash
<1>2. CacheInv'
  BY <1>1, SameCache DEF Crash, Serving, ServeInv
<1>3. UNCHANGED <<rows, lastId>>
  BY DEF Crash
<1> QED
  BY <1>1, <1>2, <1>3, NoCallOk, StepServes

LEMMA ExpireServes ==
  ASSUME Serving, NEW key, Expire(key)
  PROVE  Serving'
<1>1. UNCHANGED <<model, rows, lastId, call>>
  BY DEF Expire
<1>2. CacheInv'
  BY <1>1, CacheLess DEF Expire, Serving, ServeInv
<1>3. (SoundModel(model) <=> SoundModel(model)') /\ (\A table : TableIs(table)' <=> TableIs(table))
      /\ \A k : CallOk(k)' <=> CallOk(k)
  BY <1>1, SameModel
<1> QED
  BY <1>1, <1>2, <1>3 DEF Serving, ServeInv, TableInv

-----------------------------------------------------------------------------
(* A statement writes what its call is for *)

NewId(k) == IF model.table.auto THEN Id(lastId + 1) ELSE k.data[Primary]

Wrote(k, table) ==
    \/ /\ k.op = "insert"
       /\ NewId(k) \in Ids \ DOMAIN rows
       /\ \E row : InsertedRow(row, NewId(k), k.data) /\ table = Put(rows, NewId(k), row)
    \/ k.op = "update" /\ k.id \notin DOMAIN rows /\ table = rows
    \/ /\ k.op = "update"
       /\ k.id \in DOMAIN rows
       /\ \E row : UpdatedRow(row, k.id, k.data, rows[k.id]) /\ table = Put(rows, k.id, row)
    \/ k.op = "delete" /\ table = Deleted(k.id)

LEMMA DeletedTable ==
  ASSUME TableInv, NEW id
  PROVE  TableIs(Deleted(id))
<1>1. PICK table : table = Deleted(id)
  OBVIOUS
<1>2. DOMAIN table \subseteq DOMAIN rows /\ \A i \in DOMAIN table : table[i] = rows[i]
  BY <1>1 DEF Deleted
<1>3. Distinct(table)
  BY <1>2 DEF TableInv, TableIs, Distinct
<1> QED
  BY <1>1, <1>2, <1>3 DEF TableInv, TableIs

LEMMA Executes ==
  ASSUME SoundModel(model), TableInv, NEW k, CallFor(k), k.step = "exec",
         k.op = "insert" /\ model.table.auto => lastId < MaxId,
         NEW table \in Executed(k)
  PROVE  Wrote(k, table) /\ TableIs(table)
<1>1. CASE k.op = "insert"
  <2>1. k.data \in NewRows /\ table \in Inserted(k.data)
    BY <1>1 DEF CallFor, Executed
  <2>2. PICK id : id = IF model.table.auto THEN Id(lastId + 1) ELSE k.data[Primary]
    OBVIOUS
  <2>3. /\ id \in Ids
        /\ \E row :
             /\ InsertedRow(row, id, k.data)
             /\ Inserted(k.data) = IF (Primary \in model.ignored /\ ~model.table.auto) \/ id \in DOMAIN rows THEN {}
                                   ELSE Accepts(Put(rows, id, row))
    BY <1>1, <2>1, <2>2, InsertEffect
  <2>4. PICK row : InsertedRow(row, id, k.data) /\ id \notin DOMAIN rows /\ table \in Accepts(Put(rows, id, row))
    BY <2>1, <2>3
  <2>5. IsRow(row, id)
    BY <2>4 DEF InsertedRow
  <2>6. table = Put(rows, id, row) /\ TableIs(table)
    BY <2>3, <2>4, <2>5, AcceptedTable
  <2> QED
    BY <1>1, <2>2, <2>3, <2>4, <2>6 DEF Wrote, NewId
<1>2. CASE k.op = "update"
  <2>1. k.id \in Ids /\ k.data \in Data(k.id) /\ table \in Updated(k.data)
    BY <1>2 DEF CallFor, Executed
  <2>2. /\ k.id \notin DOMAIN rows => Updated(k.data) \subseteq {rows}
        /\ k.id \in DOMAIN rows =>
              \E row :
                 /\ UpdatedRow(row, k.id, k.data, rows[k.id])
                 /\ \/ Updated(k.data) = {} /\ Columns \subseteq {Primary} \cup model.ignored
                    \/ Updated(k.data) = Accepts(Put(rows, k.id, row))
    BY <2>1, UpdateEffect
  <2>3. CASE k.id \notin DOMAIN rows
    <3>1. table = rows
      BY <2>1, <2>2, <2>3
    <3> QED
      BY <1>2, <2>3, <3>1 DEF Wrote, TableInv
  <2>4. CASE k.id \in DOMAIN rows
    <3>1. PICK row : UpdatedRow(row, k.id, k.data, rows[k.id]) /\ table \in Accepts(Put(rows, k.id, row))
      BY <2>1, <2>2, <2>4
    <3>2. IsRow(row, k.id)
      BY <3>1 DEF UpdatedRow
    <3>3. table = Put(rows, k.id, row) /\ TableIs(table)
      BY <2>1, <3>1, <3>2, AcceptedTable
    <3> QED
      BY <1>2, <2>4, <3>1, <3>3 DEF Wrote
  <2> QED
    BY <2>3, <2>4
<1>3. CASE k.op = "delete"
  <2>1. table = Deleted(k.id)
    BY <1>3 DEF Executed
  <2> QED
    BY <1>3, <2>1, DeletedTable DEF Wrote
<1>4. k.op \in {"insert", "update", "delete"}
  BY DEF CallFor
<1> QED
  BY <1>1, <1>2, <1>3, <1>4

\* An insert adds one row at most, other writes add none.
LEMMA RowsAdded ==
  ASSUME NEW k, NEW table, Wrote(k, table)
  PROVE  /\ Cardinality(NewIds(table)) \in {0, 1}
         /\ k.op # "insert" => Cardinality(NewIds(table)) = 0
<1>1. Cardinality({}) = 0 /\ \A x : Cardinality({x}) = 1
  BY FS_EmptySet, FS_Singleton
<1>2. CASE k.op = "insert"
  <2>1. PICK id \in Ids \ DOMAIN rows : \E row : table = Put(rows, id, row)
    BY <1>2 DEF Wrote
  <2>2. DOMAIN table = DOMAIN rows \cup {id}
    <3>1. PICK row : table = Put(rows, id, row)
      BY <2>1
    <3> QED
      BY <3>1 DEF Put
  <2>3. NewIds(table) = {id}
    BY <2>2 DEF NewIds
  <2> QED
    BY <1>1, <1>2, <2>3
<1>3. CASE k.op # "insert"
  <2>1. DOMAIN table \subseteq DOMAIN rows
    <3>1. CASE k.op = "update" /\ k.id \in DOMAIN rows
      <4>1. PICK row : table = Put(rows, k.id, row)
        BY <3>1 DEF Wrote
      <4> QED
        BY <3>1, <4>1 DEF Put
    <3>2. CASE k.op = "update" /\ k.id \notin DOMAIN rows
      BY <3>2 DEF Wrote
    <3>3. CASE k.op # "update"
      BY <1>3, <3>3 DEF Wrote, Deleted
    <3> QED
      BY <3>1, <3>2, <3>3
  <2>2. NewIds(table) = {}
    BY <2>1 DEF NewIds
  <2> QED
    BY <1>1, <2>2
<1> QED
  BY <1>2, <1>3

\* What an Exec does: the database refuses, or a statement is executed.
Executing(c, k, table) ==
    /\ table \in Executed(k)
    /\ rows' = table
    /\ lastId' = IF model.table.auto THEN lastId + Cardinality(NewIds(table)) ELSE lastId
    /\ calm' = (calm /\ (table = rows \/ ~Halfway(c)))
    /\ moved' = IF k.op = "update" THEN moved \cup {k.id} ELSE moved \ {k.id}
    /\ Goto(c, IF model.cache THEN [k EXCEPT !.step = "del"] ELSE NoCall)
Refused(c, k) ==
    /\ Executed(k) = {}
    /\ Goto(c, NoCall)
    /\ UNCHANGED <<rows, lastId, calm, moved>>

LEMMA ExecIs ==
  ASSUME NEW c, Exec(c), NEW k, k = call[c]
  PROVE  /\ Step(c, "exec")
         /\ k.op = "insert" /\ model.table.auto => lastId < MaxId
         /\ Refused(c, k) \/ \E table : Executing(c, k, table)
         /\ cache' = cache
  BY DEF Exec, Refused, Executing

LEMMA ExecServes ==
  ASSUME Serving, NEW c \in Clients, Exec(c)
  PROVE  Serving'
<1>1. PICK k : k = call[c]
  OBVIOUS
<1>2. Step(c, "exec") /\ (k.op = "insert" /\ model.table.auto => lastId < MaxId) /\ cache' = cache
  BY <1>1, ExecIs
<1>3. IsCall(k) /\ CallFor(k) /\ CallGot(k) /\ k.step = "exec"
  BY <1>1, <1>2, AtStep
<1>4. CASE Refused(c, k)
  <2>1. call' = [call EXCEPT ![c] = NoCall] /\ model' = model
    BY <1>4, GotoIs DEF Refused
  <2>2. CacheInv' /\ UNCHANGED <<rows, lastId>>
    BY <1>2, <1>4, <2>1, SameCache DEF Refused, Serving, ServeInv
  <2> QED
    BY <2>1, <2>2, NoCallOk, StepServes
<1>5. ASSUME NEW table, Executing(c, k, table) PROVE Serving'
  <2>1. Wrote(k, table) /\ TableIs(table)
    BY <1>2, <1>3, <1>5, Executes DEF Executing, Serving, ServeInv
  <2>2. PICK n : n = IF model.cache THEN [k EXCEPT !.step = "del"] ELSE NoCall
    OBVIOUS
  <2>3. call' = [call EXCEPT ![c] = n] /\ model' = model
    BY <1>5, <2>2, GotoIs DEF Executing
  <2>4. CallOk(n)
    <3>1. CASE model.cache
      <4>1. /\ IsCall(n) /\ n.op = k.op /\ n.step = "del" /\ n.data = k.data /\ n.columns = k.columns
            /\ n.id = k.id /\ n.got = k.got
        BY <1>3, <2>2, <3>1 DEF IsCall
      <4>2. CallFor(n)
        BY <1>3, <4>1 DEF CallFor
      <4>3. CallGot(n)
        BY <1>3, <4>1 DEF CallGot
      <4> QED
        BY <3>1, <4>1, <4>2, <4>3 DEF CallOk
    <3>2. CASE ~model.cache
      BY <2>2, <3>2, NoCallOk
    <3> QED
      BY <3>1, <3>2
  <2>5. DOMAIN call' = Clients /\ (\A o \in Clients : CallOk(call[o]))'
    BY <2>3, <2>4, NextCall DEF Serving, ServeInv
  <2>6. CacheInv'
    BY <1>2, <2>3, SameCache DEF Serving, ServeInv
  <2>7. (SoundModel(model) <=> SoundModel(model)') /\ TableIs(table)'
    BY <2>1, <2>3, SameModel
  <2>8. lastId' \in 0..MaxId
    <3>1. lastId \in 0..MaxId /\ MaxId \in Nat
      BY ValuesAre DEF Serving, ServeInv, TableInv
    <3>2. PICK added \in {0, 1} : added = Cardinality(NewIds(table)) /\ (k.op # "insert" => added = 0)
      BY <2>1, RowsAdded
    <3>3. lastId' = IF model.table.auto THEN lastId + added ELSE lastId
      BY <1>5, <3>2 DEF Executing
    <3> QED
      BY <1>2, <3>1, <3>2, <3>3
  <2>9. rows' = table
    BY <1>5 DEF Executing
  <2>10. TableInv'
    BY <2>7, <2>8, <2>9 DEF TableInv
  <2> QED
    BY <2>5, <2>6, <2>7, <2>10 DEF Serving, ServeInv
<1> QED
  BY <1>1, <1>4, <1>5, ExecIs

-----------------------------------------------------------------------------
(* The services' invariant is one *)

LEMMA ServiceStep ==
  ASSUME Serving, NEW c \in Clients, Method(c) \/ Conn(c) \/ Crash(c)
  PROVE  Serving'
<1>1. Method(c) => Serving'
  BY FindOneServes, FindOneByFieldServes, InsertServes, UpdateServes, DeleteServes DEF Method
<1>2. Conn(c) => Serving'
  BY QueryPrimaryServes, FillPrimaryServes, QueryIndexServes, FillFoundServes, FillIndexServes, ExecServes,
     DelCacheServes DEF Conn
<1> QED
  BY <1>1, <1>2, CrashServes

LEMMA ServiceFrame ==
  ASSUME NEW c, Method(c) \/ Conn(c) \/ Crash(c)
  PROVE  model' = model /\ UNCHANGED genVars
<1>1. \A k : Begin(c, k) => model' = model /\ UNCHANGED genVars
  BY DEF Begin
<1>2. Method(c) => model' = model /\ UNCHANGED genVars
  <2>1. FindOne(c) => model' = model /\ UNCHANGED genVars
    BY <1>1 DEF FindOne
  <2>2. FindOneByField(c) => model' = model /\ UNCHANGED genVars
    BY <1>1 DEF FindOneByField
  <2>3. Insert(c) => model' = model /\ UNCHANGED genVars
    BY <1>1 DEF Insert
  <2>4. Update(c) => model' = model /\ UNCHANGED genVars
    BY <1>1 DEF Update
  <2>5. Delete(c) => model' = model /\ UNCHANGED genVars
    BY <1>1 DEF Delete
  <2> QED
    BY <2>1, <2>2, <2>3, <2>4, <2>5 DEF Method
<1>3. \A k : Goto(c, k) => model' = model /\ UNCHANGED genVars
  BY GotoIs
<1>4. Conn(c) => model' = model /\ UNCHANGED genVars
  <2>1. QueryPrimary(c) => model' = model /\ UNCHANGED genVars
    BY <1>3 DEF QueryPrimary
  <2>2. FillPrimary(c) => model' = model /\ UNCHANGED genVars
    BY <1>3 DEF FillPrimary
  <2>3. QueryIndex(c) => model' = model /\ UNCHANGED genVars
    BY <1>3 DEF QueryIndex
  <2>4. FillFound(c) => model' = model /\ UNCHANGED genVars
    BY <1>3 DEF FillFound
  <2>5. FillIndex(c) => model' = model /\ UNCHANGED genVars
    BY <1>3 DEF FillIndex
  <2>6. Exec(c) => model' = model /\ UNCHANGED genVars
    BY <1>3 DEF Exec
  <2>7. DelCache(c) => model' = model /\ UNCHANGED genVars
    BY <1>3 DEF DelCache
  <2> QED
    BY <2>1, <2>2, <2>3, <2>4, <2>5, <2>6, <2>7 DEF Conn
<1>5. Crash(c) => model' = model /\ UNCHANGED genVars
  BY <1>3 DEF Crash
<1> QED
  BY <1>2, <1>4, <1>5

LEMMA BuildServes ==
  ASSUME Inv, NEW n \in DOMAIN dir, Build(n)
  PROVE  IF model' = None THEN Idle' ELSE ServeInv'
<1>1. Idle /\ GenInv /\ UNCHANGED <<cache, call>>
  BY DEF Inv, Build
<1>2. Idle'
  BY <1>1 DEF Idle
<1>3. SoundModel(model')
  <2>1. model' = dir[n].gen
    BY DEF Build
  <2> QED
    BY <1>1, <2>1 DEF GenInv
<1>4. SoundModel(model)'
  BY <1>3
<1>5. Primary' = model'.table.primary /\ Columns' = Range(Names(model'.table))
  BY DEF Primary, Columns
<1>6. Id(1) \in Ids /\ Id(1) \in Datum /\ Values \subseteq Datum /\ MaxId \in Nat /\ MaxId # 0
  <2>1. MaxId \in Nat /\ MaxId # 0
    BY ValuesAre
  <2>2. 1 \in 0..MaxId /\ 1 # 0
    BY <2>1
  <2> QED
    BY <2>1, <2>2, ValuesAre
<1>7. /\ rows' = << >> \/ \E r \in [Columns' -> Values \cup {Id(1)}] :
            /\ \A f \in DOMAIN r : r[f] = Id(1) <=> f = Primary'
            /\ rows' = [id \in {Id(1)} |-> r]
      /\ lastId' = Cardinality(DOMAIN rows')
  BY <1>5 DEF Build
<1>8. CASE rows' = << >>
  <2>1. DOMAIN rows' = {}
    BY <1>8
  <2>2. lastId' = 0
    BY <1>7, <2>1, FS_EmptySet
  <2>3. TableIs(rows)'
    BY <2>1 DEF TableIs, Distinct
  <2> QED
    BY <1>1, <1>2, <1>4, <1>6, <2>2, <2>3 DEF ServeInv, TableInv, CacheInv, Idle, CallOk
<1>9. ASSUME NEW r \in [Columns' -> Values \cup {Id(1)}], \A f \in DOMAIN r : r[f] = Id(1) <=> f = Primary',
             rows' = [id \in {Id(1)} |-> r]
      PROVE  ServeInv'
  <2>1. DOMAIN rows' = {Id(1)} /\ rows'[Id(1)] = r
    BY <1>9
  <2>2. lastId' = 1
    BY <1>7, <2>1, FS_Singleton
  <2>3. Primary' \in Columns'
    BY <1>3, <1>5 DEF SoundModel, SoundTable
  <2>4. r \in [Columns' -> Datum] /\ r[Primary'] = Id(1)
    BY <1>6, <1>9, <2>3
  <2>5. TableIs(rows)'
    BY <1>6, <2>1, <2>4 DEF TableIs, Distinct, IsRow
  <2>6. 1 \in 0..MaxId
    BY <1>6
  <2> QED
    BY <1>1, <1>2, <1>4, <2>2, <2>5, <2>6 DEF ServeInv, TableInv, CacheInv, Idle, CallOk
<1> QED
  BY <1>2, <1>7, <1>8, <1>9
LEMMA GenFrame ==
  ASSUME GenInv, UNCHANGED genVars
  PROVE  GenInv'
<1>1. UNCHANGED <<files, dir, job>>
  BY DEF genVars
<1>2. \A n \in DOMAIN dir : SoundModel(dir[n].gen)
  BY DEF GenInv
<1>3. (\A n \in DOMAIN dir : SoundModel(dir[n].gen))'
  BY <1>1, <1>2
<1> QED
  BY <1>1, <1>3 DEF GenInv

LEMMA InvInit ==
  ASSUME Init
  PROVE  Inv
<1>1. GenInv
  BY GenInitInv DEF Init
<1>2. Idle /\ DOMAIN call = Clients /\ model = None
  <2>1. cache = << >> /\ call = [c \in Clients |-> NoCall] /\ model = None
    BY DEF Init
  <2>2. DOMAIN cache = {}
    BY <2>1
  <2> QED
    BY <2>1, <2>2 DEF Idle
<1> QED
  BY <1>1, <1>2 DEF Inv

LEMMA InvNext ==
  ASSUME Inv, [Next]_vars
  PROVE  Inv'
<1>1. GenInv /\ DOMAIN call = Clients
  BY DEF Inv
<1>2. CASE model = None /\ GenNext /\ UNCHANGED appVars
  <2>1. GenInv'
    BY <1>1, <1>2, GenStepInv
  <2>2. UNCHANGED <<model, cache, call>> /\ Idle
    BY <1>2 DEF appVars, Inv
  <2>3. Idle' /\ model' = None /\ DOMAIN call' = Clients
    BY <1>1, <1>2, <2>2 DEF Idle
  <2> QED
    BY <2>1, <2>3 DEF Inv
<1>3. ASSUME NEW n \in DOMAIN dir, Build(n) PROVE Inv'
  <2>1. UNCHANGED genVars /\ call' = call
    BY <1>3 DEF Build
  <2>2. GenInv'
    BY <1>1, <2>1, GenFrame
  <2>3. IF model' = None THEN Idle' ELSE ServeInv'
    BY <1>3, BuildServes
  <2> QED
    BY <1>1, <2>1, <2>2, <2>3 DEF Inv
<1>4. ASSUME model # None, NEW c \in Clients, Method(c) \/ Conn(c) \/ Crash(c) PROVE Inv'
  <2>1. Serving
    BY <1>4 DEF Inv, Serving
  <2>2. Serving'
    BY <1>4, <2>1, ServiceStep
  <2>3. model' = model /\ GenInv'
    BY <1>1, <1>4, ServiceFrame, GenFrame
  <2> QED
    BY <1>4, <2>2, <2>3 DEF Inv, Serving
<1>5. ASSUME NEW key \in DOMAIN cache, Expire(key) PROVE Inv'
  <2>1. model # None
    BY <1>5 DEF Inv, Idle
  <2>2. Serving
    BY <2>1 DEF Inv, Serving
  <2>3. Serving'
    BY <1>5, <2>2, ExpireServes
  <2>4. model' = model /\ UNCHANGED genVars
    BY <1>5 DEF Expire
  <2>5. GenInv'
    BY <1>1, <2>4, GenFrame
  <2> QED
    BY <2>1, <2>3, <2>4, <2>5 DEF Inv, Serving
<1>6. CASE UNCHANGED vars
  <2>1. UNCHANGED genVars /\ UNCHANGED <<model, rows, lastId, cache, call>>
    BY <1>6 DEF vars, appVars
  <2>2. GenInv' /\ DOMAIN call' = Clients
    BY <1>1, <2>1, GenFrame
  <2>3. CASE model = None
    <3>1. Idle'
      BY <2>1, <2>3 DEF Inv, Idle
    <3> QED
      BY <2>1, <2>2, <2>3, <3>1 DEF Inv
  <2>4. CASE model # None
    <3>1. ServeInv
      BY <2>4 DEF Inv
    <3>2. CacheInv'
      BY <2>1, <3>1, SameCache DEF ServeInv
    <3>3. (SoundModel(model) <=> SoundModel(model)') /\ (\A table : TableIs(table)' <=> TableIs(table))
          /\ \A k : CallOk(k)' <=> CallOk(k)
      BY <2>1, SameModel
    <3>4. ServeInv'
      BY <2>1, <3>1, <3>2, <3>3 DEF ServeInv, TableInv
    <3> QED
      BY <2>1, <2>2, <2>4, <3>4 DEF Inv
  <2> QED
    BY <2>3, <2>4
<1> QED
  BY <1>2, <1>3, <1>4, <1>5, <1>6 DEF Next

\* Whatever was generated, lost or left half done: the model that serves has a table with
\* a primary key that its update puts last and a row type with one field for each column,
\* and the calls, rows and cache entries are of its table.
THEOREM ServicesStayTyped == Spec => []Inv
<1>1. Init => Inv
  BY InvInit
<1>2. Inv /\ [Next]_vars => Inv'
  BY InvNext
<1> QED
  BY <1>1, <1>2, PTL DEF Spec

-----------------------------------------------------------------------------
(* Every value lands under its column *)

\* A row that clashes with another one has the values of an index from the call's data.
LEMMA ClashIs ==
  ASSUME SoundModel(model), TableInv, NEW id \in Ids, NEW row, IsRow(row, id), NEW data,
         \A f \in Columns \ ({Primary} \cup model.ignored) : row[f] = data[f],
         Accepts(Put(rows, id, row)) = {}
  PROVE  \E columns \in Indexes : Having(Without(columns, model.ignored), data) \ {id} # {}
<1>1. PICK table : table = Put(rows, id, row)
  OBVIOUS
<1>2. /\ DOMAIN table = DOMAIN rows \cup {id} /\ table[id] = row
      /\ \A i \in DOMAIN rows \ {id} : table[i] = rows[i]
  BY <1>1 DEF Put
<1>3. ~Distinct(table)
  BY <1>1 DEF Accepts
<1>4. PICK columns \in Indexes : \E i, j \in DOMAIN table :
        i # j /\ \A k \in DOMAIN columns : table[i][columns[k]] = table[j][columns[k]]
  BY <1>3 DEF Distinct
<1>5. PICK i, j \in DOMAIN table : i # j /\ \A k \in DOMAIN columns : table[i][columns[k]] = table[j][columns[k]]
  BY <1>4
<1>6. ~(i # id /\ j # id)
  <2>1. SUFFICES ASSUME i # id, j # id PROVE FALSE
    OBVIOUS
  <2>2. i \in DOMAIN rows /\ j \in DOMAIN rows /\ table[i] = rows[i] /\ table[j] = rows[j]
    BY <1>2, <2>1
  <2>3. \E k \in DOMAIN columns : rows[i][columns[k]] # rows[j][columns[k]]
    BY <1>5, <2>2 DEF TableInv, TableIs, Distinct
  <2> QED
    BY <1>5, <2>2, <2>3
<1>7. \E o \in DOMAIN rows \ {id} : \A k \in DOMAIN columns : rows[o][columns[k]] = row[columns[k]]
  <2>1. CASE i = id
    <3>1. j \in DOMAIN rows \ {id}
      BY <1>2, <1>5, <2>1
    <3> QED
      BY <1>2, <1>5, <2>1, <3>1
  <2>2. CASE j = id
    <3>1. i \in DOMAIN rows \ {id}
      BY <1>2, <1>5, <2>2
    <3> QED
      BY <1>2, <1>5, <2>2, <3>1
  <2> QED
    BY <1>6, <2>1, <2>2
<1>8. PICK o \in DOMAIN rows \ {id} : \A k \in DOMAIN columns : rows[o][columns[k]] = row[columns[k]]
  BY <1>7
<1>9. rows[o][Primary] = o /\ row[Primary] = id
  BY DEF TableInv, TableIs, IsRow
<1>10. columns \in Seq(Columns)
  BY ModelIs
<1>11. PICK w \in Seq(Columns) : w = Without(columns, model.ignored) /\ Range(w) = Range(columns) \ model.ignored
  BY <1>10, WithoutIs
<1>12. ASSUME NEW k \in DOMAIN w PROVE rows[o][w[k]] = data[w[k]]
  <2>1. PICK f \in Range(columns) \ model.ignored : f = w[k]
    BY <1>11 DEF Range
  <2>2. PICK m \in DOMAIN columns : columns[m] = f
    BY DEF Range
  <2>3. rows[o][f] = row[f]
    BY <1>8, <2>2
  <2>4. f # Primary
    BY <1>9, <2>3
  <2>5. f \in Columns
    BY <2>2, IndexColumns
  <2> QED
    BY <2>1, <2>3, <2>4, <2>5
<1>13. o \in Having(w, data)
  BY <1>12 DEF Having
<1> QED
  BY <1>11, <1>13

LEMMA WriteIsAsTold ==
  ASSUME Serving, NEW c \in Clients, Exec(c)
  PROVE  WrittenAsTold(c)
<1>1. PICK k : k = call[c]
  OBVIOUS
<1>2. Step(c, "exec") /\ (k.op = "insert" /\ model.table.auto => lastId < MaxId)
  BY <1>1, ExecIs
<1>3. IsCall(k) /\ CallFor(k) /\ k.step = "exec"
  BY <1>1, <1>2, AtStep
<1>4. SoundModel(model) /\ TableInv
  BY DEF Serving, ServeInv
<1>5. PICK id : id = IF k.op = "insert" /\ model.table.auto THEN Id(lastId + 1) ELSE k.id
  OBVIOUS
<1>6. k.op = "insert" => id = NewId(k)
  BY <1>3, <1>5 DEF CallFor, NewId
<1>7. SUFFICES /\ \A i \in DOMAIN rows \ {id} : i \in DOMAIN rows' /\ rows'[i] = rows[i]
               /\ k.op # "delete" /\ (k.op = "insert" \/ id \in DOMAIN rows) =>
                    \/ id \in DOMAIN rows' /\ \A f \in Columns \ ({Primary} \cup model.ignored) : rows'[id][f] = k.data[f]
                    \/ k.op = "insert" /\ (id \in DOMAIN rows \/ (Primary \in model.ignored /\ ~model.table.auto))
                    \/ \E columns \in Indexes : Having(Without(columns, model.ignored), k.data) \ {id} # {}
  BY <1>1, <1>5 DEF WrittenAsTold
<1>8. CASE Refused(c, k)
  <2>1. rows' = rows /\ Executed(k) = {}
    BY <1>8 DEF Refused
  <2>2. CASE k.op = "insert"
    <3>1. k.data \in NewRows /\ id = IF model.table.auto THEN Id(lastId + 1) ELSE k.data[Primary]
      BY <1>3, <1>6, <2>2 DEF CallFor, NewId
    <3>2. /\ id \in Ids
          /\ \E row :
             /\ InsertedRow(row, id, k.data)
             /\ Inserted(k.data) = IF (Primary \in model.ignored /\ ~model.table.auto) \/ id \in DOMAIN rows THEN {}
                                   ELSE Accepts(Put(rows, id, row))
      BY <1>2, <1>4, <2>2, <3>1, InsertEffect
    <3>3. Inserted(k.data) = {}
      BY <2>1, <2>2 DEF Executed
    <3>4. CASE (Primary \in model.ignored /\ ~model.table.auto) \/ id \in DOMAIN rows
      BY <2>1, <2>2, <3>4
    <3>5. CASE ~((Primary \in model.ignored /\ ~model.table.auto) \/ id \in DOMAIN rows)
      <4>1. PICK row : InsertedRow(row, id, k.data) /\ Accepts(Put(rows, id, row)) = {}
        BY <3>2, <3>3, <3>5
      <4>2. IsRow(row, id) /\ \A f \in Columns \ ({Primary} \cup model.ignored) : row[f] = k.data[f]
        BY <4>1 DEF InsertedRow
      <4>3. \E columns \in Indexes : Having(Without(columns, model.ignored), k.data) \ {id} # {}
        BY <1>4, <3>2, <4>1, <4>2, ClashIs
      <4> QED
        BY <2>1, <4>3
    <3> QED
      BY <3>4, <3>5
  <2>3. CASE k.op = "update" /\ id \in DOMAIN rows
    <3>1. id = k.id /\ k.id \in Ids /\ k.data \in Data(k.id)
      BY <1>3, <1>5, <2>3 DEF CallFor
    <3>2. \E row :
             /\ UpdatedRow(row, k.id, k.data, rows[k.id])
             /\ \/ Updated(k.data) = {} /\ Columns \subseteq {Primary} \cup model.ignored
                \/ Updated(k.data) = Accepts(Put(rows, k.id, row))
      BY <1>4, <2>3, <3>1, UpdateEffect
    <3>3. Updated(k.data) = {}
      BY <2>1, <2>3 DEF Executed
    <3>4. CASE Columns \subseteq {Primary} \cup model.ignored
      BY <2>1, <2>3, <3>4
    <3>5. CASE ~(Columns \subseteq {Primary} \cup model.ignored)
      <4>1. PICK row : UpdatedRow(row, k.id, k.data, rows[k.id]) /\ Accepts(Put(rows, k.id, row)) = {}
        BY <3>2, <3>3, <3>5
      <4>2. IsRow(row, id) /\ \A f \in Columns \ ({Primary} \cup model.ignored) : row[f] = k.data[f]
        BY <3>1, <4>1 DEF UpdatedRow
      <4>3. \E columns \in Indexes : Having(Without(columns, model.ignored), k.data) \ {id} # {}
        BY <1>4, <3>1, <4>1, <4>2, ClashIs
      <4> QED
        BY <2>1, <4>3
    <3> QED
      BY <3>4, <3>5
  <2> QED
    BY <1>3, <2>1, <2>2, <2>3 DEF CallFor
<1>9. ASSUME NEW table, Executing(c, k, table)
      PROVE  /\ \A i \in DOMAIN rows \ {id} : i \in DOMAIN rows' /\ rows'[i] = rows[i]
             /\ k.op # "delete" /\ (k.op = "insert" \/ id \in DOMAIN rows) =>
                  id \in DOMAIN rows' /\ \A f \in Columns \ ({Primary} \cup model.ignored) : rows'[id][f] = k.data[f]
  <2>1. Wrote(k, table) /\ rows' = table
    BY <1>2, <1>3, <1>4, <1>9, Executes DEF Executing
  <2>2. CASE k.op = "insert"
    <3>1. PICK row : InsertedRow(row, id, k.data) /\ table = Put(rows, id, row)
      BY <1>6, <2>1, <2>2 DEF Wrote
    <3>2. DOMAIN table = DOMAIN rows \cup {id} /\ table[id] = row /\ \A i \in DOMAIN rows \ {id} : table[i] = rows[i]
      BY <3>1 DEF Put
    <3> QED
      BY <2>1, <3>1, <3>2 DEF InsertedRow
  <2>3. CASE k.op = "update" /\ k.id \in DOMAIN rows
    <3>1. PICK row : UpdatedRow(row, k.id, k.data, rows[k.id]) /\ table = Put(rows, k.id, row)
      BY <2>1, <2>3 DEF Wrote
    <3>2. id = k.id
      BY <1>5, <2>3
    <3>3. DOMAIN table = DOMAIN rows \cup {id} /\ table[id] = row /\ \A i \in DOMAIN rows \ {id} : table[i] = rows[i]
      BY <3>1, <3>2 DEF Put
    <3> QED
      BY <2>1, <3>1, <3>2, <3>3 DEF UpdatedRow
  <2>4. CASE k.op = "update" /\ k.id \notin DOMAIN rows
    BY <1>5, <2>1, <2>4 DEF Wrote
  <2>5. CASE k.op = "delete"
    <3>1. table = Deleted(k.id) /\ id = k.id
      BY <1>5, <2>1, <2>5 DEF Wrote
    <3> QED
      BY <2>1, <2>5, <3>1 DEF Deleted
  <2> QED
    BY <1>3, <2>2, <2>3, <2>4, <2>5 DEF CallFor
<1> QED
  BY <1>1, <1>8, <1>9, ExecIs

\* A generated Insert, Update or Delete puts every value under its column, in the row it is
\* for, whatever the order of the columns, those ignored and the placeholders of the database,
\* or the database has a reason to refuse it.
THEOREM ServicesWriteAsTold == Spec => WritesAsTold
<1>1. Inv => \A c \in Clients : Exec(c) => WrittenAsTold(c)
  <2>1. SUFFICES ASSUME Inv, NEW c \in Clients, Exec(c) PROVE WrittenAsTold(c)
    OBVIOUS
  <2>2. model # None
    <3>1. call[c].step = "exec"
      BY <2>1 DEF Exec, Step
    <3>2. call[c] # NoCall
      BY <3>1 DEF NoCall
    <3> QED
      BY <2>1, <3>2 DEF Inv, Idle
  <2>3. Serving
    BY <2>1, <2>2 DEF Inv, Serving
  <2> QED
    BY <2>1, <2>3, WriteIsAsTold
<1>2. Inv => [\A c \in Clients : Exec(c) => WrittenAsTold(c)]_vars
  BY <1>1
<1> QED
  BY <1>2, ServicesStayTyped, PTL DEF WritesAsTold

-----------------------------------------------------------------------------
(* Keys tell the values of an index apart *)

Matches(row, columns, data) == \A i \in DOMAIN columns : row[columns[i]] = data[columns[i]]

LEMMA HavingMatch ==
  ASSUME NEW columns, NEW data
  PROVE  Having(columns, data) = {id \in DOMAIN rows : Matches(rows[id], columns, data)}
  BY DEF Having, Matches

LEMMA SameKey ==
  ASSUME NEW columns, NEW row, NEW data, Matches(row, columns, data)
  PROVE  DataKey(columns, row) = DataKey(columns, data)
<1>1. [i \in DOMAIN columns |-> row[columns[i]]] = [i \in DOMAIN columns |-> data[columns[i]]]
  BY DEF Matches
<1> QED
  BY <1>1 DEF DataKey

LEMMA KeyTells ==
  ASSUME SoundModel(model), NEW columns \in Indexes, NEW data \in [Columns -> Datum], NEW other \in [Columns -> Datum],
         Plain(Picked(columns, data)), DataKey(columns, data) = DataKey(columns, other)
  PROVE  Matches(other, columns, data)
<1>1. PICK u \in Seq(Datum) : u = Picked(columns, data) /\ Len(u) = Len(columns) /\ DOMAIN u = DOMAIN columns
  BY PickedIs
<1>2. PICK v \in Seq(Datum) : v = Picked(columns, other) /\ Len(v) = Len(columns) /\ DOMAIN v = DOMAIN columns
  BY PickedIs
<1>3. JoinColon(u) = JoinColon(v)
  <2>1. PICK c \in Seq(Seq(Letters)), x \in Seq(Seq(Letters)) :
           c = columns /\ x = u /\ DataKey(columns, data) = JoinColon(c) \o <<":">> \o JoinColon(x)
    BY <1>1, KeyIs
  <2>2. PICK y \in Seq(Seq(Letters)) : y = v /\ DataKey(columns, other) = JoinColon(c) \o <<":">> \o JoinColon(y)
    BY <1>2, <2>1, KeyIs
  <2>3. PICK w \in Seq(Letters), a \in Seq(Letters), b \in Seq(Letters) : w = JoinColon(c) /\ a = JoinColon(x) /\ b = JoinColon(y)
    BY JoinIs
  <2>4. w \o <<":">> \o a = w \o <<":">> \o b
    BY <2>1, <2>2, <2>3
  <2>5. a = b
    BY <2>4, WrittenIs, SamePrefix
  <2> QED
    BY <2>1, <2>2, <2>3, <2>5
<1>4. FlattenSeq(Joined(u, ":")) = FlattenSeq(Joined(v, ":"))
  BY <1>3, JoinIsJoined
<1>5. u = v
  <2>1. CASE Len(u) = 1
    <3>1. PICK x, y \in Datum : u = <<x>> /\ v = <<y>>
      <4>1. Len(v) = 1
        BY <1>1, <1>2, <2>1
      <4> QED
        BY <2>1, <4>1, OfOne
    <3>2. Joined(<<x>>, ":") = <<x>> /\ Joined(<<y>>, ":") = <<y>>
      BY DEF Joined
    <3>3. FlattenSeq(<<x>>) = x /\ FlattenSeq(<<y>>) = y
      BY FlattenOne DEF Datum
    <3> QED
      BY <1>4, <3>1, <3>2, <3>3
  <2>2. CASE Len(u) # 1
    <3>1. \A i \in DOMAIN u : ":" \notin Range(u[i])
      BY <1>1, <2>2 DEF Plain
    <3>2. PICK S : S = STRING \cup {":"}
      OBVIOUS
    <3>3. Datum \subseteq Seq(S)
      <4>1. STRING \subseteq S
        BY <3>2
      <4> QED
        BY <4>1, SeqOfMore DEF Datum
    <3>4. u \in Seq(Seq(S)) /\ v \in Seq(Seq(S))
      BY <3>3, SeqOfMore
    <3>5. Len(u) = Len(v) /\ ":" \in S
      BY <1>1, <1>2, <3>2
    <3> QED
      BY <1>4, <3>1, <3>4, <3>5, JoinTells
  <2> QED
    BY <2>1, <2>2
<1>6. \A i \in DOMAIN columns : u[i] = data[columns[i]] /\ v[i] = other[columns[i]]
  BY <1>1, <1>2 DEF Picked
<1> QED
  BY <1>5, <1>6 DEF Matches

-----------------------------------------------------------------------------
(* While it is calm *)

Told == RowsTold /\ IndexesTold /\ \A c \in Clients : Accurate(c, call[c])

\* What does not change with the model.
LEMMA SameKeys ==
  ASSUME model' = model
  PROVE  /\ \A k : KeysOf(k)' = KeysOf(k)
         /\ \A columns : Sought(columns)' = Sought(columns)
         /\ \A columns, data : GivenLater(columns, data)' <=> GivenLater(columns, data)
         /\ \A columns, data : DataKey(columns, data)' = DataKey(columns, data)
         /\ \A columns, data : Telling(columns, data)' <=> Telling(columns, data)
<1>1. Columns' = Columns /\ Primary' = Primary /\ Indexes' = Indexes /\ ReadsFirst' = ReadsFirst
      /\ \A id : PrimaryKey(id)' = PrimaryKey(id)
  BY SameModel
<1>2. \A columns : Sought(columns)' = Sought(columns)
  BY <1>1 DEF Sought, Asked
<1>3. \A columns, data : GivenLater(columns, data)' <=> GivenLater(columns, data)
  BY <1>1 DEF GivenLater
<1>4. \A columns, data : DataKey(columns, data)' = DataKey(columns, data)
  BY DEF DataKey
<1>5. \A r : IndexKeys(r)' = IndexKeys(r)
  BY <1>1, <1>4 DEF IndexKeys
<1>6. \A r, id : InsertKeys(r)' = InsertKeys(r) /\ UpdateKeys(r)' = UpdateKeys(r) /\ DeleteKeys(id, r)' = DeleteKeys(id, r)
  BY <1>1, <1>5 DEF InsertKeys, UpdateKeys, DeleteKeys
<1>7. ASSUME NEW k PROVE KeysOf(k)' = KeysOf(k)
  <2>1. PICK old : old = IF ReadsFirst THEN k.got.row ELSE k.data
    OBVIOUS
  <2>2. (IF ReadsFirst THEN k.got.row ELSE k.data)' = old
    BY <1>1, <2>1
  <2>3. KeysOf(k) = CASE k.op = "insert" -> InsertKeys(k.data) [] k.op = "update" -> UpdateKeys(old)
                      [] k.op = "delete" -> DeleteKeys(k.id, old)
    BY <2>1 DEF KeysOf
  <2>4. KeysOf(k)' = CASE k.op = "insert" -> InsertKeys(k.data)' [] k.op = "update" -> UpdateKeys(old)'
                       [] k.op = "delete" -> DeleteKeys(k.id, old)'
    BY <2>2 DEF KeysOf
  <2> QED
    BY <1>6, <2>3, <2>4
<1>8. \A columns, data : SharedKey(columns, data)' <=> SharedKey(columns, data)
  BY <1>1, <1>2, <1>4 DEF SharedKey
<1>9. \A columns, data : Telling(columns, data)' <=> Telling(columns, data)
  BY <1>8 DEF Telling, Picked, Plain
<1> QED
  BY <1>2, <1>3, <1>4, <1>7, <1>9

LEMMA RowTellsOn ==
  ASSUME model' = model, NEW id, id \in DOMAIN rows' <=> id \in DOMAIN rows,
         id \in DOMAIN rows => rows'[id] = rows[id]
  PROVE  \A e : TellsRow(id, e) => TellsRow(id, e)'
  BY DEF TellsRow

LEMMA IndexTellsOn ==
  ASSUME model' = model, rows' = rows, moved \cap DOMAIN rows \subseteq moved'
  PROVE  \A columns, data, e : TellsIndex(columns, data, e) => TellsIndex(columns, data, e)'
<1>1. \A columns, data : Having(columns, data)' = Having(columns, data) /\ Having(columns, data) \subseteq DOMAIN rows
  BY DEF Having
<1>2. \A columns, data : GivenLater(columns, data)' <=> GivenLater(columns, data)
  BY SameKeys
<1> QED
  BY <1>1, <1>2 DEF TellsIndex

\* A step of a call that leaves the rows as they are, and does not end a deletion.
QuietStep(c, n) ==
    /\ model' = model
    /\ rows' = rows
    /\ moved \cap DOMAIN rows \subseteq moved'
    /\ call[c].step # "del"
    /\ call' = [call EXCEPT ![c] = n]

LEMMA QuietFrame ==
  ASSUME Serving, NEW c \in Clients, NEW n, QuietStep(c, n)
  PROVE  /\ \A id, e : TellsRow(id, e) => TellsRow(id, e)'
         /\ \A columns, data, e : TellsIndex(columns, data, e) => TellsIndex(columns, data, e)'
         /\ \A key : Pending(key) => Pending(key)'
         /\ \A columns, data : Having(columns, data)' = Having(columns, data)
<1>1. \A id, e : TellsRow(id, e) => TellsRow(id, e)'
  BY RowTellsOn DEF QuietStep
<1>2. \A columns, data, e : TellsIndex(columns, data, e) => TellsIndex(columns, data, e)'
  BY IndexTellsOn DEF QuietStep
<1>3. \A k : KeysOf(k)' = KeysOf(k)
  BY SameKeys DEF QuietStep
<1>4. \A o \in Clients : call'[o] = IF o = c THEN n ELSE call[o]
  BY DEF QuietStep, Serving
<1>5. ASSUME NEW key, Pending(key) PROVE Pending(key)'
  <2>1. PICK o \in Clients : call[o].step = "del" /\ key \in KeysOf(call[o])
    BY <1>5 DEF Pending
  <2>2. o # c
    BY <2>1 DEF QuietStep
  <2>3. PICK k : k = call[o] /\ k = call'[o]
    BY <1>4, <2>2
  <2>4. key \in KeysOf(k)'
    BY <1>3, <2>1, <2>3
  <2> QED
    BY <2>1, <2>3, <2>4 DEF Pending
<1>6. \A columns, data : Having(columns, data)' = Having(columns, data)
  BY DEF Having, QuietStep
<1> QED
  BY <1>1, <1>2, <1>5, <1>6
LEMMA QuietCalls ==
  ASSUME Serving, Told, NEW c \in Clients, NEW n, QuietStep(c, n), Accurate(c, n)
  PROVE  (\A o \in Clients : Accurate(o, call[o]))'
<1>1. /\ \A id, e : TellsRow(id, e) => TellsRow(id, e)'
      /\ \A columns, data, e : TellsIndex(columns, data, e) => TellsIndex(columns, data, e)'
      /\ \A columns, data : Having(columns, data)' = Having(columns, data)
  BY QuietFrame
<1>2. \A o \in Clients : call'[o] = IF o = c THEN n ELSE call[o]
  BY DEF QuietStep, Serving
<1>3. Primary' = Primary /\ ReadsFirst' = ReadsFirst
  BY SameModel DEF QuietStep
<1>4. \A o \in Clients : call[o].step = "del" => call'[o].step = "del"
  BY <1>2 DEF QuietStep
<1>5. ASSUME NEW o, NEW k, Accurate(o, k) PROVE Accurate(o, k)'
  <2>1. (k.step = "fill" => TellsRow(k.id, k.got))'
    BY <1>1, <1>5 DEF Accurate
  <2>2. (k.step = "fillFound" =>
           TellsRow(k.got.row[Primary], k.got) /\ Having(k.columns, k.data) = {k.got.row[Primary]})'
    BY <1>1, <1>3, <1>5 DEF Accurate
  <2>3. (k.step = "fillIndex" => TellsIndex(k.columns, k.data, k.got))'
    BY <1>1, <1>5 DEF Accurate
  <2>4. (k.step = "exec" /\ k.op \in {"update", "delete"} /\ ReadsFirst =>
           TellsRow(k.id, k.got) \/ \E p \in Clients \ {o} : call[p].step = "del")'
    BY <1>1, <1>3, <1>4, <1>5 DEF Accurate
  <2> QED
    BY <2>1, <2>2, <2>3, <2>4 DEF Accurate
<1>6. ASSUME NEW o \in Clients PROVE Accurate(o, call[o])'
  <2>1. PICK k : k = call'[o]
    OBVIOUS
  <2>2. Accurate(o, k)
    BY <1>2, <2>1 DEF Told
  <2>3. Accurate(o, k)'
    BY <1>5, <2>2
  <2> QED
    BY <2>1, <2>3
<1> QED
  BY <1>6

KeptEntry(key) == key \in DOMAIN cache /\ cache'[key] = cache[key]

LEMMA QuietCache ==
  ASSUME Serving, Told, NEW c \in Clients, NEW n, QuietStep(c, n),
         \A id \in Ids : PrimaryKey(id) \in DOMAIN cache' =>
            KeptEntry(PrimaryKey(id)) \/ TellsRow(id, cache'[PrimaryKey(id)]),
         \A columns \in Indexes : \A data \in Sought(columns) :
            DataKey(columns, data) \in DOMAIN cache' /\ Telling(columns, data) =>
               KeptEntry(DataKey(columns, data)) \/ TellsIndex(columns, data, cache'[DataKey(columns, data)])
  PROVE  RowsTold' /\ IndexesTold'
<1>0. PICK next : next = cache'
  OBVIOUS
<1>1. /\ \A id, e : TellsRow(id, e) => TellsRow(id, e)'
      /\ \A columns, data, e : TellsIndex(columns, data, e) => TellsIndex(columns, data, e)'
      /\ \A key : Pending(key) => Pending(key)'
  BY QuietFrame
<1>2. Indexes' = Indexes /\ (\A id : PrimaryKey(id)' = PrimaryKey(id))
      /\ (\A columns : Sought(columns)' = Sought(columns))
      /\ (\A columns, data : DataKey(columns, data)' = DataKey(columns, data))
      /\ \A columns, data : Telling(columns, data)' <=> Telling(columns, data)
  BY SameModel, SameKeys DEF QuietStep
<1>3. RowsTold'
  <2>1. ASSUME NEW id \in Ids, NEW key, key = PrimaryKey(id), key \in DOMAIN next
        PROVE  TellsRow(id, next[key])' \/ Pending(key)'
    <3>1. KeptEntry(key) \/ TellsRow(id, next[key])
      BY <1>0, <2>1
    <3>2. TellsRow(id, next[key]) \/ Pending(key)
      BY <1>0, <2>1, <3>1 DEF Told, RowsTold, KeptEntry
    <3>3. PICK e : e = next[key]
      OBVIOUS
    <3>4. TellsRow(id, e)' \/ Pending(key)'
      BY <1>1, <3>1, <3>2, <3>3
    <3> QED
      BY <3>3, <3>4
  <2> QED
    BY <1>0, <1>2, <2>1 DEF RowsTold
<1>4. IndexesTold'
  <2>1. ASSUME NEW columns \in Indexes, NEW data \in Sought(columns), NEW key, key = DataKey(columns, data),
               key \in DOMAIN next, Telling(columns, data)
        PROVE  TellsIndex(columns, data, next[key])' \/ Pending(key)'
    <3>1. KeptEntry(key) \/ TellsIndex(columns, data, next[key])
      BY <1>0, <2>1
    <3>2. TellsIndex(columns, data, next[key]) \/ Pending(key)
      BY <1>0, <2>1, <3>1 DEF Told, IndexesTold, KeptEntry
    <3>3. PICK e : e = next[key]
      OBVIOUS
    <3>4. TellsIndex(columns, data, e)' \/ Pending(key)'
      BY <1>1, <3>1, <3>2, <3>3
    <3> QED
      BY <3>3, <3>4
  <2> QED
    BY <1>0, <1>2, <2>1 DEF IndexesTold
<1> QED
  BY <1>3, <1>4

LEMMA QuietShrink ==
  ASSUME Serving, Told, NEW c \in Clients, NEW n, QuietStep(c, n), Accurate(c, n),
         \A key \in DOMAIN cache' : key \in DOMAIN cache /\ cache'[key] = cache[key]
  PROVE  Told'
<1>1. \A key \in DOMAIN cache' : KeptEntry(key)
  BY DEF KeptEntry
<1>2. RowsTold' /\ IndexesTold'
  BY <1>1, QuietCache
<1>3. (\A o \in Clients : Accurate(o, call[o]))'
  BY QuietCalls
<1> QED
  BY <1>2, <1>3 DEF Told

LEMMA SetIs ==
  ASSUME NEW key, NEW e, Set(key, e)
  PROVE  key \in DOMAIN cache' /\ cache'[key] = e /\ \A x \in DOMAIN cache' : x # key => KeptEntry(x)
  BY DEF Set, KeptEntry

LEMMA QuietFillRow ==
  ASSUME Serving, Told, NEW c \in Clients, NEW n, QuietStep(c, n), Accurate(c, n),
         NEW id \in Ids, NEW e, TellsRow(id, e), Set(PrimaryKey(id), e)
  PROVE  Told'
<1>0. SoundModel(model) /\ Ids \subseteq Datum
  BY ValuesAre DEF Serving, ServeInv
<1>1. PICK key : key = PrimaryKey(id)
  OBVIOUS
<1>2. key \in DOMAIN cache' /\ cache'[key] = e /\ \A x \in DOMAIN cache' : x # key => KeptEntry(x)
  BY <1>1, SetIs
<1>3. ~IsIndexKey(key) /\ \A x \in Ids : PrimaryKey(x) = key => x = id
  BY <1>0, <1>1, KeysApart
<1>4. \A x \in Ids : PrimaryKey(x) \in DOMAIN cache' =>
         KeptEntry(PrimaryKey(x)) \/ TellsRow(x, cache'[PrimaryKey(x)])
  BY <1>1, <1>2, <1>3
<1>5. \A columns \in Indexes : \A data \in Sought(columns) :
         DataKey(columns, data) \in DOMAIN cache' => KeptEntry(DataKey(columns, data))
  BY <1>2, <1>3 DEF IsIndexKey
<1>6. RowsTold' /\ IndexesTold'
  BY <1>4, <1>5, QuietCache
<1>7. (\A o \in Clients : Accurate(o, call[o]))'
  BY QuietCalls
<1> QED
  BY <1>6, <1>7 DEF Told

\* What is said of an index depends on the values that it has.
LEMMA SaidAlike ==
  ASSUME NEW columns, NEW data, NEW other, Matches(other, columns, data), NEW e, TellsIndex(columns, other, e)
  PROVE  TellsIndex(columns, data, e)
<1>1. Having(columns, data) = Having(columns, other)
  BY DEF Having, Matches
<1>2. \A f \in Range(columns) : other[f] = data[f]
  BY DEF Matches, Range
<1>3. GivenLater(columns, other) => GivenLater(columns, data)
  BY <1>2 DEF GivenLater
<1> QED
  BY <1>1, <1>3 DEF TellsIndex

LEMMA QuietFillIndex ==
  ASSUME Serving, Told, NEW c \in Clients, NEW n, QuietStep(c, n), Accurate(c, n),
         NEW columns \in Indexes, NEW data \in Sought(columns), NEW e, TellsIndex(columns, data, e),
         Set(DataKey(columns, data), e)
  PROVE  Told'
<1>0. SoundModel(model) /\ Ids \subseteq Datum
  BY ValuesAre DEF Serving, ServeInv
<1>1. PICK key : key = DataKey(columns, data)
  OBVIOUS
<1>2. key \in DOMAIN cache' /\ cache'[key] = e /\ \A x \in DOMAIN cache' : x # key => KeptEntry(x)
  BY <1>1, SetIs
<1>3. IsIndexKey(key)
  BY <1>1 DEF IsIndexKey
<1>4. \A x \in Ids : PrimaryKey(x) \in DOMAIN cache' => KeptEntry(PrimaryKey(x))
  BY <1>0, <1>2, <1>3, KeysApart
<1>5. ASSUME NEW others \in Indexes, NEW values \in Sought(others),
             DataKey(others, values) \in DOMAIN cache', Telling(others, values)
      PROVE  KeptEntry(DataKey(others, values)) \/ TellsIndex(others, values, cache'[DataKey(others, values)])
  <2>1. CASE DataKey(others, values) # key
    BY <1>2, <1>5, <2>1
  <2>2. CASE DataKey(others, values) = key
    <3>1. others = columns
      BY <1>1, <1>5, <2>2 DEF Telling, SharedKey
    <3>2. values \in [Columns -> Datum] /\ data \in [Columns -> Datum]
      BY <3>1, SoughtIs
    <3>3. DataKey(columns, values) = DataKey(columns, data)
      BY <1>1, <2>2, <3>1
    <3>4. Matches(data, columns, values)
      BY <1>0, <1>5, <3>1, <3>2, <3>3, KeyTells DEF Telling
    <3>5. TellsIndex(columns, values, e)
      BY <3>4, SaidAlike
    <3> QED
      BY <1>2, <2>2, <3>1, <3>5
  <2> QED
    BY <2>1, <2>2
<1>6. RowsTold' /\ IndexesTold'
  BY <1>4, <1>5, QuietCache
<1>7. (\A o \in Clients : Accurate(o, call[o]))'
  BY QuietCalls
<1> QED
  BY <1>6, <1>7 DEF Told
LEMMA NoCallTells ==
  ASSUME NEW c
  PROVE  Accurate(c, NoCall)
<1>1. NoCall.step = "idle"
  BY DEF NoCall
<1> QED
  BY <1>1 DEF Accurate

\* A call at a step at which it has not read anything.
LEMMA UnreadTells ==
  ASSUME NEW c, NEW k, k.step \notin {"fill", "fillFound", "fillIndex", "exec"}
  PROVE  Accurate(c, k)
  BY DEF Accurate

LEMMA ResumeTells ==
  ASSUME NEW c, NEW k, IsCall(k), NEW e, TellsRow(k.id, e) \/ \E o \in Clients \ {c} : call[o].step = "del"
  PROVE  Accurate(c, Resume(k, e))
<1>1. CASE k.op \in {"find", "findBy"} \/ e.kind = "mark"
  BY <1>1, NoCallTells DEF Resume
<1>2. CASE ~(k.op \in {"find", "findBy"} \/ e.kind = "mark")
  <2>1. PICK n : n = [k EXCEPT !.step = "exec", !.got = e]
    OBVIOUS
  <2>2. n.step = "exec" /\ n.id = k.id /\ n.got = e
    BY <2>1 DEF IsCall
  <2>3. Accurate(c, n)
    BY <2>2 DEF Accurate
  <2> QED
    BY <1>2, <2>1, <2>3 DEF Resume
<1> QED
  BY <1>1, <1>2

LEMMA TakeTells ==
  ASSUME Told, NEW c \in Clients, call[c].step # "del", NEW k, IsCall(k), k.id \in Ids
  PROVE  Accurate(c, Take(k))
<1>1. CASE PrimaryKey(k.id) \in DOMAIN cache
  <2>1. TellsRow(k.id, cache[PrimaryKey(k.id)]) \/ Pending(PrimaryKey(k.id))
    BY <1>1 DEF Told, RowsTold
  <2>2. Pending(PrimaryKey(k.id)) => \E o \in Clients \ {c} : call[o].step = "del"
    BY DEF Pending
  <2> QED
    BY <1>1, <2>1, <2>2, ResumeTells DEF Take
<1>2. CASE PrimaryKey(k.id) \notin DOMAIN cache
  <2>1. PICK n : n = [k EXCEPT !.step = "query"]
    OBVIOUS
  <2>2. n.step = "query"
    BY <2>1 DEF IsCall
  <2>3. Accurate(c, n)
    BY <2>2, UnreadTells
  <2> QED
    BY <1>2, <2>1, <2>3 DEF Take
<1> QED
  BY <1>1, <1>2

LEMMA TakeIndexTells ==
  ASSUME Serving, Told, NEW c \in Clients, call[c].step # "del", NEW k, IsCall(k), k.columns \in Indexes, k.data \in Sought(k.columns)
  PROVE  Accurate(c, TakeIndex(k))
<1>1. PICK key : key = DataKey(k.columns, k.data)
  OBVIOUS
<1>2. CASE key \notin DOMAIN cache
  <2>1. PICK n : n = [k EXCEPT !.step = "queryIndex"]
    OBVIOUS
  <2>2. n.step = "queryIndex"
    BY <2>1 DEF IsCall
  <2>3. Accurate(c, n)
    BY <2>2, UnreadTells
  <2> QED
    BY <1>1, <1>2, <2>1, <2>3 DEF TakeIndex
<1>3. CASE key \in DOMAIN cache
  <2>1. IsIndexKey(key)
    BY <1>1 DEF IsIndexKey
  <2>2. IsIndexEntry(cache[key])
    BY <1>3, <2>1 DEF Serving, ServeInv, CacheInv
  <2>3. CASE cache[key].kind = "mark"
    BY <1>1, <1>3, <2>3, NoCallTells DEF TakeIndex
  <2>4. CASE cache[key].kind # "mark"
    <3>1. cache[key].id \in Ids
      BY <2>2, <2>4, IndexEntryIs
    <3>2. PICK n : n = [k EXCEPT !.id = cache[key].id]
      OBVIOUS
    <3>3. IsCall(n) /\ n.id = cache[key].id
      BY <3>2 DEF IsCall
    <3>4. Accurate(c, Take(n))
      BY <3>1, <3>3, TakeTells
    <3> QED
      BY <1>1, <1>3, <2>4, <3>2, <3>4 DEF TakeIndex
  <2> QED
    BY <2>3, <2>4
<1> QED
  BY <1>2, <1>3

LEMMA BeginTells ==
  ASSUME Serving, Told, NEW c \in Clients, NEW k, Accurate(c, k), Begin(c, k)
  PROVE  Told'
<1>1. call[c].step # "del"
  BY DEF Begin, NoCall
<1>2. QuietStep(c, k)
  BY <1>1 DEF Begin, QuietStep
<1>3. cache' = cache
  BY DEF Begin
<1> QED
  BY <1>2, <1>3, QuietShrink

LEMMA MethodTells ==
  ASSUME Serving, Told, NEW c \in Clients, Method(c)
  PROVE  Told'
<1>0. ASSUME NEW k, Begin(c, k) PROVE call[c].step # "del"
  BY <1>0 DEF Begin, NoCall
<1>1. CASE FindOne(c)
  <2>1. PICK id \in Ids : Begin(c, Take(Call("find", "take", [f \in Columns |-> id], << >>)))
    BY <1>1 DEF FindOne
  <2>2. PICK data : data = [f \in Columns |-> id] /\ data[Primary] = id
    <3>1. PICK data : data = [f \in Columns |-> id]
      OBVIOUS
    <3>2. data[Primary] = id
      BY <3>1, ModelIs DEF Serving, ServeInv
    <3> QED
      BY <3>1, <3>2
  <2>3. PICK k : k = Call("find", "take", data, << >>)
    OBVIOUS
  <2>4. IsCall(k) /\ k.id = id
    BY <2>2, <2>3, CallIs
  <2>5. Accurate(c, Take(k))
    BY <1>0, <2>1, <2>4, TakeTells
  <2> QED
    BY <2>1, <2>2, <2>3, <2>5, BeginTells
<1>2. CASE FindOneByField(c)
  <2>1. PICK columns \in Indexes : \E data \in Sought(columns) :
          Begin(c, TakeIndex(Call("findBy", "take", data, columns)))
    BY <1>2 DEF FindOneByField
  <2>2. PICK data \in Sought(columns) : Begin(c, TakeIndex(Call("findBy", "take", data, columns)))
    BY <2>1
  <2>3. PICK k : k = Call("findBy", "take", data, columns)
    OBVIOUS
  <2>4. IsCall(k) /\ k.columns = columns /\ k.data = data
    BY <2>3, CallIs
  <2>5. Accurate(c, TakeIndex(k))
    BY <1>0, <2>2, <2>4, TakeIndexTells
  <2> QED
    BY <2>2, <2>3, <2>5, BeginTells
<1>3. CASE Insert(c)
  <2>1. PICK data \in NewRows : Begin(c, Call("insert", "exec", data, << >>))
    BY <1>3 DEF Insert
  <2>2. PICK k : k = Call("insert", "exec", data, << >>)
    OBVIOUS
  <2>3. IsCall(k) /\ k.op = "insert" /\ k.step = "exec"
    BY <2>2, CallIs
  <2>4. Accurate(c, k)
    BY <2>3 DEF Accurate
  <2> QED
    BY <2>1, <2>2, <2>4, BeginTells
<1>4. ASSUME NEW k, IsCall(k), k.id \in Ids, k.step = "exec" \/ ReadsFirst,
             Begin(c, IF ReadsFirst THEN Take(k) ELSE k)
      PROVE  Told'
  <2>1. CASE ReadsFirst
    <3>1. Accurate(c, Take(k))
      BY <1>0, <1>4, TakeTells
    <3> QED
      BY <1>4, <2>1, <3>1, BeginTells
  <2>2. CASE ~ReadsFirst
    <3>1. Accurate(c, k)
      BY <1>4, <2>2 DEF Accurate
    <3> QED
      BY <1>4, <2>2, <3>1, BeginTells
  <2> QED
    BY <2>1, <2>2
<1>5. CASE Update(c)
  <2>1. PICK id \in Ids : \E data \in Data(id) :
          Begin(c, IF ReadsFirst THEN Take(Call("update", "take", data, << >>)) ELSE Call("update", "exec", data, << >>))
    BY <1>5 DEF Update
  <2>2. PICK data \in Data(id) :
          Begin(c, IF ReadsFirst THEN Take(Call("update", "take", data, << >>)) ELSE Call("update", "exec", data, << >>))
    BY <2>1
  <2>3. data[Primary] = id
    BY ValuesAre, DataIs DEF Serving, ServeInv
  <2>4. PICK k : k = Call("update", IF ReadsFirst THEN "take" ELSE "exec", data, << >>)
    OBVIOUS
  <2>5. IsCall(k) /\ k.step = (IF ReadsFirst THEN "take" ELSE "exec") /\ k.id = id
    BY <2>3, <2>4, CallIs
  <2>6. Begin(c, IF ReadsFirst THEN Take(k) ELSE k)
    BY <2>2, <2>4
  <2> QED
    BY <1>4, <2>5, <2>6
<1>6. CASE Delete(c)
  <2>1. PICK id \in Ids :
          Begin(c, IF ReadsFirst THEN Take(Call("delete", "take", [f \in Columns |-> id], << >>))
                   ELSE Call("delete", "exec", [f \in Columns |-> id], << >>))
    BY <1>6 DEF Delete
  <2>2. PICK data : data = [f \in Columns |-> id] /\ data[Primary] = id
    <3>1. PICK data : data = [f \in Columns |-> id]
      OBVIOUS
    <3>2. data[Primary] = id
      BY <3>1, ModelIs DEF Serving, ServeInv
    <3> QED
      BY <3>1, <3>2
  <2>3. PICK k : k = Call("delete", IF ReadsFirst THEN "take" ELSE "exec", data, << >>)
    OBVIOUS
  <2>4. IsCall(k) /\ k.step = (IF ReadsFirst THEN "take" ELSE "exec") /\ k.id = id
    BY <2>2, <2>3, CallIs
  <2>5. Begin(c, IF ReadsFirst THEN Take(k) ELSE k)
    BY <2>1, <2>2, <2>3
  <2> QED
    BY <1>4, <2>4, <2>5
<1> QED
  BY <1>1, <1>2, <1>3, <1>5, <1>6 DEF Method
LEMMA QueryPrimaryTells ==
  ASSUME Serving, Told, NEW c \in Clients, QueryPrimary(c)
  PROVE  Told'
<1>1. PICK k : k = call[c]
  OBVIOUS
<1>2. IsCall(k) /\ k.step = "query"
  BY <1>1, AtStep DEF QueryPrimary
<1>3. PICK got : got = IF k.id \in DOMAIN rows THEN RowEntry(rows[k.id]) ELSE Mark
  OBVIOUS
<1>4. TellsRow(k.id, got)
  <2>1. CASE k.id \in DOMAIN rows
    <3>1. got.kind = "row" /\ got.row = rows[k.id]
      BY <1>3, <2>1 DEF RowEntry
    <3> QED
      BY <2>1, <3>1 DEF TellsRow
  <2>2. CASE k.id \notin DOMAIN rows
    <3>1. got.kind = "mark"
      BY <1>3, <2>2 DEF Mark
    <3> QED
      BY <2>2, <3>1 DEF TellsRow
  <2> QED
    BY <2>1, <2>2
<1>5. PICK n : n = [k EXCEPT !.step = "fill", !.got = got]
  OBVIOUS
<1>6. n.step = "fill" /\ n.id = k.id /\ n.got = got
  BY <1>2, <1>5 DEF IsCall
<1>7. Accurate(c, n)
  BY <1>4, <1>6 DEF Accurate
<1>8. Goto(c, n) /\ UNCHANGED <<rows, cache, moved>>
  BY <1>1, <1>3, <1>5 DEF QueryPrimary
<1>9. QuietStep(c, n)
  BY <1>1, <1>2, <1>8, GotoIs DEF QuietStep
<1> QED
  BY <1>7, <1>8, <1>9, QuietShrink

LEMMA FillPrimaryTells ==
  ASSUME Serving, Told, NEW c \in Clients, FillPrimary(c)
  PROVE  Told'
<1>1. PICK k : k = call[c]
  OBVIOUS
<1>2. IsCall(k) /\ CallFor(k) /\ k.step = "fill"
  BY <1>1, AtStep DEF FillPrimary
<1>3. k.id \in Ids
  BY <1>2 DEF CallFor
<1>4. TellsRow(k.id, k.got)
  BY <1>1, <1>2 DEF Told, Accurate
<1>5. PICK n : n = Resume(k, k.got)
  OBVIOUS
<1>6. Accurate(c, n)
  BY <1>2, <1>4, <1>5, ResumeTells
<1>7. Goto(c, n) /\ UNCHANGED <<rows, moved>> /\ Set(PrimaryKey(k.id), k.got)
  BY <1>1, <1>5 DEF FillPrimary
<1>8. QuietStep(c, n)
  BY <1>1, <1>2, <1>7, GotoIs DEF QuietStep
<1> QED
  BY <1>3, <1>4, <1>6, <1>7, <1>8, QuietFillRow

\* One row at most has the values of an index.
LEMMA OneHas ==
  ASSUME TableInv, NEW columns \in Indexes, NEW data, NEW id \in Having(columns, data)
  PROVE  Having(columns, data) = {id}
<1>1. ASSUME NEW other \in Having(columns, data), other # id PROVE FALSE
  <2>1. other \in DOMAIN rows /\ id \in DOMAIN rows
        /\ \A i \in DOMAIN columns : rows[other][columns[i]] = rows[id][columns[i]]
    BY DEF Having
  <2> QED
    BY <1>1, <2>1 DEF TableInv, TableIs, Distinct
<1> QED
  BY <1>1

LEMMA QueryIndexTells ==
  ASSUME Serving, Told, NEW c \in Clients, QueryIndex(c)
  PROVE  Told'
<1>1. PICK k : k = call[c]
  OBVIOUS
<1>2. IsCall(k) /\ CallFor(k) /\ k.step = "queryIndex"
  BY <1>1, AtStep DEF QueryIndex
<1>3. k.columns \in Indexes /\ TableInv
  BY <1>2 DEF CallFor, Serving, ServeInv
<1>4. UNCHANGED <<rows, cache, moved>>
  BY DEF QueryIndex
<1>5. CASE Having(k.columns, k.data) = {}
  <2>1. PICK n : n = [k EXCEPT !.step = "fillIndex", !.got = Mark]
    OBVIOUS
  <2>2. n.step = "fillIndex" /\ n.data = k.data /\ n.columns = k.columns /\ n.got = Mark
    BY <1>2, <2>1 DEF IsCall
  <2>3. Mark.kind = "mark"
    BY DEF Mark
  <2>4. TellsIndex(k.columns, k.data, Mark)
    BY <1>5, <2>3 DEF TellsIndex
  <2>5. Accurate(c, n)
    BY <2>2, <2>4 DEF Accurate
  <2>6. Goto(c, n)
    BY <1>1, <1>5, <2>1 DEF QueryIndex
  <2>7. QuietStep(c, n)
    BY <1>1, <1>2, <1>4, <2>6, GotoIs DEF QuietStep
  <2> QED
    BY <1>4, <2>5, <2>7, QuietShrink
<1>6. CASE Having(k.columns, k.data) # {}
  <2>0. PICK got : got = RowEntry(rows[CHOOSE id \in Having(k.columns, k.data) : TRUE])
    OBVIOUS
  <2>1. PICK n : n = [k EXCEPT !.step = "fillFound", !.got = got]
    OBVIOUS
  <2>2. n.step = "fillFound" /\ n.data = k.data /\ n.columns = k.columns /\ n.got = got
    BY <1>2, <2>1 DEF IsCall
  <2>3. PICK id \in Having(k.columns, k.data) : got.row = rows[id] /\ got.row[Primary] = id
    <3>1. PICK id \in Having(k.columns, k.data) : id = CHOOSE x \in Having(k.columns, k.data) : TRUE
      BY <1>6
    <3>2. got.row = rows[id]
      BY <2>0, <3>1 DEF RowEntry
    <3>3. id \in DOMAIN rows
      BY DEF Having
    <3>4. rows[id][Primary] = id
      BY <1>3, <3>3 DEF TableInv, TableIs, IsRow
    <3> QED
      BY <3>2, <3>4
  <2>4. Having(k.columns, k.data) = {id}
    BY <1>3, OneHas
  <2>5. TellsRow(id, got)
    <3>1. got.kind = "row"
      BY <2>0 DEF RowEntry
    <3>2. id \in DOMAIN rows
      BY DEF Having
    <3> QED
      BY <2>3, <3>1, <3>2 DEF TellsRow
  <2>6. Accurate(c, n)
    BY <2>2, <2>3, <2>4, <2>5 DEF Accurate
  <2>7. Goto(c, n)
    BY <1>1, <1>6, <2>0, <2>1 DEF QueryIndex
  <2>8. QuietStep(c, n)
    BY <1>1, <1>2, <1>4, <2>7, GotoIs DEF QuietStep
  <2> QED
    BY <1>4, <2>6, <2>8, QuietShrink
<1> QED
  BY <1>5, <1>6

LEMMA FillFoundTells ==
  ASSUME Serving, Told, NEW c \in Clients, FillFound(c)
  PROVE  Told'
<1>1. PICK k : k = call[c]
  OBVIOUS
<1>2. IsCall(k) /\ CallGot(k) /\ k.step = "fillFound"
  BY <1>1, AtStep DEF FillFound
<1>3. PICK id \in Ids : id = k.got.row[Primary]
  BY <1>2 DEF CallGot
<1>4. TellsRow(id, k.got) /\ Having(k.columns, k.data) = {id}
  BY <1>1, <1>2, <1>3 DEF Told, Accurate
<1>5. PICK n : n = [k EXCEPT !.step = "fillIndex", !.got = IdEntry(id)]
  OBVIOUS
<1>6. n.step = "fillIndex" /\ n.data = k.data /\ n.columns = k.columns /\ n.got = IdEntry(id)
  BY <1>2, <1>5 DEF IsCall
<1>7. IdEntry(id).kind = "id" /\ IdEntry(id).id = id
  BY DEF IdEntry
<1>8. TellsIndex(k.columns, k.data, IdEntry(id))
  BY <1>4, <1>7 DEF TellsIndex
<1>9. Accurate(c, n)
  BY <1>6, <1>8 DEF Accurate
<1>10. Goto(c, n) /\ UNCHANGED <<rows, moved>> /\ Set(PrimaryKey(id), k.got)
  BY <1>1, <1>3, <1>5 DEF FillFound
<1>11. QuietStep(c, n)
  BY <1>1, <1>2, <1>10, GotoIs DEF QuietStep
<1> QED
  BY <1>4, <1>9, <1>10, <1>11, QuietFillRow

LEMMA FillIndexTells ==
  ASSUME Serving, Told, NEW c \in Clients, FillIndex(c)
  PROVE  Told'
<1>1. PICK k : k = call[c]
  OBVIOUS
<1>2. IsCall(k) /\ CallFor(k) /\ k.step = "fillIndex"
  BY <1>1, AtStep DEF FillIndex
<1>3. k.columns \in Indexes /\ k.data \in Sought(k.columns)
  BY <1>2 DEF CallFor
<1>4. TellsIndex(k.columns, k.data, k.got)
  BY <1>1, <1>2 DEF Told, Accurate
<1>5. Goto(c, NoCall) /\ UNCHANGED <<rows, moved>> /\ Set(DataKey(k.columns, k.data), k.got)
  BY <1>1 DEF FillIndex
<1>6. QuietStep(c, NoCall)
  BY <1>1, <1>2, <1>5, GotoIs DEF QuietStep
<1> QED
  BY <1>3, <1>4, <1>5, <1>6, NoCallTells, QuietFillIndex

LEMMA CrashTells ==
  ASSUME Serving, Told, NEW c \in Clients, Crash(c), call[c].step # "del"
  PROVE  Told'
<1>1. Goto(c, NoCall) /\ UNCHANGED <<rows, cache, moved>>
  BY DEF Crash
<1>2. QuietStep(c, NoCall)
  BY <1>1, GotoIs DEF QuietStep
<1> QED
  BY <1>1, <1>2, NoCallTells, QuietShrink

-----------------------------------------------------------------------------
(* A write: what it makes untrue is what it goes on to delete *)

\* A key that the write at hand deletes, or what it said is still so.
RowStays(k) == \A id \in Ids : \A e : TellsRow(id, e) => TellsRow(id, e)' \/ PrimaryKey(id) \in KeysOf(k)
IndexStays(k) == \A columns \in Indexes : \A data, e :
    TellsIndex(columns, data, e) => TellsIndex(columns, data, e)' \/ DataKey(columns, data) \in KeysOf(k)

LEMMA HavingNext ==
  ASSUME NEW table, rows' = table
  PROVE  \A columns, data : Having(columns, data)' = {id \in DOMAIN table : Matches(table[id], columns, data)}
  BY DEF Having, Matches

LEMMA TwoMatch ==
  ASSUME NEW table, TableIs(table), NEW columns \in Indexes, NEW data, NEW i \in DOMAIN table, NEW j \in DOMAIN table,
         Matches(table[i], columns, data), Matches(table[j], columns, data)
  PROVE  i = j
  BY DEF TableIs, Distinct, Matches

LEMMA InsertStays ==
  ASSUME Serving, model' = model, NEW k, CallFor(k), k.op = "insert", NEW table, Wrote(k, table), TableIs(table),
         rows' = table, moved' = moved \ {k.id}
  PROVE  RowStays(k) /\ IndexStays(k)
<1>0. SoundModel(model) /\ DOMAIN rows \subseteq Ids
  BY DEF Serving, ServeInv, TableInv, TableIs
<1>1. PICK id \in Ids \ DOMAIN rows : id = NewId(k)
  BY DEF Wrote
<1>2. PICK row : InsertedRow(row, id, k.data) /\ table = Put(rows, id, row)
  BY <1>1 DEF Wrote
<1>3. /\ DOMAIN table = DOMAIN rows \cup {id} /\ table[id] = row
      /\ \A i \in DOMAIN rows : table[i] = rows[i]
  BY <1>1, <1>2 DEF Put
<1>4. k.data \in NewRows /\ k.id = k.data[Primary]
  BY DEF CallFor
<1>5. KeysOf(k) = {PrimaryKey(k.data[Primary])} \cup IndexKeys(k.data)
  BY DEF KeysOf, InsertKeys
<1>6. ~model.table.auto => id = k.data[Primary]
  BY <1>1 DEF NewId
<1>7. k.id \notin DOMAIN rows
  <2>1. CASE model.table.auto
    BY <1>0, <1>4, <2>1, NewRowIs, ValuesAre
  <2>2. CASE ~model.table.auto
    BY <1>1, <1>4, <1>6, <2>2
  <2> QED
    BY <2>1, <2>2
<1>8. RowStays(k)
  <2>1. ASSUME NEW x \in Ids, NEW e, TellsRow(x, e) PROVE TellsRow(x, e)' \/ PrimaryKey(x) \in KeysOf(k)
    <3>1. CASE x # id
      <4>1. (x \in DOMAIN rows' <=> x \in DOMAIN rows) /\ (x \in DOMAIN rows => rows'[x] = rows[x])
        BY <1>3, <3>1
      <4> QED
        BY <2>1, <4>1, RowTellsOn
    <3>2. CASE x = id /\ model.table.auto
      <4>1. e.kind = "mark"
        BY <1>1, <2>1, <3>2 DEF TellsRow
      <4> QED
        BY <3>2, <4>1 DEF TellsRow
    <3>3. CASE x = id /\ ~model.table.auto
      BY <1>5, <1>6, <3>3
    <3> QED
      BY <3>1, <3>2, <3>3
  <2> QED
    BY <2>1 DEF RowStays
<1>9. ASSUME NEW columns \in Indexes, NEW data, NEW e, TellsIndex(columns, data, e)
      PROVE  TellsIndex(columns, data, e)' \/ DataKey(columns, data) \in KeysOf(k)
  <2>1. PICK next : next = Having(columns, data)' /\ next = {x \in DOMAIN table : Matches(table[x], columns, data)}
    BY HavingNext
  <2>2. Having(columns, data) = {x \in DOMAIN rows : Matches(rows[x], columns, data)}
    BY HavingMatch
  <2>3. GivenLater(columns, data)' <=> GivenLater(columns, data)
    BY SameKeys
  <2>4. CASE ~Matches(row, columns, data)
    <3>1. next = Having(columns, data)
      BY <1>1, <1>3, <2>1, <2>2, <2>4
    <3>2. Having(columns, data) \subseteq moved => next \subseteq moved'
      BY <1>7, <2>2, <3>1
    <3> QED
      BY <1>9, <2>1, <2>3, <3>1, <3>2 DEF TellsIndex
  <2>5. CASE Matches(row, columns, data) /\ e.kind # "mark"
    <3>1. Having(columns, data) = {e.id}
      BY <1>9, <2>5 DEF TellsIndex
    <3>2. e.id \in DOMAIN rows /\ Matches(rows[e.id], columns, data)
      BY <2>2, <3>1
    <3>3. e.id \in DOMAIN table /\ id \in DOMAIN table /\ Matches(table[e.id], columns, data)
          /\ Matches(table[id], columns, data)
      BY <1>3, <2>5, <3>2
    <3>4. e.id = id
      BY <3>3, TwoMatch
    <3> QED
      BY <1>1, <3>2, <3>4
  <2>6. CASE Matches(row, columns, data) /\ e.kind = "mark"
    <3>1. CASE GivenLater(columns, data)
      BY <2>3, <2>6, <3>1 DEF TellsIndex
    <3>2. CASE ~GivenLater(columns, data)
      <4>1. ASSUME NEW i \in DOMAIN columns PROVE k.data[columns[i]] = data[columns[i]]
        <5>1. PICK f \in Columns : f = columns[i] /\ f \in Range(columns)
          BY <1>0, IndexColumns
        <5>2. row[f] = data[f]
          BY <2>6, <5>1 DEF Matches
        <5>3. CASE f = Primary
          <6>1. ~model.table.auto
            BY <3>2, <5>1, <5>3 DEF GivenLater
          <6>2. row[f] = id
            BY <1>2, <5>3 DEF InsertedRow, IsRow
          <6> QED
            BY <1>6, <5>1, <5>2, <5>3, <6>1, <6>2
        <5>4. CASE f # Primary
          <6>1. row[f] = IF f \in model.ignored THEN Default ELSE k.data[f]
            BY <1>2, <5>4 DEF InsertedRow
          <6>2. f \notin model.ignored
            BY <3>2, <5>1, <5>2, <6>1 DEF GivenLater
          <6> QED
            BY <5>1, <5>2, <6>1, <6>2
        <5> QED
          BY <5>3, <5>4
      <4>2. DataKey(columns, k.data) = DataKey(columns, data)
        BY <4>1, SameKey DEF Matches
      <4>3. DataKey(columns, k.data) \in IndexKeys(k.data)
        BY DEF IndexKeys
      <4> QED
        BY <1>5, <4>2, <4>3
    <3> QED
      BY <3>1, <3>2
  <2> QED
    BY <2>4, <2>5, <2>6
<1> QED
  BY <1>8, <1>9 DEF IndexStays
\* The row that a write has read, if it reads one, is the one it writes to.
HasRead(k) == ReadsFirst => IsRowEntry(k.got, k.id) /\ TellsRow(k.id, k.got)

LEMMA ReadIs ==
  ASSUME NEW k, HasRead(k), ReadsFirst
  PROVE  k.id \in DOMAIN rows /\ rows[k.id] = k.got.row
<1>1. k.got = RowEntry(k.got.row)
  BY DEF HasRead, IsRowEntry
<1>2. k.got.kind = "row"
  BY <1>1 DEF RowEntry
<1> QED
  BY <1>2 DEF HasRead, TellsRow

\* The keys of a write to a row are that of the row and those that its values had before.
LEMMA WriteKeys ==
  ASSUME Serving, model.cache, NEW k, CallFor(k), k.step = "exec", k.op \in {"update", "delete"}, HasRead(k), k.id \in DOMAIN rows
  PROVE  /\ PrimaryKey(k.id) \in KeysOf(k)
         /\ \A columns \in Indexes : DataKey(columns, rows[k.id]) \in KeysOf(k)
<1>0. PICK old : old = IF ReadsFirst THEN k.got.row ELSE k.data
  OBVIOUS
<1>1. KeysOf(k) = CASE k.op = "insert" -> InsertKeys(k.data) [] k.op = "update" -> UpdateKeys(old)
                    [] k.op = "delete" -> DeleteKeys(k.id, old)
  BY <1>0 DEF KeysOf
<1>2. k.op = "update" => KeysOf(k) = {PrimaryKey(old[Primary])} \cup IndexKeys(old)
  BY <1>1 DEF UpdateKeys
<1>3. k.op = "delete" => KeysOf(k) = {PrimaryKey(k.id)} \cup IndexKeys(old)
  BY <1>1 DEF DeleteKeys
<1>4. rows[k.id][Primary] = k.id /\ SoundModel(model)
  BY DEF Serving, ServeInv, TableInv, TableIs, IsRow
<1>5. CASE ReadsFirst
  <2>1. old = rows[k.id]
    BY <1>0, <1>5, ReadIs
  <2>2. \A columns \in Indexes : DataKey(columns, old) \in IndexKeys(old)
    BY DEF IndexKeys
  <2> QED
    BY <1>2, <1>3, <1>4, <2>1, <2>2
<1>6. CASE ~ReadsFirst
  <2>1. Indexes = {}
    BY <1>6 DEF ReadsFirst
  <2>2. k.op = "update" => k.data[Primary] = k.id
    BY <1>4, ValuesAre, DataIs DEF CallFor
  <2>3. old = k.data
    BY <1>0, <1>6
  <2> QED
    BY <1>2, <1>3, <2>1, <2>2, <2>3
<1> QED
  BY <1>5, <1>6

LEMMA UpdateStays ==
  ASSUME Serving, model.cache, model' = model, NEW k, CallFor(k), k.step = "exec", k.op = "update", HasRead(k),
         k.id \in DOMAIN rows,
         NEW table, Wrote(k, table), TableIs(table), rows' = table, moved' = moved \cup {k.id}
  PROVE  RowStays(k) /\ IndexStays(k)
<1>1. PICK id \in DOMAIN rows : id = k.id
  OBVIOUS
<1>2. PICK row : UpdatedRow(row, id, k.data, rows[id]) /\ table = Put(rows, id, row)
  BY <1>1 DEF Wrote
<1>3. /\ DOMAIN table = DOMAIN rows /\ table[id] = row
      /\ \A i \in DOMAIN rows : i # id => table[i] = rows[i]
  BY <1>1, <1>2 DEF Put
<1>4. PrimaryKey(id) \in KeysOf(k) /\ \A columns \in Indexes : DataKey(columns, rows[id]) \in KeysOf(k)
  BY <1>1, WriteKeys
<1>5. RowStays(k)
  <2>1. ASSUME NEW x \in Ids, NEW e, TellsRow(x, e) PROVE TellsRow(x, e)' \/ PrimaryKey(x) \in KeysOf(k)
    <3>1. CASE x # id
      <4>1. (x \in DOMAIN rows' <=> x \in DOMAIN rows) /\ (x \in DOMAIN rows => rows'[x] = rows[x])
        BY <1>3, <3>1
      <4> QED
        BY <2>1, <4>1, RowTellsOn
    <3>2. CASE x = id
      BY <1>4, <3>2
    <3> QED
      BY <3>1, <3>2
  <2> QED
    BY <2>1 DEF RowStays
<1>6. ASSUME NEW columns \in Indexes, NEW data, NEW e, TellsIndex(columns, data, e)
      PROVE  TellsIndex(columns, data, e)' \/ DataKey(columns, data) \in KeysOf(k)
  <2>1. PICK next : next = Having(columns, data)' /\ next = {x \in DOMAIN table : Matches(table[x], columns, data)}
    BY HavingNext
  <2>2. Having(columns, data) = {x \in DOMAIN rows : Matches(rows[x], columns, data)}
    BY HavingMatch
  <2>3. GivenLater(columns, data)' <=> GivenLater(columns, data)
    BY SameKeys
  <2>4. next \subseteq Having(columns, data) \cup {id}
    BY <1>3, <2>1, <2>2
  <2>5. CASE e.kind = "mark"
    <3>1. Having(columns, data) \subseteq moved => next \subseteq moved'
      BY <1>1, <2>4
    <3> QED
      BY <1>6, <2>1, <2>3, <2>5, <3>1 DEF TellsIndex
  <2>6. CASE e.kind # "mark"
    <3>1. Having(columns, data) = {e.id}
      BY <1>6, <2>6 DEF TellsIndex
    <3>2. CASE e.id = id
      <4>1. Matches(rows[id], columns, data)
        BY <2>2, <3>1, <3>2
      <4>2. DataKey(columns, rows[id]) = DataKey(columns, data)
        BY <4>1, SameKey
      <4> QED
        BY <1>4, <4>2
    <3>3. CASE e.id # id
      <4>1. e.id \in DOMAIN rows /\ Matches(rows[e.id], columns, data)
        BY <2>2, <3>1
      <4>2. e.id \in next
        BY <1>3, <2>1, <3>3, <4>1
      <4>3. id \notin next
        <5>1. SUFFICES ASSUME id \in next PROVE FALSE
          OBVIOUS
        <5>2. e.id = id
          BY <2>1, <4>2, <5>1, TwoMatch
        <5> QED
          BY <3>3, <5>2
      <4>4. next = {e.id}
        BY <2>4, <3>1, <4>2, <4>3
      <4> QED
        BY <2>1, <2>6, <4>4 DEF TellsIndex
    <3> QED
      BY <3>2, <3>3
  <2> QED
    BY <2>5, <2>6
<1> QED
  BY <1>5, <1>6 DEF IndexStays

LEMMA DeleteStays ==
  ASSUME Serving, model.cache, model' = model, NEW k, CallFor(k), k.step = "exec", k.op = "delete", HasRead(k),
         k.id \in DOMAIN rows, NEW table, table = Deleted(k.id), rows' = table, moved' = moved \ {k.id}
  PROVE  RowStays(k) /\ IndexStays(k)
<1>1. PICK id \in DOMAIN rows : id = k.id
  OBVIOUS
<1>2. DOMAIN table = DOMAIN rows \ {id} /\ \A i \in DOMAIN table : table[i] = rows[i]
  BY <1>1 DEF Deleted
<1>3. PrimaryKey(id) \in KeysOf(k) /\ \A columns \in Indexes : DataKey(columns, rows[id]) \in KeysOf(k)
  BY <1>1, WriteKeys
<1>4. RowStays(k)
  <2>1. ASSUME NEW x \in Ids, NEW e, TellsRow(x, e) PROVE TellsRow(x, e)' \/ PrimaryKey(x) \in KeysOf(k)
    <3>1. CASE x # id
      <4>1. (x \in DOMAIN rows' <=> x \in DOMAIN rows) /\ (x \in DOMAIN rows => rows'[x] = rows[x])
        BY <1>2, <3>1
      <4> QED
        BY <2>1, <4>1, RowTellsOn
    <3>2. CASE x = id
      BY <1>3, <3>2
    <3> QED
      BY <3>1, <3>2
  <2> QED
    BY <2>1 DEF RowStays
<1>5. ASSUME NEW columns \in Indexes, NEW data, NEW e, TellsIndex(columns, data, e)
      PROVE  TellsIndex(columns, data, e)' \/ DataKey(columns, data) \in KeysOf(k)
  <2>1. PICK next : next = Having(columns, data)' /\ next = {x \in DOMAIN table : Matches(table[x], columns, data)}
    BY HavingNext
  <2>2. Having(columns, data) = {x \in DOMAIN rows : Matches(rows[x], columns, data)}
    BY HavingMatch
  <2>3. GivenLater(columns, data)' <=> GivenLater(columns, data)
    BY SameKeys
  <2>4. next = Having(columns, data) \ {id}
    BY <1>2, <2>1, <2>2
  <2>5. CASE e.kind = "mark"
    <3>1. Having(columns, data) \subseteq moved => next \subseteq moved'
      BY <1>1, <2>4
    <3> QED
      BY <1>5, <2>1, <2>3, <2>5, <3>1 DEF TellsIndex
  <2>6. CASE e.kind # "mark"
    <3>1. Having(columns, data) = {e.id}
      BY <1>5, <2>6 DEF TellsIndex
    <3>2. CASE e.id = id
      <4>1. Matches(rows[id], columns, data)
        BY <2>2, <3>1, <3>2
      <4>2. DataKey(columns, rows[id]) = DataKey(columns, data)
        BY <4>1, SameKey
      <4> QED
        BY <1>3, <4>2
    <3>3. CASE e.id # id
      <4>1. next = {e.id}
        BY <2>4, <3>1, <3>3
      <4> QED
        BY <2>1, <2>6, <4>1 DEF TellsIndex
    <3> QED
      BY <3>2, <3>3
  <2> QED
    BY <2>5, <2>6
<1> QED
  BY <1>4, <1>5 DEF IndexStays
LEMMA QuietExecTells ==
  ASSUME Serving, Told, NEW c \in Clients, NEW k, k = call[c], Step(c, "exec"), NEW table,
         Executing(c, k, table), Wrote(k, table), table = rows, cache' = cache
  PROVE  Told'
<1>1. IsCall(k) /\ k.step = "exec"
  BY AtStep
<1>2. PICK n : n = IF model.cache THEN [k EXCEPT !.step = "del"] ELSE NoCall
  OBVIOUS
<1>3. n.step \in {"del", "idle"}
  BY <1>1, <1>2 DEF IsCall, NoCall
<1>4. Accurate(c, n)
  BY <1>3, UnreadTells
<1>5. k.op # "update" => k.id \notin DOMAIN rows
  <2>1. k.op # "insert"
    <3>1. SUFFICES ASSUME k.op = "insert" PROVE FALSE
      OBVIOUS
    <3>2. PICK id \in Ids \ DOMAIN rows : \E row : table = Put(rows, id, row)
      BY <3>1 DEF Wrote
    <3>3. id \in DOMAIN table
      <4>1. PICK row : table = Put(rows, id, row)
        BY <3>2
      <4> QED
        BY <4>1 DEF Put
    <3> QED
      BY <3>2, <3>3
  <2>2. CASE k.op = "delete"
    <3>1. rows = Deleted(k.id)
      BY <2>2 DEF Wrote
    <3> QED
      BY <3>1 DEF Deleted
  <2> QED
    BY <2>1, <2>2 DEF Wrote
<1>6. /\ rows' = rows /\ Goto(c, n)
      /\ moved' = IF k.op = "update" THEN moved \cup {k.id} ELSE moved \ {k.id}
  BY <1>2 DEF Executing
<1>7. moved \cap DOMAIN rows \subseteq moved'
  BY <1>5, <1>6
<1>8. QuietStep(c, n)
  BY <1>1, <1>6, <1>7, GotoIs DEF QuietStep
<1> QED
  BY <1>4, <1>8, QuietShrink

LEMMA DeleteNothing ==
  ASSUME Serving, model' = model, NEW k, k.id \notin DOMAIN rows,
         NEW table, table = Deleted(k.id), rows' = table, moved' = moved \ {k.id}
  PROVE  RowStays(k) /\ IndexStays(k)
<1>1. DOMAIN table = DOMAIN rows /\ \A i \in DOMAIN table : table[i] = rows[i]
  BY DEF Deleted
<1>2. RowStays(k)
  <2>1. \A x : (x \in DOMAIN rows' <=> x \in DOMAIN rows) /\ (x \in DOMAIN rows => rows'[x] = rows[x])
    BY <1>1
  <2> QED
    BY <2>1, RowTellsOn DEF RowStays
<1>3. ASSUME NEW columns \in Indexes, NEW data, NEW e, TellsIndex(columns, data, e)
      PROVE  TellsIndex(columns, data, e)'
  <2>1. PICK next : next = Having(columns, data)' /\ next = {x \in DOMAIN table : Matches(table[x], columns, data)}
    BY HavingNext
  <2>2. Having(columns, data) = {x \in DOMAIN rows : Matches(rows[x], columns, data)}
    BY HavingMatch
  <2>3. GivenLater(columns, data)' <=> GivenLater(columns, data)
    BY SameKeys
  <2>4. next = Having(columns, data)
    BY <1>1, <2>1, <2>2
  <2>5. Having(columns, data) \subseteq moved => next \subseteq moved'
    BY <2>2, <2>4
  <2> QED
    BY <1>3, <2>1, <2>3, <2>4, <2>5 DEF TellsIndex
<1> QED
  BY <1>2, <1>3 DEF IndexStays

LEMMA WriteStays ==
  ASSUME Serving, model.cache, model' = model, NEW k, CallFor(k), k.step = "exec",
         k.op \in {"update", "delete"} => HasRead(k),
         NEW table, Wrote(k, table), TableIs(table), table # rows, rows' = table,
         moved' = IF k.op = "update" THEN moved \cup {k.id} ELSE moved \ {k.id}
  PROVE  RowStays(k) /\ IndexStays(k)
<1>1. CASE k.op = "insert"
  BY <1>1, InsertStays
<1>2. CASE k.op = "update"
  <2>1. k.id \in DOMAIN rows
    BY <1>2 DEF Wrote
  <2> QED
    BY <1>2, <2>1, UpdateStays
<1>3. CASE k.op = "delete"
  <2>1. table = Deleted(k.id)
    BY <1>3 DEF Wrote
  <2>2. CASE k.id \in DOMAIN rows
    BY <1>3, <2>1, <2>2, DeleteStays
  <2>3. CASE k.id \notin DOMAIN rows
    BY <1>3, <2>1, <2>3, DeleteNothing
  <2> QED
    BY <2>2, <2>3
<1> QED
  BY <1>1, <1>2, <1>3 DEF Wrote

\* A key in the cache is told of, or the write at hand is about to delete it.
LEMMA LoudCache ==
  ASSUME Serving, Told, model' = model, cache' = cache, \A key : ~Pending(key),
         NEW k, RowStays(k), IndexStays(k), \A key \in KeysOf(k) : Pending(key)'
  PROVE  RowsTold' /\ IndexesTold'
<1>1. Indexes' = Indexes /\ (\A id : PrimaryKey(id)' = PrimaryKey(id))
      /\ (\A columns : Sought(columns)' = Sought(columns))
      /\ (\A columns, data : DataKey(columns, data)' = DataKey(columns, data))
      /\ \A columns, data : Telling(columns, data)' <=> Telling(columns, data)
  BY SameModel, SameKeys
<1>2. RowsTold'
  <2>1. ASSUME NEW id \in Ids, NEW key, key = PrimaryKey(id), key \in DOMAIN cache, NEW e, e = cache[key]
        PROVE  TellsRow(id, e)' \/ Pending(key)'
    <3>1. TellsRow(id, e)
      BY <2>1 DEF Told, RowsTold
    <3> QED
      BY <2>1, <3>1 DEF RowStays
  <2> QED
    BY <1>1, <2>1 DEF RowsTold
<1>3. IndexesTold'
  <2>1. ASSUME NEW columns \in Indexes, NEW data \in Sought(columns), NEW key, key = DataKey(columns, data),
               key \in DOMAIN cache, Telling(columns, data), NEW e, e = cache[key]
        PROVE  TellsIndex(columns, data, e)' \/ Pending(key)'
    <3>1. TellsIndex(columns, data, e)
      BY <2>1 DEF Told, IndexesTold
    <3> QED
      BY <2>1, <3>1 DEF IndexStays
  <2> QED
    BY <1>1, <2>1 DEF IndexesTold
<1> QED
  BY <1>2, <1>3

LEMMA LoudExecTells ==
  ASSUME Serving, Told, NEW c \in Clients, NEW k, k = call[c], Step(c, "exec"), NEW table,
         Executing(c, k, table), Wrote(k, table), TableIs(table), table # rows, ~Halfway(c), cache' = cache
  PROVE  Told'
<1>1. IsCall(k) /\ CallFor(k) /\ CallGot(k) /\ k.step = "exec"
  BY AtStep
<1>2. PICK n : n = IF model.cache THEN [k EXCEPT !.step = "del"] ELSE NoCall
  OBVIOUS
<1>3. /\ rows' = table /\ Goto(c, n)
      /\ moved' = IF k.op = "update" THEN moved \cup {k.id} ELSE moved \ {k.id}
  BY <1>2 DEF Executing
<1>4. model' = model /\ call' = [call EXCEPT ![c] = n]
  BY <1>3, GotoIs
<1>5. \A o \in Clients : call'[o] = IF o = c THEN n ELSE call[o]
  BY <1>4 DEF Serving
<1>6. \A o \in Clients \ {c} : call[o].step \notin {"fill", "fillFound", "fillIndex", "exec", "del"}
  BY DEF Halfway, OthersAt
<1>7. n.step \in {"del", "idle"} /\ (model.cache => n.step = "del")
  BY <1>1, <1>2 DEF IsCall, NoCall
<1>8. (\A o \in Clients : Accurate(o, call[o]))'
  <2>1. ASSUME NEW o \in Clients PROVE Accurate(o, call[o])'
    <3>1. PICK x : x = call'[o]
      OBVIOUS
    <3>2. x.step \notin {"fill", "fillFound", "fillIndex", "exec"}
      BY <1>5, <1>6, <1>7, <3>1
    <3>3. Accurate(o, x)'
      BY <3>2 DEF Accurate
    <3> QED
      BY <3>1, <3>3
  <2> QED
    BY <2>1
<1>9. CASE ~model.cache
  <2>1. DOMAIN cache' = {}
    BY <1>9 DEF Serving, ServeInv, CacheInv
  <2>2. RowsTold' /\ IndexesTold'
    BY <2>1 DEF RowsTold, IndexesTold
  <2> QED
    BY <1>8, <2>2 DEF Told
<1>10. CASE model.cache
  <2>1. \A key : ~Pending(key)
    BY <1>1, <1>6 DEF Pending
  <2>2. k.op \in {"update", "delete"} => HasRead(k)
    <3>1. SUFFICES ASSUME k.op \in {"update", "delete"}, ReadsFirst PROVE IsRowEntry(k.got, k.id) /\ TellsRow(k.id, k.got)
      BY DEF HasRead
    <3>2. IsRowEntry(k.got, k.id)
      BY <1>1, <3>1 DEF CallGot
    <3>3. Accurate(c, k)
      BY DEF Told
    <3>4. TellsRow(k.id, k.got)
      BY <1>1, <1>6, <3>1, <3>3 DEF Accurate
    <3> QED
      BY <3>2, <3>4
  <2>3. RowStays(k) /\ IndexStays(k)
    BY <1>1, <1>3, <1>4, <1>10, <2>2, WriteStays
  <2>4. ASSUME NEW key \in KeysOf(k) PROVE Pending(key)'
    <3>1. IsCall(n) /\ n.op = k.op /\ n.step = "del" /\ n.data = k.data /\ n.id = k.id /\ n.got = k.got
      BY <1>1, <1>2, <1>10 DEF IsCall
    <3>2. KeysOf(n) = KeysOf(k)
      BY <3>1 DEF KeysOf
    <3>3. KeysOf(n)' = KeysOf(n)
      BY <1>4, SameKeys
    <3>4. call'[c] = n
      BY <1>5
    <3>5. key \in KeysOf(n)'
      BY <3>2, <3>3
    <3> QED
      BY <3>1, <3>4, <3>5 DEF Pending
  <2>5. RowsTold' /\ IndexesTold'
    BY <1>4, <2>1, <2>3, <2>4, LoudCache
  <2> QED
    BY <1>8, <2>5 DEF Told
<1> QED
  BY <1>9, <1>10

LEMMA ExecTells ==
  ASSUME Serving, calm => Told, NEW c \in Clients, Exec(c), calm'
  PROVE  Told'
<1>1. PICK k : k = call[c]
  OBVIOUS
<1>2. Step(c, "exec") /\ (k.op = "insert" /\ model.table.auto => lastId < MaxId) /\ cache' = cache
  BY <1>1, ExecIs
<1>3. CASE Refused(c, k)
  <2>1. Goto(c, NoCall) /\ UNCHANGED <<rows, calm, moved>>
    BY <1>3 DEF Refused
  <2>2. call[c].step = "exec"
    BY <1>2 DEF Step
  <2>3. QuietStep(c, NoCall)
    BY <2>1, <2>2, GotoIs DEF QuietStep
  <2>4. Told
    BY <2>1
  <2> QED
    BY <1>2, <2>3, <2>4, NoCallTells, QuietShrink
<1>4. ASSUME NEW table, Executing(c, k, table) PROVE Told'
  <2>1. CallFor(k) /\ k.step = "exec"
    BY <1>1, <1>2, AtStep
  <2>2. Wrote(k, table) /\ TableIs(table)
    BY <1>2, <1>4, <2>1, Executes DEF Executing, Serving, ServeInv
  <2>3. Told /\ (table = rows \/ ~Halfway(c))
    BY <1>4 DEF Executing
  <2>4. CASE table = rows
    BY <1>1, <1>2, <1>4, <2>2, <2>3, <2>4, QuietExecTells
  <2>5. CASE table # rows
    BY <1>1, <1>2, <1>4, <2>2, <2>3, <2>5, LoudExecTells
  <2> QED
    BY <2>4, <2>5
<1> QED
  BY <1>1, <1>3, <1>4, ExecIs

-----------------------------------------------------------------------------
(* The cache tells the truth *)

LEMMA TellFrame ==
  ASSUME model' = model, rows' = rows, moved' = moved
  PROVE  /\ \A id, e : TellsRow(id, e) => TellsRow(id, e)'
         /\ \A columns, data, e : TellsIndex(columns, data, e) => TellsIndex(columns, data, e)'
         /\ \A columns, data : Having(columns, data)' = Having(columns, data)
<1>1. \A id, e : TellsRow(id, e) => TellsRow(id, e)'
  BY RowTellsOn
<1>2. \A columns, data, e : TellsIndex(columns, data, e) => TellsIndex(columns, data, e)'
  BY IndexTellsOn
<1>3. \A columns, data : Having(columns, data)' = Having(columns, data)
  BY DEF Having
<1> QED
  BY <1>1, <1>2, <1>3

\* Keys leave the cache; a deletion is over once its keys have left.
LEMMA ShrinkTells ==
  ASSUME Told, model' = model, rows' = rows, moved' = moved,
         \A key \in DOMAIN cache' :
            key \in DOMAIN cache /\ cache'[key] = cache[key] /\ (Pending(key) => Pending(key)')
  PROVE  RowsTold' /\ IndexesTold'
<1>0. PICK next : next = cache'
  OBVIOUS
<1>1. /\ \A id, e : TellsRow(id, e) => TellsRow(id, e)'
      /\ \A columns, data, e : TellsIndex(columns, data, e) => TellsIndex(columns, data, e)'
  BY TellFrame
<1>2. Indexes' = Indexes /\ (\A id : PrimaryKey(id)' = PrimaryKey(id))
      /\ (\A columns : Sought(columns)' = Sought(columns))
      /\ (\A columns, data : DataKey(columns, data)' = DataKey(columns, data))
      /\ \A columns, data : Telling(columns, data)' <=> Telling(columns, data)
  BY SameModel, SameKeys
<1>3. RowsTold'
  <2>1. ASSUME NEW id \in Ids, NEW key, key = PrimaryKey(id), key \in DOMAIN next, NEW e, e = next[key]
        PROVE  TellsRow(id, e)' \/ Pending(key)'
    <3>1. key \in DOMAIN cache /\ e = cache[key] /\ (Pending(key) => Pending(key)')
      BY <1>0, <2>1
    <3>2. TellsRow(id, e) \/ Pending(key)
      BY <2>1, <3>1 DEF Told, RowsTold
    <3> QED
      BY <1>1, <3>1, <3>2
  <2> QED
    BY <1>0, <1>2, <2>1 DEF RowsTold
<1>4. IndexesTold'
  <2>1. ASSUME NEW columns \in Indexes, NEW data \in Sought(columns), NEW key, key = DataKey(columns, data),
               key \in DOMAIN next, Telling(columns, data), NEW e, e = next[key]
        PROVE  TellsIndex(columns, data, e)' \/ Pending(key)'
    <3>1. key \in DOMAIN cache /\ e = cache[key] /\ (Pending(key) => Pending(key)')
      BY <1>0, <2>1
    <3>2. TellsIndex(columns, data, e) \/ Pending(key)
      BY <2>1, <3>1 DEF Told, IndexesTold
    <3> QED
      BY <1>1, <3>1, <3>2
  <2> QED
    BY <1>0, <1>2, <2>1 DEF IndexesTold
<1> QED
  BY <1>3, <1>4

LEMMA DelCacheTells ==
  ASSUME Serving, Told, NEW c \in Clients, DelCache(c), ~OthersAt(c, {"exec"})
  PROVE  Told'
<1>1. UNCHANGED <<rows, moved>> /\ Goto(c, NoCall) /\ call[c].step = "del"
      /\ cache' = [key \in DOMAIN cache \ KeysOf(call[c]) |-> cache[key]]
  BY DEF DelCache, Step
<1>2. model' = model /\ call' = [call EXCEPT ![c] = NoCall]
  BY <1>1, GotoIs
<1>3. \A o \in Clients : call'[o] = IF o = c THEN NoCall ELSE call[o]
  BY <1>2 DEF Serving
<1>4. \A k : KeysOf(k)' = KeysOf(k)
  BY <1>2, SameKeys
<1>5. ASSUME NEW key \in DOMAIN cache'
      PROVE  key \in DOMAIN cache /\ cache'[key] = cache[key] /\ (Pending(key) => Pending(key)')
  <2>1. key \in DOMAIN cache /\ cache'[key] = cache[key] /\ key \notin KeysOf(call[c])
    BY <1>1, <1>5
  <2>2. ASSUME Pending(key) PROVE Pending(key)'
    <3>1. PICK o \in Clients : call[o].step = "del" /\ key \in KeysOf(call[o])
      BY <2>2 DEF Pending
    <3>2. PICK k : k = call[o] /\ k = call'[o]
      BY <1>3, <2>1, <3>1
    <3>3. key \in KeysOf(k)'
      BY <1>4, <3>1, <3>2
    <3> QED
      BY <3>1, <3>2, <3>3 DEF Pending
  <2> QED
    BY <2>1, <2>2
<1>6. RowsTold' /\ IndexesTold'
  BY <1>1, <1>2, <1>5, ShrinkTells
<1>7. /\ \A id, e : TellsRow(id, e) => TellsRow(id, e)'
      /\ \A columns, data, e : TellsIndex(columns, data, e) => TellsIndex(columns, data, e)'
      /\ \A columns, data : Having(columns, data)' = Having(columns, data)
  BY <1>1, <1>2, TellFrame
<1>8. Primary' = Primary
  BY <1>2, SameModel
<1>9. ASSUME NEW o \in Clients PROVE Accurate(o, call[o])'
  <2>1. PICK k : k = call'[o]
    OBVIOUS
  <2>2. Accurate(o, k)
    BY <1>3, <2>1, NoCallTells DEF Told
  <2>3. k.step # "exec"
    BY <1>1, <1>3, <2>1 DEF OthersAt, NoCall
  <2>4. (k.step = "fill" => TellsRow(k.id, k.got))'
    BY <1>7, <2>2 DEF Accurate
  <2>5. (k.step = "fillFound" =>
           TellsRow(k.got.row[Primary], k.got) /\ Having(k.columns, k.data) = {k.got.row[Primary]})'
    BY <1>7, <1>8, <2>2 DEF Accurate
  <2>6. (k.step = "fillIndex" => TellsIndex(k.columns, k.data, k.got))'
    BY <1>7, <2>2 DEF Accurate
  <2>7. Accurate(o, k)'
    BY <2>3, <2>4, <2>5, <2>6 DEF Accurate
  <2> QED
    BY <2>1, <2>7
<1> QED
  BY <1>6, <1>9 DEF Told

LEMMA StillTells ==
  ASSUME Told, UNCHANGED <<model, rows, moved, call>>,
         \A key \in DOMAIN cache' : key \in DOMAIN cache /\ cache'[key] = cache[key]
  PROVE  Told'
<1>1. \A k : KeysOf(k)' = KeysOf(k)
  BY SameKeys
<1>2. \A key : Pending(key) => Pending(key)'
  BY <1>1 DEF Pending
<1>3. RowsTold' /\ IndexesTold'
  BY <1>2, ShrinkTells
<1>4. /\ \A id, e : TellsRow(id, e) => TellsRow(id, e)'
      /\ \A columns, data, e : TellsIndex(columns, data, e) => TellsIndex(columns, data, e)'
      /\ \A columns, data : Having(columns, data)' = Having(columns, data)
  BY TellFrame
<1>5. Primary' = Primary /\ ReadsFirst' = ReadsFirst
  BY SameModel
<1>6. ASSUME NEW o \in Clients PROVE Accurate(o, call[o])'
  <2>1. PICK k : k = call[o] /\ k = call'[o]
    OBVIOUS
  <2>2. Accurate(o, k)
    BY <2>1 DEF Told
  <2>3. (k.step = "fill" => TellsRow(k.id, k.got))'
    BY <1>4, <2>2 DEF Accurate
  <2>4. (k.step = "fillFound" =>
           TellsRow(k.got.row[Primary], k.got) /\ Having(k.columns, k.data) = {k.got.row[Primary]})'
    BY <1>4, <1>5, <2>2 DEF Accurate
  <2>5. (k.step = "fillIndex" => TellsIndex(k.columns, k.data, k.got))'
    BY <1>4, <2>2 DEF Accurate
  <2>6. (k.step = "exec" /\ k.op \in {"update", "delete"} /\ ReadsFirst =>
           TellsRow(k.id, k.got) \/ \E p \in Clients \ {o} : call[p].step = "del")'
    BY <1>4, <1>5, <2>2 DEF Accurate
  <2>7. Accurate(o, k)'
    BY <2>3, <2>4, <2>5, <2>6 DEF Accurate
  <2> QED
    BY <2>1, <2>7
<1> QED
  BY <1>3, <1>6 DEF Told

LEMMA ServiceStepTells ==
  ASSUME Serving, calm => Told, NEW c \in Clients, Method(c) \/ Conn(c) \/ Crash(c), calm'
  PROVE  Told'
<1>1. CASE Method(c)
  <2>1. calm' = calm
    <3>1. \A k : Begin(c, k) => calm' = calm
      BY DEF Begin
    <3>2. FindOne(c) => calm' = calm
      BY <3>1 DEF FindOne
    <3>3. FindOneByField(c) => calm' = calm
      BY <3>1 DEF FindOneByField
    <3>4. Insert(c) => calm' = calm
      BY <3>1 DEF Insert
    <3>5. Update(c) => calm' = calm
      BY <3>1 DEF Update
    <3>6. Delete(c) => calm' = calm
      BY <3>1 DEF Delete
    <3> QED
      BY <1>1, <3>2, <3>3, <3>4, <3>5, <3>6 DEF Method
  <2> QED
    BY <1>1, <2>1, MethodTells
<1>2. CASE QueryPrimary(c)
  BY <1>2, QueryPrimaryTells DEF QueryPrimary
<1>3. CASE FillPrimary(c)
  BY <1>3, FillPrimaryTells DEF FillPrimary
<1>4. CASE QueryIndex(c)
  BY <1>4, QueryIndexTells DEF QueryIndex
<1>5. CASE FillFound(c)
  BY <1>5, FillFoundTells DEF FillFound
<1>6. CASE FillIndex(c)
  BY <1>6, FillIndexTells DEF FillIndex
<1>7. CASE Exec(c)
  BY <1>7, ExecTells
<1>8. CASE DelCache(c)
  BY <1>8, DelCacheTells DEF DelCache
<1>9. CASE Crash(c)
  BY <1>9, CrashTells DEF Crash
<1> QED
  BY <1>1, <1>2, <1>3, <1>4, <1>5, <1>6, <1>7, <1>8, <1>9 DEF Conn

LEMMA CalmIs == CalmInv <=> (calm /\ model # None => Told)
  BY DEF CalmInv, Told

LEMMA CalmNext ==
  ASSUME Inv, CalmInv, [Next]_vars
  PROVE  CalmInv'
<1>0. SUFFICES ASSUME calm', model' # None PROVE Told'
  BY DEF CalmInv, Told
<1>1. CASE model = None /\ GenNext /\ UNCHANGED appVars
  BY <1>0, <1>1 DEF appVars
<1>2. ASSUME NEW n \in DOMAIN dir, Build(n) PROVE Told'
  <2>1. Idle
    BY <1>2 DEF Inv, Build
  <2>2. DOMAIN cache' = {} /\ \A c \in Clients : call'[c] = NoCall
    BY <1>2, <2>1 DEF Idle, Build
  <2>3. (\A c \in Clients : Accurate(c, call[c]))'
    BY <2>2 DEF Accurate, NoCall
  <2>4. RowsTold' /\ IndexesTold'
    BY <2>2 DEF RowsTold, IndexesTold
  <2> QED
    BY <2>3, <2>4 DEF Told
<1>3. ASSUME model # None, NEW c \in Clients, Method(c) \/ Conn(c) \/ Crash(c) PROVE Told'
  <2>1. Serving
    BY <1>3 DEF Inv, Serving
  <2>2. calm => Told
    BY <1>3, CalmIs
  <2> QED
    BY <1>0, <1>3, <2>1, <2>2, ServiceStepTells
<1>4. ASSUME NEW key \in DOMAIN cache, Expire(key) PROVE Told'
  <2>1. calm /\ model # None /\ UNCHANGED <<model, rows, moved, call>>
        /\ cache' = [k \in DOMAIN cache \ {key} |-> cache[k]]
    BY <1>0, <1>4 DEF Expire
  <2>2. Told
    BY <2>1, CalmIs
  <2> QED
    BY <2>1, <2>2, StillTells
<1>5. CASE UNCHANGED vars
  <2>1. calm /\ model # None /\ UNCHANGED <<model, rows, moved, call, cache>>
    BY <1>0, <1>5 DEF vars, appVars
  <2>2. Told
    BY <2>1, CalmIs
  <2> QED
    BY <2>1, <2>2, StillTells
<1> QED
  BY <1>1, <1>2, <1>3, <1>4, <1>5 DEF Next

LEMMA CalmTells ==
  ASSUME CalmInv
  PROVE  CacheTellsTruth
<1>1. SUFFICES ASSUME calm, model # None, \A c \in Clients : call[c] = NoCall
               PROVE  /\ \A id \in Ids : PrimaryKey(id) \in DOMAIN cache =>
                           TellsRow(id, cache[PrimaryKey(id)])
                      /\ \A columns \in Indexes : \A data \in Sought(columns) :
                           DataKey(columns, data) \in DOMAIN cache /\ Telling(columns, data) =>
                             TellsIndex(columns, data, cache[DataKey(columns, data)])
  BY DEF CacheTellsTruth, TellsRow, TellsIndex, Telling, Picked
<1>2. Told
  BY <1>1, CalmIs
<1>3. \A key : ~Pending(key)
  BY <1>1 DEF Pending, NoCall
<1> QED
  BY <1>2, <1>3 DEF Told, RowsTold, IndexesTold

\* When no call is under way, and no write met another call halfway or lost its deletions,
\* what the cache says of an id or of the values of an index is what the table has: what a
\* write makes untrue is among the keys that the generated code goes on to delete.
THEOREM ServicesCacheTruth == Spec => []CacheTellsTruth
<1>1. Init => CalmInv
  BY DEF Init, CalmInv
<1>2. Inv /\ CalmInv /\ [Next]_vars => CalmInv'
  BY CalmNext
<1>3. CalmInv => CacheTellsTruth
  BY CalmTells
<1> QED
  BY <1>1, <1>2, <1>3, ServicesStayTyped, PTL DEF Spec

-----------------------------------------------------------------------------
(* What pieces are laid out to *)

\* Exactly one element of a sequence is in a set.
Once(s, T) == \E x \in 1..Len(s) : s[x] \in T /\ \A y \in 1..Len(s) : s[y] \in T => y = x
Never(s, T) == \A y \in 1..Len(s) : s[y] \notin T

\* If one piece has it once and the others never, what they are laid out to has it once.
LEMMA FlattenOnce ==
  ASSUME NEW S, NEW seqs \in Seq(Seq(S)), NEW T, NEW b \in 1..Len(seqs), Once(seqs[b], T),
         \A d \in 1..Len(seqs) : d # b => Never(seqs[d], T)
  PROVE  Once(FlattenSeq(seqs), T)
<1>1. PICK m \in Nat : m = Len(seqs)
  BY LenProperties
<1>2. PICK s \in Seq(S) : s = FlattenSeq(seqs)
  BY FlattenLays
<1>3. PICK row, col : LaidOut(seqs, m, s, row, col)
  BY <1>1, <1>2, FlattenLays
<1>4. PICK k \in 1..Len(seqs[b]) : seqs[b][k] \in T /\ \A j \in 1..Len(seqs[b]) : seqs[b][j] \in T => j = k
  BY DEF Once
<1>5. PICK x \in 1..Len(s) : row[x] = b /\ col[x] = k
  BY <1>1, <1>3, PlaceOf
<1>6. s[x] \in T
  BY <1>3, <1>4, <1>5, PieceOf
<1>7. ASSUME NEW y \in 1..Len(s), s[y] \in T PROVE row[y] = b /\ col[y] = k /\ b \in Nat /\ k \in Nat
  <2>1. row[y] \in 1..m /\ col[y] \in 1..Len(seqs[row[y]]) /\ s[y] = seqs[row[y]][col[y]]
    BY <1>3, PieceOf
  <2>2. row[y] = b
    BY <1>1, <1>7, <2>1 DEF Never
  <2>3. Len(seqs[b]) \in Nat
    <3>1. seqs[b] \in Seq(S)
      BY <1>1
    <3> QED
      BY <3>1, LenProperties
  <2> QED
    BY <1>4, <1>7, <2>1, <2>2, <2>3
<1>8. ASSUME NEW y \in 1..Len(s), s[y] \in T PROVE y = x
  <2>1. row[y] = b /\ col[y] = k /\ b \in Nat /\ k \in Nat
    BY <1>7, <1>8
  <2>2. ~(b < b) /\ ~(k < k)
    BY <2>1
  <2>3. ~(x < y)
    <3>1. x < y => row[x] < row[y] \/ (row[x] = row[y] /\ col[x] < col[y])
      BY <1>3, InOrder
    <3> QED
      BY <1>5, <2>1, <2>2, <3>1
  <2>4. ~(y < x)
    <3>1. y < x => row[y] < row[x] \/ (row[y] = row[x] /\ col[y] < col[x])
      BY <1>3, InOrder
    <3> QED
      BY <1>5, <2>1, <2>2, <3>1
  <2>5. x \in Nat /\ y \in Nat
    BY <1>2, LenProperties
  <2> QED
    BY <2>3, <2>4, <2>5
<1> QED
  BY <1>2, <1>5, <1>6, <1>8 DEF Once

\* One piece with one element, and the others empty.
LEMMA FlattenSingle ==
  ASSUME NEW S, NEW seqs \in Seq(Seq(S)), NEW v \in S, NEW b \in 1..Len(seqs), seqs[b] = <<v>>,
         \A d \in 1..Len(seqs) : d # b => seqs[d] = << >>
  PROVE  FlattenSeq(seqs) = <<v>>
<1>1. PICK s \in Seq(S) : s = FlattenSeq(seqs)
  BY FlattenLays
<1>2. Once(seqs[b], S) /\ Once(seqs[b], {v})
  <2>1. Len(<<v>>) = 1 /\ <<v>>[1] = v
    OBVIOUS
  <2> QED
    BY <2>1 DEF Once
<1>3. \A d \in 1..Len(seqs) : d # b => Never(seqs[d], S) /\ Never(seqs[d], {v})
  <2>1. Len(<< >>) = 0
    OBVIOUS
  <2> QED
    BY <2>1 DEF Never
<1>4. Once(s, S) /\ Once(s, {v})
  BY <1>1, <1>2, <1>3, FlattenOnce
<1>5. PICK x \in 1..Len(s) : \A y \in 1..Len(s) : s[y] \in S => y = x
  BY <1>4 DEF Once
<1>6. Len(s) \in Nat /\ \A y \in 1..Len(s) : s[y] \in S
  BY LenProperties
<1>7. \A y \in 1..Len(s) : y = x
  BY <1>5, <1>6
<1>8. Len(s) = 1
  <2>1. 1 \in 1..Len(s) /\ Len(s) \in 1..Len(s)
    BY <1>6
  <2>2. 1 = x /\ Len(s) = x
    BY <1>7, <2>1
  <2> QED
    BY <2>2
<1>9. s[1] = v
  BY <1>4, <1>8 DEF Once
<1> QED
  BY <1>1, <1>8, <1>9

\* A sequence of single elements.
LEMMA FlattenSingles ==
  ASSUME NEW S, NEW u \in Seq(S)
  PROVE  FlattenSeq([i \in 1..Len(u) |-> <<u[i]>>]) = u
<1>1. PICK n \in Nat : n = Len(u) /\ DOMAIN u = 1..n /\ \A i \in 1..n : u[i] \in S
  BY LenProperties
<1>2. PICK seqs \in Seq(Seq(S)) : seqs = [i \in 1..n |-> <<u[i]>>] /\ Len(seqs) = n
  <2>1. ASSUME NEW i \in 1..n PROVE <<u[i]>> \in Seq(S)
    <3>1. PICK v \in S : v = u[i]
      BY <1>1
    <3> QED
      BY <3>1
  <2>2. [i \in 1..n |-> <<u[i]>>] \in Seq(Seq(S)) /\ Len([i \in 1..n |-> <<u[i]>>]) = n
    BY <2>1
  <2> QED
    BY <2>2
<1>3. PICK s \in Seq(S) : s = FlattenSeq(seqs)
  BY FlattenLays
<1>4. PICK row, col : LaidOut(seqs, n, s, row, col)
  BY <1>2, <1>3, FlattenLays
<1>5. \A b \in 1..n : Len(seqs[b]) = 1 /\ seqs[b][1] = u[b]
  <2>1. ASSUME NEW b \in 1..n PROVE Len(seqs[b]) = 1 /\ seqs[b][1] = u[b]
    <3>1. seqs[b] = <<u[b]>>
      BY <1>2
    <3> QED
      BY <3>1
  <2> QED
    BY <2>1
<1>6. \A x \in 1..Len(s) : row[x] \in 1..n /\ col[x] = 1 /\ s[x] = u[row[x]]
  <2>1. ASSUME NEW x \in 1..Len(s) PROVE row[x] \in 1..n /\ col[x] = 1 /\ s[x] = u[row[x]]
    <3>1. row[x] \in 1..n /\ col[x] \in 1..Len(seqs[row[x]]) /\ s[x] = seqs[row[x]][col[x]]
      BY <1>4, PieceOf
    <3>2. Len(seqs[row[x]]) = 1 /\ seqs[row[x]][1] = u[row[x]]
      BY <1>5, <3>1
    <3>3. col[x] = 1
      BY <3>1, <3>2
    <3> QED
      BY <3>1, <3>2, <3>3
  <2> QED
    BY <2>1
<1>7. \A b \in 1..n : \E x \in 1..Len(s) : row[x] = b
  <2>1. ASSUME NEW b \in 1..n PROVE \E x \in 1..Len(s) : row[x] = b
    <3>1. 1 \in 1..Len(seqs[b])
      BY <1>5
    <3>2. \E x \in 1..Len(s) : row[x] = b /\ col[x] = 1
      BY <1>4, <3>1 DEF LaidOut
    <3> QED
      BY <3>2
  <2> QED
    BY <2>1
<1>8. \A x, y \in 1..Len(s) : x < y => row[x] < row[y]
  <2>1. ASSUME NEW x \in 1..Len(s), NEW y \in 1..Len(s), x < y PROVE row[x] < row[y]
    <3>1. row[x] < row[y] \/ (row[x] = row[y] /\ col[x] < col[y])
      BY <1>4, <2>1, InOrder
    <3>2. col[x] = 1 /\ col[y] = 1
      BY <1>6
    <3> QED
      BY <3>1, <3>2
  <2> QED
    BY <2>1
<1> DEFINE Bad == {b \in 1..n : ~(b \in 1..Len(s) /\ row[b] = b)}
<1>9. Bad = {}
  <2>1. SUFFICES ASSUME Bad # {} PROVE FALSE
    OBVIOUS
  <2>2. Bad \in SUBSET Nat
    OBVIOUS
  <2>3. PICK b \in Bad : \A c \in Bad : b <= c
    <3> HIDE DEF Bad
    <3> QED
      BY <2>1, <2>2, Least
  <2>4. b \in 1..n
    OBVIOUS
  <2>5. ASSUME NEW c \in 1..n, c < b PROVE c \in 1..Len(s) /\ row[c] = c
    <3>1. c \notin Bad
      <4> HIDE DEF Bad
      <4> QED
        BY <2>2, <2>3, <2>5
    <3> QED
      BY <3>1
  <2>6. PICK x \in 1..Len(s) : row[x] = b
    BY <1>7, <2>4
  <2>7. Len(s) \in Nat /\ x \in Nat /\ b \in Nat
    BY <1>3, <2>4, LenProperties
  <2>8. ~(x < b)
    <3>1. ASSUME x < b PROVE FALSE
      <4>1. x \in 1..n
        BY <2>4, <2>7, <3>1
      <4>2. row[x] = x
        BY <2>5, <3>1, <4>1
      <4> QED
        BY <2>6, <2>7, <3>1, <4>2
    <3> QED
      BY <3>1
  <2>9. b \in 1..Len(s)
    BY <2>4, <2>7, <2>8
  <2>10. ~(b < x)
    <3>1. ASSUME b < x PROVE FALSE
      <4>1. row[b] < b
        BY <1>8, <2>6, <2>9, <3>1
      <4>2. row[b] \in 1..n
        BY <1>6, <2>9
      <4>3. row[b] \in 1..Len(s) /\ row[row[b]] = row[b]
        BY <2>5, <4>1, <4>2
      <4>4. row[b] < b => row[row[b]] < row[b]
        BY <1>8, <2>9, <4>3
      <4> QED
        BY <4>1, <4>2, <4>3, <4>4
    <3> QED
      BY <3>1
  <2>11. x = b
    BY <2>7, <2>8, <2>10
  <2> QED
    BY <2>6, <2>9, <2>11
<1>10. \A b \in 1..n : b \in 1..Len(s) /\ row[b] = b
  BY <1>9
<1> HIDE DEF Bad
<1>11. Len(s) = n
  <2>1. Len(s) \in Nat
    BY LenProperties
  <2>2. n <= Len(s)
    <3>1. n # 0 => n \in 1..n
      OBVIOUS
    <3> QED
      BY <1>10, <2>1, <3>1
  <2>3. ASSUME n < Len(s) PROVE FALSE
    <3>1. PICK x \in 1..Len(s) : x = Len(s)
      BY <2>1, <2>3
    <3>2. row[x] \in 1..n
      BY <1>6
    <3>3. row[x] \in 1..Len(s) /\ row[row[x]] = row[x]
      BY <1>10, <3>2
    <3>4. row[x] < x
      BY <2>1, <2>3, <3>1, <3>2
    <3>5. row[row[x]] < row[x]
      BY <1>8, <3>3, <3>4
    <3> QED
      BY <3>2, <3>3, <3>5
  <2> QED
    BY <2>1, <2>2, <2>3
<1>12. \A b \in 1..n : s[b] = u[b]
  BY <1>6, <1>10
<1>13. s = u
  BY <1>1, <1>11, <1>12, SeqEqual
<1> QED
  BY <1>1, <1>2, <1>3, <1>13

\* The order has every element once.
LEMMA OrderedOnce ==
  ASSUME NEW S, IsFiniteSet(S), NEW x \in S
  PROVE  Once(SetToSeq(S), {x})
<1>1. PICK n \in Nat : n = Cardinality(S) /\ ExistsBijection(1..n, S)
  BY FS_CardinalityType
<1>2. PICK g \in [1..n -> S] : IsInjective(g)
  BY <1>1 DEF ExistsBijection, Bijection, Injection
<1>3. PICK f \in [1..n -> S] : f = SetToSeq(S) /\ IsInjective(f)
  BY <1>1, <1>2 DEF SetToSeq
<1>4. IsFiniteSet(1..n) /\ Cardinality(1..n) = n
  BY FS_Interval
<1>5. f \in Injection(1..n, S)
  BY <1>3 DEF Injection, IsInjective
<1>6. f \in Surjection(1..n, S)
  BY <1>1, <1>4, <1>5, FS_Injection
<1>7. PICK k \in 1..n : f[k] = x
  BY <1>6 DEF Surjection
<1>8. \A j \in 1..n : f[j] = x => j = k
  BY <1>3, <1>7 DEF IsInjective
<1>9. Len(f) = n
  OBVIOUS
<1> QED
  BY <1>3, <1>7, <1>8, <1>9 DEF Once

\* The entries of one index are the ones found.
LEMMA IndexedOnce ==
  ASSUME NEW S, NEW found \in Seq(S), NEW index, NEW T, \A z \in T : z.index = index, Once(found, T)
  PROVE  Once(Indexed(found, index), T)
<1> DEFINE piece == [i \in DOMAIN found |-> IF found[i].index = index THEN <<found[i]>> ELSE << >>]
<1>1. PICK n \in Nat : n = Len(found) /\ DOMAIN found = 1..n /\ \A i \in 1..n : found[i] \in S
  BY LenProperties
<1>2. ASSUME NEW i \in 1..n
      PROVE  /\ piece[i] \in Seq(S)
             /\ found[i] \in T => Once(piece[i], T)
             /\ found[i] \notin T => Never(piece[i], T)
  <2>1. PICK x \in S : x = found[i]
    BY <1>1
  <2>2. CASE x.index = index
    <3>1. piece[i] = <<x>>
      BY <1>1, <2>1, <2>2
    <3>2. <<x>> \in Seq(S) /\ Len(<<x>>) = 1 /\ <<x>>[1] = x
      OBVIOUS
    <3>3. x \in T => Once(<<x>>, T)
      BY <3>2 DEF Once
    <3>4. x \notin T => Never(<<x>>, T)
      BY <3>2 DEF Never
    <3> HIDE DEF piece
    <3> QED
      BY <2>1, <3>1, <3>2, <3>3, <3>4
  <2>3. CASE x.index # index
    <3>1. piece[i] = << >> /\ x \notin T
      BY <1>1, <2>1, <2>3
    <3>2. << >> \in Seq(S) /\ Never(<< >>, T)
      BY DEF Never
    <3> HIDE DEF piece
    <3> QED
      BY <2>1, <3>1, <3>2
  <2> QED
    BY <2>2, <2>3
<1>3. piece = [i \in 1..n |-> piece[i]]
  BY <1>1
<1>4. Indexed(found, index) = FlattenSeq(piece)
  BY DEF Indexed
<1> HIDE DEF piece
<1>5. piece \in Seq(Seq(S)) /\ Len(piece) = n
  BY <1>2, <1>3
<1>6. PICK b \in 1..n : found[b] \in T /\ \A d \in 1..n : found[d] \in T => d = b
  BY <1>1 DEF Once
<1>7. Once(piece[b], T) /\ \A d \in 1..n : d # b => Never(piece[d], T)
  BY <1>2, <1>6
<1> QED
  BY <1>4, <1>5, <1>7, FlattenOnce

\* The column at a place that one entry has.
WithSeq(S, seq) == {z \in S : z.seq = seq}
NamedAt(S, seq, v) == \A z \in S : z.seq = seq => z.column.name = v

LEMMA ColumnAtPlace ==
  ASSUME NEW S, NEW entries \in Seq(S), NEW seq, NEW v,
         Once(entries, WithSeq(S, seq)), NamedAt(S, seq, v)
  PROVE  ColumnsAt(entries, seq) = <<v>>
<1> DEFINE piece == [k \in DOMAIN entries |-> IF entries[k].seq = seq THEN <<entries[k].column.name>> ELSE << >>]
<1>1. PICK n \in Nat : n = Len(entries) /\ DOMAIN entries = 1..n /\ \A i \in 1..n : entries[i] \in S
  BY LenProperties
<1>2. PICK b \in 1..n : entries[b].seq = seq /\ \A d \in 1..n : entries[d].seq = seq => d = b
  <2>1. PICK b \in 1..n : entries[b] \in {z \in S : z.seq = seq}
                          /\ \A d \in 1..n : entries[d] \in {z \in S : z.seq = seq} => d = b
    BY <1>1 DEF Once, WithSeq
  <2> QED
    BY <1>1, <2>1
<1>3. piece[b] = <<v>>
  BY <1>1, <1>2 DEF NamedAt
<1>4. \A d \in 1..n : d # b => piece[d] = << >>
  BY <1>1, <1>2
<1>5. piece = [i \in 1..n |-> piece[i]]
  BY <1>1
<1>6. ColumnsAt(entries, seq) = FlattenSeq(piece)
  BY DEF ColumnsAt
<1> HIDE DEF piece
<1>7. piece \in Seq(Seq({v})) /\ Len(piece) = n
  <2>1. <<v>> \in Seq({v}) /\ << >> \in Seq({v})
    OBVIOUS
  <2>2. \A i \in 1..n : piece[i] \in Seq({v})
    BY <1>3, <1>4, <2>1
  <2> QED
    BY <1>5, <2>2
<1> QED
  BY <1>3, <1>4, <1>6, <1>7, FlattenSingle

-----------------------------------------------------------------------------
(* Both ways to read a table describe it alike *)

\* What FindColumns finds of a column.
Owned(t, i) == {x \in DbIndexes(t) : t.columns[i].name \in Range(x.columns)}
FoundOf(t, i, x) ==
    [column |-> t.columns[i], ordinal |-> i, index |-> x.index, nonUnique |-> x.nonUnique,
     seq |-> CHOOSE s \in DOMAIN x.columns : x.columns[s] = t.columns[i].name]
FoundNone(t, i) == [column |-> t.columns[i], ordinal |-> i, index |-> NoIndex, nonUnique |-> FALSE, seq |-> 0]
FoundPiece(t, i) ==
    IF Owned(t, i) = {} THEN <<FoundNone(t, i)>>
    ELSE [k \in DOMAIN SetToSeq(Owned(t, i)) |-> FoundOf(t, i, SetToSeq(Owned(t, i))[k])]

FoundAt(t, i) == {FoundNone(t, i)} \cup {FoundOf(t, i, x) : x \in Owned(t, i)}
FoundExact(t) == UNION {FoundAt(t, i) : i \in DOMAIN t.columns}

LEMMA OwnedFinite ==
  ASSUME NEW t \in Statement, NEW i
  PROVE  IsFiniteSet(Owned(t, i))
<1>1. Owned(t, i) \in SUBSET DbIndexes(t)
  BY DEF Owned
<1> QED
  BY <1>1, DbIndexesFinite, FS_Subset

LEMMA PieceFound ==
  ASSUME NEW t \in Statement, NEW i
  PROVE  FoundPiece(t, i) \in Seq(FoundAt(t, i))
<1>1. CASE Owned(t, i) = {}
  <2>1. FoundPiece(t, i) = <<FoundNone(t, i)>>
    BY <1>1 DEF FoundPiece
  <2>2. PICK z \in FoundAt(t, i) : z = FoundNone(t, i)
    BY DEF FoundAt
  <2>3. <<z>> \in Seq(FoundAt(t, i))
    OBVIOUS
  <2> QED
    BY <2>1, <2>2, <2>3
<1>2. CASE Owned(t, i) # {}
  <2>1. PICK order \in Seq(Owned(t, i)) : order = SetToSeq(Owned(t, i))
    BY OwnedFinite, OrderedSet
  <2>2. PICK m \in Nat : DOMAIN order = 1..m /\ \A k \in 1..m : order[k] \in Owned(t, i)
    BY LenProperties
  <2>3. FoundPiece(t, i) = [k \in 1..m |-> FoundOf(t, i, order[k])]
    BY <1>2, <2>1, <2>2 DEF FoundPiece
  <2>4. \A k \in 1..m : FoundOf(t, i, order[k]) \in FoundAt(t, i)
    BY <2>2 DEF FoundAt
  <2> QED
    BY <2>3, <2>4
<1> QED
  BY <1>1, <1>2

LEMMA FoundPieces ==
  ASSUME NEW t \in Statement
  PROVE  \E seqs \in Seq(Seq(FoundExact(t))) :
            /\ FindColumns(t) = FlattenSeq(seqs)
            /\ DOMAIN t.columns = 1..Len(seqs)
            /\ \A i \in 1..Len(seqs) : seqs[i] = FoundPiece(t, i)
<1>1. PICK n \in Nat : DOMAIN t.columns = 1..n
  BY StatementIs
<1>2. ASSUME NEW i \in 1..n PROVE FoundPiece(t, i) \in Seq(FoundExact(t))
  <2>1. FoundAt(t, i) \subseteq FoundExact(t)
    BY <1>1 DEF FoundExact
  <2> QED
    BY <2>1, PieceFound, SeqMonotonic
<1>3. [i \in 1..n |-> FoundPiece(t, i)] \in Seq(Seq(FoundExact(t))) /\ Len([i \in 1..n |-> FoundPiece(t, i)]) = n
  BY <1>2
<1>4. FindColumns(t) = FlattenSeq([i \in DOMAIN t.columns |-> FoundPiece(t, i)])
  BY DEF FindColumns, FoundPiece, Owned, FoundOf, FoundNone
<1> QED
  BY <1>1, <1>3, <1>4

\* Columns are told apart, and an index of different columns is told from the others.
Apart(t) == \A i, j \in DOMAIN t.columns : t.columns[i].name = t.columns[j].name => i = j
Keyed(t, x) ==
    /\ x \in DbIndexes(t)
    /\ x.index # NoIndex
    /\ \A y \in DbIndexes(t) : y.index = x.index => y = x
    /\ x.columns \in Seq(ColumnNames(t)) /\ x.columns # << >>
    /\ \A r, s \in DOMAIN x.columns : x.columns[r] = x.columns[s] => r = s

AtPlace(t, x, s) == {z \in FoundExact(t) : z.index = x.index /\ z.seq = s}

LEMMA FoundOfIndex ==
  ASSUME NEW t \in Statement, NEW x, Keyed(t, x), NEW i, NEW z \in FoundAt(t, i), z.index = x.index
  PROVE  /\ x \in Owned(t, i) /\ z = FoundOf(t, i, x)
         /\ z.seq \in DOMAIN x.columns /\ x.columns[z.seq] = t.columns[i].name
         /\ z.column = t.columns[i] /\ z.nonUnique = x.nonUnique
<1>1. z # FoundNone(t, i)
  BY DEF Keyed, FoundNone
<1>2. PICK y \in Owned(t, i) : z = FoundOf(t, i, y)
  BY <1>1 DEF FoundAt
<1>3. y \in DbIndexes(t) /\ y.index = z.index
  BY <1>2 DEF Owned, FoundOf
<1>4. y = x
  BY <1>3 DEF Keyed
<1>5. \E s \in DOMAIN x.columns : x.columns[s] = t.columns[i].name
  BY <1>2, <1>4 DEF Owned, Range
<1>6. z.seq = CHOOSE s \in DOMAIN x.columns : x.columns[s] = t.columns[i].name
  BY <1>2, <1>4 DEF FoundOf
<1>7. z.seq \in DOMAIN x.columns /\ x.columns[z.seq] = t.columns[i].name
  BY <1>5, <1>6
<1>8. z.column = t.columns[i] /\ z.nonUnique = x.nonUnique
  BY <1>2, <1>4 DEF FoundOf
<1> QED
  BY <1>2, <1>4, <1>7, <1>8

LEMMA PlaceHas ==
  ASSUME NEW t \in Statement, NEW x, Keyed(t, x), NEW s \in DOMAIN x.columns, NEW z \in AtPlace(t, x, s)
  PROVE  z.column \in Range(t.columns) /\ z.column.name = x.columns[s] /\ z.nonUnique = x.nonUnique
<1>1. z \in FoundExact(t) /\ z.index = x.index /\ z.seq = s
  BY DEF AtPlace
<1>2. PICK i \in DOMAIN t.columns : z \in FoundAt(t, i)
  BY <1>1 DEF FoundExact
<1> QED
  BY <1>1, <1>2, FoundOfIndex, StatementIs

\* Each place of an index is found once: with the column that is there.
LEMMA FoundOnce ==
  ASSUME NEW t \in Statement, Apart(t), NEW x, Keyed(t, x), NEW s \in DOMAIN x.columns
  PROVE  Once(FindColumns(t), AtPlace(t, x, s))
<1> DEFINE T == AtPlace(t, x, s)
<1>1. PICK seqs \in Seq(Seq(FoundExact(t))) :
         /\ FindColumns(t) = FlattenSeq(seqs)
         /\ DOMAIN t.columns = 1..Len(seqs)
         /\ \A i \in 1..Len(seqs) : seqs[i] = FoundPiece(t, i)
  BY FoundPieces
<1>2. PICK b \in 1..Len(seqs) : t.columns[b].name = x.columns[s]
  <2>1. x.columns[s] \in ColumnNames(t)
    <3>1. PICK cols \in Seq(ColumnNames(t)) : cols = x.columns
      BY DEF Keyed
    <3> QED
      BY <3>1
  <2> QED
    BY <1>1, <2>1 DEF ColumnNames, Range
<1>3. ASSUME NEW i \in 1..Len(seqs), NEW z \in FoundAt(t, i), z \in T PROVE i = b /\ z = FoundOf(t, b, x)
  <2>1. z.index = x.index /\ z.seq = s
    BY <1>3 DEF AtPlace
  <2>2. x.columns[s] = t.columns[i].name /\ z = FoundOf(t, i, x)
    BY <2>1, FoundOfIndex
  <2>3. i = b
    BY <1>1, <1>2, <2>2 DEF Apart
  <2> QED
    BY <2>2, <2>3
<1>4. x \in Owned(t, b)
  BY <1>2 DEF Owned, Keyed, Range
<1>5. FoundOf(t, b, x) \in T
  <2>1. FoundOf(t, b, x) \in FoundExact(t)
    <3>1. FoundOf(t, b, x) \in FoundAt(t, b)
      BY <1>4 DEF FoundAt
    <3> QED
      BY <1>1, <3>1 DEF FoundExact
  <2>2. PICK r : r = CHOOSE z \in DOMAIN x.columns : x.columns[z] = t.columns[b].name
    OBVIOUS
  <2>3. r \in DOMAIN x.columns /\ x.columns[r] = x.columns[s]
    BY <1>2, <2>2
  <2>4. r = s
    BY <2>3 DEF Keyed
  <2>5. FoundOf(t, b, x).index = x.index /\ FoundOf(t, b, x).seq = s
    BY <2>2, <2>4 DEF FoundOf
  <2> QED
    BY <2>1, <2>5 DEF AtPlace
<1>6. PICK order \in Seq(Owned(t, b)) : order = SetToSeq(Owned(t, b))
  BY OwnedFinite, OrderedSet
<1>7. PICK m \in Nat : m = Len(order) /\ DOMAIN order = 1..m /\ \A k \in 1..m : order[k] \in Owned(t, b)
  BY LenProperties
<1>8. seqs[b] = [k \in 1..m |-> FoundOf(t, b, order[k])]
  BY <1>1, <1>4, <1>6, <1>7 DEF FoundPiece
<1>9. Len(seqs[b]) = m /\ \A k \in 1..m : seqs[b][k] = FoundOf(t, b, order[k])
  BY <1>8
<1>10. PICK k \in 1..m : order[k] = x /\ \A j \in 1..m : order[j] = x => j = k
  <2>1. Once(order, {x})
    BY <1>4, <1>6, OwnedFinite, OrderedOnce
  <2> QED
    BY <1>7, <2>1 DEF Once
<1>11. ASSUME NEW j \in 1..m, seqs[b][j] \in T PROVE j = k
  <2>1. FoundOf(t, b, order[j]).index = x.index
    BY <1>9, <1>11 DEF AtPlace
  <2>2. order[j].index = x.index /\ order[j] \in DbIndexes(t)
    BY <1>7, <2>1 DEF FoundOf, Owned
  <2> QED
    BY <1>10, <2>2 DEF Keyed
<1> HIDE DEF T
<1>12. Once(seqs[b], T)
  BY <1>5, <1>9, <1>10, <1>11 DEF Once
<1>13. ASSUME NEW d \in 1..Len(seqs), d # b PROVE Never(seqs[d], T)
  <2>1. PICK q \in Seq(FoundAt(t, d)) : q = seqs[d]
    BY <1>1, PieceFound
  <2>2. \A y \in 1..Len(q) : q[y] \in FoundAt(t, d)
    BY LenProperties
  <2> QED
    BY <1>3, <1>13, <2>1, <2>2 DEF Never
<1>14. Once(FlattenSeq(seqs), T)
  BY <1>12, <1>13, FlattenOnce
<1> QED
  BY <1>1, <1>14 DEF T

LEMMA IndexEntries ==
  ASSUME NEW t \in Statement, Apart(t), NEW x, Keyed(t, x)
  PROVE  /\ Indexed(FindColumns(t), x.index) \in Seq(FoundExact(t))
         /\ \A s \in DOMAIN x.columns : Once(Indexed(FindColumns(t), x.index), AtPlace(t, x, s))
         /\ \A e \in Range(Indexed(FindColumns(t), x.index)) : \E s \in DOMAIN x.columns : e \in AtPlace(t, x, s)
<1>1. FindColumns(t) \in Seq(FoundExact(t))
  BY FoundPieces, FlattenIsSeq
<1>2. Indexed(FindColumns(t), x.index) \in Seq(FoundExact(t))
  BY <1>1, IndexedIs
<1>3. ASSUME NEW s \in DOMAIN x.columns PROVE Once(Indexed(FindColumns(t), x.index), AtPlace(t, x, s))
  <2>1. Once(FindColumns(t), AtPlace(t, x, s))
    BY FoundOnce
  <2>2. \A z \in AtPlace(t, x, s) : z.index = x.index
    BY DEF AtPlace
  <2> QED
    BY <1>1, <2>1, <2>2, IndexedOnce
<1>4. ASSUME NEW e \in Range(Indexed(FindColumns(t), x.index)) PROVE \E s \in DOMAIN x.columns : e \in AtPlace(t, x, s)
  <2>1. e \in Range(FindColumns(t)) /\ e.index = x.index
    BY <1>1, IndexedIs
  <2>2. e \in FoundExact(t)
    BY <1>1, <2>1, SeqOverRange
  <2>3. PICK i \in DOMAIN t.columns : e \in FoundAt(t, i)
    BY <2>2 DEF FoundExact
  <2>4. e.seq \in DOMAIN x.columns
    BY <2>1, <2>3, FoundOfIndex
  <2> QED
    BY <2>1, <2>2, <2>4 DEF AtPlace
<1> QED
  BY <1>2, <1>3, <1>4

\* The columns of an index come back in their order.
LEMMA IndexOrdered ==
  ASSUME NEW t \in Statement, Apart(t), NEW x, Keyed(t, x)
  PROVE  InIndexOrder(Indexed(FindColumns(t), x.index)) = x.columns
<1>1. PICK entries : entries = Indexed(FindColumns(t), x.index)
  OBVIOUS
<1>2. PICK u \in Seq(ColumnNames(t)) : u = x.columns /\ u # << >>
  BY DEF Keyed
<1>3. PICK n \in Nat : n = Len(u) /\ DOMAIN u = 1..n /\ n # 0
  BY <1>2, LenProperties, EmptySeq
<1>4. \A s \in 1..n : Once(entries, AtPlace(t, x, s))
  BY <1>1, <1>2, <1>3, IndexEntries
<1>5. \A e \in Range(entries) : \E s \in 1..n : e \in AtPlace(t, x, s)
  BY <1>1, <1>2, <1>3, IndexEntries
<1>6. entries \in Seq(Range(entries)) /\ entries \in Seq(FoundExact(t))
  BY <1>1, IndexEntries, SeqOverRange
<1>7. PICK m \in Nat : m = Len(entries) /\ DOMAIN entries = 1..m
  BY <1>6, LenProperties
<1>8. ASSUME NEW s \in 1..n PROVE s \in {e.seq : e \in Range(entries)}
  <2>1. PICK k \in 1..m : entries[k] \in AtPlace(t, x, s)
    BY <1>4, <1>7 DEF Once
  <2>2. entries[k].seq = s
    BY <2>1 DEF AtPlace
  <2> QED
    BY <1>7, <2>2 DEF Range
<1>9. \A e \in Range(entries) : e.seq \in 1..n
  BY <1>5 DEF AtPlace
<1>10. Max({e.seq : e \in Range(entries)}) = n
  <2> DEFINE M == {e.seq : e \in Range(entries)}
  <2>1. M = 1..n
    BY <1>8, <1>9
  <2> HIDE DEF M
  <2>2. n \in M /\ \A y \in M : y \in Int /\ y <= n
    BY <1>3, <2>1
  <2>3. Max(M) = n
    BY <2>2, MaxIs
  <2> QED
    BY <2>3 DEF M
<1>11. ASSUME NEW s \in 1..n PROVE ColumnsAt(entries, s) = <<u[s]>>
  <2> DEFINE S == Range(entries)
             T == {z \in S : z.seq = s}
  <2>1. \A z \in S : z.seq = s <=> z \in AtPlace(t, x, s)
    BY <1>5 DEF AtPlace
  <2>2. \A z \in S : z.seq = s => z.column.name = u[s]
    BY <1>2, <1>3, <2>1, PlaceHas
  <2>3. Once(entries, T)
    <3>1. \A k \in 1..Len(entries) : entries[k] \in S
      BY <1>7 DEF Range
    <3>2. \A k \in 1..Len(entries) : entries[k] \in T <=> entries[k] \in AtPlace(t, x, s)
      BY <2>1, <3>1
    <3> HIDE DEF T
    <3> QED
      BY <1>4, <3>2 DEF Once
  <2> HIDE DEF S
  <2>4. entries \in Seq(S)
    BY <1>6 DEF S
  <2>5. PICK v : v = u[s]
    OBVIOUS
  <2>6. NamedAt(S, s, v)
    BY <2>2, <2>5 DEF NamedAt
  <2>7. Once(entries, WithSeq(S, s))
    BY <2>3 DEF WithSeq
  <2>8. ColumnsAt(entries, s) = <<v>>
    BY <2>4, <2>6, <2>7, ColumnAtPlace
  <2> QED
    BY <2>5, <2>8
<1>12. InIndexOrder(entries) = FlattenSeq([s \in 1..n |-> ColumnsAt(entries, s)])
  BY <1>10 DEF InIndexOrder
<1>13. [s \in 1..n |-> ColumnsAt(entries, s)] = [s \in 1..n |-> <<u[s]>>]
  BY <1>11
<1>14. FlattenSeq([s \in 1..n |-> <<u[s]>>]) = u
  BY <1>3, FlattenSingles
<1> QED
  BY <1>1, <1>2, <1>12, <1>13, <1>14

\* The entries of a piece that is there for one element or not.
LEMMA RangeOne ==
  ASSUME NEW x, NEW one \in BOOLEAN
  PROVE  Range(IF one THEN <<x>> ELSE << >>) = {z \in {x} : one}
<1>1. Range(<<x>>) = {x}
  <2>1. DOMAIN <<x>> = {1} /\ <<x>>[1] = x
    OBVIOUS
  <2> QED
    BY <2>1 DEF Range
<1>2. Range(<< >>) = {}
  BY DEF Range
<1> QED
  BY <1>1, <1>2

LEMMA RangeConcat ==
  ASSUME NEW S, NEW u \in Seq(S), NEW v \in Seq(S)
  PROVE  Range(u \o v) = Range(u) \cup Range(v)
<1>1. PICK m \in Nat, n \in Nat : m = Len(u) /\ n = Len(v) /\ DOMAIN u = 1..m /\ DOMAIN v = 1..n
  BY LenProperties
<1>3. DOMAIN (u \o v) = 1..(m + n)
  <2>1. Len(u \o v) = m + n /\ u \o v \in Seq(S)
    BY <1>1
  <2> QED
    BY <2>1, LenProperties
<1>4. \A i \in 1..m : i \in 1..(m + n) /\ (u \o v)[i] = u[i]
  BY <1>1
<1>5. \A i \in 1..n : i + m \in 1..(m + n) /\ (u \o v)[i + m] = v[i]
  <2>1. ASSUME NEW i \in 1..n PROVE i + m \in 1..(m + n) /\ (u \o v)[i + m] = v[i]
    <3>1. i + m \in 1..(m + n) /\ ~(i + m <= m) /\ (i + m) - m = i
      OBVIOUS
    <3> QED
      BY <1>1, <3>1
  <2> QED
    BY <2>1
<1>6. \A i \in 1..(m + n) : \/ i \in 1..m /\ (u \o v)[i] = u[i]
                            \/ i - m \in 1..n /\ (u \o v)[i] = v[i - m]
  BY <1>1
<1>7. ASSUME NEW z \in Range(u \o v) PROVE z \in Range(u) \cup Range(v)
  BY <1>1, <1>3, <1>6, <1>7 DEF Range
<1>8. ASSUME NEW z \in Range(u) PROVE z \in Range(u \o v)
  BY <1>1, <1>3, <1>4, <1>8 DEF Range
<1>9. ASSUME NEW z \in Range(v) PROVE z \in Range(u \o v)
  BY <1>1, <1>3, <1>5, <1>9 DEF Range
<1> QED
  BY <1>7, <1>8, <1>9

\* The constraints of a kind.
OfKind(t, kind) == {k \in Range(t.constraints) : k.kind = kind}

\* What the pieces have.
LEMMA FlattenRange ==
  ASSUME NEW S, NEW seqs \in Seq(Seq(S))
  PROVE  /\ FlattenSeq(seqs) \in Seq(S)
         /\ Range(FlattenSeq(seqs)) = UNION {Range(seqs[i]) : i \in DOMAIN seqs}
<1>1. ToSet(FlattenSeq(seqs)) = UNION {ToSet(seqs[i]) : i \in DOMAIN seqs}
  BY FlattenElements
<1>2. \A i \in DOMAIN seqs : ToSet(seqs[i]) = Range(seqs[i])
  BY RangeIsToSet
<1>3. {ToSet(seqs[i]) : i \in DOMAIN seqs} = {Range(seqs[i]) : i \in DOMAIN seqs}
  BY <1>2
<1> QED
  BY <1>1, <1>3, RangeIsToSet, FlattenIsSeq

LEMMA ConstraintsAre ==
  ASSUME NEW t \in Statement
  PROVE  \E n \in Nat : /\ DOMAIN t.constraints = 1..n
                        /\ \A i \in 1..n : t.constraints[i] \in ConstraintDecl
                        /\ Range(t.constraints) = {t.constraints[i] : i \in 1..n}
<1>1. PICK s \in Seq(ConstraintDecl) : s = t.constraints
  BY StatementIs
<1>2. PICK n \in Nat : DOMAIN s = 1..n /\ \A i \in 1..n : s[i] \in ConstraintDecl
  BY LenProperties
<1>3. Range(s) = {s[i] : i \in 1..n}
  BY <1>2 DEF Range
<1> QED
  BY <1>1, <1>2, <1>3

LEMMA PrimariesOfKind ==
  ASSUME NEW t \in Statement
  PROVE  Range(Primaries(t)) = OfKind(t, "primary")
<1> DEFINE B == [i \in DOMAIN t.constraints |-> IF t.constraints[i].kind = "primary" THEN <<t.constraints[i]>> ELSE << >>]
<1>1. PICK n \in Nat : /\ DOMAIN t.constraints = 1..n
                       /\ \A i \in 1..n : t.constraints[i] \in ConstraintDecl
                       /\ Range(t.constraints) = {t.constraints[i] : i \in 1..n}
  BY ConstraintsAre
<1>2. ASSUME NEW i \in 1..n
      PROVE  B[i] \in Seq(ConstraintDecl) /\ Range(B[i]) = {k \in {t.constraints[i]} : k.kind = "primary"}
  <2>1. PICK k \in ConstraintDecl : k = t.constraints[i]
    BY <1>1
  <2>2. B[i] = IF k.kind = "primary" THEN <<k>> ELSE << >>
    BY <1>1, <2>1
  <2>3. Range(IF k.kind = "primary" THEN <<k>> ELSE << >>) = {z \in {k} : k.kind = "primary"}
    BY RangeOne
  <2>4. (IF k.kind = "primary" THEN <<k>> ELSE << >>) \in Seq(ConstraintDecl)
    BY OneOrNone
  <2> HIDE DEF B
  <2> QED
    BY <2>1, <2>2, <2>3, <2>4
<1>3. B = [i \in 1..n |-> B[i]]
  BY <1>1
<1>4. Primaries(t) = FlattenSeq(B)
  BY DEF Primaries
<1> HIDE DEF B
<1>5. Range(FlattenSeq(B)) = UNION {Range(B[i]) : i \in 1..n}
  <2>1. B \in Seq(Seq(ConstraintDecl)) /\ DOMAIN B = 1..n
    BY <1>2, <1>3
  <2> QED
    BY <2>1, FlattenRange
<1>6. {Range(B[i]) : i \in 1..n} = {{k \in {t.constraints[i]} : k.kind = "primary"} : i \in 1..n}
  BY <1>2
<1>7. UNION {{k \in {t.constraints[i]} : k.kind = "primary"} : i \in 1..n} = OfKind(t, "primary")
  BY <1>1 DEF OfKind
<1> QED
  BY <1>4, <1>5, <1>6, <1>7

\* What makes an entry of uniqueKeyMap.
EntrySource(t) ==
    {Entry(<<c.name>>, "unique") : c \in {c \in Range(t.columns) : "unique" \in c.options}}
    \cup {Entry(<<c.name>>, "idx") : c \in {c \in Range(t.columns) : "key" \in c.options}}
    \cup {Entry(k.columns, "unique") : k \in OfKind(t, "unique")}

ColumnEntries(c) ==
    {x \in {Entry(<<c.name>>, "unique")} : "unique" \in c.options}
    \cup {x \in {Entry(<<c.name>>, "idx")} : "key" \in c.options}

LEMMA EntriesFrom ==
  ASSUME NEW t \in Statement
  PROVE  Range(Entries(t)) = EntrySource(t)
<1> DEFINE A == [i \in DOMAIN t.columns |->
                  LET c == t.columns[i] IN
                  (IF "unique" \in c.options THEN <<Entry(<<c.name>>, "unique")>> ELSE <<>>)
                    \o (IF "key" \in c.options THEN <<Entry(<<c.name>>, "idx")>> ELSE <<>>)]
           B == [i \in DOMAIN t.constraints |->
                  IF t.constraints[i].kind = "unique" THEN <<Entry(t.constraints[i].columns, "unique")>> ELSE <<>>]
<1>1. Entries(t) = FlattenSeq(A) \o FlattenSeq(B)
  BY DEF Entries
<1>2. PICK m \in Nat : DOMAIN t.columns = 1..m
  BY StatementIs
<1>3. PICK n \in Nat : /\ DOMAIN t.constraints = 1..n
                       /\ \A i \in 1..n : t.constraints[i] \in ConstraintDecl
                       /\ Range(t.constraints) = {t.constraints[i] : i \in 1..n}
  BY ConstraintsAre
<1>4. ASSUME NEW i \in 1..m
      PROVE  A[i] \in Seq(EntrySet) /\ Range(A[i]) = ColumnEntries(t.columns[i])
  <2>1. PICK c \in ColumnDecl : c = t.columns[i] /\ c.name \in Name
    BY <1>2, StatementIs
  <2>2. <<c.name>> \in Seq(Name)
    BY <2>1
  <2>3. PICK x \in EntrySet, y \in EntrySet : x = Entry(<<c.name>>, "unique") /\ y = Entry(<<c.name>>, "idx")
    BY <2>2, EntryIsNamed
  <2>4. PICK u \in Seq(EntrySet) : u = IF "unique" \in c.options THEN <<x>> ELSE << >>
    BY OneOrNone
  <2>5. PICK v \in Seq(EntrySet) : v = IF "key" \in c.options THEN <<y>> ELSE << >>
    BY OneOrNone
  <2>6. A[i] = u \o v
    BY <1>2, <2>1, <2>3, <2>4, <2>5
  <2>7. Range(u) = {z \in {x} : "unique" \in c.options}
    BY <2>4, RangeOne, MemberIsBoolean
  <2>8. Range(v) = {z \in {y} : "key" \in c.options}
    BY <2>5, RangeOne, MemberIsBoolean
  <2> HIDE DEF A
  <2>9. A[i] \in Seq(EntrySet) /\ Range(A[i]) = Range(u) \cup Range(v)
    BY <2>6, ConcatIsSeq, RangeConcat
  <2> QED
    BY <2>1, <2>3, <2>7, <2>8, <2>9 DEF ColumnEntries
<1>5. ASSUME NEW i \in 1..n
      PROVE  /\ B[i] \in Seq(EntrySet)
             /\ Range(B[i]) = {x \in {Entry(t.constraints[i].columns, "unique")} : t.constraints[i].kind = "unique"}
  <2>1. PICK k \in ConstraintDecl : k = t.constraints[i]
    BY <1>3
  <2>2. PICK x \in EntrySet : x = Entry(k.columns, "unique")
    <3>1. k.columns \in Seq(Name)
      BY DEF ConstraintDecl
    <3> QED
      BY <3>1, EntryIsNamed
  <2>3. B[i] = IF k.kind = "unique" THEN <<x>> ELSE << >>
    BY <1>3, <2>1, <2>2
  <2>4. Range(IF k.kind = "unique" THEN <<x>> ELSE << >>) = {z \in {x} : k.kind = "unique"}
    BY RangeOne
  <2>5. (IF k.kind = "unique" THEN <<x>> ELSE << >>) \in Seq(EntrySet)
    BY OneOrNone
  <2> HIDE DEF B
  <2> QED
    BY <2>1, <2>2, <2>3, <2>4, <2>5
<1>6. A = [i \in 1..m |-> A[i]] /\ B = [i \in 1..n |-> B[i]]
  BY <1>2, <1>3
<1> HIDE DEF A, B
<1>7. FlattenSeq(A) \in Seq(EntrySet) /\ Range(FlattenSeq(A)) = UNION {Range(A[i]) : i \in 1..m}
  <2>1. A \in Seq(Seq(EntrySet)) /\ DOMAIN A = 1..m
    BY <1>4, <1>6
  <2> QED
    BY <2>1, FlattenRange
<1>8. FlattenSeq(B) \in Seq(EntrySet) /\ Range(FlattenSeq(B)) = UNION {Range(B[i]) : i \in 1..n}
  <2>1. B \in Seq(Seq(EntrySet)) /\ DOMAIN B = 1..n
    BY <1>5, <1>6
  <2> QED
    BY <2>1, FlattenRange
<1>9. {Range(A[i]) : i \in 1..m} = {ColumnEntries(t.columns[i]) : i \in 1..m}
  BY <1>4
<1>10. {Range(B[i]) : i \in 1..n}
         = {{x \in {Entry(t.constraints[i].columns, "unique")} : t.constraints[i].kind = "unique"} : i \in 1..n}
  BY <1>5
<1>11. Range(t.columns) = {t.columns[i] : i \in 1..m}
  BY <1>2 DEF Range
<1>12. UNION {ColumnEntries(t.columns[i]) : i \in 1..m}
         = {Entry(<<c.name>>, "unique") : c \in {c \in Range(t.columns) : "unique" \in c.options}}
           \cup {Entry(<<c.name>>, "idx") : c \in {c \in Range(t.columns) : "key" \in c.options}}
  <2> DEFINE L == UNION {ColumnEntries(t.columns[i]) : i \in 1..m}
             U == {Entry(<<c.name>>, "unique") : c \in {c \in Range(t.columns) : "unique" \in c.options}}
             X == {Entry(<<c.name>>, "idx") : c \in {c \in Range(t.columns) : "key" \in c.options}}
  <2>1. L = UNION {ColumnEntries(c) : c \in Range(t.columns)}
    BY <1>11
  <2>2. ASSUME NEW z \in L PROVE z \in U \cup X
    BY <2>1, <2>2 DEF ColumnEntries
  <2>3. ASSUME NEW z \in U PROVE z \in L
    <3>1. PICK c \in Range(t.columns) : "unique" \in c.options /\ z = Entry(<<c.name>>, "unique")
      BY <2>3
    <3>2. z \in ColumnEntries(c)
      BY <3>1 DEF ColumnEntries
    <3> QED
      BY <2>1, <3>2
  <2>4. ASSUME NEW z \in X PROVE z \in L
    <3>1. PICK c \in Range(t.columns) : "key" \in c.options /\ z = Entry(<<c.name>>, "idx")
      BY <2>4
    <3>2. z \in ColumnEntries(c)
      BY <3>1 DEF ColumnEntries
    <3> QED
      BY <2>1, <3>2
  <2> HIDE DEF L, U, X
  <2>5. L = U \cup X
    BY <2>2, <2>3, <2>4
  <2> QED
    BY <2>5 DEF L, U, X
<1>13. UNION {{x \in {Entry(t.constraints[i].columns, "unique")} : t.constraints[i].kind = "unique"} : i \in 1..n}
         = {Entry(k.columns, "unique") : k \in OfKind(t, "unique")}
  BY <1>3 DEF OfKind
<1>14. Range(Entries(t)) = Range(FlattenSeq(A)) \cup Range(FlattenSeq(B))
  BY <1>1, <1>7, <1>8, RangeConcat
<1> QED
  BY <1>7, <1>8, <1>9, <1>10, <1>12, <1>13, <1>14 DEF EntrySource

\* The columns of a key: columns of the table, none twice.
IsKey(t, k) ==
    /\ k.columns \in Seq(ColumnNames(t)) /\ k.columns # << >>
    /\ \A r, s \in DOMAIN k.columns : k.columns[r] = k.columns[s] => r = s

LEMMA KeysAre ==
  ASSUME NEW t \in Statement, WellKeyed(t), NEW k \in Range(t.constraints)
  PROVE  IsKey(t, k)
<1>1. k.columns # << >> /\ IsInjective(k.columns) /\ Range(k.columns) \subseteq ColumnNames(t)
  BY DEF WellKeyed, ColumnNames
<1>2. PICK u \in Seq(Name) : u = k.columns
  <2>1. k \in ConstraintDecl
    BY ConstraintsAre
  <2> QED
    BY <2>1 DEF ConstraintDecl
<1>3. u \in Seq(Range(u))
  BY SeqOverRange
<1>4. u \in Seq(ColumnNames(t))
  BY <1>1, <1>2, <1>3, SeqMonotonic
<1> QED
  BY <1>1, <1>2, <1>4 DEF IsKey, IsInjective

LEMMA AcceptedApart ==
  ASSUME NEW t, WellKeyed(t)
  PROVE  Apart(t)
<1>1. IsInjective([i \in DOMAIN t.columns |-> t.columns[i].name])
  BY DEF WellKeyed
<1> QED
  BY <1>1 DEF IsInjective, Apart

\* The one primary key of the statements of KeyedAlike, which a constraint names.
PrimaryIs(t, pk) ==
    /\ pk \in Range(t.constraints) /\ pk.kind = "primary"
    /\ Primaries(t) = <<pk>>
    /\ Range(Primaries(t)) = {pk}
    /\ PrimaryColumn(t) = pk.columns[1]
    /\ PrimaryColumnSet(t) = {PrimaryColumn(t)}
    /\ PrimaryColumn(t) \in ColumnNames(t)

LEMMA OnePrimary ==
  ASSUME NEW t \in Statement, KeyedAlike(t)
  PROVE  \E pk \in Range(t.constraints) : PrimaryIs(t, pk)
<1>1. WellKeyed(t) /\ \A c \in Range(t.columns) : "primary" \notin c.options
  BY DEF KeyedAlike
<1>2. {c \in Range(t.columns) : "primary" \in c.options} = {}
  BY <1>1
<1>3. Len(Primaries(t)) = 1
  <2>1. Cardinality({c \in Range(t.columns) : "primary" \in c.options}) = 0
    BY <1>2, FS_EmptySet
  <2>2. Len(Primaries(t)) + Cardinality({c \in Range(t.columns) : "primary" \in c.options}) = 1
    BY <1>1 DEF WellKeyed
  <2>3. Len(Primaries(t)) \in Nat
    BY PrimariesAre, LenProperties
  <2> QED
    BY <2>1, <2>2, <2>3
<1>4. PICK s \in Seq(ConstraintDecl) : s = Primaries(t)
  BY PrimariesAre
<1>5. PICK pk \in ConstraintDecl : pk = s[1]
  BY <1>3, <1>4
<1>6. s = <<pk>> /\ s # << >>
  <2>1. <<pk>> \in Seq(ConstraintDecl) /\ Len(<<pk>>) = 1 /\ <<pk>>[1] = pk
    OBVIOUS
  <2>2. Len(s) = 1 /\ \A i \in 1..1 : s[i] = <<pk>>[i]
    BY <1>3, <1>4, <1>5, <2>1
  <2>3. s = <<pk>>
    BY <2>1, <2>2, SeqEqual
  <2> QED
    BY <2>3
<1>7. Range(s) = {pk}
  <2>1. DOMAIN s = {1}
    BY <1>6
  <2> QED
    BY <1>5, <2>1 DEF Range
<1>8. pk \in OfKind(t, "primary")
  BY <1>4, <1>7, PrimariesOfKind
<1>9. pk \in Range(t.constraints) /\ pk.kind = "primary"
  BY <1>8 DEF OfKind
<1>10. PrimaryColumn(t) = pk.columns[1]
  <2>1. Last(s) = pk
    BY <1>3, <1>4, <1>5 DEF Last
  <2> QED
    BY <1>4, <1>6, <2>1 DEF PrimaryColumn
<1>11. PrimaryColumnSet(t) = {PrimaryColumn(t)}
  <2>1. {k.columns[1] : k \in Range(Primaries(t))} = {pk.columns[1]}
    BY <1>4, <1>7
  <2>2. {c.name : c \in {c \in Range(t.columns) : "primary" \in c.options}} = {}
    BY <1>2
  <2> QED
    BY <1>10, <2>1, <2>2 DEF PrimaryColumnSet
<1>12. PrimaryColumn(t) \in ColumnNames(t)
  <2>1. PICK u \in Seq(ColumnNames(t)) : u = pk.columns /\ u # << >>
    BY <1>1, <1>9, KeysAre DEF IsKey
  <2>2. 1 \in 1..Len(u)
    BY <2>1, LenProperties, EmptySeq
  <2>3. u[1] \in ColumnNames(t)
    BY <2>2, LenProperties
  <2> QED
    BY <1>10, <2>1, <2>3
<1> QED
  BY <1>4, <1>6, <1>7, <1>9, <1>10, <1>11, <1>12 DEF PrimaryIs

\* The indexes of the database.
PriIndex(k) == [index |-> indexPri, nonUnique |-> FALSE, columns |-> k.columns]
ConIndex(t, i) == [index |-> <<"constraint", i>>, nonUnique |-> t.constraints[i].kind = "index",
                   columns |-> t.constraints[i].columns]
ColIndex(t, i) == [index |-> <<"column", i>>, nonUnique |-> FALSE, columns |-> <<t.columns[i].name>>]

LEMMA IndexesAre ==
  ASSUME NEW t \in Statement, KeyedAlike(t), NEW pk, PrimaryIs(t, pk)
  PROVE  DbIndexes(t) = {PriIndex(pk)}
             \cup {ConIndex(t, i) : i \in {i \in DOMAIN t.constraints : t.constraints[i].kind # "primary"}}
             \cup {ColIndex(t, i) : i \in {i \in DOMAIN t.columns : "unique" \in t.columns[i].options}}
<1>1. {c \in Range(t.columns) : "primary" \in c.options} = {}
  BY DEF KeyedAlike
<1>2. {[index |-> indexPri, nonUnique |-> FALSE, columns |-> <<c.name>>] :
            c \in {c \in Range(t.columns) : "primary" \in c.options}} = {}
  BY <1>1
<1>3. {[index |-> indexPri, nonUnique |-> FALSE, columns |-> k.columns] : k \in Range(Primaries(t))} = {PriIndex(pk)}
  BY DEF PrimaryIs, PriIndex
<1> QED
  BY <1>2, <1>3 DEF DbIndexes, ConIndex, ColIndex

LEMMA IndexKeyed ==
  ASSUME NEW t \in Statement, KeyedAlike(t), NEW pk, PrimaryIs(t, pk), NEW x \in DbIndexes(t)
  PROVE  Keyed(t, x)
<1> DEFINE I == {i \in DOMAIN t.constraints : t.constraints[i].kind # "primary"}
           U == {i \in DOMAIN t.columns : "unique" \in t.columns[i].options}
<1>1. ASSUME NEW y \in DbIndexes(t)
      PROVE  \/ y = PriIndex(pk)
             \/ \E i \in I : y = ConIndex(t, i)
             \/ \E i \in U : y = ColIndex(t, i)
  BY <1>1, IndexesAre
<1>2. WellKeyed(t)
  BY DEF KeyedAlike
<1>3. ASSUME NEW i \in DOMAIN t.constraints PROVE t.constraints[i] \in Range(t.constraints)
  BY DEF Range
<1>4. ASSUME NEW i \in DOMAIN t.columns
      PROVE  LET u == <<t.columns[i].name>>
             IN  u \in Seq(ColumnNames(t)) /\ u # << >> /\ \A r, s \in DOMAIN u : u[r] = u[s] => r = s
  <2>1. PICK v \in ColumnNames(t) : v = t.columns[i].name
    BY StatementIs DEF ColumnNames
  <2>2. <<v>> \in Seq(ColumnNames(t)) /\ <<v>> # << >> /\ DOMAIN <<v>> = {1}
    OBVIOUS
  <2> QED
    BY <2>1, <2>2
<1>5. IsKey(t, x)
  <2>1. CASE x = PriIndex(pk)
    <3>1. IsKey(t, pk)
      BY <1>2, KeysAre DEF PrimaryIs
    <3> QED
      BY <2>1, <3>1 DEF PriIndex, IsKey
  <2>2. CASE \E i \in I : x = ConIndex(t, i)
    <3>1. PICK i \in I : x = ConIndex(t, i)
      BY <2>2
    <3>2. IsKey(t, t.constraints[i])
      BY <1>2, <1>3, KeysAre
    <3> QED
      BY <3>1, <3>2 DEF ConIndex, IsKey
  <2>3. CASE \E i \in U : x = ColIndex(t, i)
    <3>1. PICK i \in U : x = ColIndex(t, i)
      BY <2>3
    <3>2. x.columns = <<t.columns[i].name>>
      BY <3>1 DEF ColIndex
    <3> QED
      BY <1>4, <3>2 DEF IsKey
  <2> QED
    BY <1>1, <2>1, <2>2, <2>3
<1>6. x.index # NoIndex
  <2>1. PriIndex(pk).index # NoIndex
    BY DEF PriIndex, indexPri, NoIndex
  <2>2. \A i : ConIndex(t, i).index # NoIndex /\ ColIndex(t, i).index # NoIndex
    BY DEF ConIndex, ColIndex, NoIndex
  <2> QED
    BY <1>1, <2>1, <2>2
<1>7. ASSUME NEW y \in DbIndexes(t), y.index = x.index PROVE y = x
  <2>1. PriIndex(pk).index = <<"PRIMARY">>
    BY DEF PriIndex, indexPri
  <2>2. \A i : ConIndex(t, i).index = <<"constraint", i>> /\ ColIndex(t, i).index = <<"column", i>>
    BY DEF ConIndex, ColIndex
  <2>3. \A i : <<"PRIMARY">> # <<"constraint", i>> /\ <<"PRIMARY">> # <<"column", i>>
    OBVIOUS
  <2>4. \A i, j : <<"constraint", i>> # <<"column", j>>
    OBVIOUS
  <2>5. \A i, j : <<"constraint", i>> = <<"constraint", j>> => i = j
    OBVIOUS
  <2>6. \A i, j : <<"column", i>> = <<"column", j>> => i = j
    OBVIOUS
  <2>7. CASE x = PriIndex(pk)
    BY <1>1, <1>7, <2>1, <2>2, <2>3, <2>7
  <2>8. ASSUME NEW i \in I, x = ConIndex(t, i) PROVE y = x
    BY <1>1, <1>7, <2>1, <2>2, <2>3, <2>4, <2>5, <2>8
  <2>9. ASSUME NEW i \in U, x = ColIndex(t, i) PROVE y = x
    BY <1>1, <1>7, <2>1, <2>2, <2>3, <2>4, <2>6, <2>9
  <2> QED
    BY <1>1, <2>7, <2>8, <2>9
<1> QED
  BY <1>5, <1>6, <1>7 DEF Keyed, IsKey

\* The columns of the database's unique indexes.
DbUnique(t) == {x.columns : x \in {x \in DbIndexes(t) : x.index # indexPri /\ ~x.nonUnique}}

LEMMA UniqueFound ==
  ASSUME NEW t \in Statement, KeyedAlike(t), NEW pk, PrimaryIs(t, pk)
  PROVE  {InIndexOrder(x) : x \in UniqueIndexes(FindColumns(t))} = DbUnique(t)
<1>1. PICK found : found = FindColumns(t)
  OBVIOUS
<1>2. Apart(t)
  BY AcceptedApart DEF KeyedAlike
<1>3. \A x \in DbIndexes(t) : Keyed(t, x)
  BY IndexKeyed
<1>4. found \in Seq(FoundExact(t))
  BY <1>1, FoundPieces, FlattenIsSeq
<1>5. ASSUME NEW u \in UniqueIndexes(found) PROVE InIndexOrder(u) \in DbUnique(t)
  <2>1. PICK e \in Range(found) : e.index \notin {NoIndex, indexPri} /\ ~e.nonUnique /\ u = Indexed(found, e.index)
    BY <1>5 DEF UniqueIndexes
  <2>2. e \in FoundExact(t)
    BY <1>4, SeqOverRange
  <2>3. PICK i \in DOMAIN t.columns : e \in FoundAt(t, i)
    BY <2>2 DEF FoundExact
  <2>4. PICK x \in Owned(t, i) : e = FoundOf(t, i, x)
    BY <2>1, <2>3 DEF FoundAt, FoundNone
  <2>5. x \in DbIndexes(t) /\ e.index = x.index /\ e.nonUnique = x.nonUnique
    BY <2>4 DEF Owned, FoundOf
  <2>6. InIndexOrder(Indexed(FindColumns(t), x.index)) = x.columns
    BY <1>2, <1>3, <2>5, IndexOrdered
  <2>7. InIndexOrder(u) = x.columns
    BY <1>1, <2>1, <2>5, <2>6
  <2> QED
    BY <2>1, <2>5, <2>7 DEF DbUnique
<1>6. ASSUME NEW columns \in DbUnique(t) PROVE \E u \in UniqueIndexes(found) : InIndexOrder(u) = columns
  <2>1. PICK x \in DbIndexes(t) : x.index # indexPri /\ ~x.nonUnique /\ columns = x.columns
    BY <1>6 DEF DbUnique
  <2>2. Keyed(t, x)
    BY <1>3
  <2>3. 1 \in DOMAIN x.columns
    <3>1. PICK v \in Seq(ColumnNames(t)) : v = x.columns /\ v # << >>
      BY <2>2 DEF Keyed
    <3>2. 1 \in DOMAIN v
      BY <3>1, LenProperties, EmptySeq
    <3> QED
      BY <3>1, <3>2
  <2>4. Once(found, AtPlace(t, x, 1))
    BY <1>1, <1>2, <2>2, <2>3, FoundOnce
  <2>5. PICK e : e \in Range(found) /\ e \in AtPlace(t, x, 1)
    <3>1. PICK k \in 1..Len(found) : found[k] \in AtPlace(t, x, 1)
      BY <2>4 DEF Once
    <3>2. k \in DOMAIN found
      BY <1>4, LenProperties
    <3> QED
      BY <3>1, <3>2 DEF Range
  <2>6. e.index = x.index /\ e.nonUnique = x.nonUnique
    BY <2>2, <2>3, <2>5, PlaceHas DEF AtPlace
  <2>7. x.index # NoIndex
    BY <2>2 DEF Keyed
  <2>8. Indexed(found, x.index) \in UniqueIndexes(found)
    BY <2>1, <2>5, <2>6, <2>7 DEF UniqueIndexes
  <2>9. InIndexOrder(Indexed(FindColumns(t), x.index)) = x.columns
    BY <1>2, <2>2, IndexOrdered
  <2> QED
    BY <1>1, <2>1, <2>8, <2>9
<1> QED
  BY <1>1, <1>5, <1>6

\* The database's primary key has one entry for each of its columns.
LEMMA PrimaryFound ==
  ASSUME NEW t \in Statement, KeyedAlike(t), NEW pk, PrimaryIs(t, pk)
  PROVE  /\ ConvertError(FindColumns(t)) <=> Len(pk.columns) # 1
         /\ Len(pk.columns) = 1 =>
              LET c == Indexed(FindColumns(t), indexPri)[1].column
              IN  c \in Range(t.columns) /\ c.name = PrimaryColumn(t)
<1>0. PICK x : x = PriIndex(pk)
  OBVIOUS
<1>1. x = PriIndex(pk) /\ x.index = indexPri /\ x.columns = pk.columns
  BY <1>0 DEF PriIndex
<1>2. Apart(t) /\ Keyed(t, x)
  BY <1>1, AcceptedApart, IndexKeyed, IndexesAre DEF KeyedAlike
<1>3. PICK entries : entries = Indexed(FindColumns(t), indexPri)
  OBVIOUS
<1>4. PICK u \in Seq(ColumnNames(t)) : u = x.columns /\ u # << >>
  BY <1>2 DEF Keyed
<1>5. PICK n \in Nat : n = Len(u) /\ DOMAIN u = 1..n /\ n # 0
  BY <1>4, LenProperties, EmptySeq
<1>6. entries \in Seq(FoundExact(t)) /\ \A s \in 1..n : Once(entries, AtPlace(t, x, s))
  BY <1>1, <1>2, <1>3, <1>4, <1>5, IndexEntries
<1>7. \A e \in Range(entries) : \E s \in 1..n : e \in AtPlace(t, x, s)
  BY <1>1, <1>2, <1>3, <1>4, <1>5, IndexEntries
<1>8. PICK m \in Nat : m = Len(entries) /\ DOMAIN entries = 1..m
  BY <1>6, LenProperties
<1>9. \A k \in 1..m : entries[k] \in Range(entries)
  BY <1>8 DEF Range
<1>10. ASSUME n = 1 PROVE m = 1 /\ entries[1] \in AtPlace(t, x, 1)
  <2>1. \A k \in 1..m : entries[k] \in AtPlace(t, x, 1)
    BY <1>7, <1>9, <1>10
  <2>2. Once(entries, AtPlace(t, x, 1))
    BY <1>6, <1>10
  <2>3. PICK k \in 1..m : \A j \in 1..m : j = k
    BY <1>8, <2>1, <2>2 DEF Once
  <2>4. 1 \in 1..m /\ m \in 1..m
    BY <2>3
  <2>5. m = 1
    BY <2>3, <2>4
  <2> QED
    BY <2>1, <2>5
<1>11. ASSUME m = 1 PROVE n = 1
  <2>1. ASSUME NEW s \in 1..n PROVE entries[1].seq = s
    <3>1. PICK k \in 1..m : entries[k] \in AtPlace(t, x, s)
      BY <1>6, <1>8 DEF Once
    <3> QED
      BY <1>11, <3>1 DEF AtPlace
  <2>2. 1 \in 1..n /\ n \in 1..n
    BY <1>5
  <2> QED
    BY <2>1, <2>2
<1>12. Len(pk.columns) = n
  BY <1>1, <1>4, <1>5
<1>13. ASSUME n = 1
       PROVE  entries[1].column \in Range(t.columns) /\ entries[1].column.name = PrimaryColumn(t)
  <2>1. entries[1] \in AtPlace(t, x, 1) /\ 1 \in DOMAIN x.columns
    BY <1>4, <1>5, <1>10, <1>13
  <2>2. entries[1].column \in Range(t.columns) /\ entries[1].column.name = x.columns[1]
    BY <1>2, <2>1, PlaceHas
  <2> QED
    BY <1>1, <2>2 DEF PrimaryIs
<1>14. ConvertError(FindColumns(t)) <=> m # 1
  BY <1>3, <1>8 DEF ConvertError
<1> QED
  BY <1>3, <1>10, <1>11, <1>12, <1>13, <1>14

\* The unique indexes of the database are the columns and the constraints with UNIQUE.
UniqueColumns(t) ==
    {<<c.name>> : c \in {c \in Range(t.columns) : "unique" \in c.options}}
    \cup {k.columns : k \in OfKind(t, "unique")}

LEMMA DbUniqueIs ==
  ASSUME NEW t \in Statement, KeyedAlike(t), NEW pk, PrimaryIs(t, pk)
  PROVE  DbUnique(t) = UniqueColumns(t)
<1>1. PICK n \in Nat : /\ DOMAIN t.constraints = 1..n
                       /\ \A i \in 1..n : t.constraints[i] \in ConstraintDecl
                       /\ Range(t.constraints) = {t.constraints[i] : i \in 1..n}
  BY ConstraintsAre
<1>2. \A k \in ConstraintDecl : k.kind \in {"primary", "unique", "index"}
  BY DEF ConstraintDecl
<1>3. ASSUME NEW columns \in DbUnique(t) PROVE columns \in UniqueColumns(t)
  <2>1. PICK x \in DbIndexes(t) : x.index # indexPri /\ ~x.nonUnique /\ columns = x.columns
    BY <1>3 DEF DbUnique
  <2>2. x # PriIndex(pk)
    BY <2>1 DEF PriIndex
  <2>3. CASE \E i \in {i \in DOMAIN t.constraints : t.constraints[i].kind # "primary"} : x = ConIndex(t, i)
    <3>1. PICK i \in 1..n : t.constraints[i].kind # "primary" /\ x = ConIndex(t, i)
      BY <1>1, <2>3
    <3>2. t.constraints[i].kind # "index" /\ columns = t.constraints[i].columns
      BY <2>1, <3>1 DEF ConIndex
    <3>3. t.constraints[i].kind = "unique"
      BY <1>1, <1>2, <3>1, <3>2
    <3>4. t.constraints[i] \in OfKind(t, "unique")
      BY <1>1, <3>3 DEF OfKind
    <3> QED
      BY <3>2, <3>4 DEF UniqueColumns
  <2>4. CASE \E i \in {i \in DOMAIN t.columns : "unique" \in t.columns[i].options} : x = ColIndex(t, i)
    <3>1. PICK i \in DOMAIN t.columns : "unique" \in t.columns[i].options /\ x = ColIndex(t, i)
      BY <2>4
    <3>2. columns = <<t.columns[i].name>> /\ t.columns[i] \in Range(t.columns)
      BY <2>1, <3>1, StatementIs DEF ColIndex
    <3> QED
      BY <3>1, <3>2 DEF UniqueColumns
  <2> QED
    BY <2>2, <2>3, <2>4, IndexesAre
<1>4. ASSUME NEW k \in OfKind(t, "unique") PROVE k.columns \in DbUnique(t)
  <2>1. PICK i \in DOMAIN t.constraints : k = t.constraints[i] /\ k.kind = "unique"
    BY <1>1 DEF OfKind
  <2>2. ConIndex(t, i) \in DbIndexes(t)
    BY <2>1, IndexesAre
  <2>3. <<"constraint", i>> # <<"PRIMARY">>
    OBVIOUS
  <2>4. ConIndex(t, i).index # indexPri /\ ~ConIndex(t, i).nonUnique /\ ConIndex(t, i).columns = k.columns
    BY <2>1, <2>3 DEF ConIndex, indexPri
  <2> QED
    BY <2>2, <2>4 DEF DbUnique
<1>5. ASSUME NEW c \in Range(t.columns), "unique" \in c.options PROVE <<c.name>> \in DbUnique(t)
  <2>1. PICK i \in DOMAIN t.columns : c = t.columns[i]
    BY DEF Range
  <2>2. ColIndex(t, i) \in DbIndexes(t)
    BY <1>5, <2>1, IndexesAre
  <2>3. <<"column", i>> # <<"PRIMARY">>
    OBVIOUS
  <2>4. ColIndex(t, i).index # indexPri /\ ~ColIndex(t, i).nonUnique /\ ColIndex(t, i).columns = <<c.name>>
    BY <2>1, <2>3 DEF ColIndex, indexPri
  <2> QED
    BY <2>2, <2>4 DEF DbUnique
<1> QED
  BY <1>3, <1>4, <1>5 DEF UniqueColumns

\* A word behind a name tells the name.
LEMMA SuffixTells ==
  ASSUME NEW S, NEW u \in Seq(S), NEW v \in Seq(S), NEW a, NEW b, u \o <<a>> = v \o <<b>>
  PROVE  u = v /\ a = b
<1>1. PICK m \in Nat, n \in Nat : m = Len(u) /\ n = Len(v) /\ DOMAIN u = 1..m /\ DOMAIN v = 1..n
  BY LenProperties
<1> DEFINE T == S \cup {a, b}
<1>2. u \in Seq(T) /\ v \in Seq(T) /\ <<a>> \in Seq(T) /\ <<b>> \in Seq(T)
  <2>1. S \subseteq T /\ a \in T /\ b \in T
    OBVIOUS
  <2> HIDE DEF T
  <2> QED
    BY <2>1, SeqMonotonic
<1> HIDE DEF T
<1>3. Len(<<a>>) = 1 /\ Len(<<b>>) = 1 /\ <<a>>[1] = a /\ <<b>>[1] = b
  OBVIOUS
<1>4. Len(u \o <<a>>) = m + 1 /\ Len(v \o <<b>>) = n + 1
  BY <1>1, <1>2, <1>3
<1>5. m = n
  BY <1>4
<1>6. \A i \in 1..m : (u \o <<a>>)[i] = u[i] /\ (v \o <<b>>)[i] = v[i]
  BY <1>1, <1>2, <1>3, <1>5
<1>7. (u \o <<a>>)[m + 1] = a /\ (v \o <<b>>)[m + 1] = b
  BY <1>1, <1>2, <1>3, <1>5
<1>8. u = v
  BY <1>1, <1>5, <1>6, SeqEqual
<1> QED
  BY <1>7, <1>8

\* Parse keeps every entry whose columns are not the primary key alone.
LEMMA UniqueKeysAre ==
  ASSUME NEW t \in Statement, KeyedAlike(t), NEW pk, PrimaryIs(t, pk)
  PROVE  UniqueKeys(t) = UniqueColumns(t) \ {<<PrimaryColumn(t)>>}
<1> DEFINE e == Entries(t)
           dropped == {PrimaryColumn(t) \o <<suffix>> : suffix \in {"idx", "unique"}}
           Same(i) == {k \in DOMAIN e : e[k].index = e[i].index}
<1>1. e \in Seq(EntrySet)
  BY EntriesAre
<1>2. PICK n \in Nat : DOMAIN e = 1..n
  <2> HIDE DEF e
  <2> QED
    BY <1>1, LenProperties
<1>3. Range(e) = EntrySource(t)
  BY EntriesFrom
<1>4. PrimaryColumn(t) \in Name
  BY StatementIs DEF PrimaryIs, ColumnNames
<1>5. \A x, y \in Range(e) : x.index = y.index => x.columns = y.columns
  BY DEF KeyedAlike
<1>6. \A x \in Range(e) : x.index = PrimaryColumn(t) \o <<"unique">> => x.columns = <<PrimaryColumn(t)>>
  BY DEF KeyedAlike
<1>7. \A c \in Range(t.columns) : "key" \in c.options => "unique" \in c.options
  BY DEF KeyedAlike
<1>8. UniqueKeys(t) = {e[Max(Same(i))].columns : i \in {i \in DOMAIN e : e[i].index \notin dropped}}
  BY DEF UniqueKeys
<1>9. ASSUME NEW x \in Range(e)
      PROVE  /\ x.columns \in UniqueColumns(t)
             /\ x.index \in dropped => x.columns = <<PrimaryColumn(t)>>
  <2>1. CASE \E c \in Range(t.columns) : "unique" \in c.options /\ x = Entry(<<c.name>>, "unique")
    <3>1. PICK c \in Range(t.columns) : "unique" \in c.options /\ x = Entry(<<c.name>>, "unique")
      BY <2>1
    <3>2. c.name \in Name
      BY StatementIs
    <3>3. x.columns = <<c.name>> /\ x.index = c.name \o <<"unique">>
      BY <3>1, <3>2, FlattenOne DEF Entry, Name
    <3>4. ASSUME x.index = PrimaryColumn(t) \o <<"idx">> PROVE FALSE
      <4>1. "unique" = "idx"
        BY <1>4, <3>2, <3>3, <3>4, SuffixTells DEF Name
      <4> QED
        BY <4>1
    <3> HIDE DEF e
    <3> QED
      BY <1>6, <3>1, <3>3, <3>4 DEF UniqueColumns
  <2>2. CASE \E c \in Range(t.columns) : "key" \in c.options /\ x = Entry(<<c.name>>, "idx")
    <3>1. PICK c \in Range(t.columns) : "key" \in c.options /\ x = Entry(<<c.name>>, "idx")
      BY <2>2
    <3>2. c.name \in Name
      BY StatementIs
    <3>3. x.columns = <<c.name>> /\ x.index = c.name \o <<"idx">>
      BY <3>1, <3>2, FlattenOne DEF Entry, Name
    <3>4. ASSUME NEW suffix, x.index = PrimaryColumn(t) \o <<suffix>> PROVE c.name = PrimaryColumn(t)
      <4>1. PICK u \in Name, v \in Name : u = c.name /\ v = PrimaryColumn(t)
        BY <1>4, <3>2
      <4>2. u \o <<"idx">> = v \o <<suffix>>
        BY <3>3, <3>4, <4>1
      <4>3. u = v
        BY <4>2, SuffixTells DEF Name
      <4> QED
        BY <4>1, <4>3
    <3> HIDE DEF e
    <3> QED
      BY <1>7, <3>1, <3>3, <3>4 DEF UniqueColumns
  <2>3. CASE \E k \in OfKind(t, "unique") : x = Entry(k.columns, "unique")
    <3>1. PICK k \in OfKind(t, "unique") : x = Entry(k.columns, "unique")
      BY <2>3
    <3>2. k \in ConstraintDecl
      <4>1. k \in Range(t.constraints)
        BY DEF OfKind
      <4>2. PICK m \in Nat : /\ \A i \in 1..m : t.constraints[i] \in ConstraintDecl
                             /\ Range(t.constraints) = {t.constraints[i] : i \in 1..m}
        BY ConstraintsAre
      <4> QED
        BY <4>1, <4>2
    <3>3. k.columns \in Seq(Name)
      BY <3>2 DEF ConstraintDecl
    <3>4. FlattenSeq(k.columns) \in Name
      BY <3>3, FlattenIsSeq DEF Name
    <3>5. x.columns = k.columns /\ x.index = FlattenSeq(k.columns) \o <<"unique">>
      BY <3>1 DEF Entry
    <3>6. ASSUME x.index = PrimaryColumn(t) \o <<"idx">> PROVE FALSE
      <4>1. "unique" = "idx"
        BY <1>4, <3>4, <3>5, <3>6, SuffixTells DEF Name
      <4> QED
        BY <4>1
    <3> HIDE DEF e
    <3> QED
      BY <1>6, <3>1, <3>5, <3>6 DEF UniqueColumns
  <2> QED
    BY <1>3, <2>1, <2>2, <2>3 DEF EntrySource
<1>10. ASSUME NEW i \in DOMAIN e PROVE Max(Same(i)) \in Same(i)
  <2>1. Same(i) \subseteq 0..n /\ Same(i) # {}
    BY <1>2
  <2> HIDE DEF Same
  <2> QED
    BY <1>2, <2>1, MaxOf
<1>11. ASSUME NEW i \in DOMAIN e PROVE e[Max(Same(i))].columns = e[i].columns /\ e[i] \in Range(e)
  <2>1. PICK k \in DOMAIN e : k = Max(Same(i)) /\ e[k].index = e[i].index
    BY <1>10
  <2> HIDE DEF e, Same
  <2>2. e[k] \in Range(e) /\ e[i] \in Range(e)
    BY DEF Range
  <2> QED
    BY <1>5, <2>1, <2>2
<1> HIDE DEF e, Same, dropped
<1>12. ASSUME NEW columns \in UniqueKeys(t) PROVE columns \in UniqueColumns(t) /\ columns # <<PrimaryColumn(t)>>
  <2>1. PICK i \in DOMAIN e : columns = e[Max(Same(i))].columns
    BY <1>8, <1>12
  <2>2. columns \in UniqueColumns(t)
    BY <1>9, <1>11, <2>1
  <2> QED
    BY <1>4, <2>2, UniqueKeyIs
<1>13. ASSUME NEW columns \in UniqueColumns(t), columns # <<PrimaryColumn(t)>> PROVE columns \in UniqueKeys(t)
  <2>1. PICK x \in Range(e) : x.columns = columns
    <3>1. \A c \in Range(t.columns) : "unique" \in c.options => Entry(<<c.name>>, "unique") \in Range(e)
      BY <1>3 DEF EntrySource
    <3>2. \A k \in OfKind(t, "unique") : Entry(k.columns, "unique") \in Range(e)
      BY <1>3 DEF EntrySource
    <3>3. \A k, suffix : Entry(k, suffix).columns = k
      BY DEF Entry
    <3> QED
      BY <3>1, <3>2, <3>3 DEF UniqueColumns
  <2>2. x.index \notin dropped
    BY <1>9, <1>13, <2>1
  <2>3. PICK i \in DOMAIN e : x = e[i]
    BY DEF Range
  <2>4. e[Max(Same(i))].columns = columns
    BY <1>11, <2>1, <2>3
  <2> QED
    BY <1>8, <2>2, <2>3, <2>4
<1> QED
  BY <1>12, <1>13

LEMMA ParseErrorIs ==
  ASSUME NEW t \in Statement, KeyedAlike(t), NEW pk, PrimaryIs(t, pk), NEW experimental
  PROVE  /\ ParseError(t, experimental) <=>
              Len(pk.columns) # 1 \/ \E c \in Range(t.columns) : c.type \notin DOMAIN DeclaredTypes(experimental)
         /\ ~MissingPrimaryKey(t)
<1>1. Range(Primaries(t)) = {pk} /\ PrimaryColumn(t) \in ColumnNames(t) /\ pk \in Range(t.constraints)
  BY DEF PrimaryIs
<1>2. WellKeyed(t)
  BY DEF KeyedAlike
<1>3. PICK m \in Nat : m = Len(pk.columns) /\ m # 0
  <2>1. PICK u \in Seq(ColumnNames(t)) : u = pk.columns /\ u # << >>
    BY <1>1, <1>2, KeysAre DEF IsKey
  <2> QED
    BY <2>1, LenProperties, EmptySeq
<1>4. Cardinality(PrimaryColumnSet(t)) = 1
  BY FS_Singleton DEF PrimaryIs
<1>5. ASSUME NEW columns \in UniqueKeys(t) PROVE Range(columns) \subseteq ColumnNames(t)
  <2>1. columns \in UniqueColumns(t)
    BY UniqueKeysAre
  <2>2. CASE \E c \in Range(t.columns) : columns = <<c.name>>
    <3>1. PICK v \in ColumnNames(t) : columns = <<v>>
      BY <2>2 DEF ColumnNames
    <3>2. Range(<<v>>) = {v}
      BY RangeOne
    <3> QED
      BY <3>1, <3>2
  <2>3. CASE \E k \in OfKind(t, "unique") : columns = k.columns
    BY <1>2, <2>3 DEF OfKind, WellKeyed, ColumnNames
  <2> QED
    BY <2>1, <2>2, <2>3 DEF UniqueColumns
<1>6. ~MissingPrimaryKey(t)
  BY <1>1 DEF MissingPrimaryKey, ColumnNames
<1>7. (\E k \in Range(Primaries(t)) : Len(k.columns) > 1) <=> m # 1
  <2>1. (\E k \in Range(Primaries(t)) : Len(k.columns) > 1) <=> Len(pk.columns) > 1
    BY <1>1
  <2>2. \A n \in Nat : n # 0 => (n > 1 <=> n # 1)
    OBVIOUS
  <2> QED
    BY <1>3, <2>1, <2>2
<1>8. ~(Cardinality(PrimaryColumnSet(t)) > 1)
  BY <1>4
<1>9. ~\E columns \in UniqueKeys(t) : ~Range(columns) \subseteq {c.name : c \in Range(t.columns)}
  BY <1>5 DEF ColumnNames
<1> QED
  BY <1>3, <1>6, <1>7, <1>8, <1>9 DEF ParseError

\* A type that both ways must read alike becomes the same Go type, or is supported by neither.
LEMMA SameType ==
  ASSUME NEW type, NEW from \in {"mysql", "pg"}, NEW experimental \in BOOLEAN, TypedAlike(type, from, experimental)
  PROVE  /\ type \in DOMAIN DeclaredTypes(experimental) <=> ReportedType(type, from) \in DOMAIN commonMysqlDataTypeMapString
         /\ type \in DOMAIN DeclaredTypes(experimental) =>
              DeclaredTypes(experimental)[type] = commonMysqlDataTypeMapString[ReportedType(type, from)]
<1> DEFINE given == {"bit", "tinyint", "bigint", "decimal", "numeric", "varchar", "bool", "int8"}
           asked == {"bool", "tinyint", "bigint", "decimal", "bit", "varchar", "int8"}
<1>1. /\ DOMAIN commonMysqlDataTypeMapString = asked
      /\ commonMysqlDataTypeMapString["bool"] = "bool" /\ commonMysqlDataTypeMapString["tinyint"] = "int64"
      /\ commonMysqlDataTypeMapString["bigint"] = "int64" /\ commonMysqlDataTypeMapString["decimal"] = "float64"
      /\ commonMysqlDataTypeMapString["bit"] = "byte" /\ commonMysqlDataTypeMapString["varchar"] = "string"
      /\ commonMysqlDataTypeMapString["int8"] = "int64"
  BY DEF commonMysqlDataTypeMapString
<1>2. /\ DOMAIN commonMysqlDataTypeMapInt = given
      /\ commonMysqlDataTypeMapInt["bool"] = "bool" /\ commonMysqlDataTypeMapInt["tinyint"] = "int64"
      /\ commonMysqlDataTypeMapInt["bigint"] = "int64" /\ commonMysqlDataTypeMapInt["decimal"] = "float64"
      /\ commonMysqlDataTypeMapInt["numeric"] = "float64" /\ commonMysqlDataTypeMapInt["int8"] = "int64"
      /\ commonMysqlDataTypeMapInt["bit"] = "byte" /\ commonMysqlDataTypeMapInt["varchar"] = "string"
  BY DEF commonMysqlDataTypeMapInt
<1>3. /\ experimental => DOMAIN DeclaredTypes(experimental) = asked
                         /\ \A x \in asked : DeclaredTypes(experimental)[x] = commonMysqlDataTypeMapString[x]
      /\ ~experimental => DeclaredTypes(experimental) = commonMysqlDataTypeMapInt
  BY <1>1 DEF DeclaredTypes, Restrict, commonMysqlDataTypeMap
<1>4. from = "mysql" => ReportedType(type, from) =
         CASE type = "bool" -> "tinyint" [] type = "numeric" -> "decimal" [] type = "int8" -> "bigint" [] OTHER -> type
  BY DEF ReportedType, Renamed, MysqlNames
<1>5. from = "pg" /\ type \notin {"decimal", "numeric"} =>
        ReportedType(type, from) = IF type \in {"bigint", "int8"} THEN "bigint" ELSE type
  <2> SUFFICES ASSUME from = "pg", type \notin {"decimal", "numeric"}
               PROVE  ReportedType(type, from) = IF type \in {"bigint", "int8"} THEN "bigint" ELSE type
    OBVIOUS
  <2>1. Renamed(type, PostgreNames) = IF type = "bigint" THEN "int8" ELSE type
    BY DEF Renamed, PostgreNames
  <2>2. Renamed("int8", p2m) = "bigint" /\ (type # "int8" => Renamed(type, p2m) = type)
    BY DEF Renamed, p2m
  <2> QED
    BY <2>1, <2>2 DEF ReportedType
<1>6. ASSUME from = "mysql" PROVE type \in DOMAIN DeclaredTypes(experimental) <=> ReportedType(type, from) \in asked
  BY <1>1, <1>2, <1>3, <1>4, <1>6 DEF TypedAlike
<1>7. ASSUME from = "mysql", type \in DOMAIN DeclaredTypes(experimental)
      PROVE  DeclaredTypes(experimental)[type] = commonMysqlDataTypeMapString[ReportedType(type, from)]
  BY <1>1, <1>2, <1>3, <1>4, <1>7 DEF TypedAlike
<1>8. ASSUME from = "pg" PROVE type \in DOMAIN DeclaredTypes(experimental) <=> ReportedType(type, from) \in asked
  BY <1>1, <1>2, <1>3, <1>5, <1>8 DEF TypedAlike
<1>9. ASSUME from = "pg", type \in DOMAIN DeclaredTypes(experimental)
      PROVE  DeclaredTypes(experimental)[type] = commonMysqlDataTypeMapString[ReportedType(type, from)]
  BY <1>1, <1>2, <1>3, <1>5, <1>9 DEF TypedAlike
<1> QED
  BY <1>1, <1>6, <1>7, <1>8, <1>9

LEMMA ReadTheSame ==
  ASSUME NEW t \in Statement, NEW from \in {"mysql", "pg"}, NEW strict, NEW experimental \in BOOLEAN,
         ReadAlike(t, from, experimental)
  PROVE  Parse(t, strict, experimental) = ConvertDataType(t, from, strict)
<1>0. KeyedAlike(t) /\ \A c \in Range(t.columns) : TypedAlike(c.type, from, experimental)
  BY DEF ReadAlike
<1>1. PICK pk : PrimaryIs(t, pk)
  BY <1>0, OnePrimary
<1> DEFINE unknown == \E c \in Range(t.columns) : c.type \notin DOMAIN DeclaredTypes(experimental)
           found == FindColumns(t)
           key == Indexed(found, indexPri)[1].column
           given == \E c \in Range(t.columns) : c.name = PrimaryColumn(t) /\ "auto" \in c.options
           auto == "auto" \in key.options
           unique == {InIndexOrder(x) : x \in UniqueIndexes(found)} \ {<<key.name>>}
           parsed == [i \in DOMAIN t.columns |->
                        LET c == t.columns[i] IN
                        [name |-> c.name,
                         type |-> MayConvertNullType(DeclaredTypes(experimental)[c.type], IsDefaultNull(t, c), c.unsigned, strict)]]
           fields == [i \in DOMAIN t.columns |->
                        LET c == t.columns[i] IN
                        [name |-> c.name,
                         type |-> MayConvertNullType(commonMysqlDataTypeMapString[ReportedType(c.type, from)], DbDefaultNull(t, c), c.unsigned, strict)]]
<1>2. (ParseError(t, experimental) <=> Len(pk.columns) # 1 \/ unknown) /\ ~MissingPrimaryKey(t)
  BY <1>0, <1>1, ParseErrorIs
<1>3. ConvertError(found) <=> Len(pk.columns) # 1
  BY <1>0, <1>1, PrimaryFound
<1>6. ASSUME NEW c \in Range(t.columns)
      PROVE  /\ c.type \in DOMAIN DeclaredTypes(experimental)
                  <=> ReportedType(c.type, from) \in DOMAIN commonMysqlDataTypeMapString
             /\ c.type \in DOMAIN DeclaredTypes(experimental) =>
                  DeclaredTypes(experimental)[c.type] = commonMysqlDataTypeMapString[ReportedType(c.type, from)]
  BY <1>0, SameType
<1>7. unknown <=> \E c \in Range(t.columns) : ReportedType(c.type, from) \notin DOMAIN commonMysqlDataTypeMapString
  BY <1>6
<1>4. CASE Len(pk.columns) # 1 \/ unknown
  <2>1. Parse(t, strict, experimental) = None
    BY <1>2, <1>4 DEF Parse
  <2>2. ConvertError(found) \/ unknown
    BY <1>3, <1>4
  <2>3. ConvertDataType(t, from, strict) = None
    BY <1>7, <2>2 DEF ConvertDataType
  <2> QED
    BY <2>1, <2>3
<1>5. CASE Len(pk.columns) = 1 /\ ~unknown
  <2>1. Parse(t, strict, experimental) = [name |-> t.name, primary |-> PrimaryColumn(t), auto |-> given,
                            unique |-> UniqueKeys(t), fields |-> parsed]
    BY <1>2, <1>5 DEF Parse
  <2>2. ConvertDataType(t, from, strict) = [name |-> t.name, primary |-> key.name, auto |-> auto,
                                      unique |-> unique, fields |-> fields]
    BY <1>3, <1>5, <1>7 DEF ConvertDataType
  <2>3. key \in Range(t.columns) /\ key.name = PrimaryColumn(t)
    BY <1>0, <1>1, <1>5, PrimaryFound
  <2>4. unique = UniqueKeys(t)
    BY <1>0, <1>1, <2>3, UniqueFound, DbUniqueIs, UniqueKeysAre
  <2>5. parsed = fields
    <3>1. ASSUME NEW i \in DOMAIN t.columns PROVE IsDefaultNull(t, t.columns[i]) = DbDefaultNull(t, t.columns[i])
      <4>1. PICK c \in Range(t.columns) : c = t.columns[i]
        BY StatementIs
      <4>2. c.options # {"nil"} \/ c.name = PrimaryColumn(t)
        BY <1>0 DEF KeyedAlike
      <4>3. PrimaryColumnSet(t) = {PrimaryColumn(t)}
        BY <1>1 DEF PrimaryIs
      <4> QED
        BY <4>1, <4>2, <4>3 DEF IsDefaultNull, DbDefaultNull
    <3>2. ASSUME NEW i \in DOMAIN t.columns
          PROVE  DeclaredTypes(experimental)[t.columns[i].type] = commonMysqlDataTypeMapString[ReportedType(t.columns[i].type, from)]
      <4>1. PICK c \in Range(t.columns) : c = t.columns[i]
        BY StatementIs
      <4> QED
        BY <1>5, <1>6, <4>1
    <3> QED
      BY <3>1, <3>2
  <2>6. given = auto
    <3>1. \A c \in Range(t.columns) : c.name = PrimaryColumn(t) => c = key
      <4>1. Apart(t)
        BY <1>0, AcceptedApart DEF KeyedAlike
      <4> HIDE DEF key
      <4> QED
        BY <2>3, <4>1 DEF Apart, Range
    <3>2. auto \in BOOLEAN
      BY MemberIsBoolean
    <3>3. given \in BOOLEAN
      BY Zenon
    <3> HIDE DEF key
    <3>4. given <=> auto
      BY <2>3, <3>1
    <3> HIDE DEF given, auto
    <3> QED
      BY <3>2, <3>3, <3>4
  <2> HIDE DEF key, unique, parsed, fields, given, auto
  <2> QED
    BY <2>1, <2>2, <2>3, <2>4, <2>5, <2>6
<1> QED
  BY <1>4, <1>5

\* A table of the author's files is a statement.
LEMMA TablesAre ==
  ASSUME GenInv, NEW t \in Tables
  PROVE  t \in Statement
<1>1. files \in Seq(Seq(Statement))
  BY DEF GenInv
<1>2. FlattenSeq(files) \in Seq(Statement)
  BY <1>1, FlattenIsSeq
<1> QED
  BY <1>2, SeqOverRange DEF Tables

\* Whatever statements the author writes: one that MySQL or PostgreSQL runs, and that only says
\* what both ways understand alike, gives the same description read from its file and asked of
\* the database, with the columns' types looked up in the tables of each way.
THEOREM SourcesTellAlike == Spec => []SourcesAgree
<1>1. Inv => SourcesAgree
  BY TablesAre, ReadTheSame DEF Inv, SourcesAgree
<1> QED
  BY <1>1, ServicesStayTyped, PTL

===============================================================================
