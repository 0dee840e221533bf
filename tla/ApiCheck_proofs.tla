--------------------------- MODULE ApiCheck_proofs ---------------------------
(***************************************************************************)
(* Proofs about ApiImport, for any set of paths, any import graph and any   *)
(* order of iteration over the imports of a file, and about ApiCheck, for   *)
(* any declarations in these files.                                         *)
(***************************************************************************)
EXTENDS ApiCheck, Unfolding

(***************************************************************************)
(* The shape of the frame sequences that the actions build.                *)
(***************************************************************************)

\* Replacing one activation leaves the others alone.
LEMMA ReplaceFrame ==
    ASSUME NEW s \in Seq(Frame), NEW i \in 1..Len(s), NEW f \in Frame
    PROVE  /\ SetFrame(s, i, f) \in Seq(Frame)
           /\ Len(SetFrame(s, i, f)) = Len(s)
           /\ \A j \in 1..Len(s) : SetFrame(s, i, f)[j] = IF j = i THEN f ELSE s[j]
  BY ExceptSeq DEF SetFrame

\* What consuming one import value does to the activations: only the innermost
\* one changes, and only its todo set.
LEMMA TakeImportShape ==
    ASSUME frames \in Seq(Frame), frames # <<>>, NEW t
    PROVE  /\ TakeImport(t) \in Seq(Frame)
           /\ Len(TakeImport(t)) = Len(frames)
           /\ \A i \in 1..Len(frames) :
                /\ TakeImport(t)[i].path = frames[i].path
                /\ TakeImport(t)[i].parts = frames[i].parts
                /\ TakeImport(t)[i].list = frames[i].list
                /\ TakeImport(t)[i].todo = IF i = Len(frames)
                                           THEN frames[i].todo \ {t}
                                           ELSE frames[i].todo
<1>1. Len(frames) \in 1..Len(frames) /\ Top = frames[Len(frames)] /\ Top \in Frame
  BY DEF Top
<1>0. Len(frames) \in 1..Len(frames)
  BY <1>1
<1>2. TakenTop(t) \in Frame
  BY <1>1 DEF Frame, TakenTop
<1>3. /\ TakenTop(t).path = Top.path
      /\ TakenTop(t).parts = Top.parts
      /\ TakenTop(t).list = Top.list
      /\ TakenTop(t).todo = Top.todo \ {t}
  BY <1>1 DEF Frame, TakenTop
<1>4. TakeImport(t) = SetFrame(frames, Len(frames), TakenTop(t))
  BY DEF TakeImport
<1>5. /\ SetFrame(frames, Len(frames), TakenTop(t)) \in Seq(Frame)
      /\ Len(SetFrame(frames, Len(frames), TakenTop(t))) = Len(frames)
      /\ \A j \in 1..Len(frames) :
           SetFrame(frames, Len(frames), TakenTop(t))[j] = IF j = Len(frames) THEN TakenTop(t) ELSE frames[j]
  BY <1>0, <1>2, ReplaceFrame, ZenonT(30)
<1>6. QED
  BY <1>1, <1>3, <1>4, <1>5

\* A fresh activation is a frame.
LEMMA InitFrameShape ==
    ASSUME disk \in [Path -> File], NEW p \in Path
    PROVE  /\ InitFrame(p) \in Frame
           /\ InitFrame(p).path = p
           /\ InitFrame(p).parts = <<p>>
           /\ InitFrame(p).list = <<>>
           /\ InitFrame(p).todo = disk[p].imports
  BY DEF InitFrame, Frame, File

\* The verdict of a failed read is one of the verdicts, and it is not "merged".
LEMMA FailureType ==
    ASSUME NEW kind \in FileKind
    PROVE  Failure(kind) \in {"fatal", "panic", "error"}
  BY DEF Failure, FileKind

\* What a merge step does to the activations.
LEMMA MergeShape ==
    ASSUME frames \in Seq(Frame), frames # <<>>, Top.list # <<>>
    PROVE  LET F == SetFrame(frames, Len(frames), MergedTop) IN
           /\ F \in Seq(Frame)
           /\ Len(F) = Len(frames)
           /\ \A i \in 1..Len(frames) :
                /\ F[i].path = frames[i].path
                /\ F[i].todo = frames[i].todo
                /\ i # Len(frames) => F[i] = frames[i]
           /\ F[Len(frames)].parts = Top.parts \o Head(Top.list).parts
           /\ F[Len(frames)].list = Tail(Top.list)
<1>1. Len(frames) \in 1..Len(frames) /\ Top = frames[Len(frames)] /\ Top \in Frame
  BY DEF Top
<1>2. Top.list \in Seq(API) /\ Head(Top.list) \in API /\ Tail(Top.list) \in Seq(API)
  BY <1>1 DEF Frame
<1>3. Top.parts \o Head(Top.list).parts \in Seq(Path)
  BY <1>1, <1>2 DEF Frame, API
<1>4. /\ MergedTop \in Frame
      /\ MergedTop.path = Top.path
      /\ MergedTop.todo = Top.todo
      /\ MergedTop.parts = Top.parts \o Head(Top.list).parts
      /\ MergedTop.list = Tail(Top.list)
  BY <1>1, <1>2, <1>3 DEF Frame, MergedTop
<1> DEFINE F == SetFrame(frames, Len(frames), MergedTop)
<1>5. /\ F \in Seq(Frame)
      /\ Len(F) = Len(frames)
      /\ \A j \in 1..Len(frames) : F[j] = IF j = Len(frames) THEN MergedTop ELSE frames[j]
  BY <1>1, <1>4, ReplaceFrame, Zenon
<1> HIDE DEF F
<1>6. /\ F \in Seq(Frame)
      /\ Len(F) = Len(frames)
      /\ \A i \in 1..Len(frames) :
           /\ F[i].path = frames[i].path
           /\ F[i].todo = frames[i].todo
           /\ i # Len(frames) => F[i] = frames[i]
      /\ F[Len(frames)].parts = Top.parts \o Head(Top.list).parts
      /\ F[Len(frames)].list = Tail(Top.list)
  BY <1>1, <1>4, <1>5
<1>7. QED
  BY <1>6 DEF F

\* What the return of a nested activation does to the others.
LEMMA ReturnShape ==
    ASSUME frames \in Seq(Frame), NEW n \in Nat, n = Len(frames) - 1, n > 0
    PROVE  LET F == SetFrame(SubSeq(frames, 1, n), n, Importer) IN
           /\ F \in Seq(Frame)
           /\ Len(F) = n
           /\ \A i \in 1..n :
                /\ F[i].path = frames[i].path
                /\ F[i].parts = frames[i].parts
                /\ F[i].todo = frames[i].todo
                /\ i # n => F[i] = frames[i]
           /\ F[n].list = Append(frames[n].list, Returned)
           /\ Returned \in API
<1>1. n \in 1..Len(frames) /\ frames[n] \in Frame /\ Top \in Frame
  BY DEF Top
<1>2. Returned \in API
  BY <1>1 DEF Returned, Frame, API
<1>3. Append(frames[n].list, Returned) \in Seq(API)
  BY <1>1, <1>2 DEF Frame
<1>4. /\ Importer \in Frame
      /\ Importer.path = frames[n].path
      /\ Importer.parts = frames[n].parts
      /\ Importer.todo = frames[n].todo
      /\ Importer.list = Append(frames[n].list, Returned)
  BY <1>1, <1>3 DEF Frame, Importer
<1>5. /\ SubSeq(frames, 1, n) \in Seq(Frame)
      /\ Len(SubSeq(frames, 1, n)) = n
      /\ \A i \in 1..n : SubSeq(frames, 1, n)[i] = frames[i]
  BY <1>1
<1> DEFINE S == SubSeq(frames, 1, n)
           F == SetFrame(S, n, Importer)
<1>6. n \in 1..Len(S)
  BY <1>5
<1> HIDE DEF S
<1>7. /\ F \in Seq(Frame)
      /\ Len(F) = Len(S)
      /\ \A j \in 1..Len(S) : F[j] = IF j = n THEN Importer ELSE S[j]
  <2>1. S \in Seq(Frame)
    BY <1>5 DEF S
  <2>2. QED
    BY <1>4, <1>6, <2>1, ReplaceFrame, Zenon
<1> HIDE DEF F
<1>8. Len(S) = n /\ \A i \in 1..n : S[i] = frames[i]
  BY <1>5 DEF S
<1>9. /\ F \in Seq(Frame)
      /\ Len(F) = n
      /\ \A i \in 1..n :
           /\ F[i].path = frames[i].path
           /\ F[i].parts = frames[i].parts
           /\ F[i].todo = frames[i].todo
           /\ i # n => F[i] = frames[i]
      /\ F[n].list = Append(frames[n].list, Returned)
  BY <1>1, <1>4, <1>7, <1>8
<1>10. QED
  BY <1>2, <1>9 DEF F, S

-----------------------------------------------------------------------------
\* Every variable keeps its type.
THEOREM TypeCorrect == Spec => []TypeOK
<1>1. Init => TypeOK
  BY DEF Init, TypeOK, Verdict
<1>2. TypeOK /\ [Next]_vars => TypeOK'
  <2> SUFFICES ASSUME TypeOK, [Next]_vars
               PROVE  TypeOK'
    OBVIOUS
  <2> USE DEF TypeOK
  <2>0. \A p \in Path : disk[p].kind \in FileKind
    BY ImportAssumption DEF File
  <2>1. CASE ParseRoot
    <3>1. <<InitFrame(Root)>> \in Seq(Frame)
      BY InitFrameShape, ImportAssumption
    <3>2. Failure(disk[Root].kind) \in Verdict
      BY <2>0, FailureType, ImportAssumption DEF Verdict
    <3>3. stack' \in Seq(Path)
      BY <2>1, ImportAssumption DEF ParseRoot
    <3>4. parses' \in [Path -> Nat]
      BY <2>1, ImportAssumption DEF ParseRoot
    <3>5. QED
      BY <2>1, <3>1, <3>2, <3>3, <3>4 DEF ParseRoot
  <2>2. ASSUME NEW t \in Text, ImportCycle(t)
        PROVE  TypeOK'
    BY <2>2 DEF ImportCycle, Verdict
  <2>3. ASSUME NEW t \in Text, SkipImported(t)
        PROVE  TypeOK'
    BY <2>3, TakeImportShape DEF SkipImported, AtImport
  <2>4. ASSUME NEW t \in Text, EnterImport(t)
        PROVE  TypeOK'
    <3>1. t[1] \in Path /\ frames # <<>>
      BY <2>4 DEF Text, EnterImport, AtImport
    <3>2. Append(TakeImport(t), InitFrame(t[1])) \in Seq(Frame)
      BY <3>1, TakeImportShape, InitFrameShape
    <3>3. Failure(disk[t[1]].kind) \in Verdict
      BY <2>0, <3>1, FailureType DEF Verdict
    <3>4. stack' \in Seq(Path) /\ parses' \in [Path -> Nat] /\ importSet' \in SUBSET Path
      BY <2>4, <3>1 DEF EnterImport
    <3>5. QED
      BY <2>4, <3>2, <3>3, <3>4 DEF EnterImport
  <2>5. CASE MergeNext
    BY <2>5, MergeShape DEF MergeNext, Verdict
  <2>6. CASE ReturnNested
    <3>1. stack' \in Seq(Path)
      <4>1. stack' = SubSeq(stack, 1, Len(stack) - 1)
        BY <2>6 DEF ReturnNested
      <4>2. QED
        BY <4>1
    <3>2. frames' \in Seq(Frame)
      <4>1. Len(frames) - 1 \in Nat
        BY <2>6 DEF ReturnNested
      <4>2. QED
        BY <2>6, <4>1, ReturnShape DEF ReturnNested
    <3>3. QED
      BY <2>6, <3>1, <3>2 DEF ReturnNested
  <2>7. CASE ReturnRoot
    BY <2>7 DEF ReturnRoot, Verdict
  <2>8. CASE UNCHANGED vars
    BY <2>8 DEF vars
  <2>9. QED
    BY <2>1, <2>2, <2>3, <2>4, <2>5, <2>6, <2>7, <2>8 DEF Next
<1>3. QED
  BY <1>1, <1>2, PTL DEF Spec

-----------------------------------------------------------------------------
(***************************************************************************)
(* The inductive invariant.  While Parse runs, a file is on the stack, or  *)
(* finished (imported and popped), or not seen yet.                        *)
(***************************************************************************)
Elements(s) == {s[i] : i \in 1..Len(s)}
StackSet == Elements(stack)
Seen == StackSet \cup importSet
Finished == importSet \ StackSet

\* The stack mirrors the activations; the root is at its bottom, everything above
\* it is in importSet, and the root never is.
StackMirror ==
    /\ Len(stack) = Len(frames)
    /\ \A i \in 1..Len(stack) : stack[i] = frames[i].path

StackChain == \A i \in 2..Len(stack) : stack[i] \in Succ(stack[i - 1])

StackDistinct == \A i, j \in 1..Len(stack) : stack[i] = stack[j] => i = j

StackBottom ==
    /\ Len(stack) > 0 => stack[1] = Root
    /\ \A i \in 2..Len(stack) : stack[i] \in importSet
    /\ Root \notin importSet
    /\ Len(stack) = 0 => importSet = {}

StackInv == StackMirror /\ StackChain /\ StackDistinct /\ StackBottom

\* Only readable files that the root reaches have been seen, each parsed once.
SeenInv ==
    /\ \A S \in SUBSET Path : Closed(S) => importSet \subseteq S
    /\ \A p \in Seen : disk[p].kind = "ok"
    /\ \A p \in Path : parses[p] = IF p \in Seen THEN 1 ELSE 0

\* An import value that the range has passed is finished, unless it is the one
\* being resolved.
PassedInv ==
    \A i \in 1..Len(frames) :
      /\ frames[i].todo \subseteq disk[frames[i].path].imports
      /\ \A t \in disk[frames[i].path].imports \ frames[i].todo :
           t[1] \in Finished \/ (i < Len(stack) /\ t[1] = stack[i + 1])

\* A finished file imports finished files only, and there is no cycle among them.
FinishedInv ==
    /\ \A p \in Finished : Succ(p) \subseteq Finished
    /\ Acyclic(Finished)

\* Path p is in the API of activation i, or in a nested API it has yet to merge.
HeldBy(i, p) ==
    \/ p \in Elements(frames[i].parts)
    \/ \E j \in 1..Len(frames[i].list) : p \in Elements(frames[i].list[j].parts)

\* An API whose statements all come from files with the syntax value of its own.
SameSyntax(path, parts) ==
    \A p \in Elements(parts) : disk[p].syntax = disk[path].syntax

\* Activation i and the nested APIs it has collected are each made of files with
\* one syntax value.
FrameSyntax(i) ==
    /\ frames[i].path \in Elements(frames[i].parts)
    /\ SameSyntax(frames[i].path, frames[i].parts)
    /\ \A j \in 1..Len(frames[i].list) :
         /\ frames[i].list[j].path \in importSet
         /\ SameSyntax(frames[i].list[j].path, frames[i].list[j].parts)

\* Every finished file is held by some activation.
MergeInv ==
    /\ \A p \in Finished : \E i \in 1..Len(frames) : HeldBy(i, p)
    /\ \A i \in 1..Len(frames) : FrameSyntax(i)

RunInv == StackInv /\ SeenInv /\ PassedInv /\ FinishedInv /\ MergeInv

ImportInv ==
    /\ TypeOK
    /\ verdict = "running" => RunInv
    /\ ParsedAtMostOnce
    /\ VerdictIndependentOfOrder
    /\ CycleIsReal

-----------------------------------------------------------------------------
(* The import graph *)

\* Imports lead to paths.
LEMMA SuccType == ASSUME TypeOK, NEW p \in Path PROVE Succ(p) \subseteq Path
  BY DEF TypeOK, File, Text, Succ

\* The reachable files are closed under imports.
LEMMA ReachableClosed == TypeOK => Closed(Reachable)
<1> SUFFICES ASSUME TypeOK PROVE Closed(Reachable)
  OBVIOUS
<1>1. Root \in Reachable
  BY ImportAssumption DEF Reachable, Closed
<1>2. ASSUME NEW p \in Reachable, NEW q \in Succ(p)
      PROVE  q \in Reachable
  <2>1. q \in Path
    BY SuccType DEF Reachable
  <2>2. ASSUME NEW S \in SUBSET Path, Closed(S)
        PROVE  q \in S
    BY <2>2 DEF Reachable, Closed
  <2>3. QED
    BY <2>1, <2>2 DEF Reachable
<1>3. QED
  BY <1>1, <1>2 DEF Closed

\* A file whose imports lie in an acyclic, closed set can be added to it.
LEMMA AcyclicExtend ==
    ASSUME NEW F, Acyclic(F), \A q \in F : Succ(q) \subseteq F,
           NEW p, p \notin F, Succ(p) \subseteq F
    PROVE  Acyclic(F \cup {p})
<1> SUFFICES ASSUME NEW S \in SUBSET (F \cup {p}), S # {}
             PROVE  \E q \in S : Succ(q) \cap S = {}
  BY DEF Acyclic
<1>1. CASE S \ {p} = {}
  <2>1. p \in S /\ S = {p}
    BY <1>1
  <2>2. QED
    BY <2>1
<1>2. CASE S \ {p} # {}
  <2>1. PICK q \in S \ {p} : Succ(q) \cap (S \ {p}) = {}
    BY <1>2 DEF Acyclic
  <2>2. q \in F /\ p \notin Succ(q)
    BY <2>1
  <2>3. QED
    BY <2>1, <2>2
<1>3. QED
  BY <1>1, <1>2

\* A part of an acyclic set is acyclic.
LEMMA AcyclicSubset ==
    ASSUME NEW F, Acyclic(F), NEW R \in SUBSET F
    PROVE  Acyclic(R)
  BY DEF Acyclic

\* What has been seen is reachable.
LEMMA SeenReachable == TypeOK /\ StackInv /\ SeenInv => Seen \subseteq Reachable
<1> SUFFICES ASSUME TypeOK, StackInv, SeenInv
             PROVE  Seen \subseteq Reachable
  OBVIOUS
<1>1. importSet \subseteq Reachable
  BY DEF SeenInv, Reachable, TypeOK
<1>2. Root \in Reachable
  BY ReachableClosed DEF Closed
<1>3. ASSUME NEW i \in 1..Len(stack) PROVE stack[i] \in Reachable
  <2>0. stack \in Seq(Path) /\ Len(stack) \in Nat
    BY DEF TypeOK
  <2>1. i = 1 \/ i \in 2..Len(stack)
    BY <2>0
  <2>2. QED
    BY <1>1, <1>2, <2>0, <2>1 DEF StackInv, StackMirror, StackChain, StackDistinct, StackBottom
<1>4. QED
  BY <1>1, <1>3 DEF Seen, StackSet, Elements

\* The graph depends on the files only.
LEMMA GraphUnchanged ==
    ASSUME disk' = disk
    PROVE  /\ \A p : Succ(p)' = Succ(p)
           /\ \A S : Closed(S)' <=> Closed(S)
           /\ \A S : Acyclic(S)' <=> Acyclic(S)
           /\ Reachable' = Reachable
           /\ GoodProject' <=> GoodProject
<1>1. \A p : Succ(p)' = Succ(p)
  BY DEF Succ
<1>2. \A S : Closed(S)' <=> Closed(S)
  BY <1>1 DEF Closed
<1>3. \A S : Acyclic(S)' <=> Acyclic(S)
  BY <1>1 DEF Acyclic
<1>4. Reachable' = Reachable
  BY <1>2 DEF Reachable
<1>5. QED
  BY <1>1, <1>2, <1>3, <1>4 DEF GoodProject
-----------------------------------------------------------------------------
(* The steps that end the run *)

\* While Parse runs, no path has been parsed twice and none out of reach.
LEMMA RunParsedOnce == TypeOK /\ StackInv /\ SeenInv => ParsedAtMostOnce
<1> SUFFICES ASSUME TypeOK, StackInv, SeenInv, NEW p \in Path
             PROVE  parses[p] <= IF p \in Reachable THEN 1 ELSE 0
  BY DEF ParsedAtMostOnce
<1>1. p \in Seen => p \in Reachable
  BY SeenReachable
<1>2. QED
  BY <1>1 DEF SeenInv

\* What the innermost activation imports is reachable.
LEMMA TopImportReachable ==
    ASSUME TypeOK, RunInv, NEW t, AtImport(t)
    PROVE  /\ t[1] \in Reachable /\ t[1] \in Path
           /\ Len(stack) \in 1..Len(stack)
           /\ Top = frames[Len(stack)] /\ Top \in Frame
           /\ Top.path = stack[Len(stack)]
           /\ t \in disk[Top.path].imports
           /\ t[1] \in Succ(stack[Len(stack)])
<1>1. /\ frames # <<>> /\ Len(frames) \in 1..Len(frames)
      /\ Len(frames) = Len(stack)
      /\ Top = frames[Len(frames)] /\ Top \in Frame
  BY DEF TypeOK, AtImport, RunInv, StackInv, StackMirror, StackChain, StackDistinct, StackBottom, Top
<1>2. Top.path = stack[Len(stack)] /\ Top.path \in Path
  BY <1>1 DEF RunInv, StackInv, StackMirror, StackChain, StackDistinct, StackBottom, Frame
<1>3. t \in disk[Top.path].imports
  BY <1>1 DEF AtImport, RunInv, PassedInv
<1>4. t[1] \in Succ(stack[Len(stack)])
  BY <1>2, <1>3 DEF Succ
<1>5. stack[Len(stack)] \in Reachable
  BY <1>1, SeenReachable DEF RunInv, Seen, StackSet, Elements
<1>6. t[1] \in Reachable
  BY <1>4, <1>5, ReachableClosed DEF Closed
<1>7. QED
  BY <1>1, <1>2, <1>3, <1>4, <1>6 DEF Reachable

\* Push refuses a path only when the stack above it closes a cycle.
LEMMA CycleFound ==
    ASSUME TypeOK, RunInv, NEW t, AtImport(t), OnStack(t[1])
    PROVE  ~Acyclic(Reachable)
<1> DEFINE n == Len(stack)
<1>0. stack \in Seq(Path) /\ n \in Nat /\ DOMAIN stack = 1..n
  BY DEF TypeOK
<1>1. PICK k \in 1..n : stack[k] = t[1]
  BY <1>0 DEF OnStack
<1> DEFINE S == {stack[i] : i \in k..n}
<1>2. S \subseteq Reachable
  BY <1>0, SeenReachable DEF RunInv, Seen, StackSet, Elements
<1>3. stack[k] \in S
  BY <1>0
<1>4. ASSUME NEW i \in k..n PROVE Succ(stack[i]) \cap S # {}
  <2>1. CASE i = n
    BY <2>1, <1>1, <1>3, TopImportReachable
  <2>2. CASE i < n
    <3>1. i + 1 \in 2..n /\ i + 1 \in k..n
      BY <2>2, <1>0
    <3>2. stack[i + 1] \in Succ(stack[(i + 1) - 1])
      BY <3>1 DEF RunInv, StackInv, StackMirror, StackChain, StackDistinct, StackBottom
    <3>3. (i + 1) - 1 = i
      BY <1>0
    <3>4. QED
      BY <3>1, <3>2, <3>3
  <2>3. i = n \/ i < n
    <3>1. n \in Nat /\ k \in Nat
      BY <1>0
    <3>2. QED
      BY <3>1
  <2>4. QED
    BY <2>1, <2>2, <2>3
<1>5. QED
  BY <1>2, <1>3, <1>4 DEF Acyclic

\* When the root's activation returns, the project is a good one.
LEMMA RootReturnsGood ==
    ASSUME TypeOK, RunInv, Len(frames) = 1, Top.todo = {}, Top.list = <<>>
    PROVE  GoodProject
<1>1. /\ Len(stack) = 1 /\ stack[1] = Root /\ frames[1].path = Root
      /\ Top = frames[1] /\ Top \in Frame
  <2>0. Len(stack) = 1
    BY DEF RunInv, StackInv, StackMirror, StackChain, StackDistinct, StackBottom
  <2>1. Top = frames[1] /\ frames \in Seq(Frame)
    BY DEF Top, TypeOK
  <2>2. Top \in Frame
    BY <2>1
  <2>3. stack[1] = Root /\ stack[1] = frames[1].path
    BY <2>0 DEF RunInv, StackInv, StackMirror, StackChain, StackDistinct, StackBottom
  <2>4. QED
    BY <2>0, <2>1, <2>2, <2>3
<1>2. StackSet = {Root} /\ Finished = importSet /\ Root \notin importSet
  BY <1>1 DEF StackSet, Elements, Finished, RunInv, StackInv, StackMirror, StackChain, StackDistinct, StackBottom
<1>3. Succ(Root) \subseteq Finished
  BY <1>1 DEF RunInv, PassedInv, Succ
<1>4. Closed(importSet \cup {Root})
  BY <1>2, <1>3 DEF Closed, RunInv, FinishedInv
<1>5. Reachable \subseteq importSet \cup {Root}
  BY <1>4, ImportAssumption DEF Reachable, TypeOK
<1>6. \A p \in Reachable : disk[p].kind = "ok"
  BY <1>2, <1>5 DEF RunInv, SeenInv, Seen
<1>7. Acyclic(Reachable)
  <2>1. Acyclic(importSet \cup {Root})
    BY <1>2, <1>3, AcyclicExtend DEF RunInv, FinishedInv
  <2>2. QED
    BY <1>5, <2>1, AcyclicSubset
<1>8. ASSUME NEW p \in Reachable PROVE disk[p].syntax = disk[Root].syntax
  <2>1. CASE p = Root
    BY <2>1
  <2>2. CASE p \in Finished
    <3>1. HeldBy(1, p)
      BY <2>2, <1>1 DEF RunInv, MergeInv
    <3>2. p \in Elements(frames[1].parts)
      BY <3>1, <1>1 DEF HeldBy
    <3>3. QED
      BY <3>2, <1>1 DEF RunInv, MergeInv, FrameSyntax, SameSyntax
  <2>3. QED
    BY <2>1, <2>2, <1>2, <1>5
<1>9. QED
  BY <1>6, <1>7, <1>8 DEF GoodProject

-----------------------------------------------------------------------------
(* The steps that keep the run going *)

\* An activation whose parts and list stay as they are holds what it held.
LEMMA SameHoldings ==
    ASSUME disk' = disk, importSet \subseteq importSet', NEW i,
           frames'[i].path = frames[i].path,
           frames'[i].parts = frames[i].parts,
           frames'[i].list = frames[i].list
    PROVE  /\ \A p : HeldBy(i, p) => HeldBy(i, p)'
           /\ FrameSyntax(i) => FrameSyntax(i)'
<1>1. \A p : HeldBy(i, p) => HeldBy(i, p)'
  BY DEF HeldBy
<1>2. \A p, s : SameSyntax(p, s)' <=> SameSyntax(p, s)
  BY DEF SameSyntax
<1>3. FrameSyntax(i) => FrameSyntax(i)'
  BY <1>2 DEF FrameSyntax
<1>4. QED
  BY <1>1, <1>3

\* The root file becomes the only activation.
LEMMA RootParsed ==
    ASSUME TypeOK, verdict = "running" => RunInv, ParseRoot, verdict' = "running"
    PROVE  RunInv'
<1>1. frames = <<>> /\ RunInv /\ disk[Root].kind = "ok" /\ disk' = disk
  BY FailureType, ImportAssumption DEF ParseRoot, TypeOK, File
<1>2. stack = <<>> /\ importSet = {} /\ importSet' = {}
  <2>1. Len(stack) = 0
    BY <1>1 DEF RunInv, StackInv, StackMirror, StackChain, StackDistinct, StackBottom
  <2>2. stack = <<>>
    BY <2>1 DEF TypeOK
  <2>3. QED
    BY <1>1, <2>1, <2>2 DEF RunInv, StackInv, StackMirror, StackChain, StackDistinct, StackBottom, ParseRoot
<1>3. /\ stack' = <<Root>>
      /\ frames' = <<InitFrame(Root)>>
      /\ parses' = [parses EXCEPT ![Root] = @ + 1]
  BY <1>1 DEF ParseRoot
<1>4. /\ InitFrame(Root).path = Root
      /\ InitFrame(Root).parts = <<Root>>
      /\ InitFrame(Root).list = <<>>
      /\ InitFrame(Root).todo = disk[Root].imports
  BY ImportAssumption, InitFrameShape DEF TypeOK
<1>5. /\ Len(stack') = 1 /\ stack'[1] = Root
      /\ Len(frames') = 1 /\ frames'[1] = InitFrame(Root)
  BY <1>3
<1>6. StackSet' = {Root} /\ Finished' = {}
  BY <1>2, <1>5 DEF StackSet, Elements, Finished
<1>7. StackInv'
  BY <1>2, <1>4, <1>5 DEF StackInv, StackMirror, StackChain, StackDistinct, StackBottom
<1>8. SeenInv'
  <2>a. Seen = {}
    BY <1>2 DEF Seen, StackSet, Elements
  <2>1. \A p \in Path : parses[p] = 0
    BY <1>1, <2>a DEF RunInv, SeenInv
  <2>2. \A p \in Path : parses'[p] = IF p = Root THEN 1 ELSE 0
    BY <1>3, <2>1, ImportAssumption DEF TypeOK
  <2>3. QED
    BY <1>1, <1>2, <1>6, <2>2 DEF SeenInv, Seen
<1>9. PassedInv'
  BY <1>1, <1>4, <1>5 DEF PassedInv
<1>10. FinishedInv'
  BY <1>6 DEF FinishedInv, Acyclic
<1>11. MergeInv'
  BY <1>1, <1>4, <1>5, <1>6 DEF MergeInv, FrameSyntax, SameSyntax, Elements
<1>12. QED
  BY <1>7, <1>8, <1>9, <1>10, <1>11 DEF RunInv

\* Skipping a file that is already imported.
LEMMA ImportSkipped ==
    ASSUME TypeOK, RunInv, NEW t \in Text, SkipImported(t)
    PROVE  RunInv'
<1> USE DEF RunInv
<1>1. /\ AtImport(t) /\ t[1] \in Finished
      /\ disk' = disk /\ stack' = stack /\ importSet' = importSet /\ parses' = parses
  <2>1. t[1] \notin StackSet
    BY DEF SkipImported, OnStack, StackSet, Elements, TypeOK
  <2>2. QED
    BY <2>1 DEF SkipImported, Finished
<1>2. /\ Len(frames') = Len(frames)
      /\ \A i \in 1..Len(frames) :
           /\ frames'[i].path = frames[i].path
           /\ frames'[i].parts = frames[i].parts
           /\ frames'[i].list = frames[i].list
           /\ frames'[i].todo = IF i = Len(frames)
                                THEN frames[i].todo \ {t}
                                ELSE frames[i].todo
  BY TakeImportShape DEF SkipImported, AtImport, TypeOK
<1>3. StackSet' = StackSet /\ Finished' = Finished /\ Seen' = Seen
  BY <1>1 DEF StackSet, Elements, Finished, Seen
<1>4. StackInv'
  BY <1>1, <1>2, GraphUnchanged DEF StackInv, StackMirror, StackChain, StackDistinct, StackBottom
<1>5. SeenInv'
  BY <1>1, <1>3, GraphUnchanged DEF SeenInv
<1>6. PassedInv'
  BY <1>1, <1>2, <1>3 DEF PassedInv
<1>7. FinishedInv'
  BY <1>1, <1>3, GraphUnchanged DEF FinishedInv
<1>8. MergeInv'
  BY <1>1, <1>2, <1>3, SameHoldings DEF MergeInv
<1>9. QED
  BY <1>4, <1>5, <1>6, <1>7, <1>8

\* Entering a file that has not been seen.
LEMMA ImportEntered ==
    ASSUME TypeOK, RunInv, NEW t \in Text, EnterImport(t), verdict' = "running"
    PROVE  RunInv'
<1> USE DEF RunInv
<1> DEFINE p == t[1]
<1>0. PICK n \in Nat : n = Len(stack)
  BY DEF TypeOK
<1>1. /\ AtImport(t) /\ p \in Path /\ p \notin importSet /\ p \notin StackSet
      /\ verdict = "running"
  BY DEF EnterImport, AtImport, OnStack, StackSet, Elements, TypeOK, Text
<1>2. disk[p].kind = "ok"
  <2>1. disk[p].kind \in FileKind
    BY <1>1, ImportAssumption DEF TypeOK, File
  <2>2. QED
    BY <2>1, FailureType DEF EnterImport
<1>3. /\ disk' = disk
      /\ stack' = Append(stack, p)
      /\ importSet' = importSet \cup {p}
      /\ parses' = [parses EXCEPT ![p] = @ + 1]
      /\ frames' = Append(TakeImport(t), InitFrame(p))
  BY <1>2 DEF EnterImport
<1>4. /\ p \in Reachable /\ n \in 1..n /\ n = Len(frames)
      /\ t \in disk[frames[n].path].imports /\ p \in Succ(stack[n])
  <2>1. Len(stack) = Len(frames)
    BY DEF StackInv, StackMirror
  <2>2. QED
    BY <1>0, <1>1, <2>1, TopImportReachable DEF StackInv, StackMirror
<1>5. /\ Len(frames') = n + 1
      /\ frames'[n + 1] = InitFrame(p)
      /\ \A i \in 1..n :
           /\ frames'[i].path = frames[i].path
           /\ frames'[i].parts = frames[i].parts
           /\ frames'[i].list = frames[i].list
           /\ frames'[i].todo = IF i = n THEN frames[i].todo \ {t} ELSE frames[i].todo
  <2>a. frames # <<>> /\ frames \in Seq(Frame)
    BY <1>1 DEF AtImport, TypeOK
  <2>1. /\ TakeImport(t) \in Seq(Frame)
        /\ Len(TakeImport(t)) = n
        /\ \A i \in 1..n :
             /\ TakeImport(t)[i].path = frames[i].path
             /\ TakeImport(t)[i].parts = frames[i].parts
             /\ TakeImport(t)[i].list = frames[i].list
             /\ TakeImport(t)[i].todo = IF i = n
                                        THEN frames[i].todo \ {t} ELSE frames[i].todo
    <3>1. /\ TakeImport(t) \in Seq(Frame)
          /\ Len(TakeImport(t)) = Len(frames)
          /\ \A i \in 1..Len(frames) :
               /\ TakeImport(t)[i].path = frames[i].path
               /\ TakeImport(t)[i].parts = frames[i].parts
               /\ TakeImport(t)[i].list = frames[i].list
               /\ TakeImport(t)[i].todo = IF i = Len(frames)
                                          THEN frames[i].todo \ {t} ELSE frames[i].todo
      BY <2>a, TakeImportShape, Zenon
    <3>2. QED
      BY <3>1, <1>4
  <2>2. /\ Len(frames') = n + 1
        /\ frames'[n + 1] = InitFrame(p)
        /\ \A i \in 1..n : frames'[i] = TakeImport(t)[i]
    BY <1>3, <1>4, <2>1
  <2>3. QED
    BY <2>1, <2>2
<1>6. /\ Len(stack') = n + 1 /\ stack'[n + 1] = p
      /\ \A i \in 1..n : stack'[i] = stack[i]
  BY <1>0, <1>3 DEF TypeOK
<1>7. /\ InitFrame(p).path = p
      /\ InitFrame(p).parts = <<p>>
      /\ InitFrame(p).list = <<>>
      /\ InitFrame(p).todo = disk[p].imports
  BY <1>1, InitFrameShape DEF TypeOK
<1>a. n = Len(stack) /\ n \in Nat /\ n > 0
  BY <1>0, <1>4
<1>b. \A i \in 1..(n + 1) : i = n + 1 \/ i \in 1..n
  BY <1>4
<1> HIDE DEF p
<1>8. StackSet' = StackSet \cup {p} /\ Finished' = Finished
  <2>1. StackSet' = StackSet \cup {p}
    BY <1>a, <1>b, <1>6 DEF StackSet, Elements
  <2>2. QED
    BY <1>1, <1>3, <2>1 DEF Finished
<1>9. StackInv'
  <2>1. StackMirror'
    BY <1>a, <1>b, <1>5, <1>6, <1>7 DEF StackInv, StackMirror
  <2>2. StackChain'
    <3>1. SUFFICES ASSUME NEW i \in 2..(n + 1)
                   PROVE  (stack[i] \in Succ(stack[i - 1]))'
      BY <1>6 DEF StackChain
    <3>2. i \in 1..(n + 1) /\ i - 1 \in 1..n
      BY <1>a
    <3>3. stack'[i] \in Succ(stack[i - 1])
      <4>1. CASE i = n + 1
        BY <4>1, <1>a, <1>4, <1>6
      <4>2. CASE i \in 2..n
        BY <4>2, <1>a, <1>6, <3>2 DEF StackInv, StackChain
      <4>3. QED
        BY <4>1, <4>2, <1>a
    <3>4. QED
      BY <1>3, <1>6, <3>2, <3>3 DEF Succ
  <2>3. StackDistinct'
    <3>1. \A i \in 1..n : stack[i] # p
      BY <1>a, <1>1 DEF StackSet, Elements
    <3>2. \A i, j \in 1..n : stack'[i] = stack'[j] => i = j
      BY <1>a, <1>6 DEF StackInv, StackDistinct
    <3>3. \A i \in 1..n : stack'[i] # stack'[n + 1]
      BY <1>6, <3>1
    <3>4. QED
      BY <1>a, <1>b, <1>6, <3>2, <3>3 DEF StackDistinct
  <2>4. StackBottom'
    <3>1. stack'[1] = Root /\ Root # p
      BY <1>a, <1>1, <1>6 DEF StackInv, StackBottom, StackSet, Elements
    <3>2. \A i \in 2..(n + 1) : stack'[i] \in importSet'
      <4>1. \A i \in 2..(n + 1) : i = n + 1 \/ i \in 2..n
        BY <1>a
      <4>2. \A i \in 2..n : stack'[i] = stack[i]
        BY <1>a, <1>6
      <4>3. QED
        BY <1>a, <1>3, <1>6, <4>1, <4>2 DEF StackInv, StackBottom
    <3>3. QED
      BY <1>a, <1>3, <1>6, <3>1, <3>2 DEF StackInv, StackBottom
  <2>5. QED
    BY <2>1, <2>2, <2>3, <2>4 DEF StackInv
<1>10. SeenInv'
  <2>1. \A S \in SUBSET Path : Closed(S) => importSet' \subseteq S
    BY <1>3, <1>4 DEF SeenInv, Reachable
  <2>2. Seen' = Seen \cup {p}
    BY <1>3, <1>8 DEF Seen
  <2>3. \A q \in Path : parses'[q] = IF q \in Seen' THEN 1 ELSE 0
    BY <1>1, <1>3, <2>2 DEF SeenInv, Seen, TypeOK
  <2>4. QED
    BY <1>2, <1>3, <2>1, <2>2, <2>3, GraphUnchanged DEF SeenInv, p
<1>11. PassedInv'
  <2>1. ASSUME NEW i \in 1..n
        PROVE  frames'[i].todo \subseteq disk[frames'[i].path].imports
    BY <1>a, <1>4, <1>5 DEF PassedInv
  <2>2. ASSUME NEW i \in 1..n,
               NEW u \in disk[frames'[i].path].imports \ frames'[i].todo
        PROVE  u[1] \in Finished \/ (i < n + 1 /\ u[1] = stack'[i + 1])
    <3>1. CASE u \in frames[i].todo
      <4>1. i = n /\ u = t
        BY <3>1, <1>5
      <4>2. QED
        BY <4>1, <1>a, <1>6 DEF p
    <3>2. CASE u \notin frames[i].todo
      <4>1. u[1] \in Finished \/ (i < n /\ u[1] = stack[i + 1])
        BY <3>2, <1>a, <1>4, <1>5 DEF PassedInv
      <4>2. i < n => i + 1 \in 1..n
        BY <1>a
      <4>3. QED
        BY <4>1, <4>2, <1>a, <1>6
    <3>3. QED
      BY <3>1, <3>2
  <2>3. disk[frames'[n + 1].path].imports = frames'[n + 1].todo
    BY <1>5, <1>7
  <2>4. QED
    BY <1>a, <1>b, <1>3, <1>5, <1>6, <1>8, <2>1, <2>2, <2>3 DEF PassedInv
<1>12. FinishedInv'
  BY <1>3, <1>8, GraphUnchanged DEF FinishedInv
<1>13. MergeInv'
  <2>1. \A i \in 1..n : /\ \A q : HeldBy(i, q) => HeldBy(i, q)'
                        /\ FrameSyntax(i) => FrameSyntax(i)'
    BY <1>3, <1>5, SameHoldings
  <2>2. FrameSyntax(n + 1)'
    <3>1. Elements(<<p>>) = {p}
      BY DEF Elements
    <3>2. QED
      BY <1>5, <1>7, <3>1 DEF FrameSyntax, SameSyntax
  <2>3. ASSUME NEW i \in 1..(n + 1) PROVE FrameSyntax(i)'
    <3>1. CASE i \in 1..n
      BY <3>1, <1>a, <1>4, <2>1 DEF MergeInv
    <3>2. CASE i = n + 1
      BY <3>2, <2>2
    <3>3. QED
      BY <1>b, <3>1, <3>2
  <2>4. \A q \in Finished' : \E i \in 1..(n + 1) : HeldBy(i, q)'
    <3>1. 1..n \subseteq 1..(n + 1)
      BY <1>a
    <3>2. QED
      BY <1>4, <1>8, <2>1, <3>1 DEF MergeInv
  <2>5. QED
    BY <1>5, <2>3, <2>4 DEF MergeInv
<1>14. QED
  BY <1>9, <1>10, <1>11, <1>12, <1>13

\* What a concatenation and an extended sequence hold.
LEMMA ElementsConcat ==
    ASSUME NEW T, NEW s \in Seq(T), NEW u \in Seq(T)
    PROVE  Elements(s \o u) = Elements(s) \cup Elements(u)
<1>1. /\ Len(s) \in Nat /\ Len(u) \in Nat /\ Len(s \o u) = Len(s) + Len(u)
      /\ \A i \in 1..Len(s) : (s \o u)[i] = s[i]
      /\ \A i \in 1..Len(u) : (s \o u)[Len(s) + i] = u[i]
  OBVIOUS
<1>2. ASSUME NEW x \in Elements(s \o u) PROVE x \in Elements(s) \cup Elements(u)
  <2>1. PICK i \in 1..Len(s \o u) : x = (s \o u)[i]
    BY DEF Elements
  <2>2. CASE i <= Len(s)
    BY <2>1, <2>2, <1>1 DEF Elements
  <2>3. CASE i > Len(s)
    <3>1. i - Len(s) \in 1..Len(u) /\ i = Len(s) + (i - Len(s))
      BY <2>3, <1>1
    <3>2. x = u[i - Len(s)]
      BY <2>1, <3>1, <1>1
    <3>3. QED
      BY <3>1, <3>2 DEF Elements
  <2>4. QED
    BY <2>2, <2>3, <1>1
<1>3. Elements(s) \subseteq Elements(s \o u)
  BY <1>1 DEF Elements
<1>4. ASSUME NEW x \in Elements(u) PROVE x \in Elements(s \o u)
  <2>1. PICK i \in 1..Len(u) : x = u[i]
    BY DEF Elements
  <2>2. Len(s) + i \in 1..Len(s \o u)
    BY <1>1
  <2>3. x = (s \o u)[Len(s) + i]
    BY <2>1, <1>1
  <2>4. QED
    BY <2>2, <2>3 DEF Elements
<1>5. QED
  BY <1>2, <1>3, <1>4

\* Merging a nested API into the innermost activation.
LEMMA ApiMerged ==
    ASSUME TypeOK, RunInv, MergeNext, verdict' = "running"
    PROVE  RunInv'
<1> USE DEF RunInv
<1>0. PICK n \in Nat : n = Len(frames)
  BY DEF TypeOK
<1> DEFINE a == Head(Top.list)
<1>1. /\ disk' = disk /\ stack' = stack /\ importSet' = importSet /\ parses' = parses
      /\ frames # <<>> /\ frames \in Seq(Frame) /\ Top.list # <<>>
      /\ n \in 1..n /\ Top = frames[n] /\ Top \in Frame
      /\ verdict = "running"
  BY <1>0 DEF MergeNext, TypeOK, Top
<1>2. /\ disk[Top.path].syntax = disk[a.path].syntax
      /\ frames' = SetFrame(frames, Len(frames), MergedTop)
  BY <1>1 DEF MergeNext
<1>3. /\ Len(frames') = n
      /\ \A i \in 1..n :
           /\ frames'[i].path = frames[i].path
           /\ frames'[i].todo = frames[i].todo
           /\ i # n => frames'[i] = frames[i]
      /\ frames'[n].parts = Top.parts \o a.parts
      /\ frames'[n].list = Tail(Top.list)
  <2>1. LET F == SetFrame(frames, Len(frames), MergedTop) IN
        /\ Len(F) = Len(frames)
        /\ \A i \in 1..Len(frames) :
             /\ F[i].path = frames[i].path
             /\ F[i].todo = frames[i].todo
             /\ i # Len(frames) => F[i] = frames[i]
        /\ F[Len(frames)].parts = Top.parts \o Head(Top.list).parts
        /\ F[Len(frames)].list = Tail(Top.list)
    BY <1>1, MergeShape, Zenon
  <2>2. QED
    BY <1>0, <1>2, <2>1
<1>4. /\ Top.list \in Seq(API) /\ Len(Top.list) \in Nat /\ Len(Top.list) > 0
      /\ a = Top.list[1] /\ a \in API
      /\ Top.parts \in Seq(Path) /\ a.parts \in Seq(Path)
      /\ Len(Tail(Top.list)) = Len(Top.list) - 1
      /\ \A j \in 1..(Len(Top.list) - 1) : Tail(Top.list)[j] = Top.list[j + 1]
  <2>1. Top.list \in Seq(API) /\ Top.parts \in Seq(Path)
    BY <1>1 DEF Frame
  <2>2. Len(Top.list) \in Nat /\ Len(Top.list) > 0 /\ a = Top.list[1]
    BY <1>1, <2>1
  <2>3. a \in API
    BY <2>1, <2>2
  <2>4. QED
    BY <1>1, <2>1, <2>2, <2>3 DEF API
<1>5. Elements(Top.parts \o a.parts) = Elements(Top.parts) \cup Elements(a.parts)
  BY <1>4, ElementsConcat
<1> HIDE DEF a
<1>6. StackSet' = StackSet /\ Finished' = Finished /\ Seen' = Seen
  BY <1>1 DEF StackSet, Elements, Finished, Seen
<1>7. StackInv'
  BY <1>0, <1>1, <1>3, GraphUnchanged
     DEF StackInv, StackMirror, StackChain, StackDistinct, StackBottom
<1>8. SeenInv'
  BY <1>1, <1>6, GraphUnchanged DEF SeenInv
<1>9. PassedInv'
  BY <1>0, <1>1, <1>3, <1>6 DEF PassedInv
<1>10. FinishedInv'
  BY <1>1, <1>6, GraphUnchanged DEF FinishedInv
<1>11. ASSUME NEW i \in 1..n, i # n
       PROVE  /\ \A p : HeldBy(i, p) => HeldBy(i, p)'
              /\ FrameSyntax(i) => FrameSyntax(i)'
  BY <1>1, <1>3, <1>11, SameHoldings
<1>12. ASSUME NEW p, HeldBy(n, p) PROVE HeldBy(n, p)'
  <2>1. CASE p \in Elements(Top.parts) \/ p \in Elements(a.parts)
    BY <2>1, <1>3, <1>5 DEF HeldBy
  <2>2. ASSUME NEW j \in 2..Len(Top.list), p \in Elements(Top.list[j].parts)
        PROVE  HeldBy(n, p)'
    <3>1. j - 1 \in 1..(Len(Top.list) - 1) /\ (j - 1) + 1 = j
      BY <1>4
    <3>2. Tail(Top.list)[j - 1] = Top.list[j]
      BY <3>1, <1>4
    <3>3. \E k \in 1..Len(Tail(Top.list)) : p \in Elements(Tail(Top.list)[k].parts)
      BY <2>2, <3>1, <3>2, <1>4
    <3>4. QED
      BY <3>3, <1>3 DEF HeldBy
  <2>3. PICK j \in 1..Len(Top.list) :
          p \in Elements(Top.parts) \/ p \in Elements(Top.list[j].parts)
    BY <1>1, <1>4, <1>12 DEF HeldBy
  <2>4. j = 1 \/ j \in 2..Len(Top.list)
    BY <1>4
  <2>5. QED
    BY <2>1, <2>2, <2>3, <2>4, <1>4
<1>13. FrameSyntax(n)'
  <2>1. /\ Top.path \in Elements(Top.parts)
        /\ SameSyntax(Top.path, Top.parts)
        /\ \A j \in 1..Len(Top.list) :
             /\ Top.list[j].path \in importSet
             /\ SameSyntax(Top.list[j].path, Top.list[j].parts)
    BY <1>0, <1>1 DEF MergeInv, FrameSyntax
  <2>2. SameSyntax(Top.path, Top.parts \o a.parts)
    <3>1. SameSyntax(a.path, a.parts)
      BY <2>1, <1>4
    <3>2. QED
      BY <2>1, <3>1, <1>2, <1>5 DEF SameSyntax, a
  <2>3. \A j \in 1..Len(Tail(Top.list)) :
          /\ Tail(Top.list)[j].path \in importSet
          /\ SameSyntax(Tail(Top.list)[j].path, Tail(Top.list)[j].parts)
    <3>1. TAKE j \in 1..Len(Tail(Top.list))
    <3>2. j \in 1..(Len(Top.list) - 1) /\ j + 1 \in 1..Len(Top.list)
      BY <1>4
    <3>3. Tail(Top.list)[j] = Top.list[j + 1]
      BY <3>2, <1>4
    <3>4. QED
      BY <2>1, <3>2, <3>3
  <2>4. frames'[n].path = Top.path
    BY <1>1, <1>3
  <2>5. \A p, s : SameSyntax(p, s)' <=> SameSyntax(p, s)
    BY <1>1 DEF SameSyntax
  <2>6. QED
    BY <1>1, <1>3, <1>5, <2>1, <2>2, <2>3, <2>4, <2>5 DEF FrameSyntax
<1>14. MergeInv'
  <2>1. ASSUME NEW i \in 1..n
        PROVE  /\ \A p : HeldBy(i, p) => HeldBy(i, p)'
               /\ FrameSyntax(i)'
    <3>1. CASE i = n
      BY <3>1, <1>12, <1>13
    <3>2. CASE i # n
      BY <3>2, <1>0, <1>11 DEF MergeInv
    <3>3. QED
      BY <3>1, <3>2
  <2>2. QED
    BY <1>0, <1>3, <1>6, <2>1 DEF MergeInv
<1>15. QED
  BY <1>7, <1>8, <1>9, <1>10, <1>14

\* The innermost activation returns its API to its importer.
LEMMA NestedReturned ==
    ASSUME TypeOK, RunInv, ReturnNested
    PROVE  RunInv'
<1> USE DEF RunInv
<1>0. PICK n \in Nat : n = Len(frames) - 1 /\ n > 0
  <2>1. Len(frames) \in Nat
    BY DEF TypeOK
  <2>2. Len(frames) - 1 > 0
    BY DEF ReturnNested
  <2>3. Len(frames) - 1 \in Nat
    BY <2>1, <2>2
  <2>4. QED
    BY <2>2, <2>3
<1>1. /\ disk' = disk /\ importSet' = importSet /\ parses' = parses
      /\ stack' = SubSeq(stack, 1, Len(stack) - 1)
      /\ Top.todo = {} /\ Top.list = <<>>
      /\ frames' = SetFrame(SubSeq(frames, 1, n), n, Importer)
  BY <1>0 DEF ReturnNested
<1>2. /\ Len(frames) = n + 1 /\ Len(stack) = n + 1 /\ stack \in Seq(Path)
      /\ Top = frames[n + 1] /\ frames \in Seq(Frame)
  <2>1. Len(frames) = n + 1
    BY <1>0 DEF TypeOK
  <2>2. QED
    BY <2>1 DEF Top, TypeOK, StackInv, StackMirror
<1>3. /\ Len(frames') = n
      /\ \A i \in 1..n :
           /\ frames'[i].path = frames[i].path
           /\ frames'[i].parts = frames[i].parts
           /\ frames'[i].todo = frames[i].todo
           /\ i # n => frames'[i] = frames[i]
      /\ frames'[n].list = Append(frames[n].list, Returned)
  BY <1>0, <1>1, <1>2, ReturnShape
<1>4. /\ Len(stack') = n
      /\ \A i \in 1..n : stack'[i] = stack[i]
  BY <1>0, <1>1, <1>2
<1>5. /\ n \in 1..n /\ 1..n \subseteq 1..(n + 1) /\ n + 1 \in 2..(n + 1)
      /\ \A i \in 1..(n + 1) : i = n + 1 \/ i \in 1..n
  BY <1>0
<1> DEFINE p == Top.path
<1>6. /\ p = stack[n + 1] /\ p \in importSet
  BY <1>2, <1>5 DEF StackInv, StackMirror, StackBottom
<1>7. /\ StackSet = StackSet' \cup {p} /\ p \notin StackSet'
      /\ Finished' = Finished \cup {p} /\ p \notin Finished
      /\ Seen' = Seen
  <2>1. StackSet = StackSet' \cup {p}
    BY <1>2, <1>4, <1>5, <1>6 DEF StackSet, Elements
  <2>2. p \notin StackSet'
    <3>1. \A i \in 1..n : stack[i] # stack[n + 1]
      BY <1>0, <1>2, <1>5 DEF StackInv, StackDistinct
    <3>2. QED
      BY <3>1, <1>4, <1>6 DEF StackSet, Elements
  <2>3. QED
    BY <2>1, <2>2, <1>1, <1>6 DEF Finished, Seen
<1>8. Succ(p) \subseteq Finished
  <2>1. \A t \in disk[p].imports : t[1] \in Finished
    BY <1>0, <1>1, <1>2, <1>5 DEF PassedInv
  <2>2. QED
    BY <2>1 DEF Succ
<1>9. StackInv'
  <2>1. StackMirror'
    BY <1>2, <1>3, <1>4, <1>5 DEF StackInv, StackMirror
  <2>2. StackChain'
    <3>1. SUFFICES ASSUME NEW i \in 2..n
                   PROVE  (stack[i] \in Succ(stack[i - 1]))'
      BY <1>4 DEF StackChain
    <3>2. i \in 1..n /\ i - 1 \in 1..n /\ i \in 2..(n + 1)
      BY <1>0
    <3>3. stack[i] \in Succ(stack[i - 1])
      BY <1>2, <3>2 DEF StackInv, StackChain
    <3>4. QED
      BY <1>1, <1>4, <3>2, <3>3 DEF Succ
  <2>3. StackDistinct'
    BY <1>2, <1>4, <1>5 DEF StackInv, StackDistinct
  <2>4. StackBottom'
    <3>1. 2..n \subseteq 2..(n + 1) /\ 2..n \subseteq 1..n /\ 1 \in 1..n
      BY <1>0
    <3>2. QED
      BY <1>0, <1>1, <1>2, <1>4, <3>1 DEF StackInv, StackBottom
  <2>5. QED
    BY <2>1, <2>2, <2>3, <2>4 DEF StackInv
<1>10. SeenInv'
  BY <1>1, <1>7, GraphUnchanged DEF SeenInv
<1>11. PassedInv'
  <2>1. ASSUME NEW i \in 1..n,
               NEW u \in disk[frames[i].path].imports \ frames[i].todo
        PROVE  u[1] \in Finished' \/ (i < n /\ u[1] = stack'[i + 1])
    <3>1. u[1] \in Finished \/ u[1] = stack[i + 1]
      BY <1>2, <1>5 DEF PassedInv
    <3>2. CASE i = n
      BY <3>1, <3>2, <1>6, <1>7
    <3>3. CASE i # n
      <4>1. i < n /\ i + 1 \in 1..n
        BY <3>3, <1>0
      <4>2. QED
        BY <3>1, <4>1, <1>4, <1>7
    <3>4. QED
      BY <3>2, <3>3
  <2>2. \A i \in 1..n : frames[i].todo \subseteq disk[frames[i].path].imports
    BY <1>2, <1>5 DEF PassedInv
  <2>3. ASSUME NEW i \in 1..n
        PROVE  /\ frames'[i].todo \subseteq disk'[frames'[i].path].imports
               /\ \A u \in disk'[frames'[i].path].imports \ frames'[i].todo :
                    u[1] \in Finished' \/ (i < n /\ u[1] = stack'[i + 1])
    <3>1. disk' = disk /\ frames'[i].path = frames[i].path /\ frames'[i].todo = frames[i].todo
      BY <1>1, <1>3
    <3>2. QED
      BY <3>1, <2>1, <2>2
  <2>4. Len(frames') = n /\ Len(stack') = n
    BY <1>3, <1>4
  <2>5. QED
    BY <2>3, <2>4 DEF PassedInv
<1>12. FinishedInv'
  <2>1. Acyclic(Finished \cup {p})
    BY <1>7, <1>8, AcyclicExtend DEF FinishedInv
  <2>2. \A q \in Finished \cup {p} : Succ(q) \subseteq Finished \cup {p}
    BY <1>8 DEF FinishedInv
  <2>3. QED
    BY <1>1, <1>7, <2>1, <2>2, GraphUnchanged DEF FinishedInv
<1>13. MergeInv'
  <2>1. /\ frames[n].list \in Seq(API)
        /\ Returned.path = p /\ Returned.parts = Top.parts
    <3>1. frames[n] \in Frame
      BY <1>2, <1>5
    <3>2. frames[n].list \in Seq(API)
      BY <3>1 DEF Frame
    <3>3. Returned.path = p /\ Returned.parts = Top.parts
      BY DEF Returned
    <3>4. QED
      BY <3>2, <3>3
  <2>2. /\ Len(frames'[n].list) = Len(frames[n].list) + 1
        /\ Len(frames[n].list) \in Nat
        /\ frames'[n].list[Len(frames[n].list) + 1] = Returned
        /\ \A j \in 1..Len(frames[n].list) : frames'[n].list[j] = frames[n].list[j]
    BY <1>3, <2>1
  <2>3. PICK m \in Nat : m = Len(frames[n].list)
    BY <2>2
  <2>4. \A j \in 1..(m + 1) : j = m + 1 \/ j \in 1..m
    BY <2>3
  <2>5. m + 1 \in 1..(m + 1) /\ 1..m \subseteq 1..(m + 1)
    BY <2>3
  <2>6. \A q \in Elements(Top.parts) : HeldBy(n, q)'
    BY <2>1, <2>2, <2>3, <2>5 DEF HeldBy
  <2>7. \A q : HeldBy(n, q) => HeldBy(n, q)'
    BY <1>3, <1>5, <2>2, <2>3, <2>5 DEF HeldBy
  <2>8. \A i \in 1..n : i # n => /\ \A q : HeldBy(i, q) => HeldBy(i, q)'
                                 /\ FrameSyntax(i) => FrameSyntax(i)'
    BY <1>1, <1>3, SameHoldings
  <2>9. ASSUME NEW q \in Finished' PROVE \E i \in 1..n : HeldBy(i, q)'
    <3>1. CASE q = p
      <4>1. p \in Elements(Top.parts)
        BY <1>2, <1>5 DEF MergeInv, FrameSyntax
      <4>2. QED
        BY <3>1, <4>1, <2>6, <1>5
    <3>2. CASE q \in Finished
      <4>1. PICK i \in 1..(n + 1) : HeldBy(i, q)
        BY <3>2, <1>2 DEF MergeInv
      <4>2. CASE i = n + 1
        <5>1. q \in Elements(Top.parts)
          BY <4>1, <4>2, <1>1, <1>2 DEF HeldBy
        <5>2. QED
          BY <5>1, <2>6, <1>5
      <4>3. CASE i = n
        BY <4>1, <4>3, <2>7, <1>5
      <4>4. CASE i \in 1..n /\ i # n
        BY <4>1, <4>4, <2>8
      <4>5. QED
        BY <4>2, <4>3, <4>4, <1>5
    <3>3. QED
      BY <3>1, <3>2, <1>7
  <2>10. \A x, s : SameSyntax(x, s)' <=> SameSyntax(x, s)
    BY <1>1 DEF SameSyntax
  <2>11. FrameSyntax(n)'
    <3>1. FrameSyntax(n) /\ FrameSyntax(n + 1)
      BY <1>2, <1>5 DEF MergeInv
    <3>2. SameSyntax(p, Top.parts)
      BY <3>1, <1>2 DEF FrameSyntax
    <3>3. \A j \in 1..(m + 1) :
            /\ frames'[n].list[j].path \in importSet
            /\ SameSyntax(frames'[n].list[j].path, frames'[n].list[j].parts)
      <4>1. ASSUME NEW j \in 1..m
            PROVE  /\ frames[n].list[j].path \in importSet
                   /\ SameSyntax(frames[n].list[j].path, frames[n].list[j].parts)
        BY <3>1, <2>3 DEF FrameSyntax
      <4>2. QED
        BY <4>1, <3>2, <1>6, <2>1, <2>2, <2>3, <2>4
    <3>4. /\ frames'[n].path \in Elements(frames'[n].parts)
          /\ SameSyntax(frames'[n].path, frames'[n].parts)
      BY <3>1, <1>3, <1>5 DEF FrameSyntax
    <3>5. Len(frames'[n].list) = m + 1
      BY <2>2, <2>3
    <3>6. QED
      BY <1>1, <3>3, <3>4, <3>5, <2>10 DEF FrameSyntax
  <2>12. ASSUME NEW i \in 1..n PROVE FrameSyntax(i)'
    <3>1. CASE i = n
      BY <3>1, <2>11
    <3>2. CASE i # n
      BY <3>2, <2>8, <1>2, <1>5 DEF MergeInv
    <3>3. QED
      BY <3>1, <3>2
  <2>13. QED
    BY <1>3, <2>9, <2>12 DEF MergeInv
<1>14. QED
  BY <1>9, <1>10, <1>11, <1>12, <1>13

-----------------------------------------------------------------------------
(* The invariant *)

\* A file that cannot be read ends the run: it was reachable, it was read once,
\* and the project is not a good one.
LEMMA BadFile ==
    ASSUME TypeOK, RunInv, NEW p \in Reachable, p \notin Seen, disk[p].kind # "ok",
           disk' = disk, parses' = [parses EXCEPT ![p] = @ + 1],
           verdict' \in {"fatal", "panic", "error"}
    PROVE  ParsedAtMostOnce' /\ VerdictIndependentOfOrder' /\ CycleIsReal'
<1>1. Reachable' = Reachable /\ (GoodProject' <=> GoodProject)
  BY GraphUnchanged
<1>2. ASSUME NEW q \in Path
      PROVE  parses'[q] <= IF q \in Reachable THEN 1 ELSE 0
  <2>1. CASE q = p
    BY <2>1 DEF RunInv, SeenInv, TypeOK
  <2>2. CASE q # p
    <3>1. parses'[q] = parses[q]
      BY <2>2 DEF TypeOK
    <3>2. QED
      BY <3>1, RunParsedOnce DEF RunInv, ParsedAtMostOnce
  <2>3. QED
    BY <2>1, <2>2
<1>3. ParsedAtMostOnce'
  BY <1>1, <1>2 DEF ParsedAtMostOnce
<1>4. ~GoodProject
  BY DEF GoodProject
<1>5. QED
  BY <1>1, <1>3, <1>4 DEF VerdictIndependentOfOrder, CycleIsReal

\* A verdict on the import graph alone leaves the parse counts as they are.
LEMMA GraphVerdict ==
    ASSUME TypeOK, RunInv, disk' = disk, parses' = parses,
           verdict' = "merged" <=> GoodProject,
           verdict' = "cycle" => ~Acyclic(Reachable)
    PROVE  ParsedAtMostOnce' /\ VerdictIndependentOfOrder' /\ CycleIsReal'
<1>1. /\ Reachable' = Reachable /\ (GoodProject' <=> GoodProject)
      /\ Acyclic(Reachable)' <=> Acyclic(Reachable)
  <2>1. \A S : Acyclic(S)' <=> Acyclic(S)
    BY GraphUnchanged
  <2>2. Reachable' = Reachable /\ (GoodProject' <=> GoodProject)
    BY GraphUnchanged
  <2>3. QED
    BY <2>1, <2>2 DEF Acyclic
<1>2. ParsedAtMostOnce'
  BY <1>1, RunParsedOnce DEF RunInv, ParsedAtMostOnce
<1>3. QED
  BY <1>1, <1>2 DEF VerdictIndependentOfOrder, CycleIsReal

\* Two files that meet in a merge are reachable.
LEMMA MergeMismatch ==
    ASSUME TypeOK, RunInv, frames # <<>>, Top.list # <<>>,
           disk[Top.path].syntax # disk[Head(Top.list).path].syntax
    PROVE  ~GoodProject
<1>1. Len(frames) \in 1..Len(frames) /\ Top = frames[Len(frames)] /\ Top \in Frame
  BY DEF TypeOK, Top
<1>2. Top.list \in Seq(API) /\ 1 \in 1..Len(Top.list) /\ Head(Top.list) = Top.list[1]
  BY <1>1 DEF Frame
<1>3. Head(Top.list).path \in importSet
  BY <1>1, <1>2 DEF RunInv, MergeInv, FrameSyntax
<1>4. Top.path \in StackSet
  BY <1>1 DEF RunInv, StackInv, StackMirror, StackSet, Elements
<1>5. Top.path \in Reachable /\ Head(Top.list).path \in Reachable
  BY <1>3, <1>4, SeenReachable DEF RunInv, Seen
<1>6. QED
  BY <1>5 DEF GoodProject

\* The inductive invariant holds in every state.
THEOREM ImportInvariant == Spec => []ImportInv
<1>1. Init => ImportInv
  <2> SUFFICES ASSUME Init PROVE ImportInv
    OBVIOUS
  <2>1. TypeOK
    BY DEF Init, TypeOK, Verdict
  <2>2. stack = <<>> /\ frames = <<>> /\ importSet = {} /\ verdict = "running"
    BY DEF Init
  <2>3. StackSet = {} /\ Seen = {} /\ Finished = {}
    BY <2>2 DEF StackSet, Seen, Finished, Elements
  <2>4. StackInv
    BY <2>2 DEF StackInv, StackMirror, StackChain, StackDistinct, StackBottom
  <2>5. SeenInv
    BY <2>2, <2>3 DEF SeenInv, Init
  <2>6. PassedInv /\ FinishedInv /\ MergeInv
    BY <2>2, <2>3 DEF PassedInv, FinishedInv, Acyclic, MergeInv
  <2>7. ParsedAtMostOnce
    BY <2>1, <2>4, <2>5, RunParsedOnce
  <2>8. QED
    BY <2>1, <2>2, <2>4, <2>5, <2>6, <2>7
       DEF ImportInv, RunInv, VerdictIndependentOfOrder, CycleIsReal
<1>2. TypeOK' /\ ImportInv /\ [Next]_vars => ImportInv'
  <2> SUFFICES ASSUME TypeOK', ImportInv, [Next]_vars
               PROVE  ImportInv'
    OBVIOUS
  <2>0. TypeOK /\ (verdict = "running" => RunInv)
    BY DEF ImportInv
  <2>1. (TypeOK /\ StackInv /\ SeenInv)' => ParsedAtMostOnce'
    BY RunParsedOnce, PTL
  \* While the run goes on, RunInv' is all there is to show.
  <2>2. ASSUME verdict' = "running", RunInv'
        PROVE  ImportInv'
    BY <2>1, <2>2 DEF ImportInv, RunInv, VerdictIndependentOfOrder, CycleIsReal
  <2>3. ASSUME verdict' # "running",
               ParsedAtMostOnce', VerdictIndependentOfOrder', CycleIsReal'
        PROVE  ImportInv'
    BY <2>3 DEF ImportInv
  <2>4. CASE ParseRoot
    <3>1. CASE disk[Root].kind = "ok"
      <4>1. verdict' = "running"
        BY <2>4, <3>1 DEF ParseRoot
      <4>2. QED
        BY <2>0, <2>2, <2>4, <4>1, RootParsed
    <3>2. CASE disk[Root].kind # "ok"
      <4>1. RunInv /\ frames = <<>> /\ disk' = disk
        BY <2>0, <2>4 DEF ParseRoot
      <4>2. Root \in Reachable
        BY <2>0, ReachableClosed DEF Closed
      <4>3. Root \notin Seen
        <5>1. Len(stack) = 0
          BY <4>1 DEF RunInv, StackInv, StackMirror
        <5>2. QED
          BY <5>1, <4>1 DEF Seen, StackSet, Elements, RunInv, StackInv, StackBottom
      <4>4. verdict' \in {"fatal", "panic", "error"}
        BY <2>0, <2>4, <3>2, FailureType, ImportAssumption DEF ParseRoot, TypeOK, File
      <4>5. parses' = [parses EXCEPT ![Root] = @ + 1]
        BY <2>4 DEF ParseRoot
      <4>6. ParsedAtMostOnce' /\ VerdictIndependentOfOrder' /\ CycleIsReal'
        BY <2>0, <3>2, <4>1, <4>2, <4>3, <4>4, <4>5, BadFile
      <4>7. QED
        BY <2>3, <4>4, <4>6
    <3>3. QED
      BY <3>1, <3>2
  <2>5. ASSUME NEW t \in Text, ImportCycle(t)
        PROVE  ImportInv'
    <3>1. RunInv /\ AtImport(t) /\ OnStack(t[1])
      BY <2>0, <2>5 DEF ImportCycle, AtImport
    <3>2. ~Acyclic(Reachable)
      BY <2>0, <3>1, CycleFound
    <3>3. ~GoodProject
      BY <3>2 DEF GoodProject
    <3>4. disk' = disk /\ parses' = parses /\ verdict' = "cycle"
      BY <2>5 DEF ImportCycle
    <3>5. QED
      BY <2>0, <2>3, <3>1, <3>2, <3>3, <3>4, GraphVerdict
  <2>6. ASSUME NEW t \in Text, SkipImported(t)
        PROVE  ImportInv'
    <3>1. RunInv /\ verdict' = "running"
      BY <2>0, <2>6 DEF SkipImported, AtImport
    <3>2. QED
      BY <2>0, <2>2, <2>6, <3>1, ImportSkipped
  <2>7. ASSUME NEW t \in Text, EnterImport(t)
        PROVE  ImportInv'
    <3>1. RunInv /\ AtImport(t) /\ verdict = "running" /\ disk' = disk
      BY <2>0, <2>7 DEF EnterImport, AtImport
    <3>2. CASE disk[t[1]].kind = "ok"
      <4>1. verdict' = "running"
        BY <2>7, <3>1, <3>2 DEF EnterImport
      <4>2. QED
        BY <2>0, <2>2, <2>7, <3>1, <4>1, ImportEntered
    <3>3. CASE disk[t[1]].kind # "ok"
      <4>1. t[1] \in Reachable /\ t[1] \in Path
        BY <2>0, <3>1, TopImportReachable
      <4>2. t[1] \notin Seen
        BY <2>0, <2>7 DEF EnterImport, OnStack, Seen, StackSet, Elements, TypeOK
      <4>3. verdict' \in {"fatal", "panic", "error"}
        <5>1. disk[t[1]].kind \in FileKind
          BY <2>0, <4>1, ImportAssumption DEF TypeOK, File
        <5>2. QED
          BY <2>7, <3>3, <5>1, FailureType DEF EnterImport
      <4>4. parses' = [parses EXCEPT ![t[1]] = @ + 1]
        BY <2>7 DEF EnterImport
      <4>5. ParsedAtMostOnce' /\ VerdictIndependentOfOrder' /\ CycleIsReal'
        BY <2>0, <3>1, <3>3, <4>1, <4>2, <4>3, <4>4, BadFile
      <4>6. QED
        BY <2>3, <4>3, <4>5
    <3>4. QED
      BY <3>2, <3>3
  <2>8. CASE MergeNext
    <3>1. /\ RunInv /\ disk' = disk /\ parses' = parses
          /\ frames # <<>> /\ Top.list # <<>>
      BY <2>0, <2>8 DEF MergeNext
    <3>2. CASE disk[Top.path].syntax = disk[Head(Top.list).path].syntax
      <4>1. verdict' = "running"
        BY <2>8, <3>2 DEF MergeNext
      <4>2. QED
        BY <2>0, <2>2, <2>8, <3>1, <4>1, ApiMerged
    <3>3. CASE disk[Top.path].syntax # disk[Head(Top.list).path].syntax
      <4>1. verdict' = "syntax"
        BY <2>8, <3>3 DEF MergeNext
      <4>2. ~GoodProject
        BY <2>0, <3>1, <3>3, MergeMismatch
      <4>3. QED
        BY <2>0, <2>3, <3>1, <4>1, <4>2, GraphVerdict
    <3>4. QED
      BY <3>2, <3>3
  <2>9. CASE ReturnNested
    <3>1. RunInv /\ verdict' = "running"
      BY <2>0, <2>9 DEF ReturnNested
    <3>2. QED
      BY <2>0, <2>2, <2>9, <3>1, NestedReturned
  <2>10. CASE ReturnRoot
    <3>1. /\ RunInv /\ disk' = disk /\ parses' = parses /\ verdict' = "merged"
          /\ Len(frames) = 1 /\ Top.todo = {} /\ Top.list = <<>>
      BY <2>0, <2>10 DEF ReturnRoot
    <3>2. GoodProject
      BY <2>0, <3>1, RootReturnsGood
    <3>3. QED
      BY <2>0, <2>3, <3>1, <3>2, GraphVerdict
  <2>11. CASE UNCHANGED vars
    <3>1. ImportInv' <=> ImportInv
      BY <2>11 DEF vars, ImportInv, TypeOK, RunInv, StackInv, StackMirror, StackChain,
         StackDistinct, StackBottom, SeenInv, PassedInv, FinishedInv, MergeInv, HeldBy,
         FrameSyntax, SameSyntax, Seen, Finished, StackSet, Succ, Closed, Reachable,
         Acyclic, GoodProject, ParsedAtMostOnce, VerdictIndependentOfOrder, CycleIsReal, Top
    <3>2. QED
      BY <3>1
  <2>12. QED
    BY <2>4, <2>5, <2>6, <2>7, <2>8, <2>9, <2>10, <2>11 DEF Next
<1>3. QED
  BY <1>1, <1>2, TypeCorrect, PTL DEF Spec

\* A file is parsed at most once however many import it, and one that no chain of
\* imports reaches is never read (importSet in parseImportedAPI).
THEOREM FilesParsedOnce == Spec => []ParsedAtMostOnce
<1>1. ImportInv => ParsedAtMostOnce
  BY DEF ImportInv
<1>2. QED
  BY <1>1, ImportInvariant, PTL

\* Whether Parse gets past the imports is a property of the project, not of the
\* order in which Go iterates over importValueSet.
THEOREM OrderDoesNotMatter == Spec => []VerdictIndependentOfOrder
<1>1. ImportInv => VerdictIndependentOfOrder
  BY DEF ImportInv
<1>2. QED
  BY <1>1, ImportInvariant, PTL

\* A cycle that Push reports is a cycle among the reachable files.
THEOREM ReportedCycleIsReal == Spec => []CycleIsReal
<1>1. ImportInv => CycleIsReal
  BY DEF ImportInv
<1>2. QED
  BY <1>1, ImportInvariant, PTL

\* The import stack mirrors the recursion of parseReverse while Parse runs.
THEOREM StackMirrorsCalls == Spec => []StackIsImportChain
<1>1. ImportInv => StackIsImportChain
  <2> SUFFICES ASSUME ImportInv, verdict = "running"
               PROVE  StackIsImportChain
    BY DEF StackIsImportChain
  <2>1. StackInv /\ DOMAIN stack = 1..Len(stack)
    BY DEF ImportInv, RunInv, TypeOK
  <2>2. QED
    BY <2>1 DEF StackInv, StackMirror, StackChain, StackDistinct, StackIsImportChain
<1>2. QED
  BY <1>1, ImportInvariant, PTL
-----------------------------------------------------------------------------
(***************************************************************************)
(* Where the statements of a file are while Parse runs.  Place <<i, j, k>> *)
(* is the k-th part of activation i itself (j = 0) or of the j-th nested   *)
(* API it has yet to merge.  Entering a file adds one place, a merge and a *)
(* return move places, and no two places ever hold the same file.          *)
(***************************************************************************)
Holds(i, j) == IF j = 0 THEN frames[i].parts ELSE frames[i].list[j].parts

IsPlace(i, j, k) ==
    /\ i \in 1..Len(frames)
    /\ j \in 0..Len(frames[i].list)
    /\ k \in 1..Len(Holds(i, j))

\* A file is held in one place at most.
PlacesDiffer ==
    \A i, j, k, x, y, z :
      /\ IsPlace(i, j, k) /\ IsPlace(x, y, z)
      /\ Holds(i, j)[k] = Holds(x, y)[z]
      => i = x /\ j = y /\ k = z

\* Only the root and files of importSet are held.
KnownHeld == \A i, j, k : IsPlace(i, j, k) => Holds(i, j)[k] \in importSet \cup {Root}

HeldOnce == PlacesDiffer /\ KnownHeld

\* An activation whose parts and list stay as they are keeps its places.
LEMMA SamePlaces ==
    ASSUME NEW i, i \in 1..Len(frames), i \in 1..Len(frames'),
           frames'[i].parts = frames[i].parts,
           frames'[i].list = frames[i].list
    PROVE  \A j, k : /\ IsPlace(i, j, k)' <=> IsPlace(i, j, k)
                     /\ Holds(i, j)' = Holds(i, j)
<1>1. \A j : Holds(i, j)' = Holds(i, j)
  BY DEF Holds
<1>2. QED
  BY <1>1 DEF IsPlace

\* Steps that move no place keep the invariant.
LEMMA PlacesKept ==
    ASSUME HeldOnce, importSet' = importSet,
           Len(frames') = Len(frames),
           \A i \in 1..Len(frames) : /\ frames'[i].parts = frames[i].parts
                                     /\ frames'[i].list = frames[i].list
    PROVE  HeldOnce'
<1>1. \A i \in 1..Len(frames) : \A j, k : /\ IsPlace(i, j, k)' <=> IsPlace(i, j, k)
                                          /\ Holds(i, j)' = Holds(i, j)
  BY SamePlaces
<1>2. \A i, j, k : IsPlace(i, j, k)' => /\ IsPlace(i, j, k)
                                        /\ Holds(i, j)' = Holds(i, j)
  <2>1. \A i, j, k : IsPlace(i, j, k)' => i \in 1..Len(frames)
    BY DEF IsPlace
  <2>2. QED
    BY <1>1, <2>1
<1>3. PlacesDiffer'
  BY <1>2 DEF HeldOnce, PlacesDiffer
<1>4. KnownHeld'
  BY <1>2 DEF HeldOnce, KnownHeld
<1>5. QED
  BY <1>3, <1>4 DEF HeldOnce

\* The root file holds itself.
LEMMA RootHeldOnce ==
    ASSUME TypeOK, ParseRoot, disk[Root].kind = "ok"
    PROVE  HeldOnce'
<1>1. /\ Len(frames') = 1 /\ frames'[1].parts = <<Root>> /\ frames'[1].list = <<>>
  BY ImportAssumption, InitFrameShape DEF ParseRoot, TypeOK
<1>2. \A i, j, k : IsPlace(i, j, k)' => i = 1 /\ j = 0 /\ k = 1 /\ Holds(i, j)'[k] = Root
  <2> SUFFICES ASSUME NEW i, NEW j, NEW k, IsPlace(i, j, k)'
               PROVE  i = 1 /\ j = 0 /\ k = 1 /\ Holds(i, j)'[k] = Root
    OBVIOUS
  <2>1. i = 1 /\ j \in 0..Len(frames'[i].list) /\ k \in 1..Len(Holds(i, j)')
    BY <1>1 DEF IsPlace
  <2>2. j = 0
    BY <1>1, <2>1
  <2>3. Holds(i, j)' = <<Root>> /\ Len(<<Root>>) = 1 /\ <<Root>>[1] = Root
    BY <1>1, <2>1, <2>2 DEF Holds
  <2>4. k = 1 /\ Holds(i, j)'[k] = Root
    BY <2>1, <2>3
  <2>5. QED
    BY <2>1, <2>2, <2>4
<1>3. PlacesDiffer'
  BY <1>2 DEF PlacesDiffer
<1>4. KnownHeld'
  BY <1>2 DEF KnownHeld
<1>5. QED
  BY <1>3, <1>4 DEF HeldOnce

\* A file that is entered is held nowhere yet.
LEMMA EnteredHeldOnce ==
    ASSUME TypeOK, RunInv, HeldOnce, NEW t \in Text, EnterImport(t), verdict' = "running"
    PROVE  HeldOnce'
<1> DEFINE p == t[1]
<1>0. PICK n \in Nat : n = Len(frames)
  BY DEF TypeOK
<1>1. /\ frames # <<>> /\ p \in Path /\ p \notin importSet /\ n \in 1..n
      /\ disk \in [Path -> File] /\ frames \in Seq(Frame)
      /\ importSet' = importSet \cup {p}
  BY <1>0 DEF EnterImport, AtImport, TypeOK, Text
<1>2. p # Root
  <2>1. Len(stack) = n /\ stack[1] = Root /\ stack \in Seq(Path)
    BY <1>0, <1>1 DEF RunInv, StackInv, StackMirror, StackBottom, TypeOK
  <2>2. QED
    BY <1>1, <2>1 DEF EnterImport, OnStack
<1>3. frames' = Append(TakeImport(t), InitFrame(p))
  <2>1. disk[p].kind # "ok" => Failure(disk[p].kind) # "running"
    BY <1>1, FailureType, ImportAssumption DEF TypeOK, File
  <2>2. QED
    BY <2>1 DEF EnterImport
<1>4. /\ TakeImport(t) \in Seq(Frame) /\ Len(TakeImport(t)) = n
      /\ \A i \in 1..n : /\ TakeImport(t)[i].parts = frames[i].parts
                         /\ TakeImport(t)[i].list = frames[i].list
  BY <1>0, <1>1, TakeImportShape
<1>5. InitFrame(p).parts = <<p>> /\ InitFrame(p).list = <<>>
  BY <1>1, InitFrameShape
<1> HIDE DEF p
<1>6. /\ Len(frames') = n + 1
      /\ frames'[n + 1].parts = <<p>> /\ frames'[n + 1].list = <<>>
      /\ \A i \in 1..n : /\ frames'[i].parts = frames[i].parts
                         /\ frames'[i].list = frames[i].list
  BY <1>0, <1>3, <1>4, <1>5
<1>7. \A i \in 1..n : \A j, k : /\ IsPlace(i, j, k)' <=> IsPlace(i, j, k)
                                /\ Holds(i, j)' = Holds(i, j)
  <2>1. \A i \in 1..n : i \in 1..Len(frames) /\ i \in 1..Len(frames')
    BY <1>0, <1>6
  <2>2. QED
    BY <1>6, <2>1, SamePlaces
<1>8. ASSUME NEW i, i = n + 1, NEW j, NEW k, IsPlace(i, j, k)'
      PROVE  j = 0 /\ k = 1 /\ Holds(i, j)'[k] = p
  <2>1. j \in 0..Len(frames'[i].list) /\ k \in 1..Len(Holds(i, j)')
    BY <1>8 DEF IsPlace
  <2>2. j = 0
    BY <1>6, <1>8, <2>1
  <2>3. Holds(i, j)' = <<p>> /\ Len(<<p>>) = 1 /\ <<p>>[1] = p
    BY <1>6, <1>8, <2>2 DEF Holds
  <2>4. k = 1 /\ Holds(i, j)'[k] = p
    BY <2>1, <2>3
  <2>5. QED
    BY <2>2, <2>4
<1>9. ASSUME NEW i, NEW j, NEW k, IsPlace(i, j, k)'
      PROVE  \/ IsPlace(i, j, k) /\ Holds(i, j)'[k] = Holds(i, j)[k]
             \/ i = n + 1 /\ j = 0 /\ k = 1 /\ Holds(i, j)'[k] = p
  <2>1. i \in 1..n \/ i = n + 1
    BY <1>6, <1>9 DEF IsPlace
  <2>2. QED
    BY <1>7, <1>8, <1>9, <2>1
<1>10. \A i, j, k : IsPlace(i, j, k) => Holds(i, j)[k] # p
  BY <1>1, <1>2 DEF HeldOnce, KnownHeld
<1>11. PlacesDiffer'
  BY <1>9, <1>10 DEF HeldOnce, PlacesDiffer
<1>12. KnownHeld'
  BY <1>1, <1>9 DEF HeldOnce, KnownHeld
<1>13. QED
  BY <1>11, <1>12 DEF HeldOnce

\* What a concatenation of two lists of parts holds at each index.
LEMMA ConcatParts ==
    ASSUME NEW s \in Seq(Path), NEW u \in Seq(Path), NEW m \in Nat, m = Len(s)
    PROVE  /\ Len(u) \in Nat /\ Len(s \o u) = m + Len(u)
           /\ \A k \in 1..(m + Len(u)) : /\ k <= m => (s \o u)[k] = s[k]
                                         /\ k > m => (s \o u)[k] = u[k - m]
<1>1. /\ Len(u) \in Nat /\ Len(s \o u) = Len(s) + Len(u)
      /\ \A k \in 1..Len(s) : (s \o u)[k] = s[k]
      /\ \A k \in 1..Len(u) : (s \o u)[Len(s) + k] = u[k]
  OBVIOUS
<1>2. ASSUME NEW k \in 1..(m + Len(u)), k > m
      PROVE  (s \o u)[k] = u[k - m]
  <2>1. k - m \in 1..Len(u) /\ k = Len(s) + (k - m)
    BY <1>1, <1>2
  <2>2. (s \o u)[Len(s) + (k - m)] = u[k - m]
    BY <1>1, <2>1
  <2>3. QED
    BY <2>1, <2>2
<1>3. ASSUME NEW k \in 1..(m + Len(u)), k <= m
      PROVE  (s \o u)[k] = s[k]
  BY <1>1, <1>3
<1>4. QED
  BY <1>1, <1>2, <1>3

\* A merge moves the parts of the first nested API behind those of the activation.
LEMMA MergedHeldOnce ==
    ASSUME TypeOK, HeldOnce, MergeNext, verdict' = "running"
    PROVE  HeldOnce'
<1>0. PICK n \in Nat : n = Len(frames)
  BY DEF TypeOK
<1> DEFINE a == Head(Top.list)
<1>1. /\ frames # <<>> /\ Top.list # <<>> /\ frames \in Seq(Frame) /\ importSet' = importSet
      /\ n \in 1..n /\ Top = frames[n] /\ Top \in Frame
      /\ frames' = SetFrame(frames, Len(frames), MergedTop)
  BY <1>0 DEF MergeNext, TypeOK, Top
<1>2. /\ Len(frames') = n
      /\ \A i \in 1..n : i # n => frames'[i] = frames[i]
      /\ frames'[n].parts = Top.parts \o a.parts
      /\ frames'[n].list = Tail(Top.list)
  <2>1. LET F == SetFrame(frames, Len(frames), MergedTop) IN
        /\ Len(F) = Len(frames)
        /\ \A i \in 1..Len(frames) : i # Len(frames) => F[i] = frames[i]
        /\ F[Len(frames)].parts = Top.parts \o Head(Top.list).parts
        /\ F[Len(frames)].list = Tail(Top.list)
    BY <1>1, MergeShape, Zenon
  <2>2. QED
    BY <1>0, <1>1, <2>1
<1>3. Top.list \in Seq(API) /\ Top.parts \in Seq(Path)
  BY <1>1 DEF Frame
<1>4. /\ Len(Top.list) \in Nat /\ Len(Top.list) > 0 /\ a = Top.list[1] /\ a \in API
      /\ Len(Tail(Top.list)) = Len(Top.list) - 1
      /\ \A j \in 1..(Len(Top.list) - 1) : Tail(Top.list)[j] = Top.list[j + 1]
  BY <1>1, <1>3
<1>5. a.parts \in Seq(Path)
  BY <1>4 DEF API
<1> HIDE DEF a
<1>6. PICK m \in Nat : m = Len(Top.parts)
  BY <1>3
<1>7. PICK l \in Nat : l = Len(Top.list)
  BY <1>4
<1>8. /\ Len(Top.parts \o a.parts) = m + Len(a.parts) /\ Len(a.parts) \in Nat
      /\ \A k \in 1..(m + Len(a.parts)) :
           /\ k <= m => (Top.parts \o a.parts)[k] = Top.parts[k]
           /\ k > m => (Top.parts \o a.parts)[k] = a.parts[k - m]
  BY <1>3, <1>5, <1>6, ConcatParts
<1> DEFINE From(i, j, k, x, y, z) ==
      \/ (i # n \/ (j = 0 /\ k <= m)) /\ x = i /\ y = j /\ z = k
      \/ i = n /\ j = 0 /\ k > m /\ x = n /\ y = 1 /\ z = k - m
      \/ i = n /\ j > 0 /\ x = n /\ y = j + 1 /\ z = k
<1>9. ASSUME NEW i, NEW j, NEW k, IsPlace(i, j, k)'
      PROVE  /\ j \in Nat /\ k \in Nat
             /\ \E x, y, z : /\ IsPlace(x, y, z) /\ From(i, j, k, x, y, z)
                             /\ Holds(x, y)[z] = Holds(i, j)'[k]
  <2>1. i \in 1..n /\ j \in 0..Len(frames'[i].list) /\ k \in 1..Len(Holds(i, j)')
    BY <1>2, <1>9 DEF IsPlace
  <2>2. CASE i # n
    <3>1. Holds(i, j)' = Holds(i, j) /\ IsPlace(i, j, k)
      BY <1>0, <1>2, <2>1, <2>2 DEF Holds, IsPlace
    <3>2. j \in Nat /\ k \in Nat
      BY <2>1
    <3>3. QED
      BY <2>2, <3>1, <3>2
  <2>3. CASE i = n /\ j = 0
    <3>1. Holds(i, j)' = Top.parts \o a.parts
      BY <1>2, <2>3 DEF Holds
    <3>2. k \in 1..(m + Len(a.parts))
      BY <1>8, <2>1, <3>1
    <3>3. CASE k <= m
      <4>1. Holds(i, j) = Top.parts
        BY <1>1, <2>3 DEF Holds
      <4>2. IsPlace(i, j, k)
        BY <1>0, <1>1, <1>6, <1>7, <2>1, <2>3, <3>2, <3>3, <4>1 DEF IsPlace
      <4>3. Holds(i, j)[k] = Holds(i, j)'[k]
        BY <1>8, <3>1, <3>2, <3>3, <4>1
      <4>4. QED
        BY <2>3, <3>2, <3>3, <4>2, <4>3
    <3>4. CASE k > m
      <4>1. k - m \in 1..Len(a.parts)
        BY <1>8, <3>2, <3>4
      <4>2. Holds(n, 1) = a.parts
        BY <1>1, <1>4 DEF Holds
      <4>3. 1 \in 0..Len(frames[n].list)
        BY <1>1, <1>4
      <4>4. IsPlace(n, 1, k - m)
        BY <1>0, <1>1, <4>1, <4>2, <4>3 DEF IsPlace
      <4>5. Holds(n, 1)[k - m] = Holds(i, j)'[k]
        <5>1. (Top.parts \o a.parts)[k] = a.parts[k - m]
          BY <1>8, <3>2, <3>4
        <5>2. QED
          BY <3>1, <4>2, <5>1
      <4>6. QED
        BY <2>3, <3>2, <3>4, <4>4, <4>5
    <3>5. QED
      BY <3>2, <3>3, <3>4
  <2>4. CASE i = n /\ j # 0
    <3>0. Len(frames'[i].list) = l - 1
      BY <1>2, <1>4, <1>7, <2>4
    <3>1. j \in 1..(l - 1) /\ j + 1 \in 0..l /\ j + 1 # 0
      BY <1>7, <2>1, <2>4, <3>0
    <3>2. Holds(i, j)' = Top.list[j + 1].parts
      BY <1>2, <1>4, <1>7, <2>4, <3>1 DEF Holds
    <3>3. Holds(n, j + 1) = Top.list[j + 1].parts
      BY <1>1, <3>1 DEF Holds
    <3>4. IsPlace(n, j + 1, k)
      BY <1>0, <1>1, <1>7, <2>1, <3>1, <3>2, <3>3 DEF IsPlace
    <3>5. k \in Nat
      BY <2>1
    <3>6. QED
      BY <2>4, <3>1, <3>2, <3>3, <3>4, <3>5
  <2>5. QED
    BY <2>2, <2>3, <2>4
<1>10. ASSUME NEW i, NEW j \in Nat, NEW k \in Nat, NEW x, NEW y, NEW z,
              NEW u, NEW v \in Nat, NEW w \in Nat,
              From(i, j, k, x, y, z), From(u, v, w, x, y, z)
       PROVE  i = u /\ j = v /\ k = w
  BY <1>10
<1> HIDE DEF From
<1>11. PlacesDiffer'
  <2> SUFFICES ASSUME NEW i, NEW j, NEW k, NEW u, NEW v, NEW w,
                      IsPlace(i, j, k)', IsPlace(u, v, w)',
                      Holds(i, j)'[k] = Holds(u, v)'[w]
               PROVE  i = u /\ j = v /\ k = w
    BY DEF PlacesDiffer
  <2>1. PICK x, y, z : /\ IsPlace(x, y, z) /\ From(i, j, k, x, y, z)
                       /\ Holds(x, y)[z] = Holds(i, j)'[k]
    BY <1>9
  <2>2. PICK r, s, t : /\ IsPlace(r, s, t) /\ From(u, v, w, r, s, t)
                       /\ Holds(r, s)[t] = Holds(u, v)'[w]
    BY <1>9
  <2>3. x = r /\ y = s /\ z = t
    BY <2>1, <2>2 DEF HeldOnce, PlacesDiffer
  <2>4. j \in Nat /\ k \in Nat /\ v \in Nat /\ w \in Nat
    BY <1>9
  <2>5. QED
    BY <1>10, <2>1, <2>2, <2>3, <2>4
<1>12. KnownHeld'
  <2> SUFFICES ASSUME NEW i, NEW j, NEW k, IsPlace(i, j, k)'
               PROVE  Holds(i, j)'[k] \in importSet \cup {Root}
    BY <1>1 DEF KnownHeld
  <2>1. QED
    BY <1>9 DEF HeldOnce, KnownHeld
<1>13. QED
  BY <1>11, <1>12 DEF HeldOnce

\* A nested API that is returned becomes the last of its importer's list.
LEMMA ReturnedHeldOnce ==
    ASSUME TypeOK, HeldOnce, ReturnNested
    PROVE  HeldOnce'
<1>0. PICK n \in Nat : n = Len(frames) - 1 /\ n > 0
  BY DEF TypeOK, ReturnNested
<1>1. /\ frames \in Seq(Frame) /\ importSet' = importSet
      /\ frames' = SetFrame(SubSeq(frames, 1, n), n, Importer)
      /\ Len(frames) = n + 1 /\ Top = frames[n + 1] /\ Top.list = <<>>
      /\ frames[n] \in Frame
  BY <1>0 DEF ReturnNested, TypeOK, Top
<1>2. /\ Len(frames') = n
      /\ \A i \in 1..n : /\ frames'[i].parts = frames[i].parts
                         /\ i # n => frames'[i] = frames[i]
      /\ frames'[n].list = Append(frames[n].list, Returned)
  <2>1. LET F == SetFrame(SubSeq(frames, 1, n), n, Importer) IN
        /\ Len(F) = n
        /\ \A i \in 1..n : /\ F[i].parts = frames[i].parts
                           /\ i # n => F[i] = frames[i]
        /\ F[n].list = Append(frames[n].list, Returned)
    BY <1>0, <1>1, ReturnShape, Zenon
  <2>2. QED
    BY <1>1, <2>1
<1>3. PICK m \in Nat : m = Len(frames[n].list)
  BY <1>1 DEF Frame
<1>4. /\ Len(frames'[n].list) = m + 1
      /\ \A j \in 1..m : frames'[n].list[j] = frames[n].list[j]
      /\ frames'[n].list[m + 1].parts = Top.parts
  <2>1. frames[n].list \in Seq(API)
    BY <1>1 DEF Frame
  <2>2. Returned.parts = Top.parts
    BY DEF Returned
  <2>3. QED
    BY <1>2, <1>3, <2>1, <2>2
<1> DEFINE From(i, j, k, x, y, z) ==
      \/ (i # n \/ j <= m) /\ x = i /\ y = j /\ z = k
      \/ i = n /\ j = m + 1 /\ x = n + 1 /\ y = 0 /\ z = k
<1>5. ASSUME NEW i, NEW j, NEW k, IsPlace(i, j, k)'
      PROVE  /\ i \in 1..n /\ j \in Nat /\ k \in Nat
             /\ \E x, y, z : /\ IsPlace(x, y, z) /\ From(i, j, k, x, y, z)
                             /\ Holds(x, y)[z] = Holds(i, j)'[k]
  <2>1. i \in 1..n /\ j \in 0..Len(frames'[i].list) /\ k \in 1..Len(Holds(i, j)')
    BY <1>2, <1>5 DEF IsPlace
  <2>2. j \in Nat /\ k \in Nat
    BY <2>1
  <2>3. CASE i # n \/ j <= m
    <3>1. Holds(i, j)' = Holds(i, j)
      <4>1. CASE i # n \/ j = 0
        BY <1>2, <2>1, <4>1 DEF Holds
      <4>2. CASE i = n /\ j # 0
        <5>1. j \in 1..m
          BY <2>2, <2>3, <4>2
        <5>2. QED
          BY <1>4, <4>2, <5>1 DEF Holds
      <4>3. QED
        BY <4>1, <4>2
    <3>2. i \in 1..Len(frames) /\ j \in 0..Len(frames[i].list)
      <4>1. i \in 1..(n + 1)
        BY <2>1
      <4>2. CASE i # n
        BY <1>1, <1>2, <2>1, <4>1, <4>2
      <4>3. CASE i = n
        BY <1>1, <1>3, <2>2, <2>3, <4>1, <4>3
      <4>4. QED
        BY <4>2, <4>3
    <3>3. IsPlace(i, j, k)
      BY <2>1, <3>1, <3>2 DEF IsPlace
    <3>4. QED
      BY <2>1, <2>2, <2>3, <3>1, <3>3
  <2>4. CASE i = n /\ j > m
    <3>1. j = m + 1 /\ j # 0
      BY <1>4, <2>1, <2>2, <2>4
    <3>2. Holds(i, j)' = Top.parts
      BY <1>4, <2>4, <3>1 DEF Holds
    <3>3. Holds(n + 1, 0) = Top.parts
      BY <1>1 DEF Holds
    <3>4. Len(frames[n + 1].list) = 0 /\ n + 1 \in 1..Len(frames)
      BY <1>1
    <3>5. IsPlace(n + 1, 0, k)
      BY <2>1, <3>2, <3>3, <3>4 DEF IsPlace
    <3>6. QED
      BY <2>1, <2>2, <2>4, <3>1, <3>2, <3>3, <3>5
  <2>5. QED
    BY <2>2, <2>3, <2>4
<1>6. ASSUME NEW i \in 1..n, NEW j \in Nat, NEW k \in Nat, NEW x, NEW y, NEW z,
             NEW u \in 1..n, NEW v \in Nat, NEW w \in Nat,
             From(i, j, k, x, y, z), From(u, v, w, x, y, z)
      PROVE  i = u /\ j = v /\ k = w
  BY <1>6
<1> HIDE DEF From
<1>7. PlacesDiffer'
  <2> SUFFICES ASSUME NEW i, NEW j, NEW k, NEW u, NEW v, NEW w,
                      IsPlace(i, j, k)', IsPlace(u, v, w)',
                      Holds(i, j)'[k] = Holds(u, v)'[w]
               PROVE  i = u /\ j = v /\ k = w
    BY DEF PlacesDiffer
  <2>1. PICK x, y, z : /\ IsPlace(x, y, z) /\ From(i, j, k, x, y, z)
                       /\ Holds(x, y)[z] = Holds(i, j)'[k]
    BY <1>5
  <2>2. PICK r, s, t : /\ IsPlace(r, s, t) /\ From(u, v, w, r, s, t)
                       /\ Holds(r, s)[t] = Holds(u, v)'[w]
    BY <1>5
  <2>3. x = r /\ y = s /\ z = t
    BY <2>1, <2>2 DEF HeldOnce, PlacesDiffer
  <2>4. /\ i \in 1..n /\ j \in Nat /\ k \in Nat
        /\ u \in 1..n /\ v \in Nat /\ w \in Nat
    BY <1>5
  <2>5. QED
    BY <1>6, <2>1, <2>2, <2>3, <2>4
<1>8. KnownHeld'
  <2> SUFFICES ASSUME NEW i, NEW j, NEW k, IsPlace(i, j, k)'
               PROVE  Holds(i, j)'[k] \in importSet \cup {Root}
    BY <1>1 DEF KnownHeld
  <2>1. QED
    BY <1>5 DEF HeldOnce, KnownHeld
<1>9. QED
  BY <1>7, <1>8 DEF HeldOnce

\* When the root's activation returns, what it holds is what is reachable.
LEMMA RootHoldsReachable ==
    ASSUME TypeOK, RunInv, HeldOnce, Len(frames) = 1, Top.todo = {}, Top.list = <<>>
    PROVE  /\ {Top.parts[i] : i \in DOMAIN Top.parts} = Reachable
           /\ \A i, j \in DOMAIN Top.parts : Top.parts[i] = Top.parts[j] => i = j
<1>1. /\ Len(stack) = 1 /\ stack[1] = Root /\ frames[1].path = Root
      /\ Top = frames[1] /\ Top \in Frame
  <2>1. Len(stack) = 1 /\ stack[1] = Root /\ stack[1] = frames[1].path
    BY DEF RunInv, StackInv, StackMirror, StackBottom
  <2>2. Top = frames[1] /\ frames \in Seq(Frame)
    BY DEF Top, TypeOK
  <2>3. QED
    BY <2>1, <2>2
<1>2. Finished = importSet
  BY <1>1 DEF StackSet, Elements, Finished, RunInv, StackInv, StackBottom
<1>3. Top.parts \in Seq(Path) /\ DOMAIN Top.parts = 1..Len(Top.parts)
  BY <1>1 DEF Frame
<1>4. Holds(1, 0) = Top.parts /\ Len(frames[1].list) = 0
  BY <1>1 DEF Holds
<1>5. \A k \in 1..Len(Top.parts) : IsPlace(1, 0, k)
  BY <1>4 DEF IsPlace
<1>6. ASSUME NEW i \in 1..Len(Top.parts), NEW j \in 1..Len(Top.parts),
             Top.parts[i] = Top.parts[j]
      PROVE  i = j
  BY <1>4, <1>5, <1>6 DEF HeldOnce, PlacesDiffer
<1>7. Elements(Top.parts) \subseteq importSet \cup {Root}
  BY <1>4, <1>5 DEF HeldOnce, KnownHeld, Elements
<1>8. importSet \cup {Root} \subseteq Reachable
  BY ReachableClosed DEF RunInv, SeenInv, Closed, Reachable, TypeOK
<1>9. Reachable \subseteq importSet \cup {Root}
  <2>1. Succ(Root) \subseteq Finished
    BY <1>1 DEF RunInv, PassedInv, Succ
  <2>2. Closed(importSet \cup {Root})
    BY <1>2, <2>1 DEF Closed, RunInv, FinishedInv
  <2>3. QED
    BY <2>2, ImportAssumption DEF Reachable, TypeOK
<1>10. importSet \cup {Root} \subseteq Elements(Top.parts)
  <2>1. Root \in Elements(Top.parts)
    BY <1>1 DEF RunInv, MergeInv, FrameSyntax
  <2>2. ASSUME NEW p \in importSet PROVE p \in Elements(Top.parts)
    <3>1. HeldBy(1, p)
      BY <1>2 DEF RunInv, MergeInv
    <3>2. QED
      BY <1>1, <3>1 DEF HeldBy
  <2>3. QED
    BY <2>1, <2>2
<1>11. {Top.parts[i] : i \in DOMAIN Top.parts} = Elements(Top.parts)
  BY <1>3 DEF Elements
<1>12. QED
  BY <1>3, <1>6, <1>7, <1>8, <1>9, <1>10, <1>11

\* After a successful run the root holds the statements of every reachable file
\* exactly once, whichever importer came first and in whatever order Go iterated
\* over importValueSet: the merge of parseReverse loses and repeats nothing.
THEOREM StatementsMergedOnce == Spec => []MergedExactlyOnce
<1> DEFINE Inv == (verdict = "running" => HeldOnce) /\ MergedExactlyOnce
<1>1. Init => Inv
  BY DEF Init, HeldOnce, PlacesDiffer, KnownHeld, IsPlace, MergedExactlyOnce
<1>2. ImportInv /\ Inv /\ [Next]_vars => Inv'
  <2> SUFFICES ASSUME ImportInv, Inv, [Next]_vars
               PROVE  Inv'
    OBVIOUS
  <2>0. TypeOK /\ (verdict = "running" => RunInv /\ HeldOnce)
    BY DEF ImportInv
  \* A step out of "running" to anything but "merged" has nothing to show.
  <2>1. ASSUME verdict' = "running" => HeldOnce', verdict' # "merged"
        PROVE  Inv'
    BY <2>1 DEF MergedExactlyOnce
  <2>2. CASE ParseRoot
    <3>1. CASE disk[Root].kind = "ok"
      BY <2>0, <2>1, <2>2, <3>1, RootHeldOnce DEF ParseRoot
    <3>2. CASE disk[Root].kind # "ok"
      <4>1. verdict' \in {"fatal", "panic", "error"}
        BY <2>0, <2>2, <3>2, FailureType, ImportAssumption DEF ParseRoot, TypeOK, File
      <4>2. QED
        BY <2>1, <4>1
    <3>3. QED
      BY <3>1, <3>2
  <2>3. ASSUME NEW t \in Text, ImportCycle(t)
        PROVE  Inv'
    BY <2>1, <2>3 DEF ImportCycle
  <2>4. ASSUME NEW t \in Text, SkipImported(t)
        PROVE  Inv'
    <3>1. verdict' = "running" /\ HeldOnce /\ importSet' = importSet
      BY <2>0, <2>4 DEF SkipImported, AtImport
    <3>2. /\ Len(frames') = Len(frames)
          /\ \A i \in 1..Len(frames) : /\ frames'[i].parts = frames[i].parts
                                       /\ frames'[i].list = frames[i].list
      BY <2>0, <2>4, TakeImportShape DEF SkipImported, AtImport, TypeOK
    <3>3. QED
      BY <2>1, <3>1, <3>2, PlacesKept
  <2>5. ASSUME NEW t \in Text, EnterImport(t)
        PROVE  Inv'
    <3>1. RunInv /\ HeldOnce /\ verdict = "running"
      BY <2>0, <2>5 DEF EnterImport, AtImport
    <3>2. CASE verdict' = "running"
      BY <2>0, <2>1, <2>5, <3>1, <3>2, EnteredHeldOnce
    <3>3. CASE verdict' # "running"
      <4>1. disk[t[1]].kind \in FileKind
        BY <2>0, ImportAssumption DEF TypeOK, File, Text
      <4>2. verdict' # "merged"
        BY <2>5, <3>1, <4>1, FailureType DEF EnterImport
      <4>3. QED
        BY <2>1, <3>3, <4>2
    <3>4. QED
      BY <3>2, <3>3
  <2>6. CASE MergeNext
    <3>1. HeldOnce /\ verdict' # "merged"
      BY <2>0, <2>6 DEF MergeNext
    <3>2. QED
      BY <2>0, <2>1, <2>6, <3>1, MergedHeldOnce
  <2>7. CASE ReturnNested
    <3>1. HeldOnce /\ verdict' # "merged"
      BY <2>0, <2>7 DEF ReturnNested
    <3>2. QED
      BY <2>0, <2>1, <2>7, <3>1, ReturnedHeldOnce
  <2>8. CASE ReturnRoot
    <3>1. /\ RunInv /\ HeldOnce /\ disk' = disk /\ frames' = frames /\ verdict' = "merged"
          /\ Len(frames) = 1 /\ Top.todo = {} /\ Top.list = <<>>
      BY <2>0, <2>8 DEF ReturnRoot
    <3>2. Reachable' = Reachable /\ Top' = Top
      BY <3>1, GraphUnchanged DEF Top
    <3>3. QED
      BY <2>0, <3>1, <3>2, RootHoldsReachable DEF MergedExactlyOnce
  <2>9. CASE UNCHANGED vars
    <3>1. disk' = disk /\ frames' = frames /\ importSet' = importSet /\ verdict' = verdict
      BY <2>9 DEF vars
    <3>2. Reachable' = Reachable /\ Top' = Top
      BY <3>1, GraphUnchanged DEF Top
    <3>3. HeldOnce => HeldOnce'
      BY <3>1 DEF HeldOnce, PlacesDiffer, KnownHeld, IsPlace, Holds
    <3>4. QED
      BY <3>1, <3>2, <3>3 DEF MergedExactlyOnce
  <2>10. QED
    BY <2>2, <2>3, <2>4, <2>5, <2>6, <2>7, <2>8, <2>9 DEF Next
<1>3. Inv => MergedExactlyOnce
  OBVIOUS
<1>4. QED
  BY <1>1, <1>2, <1>3, ImportInvariant, PTL DEF Spec

-----------------------------------------------------------------------------
(***************************************************************************)
(* The checks.  The steps of SelfCheck and Convert2Spec leave the imports   *)
(* alone, so that Parse with them does to the imports what ApiImport says,  *)
(* and what is proved there holds here.                                     *)
(***************************************************************************)

\* Parse, with the checks and the conversion, resolves imports as ApiImport has it.
THEOREM ChecksRunImports == CheckSpec => Spec
<1>1. CheckInit => Init
  BY DEF CheckInit
<1>2. [CheckNext]_<<vars, checkVars>> => [Next]_vars
  BY DEF CheckNext, vars, checkVars
<1>3. QED
  BY <1>1, <1>2, PTL DEF CheckSpec, Spec

\* What the merge has left when it has succeeded: the frame of the root.
MergedRoot == verdict = "merged" => Len(frames) = 1

LEMMA MergedRootStays == Spec => []MergedRoot
<1>1. Init => MergedRoot
  BY DEF Init, MergedRoot
<1>2. TypeOK /\ MergedRoot /\ [Next]_vars => MergedRoot'
  <2> SUFFICES ASSUME TypeOK, MergedRoot, [Next]_vars
               PROVE  MergedRoot'
    OBVIOUS
  <2>0. \A p \in Path : disk[p].kind \in FileKind
    BY ImportAssumption DEF TypeOK, File
  <2>1. CASE ParseRoot
    <3>1. disk[Root].kind = "ok" \/ Failure(disk[Root].kind) \in {"fatal", "panic", "error"}
      BY <2>0, FailureType, ImportAssumption
    <3>2. QED
      BY <2>1, <3>1 DEF ParseRoot, MergedRoot
  <2>2. ASSUME NEW t \in Text, ImportCycle(t) PROVE MergedRoot'
    BY <2>2 DEF ImportCycle, MergedRoot
  <2>3. ASSUME NEW t \in Text, SkipImported(t) PROVE MergedRoot'
    BY <2>3 DEF SkipImported, AtImport, MergedRoot
  <2>4. ASSUME NEW t \in Text, EnterImport(t) PROVE MergedRoot'
    <3>1. disk[t[1]].kind = "ok" \/ Failure(disk[t[1]].kind) \in {"fatal", "panic", "error"}
      BY <2>0, FailureType DEF Text
    <3>2. QED
      BY <2>4, <3>1 DEF EnterImport, AtImport, MergedRoot
  <2>5. CASE MergeNext
    BY <2>5 DEF MergeNext, MergedRoot
  <2>6. CASE ReturnNested
    BY <2>6 DEF ReturnNested, MergedRoot
  <2>7. CASE ReturnRoot
    BY <2>7 DEF ReturnRoot, MergedRoot
  <2>8. CASE UNCHANGED vars
    BY <2>8 DEF vars, MergedRoot
  <2>9. QED
    BY <2>1, <2>2, <2>3, <2>4, <2>5, <2>6, <2>7, <2>8 DEF Next
<1>3. QED
  BY <1>1, <1>2, TypeCorrect, PTL DEF Spec

\* The statements of the files are what their parser returns, and stay.
HoldsTyped == holds \in [Path -> Statements] /\ \A p \in Path : OnePlaceEach(holds[p])

LEMMA HoldsAreTyped == CheckSpec => []HoldsTyped
<1>1. CheckInit => HoldsTyped
  <2> SUFFICES ASSUME CheckInit PROVE HoldsTyped
    OBVIOUS
  <2>1. disk \in [Path -> {f \in File : Canonical(f)}]
    BY DEF CheckInit, Init
  <2>2. holds \in Holdings(disk)
    BY DEF CheckInit
  <2>3. QED
    BY <2>1, <2>2, CheckAssumption DEF HoldsTyped
<1>2. HoldsTyped /\ [CheckNext]_<<vars, checkVars>> => HoldsTyped'
  BY DEF HoldsTyped, CheckNext, SelfCheck, Convert2Spec, checkVars
<1>3. QED
  BY <1>1, <1>2, PTL DEF CheckSpec

\* The outcomes of SelfCheck and Convert2Spec, as they see the statements: in the order in
\* which the imports were merged.
FirstPass == RootPasses /\ TypesPass(TypeStmt)
SecondPass == ServicesPass(ServiceStmts) /\ ContextPasses(ToSet(TypeStmt))
AllConvert ==
    /\ \A t \in ToSet(TypeStmt) : TypeConverts(t.decl)
    /\ RoutesConvert(Names(ToSet(TypeStmt)), ToSet(RoutesOfAll(ServiceStmts)))

OutcomeInv ==
    /\ outcome \in {"none", "refused", "panic", "checked", "accepted"}
    /\ outcome # "none" => verdict = "merged"
    /\ outcome = "panic" => FirstPass /\ HasBareItem(ServiceStmts)
    /\ outcome \in {"checked", "accepted"} => FirstPass /\ ~HasBareItem(ServiceStmts) /\ SecondPass
    /\ outcome = "accepted" => AllConvert /\ spec = Analyzed(TypeStmt, ServiceStmts)
    /\ outcome = "refused" => ~FirstPass \/ (~HasBareItem(ServiceStmts) /\ ~(SecondPass /\ AllConvert))

\* Nothing happens to the imports once they are merged, so the outcome stays what the
\* statements make of it.
LEMMA OutcomeStays == CheckSpec => []OutcomeInv
<1>1. CheckInit => OutcomeInv
  BY DEF CheckInit, OutcomeInv
<1>2. OutcomeInv /\ [CheckNext]_<<vars, checkVars>> => OutcomeInv'
  <2> SUFFICES ASSUME OutcomeInv, [CheckNext]_<<vars, checkVars>>
               PROVE  OutcomeInv'
    OBVIOUS
  <2>1. CASE Next /\ UNCHANGED checkVars
    <3>1. verdict = "running"
      BY <2>1 DEF Next, ParseRoot, ImportCycle, SkipImported, EnterImport, AtImport, MergeNext,
                  ReturnNested, ReturnRoot
    <3>2. outcome' = "none"
      BY <2>1, <3>1 DEF OutcomeInv, checkVars
    <3>3. QED
      BY <3>2 DEF OutcomeInv
  <2>2. ASSUME UNCHANGED vars, holds' = holds
        PROVE  /\ verdict' = verdict
               /\ FirstPass' = FirstPass /\ SecondPass' = SecondPass /\ AllConvert' = AllConvert
               /\ HasBareItem(ServiceStmts)' = HasBareItem(ServiceStmts)
               /\ TypeStmt' = TypeStmt /\ ServiceStmts' = ServiceStmts
    <3>1. TypeStmt' = TypeStmt /\ ServiceStmts' = ServiceStmts /\ RootPasses' = RootPasses
      BY <2>2 DEF TypeStmt, ServiceStmts, RootPasses, Top, vars
    <3>2. QED
      BY <2>2, <3>1 DEF FirstPass, SecondPass, AllConvert, vars, TypesPass, ServicesPass, ContextPasses,
                        HasBareItem, RoutesConvert, Names, RoutesPass
  <2>3. CASE SelfCheck /\ UNCHANGED vars
    <3>1. /\ verdict = "merged" /\ holds' = holds
          /\ \/ outcome' = "refused" /\ ~FirstPass
             \/ outcome' = "panic" /\ FirstPass /\ HasBareItem(ServiceStmts)
             \/ outcome' = "checked" /\ FirstPass /\ ~HasBareItem(ServiceStmts) /\ SecondPass
             \/ outcome' = "refused" /\ ~HasBareItem(ServiceStmts) /\ ~SecondPass
      BY <2>3 DEF SelfCheck, FirstPass, SecondPass
    <3>2. QED
      BY <2>2, <2>3, <3>1 DEF OutcomeInv
  <2>4. CASE Convert2Spec /\ UNCHANGED vars
    <3>1. /\ outcome = "checked" /\ holds' = holds
          /\ \/ outcome' = "accepted" /\ AllConvert /\ spec' = Analyzed(TypeStmt, ServiceStmts)
             \/ outcome' = "refused" /\ ~AllConvert
      BY <2>4 DEF Convert2Spec, AllConvert
    <3>2. Analyzed(TypeStmt, ServiceStmts)' = Analyzed(TypeStmt, ServiceStmts)
      BY <2>2, <2>4, <3>1 DEF Analyzed
    <3>3. QED
      BY <2>2, <2>4, <3>1, <3>2 DEF OutcomeInv
  <2>5. CASE UNCHANGED <<vars, checkVars>>
    <3>1. outcome' = outcome /\ spec' = spec /\ holds' = holds /\ UNCHANGED vars
      BY <2>5 DEF checkVars
    <3>2. Analyzed(TypeStmt, ServiceStmts)' = Analyzed(TypeStmt, ServiceStmts)
      BY <2>2, <3>1 DEF Analyzed
    <3>3. QED
      BY <2>2, <3>1, <3>2 DEF OutcomeInv
  <2>6. QED
    BY <2>1, <2>3, <2>4, <2>5 DEF CheckNext
<1>3. QED
  BY <1>1, <1>2, PTL DEF CheckSpec

-----------------------------------------------------------------------------
(* The filters *)

\* What check makes of one more node.
Checked(b, n) ==
    IF n.text \in DOMAIN b.m /\ b.m[n.text] # n.pos
    THEN [b EXCEPT !.ok = FALSE]
    ELSE [b EXCEPT !.m = [x \in DOMAIN @ \cup {n.text} |-> IF x = n.text THEN n.pos ELSE @[x]]]

NewFilter == [m |-> << >>, ok |-> TRUE]

\* What FoldLeft's recursion makes of the first m nodes, and of every subset of them.
Filtered(nodes, h, m) ==
    h = [t \in SUBSET (1..m) |->
           IF t = {} THEN NewFilter ELSE Checked(h[t \ {Max(t)}], nodes[Max(t)])]

\* A solution for one node less gives a solution.
LEMMA FilterExtends ==
  ASSUME NEW nodes, NEW k \in Nat \ {0}, NEW g, Filtered(nodes, g, k - 1)
  PROVE  \E h : Filtered(nodes, h, k)
  <1> DEFINE h == [t \in SUBSET (1..k) |->
                     IF k \in t THEN Checked(g[t \ {k}], nodes[k]) ELSE g[t]]
             Value(t) == IF t = {} THEN NewFilter ELSE Checked(h[t \ {Max(t)}], nodes[Max(t)])
  <1>1. ASSUME NEW t \in SUBSET (1..k), k \notin t PROVE t \in SUBSET (1..(k - 1))
    BY <1>1
  <1>2. ASSUME NEW t \in SUBSET (1..(k - 1)) PROVE t \in SUBSET (1..k) /\ k \notin t /\ h[t] = g[t]
    <2>1. t \in SUBSET (1..k) /\ k \notin t
      OBVIOUS
    <2> QED
      BY <2>1
  <1>3. ASSUME NEW t \in SUBSET (1..k), k \in t PROVE h[t] = Value(t)
    <2>1. Max(t) = k
      BY <1>3, MaxIsTop
    <2>2. t \ {k} \in SUBSET (1..(k - 1))
      BY <1>1
    <2>3. h[t \ {k}] = g[t \ {k}]
      BY <1>2, <2>2
    <2>4. h[t] = Checked(g[t \ {k}], nodes[k])
      BY <1>3
    <2> HIDE DEF h
    <2> QED
      BY <1>3, <2>1, <2>3, <2>4
  <1>4. ASSUME NEW t \in SUBSET (1..k), k \notin t PROVE h[t] = Value(t)
    <2>1. t \in SUBSET (1..(k - 1))
      BY <1>1, <1>4
    <2>2. h[t] = g[t] /\ h[t \ {Max(t)}] = g[t \ {Max(t)}]
      BY <1>2, <2>1
    <2>3. g[t] = IF t = {} THEN NewFilter ELSE Checked(g[t \ {Max(t)}], nodes[Max(t)])
      BY <2>1, Zenon DEF Filtered
    <2> HIDE DEF h
    <2> QED
      BY <2>2, <2>3
  <1>5. h = [t \in SUBSET (1..k) |-> Value(t)]
    <2>1. h = [t \in SUBSET (1..k) |-> h[t]]
      OBVIOUS
    <2> HIDE DEF h, Value
    <2> QED
      BY <1>3, <1>4, <2>1
  <1>6. Filtered(nodes, h, k)
    <2> HIDE DEF h
    <2> QED
      BY <1>5 DEF Filtered
  <1> QED
    BY <1>6

LEMMA FilterExists ==
  ASSUME NEW nodes, NEW n \in Nat
  PROVE  \E h : Filtered(nodes, h, n)
  <1> DEFINE Bad == {i \in 0..n : ~ \E h : Filtered(nodes, h, i)}
  <1>1. SUFFICES ASSUME Bad # {} PROVE FALSE
    OBVIOUS
  <1>2. PICK k \in Bad : \A j \in Bad : k <= j
    <2>1. Bad \in SUBSET Nat
      OBVIOUS
    <2> HIDE DEF Bad
    <2> QED
      BY <1>1, <2>1, Least
  <1>3. k \in 0..n /\ ~ \E h : Filtered(nodes, h, k)
    BY <1>2
  <1>4. CASE k = 0
    <2> DEFINE h == [t \in SUBSET (1..0) |-> NewFilter]
    <2>1. \A t \in SUBSET (1..0) : t = {}
      OBVIOUS
    <2>2. Filtered(nodes, h, 0)
      BY <2>1 DEF Filtered
    <2> QED
      BY <1>3, <1>4, <2>2
  <1>5. CASE k # 0
    <2>1. k - 1 \in 0..n /\ k \in Nat \ {0} /\ k - 1 \notin Bad
      <3>1. k \in 0..n
        BY <1>3
      <3> HIDE DEF Bad
      <3> QED
        BY <1>2, <1>5, <3>1
    <2>2. \E g : Filtered(nodes, g, k - 1)
      BY <2>1
    <2> QED
      BY <1>3, <2>1, <2>2, FilterExtends
  <1> QED
    BY <1>4, <1>5

\* The filter node by node: r[m] is what check has made of the first m nodes.
FilterSoFar(nodes, r) ==
    /\ r[0] = NewFilter
    /\ \A m \in DOMAIN nodes : r[m] = Checked(r[m - 1], nodes[m])
    /\ Passes(nodes) = r[Len(nodes)].ok

LEMMA PassesUnfolds ==
  ASSUME NEW nodes, NEW n \in Nat, DOMAIN nodes = 1..n, Len(nodes) = n
  PROVE  \E r : FilterSoFar(nodes, r)
  <1> DEFINE Fold(h) == h = [t \in SUBSET DOMAIN nodes |->
                               IF t = {} THEN NewFilter ELSE Checked(h[t \ {Max(t)}], nodes[Max(t)])]
             c == CHOOSE h : Fold(h)
  <1>1. \E h : Fold(h)
    <2>1. \E h : Filtered(nodes, h, n)
      BY FilterExists
    <2> QED
      BY <2>1 DEF Filtered
  <1>2. Fold(c)
    <2> HIDE DEF Fold
    <2> QED
      BY <1>1, Zenon
  <1>3. Passes(nodes) = c[DOMAIN nodes].ok
    BY DEF Passes, FoldLeft, MapThenFoldSet, Checked, NewFilter
  <1> DEFINE r == [m \in 0..n |-> c[1..m]]
  <1>4. \A t \in SUBSET (1..n) : c[t] = IF t = {} THEN NewFilter ELSE Checked(c[t \ {Max(t)}], nodes[Max(t)])
    <2> HIDE DEF c
    <2> QED
      BY <1>2, Zenon
  <1> HIDE DEF c, Fold
  <1>5. r[0] = NewFilter
    <2>1. 1..0 = {} /\ {} \in SUBSET (1..n) /\ 0 \in 0..n
      OBVIOUS
    <2>2. c[{}] = NewFilter
      BY <1>4, <2>1
    <2>3. r[0] = c[1..0]
      BY <2>1
    <2> QED
      BY <2>1, <2>2, <2>3
  <1>6. ASSUME NEW m \in 1..n PROVE r[m] = Checked(r[m - 1], nodes[m])
    <2>1. 1..m \in SUBSET (1..n) /\ m \in 1..m /\ m - 1 \in 0..n /\ m \in 0..n
      <3> HIDE DEF r
      <3> QED
        OBVIOUS
    <2>2. Max(1..m) = m
      BY MaxIsTop
    <2>3. (1..m) \ {m} = 1..(m - 1)
      OBVIOUS
    <2>4. c[1..m] = Checked(c[(1..m) \ {m}], nodes[m])
      BY <1>4, <2>1, <2>2
    <2> QED
      BY <2>1, <2>3, <2>4
  <1>7. Passes(nodes) = r[Len(nodes)].ok
    BY <1>3
  <1> HIDE DEF r
  <1>8. FilterSoFar(nodes, r)
    BY <1>5, <1>6, <1>7 DEF FilterSoFar
  <1> QED
    BY <1>8

\* The first m nodes agree, and what the filter then holds.
AgreeUpTo(nodes, m) == \A i, j \in 1..m : nodes[i].text = nodes[j].text => nodes[i].pos = nodes[j].pos

FilterAt(nodes, b, m) ==
    /\ b = [m |-> b.m, ok |-> b.ok]
    /\ b.ok \in BOOLEAN
    /\ \A x : x \in DOMAIN b.m <=> \E i \in 1..m : nodes[i].text = x
    /\ b.ok <=> AgreeUpTo(nodes, m)
    /\ \A x \in DOMAIN b.m : \E i \in 1..m : nodes[i].text = x /\ nodes[i].pos = b.m[x]

\* One more node.
LEMMA FilterStep ==
  ASSUME NEW nodes, NEW m \in Nat \ {0}, NEW b, FilterAt(nodes, b, m - 1)
  PROVE  FilterAt(nodes, Checked(b, nodes[m]), m)
  <1> DEFINE n == nodes[m]
  <1>1. \A i \in 1..m : i \in 1..(m - 1) \/ i = m
    OBVIOUS
  <1>2. \A i \in 1..(m - 1) : i \in 1..m
    OBVIOUS
  <1>3. m \in 1..m
    OBVIOUS
  <1>4. CASE n.text \in DOMAIN b.m /\ b.m[n.text] # n.pos
    <2>1. Checked(b, n) = [m |-> b.m, ok |-> FALSE]
      BY <1>4 DEF Checked, FilterAt
    <2>2. PICK i \in 1..(m - 1) : nodes[i].text = n.text /\ nodes[i].pos # n.pos
      BY <1>4 DEF FilterAt
    <2>3. ~AgreeUpTo(nodes, m)
      BY <1>2, <1>3, <2>2 DEF AgreeUpTo
    <2>4. \A x : x \in DOMAIN b.m <=> \E j \in 1..m : nodes[j].text = x
      BY <1>1, <1>2, <1>4 DEF FilterAt
    <2>5. \A x \in DOMAIN b.m : \E j \in 1..m : nodes[j].text = x /\ nodes[j].pos = b.m[x]
      BY <1>2 DEF FilterAt
    <2> QED
      BY <2>1, <2>3, <2>4, <2>5 DEF FilterAt
  <1>5. CASE ~(n.text \in DOMAIN b.m /\ b.m[n.text] # n.pos)
    <2> DEFINE f == [x \in DOMAIN b.m \cup {n.text} |-> IF x = n.text THEN n.pos ELSE b.m[x]]
    <2>1. Checked(b, n) = [m |-> f, ok |-> b.ok]
      <3>1. Checked(b, n) = [b EXCEPT !.m = f]
        BY <1>5 DEF Checked
      <3> HIDE DEF f
      <3> QED
        BY <3>1 DEF FilterAt
    <2>2. \A x : x \in DOMAIN f <=> \E j \in 1..m : nodes[j].text = x
      BY <1>1, <1>2, <1>3 DEF FilterAt
    <2>3. ASSUME NEW x \in DOMAIN f PROVE \E j \in 1..m : nodes[j].text = x /\ nodes[j].pos = f[x]
      <3>1. CASE x = n.text
        <4>1. f[x] = n.pos
          BY <3>1
        <4> QED
          BY <1>3, <3>1, <4>1
      <3>2. CASE x # n.text
        <4>1. x \in DOMAIN b.m /\ f[x] = b.m[x]
          BY <3>2
        <4> HIDE DEF f
        <4> QED
          BY <1>2, <4>1 DEF FilterAt
      <3> QED
        BY <3>1, <3>2
    <2>4. b.ok <=> AgreeUpTo(nodes, m)
      <3>1. AgreeUpTo(nodes, m) => b.ok
        BY <1>2 DEF FilterAt, AgreeUpTo
      <3>2. ASSUME b.ok, NEW i \in 1..m, NEW j \in 1..m, nodes[i].text = nodes[j].text
            PROVE  nodes[i].pos = nodes[j].pos
        <4>1. AgreeUpTo(nodes, m - 1)
          BY <3>2 DEF FilterAt
        <4>2. ASSUME NEW k \in 1..(m - 1), nodes[k].text = n.text PROVE nodes[k].pos = n.pos
          <5>1. n.text \in DOMAIN b.m
            BY <4>2 DEF FilterAt
          <5>2. b.m[n.text] = n.pos
            BY <1>5, <5>1
          <5>3. PICK l \in 1..(m - 1) : nodes[l].text = n.text /\ nodes[l].pos = b.m[n.text]
            BY <5>1 DEF FilterAt
          <5> QED
            BY <4>1, <4>2, <5>2, <5>3 DEF AgreeUpTo
        <4> QED
          BY <1>1, <3>2, <4>1, <4>2 DEF AgreeUpTo
      <3> QED
        BY <3>1, <3>2 DEF AgreeUpTo
    <2>5. b.ok \in BOOLEAN
      BY DEF FilterAt
    <2> HIDE DEF f
    <2> QED
      BY <2>1, <2>2, <2>3, <2>4, <2>5 DEF FilterAt
  <1> QED
    BY <1>4, <1>5

\* filterBuilder.check reports nothing exactly if what reads the same is at one place,
\* whatever the order of the nodes.
LEMMA PassesIfNoneTwice ==
  ASSUME NEW n \in Nat, NEW nodes, DOMAIN nodes = 1..n, Len(nodes) = n
  PROVE  Passes(nodes) <=> NoneTwice({nodes[i] : i \in 1..n})
  <1>1. PICK r : FilterSoFar(nodes, r)
    BY PassesUnfolds
  <1> DEFINE Bad == {i \in 0..n : ~FilterAt(nodes, r[i], i)}
  <1>2. Bad = {}
    <2>1. SUFFICES ASSUME Bad # {} PROVE FALSE
      OBVIOUS
    <2>2. PICK k \in Bad : \A j \in Bad : k <= j
      <3>1. Bad \in SUBSET Nat
        OBVIOUS
      <3> HIDE DEF Bad
      <3> QED
        BY <2>1, <3>1, Least
    <2>3. k \in 0..n /\ ~FilterAt(nodes, r[k], k)
      BY <2>2
    <2>4. CASE k = 0
      <3>1. r[0] = [m |-> << >>, ok |-> TRUE] /\ 1..0 = {}
        BY <1>1 DEF FilterSoFar, NewFilter
      <3>2. DOMAIN << >> = {}
        OBVIOUS
      <3> HIDE DEF Bad
      <3>3. FilterAt(nodes, r[0], 0)
        BY <3>1, <3>2 DEF FilterAt, AgreeUpTo
      <3> QED
        BY <2>3, <2>4, <3>3
    <2>5. CASE k # 0
      <3> HIDE DEF Bad
      <3>1. k - 1 \in 0..n /\ k \in Nat \ {0} /\ k \in 1..n /\ ~(k <= k - 1)
        BY <2>3, <2>5
      <3>2. FilterAt(nodes, r[k - 1], k - 1)
        BY <2>2, <3>1 DEF Bad
      <3>3. r[k] = Checked(r[k - 1], nodes[k])
        BY <1>1, <3>1 DEF FilterSoFar
      <3> QED
        BY <2>3, <3>1, <3>2, <3>3, FilterStep
    <2> QED
      BY <2>4, <2>5
  <1>3. n \in 0..n
    OBVIOUS
  <1>4. r[n].ok <=> AgreeUpTo(nodes, n)
    BY <1>2, <1>3 DEF FilterAt
  <1>5. Passes(nodes) = r[n].ok
    BY <1>1 DEF FilterSoFar
  <1> QED
    BY <1>4, <1>5 DEF AgreeUpTo, NoneTwice

-----------------------------------------------------------------------------
(***************************************************************************)
(* The merged statements, whatever their order: the declarations of the     *)
(* files, each with its place.                                              *)
(***************************************************************************)
TypeItem == [from : Path, nth : Nat, decl : TypeDecl]
ServiceItem == [from : Path, nth : Nat, decl : ServiceDecl]
RouteItem == [from : Path, of : Nat, nth : Nat, service : ServiceDecl, route : RouteDecl]

LEMMA FileStatements ==
  ASSUME HoldsTyped, NEW p \in Path
  PROVE  /\ holds[p].types \in Seq(TypeDecl) /\ holds[p].services \in Seq(ServiceDecl)
         /\ Declared(p, holds[p].types) \in Seq(TypeItem)
         /\ Declared(p, holds[p].services) \in Seq(ServiceItem)
         /\ Len(Declared(p, holds[p].types)) = Len(holds[p].types)
         /\ Len(Declared(p, holds[p].services)) = Len(holds[p].services)
  <1>1. holds[p].types \in Seq(TypeDecl) /\ holds[p].services \in Seq(ServiceDecl)
    BY DEF HoldsTyped, Statements
  <1>2. ASSUME NEW D, NEW decls \in Seq(D)
        PROVE  /\ Declared(p, decls) \in Seq([from : Path, nth : Nat, decl : D])
               /\ Len(Declared(p, decls)) = Len(decls)
    <2>1. DOMAIN decls = 1..Len(decls) /\ Len(decls) \in Nat
      OBVIOUS
    <2>2. \A k \in 1..Len(decls) : [from |-> p, nth |-> k, decl |-> decls[k]] \in [from : Path, nth : Nat, decl : D]
      OBVIOUS
    <2> QED
      BY <2>1, <2>2 DEF Declared
  <1> QED
    BY <1>1, <1>2 DEF TypeItem, ServiceItem

LEMMA MergedStatements ==
  ASSUME HoldsTyped, Top.parts \in Seq(Path)
  PROVE  /\ TypeStmt \in Seq(TypeItem) /\ ServiceStmts \in Seq(ServiceItem)
         /\ ToSet(TypeStmt) = AllTypes(ToSet(Top.parts))
         /\ ToSet(ServiceStmts) = AllServices(ToSet(Top.parts))
  <1> DEFINE parts == Top.parts
             types == [i \in DOMAIN parts |-> Declared(parts[i], holds[parts[i]].types)]
             services == [i \in DOMAIN parts |-> Declared(parts[i], holds[parts[i]].services)]
  <1>1. /\ DOMAIN parts = 1..Len(parts) /\ Len(parts) \in Nat
        /\ \A i \in DOMAIN parts : parts[i] \in Path
    OBVIOUS
  <1>2. TypeStmt = FlattenSeq(types) /\ ServiceStmts = FlattenSeq(services)
    BY DEF TypeStmt, ServiceStmts
  <1> HIDE DEF parts
  <1>3. types \in Seq(Seq(TypeItem)) /\ services \in Seq(Seq(ServiceItem))
    <2>1. \A i \in 1..Len(parts) : /\ Declared(parts[i], holds[parts[i]].types) \in Seq(TypeItem)
                                   /\ Declared(parts[i], holds[parts[i]].services) \in Seq(ServiceItem)
      BY <1>1, FileStatements
    <2> QED
      BY <1>1, <2>1
  <1>4. UNION {ToSet(types[i]) : i \in DOMAIN types} = AllTypes(ToSet(parts))
    <2>1. DOMAIN types = DOMAIN parts /\ \A i \in DOMAIN parts : types[i] = Declared(parts[i], holds[parts[i]].types)
      OBVIOUS
    <2> HIDE DEF types
    <2>2. {ToSet(types[i]) : i \in DOMAIN types} = {ToSet(Declared(p, holds[p].types)) : p \in ToSet(parts)}
      <3>1. ToSet(parts) = {parts[i] : i \in DOMAIN parts}
        BY DEF ToSet
      <3> QED
        BY <2>1, <3>1
    <2> QED
      BY <2>2 DEF AllTypes
  <1>5. UNION {ToSet(services[i]) : i \in DOMAIN services} = AllServices(ToSet(parts))
    <2>1. /\ DOMAIN services = DOMAIN parts
          /\ \A i \in DOMAIN parts : services[i] = Declared(parts[i], holds[parts[i]].services)
      OBVIOUS
    <2> HIDE DEF services
    <2>2. {ToSet(services[i]) : i \in DOMAIN services} = {ToSet(Declared(p, holds[p].services)) : p \in ToSet(parts)}
      <3>1. ToSet(parts) = {parts[i] : i \in DOMAIN parts}
        BY DEF ToSet
      <3> QED
        BY <2>1, <3>1
    <2> QED
      BY <2>2 DEF AllServices
  <1> HIDE DEF types, services
  <1>6. /\ FlattenSeq(types) \in Seq(TypeItem)
        /\ ToSet(FlattenSeq(types)) = UNION {ToSet(types[i]) : i \in DOMAIN types}
    BY <1>3, FlattenLays, FlattenElements
  <1>7. /\ FlattenSeq(services) \in Seq(ServiceItem)
        /\ ToSet(FlattenSeq(services)) = UNION {ToSet(services[i]) : i \in DOMAIN services}
    BY <1>3, FlattenLays, FlattenElements
  <1> QED
    BY <1>2, <1>4, <1>5, <1>6, <1>7 DEF parts

LEMMA RoutesOfService ==
  ASSUME NEW s \in ServiceItem
  PROVE  /\ RoutesOf(s) \in Seq(RouteItem)
         /\ Len(RoutesOf(s)) = Len(s.decl.routes) /\ DOMAIN RoutesOf(s) = DOMAIN s.decl.routes
         /\ s.decl.routes \in Seq(RouteDecl)
  <1>1. s.from \in Path /\ s.nth \in Nat /\ s.decl \in ServiceDecl /\ s.decl.routes \in Seq(RouteDecl)
    BY DEF ServiceItem, ServiceDecl
  <1>2. DOMAIN s.decl.routes = 1..Len(s.decl.routes) /\ Len(s.decl.routes) \in Nat
    BY <1>1
  <1>3. \A k \in 1..Len(s.decl.routes) :
          [from |-> s.from, of |-> s.nth, nth |-> k, service |-> s.decl, route |-> s.decl.routes[k]] \in RouteItem
    BY <1>1 DEF RouteItem
  <1> QED
    BY <1>1, <1>2, <1>3 DEF RoutesOf

LEMMA RoutesOfServices ==
  ASSUME NEW services \in Seq(ServiceItem)
  PROVE  /\ RoutesOfAll(services) \in Seq(RouteItem)
         /\ ToSet(RoutesOfAll(services)) = RoutesIn(ToSet(services))
  <1> DEFINE routes == [i \in DOMAIN services |-> RoutesOf(services[i])]
  <1>1. /\ DOMAIN services = 1..Len(services) /\ Len(services) \in Nat
        /\ \A i \in DOMAIN services : services[i] \in ServiceItem
    OBVIOUS
  <1>2. RoutesOfAll(services) = FlattenSeq(routes)
    BY DEF RoutesOfAll
  <1>3. routes \in Seq(Seq(RouteItem))
    <2>1. \A i \in 1..Len(services) : RoutesOf(services[i]) \in Seq(RouteItem)
      BY <1>1, RoutesOfService
    <2> QED
      BY <1>1, <2>1
  <1>4. UNION {ToSet(routes[i]) : i \in DOMAIN routes} = RoutesIn(ToSet(services))
    <2>1. DOMAIN routes = DOMAIN services /\ \A i \in DOMAIN services : routes[i] = RoutesOf(services[i])
      OBVIOUS
    <2> HIDE DEF routes
    <2>2. {ToSet(routes[i]) : i \in DOMAIN routes} = {ToSet(RoutesOf(s)) : s \in ToSet(services)}
      BY <2>1 DEF ToSet
    <2> QED
      BY <2>2 DEF RoutesIn
  <1> HIDE DEF routes
  <1> QED
    BY <1>2, <1>3, <1>4, FlattenLays, FlattenElements

\* The filter of a list of nodes sees what they are, not their order.
LEMMA PassesSet ==
  ASSUME NEW S, NEW items \in Seq(S), NEW nodes, DOMAIN nodes = DOMAIN items
  PROVE  Passes(nodes) <=> NoneTwice({nodes[i] : i \in DOMAIN items})
  <1>1. Len(items) \in Nat /\ DOMAIN nodes = 1..Len(items)
    OBVIOUS
  <1>2. Len(nodes) = Len(items)
    BY <1>1
  <1> QED
    BY <1>1, <1>2, PassesIfNoneTwice

LEMMA TypesPassSet ==
  ASSUME NEW types \in Seq(TypeItem)
  PROVE  TypesPass(types) <=> NoneTwice({TypeNode(t) : t \in ToSet(types)})
  <1> DEFINE nodes == [i \in DOMAIN types |-> TypeNode(types[i])]
  <1>1. {nodes[i] : i \in DOMAIN types} = {TypeNode(t) : t \in ToSet(types)}
    BY DEF ToSet
  <1>2. DOMAIN nodes = DOMAIN types
    OBVIOUS
  <1>3. TypesPass(types) = Passes(nodes)
    BY DEF TypesPass
  <1> HIDE DEF nodes
  <1> QED
    BY <1>1, <1>2, <1>3, PassesSet

LEMMA RoutesPassSet ==
  ASSUME NEW routes \in Seq(RouteItem)
  PROVE  RoutesPass(routes) <=> /\ NoneTwice({HandlerNode(r) : r \in ToSet(routes)})
                                /\ NoneTwice({RouteNode(r) : r \in ToSet(routes)})
  <1> DEFINE handlers == [i \in DOMAIN routes |-> HandlerNode(routes[i])]
             lines == [i \in DOMAIN routes |-> RouteNode(routes[i])]
  <1>1. /\ {handlers[i] : i \in DOMAIN routes} = {HandlerNode(r) : r \in ToSet(routes)}
        /\ {lines[i] : i \in DOMAIN routes} = {RouteNode(r) : r \in ToSet(routes)}
    BY DEF ToSet
  <1>2. DOMAIN handlers = DOMAIN routes /\ DOMAIN lines = DOMAIN routes
    OBVIOUS
  <1>3. RoutesPass(routes) <=> Passes(handlers) /\ Passes(lines)
    BY DEF RoutesPass
  <1> HIDE DEF handlers, lines
  <1>4. Passes(handlers) <=> NoneTwice({handlers[i] : i \in DOMAIN routes})
    BY <1>2, PassesSet
  <1>5. Passes(lines) <=> NoneTwice({lines[i] : i \in DOMAIN routes})
    BY <1>2, PassesSet
  <1> QED
    BY <1>1, <1>3, <1>4, <1>5

\* What SelfCheck and Convert2Spec ask of the merged statements, in terms of the files.
LEMMA OutcomeOfFiles ==
  ASSUME HoldsTyped, Top.parts \in Seq(Path), ToSet(Top.parts) = Reachable
  PROVE  LET types == AllTypes(Reachable)
             routes == RoutesIn(AllServices(Reachable))
         IN  /\ FirstPass <=> RootPasses /\ NoneTwice({TypeNode(t) : t \in types})
             /\ HasBareItem(ServiceStmts) <=> \E r \in routes : r.route.handler = None
             /\ FirstPass /\ SecondPass /\ AllConvert <=>
                  RootPasses /\ GoodTypes(types) /\ GoodRoutes(routes, Names(types))
  <1> DEFINE types == AllTypes(Reachable)
             routes == RoutesIn(AllServices(Reachable))
  <1>1. /\ TypeStmt \in Seq(TypeItem) /\ ServiceStmts \in Seq(ServiceItem)
        /\ ToSet(TypeStmt) = types /\ ToSet(ServiceStmts) = AllServices(Reachable)
    BY MergedStatements
  <1>2. RoutesOfAll(ServiceStmts) \in Seq(RouteItem) /\ ToSet(RoutesOfAll(ServiceStmts)) = routes
    BY <1>1, RoutesOfServices
  <1> HIDE DEF types, routes
  <1>3. FirstPass <=> RootPasses /\ NoneTwice({TypeNode(t) : t \in types})
    BY <1>1, TypesPassSet DEF FirstPass
  <1>4. HasBareItem(ServiceStmts) <=> \E r \in routes : r.route.handler = None
    BY <1>2 DEF HasBareItem
  <1>5. ServicesPass(ServiceStmts) <=> /\ NoneTwice({HandlerNode(r) : r \in routes})
                                       /\ NoneTwice({RouteNode(r) : r \in routes})
    BY <1>2, RoutesPassSet DEF ServicesPass
  <1>6. SecondPass /\ AllConvert <=>
          /\ ServicesPass(ServiceStmts) /\ ContextPasses(types)
          /\ \A t \in types : TypeConverts(t.decl)
          /\ RoutesConvert(Names(types), routes)
    BY <1>1, <1>2 DEF SecondPass, AllConvert
  <1>7. FirstPass /\ SecondPass /\ AllConvert <=>
          RootPasses /\ GoodTypes(types) /\ GoodRoutes(routes, Names(types))
    BY <1>3, <1>5, <1>6 DEF GoodTypes, GoodRoutes
  <1> QED
    BY <1>3, <1>4, <1>7 DEF types, routes

\* When the imports are merged, the root's parts are the files that the root reaches.
LEMMA RootParts ==
  ASSUME TypeOK, MergedRoot, MergedExactlyOnce, verdict = "merged"
  PROVE  /\ Top.parts \in Seq(Path) /\ ToSet(Top.parts) = Reachable
         /\ \A i, j \in DOMAIN Top.parts : Top.parts[i] = Top.parts[j] => i = j
  <1>1. Top \in Frame
    <2>1. Len(frames) = 1 /\ frames \in Seq(Frame)
      BY DEF TypeOK, MergedRoot
    <2> QED
      BY <2>1 DEF Top
  <1>2. Top.parts \in Seq(Path)
    BY <1>1 DEF Frame
  <1> QED
    BY <1>2 DEF MergedExactlyOnce, ToSet

\* SelfCheck refuses, panics or passes, and the Analyzer converts, for what the files of the
\* project declare: not for the order in which Go ranged over the imports of a file.
THEOREM ChecksTellTheProject == CheckSpec => []ChecksIndependentOfOrder
<1>1. TypeOK /\ MergedRoot /\ MergedExactlyOnce /\ HoldsTyped /\ OutcomeInv => ChecksIndependentOfOrder
  <2> SUFFICES ASSUME TypeOK, MergedRoot, MergedExactlyOnce, HoldsTyped, OutcomeInv,
                      outcome \in {"refused", "panic", "accepted"}
               PROVE  ChecksIndependentOfOrder
    BY DEF ChecksIndependentOfOrder
  <2> DEFINE types == AllTypes(Reachable)
             routes == RoutesIn(AllServices(Reachable))
             bare == \E r \in routes : r.route.handler = None
  <2>1. verdict = "merged"
    BY DEF OutcomeInv
  <2>2. Top.parts \in Seq(Path) /\ ToSet(Top.parts) = Reachable
    BY <2>1, RootParts
  <2>3. /\ FirstPass <=> RootPasses /\ NoneTwice({TypeNode(t) : t \in types})
        /\ HasBareItem(ServiceStmts) <=> bare
        /\ FirstPass /\ SecondPass /\ AllConvert <=>
             RootPasses /\ GoodTypes(types) /\ GoodRoutes(routes, Names(types))
    BY <2>2, OutcomeOfFiles
  <2> HIDE DEF types, routes, bare
  <2>4. outcome = "panic" <=> RootPasses /\ NoneTwice({TypeNode(t) : t \in types}) /\ bare
    BY <2>3 DEF OutcomeInv
  <2>5. outcome = "accepted" <=> RootPasses /\ ~bare /\ GoodTypes(types) /\ GoodRoutes(routes, Names(types))
    BY <2>3 DEF OutcomeInv
  <2>6. QED
    BY <2>4, <2>5 DEF ChecksIndependentOfOrder, types, routes, bare
<1>2. QED
  BY <1>1, ChecksRunImports, TypeCorrect, MergedRootStays, StatementsMergedOnce, HoldsAreTyped, OutcomeStays, PTL

\* Of an accepted project the generators meet no type, no handler of a group and no route of
\* a prefix twice, unless the two are at one line and column of files of one base name: that
\* is what the filters have asked of the texts that they compare.
THEOREM NamesMetOnce == CheckSpec => []GeneratorsMeetNamesOnce
<1>1. TypeOK /\ MergedRoot /\ MergedExactlyOnce /\ HoldsTyped /\ OutcomeInv => GeneratorsMeetNamesOnce
  <2> SUFFICES ASSUME TypeOK, MergedRoot, MergedExactlyOnce, HoldsTyped, OutcomeInv, outcome = "accepted"
               PROVE  GeneratorsMeetNamesOnce
    BY DEF GeneratorsMeetNamesOnce
  <2> DEFINE types == AllTypes(Reachable)
             routes == RoutesIn(AllServices(Reachable))
  <2>1. Top.parts \in Seq(Path) /\ ToSet(Top.parts) = Reachable
    BY RootParts DEF OutcomeInv
  <2>2. GoodTypes(types) /\ GoodRoutes(routes, Names(types))
    BY <2>1, OutcomeOfFiles DEF OutcomeInv
  <2> HIDE DEF types, routes
  <2>3. ASSUME NEW t \in types, NEW u \in types, TypeNode(t).pos # TypeNode(u).pos
        PROVE  t.decl.name # u.decl.name
    BY <2>2, <2>3 DEF GoodTypes, NoneTwice, TypeNode
  <2>4. ASSUME NEW r \in routes, NEW q \in routes
        PROVE  /\ Together(r, q, "group") /\ HandlerNode(r).pos # HandlerNode(q).pos =>
                    r.route.handler # q.route.handler
               /\ Together(r, q, "prefix") /\ Bodies(r) = Bodies(q) /\ RouteNode(r).pos # RouteNode(q).pos =>
                    r.route.method # q.route.method \/ r.route.path # q.route.path
    <3>1. HandlerNode(r).text = HandlerNode(q).text => HandlerNode(r).pos = HandlerNode(q).pos
      BY <2>2 DEF GoodRoutes, NoneTwice
    <3>2. RouteNode(r).text = RouteNode(q).text => RouteNode(r).pos = RouteNode(q).pos
      BY <2>2 DEF GoodRoutes, NoneTwice
    <3>3. \A key : Together(r, q, key) => FirstValue(r.service.server, key) = FirstValue(q.service.server, key)
      BY DEF Together, Properly
    <3>4. Together(r, q, "group") /\ r.route.handler = q.route.handler => HandlerNode(r).text = HandlerNode(q).text
      BY <3>3 DEF HandlerNode
    <3>5. /\ Together(r, q, "prefix") /\ Bodies(r) = Bodies(q)
          /\ r.route.method = q.route.method /\ r.route.path = q.route.path
          => RouteNode(r).text = RouteNode(q).text
      BY <3>3 DEF RouteNode, Bodies
    <3> QED
      BY <3>1, <3>2, <3>4, <3>5
  <2>5. QED
    BY <2>3, <2>4 DEF GeneratorsMeetNamesOnce, types, routes
<1>2. QED
  BY <1>1, ChecksRunImports, TypeCorrect, MergedRootStays, StatementsMergedOnce, HoldsAreTyped, OutcomeStays, PTL

-----------------------------------------------------------------------------
(***************************************************************************)
(* The stable sort: at[x] is the place in s of what stands at x.            *)
(***************************************************************************)
HavingFrom(s, key, name, h, at) ==
    /\ at \in [1..Len(h) -> 1..Len(s)]
    /\ \A x \in 1..Len(h) : h[x] = s[at[x]] /\ s[at[x]][key] = name
    /\ \A x, y \in 1..Len(h) : x < y => at[x] < at[y]
    /\ \A i \in 1..Len(s) : s[i][key] = name => \E x \in 1..Len(h) : at[x] = i

LEMMA HavingKnown ==
  ASSUME NEW S, NEW s \in Seq(S), NEW key, NEW name
  PROVE  /\ Having(s, key, name) \in Seq(S)
         /\ \E at : HavingFrom(s, key, name, Having(s, key, name), at)
  <1> DEFINE picks == [i \in DOMAIN s |-> IF s[i][key] = name THEN <<s[i]>> ELSE << >>]
             h == FlattenSeq(picks)
  <1>1. DOMAIN s = 1..Len(s) /\ Len(s) \in Nat /\ \A i \in 1..Len(s) : s[i] \in S
    OBVIOUS
  <1>2. picks \in Seq(Seq(S)) /\ Len(picks) = Len(s)
    <2>1. \A i \in 1..Len(s) : (IF s[i][key] = name THEN <<s[i]>> ELSE << >>) \in Seq(S)
      <3> TAKE i \in 1..Len(s)
      <3>1. s[i] \in S
        BY <1>1
      <3> QED
        BY <3>1
    <2> QED
      BY <1>1, <2>1
  <1>3. Having(s, key, name) = h
    BY DEF Having
  <1>4. ASSUME NEW i \in 1..Len(s)
        PROVE  /\ s[i][key] = name => Len(picks[i]) = 1 /\ picks[i][1] = s[i]
               /\ s[i][key] # name => Len(picks[i]) = 0
    <2>1. picks[i] = IF s[i][key] = name THEN <<s[i]>> ELSE << >>
      BY <1>1
    <2> HIDE DEF picks
    <2> QED
      BY <2>1
  <1> HIDE DEF picks
  <1>5. h \in Seq(S) /\ \E row, col : LaidOut(picks, Len(picks), h, row, col)
    BY <1>2, FlattenLays
  <1> HIDE DEF h
  <1>6. PICK row, col : LaidOut(picks, Len(s), h, row, col)
    BY <1>2, <1>5
  <1>7. ASSUME NEW x \in 1..Len(h)
        PROVE  row[x] \in 1..Len(s) /\ s[row[x]][key] = name /\ col[x] = 1 /\ h[x] = s[row[x]]
    <2>1. row[x] \in 1..Len(s) /\ col[x] \in 1..Len(picks[row[x]]) /\ h[x] = picks[row[x]][col[x]]
      BY <1>6 DEF LaidOut
    <2>2. s[row[x]][key] = name
      <3>1. SUFFICES ASSUME s[row[x]][key] # name PROVE FALSE
        OBVIOUS
      <3>2. Len(picks[row[x]]) = 0
        BY <1>4, <2>1, <3>1
      <3> QED
        BY <2>1, <3>2
    <2>3. Len(picks[row[x]]) = 1 /\ picks[row[x]][1] = s[row[x]]
      BY <1>4, <2>1, <2>2
    <2>4. col[x] = 1
      BY <2>1, <2>3
    <2> QED
      BY <2>1, <2>2, <2>3, <2>4
  <1>8. ASSUME NEW x \in 1..Len(h), NEW y \in 1..Len(h), x < y PROVE row[x] < row[y]
    <2>1. row[x] < row[y] \/ (row[x] = row[y] /\ col[x] < col[y])
      BY <1>6, <1>8 DEF LaidOut
    <2>2. col[x] = 1 /\ col[y] = 1
      BY <1>7
    <2> QED
      BY <2>1, <2>2
  <1>9. ASSUME NEW i \in 1..Len(s), s[i][key] = name PROVE \E x \in 1..Len(h) : row[x] = i
    <2>1. 1 \in 1..Len(picks[i])
      BY <1>4, <1>9
    <2> QED
      BY <1>6, <2>1 DEF LaidOut
  <1>10. row \in [1..Len(h) -> 1..Len(s)]
    BY <1>6 DEF LaidOut
  <1>11. HavingFrom(s, key, name, h, row)
    BY <1>7, <1>8, <1>9, <1>10 DEF HavingFrom
  <1> QED
    BY <1>3, <1>5, <1>11

SortedFrom(s, key, t, at) ==
    /\ at \in [1..Len(t) -> 1..Len(s)]
    /\ \A x \in 1..Len(t) : t[x] = s[at[x]]
    /\ \A x, y \in 1..Len(t) : x < y =>
         RankOf(t[x][key]) < RankOf(t[y][key]) \/ (t[x][key] = t[y][key] /\ at[x] < at[y])
    /\ \A i \in 1..Len(s) : \E x \in 1..Len(t) : at[x] = i

LEMMA OrderKnown ==
  /\ DOMAIN Order = 1..Len(Order) /\ Len(Order) \in Nat
  /\ \A i, k \in DOMAIN Order : Order[i] = Order[k] => i = k
  <1>1. Order \in Seq(STRING) /\ \A i, k \in DOMAIN Order : Order[i] = Order[k] => i = k
    BY CheckAssumption, Zenon
  <1>2. DOMAIN Order = 1..Len(Order) /\ Len(Order) \in Nat
    BY <1>1, LenProperties, Zenon
  <1> QED
    BY <1>1, <1>2

LEMMA RankKnown ==
  ASSUME NEW i \in DOMAIN Order
  PROVE  RankOf(Order[i]) = i /\ i \in Nat
  <1>1. \A k \in DOMAIN Order : Order[i] = Order[k] => i = k
    BY OrderKnown
  <1>2. i \in Nat
    BY OrderKnown
  <1> QED
    BY <1>1, <1>2 DEF RankOf

\* sort.SliceStable keeps every element once, in the order of the keys and under one key in
\* the order in which they were.
LEMMA SortedKnown ==
  ASSUME NEW S, NEW s \in Seq(S), NEW key, \A e \in S : e[key] \in Name
  PROVE  Sorted(s, key) \in Seq(S) /\ \E at : SortedFrom(s, key, Sorted(s, key), at)
  <1> DEFINE m == Len(Order)
             parts == [i \in DOMAIN Order |-> Having(s, key, Order[i])]
             t == FlattenSeq(parts)
             from == [i \in 1..m |-> CHOOSE at : HavingFrom(s, key, Order[i], Having(s, key, Order[i]), at)]
  <1>1. DOMAIN Order = 1..m /\ m \in Nat /\ Len(s) \in Nat
    BY OrderKnown
  <1>2. Sorted(s, key) = t
    BY DEF Sorted
  <1>3. DOMAIN parts = 1..m /\ \A i \in 1..m : parts[i] = Having(s, key, Order[i]) /\ parts[i] \in Seq(S)
    BY <1>1, HavingKnown
  <1>4. parts \in Seq(Seq(S)) /\ Len(parts) = m
    <2>1. parts = [i \in 1..m |-> Having(s, key, Order[i])]
      BY <1>1
    <2>2. \A i \in 1..m : Having(s, key, Order[i]) \in Seq(S)
      BY HavingKnown
    <2> HIDE DEF parts, m
    <2> QED
      BY <1>1, <2>1, <2>2
  <1>5. \A i \in 1..m : HavingFrom(s, key, Order[i], parts[i], from[i])
    <2> TAKE i \in 1..m
    <2>1. \E at : HavingFrom(s, key, Order[i], Having(s, key, Order[i]), at)
      BY HavingKnown
    <2>2. from[i] = CHOOSE at : HavingFrom(s, key, Order[i], Having(s, key, Order[i]), at)
      OBVIOUS
    <2>3. parts[i] = Having(s, key, Order[i])
      BY <1>3
    <2> HIDE DEF from, parts, m
    <2> QED
      BY <2>1, <2>2, <2>3
  <1> HIDE DEF parts, from
  <1>6. t \in Seq(S) /\ \E row, col : LaidOut(parts, Len(parts), t, row, col)
    BY <1>4, FlattenLays
  <1> HIDE DEF t
  <1>7. PICK row, col : LaidOut(parts, m, t, row, col)
    BY <1>4, <1>6
  <1> HIDE DEF m
  <1> DEFINE at == [x \in 1..Len(t) |-> from[row[x]][col[x]]]
  <1>8. ASSUME NEW x \in 1..Len(t)
        PROVE  /\ row[x] \in 1..m /\ col[x] \in 1..Len(parts[row[x]]) /\ t[x] = parts[row[x]][col[x]]
               /\ at[x] \in 1..Len(s) /\ t[x] = s[at[x]] /\ t[x][key] = Order[row[x]]
               /\ at[x] = from[row[x]][col[x]]
    <2>1. row[x] \in 1..m /\ col[x] \in 1..Len(parts[row[x]]) /\ t[x] = parts[row[x]][col[x]]
      BY <1>7 DEF LaidOut
    <2>2. at[x] = from[row[x]][col[x]]
      OBVIOUS
    <2> HIDE DEF at
    <2>3. HavingFrom(s, key, Order[row[x]], parts[row[x]], from[row[x]])
      BY <1>5, <2>1
    <2>4. from[row[x]][col[x]] \in 1..Len(s)
      BY <2>1, <2>3 DEF HavingFrom
    <2>5. /\ parts[row[x]][col[x]] = s[from[row[x]][col[x]]]
          /\ s[from[row[x]][col[x]]][key] = Order[row[x]]
      BY <2>1, <2>3 DEF HavingFrom
    <2> QED
      BY <2>1, <2>2, <2>4, <2>5
  <1>9. ASSUME NEW x \in 1..Len(t), NEW y \in 1..Len(t), x < y
        PROVE  RankOf(t[x][key]) < RankOf(t[y][key]) \/ (t[x][key] = t[y][key] /\ at[x] < at[y])
    <2>1. row[x] < row[y] \/ (row[x] = row[y] /\ col[x] < col[y])
      BY <1>7, <1>9 DEF LaidOut
    <2>2. RankOf(t[x][key]) = row[x] /\ RankOf(t[y][key]) = row[y]
      <3> HIDE DEF at
      <3> QED
        BY <1>1, <1>8, RankKnown
    <2>3. CASE row[x] = row[y] /\ col[x] < col[y]
      <3>1. HavingFrom(s, key, Order[row[x]], parts[row[x]], from[row[x]])
        BY <1>5, <1>8
      <3>2. col[x] \in 1..Len(parts[row[x]]) /\ col[y] \in 1..Len(parts[row[x]])
        BY <1>8, <2>3
      <3>3. from[row[x]][col[x]] < from[row[x]][col[y]]
        BY <2>3, <3>1, <3>2 DEF HavingFrom
      <3>4. t[x][key] = Order[row[x]] /\ t[y][key] = Order[row[y]]
        BY <1>8
      <3> QED
        BY <2>3, <3>3, <3>4
    <2> HIDE DEF at
    <2> QED
      BY <2>1, <2>2, <2>3
  <1>10. ASSUME NEW i \in 1..Len(s) PROVE \E x \in 1..Len(t) : at[x] = i
    <2>1. s[i][key] \in Name
      OBVIOUS
    <2>2. PICK o \in 1..m : Order[o] = s[i][key]
      BY <1>1, <2>1 DEF Name, ToSet
    <2>3. HavingFrom(s, key, Order[o], parts[o], from[o])
      BY <1>5
    <2>4. PICK k \in 1..Len(parts[o]) : from[o][k] = i
      BY <2>2, <2>3 DEF HavingFrom
    <2>5. PICK x \in 1..Len(t) : row[x] = o /\ col[x] = k
      BY <1>7 DEF LaidOut
    <2> QED
      BY <2>4, <2>5
  <1>11. at \in [1..Len(t) -> 1..Len(s)]
    <2>1. \A x \in 1..Len(t) : at[x] \in 1..Len(s)
      BY <1>8
    <2>2. at = [x \in 1..Len(t) |-> at[x]]
      OBVIOUS
    <2> HIDE DEF at
    <2> QED
      BY <2>1, <2>2
  <1>12. SortedFrom(s, key, t, at)
    <2> HIDE DEF at
    <2> QED
      BY <1>8, <1>9, <1>10, <1>11 DEF SortedFrom
  <1> HIDE DEF at
  <1> QED
    BY <1>2, <1>6, <1>12

-----------------------------------------------------------------------------
(* The spec *)

\* The merged declarations of a file stand in the order of the file, and those of other
\* files beside them.
InFileOrder(s, decls) ==
    /\ \A x \in DOMAIN s : /\ s[x].from \in Path /\ s[x].nth \in DOMAIN decls[s[x].from]
                           /\ s[x].decl = decls[s[x].from][s[x].nth]
    /\ \A x, y \in DOMAIN s : x < y /\ s[x].from = s[y].from => s[x].nth < s[y].nth

MergedOf(parts, decls) == FlattenSeq([i \in DOMAIN parts |-> Declared(parts[i], decls[parts[i]])])

LEMMA DeclarationsInOrder ==
  ASSUME NEW D, NEW decls \in [Path -> Seq(D)], NEW parts \in Seq(Path),
         \A i, j \in DOMAIN parts : parts[i] = parts[j] => i = j
  PROVE  InFileOrder(MergedOf(parts, decls), decls)
  <1> DEFINE s == MergedOf(parts, decls)
             seqs == [i \in DOMAIN parts |-> Declared(parts[i], decls[parts[i]])]
             Item == [from : Path, nth : Nat, decl : D]
             n == Len(parts)
  <1>1. DOMAIN parts = 1..n /\ n \in Nat /\ \A i \in 1..n : parts[i] \in Path
    OBVIOUS
  <1>2. ASSUME NEW p \in Path
        PROVE  /\ Declared(p, decls[p]) \in Seq(Item) /\ Len(Declared(p, decls[p])) = Len(decls[p])
               /\ DOMAIN decls[p] = 1..Len(decls[p])
               /\ \A k \in 1..Len(decls[p]) : Declared(p, decls[p])[k] = [from |-> p, nth |-> k, decl |-> decls[p][k]]
    <2>1. decls[p] \in Seq(D) /\ DOMAIN decls[p] = 1..Len(decls[p]) /\ Len(decls[p]) \in Nat
      OBVIOUS
    <2>2. \A k \in 1..Len(decls[p]) : [from |-> p, nth |-> k, decl |-> decls[p][k]] \in Item
      BY <2>1
    <2> HIDE DEF Item
    <2> QED
      BY <2>1, <2>2 DEF Declared
  <1> HIDE DEF Item
  <1>3. \A i \in 1..n : seqs[i] = Declared(parts[i], decls[parts[i]]) /\ seqs[i] \in Seq(Item)
    BY <1>1, <1>2
  <1>4. seqs \in Seq(Seq(Item)) /\ Len(seqs) = n
    <2>1. seqs = [i \in 1..n |-> Declared(parts[i], decls[parts[i]])]
      BY <1>1
    <2>2. \A i \in 1..n : Declared(parts[i], decls[parts[i]]) \in Seq(Item)
      BY <1>1, <1>2
    <2> HIDE DEF seqs, n
    <2> QED
      BY <1>1, <2>1, <2>2
  <1>5. s = FlattenSeq(seqs)
    BY DEF MergedOf
  <1> HIDE DEF s, seqs, n
  <1>6. s \in Seq(Item) /\ \E row, col : LaidOut(seqs, Len(seqs), s, row, col)
    BY <1>4, <1>5, FlattenLays
  <1>7. PICK row, col : LaidOut(seqs, n, s, row, col)
    BY <1>4, <1>6
  <1>8. DOMAIN s = 1..Len(s) /\ Len(s) \in Nat
    BY <1>6
  <1>9. ASSUME NEW x \in 1..Len(s)
        PROVE  /\ row[x] \in 1..n /\ parts[row[x]] \in Path /\ col[x] \in 1..Len(decls[parts[row[x]]])
               /\ s[x].from = parts[row[x]] /\ s[x].nth = col[x] /\ s[x].decl = decls[parts[row[x]]][col[x]]
               /\ DOMAIN decls[parts[row[x]]] = 1..Len(decls[parts[row[x]]])
    <2>1. row[x] \in 1..n /\ col[x] \in 1..Len(seqs[row[x]]) /\ s[x] = seqs[row[x]][col[x]]
      BY <1>7 DEF LaidOut
    <2>2. parts[row[x]] \in Path /\ seqs[row[x]] = Declared(parts[row[x]], decls[parts[row[x]]])
      BY <1>1, <1>3, <2>1
    <2>3. s[x] = [from |-> parts[row[x]], nth |-> col[x], decl |-> decls[parts[row[x]]][col[x]]]
      BY <1>2, <2>1, <2>2
    <2> QED
      BY <1>2, <2>1, <2>2, <2>3
  <1>10. ASSUME NEW x \in 1..Len(s), NEW y \in 1..Len(s), x < y, s[x].from = s[y].from PROVE s[x].nth < s[y].nth
    <2>1. row[x] < row[y] \/ (row[x] = row[y] /\ col[x] < col[y])
      BY <1>7, <1>10 DEF LaidOut
    <2>2. parts[row[x]] = parts[row[y]] /\ row[x] \in 1..n /\ row[y] \in 1..n
      BY <1>9, <1>10
    <2>3. row[x] = row[y]
      BY <1>1, <2>2
    <2>4. col[x] < col[y]
      BY <2>1, <2>2, <2>3
    <2> QED
      BY <1>9, <2>4
  <1>11. ASSUME NEW x \in 1..Len(s)
         PROVE  /\ s[x].from \in Path /\ s[x].nth \in DOMAIN decls[s[x].from]
                /\ s[x].decl = decls[s[x].from][s[x].nth]
    BY <1>9
  <1>12. InFileOrder(s, decls)
    BY <1>8, <1>10, <1>11 DEF InFileOrder
  <1> QED
    BY <1>12 DEF s

LEMMA MergedInOrder ==
  ASSUME HoldsTyped, Top.parts \in Seq(Path),
         \A i, j \in DOMAIN Top.parts : Top.parts[i] = Top.parts[j] => i = j
  PROVE  /\ \A x \in DOMAIN TypeStmt :
              LET t == TypeStmt[x]
              IN  t.from \in Path /\ t.nth \in DOMAIN holds[t.from].types /\ t.decl = holds[t.from].types[t.nth]
         /\ \A x, y \in DOMAIN TypeStmt :
              x < y /\ TypeStmt[x].from = TypeStmt[y].from => TypeStmt[x].nth < TypeStmt[y].nth
         /\ \A x \in DOMAIN ServiceStmts :
              LET s == ServiceStmts[x]
              IN  s.from \in Path /\ s.nth \in DOMAIN holds[s.from].services /\ s.decl = holds[s.from].services[s.nth]
         /\ \A x, y \in DOMAIN ServiceStmts :
              x < y /\ ServiceStmts[x].from = ServiceStmts[y].from => ServiceStmts[x].nth < ServiceStmts[y].nth
  <1> DEFINE parts == Top.parts
             types == [p \in Path |-> holds[p].types]
             services == [p \in Path |-> holds[p].services]
  <1>1. types \in [Path -> Seq(TypeDecl)] /\ services \in [Path -> Seq(ServiceDecl)]
    BY FileStatements
  <1>2. \A p \in Path : types[p] = holds[p].types /\ services[p] = holds[p].services
    OBVIOUS
  <1>3. \A i \in DOMAIN parts : parts[i] \in Path
    OBVIOUS
  <1> HIDE DEF parts
  <1>4. TypeStmt = MergedOf(parts, types)
    <2>1. \A i \in DOMAIN parts : holds[parts[i]].types = types[parts[i]]
      BY <1>2, <1>3
    <2> HIDE DEF types
    <2>2. [i \in DOMAIN parts |-> Declared(parts[i], holds[parts[i]].types)] =
            [i \in DOMAIN parts |-> Declared(parts[i], types[parts[i]])]
      BY <2>1
    <2> QED
      BY <2>2 DEF TypeStmt, MergedOf, parts
  <1>5. ServiceStmts = MergedOf(parts, services)
    <2>1. \A i \in DOMAIN parts : holds[parts[i]].services = services[parts[i]]
      BY <1>2, <1>3
    <2> HIDE DEF services
    <2>2. [i \in DOMAIN parts |-> Declared(parts[i], holds[parts[i]].services)] =
            [i \in DOMAIN parts |-> Declared(parts[i], services[parts[i]])]
      BY <2>1
    <2> QED
      BY <2>2 DEF ServiceStmts, MergedOf, parts
  <1>6. parts \in Seq(Path) /\ \A i, j \in DOMAIN parts : parts[i] = parts[j] => i = j
    BY DEF parts
  <1> HIDE DEF types, services
  <1>7. InFileOrder(TypeStmt, types)
    BY <1>1, <1>4, <1>6, DeclarationsInOrder
  <1>8. InFileOrder(ServiceStmts, services)
    BY <1>1, <1>5, <1>6, DeclarationsInOrder
  <1> QED
    BY <1>2, <1>7, <1>8 DEF InFileOrder

\* The values that convertKV leaves are values of the @server.
LEMMA LastValueKnown ==
  ASSUME NEW decl \in ServiceDecl, NEW key
  PROVE  LastValue(decl.server, key) \in Name
  <1> DEFINE server == decl.server
             at == EntriesFor(server, key)
  <1>1. server \in Seq(STRING \X Name)
    BY DEF ServiceDecl
  <1>2. DOMAIN server = 1..Len(server) /\ Len(server) \in Nat
    BY <1>1, LenProperties, Zenon
  <1>3. \A i \in 1..Len(server) : server[i] \in STRING \X Name
    BY <1>1, ElementOfSeq, Zenon
  <1>4. CASE at = {}
    <2>1. NoValue \in Name
      BY CheckAssumption, Zenon
    <2> QED
      BY <1>4, <2>1 DEF LastValue
  <1>5. CASE at # {}
    <2>1. at \in SUBSET (0..Len(server)) /\ at \subseteq 1..Len(server)
      BY <1>2 DEF EntriesFor
    <2> HIDE DEF at, server
    <2>2. Max(at) \in 1..Len(server)
      BY <1>2, <1>5, <2>1, MaxOf
    <2>3. server[Max(at)][2] \in Name
      BY <1>3, <2>2
    <2> QED
      BY <1>5, <2>3 DEF LastValue, at, server
  <1> QED
    BY <1>4, <1>5

\* The types of the spec are those of the project, by name, and no two of a file share one.
LEMMA SpecTypesKnown ==
  ASSUME HoldsTyped, Top.parts \in Seq(Path), FirstPass,
         \A i, j \in DOMAIN Top.parts : Top.parts[i] = Top.parts[j] => i = j,
         NEW t, t = Analyzed(TypeStmt, ServiceStmts).types
  PROVE  /\ {<<u.name, u.from>> : u \in ToSet(t)} = {<<u.decl.name, u.from>> : u \in ToSet(TypeStmt)}
         /\ \A i, k \in DOMAIN t : i < k =>
              /\ RankOf(t[i].name) <= RankOf(t[k].name)
              /\ t[i].from = t[k].from => t[i].name # t[k].name
  <1> DEFINE types == TypeStmt
             s == [i \in DOMAIN types |-> SpecType(types, types[i])]
             S == {SpecType(types, u) : u \in TypeItem}
  <1>1. types \in Seq(TypeItem) /\ DOMAIN types = 1..Len(types) /\ Len(types) \in Nat
    BY MergedStatements
  <1>2. \A u \in TypeItem : /\ SpecType(types, u).name = u.decl.name /\ SpecType(types, u).from = u.from
                            /\ u.decl.name \in Name
    BY DEF SpecType, TypeItem, TypeDecl
  <1>3. t = Sorted(s, "name")
    BY DEF Analyzed
  <1> HIDE DEF types
  <1>4. s \in Seq(S) /\ Len(s) = Len(types)
    <2>1. \A i \in 1..Len(types) : SpecType(types, types[i]) \in S
      BY <1>1
    <2> HIDE DEF S
    <2> QED
      BY <1>1, <2>1
  <1>5. \A i \in 1..Len(types) : /\ types[i] \in TypeItem
                                 /\ s[i].name = types[i].decl.name /\ s[i].from = types[i].from
    BY <1>1, <1>2
  <1>6. \A e \in S : e["name"] \in Name
    BY <1>2
  <1> HIDE DEF s, S
  <1>7. t \in Seq(S) /\ \E at : SortedFrom(s, "name", t, at)
    BY <1>3, <1>4, <1>6, SortedKnown
  <1>8. PICK at : SortedFrom(s, "name", t, at)
    BY <1>7
  <1>9. DOMAIN t = 1..Len(t) /\ Len(t) \in Nat
    BY <1>7
  <1>10. ASSUME NEW x \in 1..Len(t)
         PROVE  /\ at[x] \in 1..Len(types) /\ types[at[x]] \in TypeItem
                /\ t[x].name = types[at[x]].decl.name /\ t[x].from = types[at[x]].from
    <2>1. at[x] \in 1..Len(s) /\ t[x] = s[at[x]]
      BY <1>8 DEF SortedFrom
    <2> QED
      BY <1>4, <1>5, <2>1
  <1>11. \A i \in 1..Len(types) : \E x \in 1..Len(t) : at[x] = i
    BY <1>4, <1>8 DEF SortedFrom
  <1>12. {<<u.name, u.from>> : u \in ToSet(t)} = {<<u.decl.name, u.from>> : u \in ToSet(types)}
    <2> DEFINE Is(x) == <<t[x].name, t[x].from>>
               Was(i) == <<types[i].decl.name, types[i].from>>
    <2>1. \A x \in 1..Len(t) : at[x] \in 1..Len(types) /\ Is(x) = Was(at[x])
      BY <1>10
    <2>2. {<<u.name, u.from>> : u \in ToSet(t)} = {Is(x) : x \in 1..Len(t)}
      BY <1>9 DEF ToSet
    <2>3. {<<u.decl.name, u.from>> : u \in ToSet(types)} = {Was(i) : i \in 1..Len(types)}
      BY <1>1 DEF ToSet
    <2> HIDE DEF Is, Was
    <2>4. {Is(x) : x \in 1..Len(t)} = {Was(i) : i \in 1..Len(types)}
      BY <1>11, <2>1
    <2> QED
      BY <2>2, <2>3, <2>4
  <1>13. ASSUME NEW i \in 1..Len(t), NEW k \in 1..Len(t), i < k
         PROVE  /\ RankOf(t[i].name) <= RankOf(t[k].name)
                /\ t[i].from = t[k].from => t[i].name # t[k].name
    <2>1. RankOf(t[i]["name"]) < RankOf(t[k]["name"]) \/ (t[i]["name"] = t[k]["name"] /\ at[i] < at[k])
      BY <1>8, <1>13 DEF SortedFrom
    <2>2. ASSUME NEW x \in 1..Len(t) PROVE RankOf(t[x].name) \in Nat
      <3>1. t[x].name \in Name
        BY <1>2, <1>10
      <3>2. PICK o \in DOMAIN Order : t[x].name = Order[o]
        BY <3>1 DEF Name, ToSet
      <3> QED
        BY <3>2, RankKnown
    <2>3. RankOf(t[i].name) <= RankOf(t[k].name)
      BY <2>1, <2>2
    <2>4. ASSUME t[i].from = t[k].from, t[i].name = t[k].name PROVE FALSE
      <3> DEFINE u == types[at[i]]
                 v == types[at[k]]
      <3>1. at[i] \in 1..Len(types) /\ at[k] \in 1..Len(types) /\ at[i] < at[k]
        BY <1>10, <2>1, <2>2, <2>4
      <3>2. u.from = v.from /\ u.decl.name = v.decl.name
        BY <1>10, <2>4
      <3>3. u.nth < v.nth
        BY <1>1, <3>1, <3>2, MergedInOrder DEF types
      <3>4. /\ u.from \in Path
            /\ u.nth \in DOMAIN holds[u.from].types /\ u.decl = holds[u.from].types[u.nth]
            /\ v.nth \in DOMAIN holds[v.from].types /\ v.decl = holds[v.from].types[v.nth]
        BY <1>1, <3>1, MergedInOrder DEF types
      <3>5. NoneTwice({TypeNode(w) : w \in ToSet(types)})
        BY <1>1, TypesPassSet DEF FirstPass, types
      <3>6. u \in ToSet(types) /\ v \in ToSet(types)
        BY <1>1, <3>1 DEF ToSet
      <3> HIDE DEF u, v
      <3>7. TypeNode(u).text = TypeNode(v).text
        BY <3>2 DEF TypeNode
      <3>8. TypeNode(u).pos = TypeNode(v).pos
        BY <3>5, <3>6, <3>7 DEF NoneTwice
      <3>9. u.decl.at = v.decl.at
        BY <3>8 DEF TypeNode, Position
      <3>10. u.nth = v.nth
        BY <3>2, <3>4, <3>9 DEF HoldsTyped, OnePlaceEach
      <3>11. u.nth \in Nat
        BY <1>10 DEF TypeItem, u
      <3> QED
        BY <3>3, <3>10, <3>11
    <2> QED
      BY <2>3, <2>4
  <1> QED
    BY <1>9, <1>12, <1>13 DEF types

\* The groups of the spec are the services of the project, by group, and under one group those
\* of one file as in the file.
LEMMA SpecGroupsKnown ==
  ASSUME HoldsTyped, Top.parts \in Seq(Path),
         \A i, j \in DOMAIN Top.parts : Top.parts[i] = Top.parts[j] => i = j,
         NEW t, t = Analyzed(TypeStmt, ServiceStmts).groups
  PROVE  /\ {<<g.from, g.nth>> : g \in ToSet(t)} = {<<s.from, s.nth>> : s \in ToSet(ServiceStmts)}
         /\ \A i, k \in DOMAIN t : i < k =>
              \/ RankOf(t[i].group) < RankOf(t[k].group)
              \/ t[i].group = t[k].group /\ (t[i].from # t[k].from \/ t[i].nth < t[k].nth)
         /\ \A g \in ToSet(t) : \E s \in ToSet(ServiceStmts) :
              /\ s \in ServiceItem /\ g = SpecGroup(TypeStmt, s)
              /\ s.nth \in DOMAIN holds[s.from].services /\ s.decl = holds[s.from].services[s.nth]
  <1> DEFINE services == ServiceStmts
             types == TypeStmt
             s == [i \in DOMAIN services |-> SpecGroup(types, services[i])]
             S == {SpecGroup(types, u) : u \in ServiceItem}
  <1>1. services \in Seq(ServiceItem) /\ DOMAIN services = 1..Len(services) /\ Len(services) \in Nat
    BY MergedStatements
  <1>2. ASSUME NEW u \in ServiceItem
        PROVE  /\ SpecGroup(types, u).from = u.from /\ SpecGroup(types, u).nth = u.nth
               /\ SpecGroup(types, u).group \in Name
    <2>1. u.decl \in ServiceDecl
      BY DEF ServiceItem
    <2>2. LastValue(u.decl.server, "group") \in Name
      BY <2>1, LastValueKnown
    <2> QED
      BY <2>2 DEF SpecGroup
  <1>3. t = Sorted(s, "group")
    BY DEF Analyzed
  <1> HIDE DEF types, services
  <1>4. s \in Seq(S) /\ Len(s) = Len(services)
    <2>1. \A i \in 1..Len(services) : SpecGroup(types, services[i]) \in S
      BY <1>1
    <2> HIDE DEF S
    <2> QED
      BY <1>1, <2>1
  <1>5. \A i \in 1..Len(services) : services[i] \in ServiceItem /\ s[i] = SpecGroup(types, services[i])
    BY <1>1
  <1>6. \A e \in S : e["group"] \in Name
    <2>1. \A u \in ServiceItem : SpecGroup(types, u)["group"] \in Name
      BY <1>2
    <2> QED
      BY <2>1
  <1> HIDE DEF s, S
  <1>7. t \in Seq(S) /\ \E at : SortedFrom(s, "group", t, at)
    BY <1>3, <1>4, <1>6, SortedKnown
  <1>8. PICK at : SortedFrom(s, "group", t, at)
    BY <1>7
  <1>9. DOMAIN t = 1..Len(t) /\ Len(t) \in Nat
    BY <1>7
  <1>10. ASSUME NEW x \in 1..Len(t)
         PROVE  /\ at[x] \in 1..Len(services) /\ services[at[x]] \in ServiceItem
                /\ t[x] = SpecGroup(types, services[at[x]])
                /\ t[x].from = services[at[x]].from /\ t[x].nth = services[at[x]].nth
    <2>1. at[x] \in 1..Len(s) /\ t[x] = s[at[x]]
      BY <1>8 DEF SortedFrom
    <2>2. at[x] \in 1..Len(services) /\ services[at[x]] \in ServiceItem
          /\ t[x] = SpecGroup(types, services[at[x]])
      BY <1>4, <1>5, <2>1
    <2> QED
      BY <1>2, <2>2
  <1>11. \A i \in 1..Len(services) : \E x \in 1..Len(t) : at[x] = i
    BY <1>4, <1>8 DEF SortedFrom
  <1>12. {<<g.from, g.nth>> : g \in ToSet(t)} = {<<u.from, u.nth>> : u \in ToSet(services)}
    <2> DEFINE Is(x) == <<t[x].from, t[x].nth>>
               Was(i) == <<services[i].from, services[i].nth>>
    <2>1. \A x \in 1..Len(t) : at[x] \in 1..Len(services) /\ Is(x) = Was(at[x])
      BY <1>10
    <2>2. {<<g.from, g.nth>> : g \in ToSet(t)} = {Is(x) : x \in 1..Len(t)}
      BY <1>9 DEF ToSet
    <2>3. {<<u.from, u.nth>> : u \in ToSet(services)} = {Was(i) : i \in 1..Len(services)}
      BY <1>1 DEF ToSet
    <2> HIDE DEF Is, Was
    <2>4. {Is(x) : x \in 1..Len(t)} = {Was(i) : i \in 1..Len(services)}
      BY <1>11, <2>1
    <2> QED
      BY <2>2, <2>3, <2>4
  <1>13. ASSUME NEW i \in 1..Len(t), NEW k \in 1..Len(t), i < k
         PROVE  \/ RankOf(t[i].group) < RankOf(t[k].group)
                \/ t[i].group = t[k].group /\ (t[i].from # t[k].from \/ t[i].nth < t[k].nth)
    <2>1. RankOf(t[i]["group"]) < RankOf(t[k]["group"]) \/ (t[i]["group"] = t[k]["group"] /\ at[i] < at[k])
      BY <1>8, <1>13 DEF SortedFrom
    <2>2. ASSUME at[i] < at[k], t[i].from = t[k].from PROVE t[i].nth < t[k].nth
      <3>1. at[i] \in DOMAIN services /\ at[k] \in DOMAIN services
        BY <1>1, <1>10
      <3>2. services[at[i]].from = services[at[k]].from
        BY <1>10, <2>2
      <3>3. services[at[i]].nth < services[at[k]].nth
        BY <2>2, <3>1, <3>2, MergedInOrder DEF services
      <3> QED
        BY <1>10, <3>3
    <2> QED
      BY <2>1, <2>2
  <1>14. ASSUME NEW g \in ToSet(t)
         PROVE  \E u \in ToSet(services) :
                  /\ u \in ServiceItem /\ g = SpecGroup(types, u)
                  /\ u.nth \in DOMAIN holds[u.from].services /\ u.decl = holds[u.from].services[u.nth]
    <2>1. PICK x \in 1..Len(t) : g = t[x]
      BY <1>9 DEF ToSet
    <2>2. at[x] \in DOMAIN services /\ services[at[x]] \in ServiceItem /\ g = SpecGroup(types, services[at[x]])
      BY <1>1, <1>10, <2>1
    <2>3. /\ services[at[x]].nth \in DOMAIN holds[services[at[x]].from].services
          /\ services[at[x]].decl = holds[services[at[x]].from].services[services[at[x]].nth]
      BY <2>2, MergedInOrder DEF services
    <2>4. services[at[x]] \in ToSet(services)
      BY <2>2 DEF ToSet
    <2> QED
      BY <2>2, <2>3, <2>4
  <1> QED
    BY <1>9, <1>12, <1>13, <1>14 DEF services, types

\* A group has the routes of its service, by path, else as they were declared.
LEMMA SpecRoutesKnown ==
  ASSUME NEW all, NEW s \in ServiceItem, NEW t, t = SpecGroup(all, s).routes
  PROVE  /\ {r.nth : r \in ToSet(t)} = DOMAIN s.decl.routes
         /\ \A k, n \in DOMAIN t : k < n =>
              RankOf(t[k].path) < RankOf(t[n].path) \/ (t[k].path = t[n].path /\ t[k].nth < t[n].nth)
  <1> DEFINE routes == RoutesOf(s)
             in == [k \in DOMAIN routes |-> SpecRoute(all, routes[k])]
             S == {SpecRoute(all, r) : r \in RouteItem}
  <1>1. /\ routes \in Seq(RouteItem) /\ DOMAIN routes = 1..Len(routes) /\ Len(routes) \in Nat
        /\ DOMAIN s.decl.routes = 1..Len(routes)
    <2>1. routes \in Seq(RouteItem) /\ DOMAIN routes = DOMAIN s.decl.routes
      BY RoutesOfService
    <2> HIDE DEF routes
    <2> QED
      BY <2>1
  <1>2. \A k \in 1..Len(routes) : routes[k].nth = k
    BY <1>1 DEF RoutesOf
  <1>3. t = Sorted(in, "path")
    BY DEF SpecGroup
  <1>4. \A r \in RouteItem : /\ SpecRoute(all, r).nth = r.nth /\ SpecRoute(all, r).path = r.route.path
                             /\ r.route.path \in Name
    BY DEF SpecRoute, RouteItem, RouteDecl
  <1> HIDE DEF routes
  <1>5. in \in Seq(S) /\ Len(in) = Len(routes)
    <2>1. \A k \in 1..Len(routes) : SpecRoute(all, routes[k]) \in S
      BY <1>1
    <2> HIDE DEF S
    <2> QED
      BY <1>1, <2>1
  <1>6. \A k \in 1..Len(routes) : in[k].nth = k
    BY <1>1, <1>2, <1>4
  <1>7. \A e \in S : e["path"] \in Name
    BY <1>4
  <1> HIDE DEF in, S
  <1>8. t \in Seq(S) /\ \E at : SortedFrom(in, "path", t, at)
    BY <1>3, <1>5, <1>7, SortedKnown
  <1>9. PICK at : SortedFrom(in, "path", t, at)
    BY <1>8
  <1>10. DOMAIN t = 1..Len(t) /\ Len(t) \in Nat
    BY <1>8
  <1>11. ASSUME NEW x \in 1..Len(t) PROVE at[x] \in 1..Len(routes) /\ t[x].nth = at[x]
    <2>1. at[x] \in 1..Len(in) /\ t[x] = in[at[x]]
      BY <1>9 DEF SortedFrom
    <2> QED
      BY <1>5, <1>6, <2>1
  <1>12. {r.nth : r \in ToSet(t)} = 1..Len(routes)
    <2>1. \A k \in 1..Len(routes) : \E x \in 1..Len(t) : at[x] = k
      BY <1>5, <1>9 DEF SortedFrom
    <2>2. {r.nth : r \in ToSet(t)} = {t[x].nth : x \in 1..Len(t)}
      BY <1>10 DEF ToSet
    <2>3. {t[x].nth : x \in 1..Len(t)} = 1..Len(routes)
      BY <1>11, <2>1
    <2> QED
      BY <2>2, <2>3
  <1>13. ASSUME NEW k \in 1..Len(t), NEW n \in 1..Len(t), k < n
         PROVE  RankOf(t[k].path) < RankOf(t[n].path) \/ (t[k].path = t[n].path /\ t[k].nth < t[n].nth)
    <2>1. RankOf(t[k]["path"]) < RankOf(t[n]["path"]) \/ (t[k]["path"] = t[n]["path"] /\ at[k] < at[n])
      BY <1>9, <1>13 DEF SortedFrom
    <2> QED
      BY <1>11, <2>1
  <1> QED
    BY <1>1, <1>10, <1>12, <1>13

\* The spec that the generators get has every type, service and route of the project once, in
\* an order that the files alone decide, whichever order Go ranged over the imports in: up to
\* services of different files under one group.
THEOREM SpecTellsTheProject == CheckSpec => []SpecIsProjects
<1>1. TypeOK /\ MergedRoot /\ MergedExactlyOnce /\ HoldsTyped /\ OutcomeInv => SpecIsProjects
  <2> SUFFICES ASSUME TypeOK, MergedRoot, MergedExactlyOnce, HoldsTyped, OutcomeInv, outcome = "accepted"
               PROVE  SpecIsProjects
    BY DEF SpecIsProjects
  <2> DEFINE types == AllTypes(Reachable)
             services == AllServices(Reachable)
  <2>1. /\ Top.parts \in Seq(Path) /\ ToSet(Top.parts) = Reachable
        /\ \A i, j \in DOMAIN Top.parts : Top.parts[i] = Top.parts[j] => i = j
    BY RootParts DEF OutcomeInv
  <2>2. FirstPass /\ spec = Analyzed(TypeStmt, ServiceStmts)
    BY DEF OutcomeInv
  <2>3. ToSet(TypeStmt) = types /\ ToSet(ServiceStmts) = services
    BY <2>1, MergedStatements
  <2> HIDE DEF types, services
  <2>4. /\ {<<t.name, t.from>> : t \in ToSet(spec.types)} = {<<t.decl.name, t.from>> : t \in types}
        /\ \A i, k \in DOMAIN spec.types : i < k =>
             /\ RankOf(spec.types[i].name) <= RankOf(spec.types[k].name)
             /\ spec.types[i].from = spec.types[k].from => spec.types[i].name # spec.types[k].name
    BY <2>1, <2>2, <2>3, SpecTypesKnown
  <2>5. /\ {<<g.from, g.nth>> : g \in ToSet(spec.groups)} = {<<s.from, s.nth>> : s \in services}
        /\ \A i, k \in DOMAIN spec.groups : i < k =>
             \/ RankOf(spec.groups[i].group) < RankOf(spec.groups[k].group)
             \/ /\ spec.groups[i].group = spec.groups[k].group
                /\ spec.groups[i].from # spec.groups[k].from \/ spec.groups[i].nth < spec.groups[k].nth
        /\ \A g \in ToSet(spec.groups) : \E s \in services :
             /\ s \in ServiceItem /\ g = SpecGroup(TypeStmt, s)
             /\ s.nth \in DOMAIN holds[s.from].services /\ s.decl = holds[s.from].services[s.nth]
    BY <2>1, <2>2, <2>3, SpecGroupsKnown
  <2>6. ASSUME NEW g \in ToSet(spec.groups)
        PROVE  /\ {r.nth : r \in ToSet(g.routes)} = DOMAIN holds[g.from].services[g.nth].routes
               /\ \A k, n \in DOMAIN g.routes : k < n =>
                    LET r == g.routes[k]
                        q == g.routes[n]
                    IN  RankOf(r.path) < RankOf(q.path) \/ (r.path = q.path /\ r.nth < q.nth)
    <3>1. PICK s \in ServiceItem : /\ g = SpecGroup(TypeStmt, s)
                                   /\ s.decl = holds[s.from].services[s.nth]
      BY <2>5
    <3>2. g.from = s.from /\ g.nth = s.nth
      BY <3>1 DEF SpecGroup
    <3>3. /\ {r.nth : r \in ToSet(g.routes)} = DOMAIN s.decl.routes
          /\ \A k, n \in DOMAIN g.routes : k < n =>
               \/ RankOf(g.routes[k].path) < RankOf(g.routes[n].path)
               \/ g.routes[k].path = g.routes[n].path /\ g.routes[k].nth < g.routes[n].nth
      BY <3>1, SpecRoutesKnown
    <3> QED
      BY <3>1, <3>2, <3>3
  <2>7. QED
    BY <2>4, <2>5, <2>6 DEF SpecIsProjects, types, services
<1>2. QED
  BY <1>1, ChecksRunImports, TypeCorrect, MergedRootStays, StatementsMergedOnce, HoldsAreTyped, OutcomeStays, PTL
===============================================================================
