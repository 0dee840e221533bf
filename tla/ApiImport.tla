------------------------------ MODULE ApiImport ------------------------------
(***************************************************************************)
(* Import resolution of the hand-written api parser: the depth-first walk  *)
(* over `import` statements in pkg/parser/api/parser/api.go, the cycle     *)
(* check of pkg/parser/api/importstack and the merge of every imported     *)
(* file into its importer.                                                 *)
(*                                                                         *)
(* The recursion parseReverse -> parseImportedAPI -> parseReverse is an    *)
(* explicit stack of frames.  The loop over importValueSet ranges over a   *)
(* Go map, so the next import is any member of the frame's todo set.       *)
(* The statements of a file are abstracted to the file's path: an API's    *)
(* TypeStmt/ServiceStmts is the sequence of the paths whose statements it  *)
(* holds.                                                                  *)
(***************************************************************************)
EXTENDS Integers, Sequences

CONSTANTS
    Path,         \* import paths after filepath.Join, as importManager and importSet key them
    Root,         \* the file given to Parse
    Spelling,     \* ways to write one path in an import statement ("a.api", "./a.api")
    SpelledAs,    \* those in which the files of this instance write each path
    SyntaxValue,  \* values of the syntax statement; "v1" when it is absent
    Kind          \* the outcomes of reading a file that this instance considers

(***************************************************************************)
(* What New, Parse, CheckErrors and convert2API make of a file:            *)
(*   ok         an API                                                     *)
(*   missing    no such file or no byte in it: MustNewScanner calls        *)
(*              log.Fatalln                                                *)
(*   invalid    CheckErrors returns an error                               *)
(*   duplicate  convert2API refuses a second syntax or info statement      *)
(*   blank      only white space: convert2API indexes Stmts[0] and panics  *)
(***************************************************************************)
FileKind == {"ok", "missing", "invalid", "duplicate", "blank"}

ASSUME ImportAssumption ==
    /\ Root \in Path
    /\ \A p \in Path : SpelledAs[p] \subseteq Spelling
    /\ SyntaxValue # {}
    /\ Kind \subseteq FileKind

\* An import value: the path it resolves to and how it is spelled.  importValueSet
\* is keyed by the text, so two spellings of one path are two entries.
Text == {t \in Path \X Spelling : t[2] \in SpelledAs[t[1]]}

File == [kind : Kind, syntax : SyntaxValue, imports : SUBSET Text]

\* Only the kind of an unreadable file matters.
Canonical(f) == f.kind # "ok" =>
    /\ f.imports = {}
    /\ f.syntax = CHOOSE v \in SyntaxValue : TRUE

\* A parsed file: the file itself and the files whose statements it holds.
API == [path : Path, parts : Seq(Path)]

\* One activation of parseReverse: the API under construction (path, parts), the
\* rest of importValueSet, and the nested APIs returned by parseImportedAPI.
Frame == [path : Path, parts : Seq(Path), todo : SUBSET Text, list : Seq(API)]

Verdict == {"running", "merged", "cycle", "fatal", "error", "panic", "syntax"}

VARIABLES
    disk,       \* the api files; no step changes them
    stack,      \* importManager
    importSet,  \* importSet, shared by every API of one Parse
    frames,     \* the Go call stack of parseReverse
    parses,     \* how often each path was parsed (history)
    verdict     \* how Parse has ended, as far as imports are concerned

vars == <<disk, stack, importSet, frames, parses, verdict>>

-----------------------------------------------------------------------------
InitFrame(p) ==
    [path |-> p, parts |-> <<p>>, todo |-> disk[p].imports, list |-> <<>>]

\* Mutant: a file is compared with its direct importer only.
OnStackTopOnly(p) == stack # <<>> /\ stack[Len(stack)] = p

\* ImportStack.Push fails on a path that is already on the stack.
OnStack(p) == \E i \in DOMAIN stack : stack[i] = p

\* How a file that does not become an API ends the whole run.
Failure(kind) == CASE kind = "missing" -> "fatal"
                   [] kind = "blank"   -> "panic"
                   [] OTHER            -> "error"

Top == frames[Len(frames)]
SetFrame(s, i, f) == [s EXCEPT ![i] = f]

Init ==
    /\ disk \in {d \in [Path -> File] : \A p \in Path : Canonical(d[p])}
    /\ stack = <<>>
    /\ importSet = {}
    /\ frames = <<>>
    /\ parses = [p \in Path |-> 0]
    /\ verdict = "running"

\* Parse: the root file is parsed, pushed on the stack (but not put into importSet)
\* and converted; CheckErrors comes before the push and convert2API after it.
ParseRoot ==
    LET kind == disk[Root].kind IN
    /\ verdict = "running"
    /\ frames = <<>>
    /\ parses' = [parses EXCEPT ![Root] = @ + 1]
    /\ stack' = IF kind \in {"missing", "invalid"} THEN stack ELSE <<Root>>
    /\ frames' = IF kind = "ok" THEN <<InitFrame(Root)>> ELSE frames
    /\ verdict' = IF kind = "ok" THEN verdict ELSE Failure(kind)
    /\ UNCHANGED <<disk, importSet>>

\* The range over importValueSet is at value t of the innermost activation.
AtImport(t) ==
    /\ verdict = "running"
    /\ frames # <<>>
    /\ t \in Top.todo

TakenTop(t) == [Top EXCEPT !.todo = @ \ {t}]

\* Mutant: the range does not advance.
TakeImportNot(t) == frames

TakeImport(t) == SetFrame(frames, Len(frames), TakenTop(t))

\* Push reports a path that is being imported.
ImportCycle(t) ==
    /\ AtImport(t)
    /\ OnStack(t[1])
    /\ verdict' = "cycle"
    /\ UNCHANGED <<disk, stack, importSet, frames, parses>>

\* Mutant: continue without the Pop.
SkipImportedNoPop(t) ==
    /\ AtImport(t)
    /\ ~OnStack(t[1])
    /\ t[1] \in importSet
    /\ stack' = Append(stack, t[1])
    /\ frames' = TakeImport(t)
    /\ UNCHANGED <<disk, importSet, parses, verdict>>

\* Push, found in importSet, Pop, continue.
SkipImported(t) ==
    /\ AtImport(t)
    /\ ~OnStack(t[1])
    /\ t[1] \in importSet
    /\ frames' = TakeImport(t)
    /\ UNCHANGED <<disk, stack, importSet, parses, verdict>>

\* Mutant: the path is not put into importSet.
EnterImportForget(t) ==
    LET p == t[1] IN
    /\ AtImport(t)
    /\ ~OnStack(p)
    /\ disk[p].kind = "ok"
    /\ stack' = Append(stack, p)
    /\ parses' = [parses EXCEPT ![p] = @ + 1]
    /\ frames' = Append(TakeImport(t), InitFrame(p))
    /\ UNCHANGED <<disk, importSet, verdict>>

\* A new path: pushed, remembered, parsed, and its own imports are resolved next.
EnterImport(t) ==
    LET p == t[1] IN
    /\ AtImport(t)
    /\ ~OnStack(p)
    /\ p \notin importSet
    /\ stack' = Append(stack, p)
    /\ importSet' = importSet \cup {p}
    /\ parses' = [parses EXCEPT ![p] = @ + 1]
    /\ IF disk[p].kind = "ok"
       THEN /\ frames' = Append(TakeImport(t), InitFrame(p))
            /\ UNCHANGED verdict
       ELSE /\ verdict' = Failure(disk[p].kind)
            /\ UNCHANGED frames
    /\ UNCHANGED disk

MergedTop == [Top EXCEPT !.parts = @ \o Head(Top.list).parts,
                         !.list  = Tail(@)]

\* parseReverse, once parseImportedAPI has returned its list: merge the next nested API.
MergeNext ==
    /\ verdict = "running"
    /\ frames # <<>>
    /\ Top.todo = {}
    /\ Top.list # <<>>
    /\ IF disk[Top.path].syntax = disk[Head(Top.list).path].syntax
       THEN /\ frames' = SetFrame(frames, Len(frames), MergedTop)
            /\ UNCHANGED verdict
       ELSE /\ verdict' = "syntax"
            /\ UNCHANGED frames
    /\ UNCHANGED <<disk, stack, importSet, parses>>

\* Mutant: the activation itself is returned.
ReturnedFrame == Top

Returned == [path |-> Top.path, parts |-> Top.parts]

\* The frame of the importer, with the returned API appended to its list.
Importer == [frames[Len(frames) - 1] EXCEPT !.list = Append(@, Returned)]

\* A nested parseReverse returns: Pop, and the API joins the importer's list.
ReturnNested ==
    LET n == Len(frames) - 1 IN
    /\ verdict = "running"
    /\ n > 0
    /\ Top.todo = {}
    /\ Top.list = <<>>
    /\ stack' = SubSeq(stack, 1, Len(stack) - 1)
    /\ frames' = SetFrame(SubSeq(frames, 1, n), n, Importer)
    /\ UNCHANGED <<disk, importSet, parses, verdict>>

\* The root's parseReverse returns; the root is never popped.
ReturnRoot ==
    /\ verdict = "running"
    /\ Len(frames) = 1
    /\ Top.todo = {}
    /\ Top.list = <<>>
    /\ verdict' = "merged"
    /\ UNCHANGED <<disk, stack, importSet, frames, parses>>

Next ==
    \/ ParseRoot
    \/ \E t \in Text : ImportCycle(t) \/ SkipImported(t) \/ EnterImport(t)
    \/ MergeNext
    \/ ReturnNested
    \/ ReturnRoot

Spec == Init /\ [][Next]_vars

\* One goroutine runs the whole resolution; it is never blocked.
FairSpec == Spec /\ WF_vars(Next)

-----------------------------------------------------------------------------
(* Reference definitions: the import graph of a project *)

Succ(p) == {t[1] : t \in disk[p].imports}

\* Closed(S): S holds the root and everything its members import.
Closed(S) == Root \in S /\ \A p \in S : Succ(p) \subseteq S

Reachable == {p \in Path : \A S \in SUBSET Path : Closed(S) => p \in S}

\* Every nonempty set of files has one that imports none of the set.
Acyclic(R) == \A S \in SUBSET R : S # {} => \E p \in S : Succ(p) \cap S = {}

\* What the user has to get right for a project to be accepted.
GoodProject ==
    /\ \A p \in Reachable : disk[p].kind = "ok"
    /\ Acyclic(Reachable)
    /\ \A p, q \in Reachable : disk[p].syntax = disk[q].syntax

-----------------------------------------------------------------------------
(* Properties *)

\* The variables keep their types: frames are activations of parseReverse.
TypeOK ==
    /\ disk \in [Path -> File]
    /\ stack \in Seq(Path)
    /\ importSet \in SUBSET Path
    /\ frames \in Seq(Frame)
    /\ parses \in [Path -> Nat]
    /\ verdict \in Verdict

\* importManager mirrors the call stack: while Parse runs, the files on it are
\* those of the active parseReverse calls, each imported by the one below it, so
\* that what Push refuses is a cycle of the import graph and nothing else.
StackIsImportChain ==
    verdict = "running" =>
      /\ Len(stack) = Len(frames)
      /\ \A i \in DOMAIN stack : stack[i] = frames[i].path
      /\ \A i \in 2..Len(stack) : stack[i] \in Succ(stack[i - 1])
      /\ \A i, j \in DOMAIN stack : stack[i] = stack[j] => i = j

\* However many files import it, a file is parsed at most once (importSet), and a
\* file that no chain of imports reaches is never read.
ParsedAtMostOnce ==
    \A p \in Path : parses[p] <= IF p \in Reachable THEN 1 ELSE 0

\* The verdict on a project does not depend on the order in which Go iterates
\* over importValueSet: Parse gets past the imports exactly when every reachable
\* file is readable, the import graph has no cycle and all syntax values agree.
VerdictIndependentOfOrder ==
    verdict # "running" => (verdict = "merged" <=> GoodProject)

\* A cycle is reported only when the reachable files import each other in a cycle.
CycleIsReal == verdict = "cycle" => ~Acyclic(Reachable)

\* After a successful run the root holds the statements of every reachable file
\* exactly once, whichever importer came first: no type or service is lost or
\* duplicated by the merge.
MergedExactlyOnce ==
    verdict = "merged" =>
      LET parts == Top.parts IN
      /\ {parts[i] : i \in DOMAIN parts} = Reachable
      /\ \A i, j \in DOMAIN parts : parts[i] = parts[j] => i = j

\* Every resolution ends, also on cyclic imports.
Terminates == <>(verdict # "running")

=============================================================================
