-------------------------------- MODULE GoGen --------------------------------
(***************************************************************************)
(* `goctl api go`: DoGenProject of api/gogen/gen.go and the genXxx         *)
(* functions it calls, over the files of one project.  The command is run  *)
(* again and again on the same directory while the api file changes, the   *)
(* user edits or deletes generated files, and runs fail or are killed.     *)
(*                                                                         *)
(* A job is one call of genFile (or of genPolicyFile): it creates a file   *)
(* that does not exist, and writes it after the template has been loaded   *)
(* and executed.  types.go and routes.go are removed first.  A file's text *)
(* is abstracted to the api and the group it was generated from.           *)
(***************************************************************************)
EXTENDS Integers, Sequences, FiniteSets

CONSTANTS
    Api,             \* the versions of the api file: sequences of groups
    Group,           \* values of the group annotation
    NoGroup,         \* no group annotation
    Handler,         \* handler names
    Middleware,      \* names in middleware annotations
    HandlerFile,     \* the file of a handler's (logic's) name: FileNamingFormat without "Handler"
    AuthFile,        \* genAuth's file for a group: lower case, without a final "s"
    MiddlewareFile,  \* genMiddleware's file for a name: without the suffix "Middleware"
    Once,            \* those of etc, config, main and svc that this instance has
    Auth,            \* --auth
    ErrSpan,         \* distance of getBaseErrCode between two groups
    MaxTears,        \* bound on interrupted runs
    MaxKept,         \* bound on the files that one run cannot remove
    MaxUserSteps,    \* bound on the user's edits, deletions and api changes
    None

\* One @server block with its routes.
Block == [group : Group \cup {NoGroup}, handlers : SUBSET Handler, middlewares : SUBSET Middleware]

Kind == {"etc", "config", "main", "svc", "types", "routes", "error", "policy",
         "auth", "handler", "logic", "middleware"}

ASSUME GoGenAssumption ==
    /\ Api \subseteq Seq(Block)
    /\ Once \subseteq {"etc", "config", "main", "svc"}
    /\ Auth \in BOOLEAN
    /\ ErrSpan \in Nat \ {0}
    /\ MaxTears \in Nat /\ MaxKept \in Nat /\ MaxUserSteps \in Nat
    /\ IsFiniteSet(Handler)
    /\ None \notin Handler /\ None \notin Middleware /\ None \notin Api

\* block is 0 for the files of the whole project.
Job == [kind : Kind, block : Nat, name : Handler \cup Middleware \cup {None}]

ASSUME NoneAssumption == None \notin Job

JobOf(kind, block, name) == [kind |-> kind, block |-> block, name |-> name]

\* The jobs of each genXxx for api a.
ForProject(kind) == {JobOf(kind, 0, None)}
GenEtc            == IF "etc" \in Once THEN ForProject("etc") ELSE {}
GenConfig         == IF "config" \in Once THEN ForProject("config") ELSE {}
GenMain           == IF "main" \in Once THEN ForProject("main") ELSE {}
GenServiceContext == IF "svc" \in Once THEN ForProject("svc") ELSE {}
GenTypes          == ForProject("types")
GenRoutes         == ForProject("routes")
GenAuthError      == IF Auth THEN ForProject("error") ELSE {}
GenPolicyFile     == IF Auth THEN ForProject("policy") ELSE {}
GenAuth(a)        == {JobOf("auth", i, None) : i \in {b \in DOMAIN a : Auth /\ a[b].group # NoGroup}}
GenHandler(a)     == UNION {{JobOf("handler", i, h) : h \in a[i].handlers} : i \in DOMAIN a}
GenLogic(a)       == UNION {{JobOf("logic", i, h) : h \in a[i].handlers} : i \in DOMAIN a}
GenMiddleware(a)  == UNION {{JobOf("middleware", 0, m) : m \in a[i].middlewares} : i \in DOMAIN a}

\* Everything DoGenProject generates for api a.
Jobs(a) ==
    GenEtc \cup GenConfig \cup GenMain \cup GenServiceContext \cup GenTypes \cup GenRoutes
      \cup GenAuthError \cup GenPolicyFile \cup GenAuth(a) \cup GenHandler(a)
      \cup GenLogic(a) \cup GenMiddleware(a)

\* The order of the calls in DoGenProject; genHandlers makes phases 7 to 9.
Phase == [etc |-> 1, config |-> 2, main |-> 3, svc |-> 4, types |-> 5, routes |-> 6,
          error |-> 7, policy |-> 8, auth |-> 9, handler |-> 9, logic |-> 10, middleware |-> 11]

\* Mutant: the groups are visited last to first.
PrecedesBackwards(j, k) ==
    \/ Phase[j.kind] < Phase[k.kind]
    \/ Phase[j.kind] = Phase[k.kind] /\ j.block > k.block
    \/ j.kind = "auth" /\ k.kind = "handler" /\ j.block = k.block

\* genHandlers and genLogic go group by group, and a group's auth file comes first.
Precedes(j, k) ==
    \/ Phase[j.kind] < Phase[k.kind]
    \/ Phase[j.kind] = Phase[k.kind] /\ j.block < k.block
    \/ j.kind = "auth" /\ k.kind = "handler" /\ j.block = k.block

FileName(a, j) ==
    CASE j.kind = "auth"       -> AuthFile[a[j.block].group]
      [] j.kind = "error"      -> "error"
      [] j.kind = "middleware" -> MiddlewareFile[j.name]
      [] j.kind \in {"handler", "logic"} -> HandlerFile[j.name]
      [] OTHER                 -> j.name

\* The file a job generates: its directory (or kind), its group and its name.
FileOf(a, j) ==
    << IF j.kind = "error" THEN "auth" ELSE j.kind,
       IF j.kind \in {"handler", "logic"} THEN a[j.block].group ELSE NoGroup,
       FileName(a, j) >>

File == UNION {{FileOf(a, j) : j \in Jobs(a)} : a \in Api}

\* A file's state; a generated text remembers what it was generated from.
Missing == <<"missing", None, 0>>
Empty   == <<"empty", None, 0>>
Edited  == <<"edited", None, 0>>
Text(a, j) == <<"text", a, j.block>>
Content == {Missing, Empty, Edited} \cup {Text(a, j) : a \in Api, j \in UNION {Jobs(b) : b \in Api}}

VARIABLES
    api,        \* the api file as the user has it
    fs,         \* the project's files
    input,      \* the api a running DoGenProject has parsed, or None
    pending,    \* the jobs it has not finished
    job,        \* the job that has created its file and not written it, or None
    removed,    \* the job at hand is past its os.Remove
    kept,       \* files that this run, or the last one, could not remove (history)
    torn,       \* files that an interrupted run left empty (history)
    done,       \* the api of the last run, if it succeeded and nothing happened since
    tears,      \* number of interrupted runs (bounded)
    userSteps   \* number of steps of the user (bounded)

vars == <<api, fs, input, pending, job, removed, kept, torn, done, tears, userSteps>>

Init ==
    /\ api \in Api
    /\ fs = [f \in File |-> Missing]
    /\ input = None
    /\ pending = {}
    /\ job = None
    /\ removed = FALSE
    /\ kept = {}
    /\ torn = {}
    /\ done = None
    /\ tears = 0
    /\ userSteps = 0

Running == input # None

\* The next call: none of the pending ones comes before it.
IsNext(j) == j \in pending /\ \A k \in pending : ~Precedes(k, j)

Regenerated(j) == j.kind \in {"types", "routes"}

\* Parse and Validate accept the api file.
Start ==
    /\ ~Running
    /\ input' = api
    /\ pending' = Jobs(api)
    /\ kept' = {}
    /\ done' = None
    /\ UNCHANGED <<api, fs, job, removed, torn, tears, userSteps>>

\* Mutant: genTypes and genRoutes do not remove the old file.
RemoveOldNot(j) ==
    /\ Running /\ job = None /\ ~removed
    /\ IsNext(j)
    /\ Regenerated(j)
    /\ removed' = TRUE
    /\ UNCHANGED <<api, fs, input, pending, job, kept, torn, done, tears, userSteps>>

\* genTypes and genRoutes: os.Remove of the old file, if there is one.
RemoveOld(j) ==
    /\ Running /\ job = None /\ ~removed
    /\ IsNext(j)
    /\ Regenerated(j)
    /\ fs' = [fs EXCEPT ![FileOf(input, j)] = Missing]
    /\ torn' = torn \ {FileOf(input, j)}
    /\ removed' = TRUE
    /\ UNCHANGED <<api, input, pending, job, kept, done, tears, userSteps>>

\* The removal fails (the directory may not be written); the error is discarded.
KeepOld(j) ==
    /\ Running /\ job = None /\ ~removed
    /\ IsNext(j)
    /\ Regenerated(j)
    /\ fs[FileOf(input, j)] # Missing
    /\ Cardinality(kept) < MaxKept
    /\ kept' = kept \cup {FileOf(input, j)}
    /\ removed' = TRUE
    /\ UNCHANGED <<api, fs, input, pending, job, torn, done, tears, userSteps>>

\* Mutant: an existing file is created anew.
SkipNever(j) ==
    /\ Running /\ job = None
    /\ IsNext(j)
    /\ fs[FileOf(input, j)] # Missing
    /\ ~Regenerated(j)
    /\ fs' = [fs EXCEPT ![FileOf(input, j)] = Empty]
    /\ job' = j
    /\ UNCHANGED <<api, input, pending, removed, kept, torn, done, tears, userSteps>>

\* Mutant: an existing file is tried again.
SkipStays(j) ==
    /\ Running /\ job = None
    /\ IsNext(j)
    /\ Regenerated(j) => removed
    /\ fs[FileOf(input, j)] # Missing
    /\ UNCHANGED vars

\* MaybeCreateFile: "exists, ignored generation".
Skip(j) ==
    /\ Running /\ job = None
    /\ IsNext(j)
    /\ Regenerated(j) => removed
    /\ fs[FileOf(input, j)] # Missing
    /\ pending' = pending \ {j}
    /\ removed' = FALSE
    /\ UNCHANGED <<api, fs, input, job, kept, torn, done, tears, userSteps>>

\* Mutant: MaybeCreateFile does not report that it has created the file.
CreateUnreported(j) ==
    /\ Running /\ job = None
    /\ IsNext(j)
    /\ Regenerated(j) => removed
    /\ fs[FileOf(input, j)] = Missing
    /\ fs' = [fs EXCEPT ![FileOf(input, j)] = Empty]
    /\ pending' = pending \ {j}
    /\ removed' = FALSE
    /\ UNCHANGED <<api, input, job, kept, torn, done, tears, userSteps>>

\* MaybeCreateFile creates the file.
Create(j) ==
    /\ Running /\ job = None
    /\ IsNext(j)
    /\ Regenerated(j) => removed
    /\ fs[FileOf(input, j)] = Missing
    /\ fs' = [fs EXCEPT ![FileOf(input, j)] = Empty]
    /\ job' = j
    /\ UNCHANGED <<api, input, pending, removed, kept, torn, done, tears, userSteps>>

\* Mutant: a finished job stays at hand.
WriteKeepsJob ==
    /\ job # None
    /\ fs' = [fs EXCEPT ![FileOf(input, job)] = Text(input, job)]
    /\ pending' = pending \ {job}
    /\ removed' = FALSE
    /\ UNCHANGED <<api, input, job, kept, torn, done, tears, userSteps>>

\* genFile loads, executes and formats the template, and writes the text.
Write ==
    /\ job # None
    /\ fs' = [fs EXCEPT ![FileOf(input, job)] = Text(input, job)]
    /\ pending' = pending \ {job}
    /\ job' = None
    /\ removed' = FALSE
    /\ UNCHANGED <<api, input, kept, torn, done, tears, userSteps>>

\* All calls have returned nil.
Finish ==
    /\ Running
    /\ pending = {}
    /\ done' = input
    /\ input' = None
    /\ UNCHANGED <<api, fs, pending, job, removed, kept, torn, tears, userSteps>>

\* A template that does not load, parse or execute, a full disk or a kill: logx.Must
\* ends the process, and what is on disk stays.
Interrupt ==
    /\ Running
    /\ tears < MaxTears
    /\ tears' = tears + 1
    /\ torn' = IF job = None THEN torn ELSE torn \cup {FileOf(input, job)}
    /\ input' = None
    /\ pending' = {}
    /\ job' = None
    /\ removed' = FALSE
    /\ kept' = {}
    /\ UNCHANGED <<api, fs, done, userSteps>>

-----------------------------------------------------------------------------
(* The user, between runs *)

UserStep ==
    /\ ~Running
    /\ userSteps < MaxUserSteps
    /\ userSteps' = userSteps + 1
    /\ kept' = {}
    /\ done' = None
    /\ UNCHANGED <<input, pending, job, removed, tears>>

EditFile(f) ==
    /\ UserStep
    /\ fs[f] # Missing
    /\ fs' = [fs EXCEPT ![f] = Edited]
    /\ torn' = torn \ {f}
    /\ UNCHANGED api

DeleteFile(f) ==
    /\ UserStep
    /\ fs[f] # Missing
    /\ fs' = [fs EXCEPT ![f] = Missing]
    /\ torn' = torn \ {f}
    /\ UNCHANGED api

ChangeApi ==
    /\ UserStep
    /\ api' \in Api \ {api}
    /\ UNCHANGED <<fs, torn>>

Generate ==
    \/ \E j \in pending : RemoveOld(j) \/ KeepOld(j) \/ Skip(j) \/ Create(j)
    \/ Write
    \/ Finish

Next ==
    \/ Start
    \/ Generate
    \/ Interrupt
    \/ \E f \in File : EditFile(f) \/ DeleteFile(f)
    \/ ChangeApi

Spec == Init /\ [][Next]_vars

\* A started process keeps running until it returns.
FairSpec == Spec /\ WF_vars(Generate)

-----------------------------------------------------------------------------
(* The error codes of genAuthError *)

\* Mutant: the base ignores the group.
BaseErrCodeFlat(i) == 2000

\* getBaseErrCode; i is the 0-based index of the group.
BaseErrCode(i) == 2000 + i * ErrSpan

\* The code of the k-th route (0-based) of group i.
ErrCode(i, k) == BaseErrCode(i) + k + 1

\* genAuthError's codes of the i-th block (1-based) of a; a block without a group has none.
ErrCodes(a, i) ==
    IF a[i].group = NoGroup THEN {}
    ELSE {ErrCode(i - 1, k) : k \in 0..(Cardinality(a[i].handlers) - 1)}

-----------------------------------------------------------------------------
(* Properties *)

TypeOK ==
    /\ api \in Api
    /\ fs \in [File -> Content]
    /\ input \in Api \cup {None}
    /\ pending \subseteq Job
    /\ job \in pending \cup {None}
    /\ removed \in BOOLEAN
    /\ kept \subseteq File
    /\ torn \subseteq File
    /\ done \in Api \cup {None}

\* After a successful run every route has its handler and logic file, every
\* middleware its file, and so on, and the file has a text unless an earlier run was
\* interrupted between creating and writing it.  Such an empty file is the one
\* thing that running the command again does not repair.
CompleteUnlessTorn ==
    done # None =>
      \A j \in Jobs(done) :
        LET f == FileOf(done, j) IN
        /\ fs[f] # Missing
        /\ fs[f] = Empty => f \in torn

\* After a successful run types.go and routes.go are those of the api it was given,
\* whatever the user or an interrupted run left in their place, with one exception: a
\* file that could not be removed.  It is ignored as any other that exists, and the run
\* succeeds with a types.go or routes.go of an earlier api, of the user, or a torn one.
RegeneratedFresh ==
    done # None =>
      \A j \in Jobs(done) : Regenerated(j) =>
        fs[FileOf(done, j)] = Text(done, j) \/ FileOf(done, j) \in kept

\* A run never changes a file the user has edited, except types.go and routes.go.
EditsSurvive ==
    [][Running => \A f \in File :
         fs[f] = Edited => fs'[f] = Edited \/ f[1] \in {"types", "routes"}]_vars

\* While a run is going on, the only file it leaves empty is the one it is about to
\* write; everything else that is empty was torn before.
OneEmptyAtATime ==
    \A f \in File : fs[f] = Empty =>
      f \in torn \/ (job # None /\ f = FileOf(input, job))

\* In a project generated with --auth, the auth file of a group is the one of its first
\* @server block: of two blocks whose files have one name ("user" and "users", or one
\* group in two blocks) the later one never gets its Can methods, and a group "error"
\* or "errors" gets none because auth/error.go is there before.
AuthCovers ==
    done # None /\ Auth =>
      \A i \in DOMAIN done :
        LET f == FileOf(done, JobOf("auth", i, None))
            Same(k) == done[k].group # NoGroup /\ FileOf(done, JobOf("auth", k, None)) = f
        IN  done[i].group # NoGroup /\ fs[f][1] = "text" /\ fs[f][2] = done =>
              IF f = FileOf(done, JobOf("error", 0, None))
              THEN fs[f] = Text(done, JobOf("error", 0, None))
              ELSE Same(fs[f][3]) /\ \A k \in 1..(fs[f][3] - 1) : ~Same(k)

\* In an auth/error.go that a run has generated two blocks have a common code exactly if
\* both have a group, the later one has a route, and the earlier one so many that it
\* outgrows the distance of the two bases: blocks without a group between them have no
\* codes and yet leave room for theirs.
ErrCodesDistinct ==
    \A f \in File : f[1] = "auth" /\ fs[f][1] = "text" /\ fs[f][3] = 0 =>
      LET a == fs[f][2] IN
      \A i, k \in DOMAIN a : i < k =>
        (ErrCodes(a, i) \cap ErrCodes(a, k) # {}
           <=> /\ a[i].group # NoGroup /\ a[k].group # NoGroup
               /\ Cardinality(a[i].handlers) > (k - i) * ErrSpan
               /\ a[k].handlers # {})

\* A run that is not interrupted ends, and with every file generated.
RunsEnd == Running ~> ~Running

=============================================================================
