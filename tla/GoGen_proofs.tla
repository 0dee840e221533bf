----------------------------- MODULE GoGen_proofs -----------------------------
(* Proofs about GoGen, for every api file, user and number of interrupted runs. *)
EXTENDS GoGen, FiniteSetTheorems, TLAPS

-----------------------------------------------------------------------------
(* Jobs and files *)

\* The jobs of an api are jobs; those of types.go and routes.go are one each.
LEMMA JobsAreJobs ==
  ASSUME NEW a \in Api
  PROVE  /\ Jobs(a) \subseteq Job
         /\ \A j \in Jobs(a) : Regenerated(j) => j = JobOf(j.kind, 0, None)
  <1> DEFINE P(j) == j \in Job /\ (Regenerated(j) => j = JobOf(j.kind, 0, None))
  <1>1. \A i \in DOMAIN a : i \in Nat /\ a[i].handlers \subseteq Handler /\ a[i].middlewares \subseteq Middleware
    <2>1. a \in Seq(Block)
      BY GoGenAssumption
    <2>2. \A i \in DOMAIN a : i \in Nat /\ a[i] \in Block
      BY <2>1
    <2> QED
      BY <2>2 DEF Block
  <1>2. \A k \in Kind : \A j \in ForProject(k) : P(j)
    BY DEF ForProject, JobOf, Job
  <1>3. \A j \in GenEtc \cup GenConfig \cup GenMain \cup GenServiceContext : P(j)
    BY <1>2 DEF GenEtc, GenConfig, GenMain, GenServiceContext, Kind
  <1>4. \A j \in GenTypes \cup GenRoutes \cup GenAuthError \cup GenPolicyFile : P(j)
    BY <1>2 DEF GenTypes, GenRoutes, GenAuthError, GenPolicyFile, Kind
  <1>5. \A j \in GenAuth(a) : P(j)
    BY <1>1 DEF GenAuth, JobOf, Job, Regenerated, Kind
  <1>6. \A j \in GenHandler(a) \cup GenLogic(a) : P(j)
    BY <1>1 DEF GenHandler, GenLogic, JobOf, Job, Regenerated, Kind
  <1>7. \A j \in GenMiddleware(a) : P(j)
    BY <1>1 DEF GenMiddleware, JobOf, Job, Regenerated, Kind
  <1>8. \A j \in Jobs(a) : P(j)
    BY <1>3, <1>4, <1>5, <1>6, <1>7 DEF Jobs
  <1> QED
    BY <1>8

\* The file of a job is a file of the project.
LEMMA FileOfIsFile ==
  ASSUME NEW a \in Api, NEW j \in Jobs(a)
  PROVE  FileOf(a, j) \in File
  BY DEF File

\* types.go and routes.go are told from the other files by their first component.
LEMMA FileOfTag ==
  ASSUME NEW a, NEW j \in Job
  PROVE  /\ Regenerated(j) => FileOf(a, j)[1] = j.kind
         /\ ~Regenerated(j) => FileOf(a, j)[1] \notin {"types", "routes"}
  BY DEF FileOf, Regenerated, Job, Kind

\* No other job generates types.go or routes.go.
LEMMA RegeneratedAlone ==
  ASSUME NEW a \in Api, NEW j \in Jobs(a), NEW k \in Jobs(a),
         Regenerated(j), FileOf(a, j) = FileOf(a, k)
  PROVE  k = j
  <1>1. j \in Job /\ k \in Job
    BY JobsAreJobs
  <1>2. k.kind = j.kind
    BY <1>1, FileOfTag DEF Regenerated
  <1> QED
    BY <1>2, JobsAreJobs DEF Regenerated

\* While genTypes or genRoutes is next, nothing else is.
LEMMA NextAlone ==
  ASSUME NEW j \in Job, NEW k \in Job,
         Regenerated(j), ~Precedes(j, k), ~Precedes(k, j)
  PROVE  k.kind = j.kind
  <1>1. Phase[j.kind] \in Nat /\ Phase[k.kind] \in Nat
    BY DEF Job, Kind, Phase
  <1>2. Phase[j.kind] = Phase[k.kind]
    BY <1>1 DEF Precedes
  <1> QED
    BY <1>2 DEF Job, Kind, Phase, Regenerated

\* The states of a file differ.
LEMMA ContentsDiffer ==
  /\ Missing # Empty /\ Missing # Edited /\ Empty # Edited
  /\ \A a, j : Text(a, j) # Missing /\ Text(a, j) # Empty /\ Text(a, j) # Edited
  BY DEF Missing, Empty, Edited, Text

\* A text remembers its api and its block.
LEMMA TagsOfContents ==
  /\ Missing[1] # "text" /\ Empty[1] # "text" /\ Edited[1] # "text"
  /\ \A a, j : Text(a, j)[1] = "text" /\ Text(a, j)[2] = a /\ Text(a, j)[3] = j.block
  BY DEF Missing, Empty, Edited, Text

\* What a job writes is a content.
LEMMA TextIsContent ==
  ASSUME NEW a \in Api, NEW j \in Jobs(a)
  PROVE  Text(a, j) \in Content
  BY DEF Content

-----------------------------------------------------------------------------
(* The inductive invariant *)

\* The pending jobs are those of the api at hand; an idle project has none.
PendingKnown ==
    IF Running THEN pending \subseteq Jobs(input) /\ (removed => pending # {})
               ELSE pending = {} /\ job = None /\ ~removed

\* Between the creation and the writing of a file it is empty.
JobAtHand ==
    job # None => job \in pending /\ fs[FileOf(input, job)] = Empty

\* Between genTypes' (genRoutes') os.Remove and its genFile the old file is gone, unless
\* it could not be removed, and nothing else is next.
RemovedIsMissing ==
    removed /\ job = None =>
      \A j \in pending : IsNext(j) =>
        /\ Regenerated(j)
        /\ fs[FileOf(input, j)] = Missing \/ FileOf(input, j) \in kept

\* What a run has done stays done while it lasts.
FinishedHasFile ==
    Running =>
      \A j \in Jobs(input) \ pending :
        /\ fs[FileOf(input, j)] # Missing
        /\ Regenerated(j) =>
             fs[FileOf(input, j)] = Text(input, j) \/ FileOf(input, j) \in kept

\* The last success is forgotten as soon as anything happens.
DoneIsIdle == done # None => ~Running

Inv ==
    /\ PendingKnown
    /\ JobAtHand
    /\ RemovedIsMissing
    /\ FinishedHasFile
    /\ DoneIsIdle
    /\ OneEmptyAtATime
    /\ CompleteUnlessTorn
    /\ RegeneratedFresh

-----------------------------------------------------------------------------
(* Types *)

LEMMA InitTypeOK == Init => TypeOK
  <1> SUFFICES ASSUME Init PROVE TypeOK
    OBVIOUS
  <1>1. Missing \in Content
    BY DEF Content
  <1>2. fs \in [File -> Content]
    BY <1>1 DEF Init
  <1> QED
    BY <1>2 DEF Init, TypeOK

LEMMA InitInv == Init => Inv
  BY ContentsDiffer DEF Init, Inv, PendingKnown, JobAtHand, RemovedIsMissing, FinishedHasFile,
     DoneIsIdle, OneEmptyAtATime, CompleteUnlessTorn, RegeneratedFresh, Running

\* The files a step of a run touches.
LEMMA PendingFiles ==
  ASSUME TypeOK, PendingKnown
  PROVE  /\ Running => input \in Api
         /\ \A j \in pending : /\ Running /\ j \in Jobs(input) /\ j \in Job /\ j # None
                               /\ FileOf(input, j) \in File
                               /\ Text(input, j) \in Content
  <1>1. Running => input \in Api
    BY DEF TypeOK, Running
  <1> SUFFICES ASSUME NEW j \in pending
               PROVE  /\ Running /\ j \in Jobs(input) /\ j \in Job /\ j # None
                      /\ FileOf(input, j) \in File /\ Text(input, j) \in Content
    BY <1>1
  <1>2. Running /\ j \in Jobs(input)
    BY DEF PendingKnown
  <1>3. j \in Job /\ FileOf(input, j) \in File /\ Text(input, j) \in Content
    BY <1>1, <1>2, JobsAreJobs, FileOfIsFile, TextIsContent
  <1> QED
    BY <1>2, <1>3, NoneAssumption

\* Every step keeps the types and PendingKnown.
LEMMA NextTypes ==
  ASSUME TypeOK, PendingKnown, [Next]_vars
  PROVE  TypeOK' /\ PendingKnown'
  <1> USE DEF TypeOK, PendingKnown
  <1>0. /\ Missing \in Content /\ Empty \in Content /\ Edited \in Content
        /\ None \notin Api /\ None \notin Job
    BY GoGenAssumption, NoneAssumption DEF Content
  <1>1. CASE Start
    <2>1. Jobs(api) \subseteq Job
      BY JobsAreJobs
    <2> QED
      BY <1>0, <1>1, <2>1 DEF Start, Running
  <1>2. ASSUME NEW j \in pending, RemoveOld(j) PROVE TypeOK' /\ PendingKnown'
    BY <1>0, <1>2, PendingFiles DEF RemoveOld, Running
  <1>3. ASSUME NEW j \in pending, Skip(j) PROVE TypeOK' /\ PendingKnown'
    BY <1>0, <1>3, PendingFiles DEF Skip, Running
  <1>4. ASSUME NEW j \in pending, Create(j) PROVE TypeOK' /\ PendingKnown'
    BY <1>0, <1>4, PendingFiles DEF Create, Running
  <1>5. CASE Write
    BY <1>0, <1>5, PendingFiles DEF Write, Running
  <1>6. CASE Finish
    BY <1>0, <1>6, PendingFiles DEF Finish, Running
  <1>7. CASE Interrupt
    <2>1. job # None => FileOf(input, job) \in File
      BY PendingFiles
    <2> QED
      BY <1>0, <1>7, <2>1 DEF Interrupt, Running
  <1>8. ASSUME NEW f \in File, EditFile(f) \/ DeleteFile(f) PROVE TypeOK' /\ PendingKnown'
    BY <1>0, <1>8 DEF EditFile, DeleteFile, UserStep, Running
  <1>9. CASE ChangeApi
    BY <1>0, <1>9 DEF ChangeApi, UserStep, Running
  <1>10. CASE UNCHANGED vars
    BY <1>10 DEF vars, Running
  <1>11. ASSUME NEW j \in pending, KeepOld(j) PROVE TypeOK' /\ PendingKnown'
    BY <1>0, <1>11, PendingFiles DEF KeepOld, Running
  <1> QED
    BY <1>1, <1>2, <1>3, <1>4, <1>5, <1>6, <1>7, <1>8, <1>9, <1>10, <1>11 DEF Next, Generate
-----------------------------------------------------------------------------
(* Every step keeps the invariant; TypeOK' comes from NextTypes *)

\* Two jobs that nothing pending precedes are one if one is of types.go or routes.go.
LEMMA NextJobUnique ==
  ASSUME TypeOK, PendingKnown,
         NEW j \in pending, NEW k \in pending, IsNext(j), IsNext(k), Regenerated(j)
  PROVE  k = j
  <1>1. /\ input \in Api
        /\ j \in Job /\ k \in Job /\ j \in Jobs(input) /\ k \in Jobs(input)
    BY PendingFiles
  <1>2. k.kind = j.kind
    <2>1. ~Precedes(j, k) /\ ~Precedes(k, j)
      BY DEF IsNext
    <2> QED
      BY <1>1, <2>1, NextAlone
  <1> QED
    BY <1>1, <1>2, JobsAreJobs DEF Regenerated

LEMMA StartInv ==
  ASSUME TypeOK, Inv, Start
  PROVE  Inv'
  <1>1. job = None /\ ~removed
    BY DEF Start, Inv, PendingKnown
  <1>2. PendingKnown' /\ TypeOK'
    BY NextTypes DEF Next, Inv
  <1>3. JobAtHand' /\ RemovedIsMissing' /\ DoneIsIdle' /\ CompleteUnlessTorn' /\ RegeneratedFresh'
    BY <1>1 DEF Start, JobAtHand, RemovedIsMissing, DoneIsIdle, CompleteUnlessTorn, RegeneratedFresh
  <1>4. FinishedHasFile'
    BY DEF Start, FinishedHasFile
  <1>5. OneEmptyAtATime'
    BY <1>1 DEF Start, Inv, OneEmptyAtATime
  <1> QED
    BY <1>2, <1>3, <1>4, <1>5 DEF Inv

LEMMA RemoveOldInv ==
  ASSUME TypeOK, Inv, NEW j \in pending, RemoveOld(j)
  PROVE  Inv'
  <1>1. /\ Running /\ input \in Api /\ j \in Jobs(input) /\ FileOf(input, j) \in File
        /\ pending \subseteq Jobs(input)
        /\ job = None /\ done = None /\ Regenerated(j) /\ IsNext(j)
    BY PendingFiles DEF RemoveOld, Inv, PendingKnown, DoneIsIdle
  <1>2. PendingKnown' /\ TypeOK'
    BY NextTypes DEF Next, Generate, Inv
  <1>3. /\ fs' = [fs EXCEPT ![FileOf(input, j)] = Missing]
        /\ torn' = torn \ {FileOf(input, j)}
        /\ UNCHANGED <<api, input, pending, job, kept, done>>
    BY DEF RemoveOld
  <1>4. JobAtHand' /\ DoneIsIdle' /\ CompleteUnlessTorn' /\ RegeneratedFresh'
    BY <1>1, <1>3 DEF JobAtHand, DoneIsIdle, CompleteUnlessTorn, RegeneratedFresh
  <1>5. RemovedIsMissing'
    <2>1. fs'[FileOf(input, j)] = Missing
      BY <1>1, <1>3 DEF TypeOK
    <2>2. \A k \in pending : IsNext(k) => k = j
      BY <1>1, NextJobUnique DEF Inv
    <2> QED
      BY <1>1, <1>3, <2>1, <2>2 DEF RemovedIsMissing, IsNext
  <1>6. FinishedHasFile'
    <2>1. \A k \in Jobs(input) \ pending : FileOf(input, k) # FileOf(input, j)
      BY <1>1, RegeneratedAlone
    <2>2. \A k \in Jobs(input) \ pending : fs'[FileOf(input, k)] = fs[FileOf(input, k)]
      BY <1>1, <1>3, <2>1, FileOfIsFile DEF TypeOK
    <2> QED
      BY <1>1, <1>3, <2>2 DEF FinishedHasFile, Inv, Running
  <1>7. OneEmptyAtATime'
    BY <1>1, <1>3, ContentsDiffer DEF OneEmptyAtATime, Inv, TypeOK
  <1> QED
    BY <1>2, <1>4, <1>5, <1>6, <1>7 DEF Inv

LEMMA KeepOldInv ==
  ASSUME TypeOK, Inv, NEW j \in pending, KeepOld(j)
  PROVE  Inv'
  <1>1. /\ Running /\ done = None /\ job = None /\ IsNext(j) /\ Regenerated(j)
        /\ kept' = kept \cup {FileOf(input, j)}
        /\ UNCHANGED <<api, fs, input, pending, job, torn, done>>
    BY DEF KeepOld, Inv, DoneIsIdle
  <1>2. PendingKnown' /\ TypeOK'
    BY NextTypes DEF Next, Generate, Inv
  <1>3. JobAtHand' /\ DoneIsIdle' /\ CompleteUnlessTorn' /\ RegeneratedFresh' /\ OneEmptyAtATime'
    BY <1>1 DEF JobAtHand, DoneIsIdle, CompleteUnlessTorn, RegeneratedFresh, OneEmptyAtATime, Inv
  <1>4. RemovedIsMissing'
    <2>1. \A k \in pending : IsNext(k) => k = j
      BY <1>1, NextJobUnique DEF Inv
    <2> QED
      BY <1>1, <2>1 DEF RemovedIsMissing, IsNext
  <1>5. FinishedHasFile'
    BY <1>1 DEF FinishedHasFile, Inv, Running
  <1> QED
    BY <1>2, <1>3, <1>4, <1>5 DEF Inv

LEMMA SkipInv ==
  ASSUME TypeOK, Inv, NEW j \in pending, Skip(j)
  PROVE  Inv'
  <1>1. /\ Running /\ input \in Api /\ j \in Jobs(input)
        /\ job = None /\ done = None /\ IsNext(j) /\ fs[FileOf(input, j)] # Missing
        /\ pending' = pending \ {j} /\ removed' = FALSE
        /\ UNCHANGED <<api, fs, input, job, kept, torn, done>>
    BY PendingFiles DEF Skip, Inv, DoneIsIdle
  <1>2. PendingKnown' /\ TypeOK'
    BY NextTypes DEF Next, Generate, Inv
  <1>3. Regenerated(j) => FileOf(input, j) \in kept
    BY <1>1 DEF Skip, Inv, RemovedIsMissing
  <1>4. JobAtHand' /\ RemovedIsMissing' /\ DoneIsIdle' /\ CompleteUnlessTorn' /\ RegeneratedFresh'
    BY <1>1 DEF JobAtHand, RemovedIsMissing, DoneIsIdle, CompleteUnlessTorn, RegeneratedFresh
  <1>5. FinishedHasFile'
    BY <1>1, <1>3 DEF FinishedHasFile, Inv, Running
  <1>6. OneEmptyAtATime'
    BY <1>1 DEF OneEmptyAtATime, Inv
  <1> QED
    BY <1>2, <1>4, <1>5, <1>6 DEF Inv

LEMMA CreateInv ==
  ASSUME TypeOK, Inv, NEW j \in pending, Create(j)
  PROVE  Inv'
  <1>1. /\ Running /\ input \in Api /\ j \in Jobs(input) /\ FileOf(input, j) \in File /\ j # None
        /\ job = None /\ done = None /\ fs[FileOf(input, j)] = Missing
        /\ fs' = [fs EXCEPT ![FileOf(input, j)] = Empty]
        /\ job' = j
        /\ UNCHANGED <<api, input, pending, kept, torn, done>>
    BY PendingFiles DEF Create, Inv, DoneIsIdle
  <1>2. PendingKnown' /\ TypeOK'
    BY NextTypes DEF Next, Generate, Inv
  <1>3. JobAtHand' /\ RemovedIsMissing' /\ DoneIsIdle' /\ CompleteUnlessTorn' /\ RegeneratedFresh'
    BY <1>1 DEF JobAtHand, RemovedIsMissing, DoneIsIdle, CompleteUnlessTorn, RegeneratedFresh, TypeOK
  <1>4. FinishedHasFile'
    <2>1. \A k \in Jobs(input) \ pending : FileOf(input, k) # FileOf(input, j)
      BY <1>1 DEF FinishedHasFile, Inv
    <2>2. \A k \in Jobs(input) \ pending : fs'[FileOf(input, k)] = fs[FileOf(input, k)]
      BY <1>1, <2>1, FileOfIsFile DEF TypeOK
    <2> QED
      BY <1>1, <2>2 DEF FinishedHasFile, Inv, Running
  <1>5. OneEmptyAtATime'
    BY <1>1 DEF OneEmptyAtATime, Inv, TypeOK
  <1> QED
    BY <1>2, <1>3, <1>4, <1>5 DEF Inv

LEMMA WriteInv ==
  ASSUME TypeOK, Inv, Write
  PROVE  Inv'
  <1>1. /\ job \in pending /\ job # None /\ fs[FileOf(input, job)] = Empty
        /\ fs' = [fs EXCEPT ![FileOf(input, job)] = Text(input, job)]
        /\ pending' = pending \ {job} /\ job' = None /\ removed' = FALSE
        /\ UNCHANGED <<api, input, kept, torn, done>>
    BY DEF Write, Inv, JobAtHand
  <1>2. /\ Running /\ input \in Api /\ job \in Jobs(input) /\ FileOf(input, job) \in File
        /\ done = None
    BY <1>1, PendingFiles DEF Inv, DoneIsIdle
  <1>3. PendingKnown' /\ TypeOK'
    BY NextTypes DEF Next, Generate, Inv
  <1>4. JobAtHand' /\ RemovedIsMissing' /\ DoneIsIdle' /\ CompleteUnlessTorn' /\ RegeneratedFresh'
    BY <1>1, <1>2 DEF JobAtHand, RemovedIsMissing, DoneIsIdle, CompleteUnlessTorn, RegeneratedFresh
  <1>5. FinishedHasFile'
    <2> SUFFICES ASSUME NEW k \in Jobs(input), k \notin pending \/ k = job
                 PROVE  /\ fs'[FileOf(input, k)] # Missing
                        /\ Regenerated(k) => fs'[FileOf(input, k)] = Text(input, k) \/ FileOf(input, k) \in kept
      BY <1>1 DEF FinishedHasFile
    <2>1. CASE FileOf(input, k) = FileOf(input, job)
      <3>1. fs'[FileOf(input, k)] = Text(input, job)
        BY <1>1, <1>2, <2>1 DEF TypeOK
      <3>2. Regenerated(k) => k = job
        BY <1>2, <2>1, RegeneratedAlone
      <3> QED
        BY <3>1, <3>2, ContentsDiffer
    <2>2. CASE FileOf(input, k) # FileOf(input, job)
      <3>1. fs'[FileOf(input, k)] = fs[FileOf(input, k)]
        BY <1>1, <1>2, <2>2, FileOfIsFile DEF TypeOK
      <3> QED
        BY <1>2, <2>2, <3>1 DEF FinishedHasFile, Inv
    <2> QED
      BY <2>1, <2>2
  <1>6. OneEmptyAtATime'
    BY <1>1, <1>2, ContentsDiffer DEF OneEmptyAtATime, Inv, TypeOK
  <1> QED
    BY <1>3, <1>4, <1>5, <1>6 DEF Inv
LEMMA FinishInv ==
  ASSUME TypeOK, Inv, Finish
  PROVE  Inv'
  <1>1. /\ Running /\ input \in Api /\ pending = {} /\ job = None /\ done' = input /\ input' = None
        /\ UNCHANGED <<api, fs, pending, job, removed, kept, torn>>
    BY PendingFiles DEF Finish, Inv, JobAtHand
  <1>2. PendingKnown' /\ TypeOK'
    BY NextTypes DEF Next, Generate, Inv
  <1>3. JobAtHand' /\ RemovedIsMissing' /\ FinishedHasFile' /\ DoneIsIdle'
    BY <1>1 DEF JobAtHand, RemovedIsMissing, FinishedHasFile, DoneIsIdle, Running
  <1>4. OneEmptyAtATime'
    BY <1>1 DEF OneEmptyAtATime, Inv
  <1>5. CompleteUnlessTorn'
    BY <1>1, FileOfIsFile DEF CompleteUnlessTorn, OneEmptyAtATime, FinishedHasFile, Inv
  <1>6. RegeneratedFresh'
    BY <1>1 DEF RegeneratedFresh, FinishedHasFile, Inv
  <1> QED
    BY <1>2, <1>3, <1>4, <1>5, <1>6 DEF Inv

LEMMA InterruptInv ==
  ASSUME TypeOK, Inv, Interrupt
  PROVE  Inv'
  <1>1. /\ Running /\ done = None /\ input' = None /\ job' = None /\ removed' = FALSE /\ pending' = {}
        /\ torn' = IF job = None THEN torn ELSE torn \cup {FileOf(input, job)}
        /\ UNCHANGED <<api, fs, done>>
    BY DEF Interrupt, Inv, DoneIsIdle
  <1>2. PendingKnown' /\ TypeOK'
    BY NextTypes DEF Next, Inv
  <1>3. /\ JobAtHand' /\ RemovedIsMissing' /\ FinishedHasFile' /\ DoneIsIdle'
        /\ CompleteUnlessTorn' /\ RegeneratedFresh'
    BY <1>1 DEF JobAtHand, RemovedIsMissing, FinishedHasFile, DoneIsIdle, CompleteUnlessTorn,
       RegeneratedFresh, Running
  <1>4. OneEmptyAtATime'
    BY <1>1 DEF OneEmptyAtATime, Inv
  <1> QED
    BY <1>2, <1>3, <1>4 DEF Inv

LEMMA UserInv ==
  ASSUME TypeOK, Inv, (\E f \in File : EditFile(f) \/ DeleteFile(f)) \/ ChangeApi
  PROVE  Inv'
  <1>1. /\ ~Running /\ job = None /\ ~removed /\ done' = None
        /\ UNCHANGED <<input, pending, job, removed>>
    BY DEF EditFile, DeleteFile, ChangeApi, UserStep, Inv, PendingKnown
  <1>2. PendingKnown' /\ TypeOK'
    BY NextTypes DEF Next, Inv
  <1>3. /\ JobAtHand' /\ RemovedIsMissing' /\ FinishedHasFile' /\ DoneIsIdle'
        /\ CompleteUnlessTorn' /\ RegeneratedFresh'
    BY <1>1 DEF JobAtHand, RemovedIsMissing, FinishedHasFile, DoneIsIdle, CompleteUnlessTorn,
       RegeneratedFresh, Running
  <1>4. OneEmptyAtATime'
    <2>1. ASSUME NEW f \in File, EditFile(f) PROVE OneEmptyAtATime'
      BY <2>1, <1>1, ContentsDiffer DEF EditFile, OneEmptyAtATime, Inv, TypeOK
    <2>2. ASSUME NEW f \in File, DeleteFile(f) PROVE OneEmptyAtATime'
      BY <2>2, <1>1, ContentsDiffer DEF DeleteFile, OneEmptyAtATime, Inv, TypeOK
    <2>3. CASE ChangeApi
      BY <2>3, <1>1 DEF ChangeApi, OneEmptyAtATime, Inv
    <2> QED
      BY <2>1, <2>2, <2>3
  <1> QED
    BY <1>2, <1>3, <1>4 DEF Inv

LEMMA StutterInv ==
  ASSUME Inv, UNCHANGED vars
  PROVE  Inv'
  BY DEF vars, Inv, PendingKnown, JobAtHand, RemovedIsMissing, FinishedHasFile, DoneIsIdle,
     OneEmptyAtATime, CompleteUnlessTorn, RegeneratedFresh, Running, IsNext

LEMMA NextInv ==
  ASSUME TypeOK, Inv, [Next]_vars
  PROVE  TypeOK' /\ Inv'
  <1>1. TypeOK'
    BY NextTypes DEF Inv
  <1>2. Inv'
    BY StartInv, RemoveOldInv, KeepOldInv, SkipInv, CreateInv, WriteInv, FinishInv, InterruptInv, UserInv,
       StutterInv DEF Next, Generate
  <1> QED
    BY <1>1, <1>2

-----------------------------------------------------------------------------
(* Theorems *)

\* The types and the inductive invariant hold in every state: which jobs are pending, which
\* file is empty and why, and what a run has finished.
THEOREM GenerateInvariant == Spec => [](TypeOK /\ Inv)
  <1>1. Init => TypeOK /\ Inv
    BY InitTypeOK, InitInv
  <1>2. TypeOK /\ Inv /\ [Next]_vars => (TypeOK /\ Inv)'
    BY NextInv
  <1> QED
    BY <1>1, <1>2, PTL DEF Spec

\* The types of the generator's state hold for every api and every user.
THEOREM TypesHold == Spec => []TypeOK
  BY GenerateInvariant, PTL

\* After every successful run of `goctl api go` each route, middleware and so on has its
\* file, and the file has a text or was torn by an interrupted run.
THEOREM RunsAreComplete == Spec => []CompleteUnlessTorn
  <1>1. Inv => CompleteUnlessTorn
    BY DEF Inv
  <1> QED
    BY <1>1, GenerateInvariant, PTL

\* After every successful run types.go and routes.go are generated from the api of that
\* run, each unless os.Remove failed on it.
THEOREM TypesAndRoutesAreFresh == Spec => []RegeneratedFresh
  <1>1. Inv => RegeneratedFresh
    BY DEF Inv
  <1> QED
    BY <1>1, GenerateInvariant, PTL

\* No file is empty but those that were torn and the one being generated.
THEOREM EmptyFilesExplained == Spec => []OneEmptyAtATime
  <1>1. Inv => OneEmptyAtATime
    BY DEF Inv
  <1> QED
    BY <1>1, GenerateInvariant, PTL

\* No run ever changes what the user has written, except in types.go and routes.go.
THEOREM RunsKeepEdits == Spec => EditsSurvive
  <1> DEFINE Kept == Running => \A f \in File :
                       fs[f] = Edited => fs'[f] = Edited \/ f[1] \in {"types", "routes"}
  <1>1. ASSUME TypeOK, Inv, [Next]_vars PROVE Kept
    <2> SUFFICES ASSUME Running, NEW f \in File, fs[f] = Edited
                 PROVE  fs'[f] = Edited \/ f[1] \in {"types", "routes"}
      OBVIOUS
    <2>1. ASSUME NEW j \in pending, RemoveOld(j) PROVE fs'[f] = Edited \/ f[1] \in {"types", "routes"}
      <3>1. j \in Job /\ Regenerated(j) /\ FileOf(input, j) \in File
        BY <1>1, <2>1, PendingFiles DEF RemoveOld, Inv
      <3>2. FileOf(input, j)[1] \in {"types", "routes"}
        BY <3>1, FileOfTag DEF Regenerated
      <3> QED
        BY <1>1, <2>1, <3>2 DEF RemoveOld, TypeOK
    <2>2. ASSUME NEW j \in pending, Create(j) PROVE fs'[f] = Edited
      BY <1>1, <2>2, ContentsDiffer DEF Create, TypeOK
    <2>3. ASSUME Write PROVE fs'[f] = Edited
      BY <1>1, <2>3, ContentsDiffer DEF Write, Inv, JobAtHand, TypeOK
    <2>4. ASSUME NEW j \in pending, Skip(j) \/ KeepOld(j) PROVE fs'[f] = Edited
      BY <2>4 DEF Skip, KeepOld
    <2>5. ASSUME Finish \/ Interrupt \/ UNCHANGED vars PROVE fs'[f] = Edited
      BY <2>5 DEF Finish, Interrupt, vars
    <2> QED
      BY <1>1, <2>1, <2>2, <2>3, <2>4, <2>5 DEF Next, Generate, Start, EditFile, DeleteFile,
         ChangeApi, UserStep
  <1>2. TypeOK /\ Inv /\ [Next]_vars => [Kept]_vars
    BY <1>1
  <1> QED
    BY <1>2, GenerateInvariant, PTL DEF Spec, EditsSurvive

\* Two blocks of a generated auth/error.go share a code exactly if both have a group, the
\* later one has a route, and the first outgrows the room between the bases: with the 100
\* of getBaseErrCode and blocks that follow each other, from its 101st route on.
THEOREM ErrCodesOutgrown == Spec => []ErrCodesDistinct
  <1>1. TypeOK => ErrCodesDistinct
    <2> SUFFICES ASSUME TypeOK, NEW f \in File, fs[f][1] = "text",
                        NEW i \in DOMAIN fs[f][2], NEW k \in DOMAIN fs[f][2], i < k
                 PROVE  ErrCodes(fs[f][2], i) \cap ErrCodes(fs[f][2], k) # {}
                          <=> /\ fs[f][2][i].group # NoGroup /\ fs[f][2][k].group # NoGroup
                              /\ Cardinality(fs[f][2][i].handlers) > (k - i) * ErrSpan
                              /\ fs[f][2][k].handlers # {}
      BY DEF ErrCodesDistinct
    <2>0. PICK a : a \in Api /\ fs[f][2] = a
      <3>1. fs[f] \in Content
        BY DEF TypeOK
      <3> QED
        BY <3>1, TagsOfContents DEF Content
    <2> SUFFICES ASSUME a[i].group # NoGroup, a[k].group # NoGroup
                 PROVE  ErrCodes(a, i) \cap ErrCodes(a, k) # {}
                          <=> /\ Cardinality(a[i].handlers) > (k - i) * ErrSpan
                              /\ a[k].handlers # {}
      BY <2>0 DEF ErrCodes
    <2> DEFINE M == Cardinality(a[i].handlers)
               N == Cardinality(a[k].handlers)
    <2>1. i \in Nat /\ k \in Nat /\ i >= 1 /\ ErrSpan \in Nat \ {0}
          /\ a[i].handlers \subseteq Handler /\ a[k].handlers \subseteq Handler
      <3>1. a \in Seq(Block) /\ i \in DOMAIN a /\ k \in DOMAIN a
        BY <2>0, GoGenAssumption
      <3>2. a[i] \in Block /\ a[k] \in Block
        BY <3>1
      <3> QED
        BY <3>1, <3>2, GoGenAssumption DEF Block
    <2>2. IsFiniteSet(a[i].handlers) /\ IsFiniteSet(a[k].handlers)
      BY <2>1, GoGenAssumption, FS_Subset
    <2>3. M \in Nat /\ N \in Nat /\ (a[k].handlers # {} <=> N # 0)
      BY <2>2, FS_CardinalityType, FS_EmptySet
    <2> HIDE DEF M, N
    <2> DEFINE D == (k - i) * ErrSpan
    <2>4. D \in Nat /\ D > 0
      BY <2>1
    <2>5. (k - 1) * ErrSpan = (i - 1) * ErrSpan + D
      BY <2>1
    <2>6. \A n \in Int : ErrCode(k - 1, n) = ErrCode(i - 1, D + n)
      BY <2>1, <2>4, <2>5 DEF ErrCode, BaseErrCode
    <2>7. \A m, n \in Int : ErrCode(i - 1, m) = ErrCode(i - 1, n) => m = n
      <3> DEFINE E == (i - 1) * ErrSpan
      <3>1. E \in Int
        BY <2>1
      <3> HIDE DEF E
      <3> QED
        BY <3>1 DEF ErrCode, BaseErrCode, E
    <2> HIDE DEF D
    <2>8. ErrCodes(a, i) = {ErrCode(i - 1, m) : m \in 0..(M - 1)}
          /\ ErrCodes(a, k) = {ErrCode(k - 1, n) : n \in 0..(N - 1)}
      BY DEF ErrCodes, M, N
    <2>9. ASSUME ErrCodes(a, i) \cap ErrCodes(a, k) # {} PROVE M > D /\ N # 0
      <3>1. PICK m \in 0..(M - 1), n \in 0..(N - 1) : ErrCode(i - 1, m) = ErrCode(k - 1, n)
        BY <2>8, <2>9
      <3>2. m = D + n
        BY <2>4, <2>6, <2>7, <3>1
      <3> QED
        BY <2>3, <2>4, <3>2
    <2>10. ASSUME M > D, N # 0 PROVE ErrCodes(a, i) \cap ErrCodes(a, k) # {}
      <3>1. ErrCode(k - 1, 0) = ErrCode(i - 1, D)
        BY <2>4, <2>6
      <3>2. D \in 0..(M - 1) /\ 0 \in 0..(N - 1)
        BY <2>3, <2>4, <2>10
      <3> QED
        BY <2>8, <3>1, <3>2
    <2> QED
      BY <2>3, <2>9, <2>10 DEF M, N, D
  <1> QED
    BY <1>1, TypesHold, PTL

-----------------------------------------------------------------------------
(* Who writes a group's auth file *)

\* No job for the same file comes before j.
FirstOfItsFile(a, j) ==
    /\ j \in Jobs(a)
    /\ \A k \in Jobs(a) : FileOf(a, k) = FileOf(a, j) => ~Precedes(k, j)

\* A generated auth file is the text of the first job for it, in the api it was generated
\* from: the later ones found it there.
AuthFirst ==
    \A f \in File : f[1] = "auth" /\ fs[f][1] = "text" =>
      \E j \in Jobs(fs[f][2]) :
        /\ fs[f] = Text(fs[f][2], j)
        /\ FileOf(fs[f][2], j) = f
        /\ FirstOfItsFile(fs[f][2], j)

\* The file of the job at hand was missing, so no finished job is for it.
JobIsFirst == job # None => FirstOfItsFile(input, job)

\* What a job of the auth directory is.
LEMMA AuthJobs ==
  ASSUME NEW a \in Api, NEW j \in Jobs(a), FileOf(a, j)[1] = "auth"
  PROVE  \/ j = JobOf("error", 0, None)
         \/ j.block \in DOMAIN a /\ j = JobOf("auth", j.block, None) /\ a[j.block].group # NoGroup
  <1> DEFINE P(k) == k.kind \in {"auth", "error"} =>
                       \/ k = JobOf("error", 0, None)
                       \/ /\ k.block \in DOMAIN a /\ k = JobOf("auth", k.block, None)
                          /\ a[k.block].group # NoGroup
  <1>1. \A k \in GenEtc \cup GenConfig \cup GenMain \cup GenServiceContext : P(k)
    BY DEF GenEtc, GenConfig, GenMain, GenServiceContext, ForProject, JobOf
  <1>2. \A k \in GenTypes \cup GenRoutes \cup GenAuthError \cup GenPolicyFile : P(k)
    BY DEF GenTypes, GenRoutes, GenAuthError, GenPolicyFile, ForProject, JobOf
  <1>3. \A k \in GenAuth(a) : P(k)
    BY DEF GenAuth, JobOf
  <1>4. \A k \in GenHandler(a) \cup GenLogic(a) \cup GenMiddleware(a) : P(k)
    BY DEF GenHandler, GenLogic, GenMiddleware, JobOf
  <1>5. P(j)
    BY <1>1, <1>2, <1>3, <1>4 DEF Jobs
  <1>6. j \in Job
    BY JobsAreJobs
  <1>7. j.kind \in {"auth", "error"}
    BY <1>6 DEF FileOf, Job, Kind
  <1> QED
    BY <1>5, <1>7

\* A step that makes no text keeps the texts' writers known.
LEMMA AuthFirstKept ==
  ASSUME TypeOK, AuthFirst, \A f \in File : fs'[f] = fs[f] \/ fs'[f][1] # "text"
  PROVE  AuthFirst'
  BY DEF AuthFirst, FirstOfItsFile

LEMMA CreateIsFirst ==
  ASSUME TypeOK, Inv, NEW j \in pending, Create(j)
  PROVE  JobIsFirst'
  <1>1. /\ Running /\ input \in Api /\ j \in Jobs(input) /\ IsNext(j)
        /\ fs[FileOf(input, j)] = Missing
        /\ job' = j /\ input' = input
    BY PendingFiles DEF Create, Inv
  <1>2. ASSUME NEW k \in Jobs(input), FileOf(input, k) = FileOf(input, j) PROVE ~Precedes(k, j)
    <2>1. k \in pending
      BY <1>1, <1>2 DEF Inv, FinishedHasFile
    <2> QED
      BY <1>1, <2>1 DEF IsNext
  <1> QED
    BY <1>1, <1>2 DEF JobIsFirst, FirstOfItsFile

LEMMA WriteIsFirst ==
  ASSUME TypeOK, Inv, AuthFirst, JobIsFirst, Write
  PROVE  AuthFirst'
  <1>1. /\ job # None /\ job \in pending
        /\ fs' = [fs EXCEPT ![FileOf(input, job)] = Text(input, job)]
    BY DEF Write, TypeOK
  <1>2. /\ Running /\ input \in Api /\ job \in Jobs(input) /\ FileOf(input, job) \in File
    BY <1>1, PendingFiles DEF Inv, PendingKnown
  <1> SUFFICES ASSUME NEW f \in File, f[1] = "auth", fs'[f][1] = "text"
               PROVE  \E j \in Jobs(fs'[f][2]) :
                        /\ fs'[f] = Text(fs'[f][2], j)
                        /\ FileOf(fs'[f][2], j) = f
                        /\ FirstOfItsFile(fs'[f][2], j)
    BY DEF AuthFirst, FirstOfItsFile
  <1>3. CASE f = FileOf(input, job)
    <2>1. fs'[f] = Text(input, job)
      BY <1>1, <1>2, <1>3 DEF TypeOK
    <2>2. fs'[f][2] = input
      BY <2>1, TagsOfContents
    <2>3. FirstOfItsFile(input, job)
      BY <1>1 DEF JobIsFirst
    <2> QED
      BY <1>2, <1>3, <2>1, <2>2, <2>3
  <1>4. CASE f # FileOf(input, job)
    <2>1. fs'[f] = fs[f]
      BY <1>1, <1>2, <1>4 DEF TypeOK
    <2> QED
      BY <2>1 DEF AuthFirst
  <1> QED
    BY <1>3, <1>4

LEMMA NextIsFirst ==
  ASSUME TypeOK, Inv, AuthFirst, JobIsFirst, [Next]_vars
  PROVE  AuthFirst' /\ JobIsFirst'
  <1>1. CASE Start
    <2>1. job' = None /\ fs' = fs
      BY <1>1 DEF Start, Inv, PendingKnown
    <2> QED
      BY <2>1, AuthFirstKept DEF JobIsFirst
  <1>2. ASSUME NEW j \in pending, RemoveOld(j) PROVE AuthFirst' /\ JobIsFirst'
    <2>1. job' = None /\ fs' = [fs EXCEPT ![FileOf(input, j)] = Missing]
      BY <1>2 DEF RemoveOld
    <2>2. \A f \in File : fs'[f] = fs[f] \/ fs'[f][1] # "text"
      BY <2>1, TagsOfContents DEF TypeOK
    <2> QED
      BY <2>1, <2>2, AuthFirstKept DEF JobIsFirst
  <1>3. ASSUME NEW j \in pending, Skip(j) \/ KeepOld(j) PROVE AuthFirst' /\ JobIsFirst'
    <2>1. job' = None /\ fs' = fs
      BY <1>3 DEF Skip, KeepOld
    <2> QED
      BY <2>1, AuthFirstKept DEF JobIsFirst
  <1>4. ASSUME NEW j \in pending, Create(j) PROVE AuthFirst' /\ JobIsFirst'
    <2>1. fs' = [fs EXCEPT ![FileOf(input, j)] = Empty]
      BY <1>4 DEF Create
    <2>2. \A f \in File : fs'[f] = fs[f] \/ fs'[f][1] # "text"
      BY <2>1, TagsOfContents DEF TypeOK
    <2> QED
      BY <1>4, <2>2, AuthFirstKept, CreateIsFirst
  <1>5. CASE Write
    BY <1>5, WriteIsFirst DEF Write, JobIsFirst
  <1>6. CASE Finish
    <2>1. fs' = fs /\ job' = job /\ job = None
      BY <1>6 DEF Finish, Inv, JobAtHand
    <2> QED
      BY <2>1, AuthFirstKept DEF JobIsFirst
  <1>7. CASE Interrupt
    BY <1>7, AuthFirstKept DEF Interrupt, JobIsFirst
  <1>8. CASE (\E f \in File : EditFile(f) \/ DeleteFile(f)) \/ ChangeApi
    <2>1. job' = None
      BY <1>8 DEF EditFile, DeleteFile, ChangeApi, UserStep, Inv, PendingKnown
    <2>2. \A f \in File : fs'[f] = fs[f] \/ fs'[f][1] # "text"
      BY <1>8, TagsOfContents DEF EditFile, DeleteFile, ChangeApi, TypeOK
    <2> QED
      BY <2>1, <2>2, AuthFirstKept DEF JobIsFirst
  <1>9. CASE UNCHANGED vars
    BY <1>9, AuthFirstKept DEF vars, JobIsFirst, FirstOfItsFile
  <1> QED
    BY <1>1, <1>2, <1>3, <1>4, <1>5, <1>6, <1>7, <1>8, <1>9 DEF Next, Generate

\* AuthCovers of a state whose auth files are known to be those of their first jobs.
LEMMA FirstCovers ==
  ASSUME TypeOK, AuthFirst
  PROVE  AuthCovers
  <1> DEFINE Of(k) == FileOf(done, JobOf("auth", k, None))
             Same(i, k) == done[k].group # NoGroup /\ Of(k) = Of(i)
             error == JobOf("error", 0, None)
  <1> SUFFICES ASSUME done # None, Auth, NEW i \in DOMAIN done, done[i].group # NoGroup,
                      fs[Of(i)][1] = "text", fs[Of(i)][2] = done
               PROVE  IF Of(i) = FileOf(done, error)
                      THEN fs[Of(i)] = Text(done, error)
                      ELSE /\ Same(i, fs[Of(i)][3])
                           /\ \A k \in 1..(fs[Of(i)][3] - 1) : ~Same(i, k)
    BY DEF AuthCovers
  <1>1. done \in Api /\ DOMAIN done = 1..Len(done) /\ Len(done) \in Nat
    BY GoGenAssumption DEF TypeOK
  <1>2. \A k \in DOMAIN done : done[k].group # NoGroup => JobOf("auth", k, None) \in Jobs(done)
    BY DEF GenAuth, Jobs
  <1>3. error \in Jobs(done)
    BY DEF GenAuthError, ForProject, Jobs
  <1>4. Of(i) \in File /\ Of(i)[1] = "auth"
    BY <1>1, <1>2, FileOfIsFile DEF FileOf, JobOf
  <1>5. PICK j \in Jobs(done) : /\ fs[Of(i)] = Text(done, j)
                                /\ FileOf(done, j) = Of(i)
                                /\ FirstOfItsFile(done, j)
    BY <1>4 DEF AuthFirst
  <1>6. \/ j = error
        \/ j.block \in DOMAIN done /\ j = JobOf("auth", j.block, None)
    BY <1>1, <1>4, <1>5, AuthJobs
  <1>7. CASE Of(i) = FileOf(done, error)
    <2>1. ~Precedes(error, j)
      BY <1>3, <1>5, <1>7 DEF FirstOfItsFile
    <2>2. j.kind # "auth"
      BY <2>1 DEF Precedes, Phase, JobOf
    <2> QED
      BY <1>5, <1>6, <1>7, <2>2 DEF JobOf
  <1>8. CASE Of(i) # FileOf(done, error)
    <2>1. j.block \in DOMAIN done /\ j = JobOf("auth", j.block, None) /\ done[j.block].group # NoGroup
      BY <1>1, <1>4, <1>5, <1>8, AuthJobs
    <2>2. fs[Of(i)][3] = j.block
      BY <1>5, TagsOfContents
    <2>3. ASSUME NEW k \in 1..(j.block - 1), Same(i, k) PROVE FALSE
      <3>1. k \in DOMAIN done /\ k < j.block
        BY <1>1, <2>1
      <3>2. ~Precedes(JobOf("auth", k, None), j)
        BY <1>2, <1>5, <2>3, <3>1 DEF FirstOfItsFile
      <3>3. JobOf("auth", k, None).kind = j.kind /\ JobOf("auth", k, None).block = k
        BY <2>1 DEF JobOf
      <3> QED
        BY <3>1, <3>2, <3>3 DEF Precedes
    <2> QED
      BY <1>5, <1>8, <2>1, <2>2, <2>3
  <1> QED
    BY <1>7, <1>8

\* In a project generated with --auth a group's auth file is the one of the first block
\* whose name gives it, or auth/error.go: what genFile does when two blocks are after one
\* file, for every api, every mapping of groups to names, and whatever was interrupted.
THEOREM AuthFileIsFirst == Spec => []AuthCovers
  <1>1. Init => AuthFirst /\ JobIsFirst
    BY TagsOfContents DEF Init, AuthFirst, JobIsFirst
  <1>2. TypeOK /\ Inv /\ AuthFirst /\ JobIsFirst /\ [Next]_vars => (AuthFirst /\ JobIsFirst)'
    BY NextIsFirst
  <1>3. TypeOK /\ AuthFirst => AuthCovers
    BY FirstCovers
  <1> QED
    BY <1>1, <1>2, <1>3, GenerateInvariant, PTL DEF Spec
=============================================================================
