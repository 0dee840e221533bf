------------------------------- MODULE RpcGen -------------------------------
(***************************************************************************)
(* `goctl rpc protoc`: Generator.Generate of rpc/generator/gen.go and the   *)
(* GenXxx functions it calls, over the files of one project.  The command   *)
(* is run again and again on one directory, with and without --multiple,    *)
(* while the proto file changes, the user edits or deletes files, and runs  *)
(* fail or are killed.                                                      *)
(*                                                                         *)
(* A call of Generate is one file: etc, config, svc, logic and main files   *)
(* are written only if they do not exist, server and client files are       *)
(* always overwritten.  A file's text keeps what other files rely on: the   *)
(* package it imports, the methods it has or calls, what it registers.      *)
(***************************************************************************)
EXTENDS Integers, Sequences, SequencesExt

CONSTANTS
    Proto,          \* the versions of the proto file
    Service,        \* service names
    RpcName,        \* rpc names
    LowerName,      \* strings.ToLower of a service name, its directory with --multiple
    FileName,       \* FileNamingFormat of a service or rpc name
    Modes,          \* the flags used: records [multiple, client]
    Once,           \* those of etc, config and svc that this instance has
    PbPath,         \* places of pb files under --go_out, numbered in the order of WalkDir
    ForeignPb,      \* pb files of other protos whose names end with this proto's name
    PackageBase,    \* the last name of the go_package of each place, in lower case
    OutputPath,     \* the place that is the directory --zrpc_out
    MaxKills,       \* bound on runs that fail or are killed
    MaxUserSteps,   \* bound on the user's edits, deletions and proto changes
    None

\* An rpc with its signature (streaming or not), a service, a proto file.
Rpc == [name : RpcName, stream : BOOLEAN]
ServiceDef == [name : Service, rpcs : Seq(Rpc)]
Request == [proto : Proto, mode : Modes]

ASSUME RpcGenAssumption ==
    /\ \A p \in Proto : p.services \in Seq(ServiceDef) /\ p.pkg \in PbPath
    /\ PbPath \subseteq Nat /\ ForeignPb \subseteq PbPath
    /\ Modes \subseteq [multiple : BOOLEAN, client : BOOLEAN]
    /\ Once \subseteq {"etc", "config", "svc"}
    /\ MaxKills \in Nat /\ MaxUserSteps \in Nat
    /\ None \notin Request

\* Services.validate: without --multiple there must be exactly one service.
Valid(r) ==
    /\ r.proto.services # << >>
    /\ Len(r.proto.services) > 1 => r.mode.multiple

-----------------------------------------------------------------------------
(* The calls of a run, in order, and the files they generate *)

JobOf(kind, block, rpc) == [kind |-> kind, block |-> block, rpc |-> rpc]

ServiceOf(r, j) == r.proto.services[j.block]
RpcOf(r, j) == ServiceOf(r, j).rpcs[j.rpc]
Services(r) == DOMAIN r.proto.services

OnceJob(kind) == IF kind \in Once THEN <<JobOf(kind, 0, 0)>> ELSE << >>

\* genLogicGroup and genLogicInCompatibility: every rpc of every service.
LogicJobs(r) ==
    FlattenSeq([b \in Services(r) |->
        [k \in DOMAIN r.proto.services[b].rpcs |-> JobOf("logic", b, k)]])

\* Mutant: the services are generated last to first.
ServerJobsBackwards(r) == [b \in Services(r) |-> JobOf("server", Len(r.proto.services) + 1 - b, 0)]

ServerJobs(r) == [b \in Services(r) |-> JobOf("server", b, 0)]
CallJobs(r)   == IF r.mode.client THEN [b \in Services(r) |-> JobOf("call", b, 0)] ELSE << >>

\* The body of Generate.
Calls(r) ==
    OnceJob("etc") \o <<JobOf("pb", 0, 0)>> \o OnceJob("config") \o OnceJob("svc")
      \o LogicJobs(r) \o ServerJobs(r) \o <<JobOf("main", 0, 0)>> \o CallJobs(r)

\* mkdir: with --multiple every service has a directory of its own.
DirOf(r, s) == IF r.mode.multiple THEN LowerName[s] ELSE ""

\* Without --multiple the client is in a directory beside internal, not in the pb files' own,
\* with it under client.
CallDir(r, s) ==
    IF r.mode.multiple THEN <<"client", LowerName[s]>>
    ELSE IF LowerName[s] = PackageBase[r.proto.pkg] THEN <<LowerName[s], "client">>
    ELSE <<LowerName[s]>>

FileOf(r, j) ==
    CASE j.kind = "logic"  -> <<"logic", DirOf(r, ServiceOf(r, j).name), FileName[RpcOf(r, j).name]>>
      [] j.kind = "server" -> <<"server", DirOf(r, ServiceOf(r, j).name), FileName[ServiceOf(r, j).name]>>
      [] j.kind = "call"   -> <<"call", CallDir(r, ServiceOf(r, j).name), FileName[ServiceOf(r, j).name]>>
      [] OTHER             -> <<j.kind>>

ValidRequest == {r \in Request : Valid(r)}
FileJobs(r) == {i \in DOMAIN Calls(r) : Calls(r)[i].kind # "pb"}
FilesOf(r) == {FileOf(r, Calls(r)[i]) : i \in FileJobs(r)}
File == UNION {FilesOf(r) : r \in ValidRequest}

\* SaveTo's forceUpdate.
Forced(f) == f[1] \in {"server", "call"}

Missing == [kind |-> "missing"]
Empty   == [kind |-> "empty"]
Edited  == [kind |-> "edited"]

LogicText(r, j, pb) ==
    [kind |-> "logic", name |-> RpcOf(r, j).name, stream |-> RpcOf(r, j).stream, pb |-> pb]

\* The methods of a server call the logic package of its service.
ServerText(r, j, pb) ==
    [kind |-> "server", service |-> ServiceOf(r, j).name, methods |-> ToSet(ServiceOf(r, j).rpcs),
     logic |-> DirOf(r, ServiceOf(r, j).name), pb |-> pb]

CallText(r, j, pb) ==
    [kind |-> "call", service |-> ServiceOf(r, j).name, methods |-> ToSet(ServiceOf(r, j).rpcs), pb |-> pb]

\* main registers every service with the server of its package.
MainText(r, pb) ==
    [kind |-> "main", pb |-> pb,
     registers |-> {[service |-> r.proto.services[b].name, dir |-> DirOf(r, r.proto.services[b].name)]
                      : b \in Services(r)}]

Text(r, j, pb) ==
    CASE j.kind = "logic"  -> LogicText(r, j, pb)
      [] j.kind = "server" -> ServerText(r, j, pb)
      [] j.kind = "call"   -> CallText(r, j, pb)
      [] j.kind = "main"   -> MainText(r, pb)
      [] OTHER             -> [kind |-> j.kind]

Content ==
    {Missing, Empty, Edited} \cup
    UNION {{Text(r, Calls(r)[i], pb) : i \in FileJobs(r), pb \in PbPath} : r \in ValidRequest}

-----------------------------------------------------------------------------
VARIABLES
    proto,      \* the proto file as the user has it
    fs,         \* the project's files
    pbs,        \* the places under --go_out that have a pb.go and a _grpc.pb.go
    input,      \* the request a running Generate works on, or None
    at,         \* the index of its next call
    open,       \* os.WriteFile has truncated that call's file
    pbDir,      \* the directory setPbDir has found, or None
    before,     \* the files at the start of the last run (history)
    torn,       \* files that a killed run left empty (history)
    done,       \* the request of the last run, if it succeeded and nothing happened since
    kills,      \* number of failed runs (bounded)
    userSteps   \* number of steps of the user (bounded)

vars == <<proto, fs, pbs, input, at, open, pbDir, before, torn, done, kills, userSteps>>

Init ==
    /\ proto \in Proto
    /\ fs = [f \in File |-> Missing]
    /\ pbs = ForeignPb
    /\ input = None
    /\ at = 0
    /\ open = FALSE
    /\ pbDir = None
    /\ before = fs
    /\ torn = {}
    /\ done = None
    /\ kills = 0
    /\ userSteps = 0

Running == input # None
Job == Calls(input)[at]
Current == FileOf(input, Job)

\* The proto file is parsed and accepted, and mkdir makes the directories.
Start(mode) ==
    /\ ~Running
    /\ Valid([proto |-> proto, mode |-> mode])
    /\ input' = [proto |-> proto, mode |-> mode]
    /\ at' = 1
    /\ pbDir' = None
    /\ before' = fs
    /\ done' = None
    /\ UNCHANGED <<proto, fs, pbs, open, torn, kills, userSteps>>

AtCall == Running /\ at <= Len(Calls(input))

\* genPbDirect runs protoc, which writes its two files where go_package says.
RunProtoc ==
    /\ AtCall /\ Job.kind = "pb" /\ ~open
    /\ pbs' = pbs \cup {input.proto.pkg}
    /\ open' = TRUE
    /\ UNCHANGED <<proto, fs, input, at, pbDir, before, torn, done, kills, userSteps>>

\* Mutant: findPbFile goes on to the last file.
FindPbFileLast(found) == CHOOSE p \in found : \A q \in found : q <= p

\* findPbFile: the first file in WalkDir's order whose path ends with the proto's name.
FindPbFile(found) == CHOOSE p \in found : \A q \in found : p <= q

\* setPbDir takes what it finds, unless that is the output directory.
SetPbDir ==
    /\ AtCall /\ Job.kind = "pb" /\ open
    /\ FindPbFile(pbs) # OutputPath
    /\ pbDir' = FindPbFile(pbs)
    /\ open' = FALSE
    /\ at' = at + 1
    /\ UNCHANGED <<proto, fs, pbs, input, before, torn, done, kills, userSteps>>

\* Mutant: SaveTo overwrites what exists.
SkipForgets ==
    /\ AtCall /\ Job.kind # "pb" /\ ~open
    /\ ~Forced(Current) /\ fs[Current] # Missing
    /\ fs' = [fs EXCEPT ![Current] = Text(input, Job, pbDir)]
    /\ at' = at + 1
    /\ UNCHANGED <<proto, pbs, input, open, pbDir, before, torn, done, kills, userSteps>>

\* SaveTo without force, and GenConfig: the file exists.
Skip ==
    /\ AtCall /\ Job.kind # "pb" /\ ~open
    /\ ~Forced(Current) /\ fs[Current] # Missing
    /\ at' = at + 1
    /\ UNCHANGED <<proto, fs, pbs, input, open, pbDir, before, torn, done, kills, userSteps>>

\* The template has been executed and os.WriteFile creates or truncates the file.
Truncate ==
    /\ AtCall /\ Job.kind # "pb" /\ ~open
    /\ Forced(Current) \/ fs[Current] = Missing
    /\ fs' = [fs EXCEPT ![Current] = Empty]
    /\ open' = TRUE
    /\ UNCHANGED <<proto, pbs, input, at, pbDir, before, torn, done, kills, userSteps>>

\* Mutant: a file written again still counts as torn.
WriteKeepsTorn ==
    /\ AtCall /\ Job.kind # "pb" /\ open
    /\ fs' = [fs EXCEPT ![Current] = Text(input, Job, pbDir)]
    /\ open' = FALSE
    /\ at' = at + 1
    /\ UNCHANGED <<proto, pbs, input, pbDir, before, torn, done, kills, userSteps>>

\* os.WriteFile writes the text.
Write ==
    /\ AtCall /\ Job.kind # "pb" /\ open
    /\ fs' = [fs EXCEPT ![Current] = Text(input, Job, pbDir)]
    /\ open' = FALSE
    /\ at' = at + 1
    /\ torn' = torn \ {Current}
    /\ UNCHANGED <<proto, pbs, input, pbDir, before, done, kills, userSteps>>

\* Mutant: an unfinished run counts as finished.
FinishEarly ==
    /\ Running /\ ~open
    /\ pbDir # None
    /\ done' = input
    /\ input' = None
    /\ UNCHANGED <<proto, fs, pbs, at, open, pbDir, before, torn, kills, userSteps>>

\* Every call has returned nil.
Finish ==
    /\ Running
    /\ at = Len(Calls(input)) + 1
    /\ done' = input
    /\ input' = None
    /\ UNCHANGED <<proto, fs, pbs, at, open, pbDir, before, torn, kills, userSteps>>

\* setPbDir refuses the output directory and Generate returns the error.
RefuseOutput ==
    /\ AtCall /\ Job.kind = "pb" /\ open
    /\ FindPbFile(pbs) = OutputPath
    /\ input' = None
    /\ open' = FALSE
    /\ UNCHANGED <<proto, fs, pbs, at, pbDir, before, torn, done, kills, userSteps>>

\* protoc fails, a template does not execute, or the process is killed.
Fail ==
    /\ AtCall
    /\ kills < MaxKills
    /\ kills' = kills + 1
    /\ torn' = IF open /\ Job.kind # "pb" THEN torn \cup {Current} ELSE torn
    /\ input' = None
    /\ open' = FALSE
    /\ UNCHANGED <<proto, fs, pbs, at, pbDir, before, done, userSteps>>

-----------------------------------------------------------------------------
(* The user, between runs *)

UserStep ==
    /\ ~Running
    /\ userSteps < MaxUserSteps
    /\ userSteps' = userSteps + 1
    /\ done' = None
    /\ UNCHANGED <<input, at, open, pbDir, before, kills>>

EditFile(f) ==
    /\ UserStep
    /\ fs[f] # Missing
    /\ fs' = [fs EXCEPT ![f] = Edited]
    /\ torn' = torn \ {f}
    /\ UNCHANGED <<proto, pbs>>

DeleteFile(f) ==
    /\ UserStep
    /\ fs[f] # Missing
    /\ fs' = [fs EXCEPT ![f] = Missing]
    /\ torn' = torn \ {f}
    /\ UNCHANGED <<proto, pbs>>

DeletePb(p) ==
    /\ UserStep
    /\ p \in pbs
    /\ pbs' = pbs \ {p}
    /\ UNCHANGED <<proto, fs, torn>>

ChangeProto ==
    /\ UserStep
    /\ proto' \in Proto \ {proto}
    /\ UNCHANGED <<fs, pbs, torn>>

Generate == RunProtoc \/ SetPbDir \/ RefuseOutput \/ Skip \/ Truncate \/ Write \/ Finish

Next ==
    \/ \E mode \in Modes : Start(mode)
    \/ Generate
    \/ Fail
    \/ \E f \in File : EditFile(f) \/ DeleteFile(f)
    \/ \E p \in PbPath : DeletePb(p)
    \/ ChangeProto

Spec == Init /\ [][Next]_vars

-----------------------------------------------------------------------------
(* What a run promises, in one step *)

\* The calls that generate file f, and the one whose text the file has in the end: the
\* first to find it missing, or the last to overwrite it.
Writers(r, f) == {i \in FileJobs(r) : FileOf(r, Calls(r)[i]) = f}
FirstOf(S) == CHOOSE i \in S : \A k \in S : i <= k
LastOf(S)  == CHOOSE i \in S : \A k \in S : k <= i

Generated(old, r, pb) ==
    [f \in File |->
       IF f \notin FilesOf(r) \/ (old[f] # Missing /\ ~Forced(f)) THEN old[f]
       ELSE LET i == IF Forced(f) THEN LastOf(Writers(r, f)) ELSE FirstOf(Writers(r, f))
            IN  Text(r, Calls(r)[i], pb)]

-----------------------------------------------------------------------------
(* Properties *)

TypeOK ==
    /\ proto \in Proto
    /\ fs \in [File -> Content]
    /\ pbs \subseteq PbPath
    /\ input \in ValidRequest \cup {None}
    /\ at \in Nat
    /\ Running => at \in 1..(Len(Calls(input)) + 1)
    /\ open \in BOOLEAN
    /\ open => AtCall
    /\ pbDir \in PbPath \cup {None}
    /\ torn \subseteq {f \in File : fs[f] = Empty}
    /\ done \in ValidRequest \cup {None}

\* A run that succeeds is the one step Generated: it changes no file that is not its own,
\* keeps logic, main, svc, config and etc files that exist, and overwrites server and client
\* files.  Of two rpcs or services that share a file (their names differ only in case) the
\* first keeps a logic file and the last gets a server file.
RunGenerates == done # None => fs = Generated(before, done, pbDir)

\* Every service has its server, every method of the server finds its logic, and every
\* server main registers is there, after a run that succeeds: except where a second service
\* or rpc shares the file, where a killed run left an empty file, or where the file had been
\* there before the run and the proto has moved on.
EveryRpcServed ==
    done # None =>
      /\ \A b \in Services(done) :
           LET j == JobOf("server", b, 0)
               t == fs[FileOf(done, j)]
           IN  /\ t.kind = "server"
               /\ \/ t.service = ServiceOf(done, j).name
                  \/ \E c \in Services(done) :
                       c > b /\ FileOf(done, JobOf("server", c, 0)) = FileOf(done, j)
               /\ \A m \in t.methods :
                    LET f == <<"logic", t.logic, FileName[m.name]>> IN
                    /\ fs[f] # Missing
                    /\ fs[f] = Empty => f \in torn
                    /\ \/ fs[f].kind = "logic" /\ fs[f].name = m.name /\ fs[f].stream = m.stream
                       \/ before[f] # Missing
                       \/ \E i, k \in Writers(done, f) : i # k
      /\ LET t == fs[<<"main">>] IN
         /\ t = Empty => <<"main">> \in torn
         /\ t.kind # "main" \/ before[<<"main">>] # Missing \/
              \A e \in t.registers : fs[<<"server", e.dir, FileName[e.service]>>].kind = "server"

\* The package that the generated code imports is the one protoc has just written, unless
\* another pb file comes before it in the walk: one of another proto, or one that this
\* project's own earlier go_package left behind.
PbIsOwnUnlessOlder ==
    done # None =>
      \/ pbDir = done.proto.pkg
      \/ /\ pbDir \in pbs /\ pbDir < done.proto.pkg
         /\ pbDir \in ForeignPb \/ \E p \in Proto \ {done.proto} : p.pkg = pbDir

\* A run never changes a file the user has edited, except server and client files.
EditsSurvive ==
    [][Running => \A f \in File : fs[f] = Edited => fs'[f] = Edited \/ Forced(f)]_vars

=============================================================================
