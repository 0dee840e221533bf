---------------------------- MODULE TemplateStore ----------------------------
(***************************************************************************)
(* The template store of `goctl template init | clean | update | revert`:  *)
(* tpl/templates.go, the nine template.go files of the generators, and     *)
(* GetTemplateDir, InitTemplates, CreateTemplate, Clean, LoadTemplate of   *)
(* util/pathx/file.go.                                                     *)
(*                                                                         *)
(* The store is one goctl home.  A command names it with --home            *)
(* (RegisterGoctlHome) or takes it as the default home; both may name the  *)
(* same directory, which then has two layouts: home/version/category and,  *)
(* for a registered home without content in the former, home/category.     *)
(* Creating a file and writing its text are two steps, and a command may   *)
(* fail or be killed between any two.  The user edits templates and        *)
(* installs newer versions of goctl between commands.                      *)
(***************************************************************************)
EXTENDS Integers, Sequences, SequencesExt, FiniteSets

CONSTANTS
    Owner,       \* the packages that register templates (gogen, apigen, rpc, kube, ...)
    Category,    \* the template categories (api, rpc, kube, ...)
    Name,        \* template file names
    Chain,       \* the owners in the order of errorx.Chain and of the switch cases
    CategoryOf,  \* the category constant of each owner
    Files,       \* the names in each owner's templates map
    Loose,       \* owners whose RevertTemplate does not look its name up
    Fixed,       \* the template whose text a loose RevertTemplate writes
    Usage,       \* the ways in which users name the home: sets of TRUE (--home), FALSE (default)
    MaxEdited,   \* bound on the templates that are customised at a time
    MaxVersion,  \* bound on the versions of goctl that are installed in turn
    None         \* no value

ASSUME StoreAssumption ==
    /\ Chain \in Seq(Owner) /\ ToSet(Chain) = Owner
    /\ CategoryOf \in [Owner -> Category]
    /\ Files \in [Owner -> SUBSET Name]
    /\ Loose \subseteq Owner
    /\ \A o \in Loose : Fixed[o] \in Files[o]
    /\ Usage \subseteq SUBSET BOOLEAN
    /\ MaxVersion \in Nat \ {0} /\ MaxEdited \in Nat
    /\ None \notin Nat \cup Name \cup Category

Plain == 0                    \* home/category
Dir == {Plain} \cup 1..MaxVersion  \* home/version/category
Slot == Dir \X Category \X Name

\* A text built into goctl: the template it is the text of, and the version.
BuiltIn == Name \X (1..MaxVersion)

\* The states of a template file.
NoFile == <<"none", 0>>
Empty  == <<"empty", 0>>
Edited == <<"edited", 0>>
Content == BuiltIn \cup {NoFile, Empty, Edited}

Task == {"clean", "make", "force"} \X Owner
Op == {"idle", "init", "clean", "update", "revert"}
Command == [op : Op, custom : BOOLEAN, category : Category \cup {None}, name : Name \cup {None}]
Quiet == [op |-> "idle", custom |-> FALSE, category |-> None, name |-> None]

VARIABLES
    flags,    \* how this user's commands name the home; no step changes it
    version,  \* version.BuildVersion of the installed goctl
    store,    \* the template files
    dirs,     \* the category directories that exist
    cmd,      \* the running command
    agenda,   \* what it has left to do
    dir,      \* the directory of the task at hand, once GetTemplateDir has chosen it
    todo,     \* names the task has not dealt with
    writing,  \* the file that is created but not written
    last      \* the last command, if it succeeded and nothing has happened since

vars == <<flags, version, store, dirs, cmd, agenda, dir, todo, writing, last>>

-----------------------------------------------------------------------------

Present(d, c) == {n \in Name : store[<<d, c, n>>] # NoFile}

\* A directory with content: one with an entry whose size is positive.
HasContent(d, c) == \E n \in Name : store[<<d, c, n>>] \notin {NoFile, Empty}

\* GetTemplateDir: a registered home falls back to home/category.
TemplateDir(custom, c) == IF custom /\ ~HasContent(version, c) THEN Plain ELSE version

\* The first case of the switches in updateTemplates and revertTemplates that matches.
Dispatch(c) ==
    Chain[CHOOSE i \in DOMAIN Chain : /\ CategoryOf[Chain[i]] = c
                                      /\ \A j \in 1..(i - 1) : CategoryOf[Chain[j]] # c]

Known(c) == \E o \in Owner : CategoryOf[o] = c

\* RevertTemplate looks the name up in templates, except in docker and kube.
Revertable(o, n) == o \in Loose \/ n \in Files[o]

\* Mutant: the text does not carry the version.
TextOfUnversioned(task, o, n) == <<n, 0>>

\* What an owner writes to file n: kube and docker revert every name to one text.
TextOf(task, o, n) ==
    <<IF task = "force" /\ o \in Loose THEN Fixed[o] ELSE n, version>>

Init ==
    /\ flags \in Usage
    /\ version = 1
    /\ store = [s \in Slot |-> NoFile]
    /\ dirs = {}
    /\ cmd = Quiet
    /\ agenda = <<>>
    /\ dir = None
    /\ todo = {}
    /\ writing = None
    /\ last = Quiet

-----------------------------------------------------------------------------
Start(c, tasks) ==
    /\ cmd = Quiet
    /\ cmd' = c
    /\ agenda' = tasks
    /\ last' = Quiet
    /\ UNCHANGED <<version, store, dirs, dir, todo, writing>>

\* goctl template init: GenTemplates of every owner.
StartInit(custom) ==
    Start([Quiet EXCEPT !.op = "init", !.custom = custom],
          [i \in DOMAIN Chain |-> <<"make", Chain[i]>>])

\* goctl template clean: Clean of every owner.
StartClean(custom) ==
    Start([Quiet EXCEPT !.op = "clean", !.custom = custom],
          [i \in DOMAIN Chain |-> <<"clean", Chain[i]>>])

\* Mutant: Update without the Clean.
StartUpdateNoClean(custom, c) ==
    /\ Known(c)
    /\ Start([Quiet EXCEPT !.op = "update", !.custom = custom, !.category = c],
             << <<"make", Dispatch(c)>> >>)

\* goctl template update -c: Update of one owner, Clean and then InitTemplates.
StartUpdate(custom, c) ==
    /\ Known(c)
    /\ Start([Quiet EXCEPT !.op = "update", !.custom = custom, !.category = c],
             << <<"clean", Dispatch(c)>>, <<"make", Dispatch(c)>> >>)

\* goctl template revert -c -n: RevertTemplate of one owner.
StartRevert(custom, c, n) ==
    /\ Known(c)
    /\ Revertable(Dispatch(c), n)
    /\ Start([op |-> "revert", custom |-> custom, category |-> c, name |-> n],
             << <<"force", Dispatch(c)>> >>)

Task1 == Head(agenda)[1]
Category1 == CategoryOf[Head(agenda)[2]]

\* The next task asks GetTemplateDir for its directory.  InitTemplates creates the
\* directory; CreateTemplate does not, and fails without it.
OpenTask ==
    LET d == TemplateDir(cmd.custom, Category1) IN
    /\ agenda # <<>>
    /\ dir = None
    /\ Task1 = "force" => <<d, Category1>> \in dirs
    /\ dir' = d
    /\ todo' = CASE Task1 = "clean" -> Present(d, Category1)
                 [] Task1 = "make"  -> Files[Head(agenda)[2]]
                 [] Task1 = "force" -> {cmd.name}
    /\ dirs' = IF Task1 = "make" THEN dirs \cup {<<d, Category1>>} ELSE dirs
    /\ UNCHANGED <<version, store, cmd, agenda, writing, last>>

\* os.RemoveAll removes the entries of the directory one by one.
RemoveFile(n) ==
    /\ dir # None
    /\ Task1 = "clean"
    /\ n \in todo
    /\ store' = [store EXCEPT ![<<dir, Category1, n>>] = NoFile]
    /\ todo' = todo \ {n}
    /\ UNCHANGED <<version, dirs, cmd, agenda, dir, writing, last>>

\* createTemplate leaves a file that exists alone unless it is forced.
SkipFile(n) ==
    /\ dir # None
    /\ Task1 = "make"
    /\ writing = None
    /\ n \in todo
    /\ store[<<dir, Category1, n>>] # NoFile
    /\ todo' = todo \ {n}
    /\ UNCHANGED <<version, store, dirs, cmd, agenda, dir, writing, last>>

\* Mutant: createTemplate truncates a file that exists.
CreateFileAlways(n) ==
    /\ dir # None
    /\ writing = None
    /\ n \in todo
    /\ Task1 # "clean"
    /\ store' = [store EXCEPT ![<<dir, Category1, n>>] = Empty]
    /\ writing' = n
    /\ UNCHANGED <<version, dirs, cmd, agenda, dir, todo, last>>

\* os.Create: the file is there, and empty.
CreateFile(n) ==
    /\ dir # None
    /\ writing = None
    /\ n \in todo
    /\ \/ Task1 = "make" /\ store[<<dir, Category1, n>>] = NoFile
       \/ Task1 = "force"
    /\ store' = [store EXCEPT ![<<dir, Category1, n>>] = Empty]
    /\ writing' = n
    /\ UNCHANGED <<version, dirs, cmd, agenda, dir, todo, last>>

\* f.WriteString
WriteFile ==
    /\ writing # None
    /\ store' = [store EXCEPT ![<<dir, Category1, writing>>] =
                   TextOf(Task1, Head(agenda)[2], writing)]
    /\ todo' = todo \ {writing}
    /\ writing' = None
    /\ UNCHANGED <<version, dirs, cmd, agenda, dir, last>>

\* The task is done; RemoveAll removes the directory itself at the end.
CloseTask ==
    /\ dir # None
    /\ todo = {}
    /\ dirs' = IF Task1 = "clean" THEN dirs \ {<<dir, Category1>>} ELSE dirs
    /\ agenda' = Tail(agenda)
    /\ dir' = None
    /\ UNCHANGED <<version, store, cmd, todo, writing, last>>

\* The command returns nil.
Finish ==
    /\ cmd # Quiet
    /\ agenda = <<>>
    /\ last' = cmd
    /\ cmd' = Quiet
    /\ UNCHANGED <<version, store, dirs, agenda, dir, todo, writing>>

\* A file operation fails, which ends the chain, or the process is killed.
Fail ==
    /\ cmd # Quiet
    /\ cmd' = Quiet
    /\ agenda' = <<>>
    /\ dir' = None
    /\ todo' = {}
    /\ writing' = None
    /\ UNCHANGED <<version, store, dirs, last>>

-----------------------------------------------------------------------------
(* The user, between commands *)

\* Customises a template.
Edit(s) ==
    /\ cmd = Quiet
    /\ store[s] # NoFile
    /\ Cardinality({e \in Slot : store[e] = Edited}) < MaxEdited
    /\ store' = [store EXCEPT ![s] = Edited]
    /\ last' = Quiet
    /\ UNCHANGED <<version, dirs, cmd, agenda, dir, todo, writing>>

\* Installs the next version of goctl.
Upgrade ==
    /\ cmd = Quiet
    /\ version < MaxVersion
    /\ version' = version + 1
    /\ last' = Quiet
    /\ UNCHANGED <<store, dirs, cmd, agenda, dir, todo, writing>>

Step ==
    \/ \E custom \in flags :
         \/ StartInit(custom)
         \/ StartClean(custom)
         \/ \E c \in Category : StartUpdate(custom, c)
         \/ \E c \in Category, n \in Name : StartRevert(custom, c, n)
    \/ OpenTask
    \/ \E n \in Name : RemoveFile(n) \/ SkipFile(n) \/ CreateFile(n)
    \/ WriteFile
    \/ CloseTask
    \/ Finish
    \/ Fail
    \/ \E s \in Slot : Edit(s)
    \/ Upgrade

Next == Step /\ UNCHANGED flags

Spec == Init /\ [][Next]_vars

-----------------------------------------------------------------------------
(* Properties *)

TypeOK ==
    /\ flags \in Usage
    /\ version \in 1..MaxVersion
    /\ store \in [Slot -> Content]
    /\ dirs \subseteq Dir \X Category
    /\ cmd \in Command /\ last \in Command
    /\ agenda \in Seq(Task)
    /\ dir \in Dir \cup {None}
    /\ todo \subseteq Name
    /\ writing \in Name \cup {None}

\* The file a generator's LoadTemplate reads.
Loaded(custom, c, n) == store[<<TemplateDir(custom, c), c, n>>]

Succeeded(op) == cmd = Quiet /\ last.op = op

\* After a successful init every registered template is a file in the directory
\* that generators read from then on, although init itself fills the directories
\* between which GetTemplateDir decides.
InitComplete ==
    Succeeded("init") =>
      \A o \in Owner : \A n \in Files[o] :
        Loaded(last.custom, CategoryOf[o], n) # NoFile

\* A home that is only ever named in one way has one layout.
OneLayout == flags # BOOLEAN

\* After a successful clean generators fall back to the built-in texts: no file is
\* left in the directory they read ("cleanTemplates deletes all templates").
CleanDeletesAll ==
    Succeeded("clean") /\ OneLayout =>
      \A c \in Category, n \in Name : Known(c) => Loaded(last.custom, c, n) = NoFile

\* After a successful update generators read the built-in texts of this version,
\* whatever was customised or left half-written before.  It holds in a home with one
\* layout: with both, Clean empties home/version/category, after which GetTemplateDir sends
\* InitTemplates to home/category, whose old files it keeps.
UpdateInstallsLatest ==
    Succeeded("update") /\ OneLayout =>
      \A n \in Files[Dispatch(last.category)] :
        Loaded(last.custom, last.category, n) = <<n, version>>

\* After a successful revert generators read the built-in text of that template.
RevertRestores ==
    Succeeded("revert") /\ last.name \in Files[Dispatch(last.category)] =>
      Loaded(last.custom, last.category, last.name) = <<last.name, version>>

\* What each command promises to the generators that load templates after it, together:
\* the directories they read are the ones that the command, and whatever ran or was killed
\* before it, has left there.
CommandsKeepPromises ==
    /\ InitComplete
    /\ CleanDeletesAll
    /\ UpdateInstallsLatest
    /\ RevertRestores

\* The user's edits outlive init: only clean, and update or revert of their own
\* category, touch a customised template.
EditsSurviveInit ==
    [][\A s \in Slot :
         store[s] = Edited /\ store'[s] # Edited =>
           \/ cmd.op = "clean"
           \/ cmd.op \in {"update", "revert"} /\ cmd.category = s[2]]_vars

=============================================================================
