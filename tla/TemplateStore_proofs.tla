------------------------- MODULE TemplateStore_proofs -------------------------
(***************************************************************************)
(* Proofs about TemplateStore, for every set of owners and templates, every *)
(* use of --home, and any number of failed commands, edits and upgrades.    *)
(***************************************************************************)
EXTENDS TemplateStore, Unfolding

-----------------------------------------------------------------------------
(* Constants *)

\* The chain lists the owners.
LEMMA ChainListsOwners ==
  /\ DOMAIN Chain = 1..Len(Chain) /\ Len(Chain) \in Nat
  /\ \A i \in 1..Len(Chain) : Chain[i] \in Owner
  /\ \A o \in Owner : \E i \in 1..Len(Chain) : Chain[i] = o
  <1>1. Chain \in Seq(Owner) /\ ToSet(Chain) = Owner
    BY StoreAssumption
  <1> QED
    BY <1>1 DEF ToSet

\* The switch of update and revert takes an owner of the category it is asked for.
LEMMA DispatchCategory ==
  ASSUME NEW c, Known(c)
  PROVE  Dispatch(c) \in Owner /\ CategoryOf[Dispatch(c)] = c
  <1> DEFINE Matching == {i \in 1..Len(Chain) : CategoryOf[Chain[i]] = c}
  <1>1. Matching \in SUBSET Nat
    BY ChainListsOwners
  <1>2. Matching # {}
    BY ChainListsOwners DEF Known
  <1>3. PICK i \in Matching : \A j \in Matching : i <= j
    <2> HIDE DEF Matching
    <2> QED
      BY <1>1, <1>2, Least
  <1>4. /\ i \in DOMAIN Chain /\ CategoryOf[Chain[i]] = c
        /\ \A j \in 1..(i - 1) : CategoryOf[Chain[j]] # c
    <2>1. i \in 1..Len(Chain)
      OBVIOUS
    <2>2. ASSUME NEW j \in 1..(i - 1), CategoryOf[Chain[j]] = c PROVE FALSE
      <3>1. j \in Matching
        BY <2>1, <2>2, ChainListsOwners
      <3> QED
        BY <3>1, <1>3, <2>1, ChainListsOwners
    <2> QED
      BY <2>1, <2>2, ChainListsOwners
  <1> DEFINE First(k) == /\ k \in DOMAIN Chain /\ CategoryOf[Chain[k]] = c
                         /\ \A j \in 1..(k - 1) : CategoryOf[Chain[j]] # c
             d == CHOOSE k \in DOMAIN Chain : /\ CategoryOf[Chain[k]] = c
                                              /\ \A j \in 1..(k - 1) : CategoryOf[Chain[j]] # c
  <1>5. First(d)
    BY <1>4
  <1> QED
    BY <1>5, ChainListsOwners DEF Dispatch

\* The states of a template file differ, and only the first two are no content.
LEMMA ContentsDiffer ==
  /\ NoFile # Empty /\ NoFile # Edited /\ Empty # Edited
  /\ \A n, v : v \in Nat \ {0} => <<n, v>> \notin {NoFile, Empty, Edited}
  BY DEF NoFile, Empty, Edited

\* The directories of a goctl home.
LEMMA Directories ==
  /\ Plain \in Dir /\ None \notin Dir
  /\ \A v \in 1..MaxVersion : v \in Dir /\ v # Plain
  BY StoreAssumption DEF Dir, Plain

-----------------------------------------------------------------------------
(* The inductive invariant *)

\* A running command names the home as its user does; its results are forgotten.
CommandRuns ==
    /\ cmd.op = "idle" => cmd = Quiet
    /\ cmd = Quiet => agenda = <<>>
    /\ cmd # Quiet => cmd.custom \in flags /\ last = Quiet

\* Names are left, and a file is open, only in a task that has its directory.
TaskOpen ==
    /\ agenda = <<>> => dir = None
    /\ dir = None => todo = {} /\ writing = None
    /\ dir # None => dir \in {Plain, version}
    /\ writing # None => /\ writing \in todo
                         /\ Task1 # "clean"
                         /\ store[<<dir, Category1, writing>>] = Empty

\* The owners of the chain that the command has not dealt with.
Remaining(kind) ==
    /\ Len(agenda) <= Len(Chain)
    /\ \A i \in 1..Len(agenda) : agenda[i] = <<kind, Chain[Len(Chain) - Len(agenda) + i]>>

Target == Dispatch(cmd.category)

\* What is left of the tasks of each command.
TasksLeft ==
    /\ cmd.op = "init" => Remaining("make")
    /\ cmd.op = "clean" => Remaining("clean")
    /\ cmd.op = "update" =>
         /\ Known(cmd.category)
         /\ agenda \in {<< <<"clean", Target>>, <<"make", Target>> >>, << <<"make", Target>> >>, <<>>}
    /\ cmd.op = "revert" =>
         /\ Known(cmd.category) /\ cmd.name \in Name /\ Revertable(Target, cmd.name)
         /\ agenda \in {<< <<"force", Target>> >>, <<>>}
         /\ todo \subseteq {cmd.name}

\* The directory of a home that is only ever named in one way.
Home == IF cmd.custom THEN Plain ELSE version

\* A home that is always registered has no layout with versions.
LayoutHeld ==
    /\ flags = {TRUE} => \A d \in 1..MaxVersion, c \in Category, n \in Name : store[<<d, c, n>>] = NoFile
    /\ OneLayout /\ dir # None => dir = Home

\* What init has done: the directories between which GetTemplateDir decides stay put.
InitProgress ==
    cmd.op = "init" =>
      /\ \A k \in 1..(Len(Chain) - Len(agenda)) : \A n \in Files[Chain[k]] :
           Loaded(cmd.custom, CategoryOf[Chain[k]], n) # NoFile
      /\ dir # None =>
           /\ dir = TemplateDir(cmd.custom, Category1)
           /\ \A n \in Files[Head(agenda)[2]] \ todo : Loaded(cmd.custom, Category1, n) # NoFile

\* What clean has done.
CleanProgress ==
    cmd.op = "clean" /\ OneLayout =>
      /\ \A k \in 1..(Len(Chain) - Len(agenda)), n \in Name :
           store[<<Home, CategoryOf[Chain[k]], n>>] = NoFile
      /\ dir # None => \A n \in Name \ todo : store[<<Home, Category1, n>>] = NoFile

\* What update has done: its one clean leaves nothing, its make fills in the files.
UpdateProgress ==
    cmd.op = "update" /\ OneLayout =>
      /\ Len(agenda) = 2 /\ dir # None =>
           \A n \in Name \ todo : store[<<Home, cmd.category, n>>] = NoFile
      /\ Len(agenda) = 1 /\ dir = None =>
           \A n \in Name : store[<<Home, cmd.category, n>>] = NoFile
      /\ Len(agenda) = 1 /\ dir # None =>
           /\ \A n \in todo : n # writing => store[<<Home, cmd.category, n>>] = NoFile
           /\ \A n \in Files[Target] \ todo : store[<<Home, cmd.category, n>>] = <<n, version>>
      /\ agenda = <<>> =>
           \A n \in Files[Target] : store[<<Home, cmd.category, n>>] = <<n, version>>

\* What revert has done; while the file is truncated its directory may have no content.
RevertProgress ==
    cmd.op = "revert" /\ Target \notin Loose =>
      /\ dir = Plain => TemplateDir(cmd.custom, cmd.category) = Plain
      /\ dir = version => writing # None \/ TemplateDir(cmd.custom, cmd.category) = version
      /\ dir # None /\ todo = {} => store[<<dir, cmd.category, cmd.name>>] = <<cmd.name, version>>
      /\ agenda = <<>> => Loaded(cmd.custom, cmd.category, cmd.name) = <<cmd.name, version>>

Inv ==
    /\ CommandRuns
    /\ TaskOpen
    /\ TasksLeft
    /\ LayoutHeld
    /\ InitProgress
    /\ CleanProgress
    /\ UpdateProgress
    /\ RevertProgress

-----------------------------------------------------------------------------
(* Tasks *)

\* The task at hand is the one its command has come to.
LEMMA HeadTask ==
  ASSUME TypeOK, CommandRuns, TasksLeft, agenda # <<>>
  PROVE  /\ Len(agenda) \in Nat \ {0}
         /\ Task1 \in {"clean", "make", "force"}
         /\ Head(agenda)[2] \in Owner /\ Category1 \in Category
         /\ cmd.op \in {"init", "clean", "update", "revert"}
         /\ cmd.op = "init" => Task1 = "make"
         /\ cmd.op = "clean" => Task1 = "clean"
         /\ cmd.op \in {"init", "clean"} =>
              /\ Len(agenda) <= Len(Chain)
              /\ Head(agenda)[2] = Chain[Len(Chain) - Len(agenda) + 1]
         /\ cmd.op = "update" =>
              /\ Head(agenda)[2] = Target /\ Category1 = cmd.category
              /\ \/ Task1 = "clean" /\ Len(agenda) = 2
                 \/ Task1 = "make" /\ Len(agenda) = 1
         /\ cmd.op = "revert" =>
              /\ Head(agenda)[2] = Target /\ Category1 = cmd.category
              /\ Task1 = "force" /\ Len(agenda) = 1
  <1>1. agenda \in Seq(Task) /\ Len(agenda) \in Nat \ {0} /\ Head(agenda) = agenda[1]
    BY DEF TypeOK
  <1>2. Head(agenda) \in Task
    BY <1>1
  <1>3. /\ Task1 \in {"clean", "make", "force"}
        /\ Head(agenda)[2] \in Owner /\ Category1 \in Category
    BY <1>2, StoreAssumption DEF Task, Task1, Category1
  <1>4. cmd.op \in {"init", "clean", "update", "revert"}
    BY DEF TypeOK, Command, Op, CommandRuns
  <1>5. ASSUME NEW kind, Remaining(kind)
        PROVE  /\ Task1 = kind /\ Len(agenda) <= Len(Chain)
               /\ Head(agenda)[2] = Chain[Len(Chain) - Len(agenda) + 1]
    BY <1>1, <1>5 DEF Remaining, Task1
  <1>6. CASE cmd.op = "init"
    BY <1>1, <1>3, <1>5, <1>6 DEF TasksLeft
  <1>7. CASE cmd.op = "clean"
    BY <1>1, <1>3, <1>5, <1>7 DEF TasksLeft
  <1>8. CASE cmd.op = "update"
    <2>1. Known(cmd.category)
      BY <1>8 DEF TasksLeft
    <2>2. CategoryOf[Target] = cmd.category
      BY <2>1, DispatchCategory DEF Target
    <2>3. agenda = << <<"clean", Target>>, <<"make", Target>> >> \/ agenda = << <<"make", Target>> >>
      BY <1>8 DEF TasksLeft
    <2> QED
      BY <1>1, <1>3, <1>8, <2>2, <2>3 DEF Task1, Category1
  <1>9. CASE cmd.op = "revert"
    <2>1. Known(cmd.category)
      BY <1>9 DEF TasksLeft
    <2>2. CategoryOf[Target] = cmd.category
      BY <2>1, DispatchCategory DEF Target
    <2>3. agenda = << <<"force", Target>> >>
      BY <1>9 DEF TasksLeft
    <2> QED
      BY <1>1, <1>3, <1>9, <2>2, <2>3 DEF Task1, Category1
  <1> QED
    BY <1>4, <1>6, <1>7, <1>8, <1>9

\* Its directory and the names it deals with.
LEMMA OpenedTask ==
  ASSUME TypeOK, CommandRuns, TaskOpen, TasksLeft, dir # None
  PROVE  /\ agenda # <<>> /\ dir \in Dir /\ todo \subseteq Name
         /\ \A n \in Name : <<dir, Category1, n>> \in Slot
  <1>1. agenda # <<>> /\ dir \in Dir /\ todo \subseteq Name
    BY DEF TaskOpen, TypeOK
  <1> QED
    BY <1>1, HeadTask DEF Slot

-----------------------------------------------------------------------------
(* Types *)

LEMMA InitTypeOK == Init => TypeOK
  BY StoreAssumption DEF Init, TypeOK, Content, Quiet, Command, Op

LEMMA StartTypeOK ==
  ASSUME TypeOK, NEW c \in Command, NEW tasks \in Seq(Task), Start(c, tasks), UNCHANGED flags
  PROVE  TypeOK'
  <1>1. Quiet \in Command
    BY DEF Quiet, Command, Op
  <1> QED
    BY <1>1 DEF TypeOK, Start

LEMMA NextTypeOK ==
  ASSUME TypeOK, CommandRuns, TaskOpen, TasksLeft, [Next]_vars
  PROVE  TypeOK'
  <1>q. Quiet \in Command
    BY DEF Quiet, Command, Op
  <1>c. NoFile \in Content /\ Empty \in Content /\ Edited \in Content
    BY DEF Content
  <1>1. ASSUME NEW custom \in flags, StartInit(custom), UNCHANGED flags PROVE TypeOK'
    <2>1. [Quiet EXCEPT !.op = "init", !.custom = custom] \in Command
      BY StoreAssumption DEF Quiet, Command, Op, TypeOK
    <2>2. [i \in DOMAIN Chain |-> <<"make", Chain[i]>>] \in Seq(Task)
      BY ChainListsOwners DEF Task
    <2> QED
      BY <1>1, <2>1, <2>2, StartTypeOK DEF StartInit
  <1>2. ASSUME NEW custom \in flags, StartClean(custom), UNCHANGED flags PROVE TypeOK'
    <2>1. [Quiet EXCEPT !.op = "clean", !.custom = custom] \in Command
      BY StoreAssumption DEF Quiet, Command, Op, TypeOK
    <2>2. [i \in DOMAIN Chain |-> <<"clean", Chain[i]>>] \in Seq(Task)
      BY ChainListsOwners DEF Task
    <2> QED
      BY <1>2, <2>1, <2>2, StartTypeOK DEF StartClean
  <1>3. ASSUME NEW custom \in flags, NEW c \in Category, StartUpdate(custom, c), UNCHANGED flags
        PROVE  TypeOK'
    <2>1. [Quiet EXCEPT !.op = "update", !.custom = custom, !.category = c] \in Command
      BY StoreAssumption DEF Quiet, Command, Op, TypeOK
    <2>2. Dispatch(c) \in Owner
      BY <1>3, DispatchCategory DEF StartUpdate
    <2>3. << <<"clean", Dispatch(c)>>, <<"make", Dispatch(c)>> >> \in Seq(Task)
      BY <2>2 DEF Task
    <2> QED
      BY <1>3, <2>1, <2>3, StartTypeOK DEF StartUpdate
  <1>4. ASSUME NEW custom \in flags, NEW c \in Category, NEW n \in Name,
               StartRevert(custom, c, n), UNCHANGED flags
        PROVE  TypeOK'
    <2>1. [op |-> "revert", custom |-> custom, category |-> c, name |-> n] \in Command
      BY StoreAssumption DEF Command, Op, TypeOK
    <2>2. Dispatch(c) \in Owner
      BY <1>4, DispatchCategory DEF StartRevert
    <2>3. << <<"force", Dispatch(c)>> >> \in Seq(Task)
      BY <2>2 DEF Task
    <2> QED
      BY <1>4, <2>1, <2>3, StartTypeOK DEF StartRevert
  <1>5. ASSUME OpenTask, UNCHANGED flags PROVE TypeOK'
    <2>1. /\ Category1 \in Category /\ Head(agenda)[2] \in Owner
          /\ Task1 \in {"clean", "make", "force"}
          /\ Task1 = "force" => cmd.name \in Name
      BY <1>5, HeadTask DEF OpenTask, TasksLeft
    <2>2. dir' \in Dir
      BY <1>5, Directories DEF OpenTask, TemplateDir, TypeOK
    <2>3. todo' \subseteq Name
      BY <1>5, <2>1, StoreAssumption DEF OpenTask, Present
    <2>4. dirs' \subseteq Dir \X Category
      BY <1>5, <2>1, <2>2 DEF OpenTask, TypeOK
    <2> QED
      BY <1>5, <2>2, <2>3, <2>4 DEF OpenTask, TypeOK
  <1>6. ASSUME NEW n \in Name, RemoveFile(n) \/ SkipFile(n) \/ CreateFile(n), UNCHANGED flags
        PROVE  TypeOK'
    BY <1>6, <1>c DEF RemoveFile, SkipFile, CreateFile, TypeOK
  <1>7. ASSUME WriteFile, UNCHANGED flags PROVE TypeOK'
    <2>1. /\ Head(agenda)[2] \in Owner
          /\ Head(agenda)[2] \in Loose => Fixed[Head(agenda)[2]] \in Name
      BY <1>7, HeadTask, StoreAssumption DEF WriteFile, TaskOpen
    <2>2. TextOf(Task1, Head(agenda)[2], writing) \in Content
      BY <1>7, <2>1 DEF TextOf, WriteFile, TypeOK, Content, BuiltIn
    <2> QED
      BY <1>7, <2>2 DEF WriteFile, TypeOK
  <1>8. ASSUME CloseTask \/ Finish \/ Fail, UNCHANGED flags PROVE TypeOK'
    <2>1. agenda # <<>> => Tail(agenda) \in Seq(Task)
      BY DEF TypeOK
    <2>2. CloseTask => agenda # <<>>
      BY DEF CloseTask, TaskOpen
    <2>3. <<>> \in Seq(Task)
      OBVIOUS
    <2>4. CASE CloseTask
      BY <1>8, <2>1, <2>2, <2>4 DEF CloseTask, TypeOK
    <2>5. CASE Finish
      BY <1>8, <1>q, <2>5 DEF Finish, TypeOK
    <2>6. CASE Fail
      BY <1>8, <1>q, <2>3, <2>6 DEF Fail, TypeOK
    <2> QED
      BY <1>8, <2>4, <2>5, <2>6
  <1>9. ASSUME NEW s \in Slot, Edit(s), UNCHANGED flags PROVE TypeOK'
    BY <1>9, <1>c, <1>q DEF Edit, TypeOK
  <1>10. ASSUME Upgrade, UNCHANGED flags PROVE TypeOK'
    BY <1>10, <1>q, StoreAssumption DEF Upgrade, TypeOK
  <1>11. CASE UNCHANGED vars
    BY <1>11 DEF vars, TypeOK
  <1> QED
    BY <1>1, <1>2, <1>3, <1>4, <1>5, <1>6, <1>7, <1>8, <1>9, <1>10, <1>11 DEF Next, Step

-----------------------------------------------------------------------------
(* Commands and their tasks *)

\* A command that starts has no directory, no names and no open file.
LEMMA StartControl ==
  ASSUME TypeOK, CommandRuns, TaskOpen, NEW c, NEW tasks, Start(c, tasks)
  PROVE  /\ cmd = Quiet /\ cmd' = c /\ agenda' = tasks /\ last' = Quiet
         /\ dir' = None /\ todo' = {} /\ writing' = None
  BY DEF Start, CommandRuns, TaskOpen

LEMMA StartTasks ==
  ASSUME TypeOK, CommandRuns, TaskOpen, UNCHANGED flags, NEW custom \in flags,
         \/ StartInit(custom) \/ StartClean(custom)
         \/ \E c \in Category : StartUpdate(custom, c)
         \/ \E c \in Category, n \in Name : StartRevert(custom, c, n)
  PROVE  /\ CommandRuns' /\ TaskOpen' /\ TasksLeft'
         /\ cmd'.custom = custom /\ dir' = None
         /\ cmd'.op \in {"init", "clean"} => Len(agenda') = Len(Chain)
         /\ cmd'.op = "update" => Len(agenda') = 2
         /\ cmd'.op = "revert" => Len(agenda') = 1 /\ agenda' # <<>>
         /\ cmd' # Quiet
         /\ UNCHANGED <<version, store>>
  <1>1. CASE StartInit(custom)
    <2>1. Len(agenda') = Len(Chain) /\ \A i \in 1..Len(Chain) : agenda'[i] = <<"make", Chain[i]>>
      BY <1>1, StartControl, ChainListsOwners DEF StartInit
    <2>2. Remaining("make")'
      BY <2>1, ChainListsOwners DEF Remaining
    <2> QED
      BY <1>1, <2>1, <2>2, StartControl
      DEF StartInit, Start, Quiet, CommandRuns, TaskOpen, TasksLeft
  <1>2. CASE StartClean(custom)
    <2>1. Len(agenda') = Len(Chain) /\ \A i \in 1..Len(Chain) : agenda'[i] = <<"clean", Chain[i]>>
      BY <1>2, StartControl, ChainListsOwners DEF StartClean
    <2>2. Remaining("clean")'
      BY <2>1, ChainListsOwners DEF Remaining
    <2> QED
      BY <1>2, <2>1, <2>2, StartControl
      DEF StartClean, Start, Quiet, CommandRuns, TaskOpen, TasksLeft
  <1>3. ASSUME NEW c \in Category, StartUpdate(custom, c)
        PROVE  /\ CommandRuns' /\ TaskOpen' /\ TasksLeft'
               /\ cmd'.op = "update" /\ cmd' # Quiet /\ cmd'.custom = custom /\ dir' = None
               /\ Len(agenda') = 2 /\ agenda' # <<>> /\ UNCHANGED <<version, store>>
    BY <1>3, StartControl
    DEF StartUpdate, Start, Quiet, CommandRuns, TaskOpen, TasksLeft, Target
  <1>4. ASSUME NEW c \in Category, NEW n \in Name, StartRevert(custom, c, n)
        PROVE  /\ CommandRuns' /\ TaskOpen' /\ TasksLeft'
               /\ cmd'.op = "revert" /\ cmd' # Quiet /\ cmd'.custom = custom /\ dir' = None
               /\ Len(agenda') = 1 /\ agenda' # <<>> /\ UNCHANGED <<version, store>>
    BY <1>4, StartControl
    DEF StartRevert, Start, Quiet, CommandRuns, TaskOpen, TasksLeft, Target
  <1> QED
    BY <1>1, <1>2, <1>3, <1>4

\* Nothing but a start makes a command; without one there are no tasks.
Quieted ==
    /\ cmd' = Quiet /\ agenda' = <<>> /\ dir' = None /\ todo' = {} /\ writing' = None

LEMMA QuietedControl ==
  ASSUME Quieted PROVE CommandRuns' /\ TaskOpen' /\ TasksLeft'
  BY DEF Quieted, CommandRuns, TaskOpen, TasksLeft, Quiet

\* A step of a command on the task at hand.
TaskStep ==
    /\ \/ OpenTask
       \/ \E n \in Name : RemoveFile(n) \/ SkipFile(n) \/ CreateFile(n)
       \/ WriteFile
       \/ CloseTask
    /\ UNCHANGED flags

Starts ==
    /\ \E custom \in flags :
         \/ StartInit(custom) \/ StartClean(custom)
         \/ \E c \in Category : StartUpdate(custom, c)
         \/ \E c \in Category, n \in Name : StartRevert(custom, c, n)
    /\ UNCHANGED flags

LEMMA StepKinds ==
  ASSUME TypeOK, CommandRuns, TaskOpen, [Next]_vars
  PROVE  \/ Starts
         \/ TaskStep
         \/ Quieted /\ (UNCHANGED store \/ \E s \in Slot : Edit(s)) /\ UNCHANGED flags
         \/ UNCHANGED vars
  <1>1. ASSUME Finish \/ Fail PROVE Quieted /\ UNCHANGED store
    BY <1>1 DEF Finish, Fail, Quieted, TaskOpen
  <1>2. ASSUME Upgrade PROVE Quieted /\ UNCHANGED store
    BY <1>2 DEF Upgrade, Quieted, CommandRuns, TaskOpen
  <1>3. ASSUME NEW s \in Slot, Edit(s) PROVE Quieted
    BY <1>3 DEF Edit, Quieted, CommandRuns, TaskOpen
  <1> QED
    BY <1>1, <1>2, <1>3 DEF Next, Step, Starts, TaskStep

\* What a step on the task at hand leaves alone, and the task that it works on.
LEMMA TaskStepFrame ==
  ASSUME TypeOK, CommandRuns, TaskOpen, TasksLeft, TaskStep
  PROVE  /\ agenda # <<>> /\ cmd # Quiet
         /\ UNCHANGED <<flags, version, cmd, last>>
         /\ CloseTask \/ UNCHANGED agenda
         /\ OpenTask \/ CloseTask \/ (dir # None /\ UNCHANGED dir)
  <1>1. agenda # <<>>
    BY DEF TaskStep, OpenTask, RemoveFile, SkipFile, CreateFile, WriteFile, CloseTask, TaskOpen
  <1>2. cmd # Quiet
    BY <1>1 DEF CommandRuns
  <1>3. WriteFile => dir # None
    BY DEF WriteFile, TaskOpen
  <1> QED
    BY <1>1, <1>2, <1>3
    DEF TaskStep, OpenTask, RemoveFile, SkipFile, CreateFile, WriteFile, CloseTask

\* A task that is done is taken off the agenda.
LEMMA CloseTasks ==
  ASSUME TypeOK, CommandRuns, TaskOpen, TasksLeft, CloseTask
  PROVE  /\ agenda' = Tail(agenda) /\ Len(agenda') = Len(agenda) - 1 /\ Len(agenda') \in Nat
         /\ agenda' = <<>> <=> Len(agenda) = 1
         /\ writing = None /\ dir # None /\ todo = {}
         /\ TasksLeft'
  <1>1. agenda # <<>> /\ agenda' = Tail(agenda) /\ UNCHANGED <<cmd, todo>>
    BY DEF CloseTask, TaskOpen
  <1>2. agenda \in Seq(Task) /\ Len(agenda) \in Nat \ {0}
    BY <1>1 DEF TypeOK
  <1>3. /\ Len(agenda') = Len(agenda) - 1 /\ Len(agenda') \in Nat
        /\ \A i \in 1..Len(agenda') : agenda'[i] = agenda[i + 1]
        /\ agenda' = <<>> <=> Len(agenda) = 1
    <2>1. agenda' \in Seq(Task) /\ Len(agenda') = Len(agenda) - 1
      BY <1>1, <1>2
    <2>2. \A i \in 1..Len(agenda') : agenda'[i] = agenda[i + 1]
      BY <1>1, <1>2, <2>1
    <2>3. agenda' = <<>> <=> Len(agenda') = 0
      BY <2>1, EmptySeq
    <2> QED
      BY <1>2, <2>1, <2>2, <2>3
  <1>4. writing = None /\ dir # None /\ todo = {}
    BY DEF CloseTask, TaskOpen
  <1>5. ASSUME NEW kind, Remaining(kind) PROVE Remaining(kind)'
    <2>1. \A i \in 1..Len(agenda') :
            agenda'[i] = <<kind, Chain[Len(Chain) - Len(agenda') + i]>>
      <3> TAKE i \in 1..Len(agenda')
      <3>1. i + 1 \in 1..Len(agenda) /\ agenda'[i] = agenda[i + 1]
        BY <1>2, <1>3
      <3>2. agenda[i + 1] = <<kind, Chain[Len(Chain) - Len(agenda) + (i + 1)]>>
        BY <1>5, <3>1 DEF Remaining
      <3>3. Len(Chain) - Len(agenda) + (i + 1) = Len(Chain) - Len(agenda') + i
        BY <1>2, <1>3, ChainListsOwners
      <3> QED
        BY <3>1, <3>2, <3>3
    <2> QED
      BY <1>2, <1>3, <1>5, <2>1, ChainListsOwners DEF Remaining
  <1>6. cmd.op \in {"update", "revert"} => TasksLeft'
    <2> DEFINE clean == <<"clean", Target>>
               make == <<"make", Target>>
               force == <<"force", Target>>
    <2> HIDE DEF clean, make, force
    <2>1. CASE cmd.op = "update"
      <3>1. Known(cmd.category) /\ (agenda = <<clean, make>> \/ agenda = <<make>>)
        BY <1>1, <2>1 DEF TasksLeft, clean, make
      <3>2. agenda' \in {<<clean, make>>, <<make>>, <<>>}
        <4>1. Tail(<<clean, make>>) = <<make>> /\ Tail(<<make>>) = <<>>
          OBVIOUS
        <4> QED
          BY <1>1, <3>1, <4>1
      <3>3. cmd' = cmd /\ Target' = Target
        BY <1>1 DEF Target
      <3> QED
        BY <2>1, <3>1, <3>2, <3>3 DEF TasksLeft, clean, make
    <2>2. CASE cmd.op = "revert"
      <3>1. agenda = <<force>>
        BY <1>1, <2>2 DEF TasksLeft, force
      <3>2. agenda' = <<>>
        BY <1>1, <3>1
      <3>3. cmd' = cmd /\ Target' = Target /\ todo' = todo
        BY <1>1 DEF Target
      <3> QED
        BY <2>2, <3>2, <3>3 DEF TasksLeft
    <2> QED
      BY <2>1, <2>2
  <1>7. cmd.op \in {"init", "clean"} => TasksLeft'
    BY <1>1, <1>5 DEF TasksLeft
  <1>8. cmd.op \in {"init", "clean", "update", "revert"}
    BY <1>1, HeadTask
  <1> QED
    BY <1>1, <1>3, <1>4, <1>6, <1>7, <1>8

LEMMA TaskControl ==
  ASSUME TypeOK, CommandRuns, TaskOpen, TasksLeft, TaskStep
  PROVE  CommandRuns' /\ TaskOpen' /\ TasksLeft'
  <1>1. /\ agenda # <<>> /\ cmd # Quiet /\ UNCHANGED <<flags, version, cmd, last>>
        /\ CloseTask \/ UNCHANGED agenda
    BY TaskStepFrame
  <1>2. CommandRuns'
    BY <1>1 DEF CommandRuns
  <1>3. ASSUME UNCHANGED agenda, cmd.op = "revert" => todo' \subseteq {cmd.name}
        PROVE  TasksLeft'
    <2>1. \A kind : Remaining(kind)' <=> Remaining(kind)
      BY <1>3 DEF Remaining
    <2>2. Target' = Target
      BY <1>1 DEF Target
    <2> QED
      BY <1>1, <1>3, <2>1, <2>2 DEF TasksLeft
  <1>4. cmd.op = "revert" => todo \subseteq {cmd.name} /\ Task1 = "force"
    BY <1>1, HeadTask DEF TasksLeft
  <1>5. CASE OpenTask
    <2>1. dir' \in {Plain, version} /\ writing' = None /\ UNCHANGED agenda
      BY <1>5 DEF OpenTask, TaskOpen, TemplateDir
    <2>2. cmd.op = "revert" => todo' = {cmd.name}
      BY <1>4, <1>5 DEF OpenTask
    <2>3. TasksLeft'
      BY <1>3, <2>1, <2>2
    <2> QED
      BY <1>1, <1>2, <2>1, <2>3, Directories DEF TaskOpen, TypeOK
  <1>6. ASSUME NEW n \in Name, RemoveFile(n) PROVE TaskOpen' /\ TasksLeft'
    BY <1>1, <1>3, <1>4, <1>6 DEF RemoveFile, TaskOpen
  <1>7. ASSUME NEW n \in Name, SkipFile(n) PROVE TaskOpen' /\ TasksLeft'
    BY <1>1, <1>3, <1>4, <1>7 DEF SkipFile, TaskOpen
  <1>8. ASSUME NEW n \in Name, CreateFile(n) PROVE TaskOpen' /\ TasksLeft'
    <2>1. UNCHANGED <<dir, agenda, todo>> /\ dir # None /\ writing' = n /\ n \in todo /\ Task1 # "clean"
      BY <1>8 DEF CreateFile
    <2>2. store'[<<dir, Category1, n>>] = Empty
      BY <1>8, <2>1, OpenedTask DEF CreateFile, TypeOK
    <2>3. Task1' = Task1 /\ Category1' = Category1
      BY <2>1 DEF Task1, Category1
    <2> QED
      BY <1>1, <1>3, <1>4, <2>1, <2>2, <2>3 DEF TaskOpen
  <1>9. CASE WriteFile
    BY <1>1, <1>2, <1>3, <1>4, <1>9 DEF WriteFile, TaskOpen
  <1>10. CASE CloseTask
    BY <1>1, <1>2, <1>10, CloseTasks DEF CloseTask, TaskOpen
  <1> QED
    BY <1>2, <1>5, <1>6, <1>7, <1>8, <1>9, <1>10 DEF TaskStep

\* The inductive invariant's part about commands and tasks is preserved.
LEMMA NextControl ==
  ASSUME TypeOK, CommandRuns, TaskOpen, TasksLeft, [Next]_vars
  PROVE  CommandRuns' /\ TaskOpen' /\ TasksLeft'
  <1>1. CASE Starts
    BY <1>1, StartTasks DEF Starts
  <1>2. CASE TaskStep
    BY <1>2, TaskControl
  <1>3. CASE Quieted
    BY <1>3, QuietedControl
  <1>4. CASE UNCHANGED vars
    <2>1. /\ \A kind : Remaining(kind)' <=> Remaining(kind)
          /\ Target' = Target /\ Task1' = Task1 /\ Category1' = Category1
      BY <1>4 DEF vars, Remaining, Target, Task1, Category1
    <2> QED
      BY <1>4, <2>1 DEF vars, CommandRuns, TaskOpen, TasksLeft
  <1> QED
    BY <1>1, <1>2, <1>3, <1>4, StepKinds

-----------------------------------------------------------------------------
(* Files *)

\* A step on the task at hand changes files of its directory and category only.
LEMMA FilesTouched ==
  ASSUME TypeOK, CommandRuns, TaskOpen, TasksLeft, TaskStep,
         NEW d \in Dir, NEW c \in Category, NEW n \in Name,
         store'[<<d, c, n>>] # store[<<d, c, n>>]
  PROVE  dir # None /\ d = dir /\ c = Category1
  <1>1. <<d, c, n>> \in Slot
    BY DEF Slot
  <1>2. ASSUME NEW m \in Name, RemoveFile(m) \/ CreateFile(m)
        PROVE  dir # None /\ d = dir /\ c = Category1
    BY <1>1, <1>2 DEF RemoveFile, CreateFile, TypeOK
  <1>3. ASSUME WriteFile PROVE dir # None /\ d = dir /\ c = Category1
    BY <1>1, <1>3 DEF WriteFile, TypeOK, TaskOpen
  <1> QED
    BY <1>2, <1>3 DEF TaskStep, OpenTask, SkipFile, CloseTask

\* In a home with one layout every directory is the same one.
LEMMA HomeIsRead ==
  ASSUME TypeOK, LayoutHeld, OneLayout, NEW custom \in flags, NEW c \in Category
  PROVE  /\ flags = {custom} /\ custom \in BOOLEAN
         /\ TemplateDir(custom, c) = IF custom THEN Plain ELSE version
  <1>1. flags = {custom} /\ custom \in BOOLEAN
    BY StoreAssumption DEF TypeOK, OneLayout
  <1>2. custom => ~HasContent(version, c)
    BY <1>1 DEF LayoutHeld, HasContent, TypeOK
  <1> QED
    BY <1>1, <1>2 DEF TemplateDir

LEMMA NextLayout ==
  ASSUME TypeOK, CommandRuns, TaskOpen, TasksLeft, LayoutHeld, [Next]_vars
  PROVE  LayoutHeld'
  <1>0. flags' = flags
    BY DEF Next, vars
  <1>1. CASE Starts
    BY <1>0, <1>1, StartTasks DEF Starts, LayoutHeld
  <1>2. CASE TaskStep
    <2>1. agenda # <<>> /\ cmd # Quiet /\ UNCHANGED <<flags, version, cmd, last>>
      BY <1>2, TaskStepFrame
    <2>2. cmd.custom \in flags /\ Home' = Home
      BY <2>1 DEF CommandRuns, Home
    <2>3. ASSUME flags = {TRUE}, NEW d \in 1..MaxVersion, NEW c \in Category, NEW n \in Name
          PROVE  store'[<<d, c, n>>] = NoFile
      <3>1. OneLayout /\ (dir # None => dir = Plain)
        BY <2>2, <2>3 DEF LayoutHeld, OneLayout, Home
      <3>2. d \in Dir /\ d # Plain
        BY Directories
      <3>3. store'[<<d, c, n>>] = store[<<d, c, n>>]
        BY <1>2, <3>1, <3>2, FilesTouched
      <3> QED
        BY <2>3, <3>3 DEF LayoutHeld
    <2>4. ASSUME OneLayout, OpenTask PROVE dir' = Home
      <3>1. dir' = TemplateDir(cmd.custom, Category1) /\ Category1 \in Category
        BY <2>1, <2>4, HeadTask DEF OpenTask
      <3> QED
        BY <2>2, <2>4, <3>1, HomeIsRead DEF Home
    <2>5. ASSUME CloseTask PROVE dir' = None
      BY <2>5 DEF CloseTask
    <2>6. OpenTask \/ CloseTask \/ UNCHANGED dir
      BY <1>2, TaskStepFrame
    <2> QED
      BY <2>1, <2>2, <2>3, <2>4, <2>5, <2>6 DEF LayoutHeld, OneLayout
  <1>3. CASE Quieted /\ (UNCHANGED store \/ \E s \in Slot : Edit(s))
    <2>1. ASSUME NEW s \in Slot, Edit(s), flags = {TRUE},
                 NEW d \in 1..MaxVersion, NEW c \in Category, NEW n \in Name
          PROVE  store'[<<d, c, n>>] = NoFile
      BY <2>1 DEF Edit, LayoutHeld, TypeOK
    <2> QED
      BY <1>0, <1>3, <2>1 DEF Quieted, LayoutHeld
  <1>4. CASE UNCHANGED vars
    BY <1>4 DEF vars, LayoutHeld, OneLayout, Home
  <1> QED
    BY <1>1, <1>2, <1>3, <1>4, StepKinds

-----------------------------------------------------------------------------
(* init *)

\* What goctl writes is content.
LEMMA WrittenIsContent ==
  ASSUME TypeOK, CommandRuns, TaskOpen, TasksLeft, TaskStep, WriteFile
  PROVE  store'[<<dir, Category1, writing>>] \notin {NoFile, Empty}
  <1>1. dir # None /\ writing \in Name
    BY DEF WriteFile, TaskOpen, TypeOK
  <1>2. <<dir, Category1, writing>> \in Slot
    BY <1>1, OpenedTask
  <1>3. version \in Nat \ {0}
    BY StoreAssumption DEF TypeOK
  <1>4. TextOf(Task1, Head(agenda)[2], writing) \notin {NoFile, Empty}
    BY <1>3 DEF TextOf, NoFile, Empty
  <1> QED
    BY <1>2, <1>4 DEF WriteFile, TypeOK

\* While init runs no file disappears or loses its text.
LEMMA InitAdds ==
  ASSUME TypeOK, CommandRuns, TaskOpen, TasksLeft, TaskStep, cmd.op = "init",
         NEW d \in Dir, NEW c \in Category, NEW n \in Name
  PROVE  /\ store[<<d, c, n>>] # NoFile => store'[<<d, c, n>>] # NoFile
         /\ store[<<d, c, n>>] \notin {NoFile, Empty} => store'[<<d, c, n>>] \notin {NoFile, Empty}
  <1>1. Task1 = "make"
    BY TaskStepFrame, HeadTask
  <1>2. <<d, c, n>> \in Slot /\ Empty # NoFile
    BY ContentsDiffer DEF Slot
  <1>3. ASSUME NEW m \in Name, CreateFile(m)
        PROVE  store'[<<d, c, n>>] = store[<<d, c, n>>] \/
               (store[<<d, c, n>>] = NoFile /\ store'[<<d, c, n>>] = Empty)
    BY <1>1, <1>2, <1>3 DEF CreateFile, TypeOK
  <1>4. ASSUME WriteFile
        PROVE  store'[<<d, c, n>>] = store[<<d, c, n>>] \/ store'[<<d, c, n>>] \notin {NoFile, Empty}
    BY <1>2, <1>4, WrittenIsContent DEF WriteFile, TypeOK
  <1>5. \A m \in Name : ~RemoveFile(m)
    BY <1>1 DEF RemoveFile
  <1> QED
    BY <1>2, <1>3, <1>4, <1>5 DEF TaskStep, OpenTask, SkipFile, CloseTask

\* While init runs GetTemplateDir keeps its answers.
LEMMA InitKeepsDirs ==
  ASSUME TypeOK, CommandRuns, TaskOpen, TasksLeft, InitProgress, TaskStep, cmd.op = "init",
         NEW c \in Category
  PROVE  TemplateDir(cmd.custom, c)' = TemplateDir(cmd.custom, c)
  <1>1. UNCHANGED <<version, cmd>> /\ version \in Dir /\ version # Plain
    BY TaskStepFrame, Directories DEF TypeOK
  <1>2. HasContent(version, c) => HasContent(version, c)'
    BY <1>1, InitAdds DEF HasContent
  <1>3. ASSUME cmd.custom, HasContent(version, c)' PROVE HasContent(version, c)
    <2>1. PICK n \in Name : store'[<<version, c, n>>] \notin {NoFile, Empty}
      BY <1>1, <1>3 DEF HasContent
    <2>2. CASE store'[<<version, c, n>>] = store[<<version, c, n>>]
      BY <2>1, <2>2 DEF HasContent
    <2>3. CASE store'[<<version, c, n>>] # store[<<version, c, n>>]
      <3>1. dir = version /\ c = Category1 /\ dir # None
        BY <1>1, <2>3, FilesTouched
      <3>2. TemplateDir(cmd.custom, c) = version
        BY <3>1 DEF InitProgress
      <3> QED
        BY <1>1, <1>3, <3>2 DEF TemplateDir
    <2> QED
      BY <2>2, <2>3
  <1> QED
    BY <1>1, <1>2, <1>3 DEF TemplateDir

LEMMA NextInitProgress ==
  ASSUME TypeOK, CommandRuns, TaskOpen, TasksLeft, InitProgress, [Next]_vars
  PROVE  InitProgress'
  <1>1. CASE Starts
    <2>1. cmd'.op = "init" => Len(agenda') = Len(Chain) /\ dir' = None
      BY <1>1, StartTasks DEF Starts
    <2> QED
      BY <2>1, ChainListsOwners DEF InitProgress
  <1>2. ASSUME TaskStep, cmd.op = "init" PROVE InitProgress'
    <2> DEFINE o == Head(agenda)[2]
               done == 1..(Len(Chain) - Len(agenda))
    <2>1. /\ agenda # <<>> /\ UNCHANGED <<flags, version, cmd, last>>
          /\ CloseTask \/ UNCHANGED agenda
          /\ Task1 = "make" /\ o \in Owner /\ Category1 \in Category
          /\ Len(agenda) \in Nat \ {0} /\ Len(agenda) <= Len(Chain)
          /\ o = Chain[Len(Chain) - Len(agenda) + 1]
      BY <1>2, TaskStepFrame, HeadTask
    <2>c. PICK here \in Category : here = Category1
      BY <2>1
    <2>2. \A c \in Category : TemplateDir(cmd.custom, c)' = TemplateDir(cmd.custom, c)
      BY <1>2, InitKeepsDirs
    <2>3. ASSUME NEW c \in Category, NEW n \in Name, Loaded(cmd.custom, c, n) # NoFile
          PROVE  Loaded(cmd.custom, c, n)' # NoFile
      <3>1. TemplateDir(cmd.custom, c) \in Dir
        BY Directories DEF TemplateDir, TypeOK
      <3> QED
        BY <1>2, <2>1, <2>2, <2>3, <3>1, InitAdds DEF Loaded
    <2>4. ASSUME NEW k \in done, NEW n \in Files[Chain[k]]
          PROVE  Loaded(cmd.custom, CategoryOf[Chain[k]], n)' # NoFile
      <3>1. Chain[k] \in Owner
        BY <2>1, ChainListsOwners
      <3>2. n \in Name /\ CategoryOf[Chain[k]] \in Category
        BY <3>1, StoreAssumption
      <3>3. Loaded(cmd.custom, CategoryOf[Chain[k]], n) # NoFile
        BY <1>2 DEF InitProgress
      <3> QED
        BY <2>3, <3>2, <3>3
    <2>5. ASSUME dir # None, NEW n \in Files[o] \ todo
          PROVE  Loaded(cmd.custom, here, n)' # NoFile
      <3>1. n \in Name /\ Loaded(cmd.custom, here, n) # NoFile
        BY <1>2, <2>1, <2>c, <2>5, StoreAssumption DEF InitProgress
      <3> QED
        BY <2>1, <2>3, <3>1
    <2>6. dir # None => dir = TemplateDir(cmd.custom, Category1)
      BY <1>2 DEF InitProgress
    <2>7. CASE OpenTask
      <3>1. dir' = TemplateDir(cmd.custom, Category1) /\ todo' = Files[o] /\ UNCHANGED agenda
        BY <2>1, <2>7 DEF OpenTask
      <3> QED
        BY <2>1, <2>2, <2>c, <2>4, <3>1 DEF InitProgress, Category1
    <2>8. ASSUME NEW m \in Name, SkipFile(m) \/ CreateFile(m) \/ RemoveFile(m) PROVE InitProgress'
      <3>1. dir # None /\ UNCHANGED <<dir, agenda>>
        BY <2>8 DEF SkipFile, CreateFile, RemoveFile
      <3>2. ASSUME m \in todo, m \notin todo', m \in Files[o]
            PROVE  Loaded(cmd.custom, here, m)' # NoFile
        <4>1. SkipFile(m)
          BY <2>1, <2>8, <3>2 DEF CreateFile, RemoveFile
        <4>2. Loaded(cmd.custom, here, m) # NoFile
          BY <2>6, <2>c, <3>1, <4>1 DEF SkipFile, Loaded
        <4> QED
          BY <2>1, <2>3, <4>2
      <3>3. todo \ todo' \subseteq {m}
        BY <2>8 DEF SkipFile, CreateFile, RemoveFile
      <3>4. \A n \in Files[o] \ todo' : Loaded(cmd.custom, here, n)' # NoFile
        BY <2>5, <3>1, <3>2, <3>3
      <3> QED
        BY <2>1, <2>2, <2>c, <2>4, <2>6, <3>1, <3>4 DEF InitProgress, Category1
    <2>9. CASE WriteFile
      <3>1. dir # None /\ UNCHANGED <<dir, agenda>> /\ todo' = todo \ {writing}
        BY <2>9 DEF WriteFile, TaskOpen
      <3>2. ASSUME NEW n \in Name, n = writing PROVE Loaded(cmd.custom, here, n)' # NoFile
        BY <1>2, <2>1, <2>2, <2>c, <2>6, <2>9, <3>1, <3>2, WrittenIsContent DEF Loaded
      <3>3. \A n \in Files[o] \ todo' : Loaded(cmd.custom, here, n)' # NoFile
        BY <2>1, <2>5, <3>1, <3>2, StoreAssumption
      <3> QED
        BY <2>1, <2>2, <2>c, <2>4, <2>6, <3>1, <3>3 DEF InitProgress, Category1
    <2>10. CASE CloseTask
      <3>1. dir' = None /\ dir # None /\ todo = {} /\ Len(agenda') = Len(agenda) - 1
        BY <2>10, CloseTasks DEF CloseTask
      <3>2. ASSUME NEW k \in 1..(Len(Chain) - Len(agenda')), NEW n \in Files[Chain[k]]
            PROVE  Loaded(cmd.custom, CategoryOf[Chain[k]], n)' # NoFile
        <4>1. CASE k \in done
          BY <2>4, <4>1
        <4>2. CASE k = Len(Chain) - Len(agenda) + 1
          <5>1. Chain[k] = o /\ here = CategoryOf[Chain[k]]
            BY <2>1, <2>c, <4>2 DEF Category1
          <5> QED
            BY <2>5, <3>1, <3>2, <5>1
        <4> QED
          BY <2>1, <3>1, <4>1, <4>2, ChainListsOwners
      <3> QED
        BY <2>1, <3>1, <3>2 DEF InitProgress
    <2> QED
      BY <1>2, <2>7, <2>8, <2>9, <2>10 DEF TaskStep
  <1>3. ASSUME TaskStep, cmd.op # "init" PROVE InitProgress'
    BY <1>3, TaskStepFrame DEF InitProgress
  <1>4. CASE Quieted
    BY <1>4 DEF Quieted, Quiet, InitProgress
  <1>5. CASE UNCHANGED vars
    BY <1>5 DEF vars, InitProgress, Loaded, TemplateDir, HasContent, Category1
  <1> QED
    BY <1>1, <1>2, <1>3, <1>4, <1>5, StepKinds

-----------------------------------------------------------------------------
(* clean and update, in a home with one layout *)

\* The directory of every task is the one that generators read.
LEMMA TaskAtHome ==
  ASSUME TypeOK, CommandRuns, TaskOpen, TasksLeft, LayoutHeld, TaskStep, OneLayout
  PROVE  /\ UNCHANGED <<flags, version, cmd>> /\ Home' = Home /\ OneLayout' /\ Home \in Dir
         /\ dir # None => dir = Home
         /\ OpenTask => dir' = Home
         /\ \A n \in Name : <<Home, Category1, n>> \in Slot
  <1>1. /\ UNCHANGED <<flags, version, cmd>> /\ cmd.custom \in flags /\ Category1 \in Category
    BY TaskStepFrame, HeadTask DEF CommandRuns
  <1>2. Home' = Home /\ OneLayout' /\ Home \in Dir
    BY <1>1, Directories DEF Home, OneLayout, TypeOK
  <1>3. OpenTask => dir' = TemplateDir(cmd.custom, Category1)
    BY DEF OpenTask
  <1> QED
    BY <1>1, <1>2, <1>3, HomeIsRead DEF LayoutHeld, Home, Slot

LEMMA NextCleanProgress ==
  ASSUME TypeOK, CommandRuns, TaskOpen, TasksLeft, LayoutHeld, CleanProgress, [Next]_vars
  PROVE  CleanProgress'
  <1>1. CASE Starts
    <2>1. cmd'.op = "clean" => Len(agenda') = Len(Chain) /\ dir' = None
      BY <1>1, StartTasks DEF Starts
    <2> QED
      BY <2>1, ChainListsOwners DEF CleanProgress
  <1>2. ASSUME TaskStep, cmd.op = "clean", OneLayout PROVE CleanProgress'
    <2>1. /\ agenda # <<>> /\ UNCHANGED <<flags, version, cmd>> /\ Home' = Home
          /\ Task1 = "clean" /\ Category1 \in Category /\ Home \in Dir
          /\ Len(agenda) \in Nat \ {0} /\ Len(agenda) <= Len(Chain)
          /\ Category1 = CategoryOf[Chain[Len(Chain) - Len(agenda) + 1]]
          /\ dir # None => dir = Home
      BY <1>2, TaskStepFrame, HeadTask, TaskAtHome DEF Category1
    <2>2. \A m \in Name : ~CreateFile(m) /\ ~SkipFile(m)
      BY <2>1 DEF CreateFile, SkipFile
    <2>3. ~WriteFile
      BY <2>1 DEF WriteFile, TaskOpen
    <2>4. ASSUME NEW c \in Category, NEW n \in Name, store[<<Home, c, n>>] = NoFile
          PROVE  store'[<<Home, c, n>>] = NoFile
      <3>1. ASSUME NEW m \in Name, RemoveFile(m) PROVE store'[<<Home, c, n>>] = NoFile
        BY <2>1, <2>4, <3>1 DEF RemoveFile, TypeOK, Slot
      <3> QED
        BY <1>2, <2>2, <2>3, <2>4, <3>1 DEF TaskStep, OpenTask, CloseTask
    <2>5. \A k \in 1..(Len(Chain) - Len(agenda)), n \in Name :
            store'[<<Home, CategoryOf[Chain[k]], n>>] = NoFile
      <3> TAKE k \in 1..(Len(Chain) - Len(agenda)), n \in Name
      <3>1. CategoryOf[Chain[k]] \in Category
        BY <2>1, ChainListsOwners, StoreAssumption
      <3>2. store[<<Home, CategoryOf[Chain[k]], n>>] = NoFile
        BY <1>2 DEF CleanProgress
      <3> QED
        BY <2>4, <3>1, <3>2
    <2>6. dir # None => \A n \in Name \ todo : store'[<<Home, Category1, n>>] = NoFile
      BY <1>2, <2>1, <2>4 DEF CleanProgress
    <2>7. CASE OpenTask
      <3>1. todo' = Present(dir', Category1) /\ dir' = Home /\ UNCHANGED <<store, agenda>>
        BY <1>2, <2>1, <2>7, TaskAtHome DEF OpenTask
      <3>2. \A n \in Name \ todo' : store'[<<Home, Category1, n>>] = NoFile
        BY <3>1 DEF Present
      <3> QED
        BY <2>1, <2>5, <3>1, <3>2 DEF CleanProgress, Category1
    <2>8. ASSUME NEW m \in Name, RemoveFile(m) PROVE CleanProgress'
      <3>1. dir = Home /\ dir # None /\ UNCHANGED <<dir, agenda>> /\ todo' = todo \ {m}
        BY <2>1, <2>8 DEF RemoveFile
      <3>2. store'[<<Home, Category1, m>>] = NoFile
        BY <1>2, <2>8, <3>1, TaskAtHome DEF RemoveFile, TypeOK
      <3>3. \A n \in Name \ todo' : store'[<<Home, Category1, n>>] = NoFile
        BY <2>6, <3>1, <3>2
      <3> QED
        BY <2>1, <2>5, <3>1, <3>3 DEF CleanProgress, Category1
    <2>9. CASE CloseTask
      <3>1. dir' = None /\ dir # None /\ todo = {} /\ Len(agenda') = Len(agenda) - 1
        BY <2>9, CloseTasks DEF CloseTask
      <3>2. ASSUME NEW k \in 1..(Len(Chain) - Len(agenda')), NEW n \in Name
            PROVE  store'[<<Home, CategoryOf[Chain[k]], n>>] = NoFile
        <4>1. CASE k \in 1..(Len(Chain) - Len(agenda))
          BY <2>5, <4>1
        <4>2. CASE k = Len(Chain) - Len(agenda) + 1
          BY <2>1, <2>6, <3>1, <4>2
        <4> QED
          BY <2>1, <3>1, <4>1, <4>2, ChainListsOwners
      <3> QED
        BY <2>1, <3>1, <3>2 DEF CleanProgress
    <2> QED
      BY <1>2, <2>2, <2>3, <2>7, <2>8, <2>9 DEF TaskStep
  <1>3. ASSUME TaskStep, ~(cmd.op = "clean" /\ OneLayout) PROVE CleanProgress'
    BY <1>3, TaskStepFrame DEF CleanProgress, OneLayout
  <1>4. CASE Quieted
    BY <1>4 DEF Quieted, Quiet, CleanProgress
  <1>5. CASE UNCHANGED vars
    BY <1>5 DEF vars, CleanProgress, Home, OneLayout, Category1
  <1> QED
    BY <1>1, <1>2, <1>3, <1>4, <1>5, StepKinds

LEMMA NextUpdateProgress ==
  ASSUME TypeOK, CommandRuns, TaskOpen, TasksLeft, LayoutHeld, UpdateProgress, [Next]_vars
  PROVE  UpdateProgress'
  <1>1. CASE Starts
    <2>1. cmd'.op = "update" => Len(agenda') = 2 /\ agenda' # <<>> /\ dir' = None
      BY <1>1, StartTasks DEF Starts
    <2> QED
      BY <2>1 DEF UpdateProgress
  <1>2. ASSUME TaskStep, cmd.op = "update", OneLayout PROVE UpdateProgress'
    <2> DEFINE c == cmd.category
    <2>1. /\ agenda # <<>> /\ UNCHANGED <<flags, version, cmd>> /\ Home' = Home /\ Target' = Target
          /\ Target \in Owner /\ Head(agenda)[2] = Target /\ Category1 = c /\ c' = c
          /\ \/ Task1 = "clean" /\ Len(agenda) = 2
             \/ Task1 = "make" /\ Len(agenda) = 1
          /\ dir # None => dir = Home
          /\ \A n \in Name : <<Home, c, n>> \in Slot
          /\ Files[Target] \subseteq Name
      BY <1>2, TaskStepFrame, HeadTask, TaskAtHome, StoreAssumption DEF Target
    <2>2. OpenTask \/ (dir # None /\ (CloseTask \/ UNCHANGED <<dir, agenda>>))
      BY <1>2, TaskStepFrame, CloseTasks
    <2>3. CASE Task1 = "clean"
      <3>1. Len(agenda) = 2 /\ ~WriteFile /\ \A m \in Name : ~CreateFile(m) /\ ~SkipFile(m)
        BY <2>1, <2>3 DEF CreateFile, SkipFile, WriteFile, TaskOpen
      <3>2. CASE OpenTask
        <4>1. todo' = Present(Home, c) /\ UNCHANGED <<store, agenda>>
          BY <1>2, <2>1, <2>3, <3>2, TaskAtHome DEF OpenTask
        <4>2. \A n \in Name \ todo' : store'[<<Home, c, n>>] = NoFile
          BY <4>1 DEF Present
        <4> QED
          BY <2>1, <3>1, <4>1, <4>2 DEF UpdateProgress
      <3>3. ASSUME NEW m \in Name, RemoveFile(m) PROVE UpdateProgress'
        <4>1. dir = Home /\ dir # None /\ UNCHANGED <<dir, agenda>> /\ todo' = todo \ {m}
          BY <2>1, <3>3 DEF RemoveFile
        <4>2. store' = [store EXCEPT ![<<Home, c, m>>] = NoFile]
          BY <2>1, <3>3, <4>1 DEF RemoveFile
        <4>3. \A n \in Name \ todo : store[<<Home, c, n>>] = NoFile
          BY <1>2, <3>1, <4>1 DEF UpdateProgress
        <4>4. \A n \in Name \ todo' : store'[<<Home, c, n>>] = NoFile
          BY <2>1, <4>1, <4>2, <4>3 DEF TypeOK
        <4> QED
          BY <2>1, <3>1, <4>1, <4>4 DEF UpdateProgress
      <3>4. CASE CloseTask
        <4>1. /\ dir' = None /\ todo = {} /\ dir # None /\ Len(agenda') = 1 /\ agenda' # <<>>
              /\ UNCHANGED store
          BY <3>1, <3>4, CloseTasks DEF CloseTask
        <4>2. \A n \in Name : store[<<Home, c, n>>] = NoFile
          BY <1>2, <3>1, <4>1 DEF UpdateProgress
        <4> QED
          BY <2>1, <4>1, <4>2 DEF UpdateProgress
      <3> QED
        BY <1>2, <3>1, <3>2, <3>3, <3>4 DEF TaskStep
    <2>4. CASE Task1 = "make"
      <3>1. Len(agenda) = 1 /\ \A m \in Name : ~RemoveFile(m)
        BY <2>1, <2>4 DEF RemoveFile
      <3>2. dir # None =>
              /\ \A n \in todo : n # writing => store[<<Home, c, n>>] = NoFile
              /\ \A n \in Files[Target] \ todo : store[<<Home, c, n>>] = <<n, version>>
        BY <1>2, <3>1 DEF UpdateProgress
      <3>3. ASSUME UNCHANGED agenda,
                   \A n \in todo' : n # writing' => store'[<<Home, c, n>>] = NoFile,
                   \A n \in Files[Target] \ todo' : store'[<<Home, c, n>>] = <<n, version>>,
                   dir' # None
            PROVE  UpdateProgress'
        BY <2>1, <3>1, <3>3 DEF UpdateProgress
      <3>4. CASE OpenTask
        <4>1. /\ todo' = Files[Target] /\ UNCHANGED <<store, agenda>>
              /\ dir = None /\ dir' # None
          BY <2>1, <2>4, <3>4, Directories DEF OpenTask, TemplateDir, TypeOK
        <4>2. \A n \in Name : store[<<Home, c, n>>] = NoFile
          BY <1>2, <3>1, <4>1 DEF UpdateProgress
        <4> QED
          BY <2>1, <3>3, <4>1, <4>2
      <3>5. ASSUME NEW m \in Name, SkipFile(m) PROVE FALSE
        <4>1. m \in todo /\ m # writing /\ dir # None /\ store[<<Home, c, m>>] # NoFile
          BY <2>1, <3>5, StoreAssumption DEF SkipFile
        <4> QED
          BY <3>2, <4>1
      <3>6. ASSUME NEW m \in Name, CreateFile(m) PROVE UpdateProgress'
        <4>1. /\ m \in todo /\ writing' = m /\ dir # None /\ UNCHANGED <<dir, agenda, todo>>
              /\ writing = None
              /\ store' = [store EXCEPT ![<<Home, c, m>>] = Empty]
          BY <2>1, <3>6 DEF CreateFile
        <4>2. \A n \in Name : n # m => store'[<<Home, c, n>>] = store[<<Home, c, n>>]
          BY <2>1, <4>1 DEF TypeOK
        <4>3. todo \subseteq Name /\ None \notin Name
          BY StoreAssumption DEF TypeOK
        <4> QED
          BY <2>1, <3>2, <3>3, <4>1, <4>2, <4>3
      <3>7. CASE WriteFile
        <4>1. /\ writing \in todo /\ writing' = None /\ dir # None /\ UNCHANGED <<dir, agenda>>
              /\ todo' = todo \ {writing}
              /\ store' = [store EXCEPT ![<<Home, c, writing>>] = <<writing, version>>]
          BY <2>1, <2>4, <3>7 DEF WriteFile, TextOf, TaskOpen
        <4>2. todo \subseteq Name /\ None \notin Name
          BY StoreAssumption DEF TypeOK
        <4>3. /\ store'[<<Home, c, writing>>] = <<writing, version>>
              /\ \A n \in Name : n # writing => store'[<<Home, c, n>>] = store[<<Home, c, n>>]
          BY <2>1, <4>1, <4>2 DEF TypeOK
        <4> QED
          BY <2>1, <3>2, <3>3, <4>1, <4>2, <4>3
      <3>8. CASE CloseTask
        <4>1. /\ dir' = None /\ todo = {} /\ dir # None /\ agenda' = <<>> /\ UNCHANGED store
          BY <3>1, <3>8, CloseTasks DEF CloseTask
        <4>2. Len(agenda') = 0
          BY <4>1
        <4> QED
          BY <2>1, <3>2, <4>1, <4>2 DEF UpdateProgress
      <3> QED
        BY <1>2, <3>1, <3>4, <3>5, <3>6, <3>7, <3>8 DEF TaskStep
    <2> QED
      BY <2>1, <2>3, <2>4
  <1>3. ASSUME TaskStep, ~(cmd.op = "update" /\ OneLayout) PROVE UpdateProgress'
    BY <1>3, TaskStepFrame DEF UpdateProgress, OneLayout
  <1>4. CASE Quieted
    BY <1>4 DEF Quieted, Quiet, UpdateProgress
  <1>5. CASE UNCHANGED vars
    BY <1>5 DEF vars, UpdateProgress, Home, OneLayout, Target
  <1> QED
    BY <1>1, <1>2, <1>3, <1>4, <1>5, StepKinds

-----------------------------------------------------------------------------
(* revert *)

LEMMA NextRevertProgress ==
  ASSUME TypeOK, CommandRuns, TaskOpen, TasksLeft, RevertProgress, [Next]_vars
  PROVE  RevertProgress'
  <1>1. CASE Starts
    <2>1. cmd'.op = "revert" => Len(agenda') = 1 /\ agenda' # <<>> /\ dir' = None
      BY <1>1, StartTasks DEF Starts
    <2>2. None # Plain /\ None # version' /\ version' = version
      <3>1. version' = version
        BY <1>1, StartTasks DEF Starts
      <3> QED
        BY <3>1, Directories DEF TypeOK
    <2> QED
      BY <2>1, <2>2 DEF RevertProgress
  <1>2. ASSUME TaskStep, cmd.op = "revert", Target \notin Loose PROVE RevertProgress'
    <2>1. /\ agenda # <<>> /\ UNCHANGED <<flags, version, cmd>> /\ Target' = Target
          /\ Head(agenda)[2] = Target /\ Category1 = cmd.category /\ Category1 \in Category
          /\ Task1 = "force" /\ Len(agenda) = 1
          /\ version # Plain /\ version # None /\ Plain # None /\ version \in Dir
          /\ cmd.name \in Name
      BY <1>2, TaskStepFrame, HeadTask, Directories DEF Target, TypeOK, TasksLeft
    <2> DEFINE Read == TemplateDir(cmd.custom, cmd.category)
    <2>2. \A m \in Name : ~RemoveFile(m) /\ ~SkipFile(m)
      BY <2>1 DEF RemoveFile, SkipFile
    <2>3. ASSUME dir = Plain, UNCHANGED dir PROVE Read' = Read
      <3>1. \A n \in Name : store'[<<version, cmd.category, n>>] = store[<<version, cmd.category, n>>]
        BY <1>2, <2>1, <2>3, FilesTouched
      <3> QED
        BY <2>1, <3>1 DEF TemplateDir, HasContent
    <2>4. CASE OpenTask
      <3>1. dir' = Read /\ todo' = {cmd.name} /\ UNCHANGED <<store, agenda>>
        BY <2>1, <2>4 DEF OpenTask
      <3>2. Read' = Read
        BY <2>1, <3>1 DEF TemplateDir, HasContent
      <3> QED
        BY <2>1, <3>1, <3>2 DEF RevertProgress
    <2>5. ASSUME NEW m \in Name, CreateFile(m) PROVE RevertProgress'
      <3>1. /\ m \in todo /\ writing' = m /\ m # None /\ dir # None /\ UNCHANGED <<dir, agenda, todo>>
        BY <2>5, StoreAssumption DEF CreateFile
      <3> QED
        BY <1>2, <2>1, <2>3, <3>1 DEF RevertProgress
    <2>6. CASE WriteFile
      <3>1. /\ writing = cmd.name /\ dir # None /\ UNCHANGED <<dir, agenda>>
            /\ store' = [store EXCEPT ![<<dir, cmd.category, cmd.name>>] = <<cmd.name, version>>]
        BY <1>2, <2>1, <2>6 DEF WriteFile, TaskOpen, TasksLeft, TextOf
      <3>2. <<dir, cmd.category, cmd.name>> \in Slot
        BY <2>1, <3>1, OpenedTask
      <3>3. store'[<<dir, cmd.category, cmd.name>>] = <<cmd.name, version>>
        BY <3>1, <3>2 DEF TypeOK
      <3>4. dir = version => Read' = version
        <4>1. store'[<<dir, cmd.category, cmd.name>>] \notin {NoFile, Empty}
          BY <1>2, <2>1, <2>6, <3>1, WrittenIsContent
        <4> QED
          BY <2>1, <4>1 DEF TemplateDir, HasContent
      <3> QED
        BY <1>2, <2>1, <2>3, <3>1, <3>3, <3>4 DEF RevertProgress
    <2>7. CASE CloseTask
      <3>1. /\ dir' = None /\ todo = {} /\ writing = None /\ dir # None /\ agenda' = <<>>
            /\ UNCHANGED <<store, writing, todo>>
        BY <2>1, <2>7, CloseTasks DEF CloseTask
      <3>2. Read = dir
        BY <1>2, <3>1 DEF RevertProgress, TaskOpen
      <3>3. Read' = Read
        BY <2>1, <3>1 DEF TemplateDir, HasContent
      <3>4. store[<<dir, cmd.category, cmd.name>>] = <<cmd.name, version>>
        BY <1>2, <3>1 DEF RevertProgress
      <3> QED
        BY <2>1, <3>1, <3>2, <3>3, <3>4 DEF RevertProgress, Loaded
    <2> QED
      BY <1>2, <2>2, <2>4, <2>5, <2>6, <2>7 DEF TaskStep
  <1>3. ASSUME TaskStep, ~(cmd.op = "revert" /\ Target \notin Loose) PROVE RevertProgress'
    BY <1>3, TaskStepFrame DEF RevertProgress, Target
  <1>4. CASE Quieted
    BY <1>4 DEF Quieted, Quiet, RevertProgress
  <1>5. CASE UNCHANGED vars
    BY <1>5 DEF vars, RevertProgress, Loaded, TemplateDir, HasContent, Target
  <1> QED
    BY <1>1, <1>2, <1>3, <1>4, <1>5, StepKinds

-----------------------------------------------------------------------------
(* Theorems *)

LEMMA InitInv == Init => Inv
  <1> SUFFICES ASSUME Init PROVE Inv
    OBVIOUS
  <1>1. \A d \in 1..MaxVersion, c \in Category, n \in Name : store[<<d, c, n>>] = NoFile
    BY DEF Init, Slot, Dir
  <1>2. cmd = Quiet /\ cmd.op = "idle" /\ agenda = <<>> /\ dir = None /\ todo = {} /\ writing = None
    BY DEF Init, Quiet
  <1> QED
    BY <1>1, <1>2 DEF Inv, CommandRuns, TaskOpen, TasksLeft, LayoutHeld, InitProgress,
       CleanProgress, UpdateProgress, RevertProgress

\* In every state the command at hand has its tasks left, and has done what it has done:
\* init has its files in the directories that are read, clean and update of a home with one
\* layout have emptied and filled theirs, revert has its text.
THEOREM StoreInvariant == Spec => [](TypeOK /\ Inv)
  <1>1. Init => TypeOK /\ Inv
    BY InitTypeOK, InitInv
  <1>2. ASSUME TypeOK, Inv, [Next]_vars PROVE (TypeOK /\ Inv)'
    BY <1>2, NextTypeOK, NextControl, NextLayout, NextInitProgress, NextCleanProgress,
       NextUpdateProgress, NextRevertProgress DEF Inv
  <1> QED
    BY <1>1, <1>2, PTL DEF Spec

\* The types of the store and of the commands hold for every set of templates.
THEOREM TypesHold == Spec => []TypeOK
  BY StoreInvariant, PTL

\* What a command that returns nil has done is what it promises; anything else ends the
\* promise.  Of revert this takes an owner that looks the name up.
LEMMA FinishedCommand ==
  ASSUME TypeOK, Inv, Finish, UNCHANGED flags
  PROVE  /\ InitComplete' /\ CleanDeletesAll' /\ UpdateInstallsLatest'
         /\ Loose = {} => RevertRestores'
  <1>1. /\ agenda = <<>> /\ cmd # Quiet /\ last' = cmd /\ UNCHANGED <<version, store>>
        /\ cmd.custom \in flags
    BY DEF Finish, Inv, CommandRuns
  <1>2. Len(agenda) = 0 /\ dir = None
    BY <1>1 DEF Inv, TaskOpen
  <1>3. \A b, c, n : Loaded(b, c, n)' = Loaded(b, c, n)
    BY <1>1 DEF Loaded, TemplateDir, HasContent
  <1>4. InitComplete'
    <2> SUFFICES ASSUME cmd.op = "init", NEW o \in Owner, NEW n \in Files[o]
                 PROVE  Loaded(cmd.custom, CategoryOf[o], n) # NoFile
      BY <1>1, <1>3 DEF InitComplete, Succeeded
    <2>1. PICK k \in 1..Len(Chain) : Chain[k] = o
      BY ChainListsOwners
    <2>2. k \in 1..(Len(Chain) - Len(agenda))
      BY <1>2, ChainListsOwners
    <2> QED
      BY <2>1, <2>2 DEF Inv, InitProgress
  <1>5. ASSUME OneLayout, NEW c \in Category PROVE TemplateDir(cmd.custom, c) = Home
    BY <1>1, <1>5, HomeIsRead DEF Inv, Home
  <1>6. CleanDeletesAll'
    <2> SUFFICES ASSUME cmd.op = "clean", OneLayout, NEW c \in Category, NEW n \in Name, Known(c)
                 PROVE  Loaded(cmd.custom, c, n) = NoFile
      BY <1>1, <1>3 DEF CleanDeletesAll, Succeeded, OneLayout, Known
    <2>1. PICK o \in Owner : CategoryOf[o] = c
      BY DEF Known
    <2>2. PICK k \in 1..Len(Chain) : Chain[k] = o
      BY ChainListsOwners
    <2>3. k \in 1..(Len(Chain) - Len(agenda))
      BY <1>2, ChainListsOwners
    <2>4. store[<<Home, c, n>>] = NoFile
      BY <2>1, <2>2, <2>3 DEF Inv, CleanProgress
    <2> QED
      BY <1>5, <2>4 DEF Loaded
  <1>7. UpdateInstallsLatest'
    <2> SUFFICES ASSUME cmd.op = "update", OneLayout, NEW n \in Files[Dispatch(cmd.category)]
                 PROVE  Loaded(cmd.custom, cmd.category, n) = <<n, version>>
      BY <1>1, <1>3 DEF UpdateInstallsLatest, Succeeded, OneLayout, Dispatch
    <2>1. Known(cmd.category)
      BY DEF Inv, TasksLeft
    <2>2. cmd.category \in Category
      BY <2>1, StoreAssumption DEF Known
    <2>3. store[<<Home, cmd.category, n>>] = <<n, version>>
      BY <1>1 DEF Inv, UpdateProgress, Target
    <2> QED
      BY <1>5, <2>2, <2>3 DEF Loaded
  <1>8. Loose = {} => RevertRestores'
    <2> SUFFICES ASSUME Loose = {}, cmd.op = "revert"
                 PROVE  Loaded(cmd.custom, cmd.category, cmd.name) = <<cmd.name, version>>
      BY <1>1, <1>3 DEF RevertRestores, Succeeded
    <2> QED
      BY <1>1 DEF Inv, RevertProgress
  <1> QED
    BY <1>4, <1>6, <1>7, <1>8

LEMMA NextPromises ==
  ASSUME TypeOK, Inv, [Next]_vars,
         InitComplete /\ CleanDeletesAll /\ UpdateInstallsLatest, Loose = {} => RevertRestores
  PROVE  /\ InitComplete' /\ CleanDeletesAll' /\ UpdateInstallsLatest'
         /\ Loose = {} => RevertRestores'
  <1>2. CASE Finish
    <2>1. UNCHANGED flags
      BY DEF Next, vars
    <2> QED
      BY <1>2, <2>1, FinishedCommand
  <1> USE DEF InitComplete, CleanDeletesAll, UpdateInstallsLatest, RevertRestores, Succeeded
  <1>1. Quiet.op = "idle"
    BY DEF Quiet
  <1>3. ASSUME Starts \/ TaskStep PROVE cmd' # Quiet
    BY <1>3, StartTasks, TaskStepFrame DEF Starts, Inv
  <1>4. ASSUME Fail \/ Upgrade \/ \E s \in Slot : Edit(s) PROVE last' = Quiet
    BY <1>4 DEF Fail, Upgrade, Edit, Inv, CommandRuns
  <1>5. CASE UNCHANGED vars
    BY <1>5 DEF vars, Loaded, TemplateDir, HasContent, OneLayout
  <1> QED
    BY <1>1, <1>2, <1>3, <1>4, <1>5 DEF Next, Step, Starts, TaskStep

\* Where every owner looks up the name it is to revert, the four commands keep their promises
\* to the generators: after an init every registered template is where they read, after a
\* clean none is, after an update theirs are this version's, after a revert that one is.
THEOREM PromisesKept == ASSUME Loose = {} PROVE Spec => []CommandsKeepPromises
  <1> DEFINE P == /\ InitComplete /\ CleanDeletesAll /\ UpdateInstallsLatest
                  /\ (Loose = {} => RevertRestores)
  <1>1. Init => P
    BY DEF Init, InitComplete, CleanDeletesAll, UpdateInstallsLatest, RevertRestores, Succeeded, Quiet
  <1>2. ASSUME TypeOK, Inv, P, [Next]_vars PROVE P'
    BY <1>2, NextPromises
  <1>3. P => CommandsKeepPromises
    BY DEF CommandsKeepPromises
  <1> HIDE DEF P
  <1> QED
    BY <1>1, <1>2, <1>3, StoreInvariant, PTL DEF Spec

\* With owners that do not (docker and kube), the other three still do.
THEOREM OtherPromisesKept == Spec => [](InitComplete /\ CleanDeletesAll /\ UpdateInstallsLatest)
  <1> DEFINE P == /\ InitComplete /\ CleanDeletesAll /\ UpdateInstallsLatest
                  /\ (Loose = {} => RevertRestores)
  <1>1. Init => P
    BY DEF Init, InitComplete, CleanDeletesAll, UpdateInstallsLatest, RevertRestores, Succeeded, Quiet
  <1>2. ASSUME TypeOK, Inv, P, [Next]_vars PROVE P'
    BY <1>2, NextPromises
  <1>3. P => InitComplete /\ CleanDeletesAll /\ UpdateInstallsLatest
    OBVIOUS
  <1> HIDE DEF P
  <1> QED
    BY <1>1, <1>2, <1>3, StoreInvariant, PTL DEF Spec

\* Init never touches a customised template; clean does, and update and revert of its category.
THEOREM InitKeepsEdits == Spec => EditsSurviveInit
  <1> DEFINE Kept == \A s \in Slot :
                       store[s] = Edited /\ store'[s] # Edited =>
                         \/ cmd.op = "clean"
                         \/ cmd.op \in {"update", "revert"} /\ cmd.category = s[2]
  <1>1. ASSUME TypeOK, Inv, [Next]_vars PROVE Kept
    <2> SUFFICES ASSUME NEW s \in Slot, store[s] = Edited, store'[s] # Edited
                 PROVE  \/ cmd.op = "clean"
                        \/ cmd.op \in {"update", "revert"} /\ cmd.category = s[2]
      OBVIOUS
    <2>1. CommandRuns /\ TaskOpen /\ TasksLeft
      BY <1>1 DEF Inv
    <2>2. ~ UNCHANGED store
      OBVIOUS
    <2>3. ~ \E e \in Slot : Edit(e)
      BY <1>1 DEF Edit, TypeOK
    <2>4. TaskStep
      BY <1>1, <2>1, <2>2, <2>3, StepKinds, StartTasks DEF Starts, vars
    <2>5. PICK d \in Dir, c \in Category, n \in Name : s = <<d, c, n>>
      BY DEF Slot
    <2>6. d = dir /\ c = Category1 /\ dir # None /\ agenda # <<>>
      BY <1>1, <2>1, <2>4, <2>5, FilesTouched, OpenedTask
    <2>7. cmd.op = "init" => FALSE
      <3>1. ASSUME cmd.op = "init" PROVE Task1 = "make" /\ \A m \in Name : ~RemoveFile(m)
        BY <1>1, <2>1, <2>6, <3>1, HeadTask DEF RemoveFile
      <3>2. ASSUME NEW m \in Name, CreateFile(m), Task1 = "make" PROVE FALSE
        BY <1>1, <2>5, <2>6, <3>2, ContentsDiffer DEF CreateFile, TypeOK
      <3>3. ASSUME WriteFile PROVE FALSE
        BY <1>1, <2>1, <2>5, <2>6, <3>3, ContentsDiffer DEF WriteFile, TaskOpen, TypeOK
      <3> QED
        BY <2>2, <2>4, <3>1, <3>2, <3>3 DEF TaskStep, OpenTask, SkipFile, CloseTask
    <2> QED
      BY <1>1, <2>1, <2>5, <2>6, <2>7, HeadTask
  <1>2. ASSUME TypeOK, Inv, [Next]_vars PROVE [Kept]_vars
    BY <1>1, <1>2
  <1> QED
    BY <1>2, StoreInvariant, PTL DEF Spec, EditsSurviveInit

=============================================================================
