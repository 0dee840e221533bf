------------------------------- MODULE EnvStore -------------------------------
(***************************************************************************)
(* pkg/env/env.go: goctl processes that read ~/.goctl/env when they start  *)
(* and rewrite it in `goctl env -w`, concurrently and killed anywhere.     *)
(***************************************************************************)
EXTENDS Naturals, Sequences, SequencesExt, FiniteSetsExt

CONSTANTS
    Proc,      \* processes
    Version,   \* what builds and installed tools say of themselves
    Request,   \* arguments of env -w: functions from keys to values
    MaxStarts, \* bound: commands run
    MaxBehind  \* bound: how many lines one process's text is longer than another's

\* The keys that init honours in the file.
Setting == {"HOME", "DEBUG", "CACHE", "EXPERIMENTAL"}
Path == {"HOME", "CACHE"}

\* OS stands for the keys set before these, VERSION for those set after them.
EnvKey == {"OS", "VERSION"} \cup Setting

\* "odd" is a path that does not exist, or neither of the two texts that are expected;
\* "cut" is the beginning of a value.
SettingValue == {"default", "custom", "empty", "odd"}
Values == SettingValue \cup Version \cup {"cut"}

ASSUME EnvAssumption ==
    /\ \A r \in Request : \A k \in DOMAIN r : r[k] \in SettingValue
    /\ MaxStarts \in Nat /\ MaxBehind \in Nat

VARIABLES
    starts,     \* the commands run so far
    pc,         \* per process, where it is
    env,        \* per process, goctlEnv
    asked,      \* per process, the request it is writing
    file,       \* the lines of the env file, <<>> if there is none
    installed,  \* the present version
    stale,      \* history: the processes that read before another's write was done
    settings,   \* history: the settings, if every command were atomic, until disturbed
    disturbed   \* history: a stale process wrote, or a write was cut off

vars == <<starts, pc, env, asked, file, installed, stale, settings, disturbed>>

Ordered == INSTANCE OrderedMap
             WITH Map <- Proc, Key <- EnvKey, Value <- Values, entries <- env

NoRequest == <<>>
Default(k) == "default"

Init ==
    /\ starts = 0
    /\ pc = [p \in Proc |-> "off"]
    /\ env = [p \in Proc |-> <<>>]
    /\ asked = [p \in Proc |-> NoRequest]
    /\ file = <<>>
    /\ installed \in Version
    /\ stale = {}
    /\ settings = [k \in Setting |-> Default(k)]
    /\ disturbed = FALSE

-----------------------------------------------------------------------------
(* Reading the file *)

\* A line that SetExpression refuses; the one line of an empty file is one.
BadLine == <<"", "empty">>

GetOr(s, k, default) ==
    IF Ordered!Has(s, k) THEN s[CHOOSE i \in DOMAIN s : s[i][1] = k][2] ELSE default

\* Lines that SetExpression refuses are skipped.
ReadEnv(lines) ==
    FoldLeft(LAMBDA s, line : IF line = BadLine THEN s ELSE Ordered!Put(s, line[1], line[2]),
             <<>>, lines)

Honoured(k, v) ==
    CASE k \in Path -> v # "empty"
      [] k = "DEBUG" -> v \in {"default", "custom"}
      [] k = "EXPERIMENTAL" -> TRUE

\* An acceptable value of the file is taken over.
Taken(read, k) == Ordered!Has(read, k) /\ Honoured(k, GetOr(read, k, Default(k)))

Pair(read, k) == <<k, IF Taken(read, k) THEN GetOr(read, k, Default(k)) ELSE Default(k)>>

\* The SetKV of a key while init looks at what the file has ...
SetFromFile(read, exists, k) ==
    IF Taken(read, k) \/ (k = "EXPERIMENTAL" /\ exists) THEN <<Pair(read, k)>> ELSE <<>>

\* ... and when it has not set the key by then.
SetByDefault(read, exists, k) ==
    IF SetFromFile(read, exists, k) = <<>> THEN <<Pair(read, k)>> ELSE <<>>

\* Mutant: the file's keys are taken over as they are.
InitFromAll(lines) ==
    LET read == ReadEnv(lines)
        missing == SelectSeq(<<"HOME", "DEBUG", "CACHE", "EXPERIMENTAL">>,
                             LAMBDA k : ~Ordered!Has(read, k))
    IN <<<<"OS", installed>>>> \o SelectSeq(read, LAMBDA pair : pair[1] # "OS")
         \o [i \in DOMAIN missing |-> <<missing[i], Default(missing[i])>>]
         \o (IF Ordered!Has(read, "VERSION") THEN <<>> ELSE <<<<"VERSION", installed>>>>)

\* What init makes of the file: a setting that the file does not have, or not in an
\* acceptable form, gets its default after the others.
InitFrom(lines) ==
    LET fromFile(k)  == SetFromFile(ReadEnv(lines), lines # <<>>, k)
        byDefault(k) == SetByDefault(ReadEnv(lines), lines # <<>>, k)
    IN <<<<"OS", installed>>>>
         \o fromFile("HOME") \o fromFile("DEBUG") \o fromFile("CACHE") \o fromFile("EXPERIMENTAL")
         \o byDefault("HOME") \o byDefault("DEBUG") \o byDefault("CACHE") \o byDefault("EXPERIMENTAL")
         \o <<<<"VERSION", installed>>>>

Start(p) ==
    /\ pc[p] = "off"
    /\ starts < MaxStarts
    /\ starts' = starts + 1
    /\ pc' = [pc EXCEPT ![p] = "started"]
    /\ env' = [env EXCEPT ![p] = InitFrom(file)]
    /\ stale' = IF \E q \in Proc : pc[q] = "truncated" THEN stale \cup {p} ELSE stale
    /\ UNCHANGED <<asked, file, installed, settings, disturbed>>

-----------------------------------------------------------------------------
(* goctl env -w *)

\* The process ends and forgets.
Gone(p) ==
    /\ pc' = [pc EXCEPT ![p] = "off"]
    /\ env' = [env EXCEPT ![p] = <<>>]
    /\ asked' = [asked EXCEPT ![p] = NoRequest]
    /\ stale' = stale \ {p}
    /\ UNCHANGED starts

\* Mutant: paths need not exist.
AcceptedUnchecked(p, r) == \A k \in DOMAIN r : Ordered!Has(env[p], k)

\* A known key, and an existing path where a path is asked for.
Accepted(p, r) ==
    \A k \in DOMAIN r :
      /\ k \in Path => r[k] \in {"default", "custom"}
      /\ Ordered!Has(env[p], k)

\* Known keys keep their place in goctlEnv.
Updated(s, r) ==
    [i \in DOMAIN s |-> IF s[i][1] \in DOMAIN r THEN <<s[i][1], r[s[i][1]]>> ELSE s[i]]

WriteEnv(p, r) ==
    /\ pc[p] = "started"
    /\ IF Accepted(p, r)
       THEN /\ pc' = [pc EXCEPT ![p] = "accepted"]
            /\ env' = [env EXCEPT ![p] = Updated(env[p], r)]
            /\ asked' = [asked EXCEPT ![p] = r]
            /\ UNCHANGED <<starts, stale>>
       ELSE Gone(p)
    /\ UNCHANGED <<file, installed, settings, disturbed>>

\* os.WriteFile opens with O_TRUNC.
Truncate(p) ==
    /\ pc[p] = "accepted"
    /\ pc' = [pc EXCEPT ![p] = "truncated"]
    /\ file' = <<BadLine>>
    /\ stale' = stale \cup {q \in Proc \ {p} : pc[q] # "off"}
    /\ disturbed' = (disturbed \/ p \in stale)
    /\ UNCHANGED <<starts, env, asked, installed, settings>>

\* What another process wrote in the meantime and is longer shows behind.
Behind(lines) ==
    IF lines = <<BadLine>> THEN {<<>>}
    ELSE {SubSeq(lines, i, Len(lines)) : i \in Max({1, Len(lines) + 1 - MaxBehind})..(Len(lines) + 1)}

\* Mutant: only what was asked is written.
TextOfAsked(p) == SelectSeq(env[p], LAMBDA pair : pair[1] \in DOMAIN asked[p])

\* strings.Join(goctlEnv.Format(), "\n")
TextOf(p) == env[p]

Flush(p) ==
    /\ pc[p] = "truncated"
    /\ \E tail \in Behind(file) : file' = TextOf(p) \o tail
    /\ disturbed' = (disturbed \/ p \in stale)
    /\ settings' = [k \in Setting |->
                       IF disturbed' THEN Default(k)
                       ELSE IF k \in DOMAIN asked[p] THEN asked[p][k] ELSE settings[k]]
    /\ Gone(p)
    /\ UNCHANGED installed

\* The write ends early, within a line: before or behind its equals sign.
CutWrite(p) ==
    /\ pc[p] = "truncated"
    /\ \E i \in DOMAIN TextOf(p) :
         \E line \in {BadLine, <<TextOf(p)[i][1], "empty">>, <<TextOf(p)[i][1], "cut">>} :
           file' = SubSeq(TextOf(p), 1, i - 1) \o <<line>>
    /\ disturbed' = TRUE
    /\ settings' = [k \in Setting |-> Default(k)]
    /\ Gone(p)
    /\ UNCHANGED installed

\* A process that only reads ends, or one is killed.
End(p) ==
    /\ pc[p] # "off"
    /\ disturbed' = (disturbed \/ pc[p] = "truncated")
    /\ Gone(p)
    /\ UNCHANGED <<file, installed, settings>>

\* goctl upgrade, or newer tools in the PATH.
Upgrade ==
    /\ installed' \in Version \ {installed}
    /\ UNCHANGED <<starts, pc, env, asked, file, stale, settings, disturbed>>

Next ==
    \/ \E p \in Proc :
         \/ Start(p)
         \/ \E r \in Request : WriteEnv(p, r)
         \/ Truncate(p) \/ Flush(p) \/ CutWrite(p) \/ End(p)
    \/ Upgrade

Spec == Init /\ [][Next]_vars

-----------------------------------------------------------------------------
(* Properties *)

\* Whatever the file holds, cut off, torn or written by another version: a process
\* starts with every key once, the system keys around the settings and never read
\* from the file, and a DEBUG that is a truth value.
EnvComplete ==
    \A p \in Proc : pc[p] = "started" =>
      /\ Len(env[p]) = 6
      /\ {env[p][i][1] : i \in 1..6} = EnvKey
      /\ env[p][1] \in {"OS"} \X Version /\ env[p][6] \in {"VERSION"} \X Version
      /\ env[p][1][2] = env[p][6][2]
      /\ GetOr(env[p], "DEBUG", "odd") \in {"default", "custom"}

\* Commands that do not overlap add up: a process that reads a file nobody is writing
\* starts with the last accepted value of every setting, as far as init honours it.
CommandsAddUp ==
    ~disturbed /\ (\A p \in Proc : pc[p] # "truncated") =>
      \A k \in Setting :
        GetOr(InitFrom(file), k, "odd") =
          IF Honoured(k, settings[k]) THEN settings[k] ELSE Default(k)

\* Writers that overlap lose each other's settings, but what a process starts with was
\* checked by the one that wrote it: no path that did not exist ("cut" paths pass).
PathsExisted ==
    \A p \in Proc, k \in Path : pc[p] # "off" => GetOr(env[p], k, "odd") \in {"default", "custom", "cut"}
===============================================================================
