---------------------------- MODULE RpcGen_proofs ----------------------------
(***************************************************************************)
(* Proofs about RpcGen, for every set of proto files, every user, and any   *)
(* number of runs that fail.                                                *)
(***************************************************************************)
EXTENDS RpcGen, Unfolding

-----------------------------------------------------------------------------
(* The calls of a run *)

FileJob == [kind : {"etc", "config", "svc", "logic", "server", "main", "call"}, block : Nat, rpc : Nat]
PbJob == JobOf("pb", 0, 0)

\* A list of calls with one call of genPbDirect in it, before which there is only etc.
OnePb(s) ==
    /\ s \in Seq(FileJob \cup {PbJob})
    /\ \E p \in 1..Len(s) : /\ s[p] = PbJob
                            /\ \A i \in 1..Len(s) : i # p => s[i] \in FileJob
                            /\ \A i \in 1..(p - 1) : s[i].kind = "etc"

\* Calls that generate files may follow.
LEMMA OnePbAppend ==
  ASSUME NEW s, OnePb(s), NEW t \in Seq(FileJob)
  PROVE  OnePb(s \o t)
  <1>1. s \in Seq(FileJob \cup {PbJob}) /\ t \in Seq(FileJob \cup {PbJob})
    BY DEF OnePb
  <1>2. s \o t \in Seq(FileJob \cup {PbJob}) /\ Len(s \o t) = Len(s) + Len(t)
    BY <1>1
  <1>3. PICK p \in 1..Len(s) : /\ s[p] = PbJob
                               /\ \A i \in 1..Len(s) : i # p => s[i] \in FileJob
                               /\ \A i \in 1..(p - 1) : s[i].kind = "etc"
    BY DEF OnePb
  <1>4. \A i \in 1..Len(s) : (s \o t)[i] = s[i]
    BY <1>1
  <1>5. \A i \in 1..Len(s \o t) : i > Len(s) => (s \o t)[i] \in FileJob
    BY <1>1
  <1>6. p \in 1..Len(s \o t) /\ (s \o t)[p] = PbJob
    BY <1>1, <1>2, <1>3, <1>4
  <1>7. \A i \in 1..Len(s \o t) : i # p => (s \o t)[i] \in FileJob
    BY <1>1, <1>2, <1>3, <1>4, <1>5
  <1>8. \A i \in 1..(p - 1) : (s \o t)[i].kind = "etc"
    BY <1>1, <1>3, <1>4
  <1> QED
    BY <1>2, <1>6, <1>7, <1>8 DEF OnePb

LEMMA ServicesKnown ==
  ASSUME NEW r \in ValidRequest
  PROVE  /\ r.proto \in Proto /\ r.mode \in Modes
         /\ r.proto.services \in Seq(ServiceDef)
         /\ Services(r) = 1..Len(r.proto.services) /\ Len(r.proto.services) \in Nat
         /\ \A b \in Services(r) : r.proto.services[b].rpcs \in Seq(Rpc)
  <1>1. r.proto \in Proto /\ r.mode \in Modes
    BY DEF ValidRequest, Request
  <1>2. r.proto.services \in Seq(ServiceDef)
    BY <1>1, RpcGenAssumption
  <1>3. Services(r) = 1..Len(r.proto.services) /\ Len(r.proto.services) \in Nat
    BY <1>2 DEF Services
  <1>4. \A b \in Services(r) : r.proto.services[b] \in ServiceDef
    BY <1>2, <1>3
  <1> QED
    BY <1>1, <1>2, <1>3, <1>4 DEF ServiceDef

\* Every run calls genPbDirect once, after GenEtc and before everything else.
LEMMA CallsHaveOnePb ==
  ASSUME NEW r \in ValidRequest
  PROVE  OnePb(Calls(r))
  <1>1. \A k \in {"etc", "config", "svc"} : OnceJob(k) \in Seq(FileJob)
    <2> TAKE k \in {"etc", "config", "svc"}
    <2>1. JobOf(k, 0, 0) \in FileJob
      BY DEF JobOf, FileJob
    <2>2. <<JobOf(k, 0, 0)>> \in Seq(FileJob) /\ << >> \in Seq(FileJob)
      BY <2>1
    <2> QED
      BY <2>2 DEF OnceJob
  <1>2. LogicJobs(r) \in Seq(FileJob)
    <2> DEFINE seqs == [b \in Services(r) |->
                          [k \in DOMAIN r.proto.services[b].rpcs |-> JobOf("logic", b, k)]]
    <2>1. ASSUME NEW b \in Services(r)
          PROVE  [k \in DOMAIN r.proto.services[b].rpcs |-> JobOf("logic", b, k)] \in Seq(FileJob)
      <3>1. b \in Nat /\ r.proto.services[b].rpcs \in Seq(Rpc)
        BY ServicesKnown
      <3>2. \A k \in Nat : JobOf("logic", b, k) \in FileJob
        BY <3>1 DEF JobOf, FileJob
      <3>3. /\ DOMAIN r.proto.services[b].rpcs = 1..Len(r.proto.services[b].rpcs)
            /\ Len(r.proto.services[b].rpcs) \in Nat
        BY <3>1
      <3> QED
        BY <3>2, <3>3
    <2>2. seqs \in Seq(Seq(FileJob))
      BY <2>1, ServicesKnown
    <2> HIDE DEF seqs
    <2>3. FlattenSeq(seqs) \in Seq(FileJob)
      BY <2>2, FlattenIsSeq
    <2> QED
      BY <2>3 DEF LogicJobs, seqs
  <1>3. \A b \in Services(r) : JobOf("server", b, 0) \in FileJob /\ JobOf("call", b, 0) \in FileJob
    BY ServicesKnown DEF JobOf, FileJob
  <1>4. ServerJobs(r) \in Seq(FileJob) /\ CallJobs(r) \in Seq(FileJob)
    <2>1. /\ [b \in Services(r) |-> JobOf("server", b, 0)] \in Seq(FileJob)
          /\ [b \in Services(r) |-> JobOf("call", b, 0)] \in Seq(FileJob)
      BY <1>3, ServicesKnown
    <2>2. << >> \in Seq(FileJob)
      OBVIOUS
    <2> QED
      BY <2>1, <2>2 DEF ServerJobs, CallJobs
  <1>5. <<JobOf("main", 0, 0)>> \in Seq(FileJob)
    BY DEF JobOf, FileJob
  <1>6. OnePb(OnceJob("etc") \o <<PbJob>>)
    <2> DEFINE etc == JobOf("etc", 0, 0)
    <2>0. etc \in FileJob /\ etc.kind = "etc"
      BY DEF JobOf, FileJob
    <2> HIDE DEF etc
    <2>1. CASE "etc" \in Once
      <3> DEFINE t == <<etc>> \o <<PbJob>>
      <3>1. OnceJob("etc") = <<etc>>
        BY <2>1 DEF OnceJob, etc
      <3>2. <<etc>> \in Seq(FileJob \cup {PbJob}) /\ <<PbJob>> \in Seq(FileJob \cup {PbJob})
        BY <2>0
      <3>3. t \in Seq(FileJob \cup {PbJob}) /\ Len(t) = 2 /\ t[1] = etc /\ t[2] = PbJob
        BY <3>2
      <3> HIDE DEF t
      <3>4. OnePb(t)
        BY <2>0, <3>3 DEF OnePb
      <3> QED
        BY <3>1, <3>4 DEF t
    <2>2. CASE "etc" \notin Once
      <3>1. OnceJob("etc") \o <<PbJob>> = <<PbJob>>
        BY <2>2 DEF OnceJob
      <3>2. <<PbJob>> \in Seq(FileJob \cup {PbJob}) /\ Len(<<PbJob>>) = 1 /\ <<PbJob>>[1] = PbJob
        OBVIOUS
      <3>3. OnePb(<<PbJob>>)
        BY <3>2 DEF OnePb
      <3> QED
        BY <3>1, <3>3
    <2> QED
      BY <2>1, <2>2
  <1> QED
    BY <1>1, <1>2, <1>4, <1>5, <1>6, OnePbAppend DEF Calls, PbJob

\* The index of genPbDirect.
PbAt(r) == CHOOSE p \in 1..Len(Calls(r)) : Calls(r)[p].kind = "pb"

LEMMA CallsKnown ==
  ASSUME NEW r \in ValidRequest
  PROVE  /\ DOMAIN Calls(r) = 1..Len(Calls(r)) /\ Len(Calls(r)) \in Nat
         /\ PbAt(r) \in 1..Len(Calls(r))
         /\ \A i \in 1..Len(Calls(r)) : Calls(r)[i].kind = "pb" <=> i = PbAt(r)
         /\ \A i \in 1..(PbAt(r) - 1) : Calls(r)[i].kind = "etc"
         /\ FileJobs(r) = 1..Len(Calls(r)) \ {PbAt(r)}
  <1> DEFINE s == Calls(r)
  <1>1. OnePb(s)
    BY CallsHaveOnePb
  <1> HIDE DEF s
  <1>2. s \in Seq(FileJob \cup {PbJob}) /\ DOMAIN s = 1..Len(s) /\ Len(s) \in Nat
    BY <1>1 DEF OnePb
  <1>3. PICK p \in 1..Len(s) : /\ s[p] = PbJob
                               /\ \A i \in 1..Len(s) : i # p => s[i] \in FileJob
                               /\ \A i \in 1..(p - 1) : s[i].kind = "etc"
    BY <1>1 DEF OnePb
  <1>4. PbJob.kind = "pb" /\ \A j \in FileJob : j.kind # "pb"
    BY DEF PbJob, JobOf, FileJob
  <1>5. \A i \in 1..Len(s) : s[i].kind = "pb" <=> i = p
    BY <1>3, <1>4
  <1>6. PbAt(r) = p
    BY <1>5 DEF PbAt, s
  <1> QED
    BY <1>2, <1>3, <1>5, <1>6 DEF s, FileJobs

-----------------------------------------------------------------------------
(* Which calls there are *)

AnyJob == FileJob \cup {PbJob}
OtherJob == {j \in AnyJob : j.kind # "server"}

\* The servers of r's services are generated one after the other, after the first o calls.
ServersAfter(r, o, s) ==
    /\ s \in Seq(AnyJob) /\ o \in Nat /\ o + Len(r.proto.services) <= Len(s)
    /\ \A i \in 1..Len(s) : s[i].kind = "server" => i - o \in Services(r)
    /\ \A b \in Services(r) : s[o + b] = JobOf("server", b, 0)

\* Calls that generate no server may follow.
LEMMA ServersAppend ==
  ASSUME NEW r \in ValidRequest, NEW o, NEW s, ServersAfter(r, o, s), NEW t \in Seq(OtherJob)
  PROVE  ServersAfter(r, o, s \o t)
  <1>1. s \in Seq(AnyJob) /\ t \in Seq(AnyJob) /\ o \in Nat
    BY DEF ServersAfter, OtherJob
  <1>2. s \o t \in Seq(AnyJob) /\ Len(s \o t) = Len(s) + Len(t) /\ Len(s) \in Nat /\ Len(t) \in Nat
    BY <1>1
  <1>3. PICK m \in Nat : m = Len(r.proto.services) /\ Services(r) = 1..m
    BY ServicesKnown
  <1>4. \A i \in 1..Len(s) : (s \o t)[i] = s[i]
    BY <1>1
  <1>5. ASSUME NEW i \in 1..Len(s \o t), i > Len(s) PROVE (s \o t)[i].kind # "server"
    <2>1. i - Len(s) \in 1..Len(t) /\ i = Len(s) + (i - Len(s))
      BY <1>2, <1>5
    <2>2. (s \o t)[Len(s) + (i - Len(s))] = t[i - Len(s)]
      BY <1>1, <2>1
    <2>3. t[i - Len(s)] \in OtherJob
      BY <2>1
    <2> QED
      BY <2>1, <2>2, <2>3 DEF OtherJob
  <1>6. o + m <= Len(s \o t)
    BY <1>1, <1>2, <1>3 DEF ServersAfter
  <1>7. ASSUME NEW i \in 1..Len(s \o t), (s \o t)[i].kind = "server" PROVE i - o \in Services(r)
    <2>1. i \in 1..Len(s)
      BY <1>2, <1>5, <1>7
    <2> QED
      BY <1>4, <1>7, <2>1 DEF ServersAfter
  <1>8. ASSUME NEW b \in Services(r) PROVE (s \o t)[o + b] = JobOf("server", b, 0)
    <2>1. o + b \in 1..Len(s)
      BY <1>1, <1>2, <1>3 DEF ServersAfter
    <2> QED
      BY <1>4, <2>1 DEF ServersAfter
  <1> QED
    BY <1>1, <1>2, <1>3, <1>6, <1>7, <1>8 DEF ServersAfter

\* The calls before the servers: etc, pb, config, svc and every rpc's logic.
Early(r) ==
    OnceJob("etc") \o <<JobOf("pb", 0, 0)>> \o OnceJob("config") \o OnceJob("svc") \o LogicJobs(r)

LEMMA EarlyCalls ==
  ASSUME NEW r \in ValidRequest
  PROVE  /\ Early(r) \in Seq(OtherJob)
         /\ \A b \in Services(r) : \A k \in DOMAIN r.proto.services[b].rpcs :
              Holding(Early(r), JobOf("logic", b, k))
  <1>1. \A k \in {"etc", "config", "svc"} : OnceJob(k) \in Seq(OtherJob)
    <2> TAKE k \in {"etc", "config", "svc"}
    <2>1. JobOf(k, 0, 0) \in OtherJob
      BY DEF JobOf, FileJob, OtherJob, AnyJob
    <2>2. <<JobOf(k, 0, 0)>> \in Seq(OtherJob) /\ << >> \in Seq(OtherJob)
      BY <2>1
    <2> QED
      BY <2>2 DEF OnceJob
  <1>2. <<JobOf("pb", 0, 0)>> \in Seq(OtherJob)
    <2>1. JobOf("pb", 0, 0) \in OtherJob
      BY DEF JobOf, PbJob, OtherJob, AnyJob
    <2> QED
      BY <2>1
  <1> DEFINE seqs == [b \in Services(r) |->
                        [k \in DOMAIN r.proto.services[b].rpcs |-> JobOf("logic", b, k)]]
  <1>3. ASSUME NEW b \in Services(r)
        PROVE  /\ seqs[b] \in Seq(OtherJob)
               /\ \A k \in DOMAIN r.proto.services[b].rpcs : Holding(seqs[b], JobOf("logic", b, k))
    <2>1. b \in Nat /\ r.proto.services[b].rpcs \in Seq(Rpc)
      BY ServicesKnown
    <2>2. \A k \in Nat : JobOf("logic", b, k) \in OtherJob
      BY <2>1 DEF JobOf, FileJob, OtherJob, AnyJob
    <2>3. PICK m \in Nat : DOMAIN r.proto.services[b].rpcs = 1..m
      BY <2>1
    <2>4. seqs[b] = [k \in 1..m |-> JobOf("logic", b, k)]
      BY <2>3
    <2>5. seqs[b] \in Seq(OtherJob) /\ Len(seqs[b]) = m
      <3> HIDE DEF seqs
      <3> QED
        BY <2>2, <2>4
    <2>6. \A k \in 1..m : seqs[b][k] = JobOf("logic", b, k)
      <3> HIDE DEF seqs
      <3> QED
        BY <2>4
    <2> HIDE DEF seqs
    <2> QED
      BY <2>3, <2>5, <2>6 DEF Holding
  <1>4. seqs \in Seq(Seq(OtherJob)) /\ DOMAIN seqs = 1..Len(seqs) /\ Services(r) = 1..Len(seqs)
    BY <1>3, ServicesKnown
  <1>5. LogicJobs(r) = FlattenSeq(seqs)
    BY DEF LogicJobs
  <1> HIDE DEF seqs
  <1>6. LogicJobs(r) \in Seq(OtherJob)
    BY <1>4, <1>5, FlattenIsSeq
  <1> DEFINE fixed == OnceJob("etc") \o <<JobOf("pb", 0, 0)>> \o OnceJob("config") \o OnceJob("svc")
  <1>7. fixed \in Seq(OtherJob) /\ Early(r) = fixed \o LogicJobs(r)
    BY <1>1, <1>2 DEF Early
  <1> HIDE DEF fixed
  <1>8. ASSUME NEW b \in Services(r), NEW k \in DOMAIN r.proto.services[b].rpcs
        PROVE  Holding(Early(r), JobOf("logic", b, k))
    <2>1. b \in 1..Len(seqs) /\ Holding(seqs[b], JobOf("logic", b, k))
      BY <1>3, <1>4
    <2>2. Holding(LogicJobs(r), JobOf("logic", b, k))
      BY <1>4, <1>5, <2>1, FlattenHolds
    <2> QED
      BY <1>6, <1>7, <2>2, ConcatHolds
  <1> QED
    BY <1>6, <1>7, <1>8

\* The servers come one after the other in the order of the services, and there is a call
\* for every rpc's logic and for main.
LEMMA CallsOfServices ==
  ASSUME NEW r \in ValidRequest
  PROVE  /\ \E o : ServersAfter(r, o, Calls(r))
         /\ \A b \in Services(r) : \A k \in DOMAIN r.proto.services[b].rpcs :
              Holding(Calls(r), JobOf("logic", b, k))
         /\ Holding(Calls(r), JobOf("main", 0, 0))
  <1> DEFINE main == <<JobOf("main", 0, 0)>>
             S1 == Early(r) \o ServerJobs(r)
             S2 == S1 \o main
  <1>1. Calls(r) = S2 \o CallJobs(r)
    BY DEF Calls, Early
  <1>2. PICK m \in Nat : m = Len(r.proto.services) /\ Services(r) = 1..m
    BY ServicesKnown
  <1>3. /\ ServerJobs(r) \in Seq(AnyJob) /\ Len(ServerJobs(r)) = m
        /\ \A b \in 1..m : ServerJobs(r)[b] = JobOf("server", b, 0)
    <2>1. \A b \in 1..m : JobOf("server", b, 0) \in AnyJob
      BY DEF AnyJob, JobOf, FileJob
    <2>2. ServerJobs(r) = [b \in 1..m |-> JobOf("server", b, 0)]
      BY <1>2 DEF ServerJobs
    <2> QED
      BY <2>1, <2>2
  <1>4. main \in Seq(OtherJob) /\ Holding(main, JobOf("main", 0, 0))
    <2>1. JobOf("main", 0, 0) \in OtherJob
      BY DEF OtherJob, AnyJob, JobOf, FileJob
    <2>2. Len(main) = 1 /\ main[1] = JobOf("main", 0, 0)
      OBVIOUS
    <2> QED
      BY <2>1, <2>2 DEF Holding
  <1>5. CallJobs(r) \in Seq(OtherJob)
    <2>1. \A b \in 1..m : JobOf("call", b, 0) \in OtherJob
      BY DEF OtherJob, AnyJob, JobOf, FileJob
    <2>2. [b \in 1..m |-> JobOf("call", b, 0)] \in Seq(OtherJob) /\ << >> \in Seq(OtherJob)
      BY <2>1
    <2> QED
      BY <1>2, <2>2 DEF CallJobs
  <1>6. Early(r) \in Seq(OtherJob) /\ Early(r) \in Seq(AnyJob) /\ Len(Early(r)) \in Nat
    BY EarlyCalls DEF OtherJob
  <1> HIDE DEF main
  <1>7. ServersAfter(r, Len(Early(r)), S1)
    <2> DEFINE o == Len(Early(r))
    <2>0. o \in Nat
      BY <1>6
    <2>1. S1 \in Seq(AnyJob) /\ Len(S1) = o + m
      BY <1>3, <1>6
    <2>2. \A i \in 1..o : S1[i] = Early(r)[i]
      BY <1>3, <1>6
    <2>3. \A b \in 1..m : S1[o + b] = ServerJobs(r)[b]
      BY <1>3, <1>6
    <2>4. \A i \in 1..o : Early(r)[i] \in OtherJob
      BY <1>6
    <2> HIDE DEF S1, o
    <2>5. ASSUME NEW i \in 1..Len(S1), S1[i].kind = "server" PROVE i - o \in 1..m
      <3>1. i \notin 1..o
        BY <2>2, <2>4, <2>5 DEF OtherJob
      <3> QED
        BY <2>0, <2>1, <2>5, <3>1
    <2>6. \A b \in 1..m : S1[o + b] = JobOf("server", b, 0)
      BY <1>3, <2>3
    <2> QED
      BY <1>2, <2>0, <2>1, <2>5, <2>6 DEF ServersAfter, o
  <1>8. S1 \in Seq(AnyJob) /\ S2 \in Seq(AnyJob) /\ main \in Seq(AnyJob) /\ CallJobs(r) \in Seq(AnyJob)
    BY <1>3, <1>4, <1>5, <1>6 DEF OtherJob
  <1>9. ServersAfter(r, Len(Early(r)), Calls(r))
    <2> HIDE DEF S1
    <2>1. ServersAfter(r, Len(Early(r)), S2)
      BY <1>4, <1>7, ServersAppend
    <2> HIDE DEF S2
    <2> QED
      BY <1>1, <1>5, <2>1, ServersAppend
  <1>10. ASSUME NEW x, Holding(S2, x) PROVE Holding(Calls(r), x)
    <2> HIDE DEF S2
    <2> QED
      BY <1>1, <1>8, <1>10, ConcatHolds
  <1>11. ASSUME NEW x, Holding(S1, x) \/ Holding(main, x) PROVE Holding(S2, x)
    <2> HIDE DEF S1
    <2> QED
      BY <1>8, <1>11, ConcatHolds
  <1>12. ASSUME NEW x, Holding(Early(r), x) PROVE Holding(S1, x)
    BY <1>3, <1>6, <1>12, ConcatHolds
  <1> HIDE DEF S1, S2
  <1> QED
    BY <1>4, <1>9, <1>10, <1>11, <1>12, EarlyCalls

-----------------------------------------------------------------------------
(* What the calls before the n-th make of the files *)

Before(r, n, f) == {i \in Writers(r, f) : i < n}

\* The text of file f before the n-th call, if no call is half done.
Wanted(old, r, n, pb, f) ==
    IF Before(r, n, f) = {} \/ (old[f] # Missing /\ ~Forced(f)) THEN old[f]
    ELSE Text(r, Calls(r)[IF Forced(f) THEN LastOf(Before(r, n, f)) ELSE FirstOf(Before(r, n, f))], pb)

\* The states of a file differ.
LEMMA ContentsDiffer ==
  /\ Missing # Empty /\ Missing # Edited /\ Empty # Edited
  /\ \A r, j, pb : j.kind \in {"etc", "config", "svc", "logic", "server", "main", "call"} =>
       Text(r, j, pb).kind = j.kind /\ Text(r, j, pb) \notin {Missing, Empty, Edited}
  <1>1. /\ Missing.kind = "missing" /\ Empty.kind = "empty" /\ Edited.kind = "edited"
    BY DEF Missing, Empty, Edited
  <1>2. ASSUME NEW r, NEW j, NEW pb,
               j.kind \in {"etc", "config", "svc", "logic", "server", "main", "call"}
        PROVE  Text(r, j, pb).kind = j.kind
    BY <1>2 DEF Text, LogicText, ServerText, CallText, MainText
  <1> QED
    BY <1>1, <1>2

LEMMA FileJobKinds ==
  ASSUME NEW r \in ValidRequest, NEW i \in FileJobs(r)
  PROVE  /\ i \in 1..Len(Calls(r)) /\ i \in Nat
         /\ Calls(r)[i].kind \in {"etc", "config", "svc", "logic", "server", "main", "call"}
  <1>1. OnePb(Calls(r)) /\ i \in 1..Len(Calls(r)) /\ Calls(r)[i].kind # "pb"
    BY CallsHaveOnePb, CallsKnown DEF FileJobs
  <1>2. Calls(r)[i] \in FileJob \cup {PbJob}
    BY <1>1 DEF OnePb
  <1>3. PbJob.kind = "pb"
    BY DEF PbJob, JobOf
  <1>4. Calls(r)[i] \in FileJob
    BY <1>1, <1>2, <1>3
  <1> QED
    BY <1>1, <1>4, CallsKnown DEF FileJob

\* The first and the last of several calls exist, and are the only such.
LEMMA FirstAndLast ==
  ASSUME NEW m \in Nat, NEW S \in SUBSET (0..m), S # {}
  PROVE  /\ FirstOf(S) \in S /\ \A k \in S : FirstOf(S) <= k
         /\ LastOf(S) \in S /\ \A k \in S : k <= LastOf(S)
  <1>1. \E i \in S : \A k \in S : i <= k
    <2>1. S \in SUBSET Nat
      OBVIOUS
    <2> QED
      BY <2>1, Least
  <1>2. \E i \in S : \A k \in S : k <= i
    BY Greatest
  <1> QED
    BY <1>1, <1>2 DEF FirstOf, LastOf

LEMMA BeforeStep ==
  ASSUME NEW r \in ValidRequest, NEW n \in 1..Len(Calls(r)), NEW f
  PROVE  /\ Before(r, n, f) \in SUBSET (0..Len(Calls(r)))
         /\ \A i \in Before(r, n, f) : i < n /\ i \in FileJobs(r)
         /\ n # PbAt(r) /\ FileOf(r, Calls(r)[n]) = f => Before(r, n + 1, f) = Before(r, n, f) \cup {n}
         /\ n = PbAt(r) \/ FileOf(r, Calls(r)[n]) # f => Before(r, n + 1, f) = Before(r, n, f)
  <1>1. \A i \in FileJobs(r) : i \in 1..Len(Calls(r))
    BY FileJobKinds
  <1>2. n \in FileJobs(r) <=> n # PbAt(r)
    BY CallsKnown
  <1>3. Len(Calls(r)) \in Nat
    BY CallsKnown
  <1>4. \A i \in FileJobs(r) : i < n + 1 <=> i < n \/ i = n
    BY <1>1, <1>3
  <1> QED
    BY <1>1, <1>2, <1>3, <1>4 DEF Before, Writers

\* A call does not change the files of others.
LEMMA WantedElsewhere ==
  ASSUME NEW old, NEW r \in ValidRequest, NEW n \in 1..Len(Calls(r)), NEW pb, NEW f,
         n = PbAt(r) \/ FileOf(r, Calls(r)[n]) # f
  PROVE  Wanted(old, r, n + 1, pb, f) = Wanted(old, r, n, pb, f)
  BY BeforeStep DEF Wanted

\* A call that is not forced keeps a file that exists.
LEMMA WantedKept ==
  ASSUME NEW old, NEW r \in ValidRequest, NEW n \in 1..Len(Calls(r)), NEW pb, NEW f,
         n # PbAt(r), FileOf(r, Calls(r)[n]) = f,
         ~Forced(f), Wanted(old, r, n, pb, f) # Missing
  PROVE  Wanted(old, r, n + 1, pb, f) = Wanted(old, r, n, pb, f)
  <1> DEFINE B == Before(r, n, f)
             C == Before(r, n + 1, f)
             m == Len(Calls(r))
  <1>1. B \in SUBSET (0..m) /\ C = B \cup {n} /\ \A i \in B : i < n
    BY BeforeStep
  <1>2. m \in Nat /\ n \in 0..m
    BY CallsKnown
  <1> HIDE DEF B, C, m
  <1>3. CASE old[f] # Missing
    BY <1>3 DEF Wanted
  <1>4. CASE old[f] = Missing
    <2>1. B # {} /\ C # {}
      BY <1>1, <1>4 DEF Wanted, B
    <2>2. C \in SUBSET (0..m)
      BY <1>1, <1>2
    <2>3. /\ FirstOf(B) \in B /\ \A k \in B : FirstOf(B) <= k
          /\ FirstOf(C) \in C /\ \A k \in C : FirstOf(C) <= k
      BY <1>1, <1>2, <2>1, <2>2, FirstAndLast
    <2>4. FirstOf(C) = FirstOf(B)
      <3>1. FirstOf(C) <= FirstOf(B) /\ FirstOf(B) < n
        BY <1>1, <2>3
      <3>2. FirstOf(C) \in 0..m /\ FirstOf(B) \in 0..m
        BY <1>1, <2>2, <2>3
      <3>3. FirstOf(C) \in B
        BY <1>1, <1>2, <2>3, <3>1, <3>2
      <3> QED
        BY <1>2, <2>3, <3>1, <3>2, <3>3
    <2> QED
      BY <1>4, <2>1, <2>4 DEF Wanted, B, C
  <1> QED
    BY <1>3, <1>4

\* A call that is forced, or that finds its file missing, writes it.
LEMMA WantedWritten ==
  ASSUME NEW old, NEW r \in ValidRequest, NEW n \in 1..Len(Calls(r)), NEW pb, NEW f,
         n # PbAt(r), FileOf(r, Calls(r)[n]) = f,
         Forced(f) \/ Wanted(old, r, n, pb, f) = Missing
  PROVE  Wanted(old, r, n + 1, pb, f) = Text(r, Calls(r)[n], pb)
  <1> DEFINE B == Before(r, n, f)
             C == Before(r, n + 1, f)
             m == Len(Calls(r))
  <1>1. B \in SUBSET (0..m) /\ C = B \cup {n} /\ \A i \in B : i < n /\ i \in FileJobs(r)
    BY BeforeStep
  <1>2. m \in Nat /\ n \in 0..m
    BY CallsKnown
  <1> HIDE DEF B, C, m
  <1>3. CASE Forced(f)
    <2>1. C # {} /\ C \in SUBSET (0..m)
      BY <1>1, <1>2
    <2>2. LastOf(C) \in C /\ n <= LastOf(C)
      BY <1>1, <1>2, <2>1, FirstAndLast
    <2>3. LastOf(C) = n
      <3>1. LastOf(C) \in 0..m
        BY <2>1, <2>2
      <3>2. LastOf(C) \notin B
        BY <1>1, <1>2, <2>2, <3>1
      <3> QED
        BY <1>1, <2>2, <3>2
    <2> QED
      BY <1>3, <2>1, <2>3 DEF Wanted, C
  <1>4. CASE ~Forced(f)
    <2>1. B = {}
      <3>1. ASSUME B # {} PROVE FALSE
        <4>1. FirstOf(B) \in B
          BY <1>1, <1>2, <3>1, FirstAndLast
        <4>2. Calls(r)[FirstOf(B)].kind \in {"etc", "config", "svc", "logic", "server", "main", "call"}
          BY <1>1, <4>1, FileJobKinds
        <4>3. Text(r, Calls(r)[FirstOf(B)], pb) # Missing
          BY <4>2, ContentsDiffer
        <4> QED
          BY <1>4, <3>1, <4>3 DEF Wanted, B
      <3> QED
        BY <3>1
    <2>2. old[f] = Missing
      BY <1>4, <2>1 DEF Wanted, B
    <2>3. C = {n}
      BY <1>1, <2>1
    <2>4. FirstOf({n}) = n
      BY <1>2 DEF FirstOf
    <2> QED
      BY <1>4, <2>2, <2>3, <2>4 DEF Wanted, C
  <1> QED
    BY <1>3, <1>4

\* Before genPbDirect has been called no text depends on what it finds.
LEMMA WantedBeforePb ==
  ASSUME NEW old, NEW r \in ValidRequest, NEW pb, NEW qb, NEW f
  PROVE  Wanted(old, r, PbAt(r), pb, f) = Wanted(old, r, PbAt(r), qb, f)
  <1> DEFINE B == Before(r, PbAt(r), f)
             m == Len(Calls(r))
  <1>1. m \in Nat /\ PbAt(r) \in 1..m
    BY CallsKnown
  <1>2. B \in SUBSET (0..m) /\ \A i \in B : i < PbAt(r) /\ i \in FileJobs(r)
    BY <1>1, BeforeStep
  <1> HIDE DEF B, m
  <1>3. ASSUME NEW i \in B PROVE Text(r, Calls(r)[i], pb) = Text(r, Calls(r)[i], qb)
    <2>1. i \in 1..(PbAt(r) - 1)
      BY <1>1, <1>2, <1>3, FileJobKinds
    <2>2. Calls(r)[i].kind = "etc"
      BY <2>1, CallsKnown
    <2> QED
      BY <2>2 DEF Text
  <1>4. B # {} => FirstOf(B) \in B /\ LastOf(B) \in B
    BY <1>1, <1>2, FirstAndLast
  <1> QED
    BY <1>3, <1>4 DEF Wanted, B

\* All the calls together are the one step Generated.
LEMMA WantedInTheEnd ==
  ASSUME NEW old, NEW r \in ValidRequest, NEW pb, NEW f \in File
  PROVE  /\ Wanted(old, r, Len(Calls(r)) + 1, pb, f) = Generated(old, r, pb)[f]
         /\ Wanted(old, r, 1, pb, f) = old[f]
  <1>1. Before(r, Len(Calls(r)) + 1, f) = Writers(r, f)
    BY CallsKnown, FileJobKinds DEF Before, Writers
  <1>2. Before(r, 1, f) = {}
    BY FileJobKinds DEF Before, Writers
  <1>3. f \notin FilesOf(r) <=> Writers(r, f) = {}
    BY DEF FilesOf, Writers
  <1> QED
    BY <1>1, <1>2, <1>3 DEF Wanted, Generated

-----------------------------------------------------------------------------
(* The inductive invariant *)

\* A run forgets the last success; setPbDir looks for pb files when protoc has run.
RunAtHand ==
    /\ Running => done = None
    /\ Running /\ open /\ Job.kind = "pb" => input.proto.pkg \in pbs

\* pb files are other protos' or what some version of this one made.
PbsKnown == pbs \subseteq ForeignPb \cup {p.pkg : p \in Proto}

\* From setPbDir on the directory is that of the first pb file.
PbFound ==
    /\ Running /\ at > PbAt(input) => pbDir = FindPbFile(pbs) /\ input.proto.pkg \in pbs
    /\ done # None => pbDir = FindPbFile(pbs) /\ done.proto.pkg \in pbs

HalfWritten(f) == Running /\ open /\ Job.kind # "pb" /\ Current = f

\* Between two calls every file has the text that the calls so far give it; a file that is
\* being written is empty and was to be written.
FilesAsWanted ==
    Running =>
      \A f \in File :
        IF HalfWritten(f)
        THEN fs[f] = Empty /\ (Forced(f) \/ Wanted(before, input, at, pbDir, f) = Missing)
        ELSE fs[f] = Wanted(before, input, at, pbDir, f)

Inv ==
    /\ RunAtHand
    /\ PbsKnown
    /\ PbFound
    /\ FilesAsWanted
    /\ RunGenerates

LEMMA CallAtHand ==
  ASSUME TypeOK, AtCall
  PROVE  /\ input \in ValidRequest /\ at \in 1..Len(Calls(input)) /\ at + 1 \in 1..(Len(Calls(input)) + 1)
         /\ Job.kind = "pb" <=> at = PbAt(input)
         /\ Job.kind # "pb" => at \in FileJobs(input) /\ Current \in File
         /\ at < PbAt(input) => Job.kind = "etc"
         /\ PbAt(input) \in 1..Len(Calls(input)) /\ Len(Calls(input)) \in Nat
  <1>1. input \in ValidRequest /\ at \in Nat /\ at \in 1..(Len(Calls(input)) + 1)
    BY DEF TypeOK, AtCall, Running
  <1>2. at \in 1..Len(Calls(input)) /\ at + 1 \in 1..(Len(Calls(input)) + 1)
    BY <1>1, CallsKnown DEF AtCall
  <1>3. Job.kind # "pb" => at \in FileJobs(input)
    BY <1>1, <1>2, CallsKnown DEF FileJobs, Job
  <1>4. at \in FileJobs(input) => Current \in File
    BY <1>1 DEF File, FilesOf, Current, Job
  <1>5. at < PbAt(input) => at \in 1..(PbAt(input) - 1)
    BY <1>1, <1>2, CallsKnown
  <1> QED
    BY <1>1, <1>2, <1>3, <1>4, <1>5, CallsKnown DEF Job

\* findPbFile finds the first.
LEMMA FirstPb ==
  ASSUME NEW found, found \subseteq PbPath, found # {}
  PROVE  FindPbFile(found) \in found /\ \A q \in found : FindPbFile(found) <= q
  <1>1. found \in SUBSET Nat
    BY RpcGenAssumption
  <1>2. \E p \in found : \A q \in found : p <= q
    BY <1>1, Least
  <1> QED
    BY <1>2 DEF FindPbFile

\* What a call writes is a content.
LEMMA TextIsContent ==
  ASSUME TypeOK, AtCall, Job.kind # "pb", PbFound
  PROVE  Text(input, Job, pbDir) \in Content
  <1>1. input \in ValidRequest /\ at \in FileJobs(input) /\ input.proto.pkg \in PbPath
    BY CallAtHand, ServicesKnown, RpcGenAssumption
  <1>2. \A pb \in PbPath : Text(input, Job, pb) \in Content
    BY <1>1 DEF Content, Job
  <1>3. CASE at < PbAt(input)
    <2>1. Job.kind = "etc"
      BY <1>3, CallAtHand
    <2>2. Text(input, Job, pbDir) = Text(input, Job, input.proto.pkg)
      BY <2>1 DEF Text
    <2> QED
      BY <1>1, <1>2, <2>2
  <1>4. CASE at > PbAt(input)
    <2>1. pbDir = FindPbFile(pbs) /\ pbs # {} /\ pbs \subseteq PbPath
      BY <1>4 DEF PbFound, TypeOK, AtCall
    <2> QED
      BY <1>2, <2>1, FirstPb
  <1> QED
    BY <1>3, <1>4, CallAtHand

-----------------------------------------------------------------------------
(* Types *)

LEMMA InitTypeOK == Init => TypeOK
  <1> SUFFICES ASSUME Init PROVE TypeOK
    OBVIOUS
  <1>1. Missing \in Content
    BY DEF Content
  <1>2. fs \in [File -> Content]
    BY <1>1 DEF Init
  <1>3. ~Running
    BY DEF Init, Running
  <1> QED
    BY <1>2, <1>3, RpcGenAssumption DEF Init, TypeOK

LEMMA NextTypeOK ==
  ASSUME TypeOK, RunAtHand, PbFound, FilesAsWanted, [Next]_vars
  PROVE  TypeOK'
  <1>0. ~Running => ~open
    BY DEF TypeOK, AtCall
  <1>c. Missing \in Content /\ Empty \in Content /\ Edited \in Content
    BY DEF Content
  <1>n. None \notin ValidRequest
    BY RpcGenAssumption DEF ValidRequest
  <1>1. ASSUME NEW mode \in Modes, Start(mode) PROVE TypeOK'
    <2>1. input' \in ValidRequest /\ at' = 1 /\ Running'
      BY <1>1, <1>n DEF Start, TypeOK, ValidRequest, Request, Running
    <2>2. at' \in 1..(Len(Calls(input')) + 1)
      BY <2>1, CallsKnown
    <2> QED
      BY <1>0, <1>1, <2>1, <2>2 DEF Start, TypeOK, Running
  <1>2. CASE RunProtoc
    <2>1. input \in ValidRequest /\ input.proto.pkg \in PbPath
      BY <1>2, CallAtHand, ServicesKnown, RpcGenAssumption DEF RunProtoc
    <2>2. AtCall' = AtCall /\ Running' = Running
      BY <1>2 DEF RunProtoc, AtCall, Running
    <2> QED
      BY <1>2, <2>1, <2>2 DEF RunProtoc, TypeOK
  <1>3. CASE SetPbDir
    <2>1. input.proto.pkg \in pbs /\ Running
      BY <1>3 DEF SetPbDir, RunAtHand, AtCall
    <2>2. FindPbFile(pbs) \in PbPath
      BY <2>1, FirstPb DEF TypeOK
    <2>3. at' \in 1..(Len(Calls(input)) + 1) /\ at' \in Nat
      BY <1>3, CallAtHand DEF SetPbDir, TypeOK
    <2> QED
      BY <1>3, <2>1, <2>2, <2>3 DEF SetPbDir, TypeOK, Running
  <1>4. CASE Skip
    <2>1. at' \in 1..(Len(Calls(input)) + 1) /\ at' \in Nat
      BY <1>4, CallAtHand DEF Skip, TypeOK
    <2> QED
      BY <1>4, <2>1 DEF Skip, TypeOK, Running, AtCall
  <1>5. CASE Truncate
    <2>1. AtCall' = AtCall /\ Running' = Running
      BY <1>5 DEF Truncate, AtCall, Running
    <2>2. fs' = [fs EXCEPT ![Current] = Empty] /\ AtCall
      BY <1>5 DEF Truncate
    <2>3. fs' \in [File -> Content] /\ \A f \in File : fs[f] = Empty => fs'[f] = Empty
      BY <1>c, <2>2 DEF TypeOK
    <2> QED
      BY <1>5, <2>1, <2>2, <2>3 DEF Truncate, TypeOK
  <1>6. CASE Write
    <2>1. at' \in 1..(Len(Calls(input)) + 1) /\ at' \in Nat
      BY <1>6, CallAtHand DEF Write, TypeOK
    <2>2. Text(input, Job, pbDir) \in Content
      BY <1>6, TextIsContent DEF Write
    <2>3. /\ fs' \in [File -> Content]
          /\ \A f \in File : f # Current => fs'[f] = fs[f]
      BY <1>6, <2>2 DEF Write, TypeOK
    <2>4. torn' \subseteq {f \in File : fs'[f] = Empty}
      BY <1>6, <2>3 DEF Write, TypeOK
    <2> QED
      BY <1>6, <2>1, <2>3, <2>4 DEF Write, TypeOK, Running, AtCall
  <1>7. CASE Finish
    <2>1. input \in ValidRequest /\ ~AtCall
      BY <1>7, CallsKnown DEF Finish, TypeOK, Running, AtCall
    <2> QED
      BY <1>7, <2>1 DEF Finish, TypeOK, Running
  <1>8. CASE RefuseOutput
    BY <1>8 DEF RefuseOutput, TypeOK, Running
  <1>9. CASE Fail
    <2>1. open /\ Job.kind # "pb" => Current \in File /\ fs[Current] = Empty
      BY <1>9, CallAtHand DEF Fail, FilesAsWanted, HalfWritten, AtCall
    <2> QED
      BY <1>9, <2>1 DEF Fail, TypeOK, Running
  <1>10. ASSUME NEW f \in File, EditFile(f) \/ DeleteFile(f) PROVE TypeOK'
    <2>1. fs' \in [File -> Content] /\ \A g \in File : g # f => fs'[g] = fs[g]
      BY <1>10, <1>c DEF EditFile, DeleteFile, TypeOK
    <2>2. torn' \subseteq {g \in File : fs'[g] = Empty}
      BY <1>10, <2>1 DEF EditFile, DeleteFile, TypeOK
    <2> QED
      BY <1>0, <1>10, <2>1, <2>2 DEF EditFile, DeleteFile, UserStep, TypeOK, Running
  <1>11. ASSUME NEW p \in PbPath, DeletePb(p) PROVE TypeOK'
    BY <1>0, <1>11 DEF DeletePb, UserStep, TypeOK, Running
  <1>12. CASE ChangeProto
    BY <1>0, <1>12 DEF ChangeProto, UserStep, TypeOK, Running
  <1>13. CASE UNCHANGED vars
    BY <1>13 DEF vars, TypeOK, Running, AtCall
  <1> QED
    BY <1>1, <1>2, <1>3, <1>4, <1>5, <1>6, <1>7, <1>8, <1>9, <1>10, <1>11, <1>12, <1>13
    DEF Next, Generate

-----------------------------------------------------------------------------
(* pb files *)

\* The steps between two runs.
UserSteps ==
    \/ \E f \in File : EditFile(f) \/ DeleteFile(f)
    \/ \E p \in PbPath : DeletePb(p)
    \/ ChangeProto

LEMMA UserStepsFrame ==
  ASSUME UserSteps
  PROVE  /\ ~Running /\ ~Running' /\ done' = None
         /\ pbs' \subseteq pbs
  BY DEF UserSteps, EditFile, DeleteFile, DeletePb, ChangeProto, UserStep, Running

LEMMA NextPbs ==
  ASSUME TypeOK, RunAtHand, PbsKnown, PbFound, [Next]_vars
  PROVE  RunAtHand' /\ PbsKnown' /\ PbFound'
  <1>0. ~Running => ~open
    BY DEF TypeOK, AtCall
  <1>1. ASSUME NEW mode \in Modes, Start(mode) PROVE RunAtHand' /\ PbsKnown' /\ PbFound'
    <2>1. input' \in ValidRequest /\ at' = 1 /\ ~open' /\ done' = None /\ pbs' = pbs
      BY <1>0, <1>1 DEF Start, TypeOK, ValidRequest, Request, Running
    <2>2. ~(at' > PbAt(input'))
      BY <2>1, CallsKnown
    <2> QED
      BY <2>1, <2>2 DEF RunAtHand, PbsKnown, PbFound
  <1>2. CASE RunProtoc
    <2>1. Running /\ input \in ValidRequest /\ at = PbAt(input) /\ UNCHANGED <<input, at, done>>
      BY <1>2, CallAtHand DEF RunProtoc, AtCall
    <2>2. input.proto \in Proto /\ ~(at > PbAt(input))
      BY <2>1, ServicesKnown, CallsKnown
    <2> QED
      BY <1>2, <2>1, <2>2 DEF RunProtoc, RunAtHand, PbsKnown, PbFound
  <1>3. CASE SetPbDir
    <2>1. Running /\ input.proto.pkg \in pbs
      BY <1>3 DEF SetPbDir, AtCall, RunAtHand
    <2> QED
      BY <1>3, <2>1 DEF SetPbDir, RunAtHand, PbsKnown, PbFound, Running
  <1>4. ASSUME Skip \/ Truncate \/ Write PROVE RunAtHand' /\ PbsKnown' /\ PbFound'
    <2>1. /\ AtCall /\ Job.kind # "pb" /\ UNCHANGED <<input, pbs, pbDir, done>>
          /\ (UNCHANGED at \/ at' = at + 1)
      BY <1>4 DEF Skip, Truncate, Write
    <2>2. at > PbAt(input) \/ at < PbAt(input)
      BY <2>1, CallAtHand
    <2>3. at' > PbAt(input) => at > PbAt(input)
      BY <2>1, <2>2, CallAtHand
    <2>4. open' => Job' = Job
      BY <1>4 DEF Skip, Truncate, Write, Job
    <2> QED
      BY <2>1, <2>3, <2>4 DEF RunAtHand, PbsKnown, PbFound, Running
  <1>5. CASE Finish
    <2>1. Running /\ input \in ValidRequest /\ at = Len(Calls(input)) + 1
      BY <1>5 DEF Finish, TypeOK, Running
    <2>2. at > PbAt(input)
      BY <2>1, CallsKnown
    <2> QED
      BY <1>5, <2>1, <2>2 DEF Finish, RunAtHand, PbsKnown, PbFound, Running
  <1>6. ASSUME RefuseOutput \/ Fail PROVE RunAtHand' /\ PbsKnown' /\ PbFound'
    BY <1>6 DEF RefuseOutput, Fail, AtCall, RunAtHand, PbsKnown, PbFound, Running
  <1>7. CASE UserSteps
    BY <1>7, UserStepsFrame DEF RunAtHand, PbsKnown, PbFound
  <1>8. CASE UNCHANGED vars
    BY <1>8 DEF vars, RunAtHand, PbsKnown, PbFound, Running, Job
  <1> QED
    BY <1>1, <1>2, <1>3, <1>4, <1>5, <1>6, <1>7, <1>8 DEF Next, Generate, UserSteps

-----------------------------------------------------------------------------
(* Files *)

LEMMA NextFiles ==
  ASSUME TypeOK, RunAtHand, PbFound, FilesAsWanted, [Next]_vars
  PROVE  FilesAsWanted'
  <1>0. ~Running => ~open
    BY DEF TypeOK, AtCall
  <1>1. ASSUME NEW mode \in Modes, Start(mode) PROVE FilesAsWanted'
    <2>1. input' \in ValidRequest /\ at' = 1 /\ ~open' /\ before' = fs /\ fs' = fs
      BY <1>0, <1>1 DEF Start, TypeOK, ValidRequest, Request, Running
    <2>2. \A f \in File : Wanted(before', input', at', pbDir', f) = fs'[f]
      BY <2>1, WantedInTheEnd
    <2> QED
      BY <2>1, <2>2 DEF FilesAsWanted, HalfWritten
  <1>2. CASE RunProtoc
    <2>1. /\ ~open /\ Job.kind = "pb" /\ Job' = Job /\ Running' = Running
          /\ UNCHANGED <<fs, input, at, pbDir, before>>
      BY <1>2 DEF RunProtoc, Job, Running
    <2>2. \A f : ~HalfWritten(f) /\ ~HalfWritten(f)'
      BY <2>1 DEF HalfWritten
    <2> QED
      BY <2>1, <2>2 DEF FilesAsWanted
  <1>3. CASE SetPbDir
    <2>1. /\ AtCall /\ Job.kind = "pb" /\ ~open' /\ at' = at + 1 /\ UNCHANGED <<fs, input, before>>
          /\ Running /\ at = PbAt(input) /\ input \in ValidRequest /\ at \in 1..Len(Calls(input))
      BY <1>3, CallAtHand DEF SetPbDir, AtCall
    <2>2. \A f : ~HalfWritten(f) /\ ~HalfWritten(f)'
      BY <2>1 DEF HalfWritten
    <2>3. ASSUME NEW f \in File PROVE fs'[f] = Wanted(before', input', at', pbDir', f)
      <3>1. fs[f] = Wanted(before, input, at, pbDir, f)
        BY <2>1, <2>2 DEF FilesAsWanted
      <3>2. Wanted(before, input, at, pbDir, f) = Wanted(before, input, at, pbDir', f)
        BY <2>1, WantedBeforePb
      <3>3. Wanted(before, input, at + 1, pbDir', f) = Wanted(before, input, at, pbDir', f)
        BY <2>1, WantedElsewhere
      <3> QED
        BY <2>1, <3>1, <3>2, <3>3
    <2> QED
      BY <2>2, <2>3 DEF FilesAsWanted
  <1>4. ASSUME Skip \/ Truncate \/ Write
        PROVE  /\ AtCall /\ Running /\ Running' /\ input \in ValidRequest /\ at \in 1..Len(Calls(input))
               /\ at # PbAt(input) /\ Current = FileOf(input, Calls(input)[at]) /\ Current \in File
               /\ Job.kind # "pb" /\ UNCHANGED <<input, pbDir, before>>
    <2>1. AtCall /\ Job.kind # "pb" /\ UNCHANGED <<input, pbDir, before>>
      BY <1>4 DEF Skip, Truncate, Write
    <2> QED
      BY <2>1, CallAtHand DEF AtCall, Running, Current, Job
  <1>5. CASE Skip
    <2>1. ~open /\ ~open' /\ at' = at + 1 /\ fs' = fs /\ ~Forced(Current) /\ fs[Current] # Missing
      BY <1>5 DEF Skip
    <2>2. \A f : ~HalfWritten(f) /\ ~HalfWritten(f)'
      BY <2>1 DEF HalfWritten
    <2>3. ASSUME NEW f \in File PROVE fs'[f] = Wanted(before', input', at', pbDir', f)
      <3>1. fs[f] = Wanted(before, input, at, pbDir, f)
        BY <1>4, <1>5, <2>2 DEF FilesAsWanted
      <3>2. CASE f = Current
        <4>1. /\ input \in ValidRequest /\ at \in 1..Len(Calls(input)) /\ at # PbAt(input)
              /\ FileOf(input, Calls(input)[at]) = f
          BY <1>4, <1>5, <3>2
        <4>2. ~Forced(f) /\ Wanted(before, input, at, pbDir, f) # Missing
          BY <2>1, <3>1, <3>2
        <4>3. Wanted(before, input, at + 1, pbDir, f) = Wanted(before, input, at, pbDir, f)
          BY ONLY <4>1, <4>2, WantedKept
        <4> QED
          BY <1>4, <1>5, <2>1, <3>1, <4>3
      <3>3. CASE f # Current
        BY <1>4, <1>5, <2>1, <3>1, <3>3, WantedElsewhere
      <3> QED
        BY <3>2, <3>3
    <2> QED
      BY <2>2, <2>3 DEF FilesAsWanted
  <1>6. CASE Truncate
    <2>1. /\ ~open /\ open' /\ UNCHANGED at /\ Job' = Job /\ Current' = Current
          /\ Forced(Current) \/ fs[Current] = Missing
          /\ fs' = [fs EXCEPT ![Current] = Empty]
      BY <1>6 DEF Truncate, Job, Current
    <2>2. \A f : ~HalfWritten(f) /\ (HalfWritten(f)' <=> f = Current)
      BY <1>4, <1>6, <2>1 DEF HalfWritten
    <2>3. \A f \in File : fs[f] = Wanted(before, input, at, pbDir, f)
      BY <1>4, <1>6, <2>2 DEF FilesAsWanted
    <2>4. fs'[Current] = Empty /\ \A f \in File : f # Current => fs'[f] = fs[f]
      BY <1>4, <1>6, <2>1 DEF TypeOK
    <2>5. ASSUME NEW f \in File
          PROVE  IF f = Current
                 THEN fs'[f] = Empty /\ (Forced(f) \/ Wanted(before', input', at', pbDir', f) = Missing)
                 ELSE fs'[f] = Wanted(before', input', at', pbDir', f)
      BY <1>4, <1>6, <2>1, <2>3, <2>4
    <2> QED
      BY <2>2, <2>5 DEF FilesAsWanted
  <1>7. CASE Write
    <2>1. /\ open /\ ~open' /\ at' = at + 1
          /\ fs' = [fs EXCEPT ![Current] = Text(input, Job, pbDir)]
      BY <1>7 DEF Write
    <2>2. \A f : (HalfWritten(f) <=> f = Current) /\ ~HalfWritten(f)'
      BY <1>4, <1>7, <2>1 DEF HalfWritten
    <2>3. /\ fs'[Current] = Text(input, Calls(input)[at], pbDir)
          /\ \A f \in File : f # Current => fs'[f] = fs[f]
      BY <1>4, <1>7, <2>1 DEF TypeOK, Job
    <2>4. ASSUME NEW f \in File PROVE fs'[f] = Wanted(before', input', at', pbDir', f)
      <3>1. CASE f = Current
        <4>1. Forced(f) \/ Wanted(before, input, at, pbDir, f) = Missing
          BY <1>4, <1>7, <2>2, <3>1 DEF FilesAsWanted
        <4>2. /\ input \in ValidRequest /\ at \in 1..Len(Calls(input)) /\ at # PbAt(input)
              /\ FileOf(input, Calls(input)[at]) = f
          BY <1>4, <1>7, <3>1
        <4>3. Wanted(before, input, at + 1, pbDir, f) = Text(input, Calls(input)[at], pbDir)
          BY ONLY <4>1, <4>2, WantedWritten, ZenonT(30)
        <4> QED
          BY <1>4, <1>7, <2>1, <2>3, <3>1, <4>3
      <3>2. CASE f # Current
        <4>1. fs[f] = Wanted(before, input, at, pbDir, f)
          BY <1>4, <1>7, <2>2, <3>2 DEF FilesAsWanted
        <4>2. Wanted(before, input, at + 1, pbDir, f) = Wanted(before, input, at, pbDir, f)
          BY <1>4, <1>7, <3>2, WantedElsewhere
        <4> QED
          BY <1>4, <1>7, <2>1, <2>3, <3>2, <4>1, <4>2
      <3> QED
        BY <3>1, <3>2
    <2> QED
      BY <2>2, <2>4 DEF FilesAsWanted
  <1>8. ASSUME Finish \/ RefuseOutput \/ Fail \/ UserSteps PROVE FilesAsWanted'
    BY <1>8, UserStepsFrame DEF Finish, RefuseOutput, Fail, FilesAsWanted, Running
  <1>9. CASE UNCHANGED vars
    <2>1. Running' = Running /\ \A f : HalfWritten(f)' = HalfWritten(f)
      BY <1>9 DEF vars, Running, HalfWritten, Job, Current
    <2> QED
      BY <1>9, <2>1 DEF vars, FilesAsWanted
  <1> QED
    BY <1>1, <1>2, <1>3, <1>5, <1>6, <1>7, <1>8, <1>9 DEF Next, Generate, UserSteps

\* A run that succeeds has made Generated of the files it found.
LEMMA NextGenerated ==
  ASSUME TypeOK, RunAtHand, FilesAsWanted, RunGenerates, [Next]_vars
  PROVE  RunGenerates'
  <1>1. CASE Finish
    <2>1. /\ Running /\ input \in ValidRequest /\ at = Len(Calls(input)) + 1
          /\ done' = input /\ UNCHANGED <<fs, before, pbDir>>
      BY <1>1 DEF Finish, TypeOK, Running
    <2>2. ~open
      BY <2>1, CallsKnown DEF TypeOK, AtCall
    <2>3. ASSUME NEW f \in File PROVE fs[f] = Generated(before, input, pbDir)[f]
      <3>1. fs[f] = Wanted(before, input, at, pbDir, f)
        BY <2>1, <2>2 DEF FilesAsWanted, HalfWritten
      <3>2. input \in ValidRequest
        BY <2>1
      <3>3. Wanted(before, input, Len(Calls(input)) + 1, pbDir, f) = Generated(before, input, pbDir)[f]
        BY ONLY <3>2, WantedInTheEnd, ZenonT(30)
      <3> QED
        BY <2>1, <3>1, <3>3
    <2>4. fs = [f \in File |-> fs[f]] /\
          Generated(before, input, pbDir) = [f \in File |-> Generated(before, input, pbDir)[f]]
      BY DEF TypeOK, Generated
    <2>5. fs = Generated(before, input, pbDir)
      BY <2>3, <2>4
    <2> QED
      BY <2>1, <2>5 DEF RunGenerates
  <1>2. ASSUME \E mode \in Modes : Start(mode) PROVE done' = None
    BY <1>2 DEF Start
  <1>3. ASSUME RunProtoc \/ SetPbDir \/ RefuseOutput \/ Skip \/ Truncate \/ Write \/ Fail
        PROVE  done' = None
    BY <1>3 DEF RunProtoc, SetPbDir, RefuseOutput, Skip, Truncate, Write, Fail, AtCall, RunAtHand
  <1>4. ASSUME UserSteps PROVE done' = None
    BY <1>4, UserStepsFrame
  <1>5. CASE UNCHANGED vars
    BY <1>5 DEF vars, RunGenerates
  <1> QED
    BY <1>1, <1>2, <1>3, <1>4, <1>5 DEF Next, Generate, UserSteps, RunGenerates

-----------------------------------------------------------------------------
(* Theorems *)

LEMMA InitInv == Init => Inv
  BY DEF Init, Inv, RunAtHand, PbsKnown, PbFound, FilesAsWanted, RunGenerates, Running

\* In every state of a run each file has the text that the calls so far give it, whatever
\* the user has done before and however many runs were cut off.
THEOREM GenerateInvariant == Spec => [](TypeOK /\ Inv)
  <1>1. Init => TypeOK /\ Inv
    BY InitTypeOK, InitInv
  <1>2. ASSUME TypeOK, Inv, [Next]_vars PROVE (TypeOK /\ Inv)'
    BY <1>2, NextTypeOK, NextPbs, NextFiles, NextGenerated DEF Inv
  <1> QED
    BY <1>1, <1>2, PTL DEF Spec

\* The types of the generator's state hold for every proto file and every user.
THEOREM TypesHold == Spec => []TypeOK
  BY GenerateInvariant, PTL

\* A run of `goctl rpc protoc` that succeeds is the one step Generated.
THEOREM RunsGenerate == Spec => []RunGenerates
  <1>1. Inv => RunGenerates
    BY DEF Inv
  <1> QED
    BY <1>1, GenerateInvariant, PTL

\* After a run that succeeds the generated code imports the package protoc has just
\* written, or that of a pb file which comes before it in the walk and is another
\* proto's or an older version's.
THEOREM PbExplained == Spec => []PbIsOwnUnlessOlder
  <1>1. ASSUME TypeOK, Inv PROVE PbIsOwnUnlessOlder
    <2> SUFFICES ASSUME done # None, pbDir # done.proto.pkg
                 PROVE  /\ pbDir \in pbs /\ pbDir < done.proto.pkg
                        /\ pbDir \in ForeignPb \/ \E p \in Proto \ {done.proto} : p.pkg = pbDir
      BY DEF PbIsOwnUnlessOlder
    <2>1. pbDir = FindPbFile(pbs) /\ done.proto.pkg \in pbs /\ pbs \subseteq PbPath
      BY <1>1 DEF Inv, PbFound, TypeOK
    <2>2. pbDir \in pbs /\ pbDir <= done.proto.pkg
      BY <2>1, FirstPb
    <2>3. pbDir \in Nat /\ done.proto.pkg \in Nat
      BY <2>1, <2>2, RpcGenAssumption
    <2>4. pbDir \in ForeignPb \/ \E p \in Proto : p.pkg = pbDir
      BY <1>1, <2>2 DEF Inv, PbsKnown
    <2> QED
      BY <2>2, <2>3, <2>4
  <1> QED
    BY <1>1, GenerateInvariant, PTL

\* No run ever changes what the user has written, except in server and client files.
THEOREM RunsKeepEdits == Spec => EditsSurvive
  <1> DEFINE Kept == Running => \A f \in File : fs[f] = Edited => fs'[f] = Edited \/ Forced(f)
  <1>1. ASSUME TypeOK, Inv, [Next]_vars PROVE Kept
    <2> SUFFICES ASSUME Running, NEW f \in File, fs[f] = Edited
                 PROVE  fs'[f] = Edited \/ Forced(f)
      OBVIOUS
    <2>1. CASE UNCHANGED fs
      BY <2>1
    <2>2. CASE Truncate
      <3>1. Forced(Current) \/ fs[Current] # Edited
        BY <2>2, ContentsDiffer DEF Truncate
      <3> QED
        BY <1>1, <2>2, <3>1 DEF Truncate, TypeOK
    <2>3. CASE Write
      <3>1. AtCall /\ open /\ Job.kind # "pb"
        BY <2>3 DEF Write
      <3>2. fs[Current] = Empty
        BY <1>1, <3>1, CallAtHand DEF Inv, FilesAsWanted, HalfWritten
      <3> QED
        BY <1>1, <2>3, <3>2, ContentsDiffer DEF Write, TypeOK
    <2>4. ~UserSteps
      BY UserStepsFrame
    <2> QED
      BY <1>1, <2>1, <2>2, <2>3, <2>4
      DEF Next, Generate, UserSteps, Start, RunProtoc, SetPbDir, RefuseOutput, Skip, Finish, Fail, vars
  <1>2. ASSUME TypeOK, Inv, [Next]_vars PROVE [Kept]_vars
    BY <1>1, <1>2
  <1> QED
    BY <1>2, GenerateInvariant, PTL DEF Spec, EditsSurvive
-----------------------------------------------------------------------------
(* Every rpc is served *)

\* A file is empty only while it is being written or since a run was cut off writing it.
EmptyTorn == \A f \in File : fs[f] = Empty => f \in torn \/ HalfWritten(f)

LEMMA NextEmpty ==
  ASSUME TypeOK, EmptyTorn, [Next]_vars
  PROVE  EmptyTorn'
  <1>0. (~Running => ~open) /\ fs \in [File -> Content]
    BY DEF TypeOK, AtCall
  <1>1. ASSUME NEW mode \in Modes, Start(mode) PROVE EmptyTorn'
    <2>1. /\ ~open /\ UNCHANGED <<fs, torn>>
          /\ \A f : ~HalfWritten(f)
      BY <1>0, <1>1 DEF Start, Running, HalfWritten
    <2> QED
      BY <2>1 DEF EmptyTorn
  <1>2. ASSUME RunProtoc \/ SetPbDir \/ RefuseOutput PROVE EmptyTorn'
    <2>1. Job.kind = "pb" /\ UNCHANGED <<fs, torn>>
      BY <1>2 DEF RunProtoc, SetPbDir, RefuseOutput
    <2>2. \A f : ~HalfWritten(f)
      BY <2>1 DEF HalfWritten
    <2> QED
      BY <2>1, <2>2 DEF EmptyTorn
  <1>3. CASE Skip
    <2>1. ~open /\ UNCHANGED <<fs, torn>> /\ \A f : ~HalfWritten(f)
      BY <1>3 DEF Skip, HalfWritten
    <2> QED
      BY <2>1 DEF EmptyTorn
  <1>4. CASE Truncate
    <2>1. /\ ~open /\ open' /\ Job.kind # "pb" /\ Running /\ UNCHANGED <<input, at, torn>>
          /\ fs' = [fs EXCEPT ![Current] = Empty]
      BY <1>4 DEF Truncate, AtCall
    <2>2. Running' /\ Job' = Job /\ Current' = Current
      BY <2>1 DEF Running, Job, Current
    <2>3. HalfWritten(Current)' /\ \A f : ~HalfWritten(f)
      BY <2>1, <2>2 DEF HalfWritten
    <2>4. \A f \in File : f # Current => fs'[f] = fs[f]
      BY <1>0, <2>1
    <2>5. \A f : f = Current => HalfWritten(f)'
      BY <2>1, <2>2 DEF HalfWritten
    <2> QED
      BY <2>1, <2>3, <2>4, <2>5 DEF EmptyTorn
  <1>5. CASE Write
    <2>1. /\ AtCall /\ Job.kind # "pb" /\ torn' = torn \ {Current}
          /\ fs' = [fs EXCEPT ![Current] = Text(input, Job, pbDir)]
      BY <1>5 DEF Write
    <2>2. Current \in File /\ Text(input, Job, pbDir) # Empty
      <3>1. input \in ValidRequest /\ at \in FileJobs(input) /\ Current \in File
        BY <2>1, CallAtHand
      <3> QED
        BY <3>1, FileJobKinds, ContentsDiffer DEF Job
    <2>3. ASSUME NEW f \in File, fs'[f] = Empty PROVE f \in torn'
      <3>1. f # Current /\ fs[f] = Empty
        BY <1>0, <2>1, <2>2, <2>3
      <3>2. ~HalfWritten(f)
        BY <3>1 DEF HalfWritten
      <3> QED
        BY <2>1, <3>1, <3>2 DEF EmptyTorn
    <2> QED
      BY <2>3 DEF EmptyTorn
  <1>6. CASE Finish
    <2>1. ~AtCall
      BY <1>6, CallsKnown DEF Finish, TypeOK, Running, AtCall
    <2>2. ~open /\ UNCHANGED <<fs, torn>> /\ \A f : ~HalfWritten(f)
      BY <1>6, <2>1 DEF Finish, TypeOK, HalfWritten
    <2> QED
      BY <2>2 DEF EmptyTorn
  <1>7. CASE Fail
    <2>1. ASSUME NEW f \in File, fs'[f] = Empty PROVE f \in torn'
      <3>1. fs[f] = Empty
        BY <1>7, <2>1 DEF Fail
      <3>2. f \in torn \/ (open /\ Job.kind # "pb" /\ Current = f)
        BY <3>1 DEF EmptyTorn, HalfWritten
      <3> QED
        BY <1>7, <3>2 DEF Fail
    <2> QED
      BY <2>1 DEF EmptyTorn
  <1>8. CASE UserSteps
    <2>1. \A f : ~HalfWritten(f)
      BY <1>8, UserStepsFrame DEF HalfWritten
    <2>2. ASSUME NEW g \in File, EditFile(g) \/ DeleteFile(g) PROVE EmptyTorn'
      <3>1. torn' = torn \ {g} /\ fs'[g] # Empty /\ \A f \in File : f # g => fs'[f] = fs[f]
        BY <1>0, <2>2, ContentsDiffer DEF EditFile, DeleteFile
      <3> QED
        BY <2>1, <3>1 DEF EmptyTorn
    <2>3. ASSUME UNCHANGED <<fs, torn>> PROVE EmptyTorn'
      BY <2>1, <2>3 DEF EmptyTorn
    <2> QED
      BY <1>8, <2>2, <2>3 DEF UserSteps, DeletePb, ChangeProto
  <1>9. CASE UNCHANGED vars
    <2>1. \A f : HalfWritten(f)' = HalfWritten(f)
      BY <1>9 DEF vars, Running, HalfWritten, Job, Current
    <2> QED
      BY <1>9, <2>1 DEF vars, EmptyTorn
  <1> QED
    BY <1>1, <1>2, <1>3, <1>4, <1>5, <1>6, <1>7, <1>8, <1>9 DEF Next, Generate, UserSteps

\* A file's name starts with the kind of the call that generates it.
LEMMA FileKinds ==
  ASSUME NEW r, NEW j
  PROVE  FileOf(r, j)[1] = j.kind
  BY DEF FileOf

\* The calls that generate a file are of one kind, and the first and the last are among them.
LEMMA WritersKnown ==
  ASSUME NEW r \in ValidRequest, NEW i \in FileJobs(r), NEW f, f = FileOf(r, Calls(r)[i])
  PROVE  /\ f \in File /\ f \in FilesOf(r) /\ i \in Writers(r, f)
         /\ \A k \in Writers(r, f) : k \in FileJobs(r) /\ Calls(r)[k].kind = Calls(r)[i].kind
         /\ LastOf(Writers(r, f)) \in Writers(r, f) /\ FirstOf(Writers(r, f)) \in Writers(r, f)
         /\ i <= LastOf(Writers(r, f))
  <1>1. f \in FilesOf(r) /\ f \in File /\ i \in Writers(r, f)
    BY DEF FilesOf, File, Writers
  <1>2. ASSUME NEW k \in Writers(r, f)
        PROVE  k \in FileJobs(r) /\ Calls(r)[k].kind = Calls(r)[i].kind
    BY <1>2, FileKinds DEF Writers
  <1>3. Writers(r, f) \in SUBSET (0..Len(Calls(r))) /\ Len(Calls(r)) \in Nat
    BY <1>2, FileJobKinds, CallsKnown
  <1> HIDE DEF Writers
  <1> QED
    BY <1>1, <1>2, <1>3, FirstAndLast

\* What a run has made of the server of the b-th service.
LEMMA ServerGenerated ==
  ASSUME NEW old, NEW r \in ValidRequest, NEW pb, NEW b \in Services(r),
         NEW f, f = FileOf(r, JobOf("server", b, 0))
  PROVE  \E c \in Services(r) :
           /\ c = b \/ c > b
           /\ FileOf(r, JobOf("server", c, 0)) = f
           /\ f \in File
           /\ Generated(old, r, pb)[f] = ServerText(r, JobOf("server", c, 0), pb)
  <1>1. PICK o : ServersAfter(r, o, Calls(r))
    BY CallsOfServices
  <1>2. PICK m \in Nat : m = Len(r.proto.services) /\ Services(r) = 1..m
    BY ServicesKnown
  <1>3. o \in Nat /\ o + b \in 1..Len(Calls(r)) /\ Calls(r)[o + b] = JobOf("server", b, 0)
    BY <1>1, <1>2, CallsKnown DEF ServersAfter
  <1>4. JobOf("server", b, 0).kind = "server"
    BY DEF JobOf
  <1>5. o + b \in FileJobs(r)
    BY <1>3, <1>4, CallsKnown DEF FileJobs
  <1> DEFINE l == LastOf(Writers(r, f))
  <1>6. /\ f \in File /\ f \in FilesOf(r) /\ l \in Writers(r, f) /\ l \in FileJobs(r)
        /\ Calls(r)[l].kind = "server" /\ o + b <= l
    BY <1>3, <1>4, <1>5, WritersKnown
  <1>7. l \in 1..Len(Calls(r)) /\ l \in Nat /\ FileOf(r, Calls(r)[l]) = f
    BY <1>6, FileJobKinds DEF Writers
  <1>8. Forced(f)
    BY <1>4, FileKinds DEF Forced
  <1>9. Generated(old, r, pb)[f] = Text(r, Calls(r)[l], pb)
    BY <1>6, <1>8 DEF Generated
  <1> HIDE DEF l
  <1>10. l - o \in Services(r)
    BY <1>1, <1>6, <1>7 DEF ServersAfter
  <1>11. Calls(r)[o + (l - o)] = JobOf("server", l - o, 0) /\ o + (l - o) = l
    BY <1>1, <1>3, <1>7, <1>10 DEF ServersAfter
  <1>12. l - o = b \/ l - o > b
    BY <1>2, <1>3, <1>6, <1>7
  <1>13. Text(r, JobOf("server", l - o, 0), pb) = ServerText(r, JobOf("server", l - o, 0), pb)
    BY DEF Text, JobOf
  <1> QED
    BY <1>6, <1>7, <1>9, <1>10, <1>11, <1>12, <1>13

\* The logic file of the k-th rpc of the b-th service.
LogicFile(r, b, k) ==
    <<"logic", DirOf(r, r.proto.services[b].name), FileName[r.proto.services[b].rpcs[k].name]>>

\* Text t is what a run of r makes of that file.
IsLogicOf(old, t, r, b, k) ==
    LET m == r.proto.services[b].rpcs[k]
        f == LogicFile(r, b, k) IN
    /\ f \in File
    /\ t # Missing
    /\ \/ old[f] # Missing /\ t = old[f]
       \/ old[f] = Missing /\ t # Empty /\ t.kind = "logic" /\ t.name = m.name /\ t.stream = m.stream
       \/ old[f] = Missing /\ t # Empty /\ \E i, n \in Writers(r, f) : i # n

\* What a run has made of the logic of the k-th rpc of the b-th service.
LEMMA LogicGenerated ==
  ASSUME NEW old, NEW r \in ValidRequest, NEW pb, NEW b \in Services(r),
         NEW k \in DOMAIN r.proto.services[b].rpcs
  PROVE  IsLogicOf(old, Generated(old, r, pb)[LogicFile(r, b, k)], r, b, k)
  <1>0. PICK m : m = r.proto.services[b].rpcs[k]
    OBVIOUS
  <1>f. PICK f : f = LogicFile(r, b, k) /\ f = <<"logic", DirOf(r, r.proto.services[b].name), FileName[m.name]>>
    BY <1>0 DEF LogicFile
  <1> DEFINE j == JobOf("logic", b, k)
  <1>1. PICK i \in 1..Len(Calls(r)) : Calls(r)[i] = j
    BY CallsOfServices DEF Holding
  <1>2. j.kind = "logic" /\ ServiceOf(r, j) = r.proto.services[b] /\ RpcOf(r, j) = m
    BY <1>0 DEF JobOf, ServiceOf, RpcOf
  <1>3. FileOf(r, j) = f
    BY <1>2, <1>f DEF FileOf
  <1>4. Text(r, j, pb).kind = "logic" /\ Text(r, j, pb).name = m.name /\ Text(r, j, pb).stream = m.stream
    BY <1>2 DEF Text, LogicText
  <1> HIDE DEF j
  <1>5. i \in FileJobs(r)
    BY <1>1, <1>2, CallsKnown DEF FileJobs
  <1>6. /\ f \in File /\ f \in FilesOf(r) /\ i \in Writers(r, f)
        /\ FirstOf(Writers(r, f)) \in Writers(r, f)
        /\ \A n \in Writers(r, f) : n \in FileJobs(r) /\ Calls(r)[n].kind = "logic"
    BY <1>1, <1>2, <1>3, <1>5, WritersKnown
  <1>7. ~Forced(f)
    BY <1>f DEF Forced
  <1> DEFINE t == Generated(old, r, pb)[f]
             Goal == /\ f \in File
                     /\ t # Missing
                     /\ \/ old[f] # Missing /\ t = old[f]
                        \/ /\ old[f] = Missing /\ t # Empty
                           /\ t.kind = "logic" /\ t.name = m.name /\ t.stream = m.stream
                        \/ old[f] = Missing /\ t # Empty /\ \E i1, n \in Writers(r, f) : i1 # n
  <1>8. ASSUME old[f] # Missing PROVE Goal
    <2>1. Generated(old, r, pb)[f] = old[f]
      BY <1>6, <1>7, <1>8 DEF Generated
    <2> QED
      BY <1>6, <1>8, <2>1
  <1>9. ASSUME old[f] = Missing PROVE Goal
    <2> DEFINE n == FirstOf(Writers(r, f))
    <2>1. Generated(old, r, pb)[f] = Text(r, Calls(r)[n], pb)
      BY <1>6, <1>7, <1>9 DEF Generated
    <2>2. Text(r, Calls(r)[n], pb) # Missing /\ Text(r, Calls(r)[n], pb) # Empty
      <3>1. Calls(r)[n].kind \in {"etc", "config", "svc", "logic", "server", "main", "call"}
        BY <1>6
      <3> HIDE DEF n
      <3> QED
        BY <3>1, ContentsDiffer
    <2> HIDE DEF n
    <2>3. CASE n = i
      BY <1>1, <1>4, <1>6, <1>9, <2>1, <2>2, <2>3
    <2>4. CASE n # i
      BY <1>6, <1>9, <2>1, <2>2, <2>4 DEF n
    <2> QED
      BY <2>3, <2>4
  <1>10. Goal
    BY <1>8, <1>9
  <1> HIDE DEF t
  <1> QED
    BY <1>0, <1>f, <1>10 DEF IsLogicOf, t

\* What a run has made of main.
LEMMA MainGenerated ==
  ASSUME NEW old, NEW r \in ValidRequest, NEW pb
  PROVE  LET f == <<"main">>
             t == Generated(old, r, pb)[f] IN
         /\ f \in File
         /\ old[f] = Missing => t = MainText(r, pb)
  <1> DEFINE f == <<"main">>
             j == JobOf("main", 0, 0)
  <1>1. PICK i \in 1..Len(Calls(r)) : Calls(r)[i] = j
    BY CallsOfServices DEF Holding
  <1>2. j.kind = "main" /\ FileOf(r, j) = f
    BY DEF JobOf, FileOf
  <1> HIDE DEF j
  <1>3. i \in FileJobs(r)
    BY <1>1, <1>2, CallsKnown DEF FileJobs
  <1>4. /\ f \in File /\ f \in FilesOf(r) /\ FirstOf(Writers(r, f)) \in Writers(r, f)
        /\ \A n \in Writers(r, f) : Calls(r)[n].kind = "main"
    <2> HIDE DEF f
    <2> QED
      BY <1>1, <1>2, <1>3, WritersKnown
  <1>5. ~Forced(f)
    BY DEF Forced
  <1> HIDE DEF f
  <1>6. ASSUME old[f] = Missing PROVE Generated(old, r, pb)[f] = MainText(r, pb)
    <2>1. Generated(old, r, pb)[f] = Text(r, Calls(r)[FirstOf(Writers(r, f))], pb)
      BY <1>4, <1>5, <1>6 DEF Generated
    <2> QED
      BY <1>4, <2>1 DEF Text
  <1> QED
    BY <1>4, <1>6 DEF f

\* After a run that succeeds every service has its server, every method of a server finds
\* its logic and every server that main registers is there, but for files that were there
\* before, that two rpcs share or that a killed run left empty: for every proto file, every
\* user and however many runs were cut off.
THEOREM RpcsServed == Spec => []EveryRpcServed
  <1>1. Init => EmptyTorn
    BY ContentsDiffer DEF Init, EmptyTorn
  <1>2. ASSUME TypeOK, EmptyTorn, [Next]_vars PROVE EmptyTorn'
    BY <1>2, NextEmpty
  <1>3. ASSUME TypeOK, Inv, EmptyTorn PROVE EveryRpcServed
    <2> SUFFICES ASSUME done # None PROVE EveryRpcServed
      BY DEF EveryRpcServed
    <2>1. done \in ValidRequest /\ ~Running /\ fs = Generated(before, done, pbDir)
      BY <1>3 DEF TypeOK, Inv, RunAtHand, RunGenerates
    <2>2. \A f \in File : fs[f] = Empty => f \in torn
      BY <1>3, <2>1 DEF EmptyTorn, HalfWritten
    <2>3. ASSUME NEW b \in Services(done)
          PROVE  LET j == JobOf("server", b, 0)
                     t == fs[FileOf(done, j)]
                 IN  /\ t.kind = "server"
                     /\ \/ t.service = ServiceOf(done, j).name
                        \/ \E c \in Services(done) :
                             c > b /\ FileOf(done, JobOf("server", c, 0)) = FileOf(done, j)
                     /\ \A m \in t.methods :
                          LET f == <<"logic", t.logic, FileName[m.name]>> IN
                          /\ fs[f] # Missing
                          /\ fs[f] = Empty => f \in torn
                          /\ \/ fs[f].kind = "logic" /\ fs[f].name = m.name /\ fs[f].stream = m.stream
                             \/ before[f] # Missing
                             \/ \E i, k \in Writers(done, f) : i # k
      <3> DEFINE j == JobOf("server", b, 0)
                 t == fs[FileOf(done, j)]
      <3>1. PICK c \in Services(done) :
              /\ c = b \/ c > b
              /\ FileOf(done, JobOf("server", c, 0)) = FileOf(done, j)
              /\ t = ServerText(done, JobOf("server", c, 0), pbDir)
        BY <2>1, ServerGenerated
      <3> HIDE DEF t
      <3>2. ServiceOf(done, JobOf("server", c, 0)) = done.proto.services[c]
        BY DEF ServiceOf, JobOf
      <3>3. /\ t.kind = "server"
            /\ t.service = ServiceOf(done, JobOf("server", c, 0)).name
            /\ t.logic = DirOf(done, done.proto.services[c].name)
            /\ t.methods = {done.proto.services[c].rpcs[k] : k \in DOMAIN done.proto.services[c].rpcs}
        BY <3>1, <3>2 DEF ServerText, ToSet
      <3>4. ASSUME NEW m \in t.methods,
                   NEW f, f = <<"logic", t.logic, FileName[m.name]>>
            PROVE  /\ fs[f] # Missing
                   /\ fs[f] = Empty => f \in torn
                   /\ \/ fs[f].kind = "logic" /\ fs[f].name = m.name /\ fs[f].stream = m.stream
                      \/ before[f] # Missing
                      \/ \E i, k \in Writers(done, f) : i # k
        <4>1. PICK k \in DOMAIN done.proto.services[c].rpcs : m = done.proto.services[c].rpcs[k]
          BY <3>3
        <4>2. f = LogicFile(done, c, k)
          BY <3>3, <3>4, <4>1 DEF LogicFile
        <4>3. IsLogicOf(before, fs[f], done, c, k)
          BY <2>1, <4>1, <4>2, LogicGenerated
        <4> QED
          BY <2>2, <4>1, <4>2, <4>3 DEF IsLogicOf
      <3> QED
        BY <3>1, <3>3, <3>4 DEF t
    <2>4. LET t == fs[<<"main">>] IN
          /\ t = Empty => <<"main">> \in torn
          /\ t.kind # "main" \/ before[<<"main">>] # Missing \/
               \A e \in t.registers : fs[<<"server", e.dir, FileName[e.service]>>].kind = "server"
      <3> DEFINE t == fs[<<"main">>]
      <3>1. <<"main">> \in File /\ (before[<<"main">>] = Missing => t = MainText(done, pbDir))
        BY <2>1, MainGenerated
      <3> HIDE DEF t
      <3>2. ASSUME before[<<"main">>] = Missing, NEW e \in t.registers
            PROVE  fs[<<"server", e.dir, FileName[e.service]>>].kind = "server"
        <4>1. t.registers = {[service |-> done.proto.services[b].name,
                              dir |-> DirOf(done, done.proto.services[b].name)] : b \in Services(done)}
          BY <3>1, <3>2 DEF MainText
        <4>2. PICK b \in Services(done) : /\ e.service = done.proto.services[b].name
                                          /\ e.dir = DirOf(done, done.proto.services[b].name)
          BY <3>2, <4>1
        <4>3. FileOf(done, JobOf("server", b, 0)) = <<"server", e.dir, FileName[e.service]>>
          BY <4>2 DEF FileOf, JobOf, ServiceOf
        <4> QED
          BY <2>3, <4>3
      <3> QED
        BY <2>2, <3>1, <3>2 DEF t
    <2> QED
      BY <2>3, <2>4 DEF EveryRpcServed
  <1> QED
    BY <1>1, <1>2, <1>3, GenerateInvariant, PTL DEF Spec


==============================================================================
