----------------------------- MODULE StackProofs -----------------------------
(***************************************************************************)
(* What holds of the running stack for every number of replicas, every     *)
(* sequence of LogFiles and every number of disruptions.                   *)
(***************************************************************************)
EXTENDS Stack, FiniteSetTheorems, SequenceTheorems, TLAPS

Master == "elasticsearch-master"
Zookeeper == "kafka-cluster-zookeeper"
Broker == "kafka-cluster"

USE DEF Master, Zookeeper, Broker

-----------------------------------------------------------------------------
(* Steps on one pod. *)

\* The step makes r of pod o of s and touches no other pod.
Becomes(s, o, r) ==
    /\ DOMAIN pod' = StatefulSets
    /\ pod'[s] = [pod[s] EXCEPT ![o] = r]
    /\ pod'[s][o] = r
    /\ \A q \in Ordinals(s) \ {o} : pod'[s][q] = pod[s][q]
    /\ \A t \in StatefulSets \ {s} : pod'[t] = pod[t]

LEMMA PodChange ==
    ASSUME TypeOK, NEW s \in StatefulSets, NEW o \in Ordinals(s), NEW r,
           pod' = [pod EXCEPT ![s][o] = r]
    PROVE  Becomes(s, o, r)
<1>1. \A t \in StatefulSets : DOMAIN pod[t] = Ordinals(t)
  BY DEF TypeOK
<1>2. DOMAIN pod' = StatefulSets
  BY DEF TypeOK
<1>3. pod'[s] = [pod[s] EXCEPT ![o] = r]
  BY DEF TypeOK
<1>4. \A t \in StatefulSets \ {s} : pod'[t] = pod[t]
  BY DEF TypeOK
<1>5. pod'[s][o] = r
  BY <1>1, <1>3
<1>6. \A q \in Ordinals(s) \ {o} : pod'[s][q] = pod[s][q]
  BY <1>1, <1>3
<1>. QED BY <1>2, <1>3, <1>4, <1>5, <1>6 DEF Becomes

\* What the steps make of a pod.
Fresh(g) == [NoPod EXCEPT !.phase = "starting", !.of = g]

InPhase(p, phase) == [p EXCEPT !.phase = phase]

Counted(p, ready, streak, marker) ==
    [p EXCEPT !.ready = ready, !.streak = streak, !.marker = marker]

LEMMA PodTypes ==
    ASSUME TypeOK, NEW s \in StatefulSets, NEW o \in Ordinals(s)
    PROVE  /\ pod[s][o] \in PodRecords
           /\ NoPod \in PodRecords
           /\ \A g \in 0 .. generation : Fresh(g) \in PodRecords
           /\ Fresh(pod[s][o].of) \in PodRecords
           /\ \A phase \in {"running", "member"} :
                InPhase(pod[s][o], phase) \in PodRecords
           /\ \A ready, marker \in BOOLEAN : \A streak \in Nat :
                Counted(pod[s][o], ready, streak, marker) \in PodRecords
<1>0. generation \in Nat
  <2>1. Len(plan.logfiles) \in Nat
    BY PlansAssumption, LenProperties DEF TypeOK
  <2>. QED BY <2>1 DEF TypeOK
<1>1. pod[s][o] \in PodRecords
  BY DEF TypeOK
<1>2. NoPod \in PodRecords
  BY <1>0 DEF NoPod, PodRecords
<1>3. \A g \in 0 .. generation : Fresh(g) \in PodRecords
  BY <1>0 DEF Fresh, NoPod, PodRecords
<1>4. Fresh(pod[s][o].of) \in PodRecords
  BY <1>1, <1>3 DEF PodRecords
<1>5. \A phase \in {"running", "member"} :
         InPhase(pod[s][o], phase) \in PodRecords
  BY <1>1 DEF InPhase, PodRecords
<1>6. \A ready, marker \in BOOLEAN : \A streak \in Nat :
         Counted(pod[s][o], ready, streak, marker) \in PodRecords
  BY <1>1 DEF Counted, PodRecords
<1>. QED BY <1>1, <1>2, <1>3, <1>4, <1>5, <1>6

LEMMA CreatePodStep ==
    ASSUME TypeOK, NEW s \in StatefulSets, NEW o \in Ordinals(s),
           CreatePod(s, o, generation)
    PROVE  Becomes(s, o, Fresh(generation))
<1>1. pod' = [pod EXCEPT ![s][o] = Fresh(generation)]
  BY DEF CreatePod, Fresh
<1>. QED BY <1>1, PodChange

LEMMA StartStep ==
    ASSUME TypeOK, NEW s \in StatefulSets, NEW o \in Ordinals(s), Start(s, o)
    PROVE  Becomes(s, o, InPhase(pod[s][o], "running"))
<1>1. pod' = [pod EXCEPT ![s][o].phase = "running"]
  BY DEF Start
<1>2. pod' = [pod EXCEPT ![s][o] = InPhase(pod[s][o], "running")]
  BY <1>1 DEF InPhase, TypeOK
<1>. QED BY <1>2, PodChange

LEMMA JoinStep ==
    ASSUME TypeOK, NEW s \in StatefulSets, NEW o \in Ordinals(s), Join(s, o)
    PROVE  Becomes(s, o, InPhase(pod[s][o], "member"))
<1>1. pod' = [pod EXCEPT ![s][o].phase = "member"]
  BY DEF Join
<1>2. pod' = [pod EXCEPT ![s][o] = InPhase(pod[s][o], "member")]
  BY <1>1 DEF InPhase, TypeOK
<1>. QED BY <1>2, PodChange

LEMMA ProbeStep ==
    ASSUME TypeOK, NEW s \in StatefulSets, NEW o \in Ordinals(s), Probe(s, o)
    PROVE  \E passed \in ProbeAnswers(s, o), ready \in BOOLEAN, streak \in Nat :
             LET marker == pod[s][o].marker \/ (s = Master /\ passed) IN
             /\ passed \in BOOLEAN
             /\ Becomes(s, o, Counted(pod[s][o], ready, streak, marker))
             /\ ready => passed \/ pod[s][o].ready
             /\ pod[s][o].ready /\ ~ready => ~passed
<1>. DEFINE p == pod[s][o]
            count(passed) == IF passed = p.ready THEN 0 ELSE p.streak + 1
            turns(passed) == count(passed) = IF passed THEN SuccessThreshold(s)
                                             ELSE FailureThreshold(s)
            ready(passed) == IF turns(passed) THEN passed ELSE p.ready
            streak(passed) == IF turns(passed) THEN 0 ELSE count(passed)
            marker(passed) == p.marker \/ (s = Master /\ passed)
<1>1. PICK passed \in ProbeAnswers(s, o) :
         pod' = [pod EXCEPT ![s][o] =
                   [p EXCEPT !.ready = ready(passed),
                             !.streak = streak(passed),
                             !.marker = marker(passed)]]
  BY DEF Probe
<1>2. p \in PodRecords
  BY PodTypes
<1>3. passed \in BOOLEAN
  <2>1. HasQuorum(s) \in BOOLEAN
    BY DEF HasQuorum, IsMajority
  <2>2. (p.phase = "member" /\ HasQuorum(s) /\ green) \in BOOLEAN
    OBVIOUS
  <2>. QED BY <2>1, <2>2, Zenon DEF ProbeAnswers
<1>4. ready(passed) \in BOOLEAN /\ streak(passed) \in Nat
  BY <1>2, <1>3 DEF PodRecords
<1>5. Becomes(s, o, Counted(p, ready(passed), streak(passed), marker(passed)))
  BY <1>1, PodChange DEF Counted
<1>6. ready(passed) => passed \/ p.ready
  OBVIOUS
<1>7. p.ready /\ ~ready(passed) => ~passed
  BY <1>2, <1>3 DEF PodRecords
<1>. QED BY <1>3, <1>4, <1>5, <1>6, <1>7

LEMMA CrashStep ==
    ASSUME TypeOK, NEW s \in StatefulSets, NEW o \in Ordinals(s), Crash(s, o)
    PROVE  Becomes(s, o, Fresh(pod[s][o].of))
<1>1. pod' = [pod EXCEPT ![s][o] = Fresh(pod[s][o].of)]
  BY DEF Crash, Fresh
<1>. QED BY <1>1, PodChange

LEMMA RemoveStep ==
    ASSUME TypeOK, NEW s \in StatefulSets, NEW o \in Ordinals(s),
           RemovePod(s, o)
    PROVE  Becomes(s, o, NoPod) /\ UNCHANGED <<volume, store>>
<1>1. pod' = [pod EXCEPT ![s][o] = NoPod] /\ UNCHANGED <<volume, store>>
  BY DEF RemovePod, OnClaim
<1>. QED BY <1>1, PodChange

-----------------------------------------------------------------------------
(* What a start writes on the volume and tells Zookeeper. *)

VolumesTyped ==
    /\ DOMAIN volume' = StatefulSets
    /\ \A t \in StatefulSets : volume'[t] \in [Ordinals(t) -> Identities]

OthersKept(s, o) ==
    \A t \in StatefulSets : \A q \in Ordinals(t) :
        t # s \/ q # o => volume'[t][q] = volume[t][q]

VolumeBecomes(s, o, r) ==
    VolumesTyped /\ OthersKept(s, o) /\ volume'[s][o] = r

LEMMA VolumeChange ==
    ASSUME TypeOK, NEW s \in StatefulSets, NEW o \in Ordinals(s),
           NEW r \in Identities, volume' = [volume EXCEPT ![s][o] = r]
    PROVE  VolumeBecomes(s, o, r)
<1>1. \A t \in StatefulSets : volume[t] \in [Ordinals(t) -> Identities]
  BY DEF TypeOK
<1>2. DOMAIN volume' = StatefulSets
  BY DEF TypeOK
<1>3. volume'[s] = [volume[s] EXCEPT ![o] = r]
  BY DEF TypeOK
<1>4. \A t \in StatefulSets \ {s} : volume'[t] = volume[t]
  BY DEF TypeOK
<1>5. volume'[s][o] = r /\ volume'[s] \in [Ordinals(s) -> Identities]
  BY <1>1, <1>3
<1>6. \A q \in Ordinals(s) \ {o} : volume'[s][q] = volume[s][q]
  BY <1>1, <1>3
<1>7. VolumesTyped
  BY <1>1, <1>2, <1>4, <1>5 DEF VolumesTyped
<1>8. OthersKept(s, o)
  BY <1>4, <1>6 DEF OthersKept
<1>. QED BY <1>5, <1>7, <1>8 DEF VolumeBecomes

LEMMA ServerIdType ==
    ASSUME TypeOK, NEW s \in StatefulSets, NEW o \in Ordinals(s)
    PROVE  ServerId(s, o) \in Nat
<1>1. volume[s][o] \in Identities
  BY DEF TypeOK
<1>2. o \in Nat
  BY ReplicasAssumption DEF Ordinals
<1>. QED BY <1>1, <1>2 DEF ServerId, Identities

StartWrites(s, o) ==
    /\ VolumesTyped
    /\ OthersKept(s, o)
    /\ DOMAIN store' = StatefulSets
    /\ s \in {Zookeeper, Broker} => volume'[s][o].id = ServerId(s, o)
    /\ s # Broker => store' = store
    /\ s = Broker => /\ BrokerAccepted(o)
                     /\ volume'[s][o].cluster = store'[Zookeeper]
                     /\ store'[Zookeeper] = IF store[Zookeeper] = None
                                            THEN pod[s][o].of
                                            ELSE store[Zookeeper]

LEMMA StartWritesVolume ==
    ASSUME TypeOK, NEW s \in StatefulSets, NEW o \in Ordinals(s), Start(s, o)
    PROVE  StartWrites(s, o)
<1>1. CASE s \in {"elasticsearch", Master}
  <2>1. UNCHANGED <<volume, store>>
    BY <1>1 DEF Start
  <2>2. VolumesTyped /\ OthersKept(s, o)
    BY <2>1 DEF TypeOK, VolumesTyped, OthersKept
  <2>. QED BY <1>1, <2>1, <2>2 DEF StartWrites, TypeOK
<1>2. CASE s = Zookeeper
  <2>. DEFINE r == [id |-> ServerId(s, o), cluster |-> volume[s][o].cluster]
  <2>1. volume[s][o] \in Identities
    BY DEF TypeOK
  <2>2. r \in Identities
    BY <2>1, ServerIdType DEF Identities
  <2>3. volume' = [volume EXCEPT ![s][o].id = ServerId(s, o)] /\ store' = store
    BY <1>2 DEF Start
  <2>4. [volume[s][o] EXCEPT !.id = ServerId(s, o)] = r
    BY <2>1 DEF Identities
  <2>5. volume' = [volume EXCEPT ![s][o] = r]
    BY <2>3, <2>4 DEF TypeOK
  <2>. HIDE DEF r
  <2>6. VolumeBecomes(s, o, r)
    BY <2>2, <2>5, VolumeChange
  <2>. QED BY <1>2, <2>3, <2>6 DEF StartWrites, VolumeBecomes, TypeOK, r
<1>3. CASE s = Broker
  <2>. DEFINE name == IF store[Zookeeper] = None THEN pod[s][o].of
                      ELSE store[Zookeeper]
              r == [id |-> ServerId(s, o), cluster |-> name]
  <2>1. /\ BrokerAccepted(o)
        /\ store' = [store EXCEPT ![Zookeeper] = name]
        /\ volume' = [volume EXCEPT ![s][o] =
                        [id      |-> ServerId(s, o),
                         cluster |-> store'[Zookeeper]]]
    BY <1>3 DEF Start
  <2>2. DOMAIN store' = StatefulSets /\ store'[Zookeeper] = name
    BY <2>1 DEF TypeOK, StatefulSets
  <2>3. pod[s][o].of \in Nat
    <3>1. pod[s][o] \in PodRecords
      BY DEF TypeOK
    <3>. QED BY <3>1 DEF PodRecords
  <2>4. r \in Identities
    BY <2>3, ServerIdType DEF Identities, TypeOK
  <2>5. volume' = [volume EXCEPT ![s][o] = r]
    BY <2>1, <2>2
  <2>. HIDE DEF r
  <2>6. VolumeBecomes(s, o, r)
    BY <2>4, <2>5, VolumeChange
  <2>. QED BY <1>3, <2>1, <2>2, <2>6 DEF StartWrites, VolumeBecomes, r
<1>. QED BY <1>1, <1>2, <1>3 DEF StatefulSets

-----------------------------------------------------------------------------
(* Types. *)

PodsTyped ==
    /\ DOMAIN pod' = StatefulSets
    /\ \A t \in StatefulSets : pod'[t] \in [Ordinals(t) -> PodRecords]

LEMMA BecomesTyped ==
    ASSUME TypeOK, NEW s \in StatefulSets, NEW o \in Ordinals(s),
           NEW r \in PodRecords, Becomes(s, o, r)
    PROVE  PodsTyped
<1>1. \A t \in StatefulSets : pod[t] \in [Ordinals(t) -> PodRecords]
  BY DEF TypeOK
<1>2. pod'[s] = [pod[s] EXCEPT ![o] = r]
  BY DEF Becomes
<1>3. pod'[s] \in [Ordinals(s) -> PodRecords]
  BY <1>1, <1>2
<1>. QED BY <1>1, <1>3 DEF Becomes, PodsTyped

\* The conjuncts of TypeOK that the steps of pods leave alone.
UserKept == UNCHANGED <<user, jobPods>> /\ disruptions' \in Nat

LEMMA PodStepTyped ==
    ASSUME TypeOK, PodsTyped, VolumesTyped, UserKept,
           DOMAIN store' = StatefulSets, store'[Zookeeper] \in Nat \cup {None},
           green' \in BOOLEAN
    PROVE  TypeOK'
<1>1. UNCHANGED <<plan, generation, exists, calls, jobPods>>
  BY DEF UserKept, user
<1>2. PodRecords' = PodRecords
  BY <1>1 DEF PodRecords
<1>3. \A t \in StatefulSets : pod'[t] \in [Ordinals(t) -> PodRecords']
  BY <1>2 DEF PodsTyped
<1>. QED BY <1>1, <1>3 DEF TypeOK, PodsTyped, VolumesTyped, UserKept

LEMMA SameVolumesTyped ==
    ASSUME TypeOK, UNCHANGED <<volume, store>>
    PROVE  /\ VolumesTyped
           /\ DOMAIN store' = StatefulSets
           /\ store'[Zookeeper] \in Nat \cup {None}
BY DEF TypeOK, VolumesTyped

LEMMA TypeInit == Init => TypeOK
<1>. SUFFICES ASSUME Init PROVE TypeOK
  OBVIOUS
<1>1. Len(plan.logfiles) \in Nat
  BY PlansAssumption, LenProperties DEF Init
<1>2. NoPod \in PodRecords
  BY DEF Init, NoPod, PodRecords
<1>3. NoIdentity \in Identities
  BY DEF NoIdentity, Identities
<1>4. \A s \in StatefulSets : /\ pod[s] = [o \in Ordinals(s) |-> NoPod]
                              /\ volume[s] = [o \in Ordinals(s) |-> NoIdentity]
  BY DEF Init, EnsemblesInit
<1>5. \A s \in StatefulSets : /\ pod[s] \in [Ordinals(s) -> PodRecords]
                              /\ volume[s] \in [Ordinals(s) -> Identities]
  BY <1>2, <1>3, <1>4
<1>6. store[Zookeeper] = None
  BY DEF Init, EnsemblesInit, StatefulSets
<1>7. /\ DOMAIN pod = StatefulSets
      /\ DOMAIN volume = StatefulSets
      /\ DOMAIN store = StatefulSets
  BY DEF Init, EnsemblesInit
<1>8. plan \in Plans /\ jobPods = {}
  BY DEF Init
<1>9. generation = 0 /\ calls = 0 /\ disruptions = 0
  BY DEF Init
<1>10. generation \in 0 .. Len(plan.logfiles)
  BY <1>1, <1>9
<1>11. exists = FALSE /\ green = FALSE
  BY DEF Init, EnsemblesInit
<1>. QED BY <1>5, <1>6, <1>7, <1>8, <1>9, <1>10, <1>11 DEF TypeOK

LEMMA TypeNext == TypeOK /\ [Next]_vars => TypeOK'
<1>. SUFFICES ASSUME TypeOK, [Next]_vars PROVE TypeOK'
  OBVIOUS
<1>0. Len(plan.logfiles) \in Nat /\ generation \in Nat
  <2>1. Len(plan.logfiles) \in Nat
    BY PlansAssumption, LenProperties DEF TypeOK
  <2>. QED BY <2>1 DEF TypeOK
<1>1. CASE CreateLogFile
  <2>1. /\ generation' = generation + 1
        /\ generation' \in 0 .. Len(plan.logfiles)
        /\ exists' \in BOOLEAN /\ calls' \in Nat
        /\ UNCHANGED <<pod, volume, store, green, plan, jobPods, disruptions>>
    BY <1>0, <1>1 DEF CreateLogFile, ensembles, TypeOK
  <2>2. PodRecords \subseteq PodRecords'
    BY <1>0, <2>1 DEF PodRecords
  <2>3. \A s \in StatefulSets : pod[s] \in [Ordinals(s) -> PodRecords']
    BY <2>2 DEF TypeOK
  <2>4. jobPods \subseteq 1 .. generation'
    BY <1>0, <2>1 DEF TypeOK
  <2>. QED BY <2>1, <2>3, <2>4 DEF TypeOK
<1>2. CASE DeleteLogFile
  BY <1>2 DEF DeleteLogFile, ensembles, TypeOK, PodRecords
<1>3. CASE CreateWorkload
  <2>1. /\ calls' \in Nat
        /\ exists
        /\ UNCHANGED <<pod, volume, store, green, plan, generation, exists,
                       disruptions>>
    BY <1>3 DEF CreateWorkload, ensembles, TypeOK
  <2>2. generation \in 1 .. generation
    BY <1>0, <2>1 DEF TypeOK
  <2>3. jobPods' = jobPods \/ jobPods' = jobPods \cup {generation}
    BY <1>3 DEF CreateWorkload
  <2>4. jobPods' \subseteq 1 .. generation
    BY <2>2, <2>3 DEF TypeOK
  <2>. QED BY <2>1, <2>4 DEF TypeOK, PodRecords
<1>4. ASSUME NEW g \in jobPods, SetKibanaPassword(g) PROVE TypeOK'
  <2>1. /\ UNCHANGED <<pod, volume, green, user, disruptions>>
        /\ jobPods' \subseteq 1 .. generation
        /\ DOMAIN store' = StatefulSets
        /\ store'[Zookeeper] = store[Zookeeper]
    BY <1>4 DEF SetKibanaPassword, ElasticsearchOf, TypeOK, StatefulSets
  <2>. QED BY <2>1 DEF TypeOK, PodRecords, user
<1>5. ASSUME NEW g \in jobPods, KillJobPod(g) PROVE TypeOK'
  <2>1. /\ UNCHANGED <<ensembles, user, disruptions>>
        /\ jobPods' \subseteq 1 .. generation
    BY <1>5 DEF KillJobPod, TypeOK
  <2>. QED BY <2>1 DEF TypeOK, PodRecords, user, ensembles
<1>6. ASSUME NEW s \in StatefulSets, NEW o \in Ordinals(s),
             \/ NewPod(s, o) \/ KillPod(s, o) \/ Disruption(s, o)
             \/ Starts(s, o) \/ Joins(s, o) \/ Probes(s, o)
      PROVE  TypeOK'
  <2>0. generation \in 0 .. generation
    BY <1>0
  <2>1. CASE NewPod(s, o)
    <3>1. /\ CreatePod(s, o, generation)
          /\ UNCHANGED <<volume, store, green, user, jobPods, disruptions>>
      BY <2>1 DEF NewPod, CreatePod
    <3>2. PodsTyped
      BY <2>0, <3>1, CreatePodStep, PodTypes, BecomesTyped
    <3>. QED BY <3>1, <3>2, SameVolumesTyped, PodStepTyped DEF UserKept, TypeOK
  <2>2. CASE KillPod(s, o)
    <3>1. RemovePod(s, o) /\ UNCHANGED <<user, jobPods, disruptions>>
      BY <2>2 DEF KillPod
    <3>2. Becomes(s, o, NoPod) /\ UNCHANGED <<volume, store>>
      BY <3>1, RemoveStep
    <3>3. PodsTyped
      BY <3>2, PodTypes, BecomesTyped
    <3>4. green' \in BOOLEAN
      BY <3>1 DEF RemovePod, GreenWithout
    <3>. QED BY <3>1, <3>2, <3>3, <3>4, SameVolumesTyped, PodStepTyped
         DEF UserKept, TypeOK
  <2>3. CASE Disruption(s, o)
    <3>1. UserKept
      BY <2>3 DEF Disruption, UserKept, TypeOK
    <3>2. CASE Crash(s, o)
      <4>1. Becomes(s, o, Fresh(pod[s][o].of))
        BY <3>2, CrashStep
      <4>2. PodsTyped
        BY <4>1, PodTypes, BecomesTyped
      <4>3. green' \in BOOLEAN /\ UNCHANGED <<volume, store>>
        BY <3>2 DEF Crash, GreenWithout
      <4>. QED BY <3>1, <4>2, <4>3, SameVolumesTyped, PodStepTyped
    <3>3. CASE Evict(s, o)
      <4>1. Becomes(s, o, NoPod) /\ UNCHANGED <<volume, store>>
        BY <3>3, RemoveStep DEF Evict
      <4>2. PodsTyped
        BY <4>1, PodTypes, BecomesTyped
      <4>3. green' \in BOOLEAN
        BY <3>3 DEF Evict, RemovePod, GreenWithout
      <4>. QED BY <3>1, <4>1, <4>2, <4>3, SameVolumesTyped, PodStepTyped
    <3>. QED BY <2>3, <3>2, <3>3 DEF Disruption
  <2>4. CASE Starts(s, o)
    <3>1. Start(s, o) /\ UNCHANGED <<green, user, jobPods, disruptions>>
      BY <2>4 DEF Starts, Start
    <3>2. PodsTyped
      BY <3>1, StartStep, PodTypes, BecomesTyped
    <3>3. StartWrites(s, o)
      BY <3>1, StartWritesVolume
    <3>4. store'[Zookeeper] \in Nat \cup {None}
      <4>0. pod[s][o] \in PodRecords
        BY DEF TypeOK
      <4>1. pod[s][o].of \in Nat
        BY <4>0 DEF PodRecords
      <4>2. store[Zookeeper] \in Nat \cup {None}
        BY DEF TypeOK
      <4>3. CASE s = Broker
        BY <3>3, <4>1, <4>2, <4>3 DEF StartWrites
      <4>4. CASE s # Broker
        BY <3>3, <4>2, <4>4 DEF StartWrites
      <4>. QED BY <4>3, <4>4
    <3>. QED BY <3>1, <3>2, <3>3, <3>4, PodStepTyped
         DEF UserKept, StartWrites, TypeOK
  <2>5. CASE Joins(s, o)
    <3>1. Join(s, o) /\ UNCHANGED <<volume, store, green, user, jobPods, disruptions>>
      BY <2>5 DEF Joins, Join
    <3>2. PodsTyped
      BY <3>1, JoinStep, PodTypes, BecomesTyped
    <3>. QED BY <3>1, <3>2, SameVolumesTyped, PodStepTyped DEF UserKept, TypeOK
  <2>6. CASE Probes(s, o)
    <3>1. Probe(s, o) /\ UNCHANGED <<volume, store, green, user, jobPods, disruptions>>
      BY <2>6 DEF Probes, Probe
    <3>2. PICK passed \in BOOLEAN, ready \in BOOLEAN, streak \in Nat :
            Becomes(s, o, Counted(pod[s][o], ready, streak,
                            pod[s][o].marker \/ (s = Master /\ passed)))
      BY <3>1, ProbeStep
    <3>3. (pod[s][o].marker \/ (s = Master /\ passed)) \in BOOLEAN
      OBVIOUS
    <3>4. PodsTyped
      BY <3>2, <3>3, PodTypes, BecomesTyped
    <3>. QED BY <3>1, <3>4, SameVolumesTyped, PodStepTyped DEF UserKept, TypeOK
  <2>. QED BY <1>6, <2>1, <2>2, <2>3, <2>4, <2>5, <2>6
<1>7. CASE Allocates
  BY <1>7 DEF Allocates, Allocate, TypeOK, PodRecords, user
<1>8. CASE UNCHANGED vars
  BY <1>8 DEF vars, ensembles, user, TypeOK, PodRecords
<1>. QED BY <1>1, <1>2, <1>3, <1>4, <1>5, <1>6, <1>7, <1>8 DEF Next

\* Every state of the running stack is of its type; in particular every pod and
\* every Job's pod is of a LogFile that has been created, and every id that a
\* start script exports is a natural number.
THEOREM StackTypeCorrect == Spec => []TypeOK
BY TypeInit, TypeNext, PTL DEF Spec

-----------------------------------------------------------------------------
(***************************************************************************)
(* What a step can do to a pod: make or remove it (what it was is gone),   *)
(* start it, let it take part, probe it.  Everything else leaves pods,     *)
(* volumes and Zookeeper's data alone.                                     *)
(***************************************************************************)
Down(r) == ~Up(r) /\ ~r.ready /\ ~r.marker

Replaced(s, o) ==
    /\ \E r \in PodRecords : Down(r) /\ Becomes(s, o, r)
    /\ UNCHANGED <<volume, store>>

PodStep(s, o) == Replaced(s, o) \/ Start(s, o) \/ Join(s, o) \/ Probe(s, o)

Quiet == UNCHANGED <<pod, volume>> /\ store'[Zookeeper] = store[Zookeeper]

LEMMA Steps ==
    ASSUME TypeOK, [Next]_vars
    PROVE  Quiet \/ \E s \in StatefulSets : \E o \in Ordinals(s) : PodStep(s, o)
<1>1. CASE CreateLogFile
  BY <1>1 DEF CreateLogFile, ensembles, Quiet
<1>2. CASE DeleteLogFile
  BY <1>2 DEF DeleteLogFile, ensembles, Quiet
<1>3. CASE CreateWorkload
  BY <1>3 DEF CreateWorkload, ensembles, Quiet
<1>4. ASSUME NEW g \in jobPods, SetKibanaPassword(g) PROVE Quiet
  BY <1>4 DEF SetKibanaPassword, ElasticsearchOf, TypeOK, StatefulSets, Quiet
<1>5. ASSUME NEW g \in jobPods, KillJobPod(g) PROVE Quiet
  BY <1>5 DEF KillJobPod, ensembles, Quiet
<1>6. ASSUME NEW s \in StatefulSets, NEW o \in Ordinals(s),
             \/ NewPod(s, o) \/ KillPod(s, o) \/ Disruption(s, o)
             \/ Starts(s, o) \/ Joins(s, o) \/ Probes(s, o)
      PROVE  PodStep(s, o)
  <2>0. /\ Down(NoPod) /\ NoPod \in PodRecords
        /\ \A g : Down(Fresh(g))
        /\ Fresh(pod[s][o].of) \in PodRecords
    BY PodTypes DEF Down, Up, NoPod, Fresh
  <2>1. CASE NewPod(s, o)
    <3>1. CreatePod(s, o, generation) /\ UNCHANGED <<volume, store>>
      BY <2>1 DEF NewPod, CreatePod
    <3>2. generation \in 0 .. generation
      <4>1. Len(plan.logfiles) \in Nat
        BY PlansAssumption, LenProperties DEF TypeOK
      <4>. QED BY <4>1 DEF TypeOK
    <3>3. Fresh(generation) \in PodRecords
      BY <3>2, PodTypes
    <3>4. Becomes(s, o, Fresh(generation))
      BY <3>1, CreatePodStep
    <3>. QED BY <2>0, <3>1, <3>3, <3>4 DEF PodStep, Replaced
  <2>2. CASE RemovePod(s, o)
    BY <2>0, <2>2, RemoveStep DEF PodStep, Replaced
  <2>3. CASE Crash(s, o)
    <3>1. Becomes(s, o, Fresh(pod[s][o].of)) /\ UNCHANGED <<volume, store>>
      BY <2>3, CrashStep DEF Crash
    <3>. QED BY <2>0, <3>1 DEF PodStep, Replaced
  <2>. QED BY <1>6, <2>1, <2>2, <2>3
       DEF KillPod, Disruption, Evict, Starts, Joins, Probes, PodStep
<1>7. CASE Allocates
  BY <1>7 DEF Allocates, Allocate, Quiet
<1>8. CASE UNCHANGED vars
  BY <1>8 DEF vars, ensembles, Quiet
<1>. QED BY <1>1, <1>2, <1>3, <1>4, <1>5, <1>6, <1>7, <1>8 DEF Next

-----------------------------------------------------------------------------
(* The start file tells of a node that takes part, and so does readiness. *)

ReadyNodesTakePart ==
    \A o \in Ordinals(Master) :
        /\ pod[Master][o].marker => pod[Master][o].phase = "member"
        /\ pod[Master][o].ready => pod[Master][o].marker

LEMMA ReadyNodesTakePartKept ==
    ASSUME TypeOK, ReadyNodesTakePart, [Next]_vars
    PROVE  ReadyNodesTakePart'
<1>1. CASE Quiet
  BY <1>1 DEF Quiet, ReadyNodesTakePart
<1>2. ASSUME NEW s \in StatefulSets, NEW o \in Ordinals(s), PodStep(s, o),
             NEW q \in Ordinals(Master)
      PROVE  /\ pod'[Master][q].marker => pod'[Master][q].phase = "member"
             /\ pod'[Master][q].ready => pod'[Master][q].marker
  <2>0. Master \in StatefulSets
    BY DEF StatefulSets
  <2>1. /\ pod[Master][q] \in PodRecords
        /\ pod[Master][q].marker => pod[Master][q].phase = "member"
        /\ pod[Master][q].ready => pod[Master][q].marker
    BY <2>0 DEF ReadyNodesTakePart, TypeOK
  <2>2. ASSUME NEW r, Becomes(s, o, r), s # Master \/ q # o
        PROVE  pod'[Master][q] = pod[Master][q]
    BY <2>0, <2>2 DEF Becomes
  <2>3. CASE Replaced(s, o)
    <3>1. PICK r \in PodRecords : Down(r) /\ Becomes(s, o, r)
      BY <2>3 DEF Replaced
    <3>2. CASE s = Master /\ q = o
      BY <3>1, <3>2 DEF Down, Becomes
    <3>3. CASE s # Master \/ q # o
      BY <2>1, <2>2, <3>1, <3>3
    <3>. QED BY <3>2, <3>3
  <2>4. CASE Start(s, o)
    <3>1. Becomes(s, o, InPhase(pod[s][o], "running"))
      BY <2>4, StartStep
    <3>2. CASE s = Master /\ q = o
      <4>1. pod[Master][q].phase = "starting"
        BY <2>4, <3>2 DEF Start
      <4>2. pod'[Master][q] = InPhase(pod[Master][q], "running")
        BY <3>1, <3>2 DEF Becomes
      <4>3. ~pod[Master][q].marker /\ ~pod[Master][q].ready
        BY <2>1, <4>1
      <4>. QED BY <2>1, <4>2, <4>3 DEF InPhase, PodRecords
    <3>3. CASE s # Master \/ q # o
      BY <2>1, <2>2, <3>1, <3>3
    <3>. QED BY <3>2, <3>3
  <2>5. CASE Join(s, o)
    <3>1. Becomes(s, o, InPhase(pod[s][o], "member"))
      BY <2>5, JoinStep
    <3>2. CASE s = Master /\ q = o
      <4>1. pod'[Master][q] = InPhase(pod[Master][q], "member")
        BY <3>1, <3>2 DEF Becomes
      <4>. QED BY <2>1, <4>1 DEF InPhase, PodRecords
    <3>3. CASE s # Master \/ q # o
      BY <2>1, <2>2, <3>1, <3>3
    <3>. QED BY <3>2, <3>3
  <2>6. CASE Probe(s, o)
    <3>1. PICK passed \in ProbeAnswers(s, o), ready \in BOOLEAN, streak \in Nat :
            LET marker == pod[s][o].marker \/ (s = Master /\ passed) IN
            /\ passed \in BOOLEAN
            /\ Becomes(s, o, Counted(pod[s][o], ready, streak, marker))
            /\ ready => passed \/ pod[s][o].ready
            /\ pod[s][o].ready /\ ~ready => ~passed
      BY <2>6, ProbeStep
    <3>2. CASE s = Master /\ q = o
      <4>. DEFINE p == pod[Master][q]
                  marker == p.marker \/ (Master = Master /\ passed)
      <4>1. pod'[Master][q] = Counted(p, ready, streak, marker)
        BY <3>1, <3>2 DEF Becomes
      <4>2. pod'[Master][q].marker = marker /\ pod'[Master][q].ready = ready
        BY <2>1, <4>1 DEF Counted, PodRecords
      <4>3. pod'[Master][q].phase = p.phase
        BY <2>1, <4>1 DEF Counted, PodRecords
      <4>4. passed /\ ~p.marker => p.phase = "member"
        BY <3>1, <3>2 DEF ProbeAnswers
      <4>. QED BY <2>1, <3>1, <3>2, <4>2, <4>3, <4>4
    <3>3. CASE s # Master \/ q # o
      BY <2>1, <2>2, <3>1, <3>3
    <3>. QED BY <3>2, <3>3
  <2>. QED BY <1>2, <2>3, <2>4, <2>5, <2>6 DEF PodStep
<1>. QED BY <1>1, <1>2, Steps DEF ReadyNodesTakePart

-----------------------------------------------------------------------------
(* Identities: what is kept on a volume is what the ordinal gives. *)

FirstId(s) == IF s = Zookeeper THEN 1 ELSE 0

IdsFollowOrdinals ==
    \A s \in {Zookeeper, Broker} : \A o \in Ordinals(s) :
        /\ volume[s][o].id \in {None, o + FirstId(s)}
        /\ Up(pod[s][o]) => volume[s][o].id # None

LEMMA IdsFollowOrdinalsKept ==
    ASSUME TypeOK, IdsFollowOrdinals, [Next]_vars
    PROVE  IdsFollowOrdinals'
<1>1. CASE Quiet
  BY <1>1 DEF Quiet, IdsFollowOrdinals
<1>2. ASSUME NEW s \in StatefulSets, NEW o \in Ordinals(s), PodStep(s, o),
             NEW t \in {Zookeeper, Broker}, NEW q \in Ordinals(t)
      PROVE  /\ volume'[t][q].id \in {None, q + FirstId(t)}
             /\ Up(pod'[t][q]) => volume'[t][q].id # None
  <2>0. t \in StatefulSets
    BY DEF StatefulSets
  <2>1. /\ pod[t][q] \in PodRecords
        /\ volume[t][q].id \in {None, q + FirstId(t)}
        /\ Up(pod[t][q]) => volume[t][q].id # None
    BY <2>0 DEF IdsFollowOrdinals, TypeOK
  <2>2. ASSUME NEW r, Becomes(s, o, r), s # t \/ q # o
        PROVE  pod'[t][q] = pod[t][q]
    BY <2>0, <2>2 DEF Becomes
  <2>3. ASSUME UNCHANGED volume, NEW r, Becomes(s, o, r),
               Up(r) => Up(pod[s][o])
        PROVE  /\ volume'[t][q].id \in {None, q + FirstId(t)}
               /\ Up(pod'[t][q]) => volume'[t][q].id # None
    <3>1. CASE s = t /\ q = o
      BY <2>1, <2>3, <3>1 DEF Becomes
    <3>2. CASE s # t \/ q # o
      BY <2>1, <2>2, <2>3, <3>2
    <3>. QED BY <3>1, <3>2
  <2>4. CASE Replaced(s, o)
    BY <2>3, <2>4 DEF Replaced, Down
  <2>5. CASE Start(s, o)
    <3>1. /\ Becomes(s, o, InPhase(pod[s][o], "running"))
          /\ StartWrites(s, o)
      BY <2>5, StartStep, StartWritesVolume
    <3>2. CASE s = t /\ q = o
      <4>1. volume'[t][q].id = ServerId(t, q)
        BY <3>1, <3>2 DEF StartWrites
      <4>2. ServerId(t, q) = q + FirstId(t)
        BY <2>1, <3>2 DEF ServerId, FirstId
      <4>3. ServerId(t, q) \in Nat
        BY <2>0, ServerIdType
      <4>. QED BY <4>1, <4>2, <4>3, NoneAssumption
    <3>3. CASE s # t \/ q # o
      <4>1. volume'[t][q] = volume[t][q]
        BY <2>0, <3>1, <3>3 DEF StartWrites, OthersKept
      <4>2. pod'[t][q] = pod[t][q]
        BY <2>2, <3>1, <3>3
      <4>. QED BY <2>1, <4>1, <4>2
    <3>. QED BY <3>2, <3>3
  <2>6. CASE Join(s, o)
    <3>1. Becomes(s, o, InPhase(pod[s][o], "member"))
      BY <2>6, JoinStep
    <3>2. Up(pod[s][o]) /\ UNCHANGED volume
      BY <2>6 DEF Join, Up
    <3>. QED BY <2>3, <3>1, <3>2
  <2>7. CASE Probe(s, o)
    <3>1. Up(pod[s][o]) /\ UNCHANGED volume
      BY <2>7 DEF Probe
    <3>2. PICK r : Becomes(s, o, r)
      BY <2>7, ProbeStep
    <3>. QED BY <2>3, <3>1, <3>2
  <2>. QED BY <1>2, <2>4, <2>5, <2>6, <2>7 DEF PodStep
<1>. QED BY <1>1, <1>2, Steps DEF IdsFollowOrdinals

LEMMA BrokersAreAcceptedKept ==
    ASSUME TypeOK, BrokersAreAccepted, [Next]_vars
    PROVE  BrokersAreAccepted'
<1>0. Broker \in StatefulSets
  BY DEF StatefulSets
<1>1. CASE UNCHANGED volume /\ store'[Zookeeper] = store[Zookeeper]
  BY <1>1 DEF BrokersAreAccepted
<1>2. ASSUME NEW s \in StatefulSets, NEW o \in Ordinals(s), Start(s, o),
             NEW q \in Ordinals(Broker)
      PROVE  volume'[Broker][q].cluster \in {None, store'[Zookeeper]}
  <2>1. StartWrites(s, o)
    BY <1>2, StartWritesVolume
  <2>2. volume[Broker][q].cluster \in {None, store[Zookeeper]}
    BY DEF BrokersAreAccepted
  <2>3. CASE s = Broker /\ q = o
    BY <2>1, <2>3 DEF StartWrites
  <2>4. CASE s = Broker /\ q # o
    <3>1. volume'[Broker][q] = volume[Broker][q]
      BY <1>0, <2>1, <2>4 DEF StartWrites, OthersKept
    <3>2. store[Zookeeper] # None => store'[Zookeeper] = store[Zookeeper]
      BY <2>1, <2>4 DEF StartWrites
    <3>. QED BY <2>2, <3>1, <3>2
  <2>5. CASE s # Broker
    <3>1. volume'[Broker][q] = volume[Broker][q]
      BY <1>0, <2>1, <2>5 DEF StartWrites, OthersKept
    <3>2. store'[Zookeeper] = store[Zookeeper]
      BY <2>1, <2>5 DEF StartWrites
    <3>. QED BY <2>2, <3>1, <3>2
  <2>. QED BY <2>3, <2>4, <2>5
<1>3. \A s \in StatefulSets : \A o \in Ordinals(s) :
         Join(s, o) \/ Probe(s, o) => UNCHANGED <<volume, store>>
  BY DEF Join, Probe
<1>. QED BY <1>1, <1>2, <1>3, Steps
     DEF PodStep, Replaced, Quiet, BrokersAreAccepted

-----------------------------------------------------------------------------
(***************************************************************************)
(* The inductive invariant: types, what readiness tells, what the volumes  *)
(* keep, and that Zookeeper and the brokers agree on the cluster's name.   *)
(***************************************************************************)
StackInv ==
    TypeOK /\ ReadyNodesTakePart /\ IdsFollowOrdinals /\ BrokersAreAccepted

LEMMA StackInvInit == Init => StackInv
<1>. SUFFICES ASSUME Init PROVE StackInv
  OBVIOUS
<1>1. \A s \in StatefulSets : \A o \in Ordinals(s) :
         pod[s][o] = NoPod /\ volume[s][o] = NoIdentity
  BY DEF Init, EnsemblesInit
<1>2. ReadyNodesTakePart
  BY <1>1 DEF ReadyNodesTakePart, NoPod, StatefulSets
<1>3. IdsFollowOrdinals
  BY <1>1 DEF IdsFollowOrdinals, NoPod, NoIdentity, Up, StatefulSets
<1>4. BrokersAreAccepted
  BY <1>1 DEF BrokersAreAccepted, NoIdentity, StatefulSets
<1>. QED BY <1>2, <1>3, <1>4, TypeInit DEF StackInv

LEMMA StackInvNext == StackInv /\ [Next]_vars => StackInv'
BY TypeNext, ReadyNodesTakePartKept, IdsFollowOrdinalsKept,
   BrokersAreAcceptedKept DEF StackInv

LEMMA StackInvariant == Spec => []StackInv
BY StackInvInit, StackInvNext, PTL DEF Spec

\* Every Zookeeper server that runs has the id that ZOO_SERVERS gives its name,
\* and no two running brokers share an id: for every number of servers, across
\* every restart, eviction and new LogFile on old volumes.
THEOREM StackServersKeepTheirIds == Spec => []ServersKeepTheirIds
<1>1. StackInv => ServersKeepTheirIds
  <2>. SUFFICES ASSUME StackInv PROVE ServersKeepTheirIds
    OBVIOUS
  <2>1. ASSUME NEW o \in Running(Zookeeper)
        PROVE  volume[Zookeeper][o].id = ZooServers[o]
    BY <2>1 DEF StackInv, IdsFollowOrdinals, FirstId, Running, ZooServers
  <2>2. ASSUME NEW o \in Running(Broker)
        PROVE  volume[Broker][o].id = o
    <3>1. o \in Nat
      BY <2>2, ReplicasAssumption DEF Running, Ordinals
    <3>2. volume[Broker][o].id = o + 0
      BY <2>2 DEF StackInv, IdsFollowOrdinals, FirstId, Running
    <3>. QED BY <3>1, <3>2
  <2>. QED BY <2>1, <2>2 DEF ServersKeepTheirIds
<1>. QED BY <1>1, StackInvariant, PTL

\* No broker ever keeps a cluster name that Zookeeper does not: the name is given
\* once, and both keep it on claims that outlive the LogFile.
THEOREM StackBrokersAreAccepted == Spec => []BrokersAreAccepted
BY StackInvariant, PTL DEF StackInv

-----------------------------------------------------------------------------
(* Readiness is kept. *)

LEMMA ReadyPodKept ==
    ASSUME StackInv, [Next]_vars,
           NEW t \in StatefulSets, NEW q \in ReadyPods(t)
    PROVE  \/ pod'[t][q].ready
           \/ ~Up(pod'[t][q])
           \/ t \in Clustered /\ ~HasQuorum(t)
<1>0. TypeOK /\ ReadyNodesTakePart
  BY DEF StackInv
<1>1. q \in Ordinals(t) /\ pod[t][q].ready
  BY DEF ReadyPods
<1>2. pod[t][q] \in PodRecords
  BY <1>0, <1>1, PodTypes
<1>3. CASE pod'[t][q] = pod[t][q]
  BY <1>1, <1>3
<1>4. ASSUME NEW s \in StatefulSets, NEW o \in Ordinals(s), PodStep(s, o)
      PROVE  \/ pod'[t][q].ready
             \/ ~Up(pod'[t][q])
             \/ t \in Clustered /\ ~HasQuorum(t)
  <2>1. ASSUME NEW r, Becomes(s, o, r), s # t \/ q # o
        PROVE  pod'[t][q] = pod[t][q]
    BY <1>1, <2>1 DEF Becomes
  <2>2. CASE Replaced(s, o)
    <3>1. PICK r \in PodRecords : Down(r) /\ Becomes(s, o, r)
      BY <2>2 DEF Replaced
    <3>2. CASE s = t /\ q = o
      BY <3>1, <3>2 DEF Down, Becomes
    <3>3. CASE s # t \/ q # o
      BY <1>3, <2>1, <3>1, <3>3
    <3>. QED BY <3>2, <3>3
  <2>3. ASSUME NEW phase \in {"running", "member"},
               Becomes(s, o, InPhase(pod[s][o], phase))
        PROVE  pod'[t][q].ready
    <3>1. CASE s = t /\ q = o
      <4>1. pod'[t][q] = InPhase(pod[t][q], phase)
        BY <2>3, <3>1 DEF Becomes
      <4>. QED BY <1>1, <1>2, <4>1 DEF InPhase, PodRecords
    <3>2. CASE s # t \/ q # o
      BY <1>1, <2>1, <2>3, <3>2
    <3>. QED BY <3>1, <3>2
  <2>4. CASE Start(s, o)
    BY <1>0, <2>3, <2>4, StartStep
  <2>5. CASE Join(s, o)
    BY <1>0, <2>3, <2>5, JoinStep
  <2>6. CASE Probe(s, o)
    <3>1. PICK passed \in ProbeAnswers(s, o), ready \in BOOLEAN, streak \in Nat :
            LET marker == pod[s][o].marker \/ (s = Master /\ passed) IN
            /\ passed \in BOOLEAN
            /\ Becomes(s, o, Counted(pod[s][o], ready, streak, marker))
            /\ ready => passed \/ pod[s][o].ready
            /\ pod[s][o].ready /\ ~ready => ~passed
      BY <1>0, <2>6, ProbeStep
    <3>2. CASE s = t /\ q = o
      <4>. DEFINE marker == pod[t][q].marker \/ (t = Master /\ passed)
      <4>1. pod'[t][q] = Counted(pod[t][q], ready, streak, marker)
        BY <3>1, <3>2 DEF Becomes
      <4>2. pod'[t][q].ready = ready
        BY <1>2, <4>1 DEF Counted, PodRecords
      <4>3. CASE ready
        BY <4>2, <4>3
      <4>4. CASE ~ready
        <5>1. ~passed /\ passed \in ProbeAnswers(t, q)
          BY <1>1, <3>1, <3>2, <4>4
        <5>2. t = Master
          BY <5>1 DEF ProbeAnswers
        <5>3. pod[t][q].marker
          BY <1>0, <1>1, <5>2 DEF ReadyNodesTakePart
        <5>4. passed \in {TRUE} \cup {HasQuorum(t)}
          BY <5>1, <5>2, <5>3 DEF ProbeAnswers
        <5>5. ~HasQuorum(t)
          BY <5>1, <5>4
        <5>. QED BY <5>2, <5>5 DEF Clustered
      <4>. QED BY <4>3, <4>4
    <3>3. CASE s # t \/ q # o
      BY <1>3, <2>1, <3>1, <3>3
    <3>. QED BY <3>2, <3>3
  <2>. QED BY <1>4, <2>2, <2>4, <2>5, <2>6 DEF PodStep
<1>5. CASE Quiet
  BY <1>3, <1>5 DEF Quiet
<1>. QED BY <1>0, <1>4, <1>5, Steps

\* While a cluster has its quorum, no ready pod of it stops being ready but by its
\* own restart or removal: for clusters of every size and any disruptions.
THEOREM StackReadyIsKept == Spec => ReadyIsKept
<1>1. StackInv /\ [Next]_vars =>
        [\A s \in StatefulSets : \A o \in ReadyPods(s) :
          \/ pod'[s][o].ready
          \/ ~Up(pod'[s][o])
          \/ s \in Clustered /\ ~HasQuorum(s)]_vars
  BY ReadyPodKept
<1>. QED BY <1>1, StackInvariant, PTL DEF Spec, ReadyIsKept

-----------------------------------------------------------------------------
(* Evictions. *)

LEMMA ServersFinite ==
    ASSUME NEW s \in StatefulSets
    PROVE  IsFiniteSet(Ordinals(s)) /\ Replicas[s] \in Nat
<1>1. Replicas[s] \in Nat \ {0}
  BY ReplicasAssumption
<1>. QED BY <1>1, FS_Interval DEF Ordinals

\* All ready nodes but the evicted one take part afterwards: all but one of the
\* replicas at least, and of three or more that is a majority.
LEMMA EvictQuorum ==
    ASSUME StackInv, NEW o \in Ordinals(Master), Evict(Master, o)
    PROVE  HasQuorum(Master)'
<1>. DEFINE left == ReadyPods(Master) \ {o}
            after == {q \in Ordinals(Master) : pod'[Master][q].phase = "member"}
<1>0. Master \in StatefulSets /\ TypeOK /\ ReadyNodesTakePart
  BY DEF StackInv, StatefulSets
<1>1. IsFiniteSet(Ordinals(Master)) /\ Replicas[Master] \in Nat
  BY <1>0, ServersFinite
<1>2. left \subseteq after
  <2>1. Becomes(Master, o, NoPod)
    BY <1>0, RemoveStep DEF Evict
  <2>2. \A q \in left : pod[Master][q].phase = "member"
    BY <1>0 DEF ReadyPods, ReadyNodesTakePart
  <2>. QED BY <2>1, <2>2 DEF Becomes, ReadyPods
<1>3. Cardinality(left) >= Replicas[Master] - 1
  <2>1. Cardinality(ReadyPods(Master)) - (IF pod[Master][o].ready THEN 1 ELSE 0)
            >= Replicas[Master] - 1
    BY DEF Evict, EvictionAllowed, MaxUnavailable
  <2>2. IsFiniteSet(ReadyPods(Master))
    BY <1>1, FS_Subset DEF ReadyPods
  <2>3. Cardinality(ReadyPods(Master)) \in Nat
    BY <2>2, FS_CardinalityType
  <2>4. CASE pod[Master][o].ready
    <3>1. o \in ReadyPods(Master)
      BY <2>4 DEF ReadyPods
    <3>2. Cardinality(left) = Cardinality(ReadyPods(Master)) - 1
      BY <2>2, <3>1, FS_RemoveElement
    <3>. QED BY <2>1, <2>4, <3>2
  <2>5. CASE ~pod[Master][o].ready
    <3>1. left = ReadyPods(Master)
      BY <2>5 DEF ReadyPods
    <3>2. Cardinality(left) = Cardinality(ReadyPods(Master))
      BY <3>1
    <3>. HIDE DEF left
    <3>. QED BY <2>1, <2>3, <2>5, <3>2
  <2>. QED BY <2>4, <2>5
<1>4. Cardinality(after) >= Cardinality(left)
  <2>1. IsFiniteSet(after)
    BY <1>1, FS_Subset
  <2>. QED BY <1>2, <2>1, FS_Subset
<1>5. Cardinality(after) \in Nat /\ Cardinality(left) \in Nat
  <2>1. IsFiniteSet(after)
    BY <1>1, FS_Subset
  <2>2. IsFiniteSet(left)
    BY <1>2, <2>1, FS_Subset
  <2>. QED BY <2>1, <2>2, FS_CardinalityType
<1>6. Replicas[Master] >= 3
  BY ReplicasAssumption
<1>. HIDE DEF after, left
<1>7. 2 * Cardinality(after) > Replicas[Master]
  BY <1>1, <1>3, <1>4, <1>5, <1>6
<1>8. Members(Master)' = after
  BY DEF Members, after
<1>. QED BY <1>7, <1>8 DEF HasQuorum, IsMajority

LEMMA RemovedByEviction ==
    ASSUME StackInv, [Next]_vars, NEW q \in Ordinals(Master),
           Owned(Master, q),
           pod[Master][q].phase # "absent", pod'[Master][q].phase = "absent"
    PROVE  Evict(Master, q)
<1>0. TypeOK /\ Master \in StatefulSets
  BY DEF StackInv, StatefulSets
<1>1. pod'[Master][q] # pod[Master][q]
  OBVIOUS
<1>2. pod' # pod
  OBVIOUS
<1>3. \E s \in StatefulSets : \E o \in Ordinals(s) :
         \/ NewPod(s, o) \/ KillPod(s, o) \/ Disruption(s, o)
         \/ Starts(s, o) \/ Joins(s, o) \/ Probes(s, o)
  BY <1>2 DEF Next, CreateLogFile, DeleteLogFile, CreateWorkload,
              SetKibanaPassword, KillJobPod, Allocates, Allocate, vars, ensembles
<1>. SUFFICES ASSUME NEW s \in StatefulSets, NEW o \in Ordinals(s),
                     \/ NewPod(s, o) \/ KillPod(s, o) \/ Disruption(s, o)
                     \/ Starts(s, o) \/ Joins(s, o) \/ Probes(s, o)
              PROVE  Evict(Master, q)
  BY <1>3
<1>4. ASSUME NEW r, Becomes(s, o, r)
      PROVE  s = Master /\ o = q /\ r.phase = "absent"
  <2>1. s = Master /\ o = q
    BY <1>0, <1>1, <1>4 DEF Becomes
  <2>. QED BY <1>4, <2>1 DEF Becomes
<1>5. pod[s][o] \in PodRecords
  BY <1>0, PodTypes
<1>6. ~NewPod(s, o)
  <2>. SUFFICES ASSUME NewPod(s, o) PROVE FALSE
    OBVIOUS
  <2>1. Becomes(s, o, Fresh(generation))
    BY <1>0, CreatePodStep DEF NewPod
  <2>2. Fresh(generation).phase = "absent"
    BY <1>4, <2>1
  <2>. QED BY <1>5, <2>2 DEF Fresh, NoPod
<1>7. ~Crash(s, o)
  <2>. SUFFICES ASSUME Crash(s, o) PROVE FALSE
    OBVIOUS
  <2>1. Becomes(s, o, Fresh(pod[s][o].of))
    BY <1>0, CrashStep
  <2>2. Fresh(pod[s][o].of).phase = "absent"
    BY <1>4, <2>1
  <2>. QED BY <1>5, <2>2 DEF Fresh, NoPod
<1>8. ~Start(s, o)
  <2>. SUFFICES ASSUME Start(s, o) PROVE FALSE
    OBVIOUS
  <2>1. Becomes(s, o, InPhase(pod[s][o], "running"))
    BY <1>0, StartStep
  <2>2. InPhase(pod[s][o], "running").phase = "absent"
    BY <1>4, <2>1
  <2>. QED BY <1>5, <2>2 DEF InPhase, PodRecords
<1>9. ~Join(s, o)
  <2>. SUFFICES ASSUME Join(s, o) PROVE FALSE
    OBVIOUS
  <2>1. Becomes(s, o, InPhase(pod[s][o], "member"))
    BY <1>0, JoinStep
  <2>2. InPhase(pod[s][o], "member").phase = "absent"
    BY <1>4, <2>1
  <2>. QED BY <1>5, <2>2 DEF InPhase, PodRecords
<1>10. ~Probe(s, o)
  <2>. SUFFICES ASSUME Probe(s, o) PROVE FALSE
    OBVIOUS
  <2>1. PICK ready, streak, marker :
           Becomes(s, o, Counted(pod[s][o], ready, streak, marker))
    BY <1>0, ProbeStep
  <2>2. /\ s = Master /\ o = q
        /\ Counted(pod[s][o], ready, streak, marker).phase = "absent"
    BY <1>4, <2>1
  <2>. QED BY <1>5, <2>2 DEF Counted, PodRecords
<1>11. ~KillPod(s, o)
  <2>. SUFFICES ASSUME KillPod(s, o) PROVE FALSE
    OBVIOUS
  <2>1. Becomes(s, o, NoPod)
    BY <1>0, RemoveStep DEF KillPod
  <2>2. s = Master /\ o = q
    BY <1>4, <2>1
  <2>. QED BY <2>2 DEF KillPod
<1>12. Evict(s, o)
  BY <1>6, <1>7, <1>8, <1>9, <1>10, <1>11
     DEF Disruption, Starts, Joins, Probes
<1>13. Becomes(s, o, NoPod)
  BY <1>0, <1>12, RemoveStep DEF Evict
<1>. QED BY <1>4, <1>12, <1>13

\* No eviction that the disruption budget lets through leaves the Elasticsearch
\* cluster without a majority: for every number of nodes from three up.  Needs
\* that only nodes which take part are ready (ReadyNodesTakePart).
THEOREM StackEvictionKeepsQuorum == Spec => EvictionKeepsQuorum
<1>1. StackInv /\ [Next]_vars =>
        [\A o \in Ordinals("elasticsearch-master") :
          (/\ HasQuorum("elasticsearch-master")
           /\ Owned("elasticsearch-master", o)
           /\ pod["elasticsearch-master"][o].phase # "absent"
           /\ pod'["elasticsearch-master"][o].phase = "absent")
              => HasQuorum("elasticsearch-master")']_vars
  BY EvictQuorum, RemovedByEviction
<1>. QED BY <1>1, StackInvariant, PTL DEF Spec, EvictionKeepsQuorum
=============================================================================
