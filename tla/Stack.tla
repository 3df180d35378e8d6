-------------------------------- MODULE Stack --------------------------------
(***************************************************************************)
(* The stack of a LogFile, running: LogFiles are created and deleted one   *)
(* after the other, Run creates the workloads of the programme in order    *)
(* (Programmes), their pods come up (Ensembles), the password Job tells    *)
(* Elasticsearch the password of kibana_system, and Kibana and Logstash    *)
(* log in with what the LogFile gave them.                                 *)
(*                                                                         *)
(* A LogFile is created again only when the objects of the last one are    *)
(* collected; what happens otherwise, and Run's retries and crashes, is    *)
(* Reconciler's.  Its pods and the pod of its Job may still be there, and  *)
(* the data always is: claims of volumeClaimTemplates are nobody's child.  *)
(***************************************************************************)
EXTENDS Ensembles, Programmes

CONSTANT
    Plans      \* what a user may do: [view, logfiles, disruptions]

\* A LogFile: its programme and the passwords of elastic and of kibana_system.
LogFiles == [programme : 1 .. 6, elastic : STRING, kibana : STRING]

ASSUME PlansAssumption == \A p \in Plans : p.logfiles \in Seq(LogFiles)

VARIABLES
    plan,         \* workloads in view, the user's LogFiles, bound of disruptions
    generation,   \* number of the LogFile created last, 0 before the first
    exists,       \* that LogFile has not been deleted
    calls,        \* workloads that its Run has created
    jobPods,      \* LogFiles whose password Job has a pod that still tries
    disruptions   \* disruptions so far

user == <<plan, generation, exists, calls>>
vars == <<ensembles, user, jobPods, disruptions>>

LogFile(g) == plan.logfiles[g]

\* The objects of a programme that have pods, in the order of their creation.
Workloads ==
    [p \in 1 .. 6 |->
        SelectSeq([i \in DOMAIN RunCalls(p) |-> RunCalls(p)[i].object],
                  LAMBDA o : o.kind \in {"StatefulSet", "Job", "Deployment"})]

\* Those of LogFile g that are in view.
WorkloadsOf(g) ==
    SelectSeq(Workloads[LogFile(g).programme], LAMBDA o : o \in plan.view)

\* The object exists: Run has created it and its LogFile is there.
Made(object) ==
    exists /\ \E i \in 1 .. calls : WorkloadsOf(generation)[i] = object

\* Elasticsearch under the name that the Job's command, kibana.yml and
\* logstash.conf of the programme use.
ElasticsearchOf(p) ==
    IF UsesCluster(p) THEN "elasticsearch-master" ELSE "elasticsearch"

\* Some node behind the Service knows elastic by this password: a node has it
\* from its environment.
KnowsElastic(s, password) ==
    /\ Serves(s)
    /\ \E o \in ReadyPods(s) : LogFile(pod[s][o].of).elastic = password

KibanaCanLogIn ==
    LET l == LogFile(generation) IN
    /\ Made(Deployment("kibana"))
    /\ Serves(ElasticsearchOf(l.programme))
    /\ store[ElasticsearchOf(l.programme)] = l.kibana

\* logstash.conf: user elastic, and for its password KIBANA_PASSWORD.
LogstashCanLogIn ==
    LET l == LogFile(generation) IN
    /\ Made(Deployment("logstash"))
    /\ KnowsElastic(ElasticsearchOf(l.programme), l.kibana)

-----------------------------------------------------------------------------
Init ==
    /\ EnsemblesInit
    /\ plan \in Plans
    /\ generation = 0
    /\ exists = FALSE
    /\ calls = 0
    /\ jobPods = {}
    /\ disruptions = 0

CreateLogFile ==
    /\ ~exists
    /\ generation < Len(plan.logfiles)
    /\ generation' = generation + 1
    /\ exists' = TRUE
    /\ calls' = 0
    /\ UNCHANGED <<ensembles, plan, jobPods, disruptions>>

\* With the LogFile, the garbage collector takes the workloads it owns; their
\* pods go in steps of their own.
DeleteLogFile ==
    /\ exists
    /\ exists' = FALSE
    /\ UNCHANGED <<ensembles, plan, generation, calls, jobPods, disruptions>>

\* Defect for KibanaLogsIn: Run does not wait before the Job.
NoSleep == TRUE

\* The 80 s that Run sleeps before it creates the Job are more than the 30 s a
\* pod of an earlier Job has left once its Job is collected.
SleepOver == jobPods \subseteq {generation}

\* Run creates the next workload.
CreateWorkload ==
    /\ exists
    /\ calls < Len(WorkloadsOf(generation))
    /\ calls' = calls + 1
    /\ IF WorkloadsOf(generation)[calls + 1].kind = "Job"
       THEN SleepOver /\ jobPods' = jobPods \cup {generation}
       ELSE UNCHANGED jobPods
    /\ UNCHANGED <<ensembles, plan, generation, exists, disruptions>>

\* The Job's command: post the password of kibana_system until Elasticsearch
\* answers {}, which it does when it knows the password of elastic.
SetKibanaPassword(g) ==
    LET s == ElasticsearchOf(LogFile(g).programme) IN
    /\ g \in jobPods
    /\ KnowsElastic(s, LogFile(g).elastic)
    /\ store' = [store EXCEPT ![s] = LogFile(g).kibana]
    /\ jobPods' = jobPods \ {g}
    /\ UNCHANGED <<pod, volume, green, user, disruptions>>

\* The pod of a collected Job is killed.
KillJobPod(g) ==
    /\ g \in jobPods
    /\ ~(exists /\ g = generation)
    /\ jobPods' = jobPods \ {g}
    /\ UNCHANGED <<ensembles, user, disruptions>>

-----------------------------------------------------------------------------
(* Pods. *)

\* The pod's StatefulSet exists.
Owned(s, o) == exists /\ pod[s][o].of = generation

NewPod(s, o) ==
    /\ Made(StatefulSet(s))
    /\ CreatePod(s, o, generation)
    /\ UNCHANGED <<user, jobPods, disruptions>>

\* The pod of a collected StatefulSet is killed.
KillPod(s, o) ==
    /\ pod[s][o].phase # "absent"
    /\ ~Owned(s, o)
    /\ RemovePod(s, o)
    /\ UNCHANGED <<user, jobPods, disruptions>>

Disruption(s, o) ==
    /\ disruptions < plan.disruptions
    /\ Owned(s, o)
    /\ Crash(s, o) \/ Evict(s, o)
    /\ disruptions' = disruptions + 1
    /\ UNCHANGED <<user, jobPods>>

Starts(s, o) == Start(s, o) /\ UNCHANGED <<user, jobPods, disruptions>>
Joins(s, o)  == Join(s, o)  /\ UNCHANGED <<user, jobPods, disruptions>>
Probes(s, o) == Probe(s, o) /\ UNCHANGED <<user, jobPods, disruptions>>
Allocates    == Allocate    /\ UNCHANGED <<user, jobPods, disruptions>>

Next ==
    \/ CreateLogFile \/ DeleteLogFile \/ CreateWorkload
    \/ \E g \in jobPods : SetKibanaPassword(g) \/ KillJobPod(g)
    \/ \E s \in StatefulSets : \E o \in Ordinals(s) :
          \/ NewPod(s, o) \/ KillPod(s, o) \/ Disruption(s, o)
          \/ Starts(s, o) \/ Joins(s, o)   \/ Probes(s, o)
    \/ Allocates

Spec == Init /\ [][Next]_vars

SomePod(Step(_, _)) == \E s \in StatefulSets : \E o \in Ordinals(s) : Step(s, o)

(***************************************************************************)
(* Run goes on, Kubernetes creates, starts, probes and kills pods, servers *)
(* join, shards are allocated, a Job's pod tries again.  Nothing makes a   *)
(* user create or delete, or a node fail.                                  *)
(***************************************************************************)
Fairness ==
    /\ WF_vars(CreateWorkload)
    /\ WF_vars(\E g \in jobPods : SetKibanaPassword(g))
    /\ WF_vars(\E g \in jobPods : KillJobPod(g))
    /\ WF_vars(SomePod(NewPod))
    /\ WF_vars(SomePod(KillPod))
    /\ WF_vars(SomePod(Starts))
    /\ WF_vars(SomePod(Joins))
    /\ WF_vars(SomePod(Probes))
    /\ WF_vars(Allocates)

FairSpec == Spec /\ Fairness

-----------------------------------------------------------------------------
(* Properties. *)

PodRecords ==
    [phase : {"absent", "starting", "running", "member"},
     of : 0 .. generation, ready : BOOLEAN, marker : BOOLEAN, streak : Nat]

Identities == [id : Nat \cup {None}, cluster : Nat \cup {None}]

\* Types; pods and Jobs are of LogFiles that have been created, and a server's id
\* is a natural number, as ZOO_SERVERS and broker.id want it.
TypeOK ==
    /\ plan \in Plans
    /\ generation \in 0 .. Len(plan.logfiles)
    /\ exists \in BOOLEAN
    /\ exists => generation > 0
    /\ calls \in Nat
    /\ jobPods \subseteq 1 .. generation
    /\ disruptions \in Nat
    /\ green \in BOOLEAN
    /\ DOMAIN pod = StatefulSets
    /\ DOMAIN volume = StatefulSets
    /\ DOMAIN store = StatefulSets
    /\ \A s \in StatefulSets : /\ pod[s] \in [Ordinals(s) -> PodRecords]
                              /\ volume[s] \in [Ordinals(s) -> Identities]
    /\ store["kafka-cluster-zookeeper"] \in Nat \cup {None}

\* Every Zookeeper server that has ever started has the id under which
\* ZOO_SERVERS lists its name, and no two Kafka brokers have the same id:
\* through restarts, evictions and a new LogFile on the old volumes.
ServersKeepTheirIds ==
    /\ \A o \in Running("kafka-cluster-zookeeper") :
         volume["kafka-cluster-zookeeper"][o].id = ZooServers[o]
    /\ \A o, q \in Running("kafka-cluster") :
         volume["kafka-cluster"][o].id = volume["kafka-cluster"][q].id => o = q

\* No broker keeps the name of a Kafka cluster that Zookeeper does not know: it
\* would refuse to start.  Both outlive the LogFile, so a new one finds both.
BrokersAreAccepted ==
    \A o \in Ordinals("kafka-cluster") :
        volume["kafka-cluster"][o].cluster
            \in {None, store["kafka-cluster-zookeeper"]}

\* While a cluster has its quorum, a ready pod stops being ready only when it is
\* itself restarted or removed: a node that goes does not take the others out of
\* the Service, although the cluster is not green until it is allocated again.
ReadyIsKept ==
    [][\A s \in StatefulSets : \A o \in ReadyPods(s) :
          \/ pod'[s][o].ready
          \/ ~Up(pod'[s][o])
          \/ s \in Clustered /\ ~HasQuorum(s)]_vars

\* An eviction never costs the Elasticsearch cluster its quorum.
EvictionKeepsQuorum ==
    [][\A o \in Ordinals("elasticsearch-master") :
          (/\ HasQuorum("elasticsearch-master")
           /\ Owned("elasticsearch-master", o)
           /\ pod["elasticsearch-master"][o].phase # "absent"
           /\ pod'["elasticsearch-master"][o].phase = "absent")
              => HasQuorum("elasticsearch-master")']_vars

\* The StatefulSets of a LogFile that stays come up, all their pods ready:
\* nobody waits for a peer that waits for him, and a kept volume is no obstacle.
ComesUp ==
    \A s \in StatefulSets :
        <>[](exists /\ StatefulSet(s) \in plan.view)
            => <>[](ReadyPods(s) = Ordinals(s))

\* Kibana of a LogFile that stays logs in in the end, whatever passwords were set
\* before and whatever an earlier Job still does.
KibanaLogsIn ==
    <>[](exists /\ Deployment("kibana") \in plan.view)
        => <>[]KibanaCanLogIn

\* Logstash of a LogFile that stays logs in in the end.
LogstashLogsIn ==
    <>[](exists /\ Deployment("logstash") \in plan.view)
        => <>[]LogstashCanLogIn
=============================================================================
