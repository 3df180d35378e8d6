------------------------------ MODULE Ensembles ------------------------------
(***************************************************************************)
(* The StatefulSets the programmes create, once Kubernetes runs them: the  *)
(* one Elasticsearch node, the Elasticsearch cluster, the Zookeeper        *)
(* ensemble and the Kafka brokers (controllers/Create_Elasticsearch.go,    *)
(* Create_ElasticsearchCluster.go, Create_ZookerperCluster.go and          *)
(* Create_KafkaCluster.go).  What the manifests and the scripts in them    *)
(* decide is taken from the source: in which order pods may start, who     *)
(* sees whom, what a readiness probe asks, which identity a server takes,  *)
(* what an eviction may take away.  Kubernetes, Elasticsearch, Zookeeper   *)
(* and Kafka themselves are as the manifests use them.                     *)
(***************************************************************************)
EXTENDS Integers, FiniteSets

CONSTANTS
    Replicas,      \* [StatefulSets -> Nat]: spec.replicas; 1 and 3 in the code
    None           \* no identity, no data

StatefulSets == {"elasticsearch", "elasticsearch-master",
                 "kafka-cluster-zookeeper", "kafka-cluster"}

Ordinals(s) == 0 .. Replicas[s] - 1

\* The sets whose servers have to find each other before they serve.
Clustered == {"elasticsearch-master", "kafka-cluster-zookeeper"}

ASSUME ReplicasAssumption ==
    /\ Replicas \in [StatefulSets -> Nat \ {0}]
    /\ Replicas["elasticsearch-master"] >= 3

ASSUME NoneAssumption == None \notin Int

VARIABLES
    pod,        \* [s][ordinal]: the pod of that name
    volume,     \* [s][ordinal]: what its claim keeps of the server's identity
    store,      \* [s]: what the servers of s keep together on their claims
    green       \* every shard of the Elasticsearch cluster is allocated

ensembles == <<pod, volume, store, green>>

\* of: the LogFile (its number) whose StatefulSet the pod is from.
\* member: it takes part in the cluster.  marker: /tmp/.es_start_file.
\* streak: probe results in a row that differ from ready.
NoPod == [phase |-> "absent", of |-> 0, ready |-> FALSE, marker |-> FALSE,
          streak |-> 0]

NoIdentity == [id |-> None, cluster |-> None]

-----------------------------------------------------------------------------
(* What the manifests say. *)

\* Defect for ComesUp: the default for the clusters too.
OrderedReady(s) == FALSE

\* podManagementPolicy; the one node has the default, OrderedReady.
Parallel(s) == s # "elasticsearch"

\* publishNotReadyAddresses of the headless Service peers look each other up in.
PublishNotReadyAddresses(s) == TRUE

SuccessThreshold(s) == IF s = "elasticsearch-master" THEN 3 ELSE 1

FailureThreshold(s) ==
    IF s \in {"elasticsearch", "elasticsearch-master"} THEN 3 ELSE 6

\* Defect for EvictionKeepsQuorum: two of the three may go.
TwoMayGo(s) == IF s = "elasticsearch-master" THEN 2 ELSE Replicas[s]

\* The PodDisruptionBudget: only the Elasticsearch cluster has one.
MaxUnavailable(s) == IF s = "elasticsearch-master" THEN 1 ELSE Replicas[s]

\* Defect for BrokersAreAccepted: Zookeeper writes into its container.
ZookeeperInContainer(s) == s # "kafka-cluster-zookeeper"

\* The data directory is on a claim of the volumeClaimTemplates, which outlives
\* pod and StatefulSet.
OnClaim(s) == TRUE

\* ZOO_SERVERS: the server id the others expect at each pod's name.
ZooServers == [o \in Ordinals("kafka-cluster-zookeeper") |-> o + 1]

\* Defect for ServersKeepTheirIds: Zookeeper counts from 0 as Kafka does.
CountsFromZero(s, o) ==
    IF volume[s][o].id # None THEN volume[s][o].id ELSE o

\* Defect for TypeOK: one is taken from the ordinal.
CountsBelowZero(s, o) ==
    IF volume[s][o].id # None THEN volume[s][o].id ELSE o - 1

\* The identity setup.sh exports: the one kept on the volume, else one made from
\* the ordinal in the host name.
ServerId(s, o) ==
    IF volume[s][o].id # None THEN volume[s][o].id
    ELSE o + (IF s = "kafka-cluster-zookeeper" THEN 1 ELSE 0)

-----------------------------------------------------------------------------
(* Who serves. *)

Up(p) == p.phase \in {"running", "member"}

Running(s) == {o \in Ordinals(s) : Up(pod[s][o])}

Members(s) == {o \in Ordinals(s) : pod[s][o].phase = "member"}

ReadyPods(s) == {o \in Ordinals(s) : pod[s][o].ready}

IsMajority(servers, s) == 2 * Cardinality(servers) > Replicas[s]

HasQuorum(s) == IsMajority(Members(s), s)

\* Behind the Service there is a ready pod, and its cluster takes requests.
Serves(s) == ReadyPods(s) # {} /\ (s \in Clustered => HasQuorum(s))

\* The servers that pod o of s can reach under the headless Service.
Reachable(s, o) ==
    {q \in Running(s) : q = o \/ PublishNotReadyAddresses(s) \/ pod[s][q].ready}

-----------------------------------------------------------------------------
(* Steps.  g is the number of the LogFile that owns the StatefulSet. *)

EnsemblesInit ==
    /\ pod = [s \in StatefulSets |-> [o \in Ordinals(s) |-> NoPod]]
    /\ volume = [s \in StatefulSets |-> [o \in Ordinals(s) |-> NoIdentity]]
    /\ store = [s \in StatefulSets |-> None]
    /\ green = FALSE

\* The StatefulSet controller creates a missing pod.
CreatePod(s, o, g) ==
    /\ pod[s][o].phase = "absent"
    /\ Parallel(s) \/ \A q \in 0 .. o - 1 : pod[s][q].ready
    /\ pod' = [pod EXCEPT ![s][o] = [NoPod EXCEPT !.phase = "starting",
                                                   !.of = g]]
    /\ UNCHANGED <<volume, store, green>>

\* What a Kafka broker asks of Zookeeper before it starts: to answer, and to
\* know the Kafka cluster the broker's meta.properties names.
BrokerAccepted(o) ==
    /\ Serves("kafka-cluster-zookeeper")
    /\ volume["kafka-cluster"][o].cluster
           \in {None, store["kafka-cluster-zookeeper"]}

\* The container runs its command; the first broker ever gives the cluster a
\* name that Zookeeper keeps.
Start(s, o) ==
    /\ pod[s][o].phase = "starting"
    /\ pod' = [pod EXCEPT ![s][o].phase = "running"]
    /\ UNCHANGED green
    /\ \/ /\ s \in {"elasticsearch", "elasticsearch-master"}
          /\ UNCHANGED <<volume, store>>
       \/ /\ s = "kafka-cluster-zookeeper"
          /\ volume' = [volume EXCEPT ![s][o].id = ServerId(s, o)]
          /\ UNCHANGED store
       \/ /\ s = "kafka-cluster"
          /\ BrokerAccepted(o)
          /\ store' = [store EXCEPT !["kafka-cluster-zookeeper"] =
                           IF @ = None THEN pod[s][o].of ELSE @]
          /\ volume' = [volume EXCEPT ![s][o] =
                           [id      |-> ServerId(s, o),
                            cluster |-> store'["kafka-cluster-zookeeper"]]]

\* A server that reaches a majority, itself included, takes part.
Join(s, o) ==
    /\ s \in Clustered
    /\ pod[s][o].phase = "running"
    /\ IsMajority(Reachable(s, o), s)
    /\ pod' = [pod EXCEPT ![s][o].phase = "member"]
    /\ UNCHANGED <<volume, store, green>>

\* The Elasticsearch cluster finishes allocating its shards.
Allocate ==
    /\ HasQuorum("elasticsearch-master")
    /\ ~green
    /\ green' = TRUE
    /\ UNCHANGED <<pod, volume, store>>

-----------------------------------------------------------------------------
(* Readiness. *)

\* Defect for ReadyIsKept: the script never finds its start file.
AlwaysWaitsForGreen(s, o) ==
    IF s # "elasticsearch-master" THEN {TRUE}
    ELSE {pod[s][o].phase = "member" /\ HasQuorum(s) /\ green}

\* What the probe may answer.  The script of the Elasticsearch cluster waits for
\* green until it has succeeded once, then asks only the node itself, which may
\* or may not answer without a master; the other probes ask whether the process
\* listens.
ProbeAnswers(s, o) ==
    IF s # "elasticsearch-master" THEN {TRUE}
    ELSE IF pod[s][o].marker
         THEN {TRUE} \cup {HasQuorum(s)}
         ELSE {pod[s][o].phase = "member" /\ HasQuorum(s) /\ green}

\* One run of the probe, and the kubelet's count of its results.
Probe(s, o) ==
    /\ Up(pod[s][o])
    /\ \E passed \in ProbeAnswers(s, o) :
         LET p == pod[s][o]
             count == IF passed = p.ready THEN 0 ELSE p.streak + 1
             turns == count = IF passed THEN SuccessThreshold(s)
                              ELSE FailureThreshold(s)
         IN  pod' = [pod EXCEPT ![s][o] =
               [p EXCEPT
                 !.ready  = IF turns THEN passed ELSE p.ready,
                 !.streak = IF turns THEN 0 ELSE count,
                 !.marker = p.marker \/ (s = "elasticsearch-master" /\ passed)]]
    /\ UNCHANGED <<volume, store, green>>

-----------------------------------------------------------------------------
(* Disruptions. *)

\* A cluster one of whose nodes goes has shards to allocate again.
GreenWithout(s, o) ==
    green /\ ~(s = "elasticsearch-master" /\ pod[s][o].phase = "member")

\* The container dies and the kubelet starts a new one: what was in its file
\* system (the marker) is gone.
Crash(s, o) ==
    /\ Up(pod[s][o])
    /\ pod' = [pod EXCEPT ![s][o] = [NoPod EXCEPT !.phase = "starting",
                                                   !.of = pod[s][o].of]]
    /\ green' = GreenWithout(s, o)
    /\ UNCHANGED <<volume, store>>

\* The pod is removed.  What is not on a claim goes with it.
RemovePod(s, o) ==
    /\ pod' = [pod EXCEPT ![s][o] = NoPod]
    /\ green' = GreenWithout(s, o)
    /\ IF OnClaim(s) THEN UNCHANGED <<volume, store>>
       ELSE /\ volume' = [volume EXCEPT ![s][o] = NoIdentity]
            /\ store' = [store EXCEPT ![s] =
                   IF \A q \in Ordinals(s) \ {o} : pod[s][q].phase = "absent"
                   THEN None ELSE @]

\* A drain evicts the pod if the budget has room: a ready pod when one more may
\* be missing, a pod that is not ready when none too many is.
EvictionAllowed(s, o) ==
    Cardinality(ReadyPods(s)) - (IF pod[s][o].ready THEN 1 ELSE 0)
        >= Replicas[s] - MaxUnavailable(s)

Evict(s, o) ==
    /\ pod[s][o].phase # "absent"
    /\ EvictionAllowed(s, o)
    /\ RemovePod(s, o)
=============================================================================
