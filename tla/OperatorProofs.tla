--------------------------- MODULE OperatorProofs ---------------------------
(***************************************************************************)
(* What an active LogFile has deployed works together: each object that a  *)
(* created object names is created by the same programme, and each         *)
(* selector selects one workload of it.                                    *)
(***************************************************************************)
EXTENDS Operator, ReconcilerProofs

-----------------------------------------------------------------------------
(* Lists of calls, before they are labelled and after.                     *)

IsList(list) == list \in Seq({list[i] : i \in DOMAIN list})

ObjectsOf(list) == {list[i].object : i \in DOMAIN list}
RefsOf(list) == UNION {list[i].refs : i \in DOMAIN list}

Workloads == {"StatefulSet", "Deployment"}
Selectors == {"Service", "PodDisruptionBudget"} \cup Workloads

\* The label app of a part is the name of its one workload.
WorkloadOf(app) ==
    IF app \in {"logstash", "kibana"} THEN Deployment(app) ELSE StatefulSet(app)

\* The workloads with a label are that one, and it is there if it is selected.
WellLabelled(list) ==
    \A i \in DOMAIN list :
        /\ list[i].object.kind \in Workloads
              => list[i].object = WorkloadOf(list[i].app)
        /\ list[i].object.kind \in Selectors
              => \E j \in DOMAIN list : /\ list[j].object = WorkloadOf(list[i].app)
                                        /\ list[j].app = list[i].app

\* A list is what its elements make it.
LEMMA ListOf ==
    ASSUME NEW S, NEW s \in Seq(S)
    PROVE  /\ IsList(s)
           /\ Len(s) \in Nat
           /\ DOMAIN s = 1..Len(s)
<1>1. Len(s) \in Nat /\ DOMAIN s = 1..Len(s)
  OBVIOUS
<1>2. s = [i \in 1..Len(s) |-> s[i]]
  OBVIOUS
<1>3. [i \in 1..Len(s) |-> s[i]] \in Seq({s[i] : i \in DOMAIN s})
  BY <1>1
<1> QED
  BY <1>1, <1>2, <1>3 DEF IsList

\* st has the elements of s and those of t, and no others.
Joined(s, t, st) ==
    /\ \A i \in DOMAIN s : i \in DOMAIN st /\ st[i] = s[i]
    /\ \A j \in DOMAIN t : \E k \in DOMAIN st : st[k] = t[j]
    /\ \A k \in DOMAIN st : \/ k \in DOMAIN s /\ st[k] = s[k]
                           \/ \E j \in DOMAIN t : st[k] = t[j]

\* A call that comes after others in Run is counted from their end.
LEMMA Concatenated ==
    ASSUME NEW s, NEW t, IsList(s), IsList(t)
    PROVE  /\ IsList(s \o t)
           /\ Joined(s, t, s \o t)
<1> DEFINE S == {s[i] : i \in DOMAIN s} \cup {t[i] : i \in DOMAIN t}
           st == s \o t
<1>1. s \in Seq(S) /\ t \in Seq(S)
  <2>1. /\ s \in Seq({s[i] : i \in DOMAIN s})
        /\ t \in Seq({t[i] : i \in DOMAIN t})
    BY DEF IsList
  <2> QED
    BY <2>1
<1> HIDE DEF S
<1>2. st \in Seq(S) /\ Len(st) = Len(s) + Len(t)
  BY <1>1
<1>3. /\ Len(s) \in Nat /\ Len(t) \in Nat
      /\ DOMAIN s = 1..Len(s) /\ DOMAIN t = 1..Len(t)
      /\ DOMAIN st = 1..(Len(s) + Len(t))
      /\ IsList(st)
  BY <1>1, <1>2, ListOf
<1>4. \A i \in DOMAIN s : i \in DOMAIN st /\ st[i] = s[i]
  BY <1>1, <1>3
<1>5. \A j \in DOMAIN t : Len(s) + j \in DOMAIN st /\ st[Len(s) + j] = t[j]
  BY <1>1, <1>3
<1>6. \A k \in DOMAIN st : k \notin DOMAIN s =>
          k - Len(s) \in DOMAIN t /\ Len(s) + (k - Len(s)) = k
  BY <1>3
<1> HIDE DEF st
<1>7. \A k \in DOMAIN st : \/ k \in DOMAIN s /\ st[k] = s[k]
                          \/ \E j \in DOMAIN t : st[k] = t[j]
  BY <1>4, <1>5, <1>6
<1>8. Joined(s, t, st)
  BY <1>4, <1>5, <1>7 DEF Joined
<1> QED
  BY <1>3, <1>8 DEF st

\* What a list needs, something in it needs.
LEMMA Needed ==
    ASSUME NEW list, NEW x
    PROVE  x \in RefsOf(list) <=> \E i \in DOMAIN list : x \in list[i].refs
BY DEF RefsOf

\* The parts of Run, one after the other, create and need what each of them does.
LEMMA UnionOfParts ==
    ASSUME NEW s, NEW t, IsList(s), IsList(t)
    PROVE  /\ IsList(s \o t)
           /\ ObjectsOf(s \o t) = ObjectsOf(s) \cup ObjectsOf(t)
           /\ RefsOf(s \o t) = RefsOf(s) \cup RefsOf(t)
           /\ WellLabelled(s) /\ WellLabelled(t) => WellLabelled(s \o t)
<1> DEFINE st == s \o t
<1>a. Joined(s, t, st)
  BY Concatenated
<1> HIDE DEF st
<1>0. /\ \A i \in DOMAIN s : i \in DOMAIN st /\ st[i] = s[i]
      /\ \A j \in DOMAIN t : \E k \in DOMAIN st : st[k] = t[j]
      /\ \A k \in DOMAIN st : \/ k \in DOMAIN s /\ st[k] = s[k]
                             \/ \E j \in DOMAIN t : st[k] = t[j]
  BY <1>a DEF Joined
<1>1. ObjectsOf(st) = ObjectsOf(s) \cup ObjectsOf(t)
  BY <1>0 DEF ObjectsOf
<1>2. RefsOf(st) = RefsOf(s) \cup RefsOf(t)
  <2>1. \A x : x \in RefsOf(st) <=> x \in RefsOf(s) \/ x \in RefsOf(t)
    BY <1>0, Needed
  <2> QED
    BY <2>1
<1>3. ASSUME WellLabelled(s), WellLabelled(t), NEW k \in DOMAIN st
      PROVE  /\ st[k].object.kind \in Workloads
                   => st[k].object = WorkloadOf(st[k].app)
             /\ st[k].object.kind \in Selectors
                   => \E j \in DOMAIN st :
                         /\ st[j].object = WorkloadOf(st[k].app)
                         /\ st[j].app = st[k].app
  <2>1. CASE k \in DOMAIN s /\ st[k] = s[k]
    BY <1>0, <1>3, <2>1 DEF WellLabelled
  <2>2. ASSUME NEW j \in DOMAIN t, st[k] = t[j]
        PROVE  /\ t[j].object.kind \in Workloads
                     => t[j].object = WorkloadOf(t[j].app)
               /\ t[j].object.kind \in Selectors
                     => \E i \in DOMAIN st :
                           /\ st[i].object = WorkloadOf(t[j].app)
                           /\ st[i].app = t[j].app
    BY <1>0, <1>3 DEF WellLabelled
  <2> QED
    BY <1>0, <2>1, <2>2
<1> QED
  BY <1>1, <1>2, <1>3, Concatenated DEF WellLabelled, st

\* A label changes neither what a part creates nor what it needs, and selects
\* the workload of the part when it is the workload's name.
LEMMA LabelledPart ==
    ASSUME NEW app, NEW list, IsList(list)
    PROVE  /\ IsList(Labelled(app, list))
           /\ ObjectsOf(Labelled(app, list)) = ObjectsOf(list)
           /\ RefsOf(Labelled(app, list)) = RefsOf(list)
           /\ /\ \A o \in ObjectsOf(list) :
                    o.kind \in Workloads => o = WorkloadOf(app)
              /\ \/ WorkloadOf(app) \in ObjectsOf(list)
                 \/ \A o \in ObjectsOf(list) : o.kind \notin Selectors
              => WellLabelled(Labelled(app, list))
<1> DEFINE labelled == Labelled(app, list)
<1>1. IsList(labelled)
  <2>1. Len(list) \in Nat /\ DOMAIN list = 1..Len(list)
    BY ListOf DEF IsList
  <2>2. labelled \in Seq({labelled[i] : i \in DOMAIN labelled})
    BY <2>1 DEF Labelled
  <2> QED
    BY <2>2 DEF IsList
<1>2. DOMAIN labelled = DOMAIN list
      /\ \A i \in DOMAIN list : /\ labelled[i].object = list[i].object
                                /\ labelled[i].refs = list[i].refs
                                /\ labelled[i].app = app
  BY DEF Labelled
<1> HIDE DEF labelled
<1>3. ObjectsOf(labelled) = ObjectsOf(list) /\ RefsOf(labelled) = RefsOf(list)
  BY <1>2 DEF ObjectsOf, RefsOf
<1>4. ASSUME \A o \in ObjectsOf(list) :
                o.kind \in Workloads => o = WorkloadOf(app),
             \/ WorkloadOf(app) \in ObjectsOf(list)
             \/ \A o \in ObjectsOf(list) : o.kind \notin Selectors
      PROVE  WellLabelled(labelled)
  BY <1>2, <1>4 DEF WellLabelled, ObjectsOf
<1> QED
  BY <1>1, <1>3, <1>4 DEF labelled

\* A create function with one call of r.Create.
LEMMA OneCall ==
    ASSUME NEW o, NEW r
    PROVE  /\ IsList(<<Created(o, r)>>)
           /\ ObjectsOf(<<Created(o, r)>>) = {o}
           /\ RefsOf(<<Created(o, r)>>) = r
<1> DEFINE x == Created(o, r)
<1>1. x.object = o /\ x.refs = r
  BY DEF Created
<1> HIDE DEF x
<1>2. <<x>> \in Seq({x}) /\ DOMAIN <<x>> = {1} /\ <<x>>[1] = x
  OBVIOUS
<1> DEFINE list == <<x>>
<1>3. IsList(list)
  BY <1>2, ListOf
<1> HIDE DEF list
<1>4. DOMAIN list = {1} /\ list[1].object = o /\ list[1].refs = r
  BY <1>1, <1>2 DEF list
<1>5. ObjectsOf(list) = {o} /\ RefsOf(list) = r
  BY <1>4 DEF ObjectsOf, RefsOf
<1> QED
  BY <1>3, <1>5 DEF list, x

\* A create function with two.
LEMMA TwoCalls ==
    ASSUME NEW o, NEW r, NEW p, NEW q
    PROVE  /\ IsList(<<Created(o, r), Created(p, q)>>)
           /\ ObjectsOf(<<Created(o, r), Created(p, q)>>) = {o, p}
           /\ RefsOf(<<Created(o, r), Created(p, q)>>) = r \cup q
<1> DEFINE x == Created(o, r)
           y == Created(p, q)
<1>1. x.object = o /\ x.refs = r /\ y.object = p /\ y.refs = q
  BY DEF Created
<1> HIDE DEF x, y
<1>2. /\ <<x, y>> \in Seq({x, y}) /\ DOMAIN <<x, y>> = {1, 2}
      /\ <<x, y>>[1] = x /\ <<x, y>>[2] = y
  OBVIOUS
<1> DEFINE list == <<x, y>>
<1>3. IsList(list)
  BY <1>2, ListOf
<1> HIDE DEF list
<1>4. /\ DOMAIN list = {1, 2}
      /\ list[1].object = o /\ list[1].refs = r
      /\ list[2].object = p /\ list[2].refs = q
  BY <1>1, <1>2 DEF list
<1>5. ObjectsOf(list) = {o, p} /\ RefsOf(list) = r \cup q
  BY <1>4 DEF ObjectsOf, RefsOf
<1> QED
  BY <1>3, <1>5 DEF list, x, y

\* A part that the programme leaves out.
LEMMA NoCall ==
    /\ IsList(<<>>)
    /\ ObjectsOf(<<>>) = {} /\ RefsOf(<<>>) = {} /\ WellLabelled(<<>>)
<1>1. <<>> \in Seq({0}) /\ DOMAIN <<>> = {}
  OBVIOUS
<1>2. IsList(<<>>)
  BY <1>1, ListOf
<1> QED
  BY <1>1, <1>2 DEF ObjectsOf, RefsOf, WellLabelled

\* The kinds of objects that Run creates.
LEMMA KindsOfObjects ==
    \A name :
        /\ ConfigMap(name).kind = "ConfigMap"
        /\ Secret(name).kind = "Secret"
        /\ Service(name).kind = "Service"
        /\ ServiceAccount(name).kind = "ServiceAccount"
        /\ StatefulSet(name).kind = "StatefulSet"
        /\ Deployment(name).kind = "Deployment"
        /\ Job(name).kind = "Job"
        /\ Budget(name).kind = "PodDisruptionBudget"
BY DEF ConfigMap, Secret, Service, ServiceAccount, StatefulSet, Deployment, Job,
       Budget
-----------------------------------------------------------------------------
(* The parts of Run.                                                       *)

Makes(list, objects, refs) ==
    IsList(list) /\ ObjectsOf(list) = objects /\ RefsOf(list) = refs

Wires(list, objects, refs) == Makes(list, objects, refs) /\ WellLabelled(list)

\* Two create functions, one after the other.
LEMMA MakesBoth ==
    ASSUME NEW s, NEW t, NEW o, NEW p, NEW q, NEW r,
           Makes(s, o, q), Makes(t, p, r)
    PROVE  Makes(s \o t, o \cup p, q \cup r)
BY UnionOfParts DEF Makes

\* Two parts, one after the other.
LEMMA WiresBoth ==
    ASSUME NEW s, NEW t, NEW o, NEW p, NEW q, NEW r,
           Wires(s, o, q), Wires(t, p, r)
    PROVE  Wires(s \o t, o \cup p, q \cup r)
BY UnionOfParts, MakesBoth DEF Wires, Makes

\* Create functions under one label.
LEMMA WiresPart ==
    ASSUME NEW app, NEW list, NEW objects, NEW refs,
           Makes(list, objects, refs),
           \A o \in objects : o.kind \in Workloads => o = WorkloadOf(app),
           \/ WorkloadOf(app) \in objects
           \/ \A o \in objects : o.kind \notin Selectors
    PROVE  Wires(Labelled(app, list), objects, refs)
BY LabelledPart DEF Wires, Makes

\* The ConfigMap of the sidecars refers to the output, and selects nothing.
LEMMA FilebeatWires ==
    ASSUME NEW p
    PROVE  Wires(FilebeatPart(p), {ConfigMap("filebeat-sidecar")},
                 FilebeatOutput(p))
<1>1. Makes(FilebeatCreteConfigMap(p), {ConfigMap("filebeat-sidecar")},
            FilebeatOutput(p))
  BY OneCall DEF FilebeatCreteConfigMap, Makes
<1>2. ConfigMap("filebeat-sidecar").kind \notin Selectors
  BY KindsOfObjects DEF Selectors, Workloads
<1>3. \A o \in {ConfigMap("filebeat-sidecar")} : o.kind \notin Selectors
  BY <1>2
<1> QED
  BY <1>1, <1>3, WiresPart DEF FilebeatPart, Selectors

\* Kafka with its own Zookeeper (programme 5).
LEMMA KafkaWires ==
    Wires(KafkaPart(5),
          {Service("kafka-headless"), Service("kafka"), StatefulSet("kafka")},
          {Service("kafka-headless"), Service("kafka")})
<1> DEFINE objects ==
      {Service("kafka-headless"), Service("kafka"), StatefulSet("kafka")}
<1>1. Makes(KafkaCreteService, {Service("kafka-headless"), Service("kafka")}, {})
  BY TwoCalls DEF KafkaCreteService, Makes
<1>2. Makes(KafkaCreteStatefulSet, {StatefulSet("kafka")},
            {Service("kafka-headless"), Service("kafka")})
  BY OneCall DEF KafkaCreteStatefulSet, Makes
<1>3. Makes(KafkaCreteService \o KafkaCreteStatefulSet, objects,
            {Service("kafka-headless"), Service("kafka")})
  <2>1. /\ objects = {Service("kafka-headless"), Service("kafka")}
                        \cup {StatefulSet("kafka")}
        /\ \A r : {} \cup r = r
    OBVIOUS
  <2> QED
    BY <1>1, <1>2, <2>1, MakesBoth
<1>4. WorkloadOf("kafka") = StatefulSet("kafka")
  BY DEF WorkloadOf
<1>5. \A o \in objects : o.kind \in Workloads => o = StatefulSet("kafka")
  BY KindsOfObjects DEF Workloads
<1>6. KafkaPart(5) = Labelled("kafka", KafkaCreteService \o KafkaCreteStatefulSet)
  BY DEF KafkaPart
<1> QED
  BY <1>3, <1>4, <1>5, <1>6, WiresPart

\* The three Zookeepers of programme 6.
LEMMA ZookeeperWires ==
    Wires(Labelled("kafka-cluster-zookeeper",
                   ZookerperClusterCreteConfigMap \o ZookerperClusterCreteService
                       \o ZookerperClusterCreteStatefulSet),
          {ConfigMap("kafka-cluster-zookeeper-scripts"),
           Service("kafka-cluster-zookeeper-headless"),
           Service("kafka-cluster-zookeeper"),
           StatefulSet("kafka-cluster-zookeeper")},
          {ConfigMap("kafka-cluster-zookeeper-scripts"),
           Service("kafka-cluster-zookeeper-headless")})
<1> DEFINE scripts == ConfigMap("kafka-cluster-zookeeper-scripts")
           headless == Service("kafka-cluster-zookeeper-headless")
           service == Service("kafka-cluster-zookeeper")
           zookeepers == StatefulSet("kafka-cluster-zookeeper")
           objects == {scripts, headless, service, zookeepers}
<1>1. Makes(ZookerperClusterCreteConfigMap, {scripts}, {})
  BY OneCall DEF ZookerperClusterCreteConfigMap, Makes
<1>2. Makes(ZookerperClusterCreteService, {headless, service}, {})
  BY TwoCalls DEF ZookerperClusterCreteService, Makes
<1>3. Makes(ZookerperClusterCreteStatefulSet, {zookeepers}, {scripts, headless})
  BY OneCall DEF ZookerperClusterCreteStatefulSet, Makes
<1>4. Makes(ZookerperClusterCreteConfigMap \o ZookerperClusterCreteService
                \o ZookerperClusterCreteStatefulSet,
            objects, {scripts, headless})
  <2>1. objects = ({scripts} \cup {headless, service}) \cup {zookeepers}
    OBVIOUS
  <2>2. \A r : {} \cup {} \cup r = r
    OBVIOUS
  <2> HIDE DEF scripts, headless, service, zookeepers, objects
  <2>3. Makes(ZookerperClusterCreteConfigMap \o ZookerperClusterCreteService,
              {scripts} \cup {headless, service}, {} \cup {})
    BY <1>1, <1>2, MakesBoth
  <2> QED
    BY <1>3, <2>1, <2>2, <2>3, MakesBoth
<1>5. WorkloadOf("kafka-cluster-zookeeper") = zookeepers
  BY DEF WorkloadOf
<1>6. \A o \in objects : o.kind \in Workloads => o = zookeepers
  BY KindsOfObjects DEF Workloads
<1> QED
  BY <1>4, <1>5, <1>6, WiresPart

\* The three brokers of programme 6, which find the Zookeepers by their Service.
LEMMA KafkaClusterWires ==
    Wires(Labelled("kafka-cluster",
                   KafkaClusterCreteConfigMap \o KafkaClusterCreteService
                       \o KafkaClusterCreteServiceAccount
                       \o KafkaClusterCreteStatefulSet),
          {ConfigMap("kafka-cluster-scripts"), Service("kafka-cluster-headless"),
           Service("kafka-cluster"), ServiceAccount("kafka-cluster"),
           StatefulSet("kafka-cluster")},
          {ConfigMap("kafka-cluster-scripts"), ServiceAccount("kafka-cluster"),
           Service("kafka-cluster-headless"), Service("kafka-cluster-zookeeper")})
<1> DEFINE scripts == ConfigMap("kafka-cluster-scripts")
           headless == Service("kafka-cluster-headless")
           service == Service("kafka-cluster")
           account == ServiceAccount("kafka-cluster")
           brokers == StatefulSet("kafka-cluster")
           objects == {scripts, headless, service, account, brokers}
           refs == {scripts, account, headless, Service("kafka-cluster-zookeeper")}
<1>1. Makes(KafkaClusterCreteConfigMap, {scripts}, {})
  BY OneCall DEF KafkaClusterCreteConfigMap, Makes
<1>2. Makes(KafkaClusterCreteService, {headless, service}, {})
  BY TwoCalls DEF KafkaClusterCreteService, Makes
<1>3. Makes(KafkaClusterCreteServiceAccount, {account}, {})
  BY OneCall DEF KafkaClusterCreteServiceAccount, Makes
<1>4. Makes(KafkaClusterCreteStatefulSet, {brokers}, refs)
  BY OneCall DEF KafkaClusterCreteStatefulSet, Makes
<1>5. Makes(KafkaClusterCreteConfigMap \o KafkaClusterCreteService
                \o KafkaClusterCreteServiceAccount
                \o KafkaClusterCreteStatefulSet,
            objects, refs)
  <2>1. objects = (({scripts} \cup {headless, service}) \cup {account})
                      \cup {brokers}
    OBVIOUS
  <2>2. \A r : (({} \cup {}) \cup {}) \cup r = r
    OBVIOUS
  <2> HIDE DEF scripts, headless, service, account, brokers, objects, refs
  <2>3. Makes(KafkaClusterCreteConfigMap \o KafkaClusterCreteService,
              {scripts} \cup {headless, service}, {} \cup {})
    BY <1>1, <1>2, MakesBoth
  <2>4. Makes(KafkaClusterCreteConfigMap \o KafkaClusterCreteService
                  \o KafkaClusterCreteServiceAccount,
              ({scripts} \cup {headless, service}) \cup {account},
              ({} \cup {}) \cup {})
    BY <1>3, <2>3, MakesBoth
  <2> QED
    BY <1>4, <2>1, <2>2, <2>4, MakesBoth
<1>6. WorkloadOf("kafka-cluster") = brokers
  BY DEF WorkloadOf
<1>7. \A o \in objects : o.kind \in Workloads => o = brokers
  BY KindsOfObjects DEF Workloads
<1> QED
  BY <1>5, <1>6, <1>7, WiresPart

\* Logstash (programmes 3 to 6).
LEMMA LogstashWires ==
    ASSUME NEW p \in 3..6
    PROVE  Wires(LogstashPart(p),
                 {ConfigMap("logstashyml"), ConfigMap("logstashconf"),
                  Deployment("logstash"), Service("logstash")},
                 LogstashInput(p) \cup {ElasticsearchHost(p)}
                     \cup {ConfigMap("logstashyml"), ConfigMap("logstashconf")}
                     \cup (IF p \in {4, 6} THEN {Certs} ELSE {}))
<1> DEFINE yml == ConfigMap("logstashyml")
           conf == ConfigMap("logstashconf")
           workload == Deployment("logstash")
           service == Service("logstash")
           objects == {yml, conf, workload, service}
           input == LogstashInput(p) \cup {ElasticsearchHost(p)}
           certs == IF p \in {4, 6} THEN {Certs} ELSE {}
           list == LogstashCreteConfigMap(p) \o LogstashCreteDeployment(p)
                       \o LogstashCreteService
<1>1. Makes(LogstashCreteConfigMap(p), {yml, conf}, {} \cup input)
  BY TwoCalls DEF LogstashCreteConfigMap, Makes
<1>2. Makes(LogstashCreteDeployment(p), {workload}, {yml, conf} \cup certs)
  BY OneCall DEF LogstashCreteDeployment, Makes
<1>3. Makes(LogstashCreteService, {service}, {})
  BY OneCall DEF LogstashCreteService, Makes
<1>4. Makes(list, objects, input \cup {yml, conf} \cup certs)
  <2>1. objects = ({yml, conf} \cup {workload}) \cup {service}
    OBVIOUS
  <2> HIDE DEF yml, conf, workload, service, objects, input, certs
  <2>2. (({} \cup input) \cup ({yml, conf} \cup certs)) \cup {}
            = input \cup {yml, conf} \cup certs
    OBVIOUS
  <2>3. Makes(LogstashCreteConfigMap(p) \o LogstashCreteDeployment(p),
              {yml, conf} \cup {workload},
              ({} \cup input) \cup ({yml, conf} \cup certs))
    BY <1>1, <1>2, MakesBoth
  <2> QED
    BY <1>3, <2>1, <2>2, <2>3, MakesBoth
<1>5. WorkloadOf("logstash") = workload
  BY DEF WorkloadOf
<1>6. \A o \in objects : o.kind \in Workloads => o = workload
  BY KindsOfObjects DEF Workloads
<1>7. LogstashPart(p) = Labelled("logstash", list)
  BY DEF LogstashPart
<1> HIDE DEF list
<1> QED
  BY <1>4, <1>5, <1>6, <1>7, WiresPart

\* Elasticsearch with one node (programmes 1, 3 and 5).
LEMMA ElasticsearchWires ==
    ASSUME NEW p \in {1, 3, 5}
    PROVE  Wires(ElasticsearchPart(p),
                 {ConfigMap("elasticsearch"), Service("elasticsearch-headless"),
                  Service("elasticsearch"), StatefulSet("elasticsearch"),
                  Job("elasticsearch-set-kibana-password")},
                 {ConfigMap("elasticsearch"), Service("elasticsearch-headless"),
                  Service("elasticsearch")})
<1> DEFINE config == ConfigMap("elasticsearch")
           headless == Service("elasticsearch-headless")
           service == Service("elasticsearch")
           node == StatefulSet("elasticsearch")
           job == Job("elasticsearch-set-kibana-password")
           objects == {config, headless, service, node, job}
           list == ElasticsearchCreteConfigMap \o ElasticsearchCreteService
                       \o ElasticsearchCreteStatefulSet
                       \o ElasticsearchKibanaUserCreteJob
<1>1. Makes(ElasticsearchCreteConfigMap, {config}, {})
  BY OneCall DEF ElasticsearchCreteConfigMap, Makes
<1>2. Makes(ElasticsearchCreteService, {headless, service}, {} \cup {})
  BY TwoCalls DEF ElasticsearchCreteService, Makes
<1>3. Makes(ElasticsearchCreteStatefulSet, {node}, {config, headless})
  BY OneCall DEF ElasticsearchCreteStatefulSet, Makes
<1>4. Makes(ElasticsearchKibanaUserCreteJob, {job}, {service})
  BY OneCall DEF ElasticsearchKibanaUserCreteJob, Makes
<1>5. Makes(list, objects, {config, headless, service})
  <2>1. objects = (({config} \cup {headless, service}) \cup {node}) \cup {job}
    OBVIOUS
  <2> HIDE DEF config, headless, service, node, job, objects
  <2>2. (({} \cup ({} \cup {})) \cup {config, headless}) \cup {service}
            = {config, headless, service}
    OBVIOUS
  <2>3. Makes(ElasticsearchCreteConfigMap \o ElasticsearchCreteService,
              {config} \cup {headless, service}, {} \cup ({} \cup {}))
    BY <1>1, <1>2, MakesBoth
  <2>4. Makes(ElasticsearchCreteConfigMap \o ElasticsearchCreteService
                  \o ElasticsearchCreteStatefulSet,
              ({config} \cup {headless, service}) \cup {node},
              ({} \cup ({} \cup {})) \cup {config, headless})
    BY <1>3, <2>3, MakesBoth
  <2> QED
    BY <1>4, <2>1, <2>2, <2>4, MakesBoth
<1>6. WorkloadOf("elasticsearch") = node
  BY DEF WorkloadOf
<1>7. \A o \in objects : o.kind \in Workloads => o = node
  BY KindsOfObjects DEF Workloads
<1>8. ElasticsearchPart(p) = Labelled("elasticsearch", list)
  BY DEF ElasticsearchPart
<1> HIDE DEF list
<1> QED
  BY <1>5, <1>6, <1>7, <1>8, WiresPart

\* Elasticsearch with three nodes (programmes 2, 4 and 6).
LEMMA ElasticsearchClusterWires ==
    ASSUME NEW p \in {2, 4, 6}
    PROVE  Wires(ElasticsearchPart(p),
                 {Budget("elasticsearch-master-pdb"), Certs,
                  Service("elasticsearch-master-headless"),
                  Service("elasticsearch-master"),
                  StatefulSet("elasticsearch-master"),
                  Job("elasticsearch-master-set-kibana-password")},
                 {Certs, Service("elasticsearch-master-headless"),
                  Service("elasticsearch-master")})
<1> DEFINE budgeted == Budget("elasticsearch-master-pdb")
           headless == Service("elasticsearch-master-headless")
           service == Service("elasticsearch-master")
           nodes == StatefulSet("elasticsearch-master")
           job == Job("elasticsearch-master-set-kibana-password")
           objects == {budgeted, Certs, headless, service, nodes, job}
           list == ElasticsearchClusterCretePodDisruptionBudget
                       \o ElasticsearchClusterCreteSecret
                       \o ElasticsearchClusterCreteService
                       \o ElasticsearchClusterCreteStatefulSet
                       \o ElasticsearchClusterKibanaUserCreteJob
<1>1. Makes(ElasticsearchClusterCretePodDisruptionBudget, {budgeted}, {})
  BY OneCall DEF ElasticsearchClusterCretePodDisruptionBudget, Makes
<1>2. Makes(ElasticsearchClusterCreteSecret, {Certs}, {})
  BY OneCall DEF ElasticsearchClusterCreteSecret, Makes
<1>3. Makes(ElasticsearchClusterCreteService, {headless, service}, {} \cup {})
  BY TwoCalls DEF ElasticsearchClusterCreteService, Makes
<1>4. Makes(ElasticsearchClusterCreteStatefulSet, {nodes}, {Certs, headless})
  BY OneCall DEF ElasticsearchClusterCreteStatefulSet, Makes
<1>5. Makes(ElasticsearchClusterKibanaUserCreteJob, {job}, {Certs, service})
  BY OneCall DEF ElasticsearchClusterKibanaUserCreteJob, Makes
<1>6. Makes(list, objects, {Certs, headless, service})
  <2>1. objects = ((({budgeted} \cup {Certs}) \cup {headless, service})
                      \cup {nodes}) \cup {job}
    OBVIOUS
  <2> HIDE DEF budgeted, headless, service, nodes, job, objects
  <2>2. ((({} \cup {}) \cup ({} \cup {})) \cup {Certs, headless})
            \cup {Certs, service} = {Certs, headless, service}
    OBVIOUS
  <2>3. Makes(ElasticsearchClusterCretePodDisruptionBudget
                  \o ElasticsearchClusterCreteSecret,
              {budgeted} \cup {Certs}, {} \cup {})
    BY <1>1, <1>2, MakesBoth
  <2>4. Makes(ElasticsearchClusterCretePodDisruptionBudget
                  \o ElasticsearchClusterCreteSecret
                  \o ElasticsearchClusterCreteService,
              ({budgeted} \cup {Certs}) \cup {headless, service},
              ({} \cup {}) \cup ({} \cup {}))
    BY <1>3, <2>3, MakesBoth
  <2>5. Makes(ElasticsearchClusterCretePodDisruptionBudget
                  \o ElasticsearchClusterCreteSecret
                  \o ElasticsearchClusterCreteService
                  \o ElasticsearchClusterCreteStatefulSet,
              (({budgeted} \cup {Certs}) \cup {headless, service}) \cup {nodes},
              (({} \cup {}) \cup ({} \cup {})) \cup {Certs, headless})
    BY <1>4, <2>4, MakesBoth
  <2> QED
    BY <1>5, <2>1, <2>2, <2>5, MakesBoth
<1>7. WorkloadOf("elasticsearch-master") = nodes
  BY DEF WorkloadOf
<1>8. \A o \in objects : o.kind \in Workloads => o = nodes
  BY KindsOfObjects DEF Workloads, Certs
<1>9. ElasticsearchPart(p) = Labelled("elasticsearch-master", list)
  BY DEF ElasticsearchPart
<1> HIDE DEF list
<1> QED
  BY <1>6, <1>7, <1>8, <1>9, WiresPart

\* Kibana (every programme).
LEMMA KibanaWires ==
    ASSUME NEW p
    PROVE  Wires(KibanaPart(p),
                 {ConfigMap("kibana"), Service("kibana"), Deployment("kibana")},
                 {ElasticsearchHost(p), ConfigMap("kibana")}
                     \cup (IF UsesCluster(p) THEN {Certs} ELSE {}))
<1> DEFINE config == ConfigMap("kibana")
           service == Service("kibana")
           workload == Deployment("kibana")
           objects == {config, service, workload}
           host == ElasticsearchHost(p)
           certs == IF UsesCluster(p) THEN {Certs} ELSE {}
           list == KibanaCreteConfigMap(p) \o KibanaCreteService
                       \o KibanaCreteDeployment(p)
<1>1. Makes(KibanaCreteConfigMap(p), {config}, {host})
  BY OneCall DEF KibanaCreteConfigMap, Makes
<1>2. Makes(KibanaCreteService, {service}, {})
  BY OneCall DEF KibanaCreteService, Makes
<1>3. Makes(KibanaCreteDeployment(p), {workload}, {config} \cup certs)
  BY OneCall DEF KibanaCreteDeployment, Makes
<1>4. Makes(list, objects, {host, config} \cup certs)
  <2>1. objects = ({config} \cup {service}) \cup {workload}
    OBVIOUS
  <2> HIDE DEF config, service, workload, objects, host, certs
  <2>2. ({host} \cup {}) \cup ({config} \cup certs) = {host, config} \cup certs
    OBVIOUS
  <2>3. Makes(KibanaCreteConfigMap(p) \o KibanaCreteService,
              {config} \cup {service}, {host} \cup {})
    BY <1>1, <1>2, MakesBoth
  <2> QED
    BY <1>3, <2>1, <2>2, <2>3, MakesBoth
<1>5. WorkloadOf("kibana") = workload
  BY DEF WorkloadOf
<1>6. \A o \in objects : o.kind \in Workloads => o = workload
  BY KindsOfObjects DEF Workloads
<1>7. KibanaPart(p) = Labelled("kibana", list)
  BY DEF KibanaPart
<1> HIDE DEF list
<1> QED
  BY <1>4, <1>5, <1>6, <1>7, WiresPart

-----------------------------------------------------------------------------
(* A programme refers to nothing but what it creates.                      *)

\* Run has all its calls in order: those of Filebeat first, of Kibana last.
LEMMA RunWires ==
    ASSUME NEW p, NEW ko, NEW kr, NEW lo, NEW lr, NEW eo, NEW er,
           Wires(KafkaPart(p), ko, kr),
           Wires(LogstashPart(p), lo, lr),
           Wires(ElasticsearchPart(p), eo, er)
    PROVE  Wires(RunCalls(p),
                 ((({ConfigMap("filebeat-sidecar")} \cup ko) \cup lo) \cup eo)
                     \cup {ConfigMap("kibana"), Service("kibana"),
                           Deployment("kibana")},
                 (((FilebeatOutput(p) \cup kr) \cup lr) \cup er)
                     \cup ({ElasticsearchHost(p), ConfigMap("kibana")}
                               \cup (IF UsesCluster(p) THEN {Certs} ELSE {})))
<1> DEFINE fo == {ConfigMap("filebeat-sidecar")}
           fr == FilebeatOutput(p)
<1>1. Wires(FilebeatPart(p), fo, fr)
  BY FilebeatWires
<1> HIDE DEF fo, fr
<1>2. Wires(FilebeatPart(p) \o KafkaPart(p), fo \cup ko, fr \cup kr)
  BY <1>1, WiresBoth
<1>3. Wires(FilebeatPart(p) \o KafkaPart(p) \o LogstashPart(p),
            (fo \cup ko) \cup lo, (fr \cup kr) \cup lr)
  BY <1>2, WiresBoth
<1>4. Wires(FilebeatPart(p) \o KafkaPart(p) \o LogstashPart(p)
                \o ElasticsearchPart(p),
            ((fo \cup ko) \cup lo) \cup eo, ((fr \cup kr) \cup lr) \cup er)
  BY <1>3, WiresBoth
<1> DEFINE o == {ConfigMap("kibana"), Service("kibana"), Deployment("kibana")}
           r == {ElasticsearchHost(p), ConfigMap("kibana")}
                    \cup (IF UsesCluster(p) THEN {Certs} ELSE {})
<1>5. Wires(KibanaPart(p), o, r)
  BY KibanaWires
<1> HIDE DEF o, r
<1>6. Wires(RunCalls(p), (((fo \cup ko) \cup lo) \cup eo) \cup o,
                         (((fr \cup kr) \cup lr) \cup er) \cup r)
  BY <1>4, <1>5, WiresBoth DEF RunCalls
<1> QED
  BY <1>6 DEF fo, fr, o, r

\* Every ConfigMap, Secret, ServiceAccount and Service that an object of a
\* programme names is created by that programme, whichever it is.
LEMMA ProgrammesClosed ==
    ASSUME NEW p \in 1..6
    PROVE  /\ IsList(RunCalls(p))
           /\ WellLabelled(RunCalls(p))
           /\ RefsOf(RunCalls(p)) \subseteq ObjectsOf(RunCalls(p))
<1>1. Wires(<<>>, {}, {})
  BY NoCall DEF Wires, Makes
<1>2. CASE p = 1
  <2>1. KafkaPart(p) = <<>> /\ LogstashPart(p) = <<>>
    BY <1>2 DEF KafkaPart, LogstashPart
  <2>2. /\ ElasticsearchHost(p) = Service("elasticsearch")
        /\ FilebeatOutput(p) = {Service("elasticsearch")}
        /\ ~ UsesCluster(p)
    BY <1>2 DEF ElasticsearchHost, UsesCluster, FilebeatOutput
  <2> QED
    BY <1>1, <1>2, <2>1, <2>2, ElasticsearchWires, RunWires DEF Wires, Makes
<1>3. CASE p = 2
  <2>1. KafkaPart(p) = <<>> /\ LogstashPart(p) = <<>>
    BY <1>3 DEF KafkaPart, LogstashPart
  <2>2. /\ ElasticsearchHost(p) = Service("elasticsearch-master")
        /\ FilebeatOutput(p) = {Service("elasticsearch-master")}
    BY <1>3 DEF ElasticsearchHost, UsesCluster, FilebeatOutput
  <2> QED
    BY <1>1, <1>3, <2>1, <2>2, ElasticsearchClusterWires, RunWires DEF Wires, Makes
<1>4. CASE p = 3
  <2>1. KafkaPart(p) = <<>> /\ LogstashInput(p) = {}
    BY <1>4 DEF KafkaPart, LogstashInput
  <2>2. /\ ElasticsearchHost(p) = Service("elasticsearch")
        /\ FilebeatOutput(p) = {Service("logstash")}
        /\ ~ UsesCluster(p)
    BY <1>4 DEF ElasticsearchHost, UsesCluster, FilebeatOutput
  <2> QED
    BY <1>1, <1>4, <2>1, <2>2, LogstashWires, ElasticsearchWires, RunWires
    DEF Wires, Makes
<1>5. CASE p = 4
  <2>1. KafkaPart(p) = <<>> /\ LogstashInput(p) = {}
    BY <1>5 DEF KafkaPart, LogstashInput
  <2>2. /\ ElasticsearchHost(p) = Service("elasticsearch-master")
        /\ FilebeatOutput(p) = {Service("logstash")}
    BY <1>5 DEF ElasticsearchHost, UsesCluster, FilebeatOutput
  <2> QED
    BY <1>1, <1>5, <2>1, <2>2, LogstashWires, ElasticsearchClusterWires, RunWires
    DEF Wires, Makes
<1>6. CASE p = 5
  <2>1. LogstashInput(p) = {Service("kafka")}
    BY <1>6 DEF LogstashInput
  <2>2. /\ ElasticsearchHost(p) = Service("elasticsearch")
        /\ FilebeatOutput(p) = {Service("kafka")}
        /\ ~ UsesCluster(p)
    BY <1>6 DEF ElasticsearchHost, UsesCluster, FilebeatOutput
  <2> QED
    BY <1>6, <2>1, <2>2, KafkaWires, LogstashWires, ElasticsearchWires, RunWires
    DEF Wires, Makes
<1>7. CASE p = 6
  <2>1. LogstashInput(p) = {Service("kafka-cluster-headless")}
    BY <1>7 DEF LogstashInput
  <2>2. /\ ElasticsearchHost(p) = Service("elasticsearch-master")
        /\ FilebeatOutput(p) = {Service("kafka-cluster-headless")}
    BY <1>7 DEF ElasticsearchHost, UsesCluster, FilebeatOutput
  <2> DEFINE ko == {ConfigMap("kafka-cluster-zookeeper-scripts"),
                    Service("kafka-cluster-zookeeper-headless"),
                    Service("kafka-cluster-zookeeper"),
                    StatefulSet("kafka-cluster-zookeeper")}
                   \cup {ConfigMap("kafka-cluster-scripts"),
                         Service("kafka-cluster-headless"),
                         Service("kafka-cluster"),
                         ServiceAccount("kafka-cluster"),
                         StatefulSet("kafka-cluster")}
             kr == {ConfigMap("kafka-cluster-zookeeper-scripts"),
                    Service("kafka-cluster-zookeeper-headless")}
                   \cup {ConfigMap("kafka-cluster-scripts"),
                         ServiceAccount("kafka-cluster"),
                         Service("kafka-cluster-headless"),
                         Service("kafka-cluster-zookeeper")}
  <2>3. Wires(KafkaPart(p), ko, kr)
    BY <1>7, ZookeeperWires, KafkaClusterWires, WiresBoth DEF KafkaPart
  <2> QED
    BY <1>7, <2>1, <2>2, <2>3, LogstashWires, ElasticsearchClusterWires, RunWires
    DEF Wires, Makes
<1> QED
  BY <1>2, <1>3, <1>4, <1>5, <1>6, <1>7

\* What selects pods by a label selects those of that label's one workload.
LEMMA OneSelected ==
    ASSUME NEW list, WellLabelled(list), NEW i \in Selecting(list)
    PROVE  /\ PodsLabelled(list, list[i].app) = {WorkloadOf(list[i].app)}
           /\ WorkloadOf(list[i].app) \in ObjectsOf(list)
<1> DEFINE app == list[i].app
<1>1. i \in DOMAIN list /\ list[i].object.kind \in Selectors
  BY DEF Selecting, Selectors, Workloads
<1>2. PICK j \in DOMAIN list :
          list[j].object = WorkloadOf(app) /\ list[j].app = app
  BY <1>1 DEF WellLabelled
<1>3. WorkloadOf(app).kind \in Workloads
  BY KindsOfObjects DEF WorkloadOf, Workloads
<1> HIDE DEF app
<1>4. \A k \in DOMAIN list :
          list[k].object.kind \in Workloads /\ list[k].app = app
              => list[k].object = WorkloadOf(app)
  BY DEF WellLabelled
<1>5. PodsLabelled(list, app) = {WorkloadOf(app)}
  BY <1>2, <1>3, <1>4 DEF PodsLabelled, Workloads
<1> QED
  BY <1>2, <1>5 DEF ObjectsOf, app

-----------------------------------------------------------------------------
\* When a LogFile reports "Active" (Run, Status().Update), everything its
\* objects name is there and is its own, and each selector of a Service,
\* StatefulSet, Deployment or PodDisruptionBudget selects one workload of its.
THEOREM AlwaysWired == Spec => []Wired
<1>1. Inductive => Wired
  <2> SUFFICES ASSUME Inductive, NEW u \in UIDs, Active(u)
               PROVE  LET calls == Calls[lf[u].spec.programmeNum] IN
                      /\ \A i \in DOMAIN calls : \A ref \in calls[i].refs :
                            ref \in Objects /\ children[ref] = u
                      /\ \A i \in Selecting(calls) : \E o \in Objects :
                            /\ PodsLabelled(calls, calls[i].app) = {o}
                            /\ children[o] = u
    BY DEF Wired
  <2> DEFINE p == lf[u].spec.programmeNum
             calls == RunCalls(p)
  <2>1. lf[u] \in Versions
    BY DEF Inductive, TypeOK, Active, Live
  <2>2. p \in 1..6
    BY <2>1, ProgrammeOfVersion
  <2>3. Calls[p] = calls
    BY <2>2 DEF Calls
  <2>4. Steps[p] = [i \in 1..Len(calls) |-> calls[i].object]
    BY <2>2, <2>3, OperatorAssumption DEF ProgrammeSteps
  <2>5. /\ IsList(calls) /\ WellLabelled(calls)
        /\ RefsOf(calls) \subseteq ObjectsOf(calls)
    BY <2>2, ProgrammesClosed
  <2>6. Steps[p] \in Seq(Objects)
    BY <2>2, StepsAssumption
  <2> HIDE DEF calls
  <2>7. DOMAIN calls = 1..Len(calls) /\ Len(calls) \in Nat
    BY <2>5, ListOf DEF IsList
  <2>8. \A o \in ObjectsOf(calls) : o \in Objects /\ children[o] = u
    <3> SUFFICES ASSUME NEW i \in 1..Len(calls)
                 PROVE  calls[i].object \in Objects /\ children[calls[i].object] = u
      BY <2>7 DEF ObjectsOf
    <3>1. Len(Steps[p]) = Len(calls) /\ Steps[p][i] = calls[i].object
      BY <2>4, <2>6, <2>7
    <3>2. Steps[p][i] \in Objects
      BY <2>6, <3>1
    <3>3. children[Steps[p][i]] = u
      BY <3>1 DEF Inductive, ActiveIsDeployed
    <3> QED
      BY <3>1, <3>2, <3>3
  <2>9. \A i \in DOMAIN calls : \A ref \in calls[i].refs : ref \in ObjectsOf(calls)
    BY <2>5, Needed
  <2>10. \A i \in Selecting(calls) : \E o \in ObjectsOf(calls) :
            PodsLabelled(calls, calls[i].app) = {o}
    BY <2>5, OneSelected
  <2> QED
    BY <2>3, <2>8, <2>9, <2>10
<1> QED
  BY <1>1, InductiveInvariant, PTL
=============================================================================
