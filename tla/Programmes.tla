----------------------------- MODULE Programmes -----------------------------
(***************************************************************************)
(* What LogFileReconciler.Run creates for each of the six deployment       *)
(* programmes (controllers/logfile_controller.go, controllers/Create_*.go).*)
(*                                                                         *)
(* One operator per create function of the source, with the source's name. *)
(* Its value is the sequence of the API objects the function creates, in   *)
(* the order of its r.Create calls.  With each object comes the set of the *)
(* objects its manifest names and cannot work without: the ConfigMaps,     *)
(* Secrets and ServiceAccounts its pods mount or run under, the governing  *)
(* Service of a StatefulSet, and the Services its configuration connects   *)
(* to; and its label app, which is also what its selector asks of pods and *)
(* what its pods have.  Probes, images, resources and environment are left out.            *)
(*                                                                         *)
(* Everything is created in namespace logfile-operator-system, so a kind   *)
(* and a name identify an object.                                          *)
(***************************************************************************)
EXTENDS Integers, Sequences

ConfigMap(name)      == [kind |-> "ConfigMap",           name |-> name]
Secret(name)         == [kind |-> "Secret",              name |-> name]
Service(name)        == [kind |-> "Service",             name |-> name]
ServiceAccount(name) == [kind |-> "ServiceAccount",      name |-> name]
StatefulSet(name)    == [kind |-> "StatefulSet",         name |-> name]
Deployment(name)     == [kind |-> "Deployment",          name |-> name]
Job(name)            == [kind |-> "Job",                 name |-> name]
Budget(name)         == [kind |-> "PodDisruptionBudget", name |-> name]

\* One call of r.Create: the object and what it refers to.
Created(object, refs) == [object |-> object, refs |-> refs]

\* Programmes 2, 4 and 6 run the three node Elasticsearch over https.
UsesCluster(p) == p \in {2, 4, 6}

\* Defect for Wired: the cluster is looked for under the name of the one node.
ElasticsearchHostOfOneNode(p) == Service("elasticsearch")

ElasticsearchHost(p) ==
    IF UsesCluster(p) THEN Service("elasticsearch-master")
                      ELSE Service("elasticsearch")

Certs == Secret("elasticsearch-master-certs")

-----------------------------------------------------------------------------
(* Filebeat: the output the sidecars are configured with. *)

FilebeatOutput(p) ==
    CASE p \in {1, 2} -> {ElasticsearchHost(p)}
      [] p \in {3, 4} -> {Service("logstash")}
      [] p = 5        -> {Service("kafka")}
      [] p = 6        -> {Service("kafka-cluster-headless")}
      [] OTHER        -> {}

FilebeatCreteConfigMap(p) ==
    <<Created(ConfigMap("filebeat-sidecar"), FilebeatOutput(p))>>

-----------------------------------------------------------------------------
(* Kafka with its own Zookeeper in one pod (programme 5). *)

KafkaCreteService ==
    <<Created(Service("kafka-headless"), {}), Created(Service("kafka"), {})>>

KafkaCreteStatefulSet ==
    <<Created(StatefulSet("kafka"),
              {Service("kafka-headless"), Service("kafka")})>>

-----------------------------------------------------------------------------
(* The three node Zookeeper and Kafka clusters (programme 6). *)

ZookerperClusterCreteConfigMap ==
    <<Created(ConfigMap("kafka-cluster-zookeeper-scripts"), {})>>

ZookerperClusterCreteService ==
    <<Created(Service("kafka-cluster-zookeeper-headless"), {}),
      Created(Service("kafka-cluster-zookeeper"), {})>>

ZookerperClusterCreteStatefulSet ==
    <<Created(StatefulSet("kafka-cluster-zookeeper"),
              {ConfigMap("kafka-cluster-zookeeper-scripts"),
               Service("kafka-cluster-zookeeper-headless")})>>

KafkaClusterCreteConfigMap ==
    <<Created(ConfigMap("kafka-cluster-scripts"), {})>>

KafkaClusterCreteService ==
    <<Created(Service("kafka-cluster-headless"), {}),
      Created(Service("kafka-cluster"), {})>>

KafkaClusterCreteServiceAccount ==
    <<Created(ServiceAccount("kafka-cluster"), {})>>

KafkaClusterCreteStatefulSet ==
    <<Created(StatefulSet("kafka-cluster"),
              {ConfigMap("kafka-cluster-scripts"),
               ServiceAccount("kafka-cluster"),
               Service("kafka-cluster-headless"),
               Service("kafka-cluster-zookeeper")})>>

-----------------------------------------------------------------------------
(* Logstash (programmes 3 to 6). *)

LogstashInput(p) ==
    CASE p = 5 -> {Service("kafka")}
      [] p = 6 -> {Service("kafka-cluster-headless")}
      [] OTHER -> {}

LogstashCreteConfigMap(p) ==
    <<Created(ConfigMap("logstashyml"), {}),
      Created(ConfigMap("logstashconf"),
              LogstashInput(p) \cup {ElasticsearchHost(p)})>>

LogstashCreteDeployment(p) ==
    <<Created(Deployment("logstash"),
              {ConfigMap("logstashyml"), ConfigMap("logstashconf")}
                  \cup (IF p \in {4, 6} THEN {Certs} ELSE {}))>>

LogstashCreteService == <<Created(Service("logstash"), {})>>

-----------------------------------------------------------------------------
(* Elasticsearch, one node (programmes 1, 3 and 5). *)

ElasticsearchCreteConfigMap == <<Created(ConfigMap("elasticsearch"), {})>>

ElasticsearchCreteService ==
    <<Created(Service("elasticsearch-headless"), {}),
      Created(Service("elasticsearch"), {})>>

ElasticsearchCreteStatefulSet ==
    <<Created(StatefulSet("elasticsearch"),
              {ConfigMap("elasticsearch"), Service("elasticsearch-headless")})>>

ElasticsearchKibanaUserCreteJob ==
    <<Created(Job("elasticsearch-set-kibana-password"),
              {Service("elasticsearch")})>>

-----------------------------------------------------------------------------
(* Elasticsearch, three nodes (programmes 2, 4 and 6). *)

ElasticsearchClusterCretePodDisruptionBudget ==
    <<Created(Budget("elasticsearch-master-pdb"), {})>>

ElasticsearchClusterCreteSecret == <<Created(Certs, {})>>

ElasticsearchClusterCreteService ==
    <<Created(Service("elasticsearch-master-headless"), {}),
      Created(Service("elasticsearch-master"), {})>>

ElasticsearchClusterCreteStatefulSet ==
    <<Created(StatefulSet("elasticsearch-master"),
              {Certs, Service("elasticsearch-master-headless")})>>

ElasticsearchClusterKibanaUserCreteJob ==
    <<Created(Job("elasticsearch-master-set-kibana-password"),
              {Certs, Service("elasticsearch-master")})>>

-----------------------------------------------------------------------------
(* Kibana (every programme). *)

KibanaCreteConfigMap(p) ==
    <<Created(ConfigMap("kibana"), {ElasticsearchHost(p)})>>

KibanaCreteService == <<Created(Service("kibana"), {})>>

KibanaCreteDeployment(p) ==
    <<Created(Deployment("kibana"),
              {ConfigMap("kibana")}
                  \cup (IF UsesCluster(p) THEN {Certs} ELSE {}))>>

-----------------------------------------------------------------------------
(***************************************************************************)
(* Run: the create calls of one programme, in order.  The two sleeps (80 s *)
(* before the password Job, 20 s before Kibana) are points between two     *)
(* calls, where anything may happen anyway.                                *)
(***************************************************************************)
\* labels["app"] as it is when the calls are made: Run has one map of labels,
\* and writes into it before each part.
Labelled(app, list) ==
    [i \in DOMAIN list |->
        [object |-> list[i].object, refs |-> list[i].refs, app |-> app]]

FilebeatPart(p) == Labelled("filebeat-sidecar", FilebeatCreteConfigMap(p))

KafkaPart(p) ==
    CASE p = 5 -> Labelled("kafka", KafkaCreteService \o KafkaCreteStatefulSet)
      [] p = 6 -> Labelled("kafka-cluster-zookeeper",
                           ZookerperClusterCreteConfigMap
                           \o ZookerperClusterCreteService
                           \o ZookerperClusterCreteStatefulSet)
                  \o Labelled("kafka-cluster",
                              KafkaClusterCreteConfigMap
                              \o KafkaClusterCreteService
                              \o KafkaClusterCreteServiceAccount
                              \o KafkaClusterCreteStatefulSet)
      [] OTHER -> <<>>

LogstashPart(p) ==
    IF p \in 3..6
    THEN Labelled("logstash",
                  LogstashCreteConfigMap(p) \o LogstashCreteDeployment(p)
                  \o LogstashCreteService)
    ELSE <<>>

ElasticsearchPart(p) ==
    CASE p \in {1, 3, 5} ->
           Labelled("elasticsearch",
                    ElasticsearchCreteConfigMap
                    \o ElasticsearchCreteService
                    \o ElasticsearchCreteStatefulSet
                    \o ElasticsearchKibanaUserCreteJob)
      [] p \in {2, 4, 6} ->
           Labelled("elasticsearch-master",
                    ElasticsearchClusterCretePodDisruptionBudget
                    \o ElasticsearchClusterCreteSecret
                    \o ElasticsearchClusterCreteService
                    \o ElasticsearchClusterCreteStatefulSet
                    \o ElasticsearchClusterKibanaUserCreteJob)
      [] OTHER -> <<>>

\* Defect for Wired: labels["app"] is not set again for Kibana.
KibanaPartKeepsLabel(p) ==
    Labelled("elasticsearch",
             KibanaCreteConfigMap(p) \o KibanaCreteService
             \o KibanaCreteDeployment(p))

KibanaPart(p) ==
    Labelled("kibana",
             KibanaCreteConfigMap(p) \o KibanaCreteService
             \o KibanaCreteDeployment(p))

RunCalls(p) ==
    FilebeatPart(p) \o KafkaPart(p) \o LogstashPart(p)
        \o ElasticsearchPart(p) \o KibanaPart(p)

\* The objects whose pods have the label app; those of a Job have no label.
PodsLabelled(list, app) ==
    {list[i].object :
        i \in {j \in DOMAIN list :
                  /\ list[j].object.kind \in {"StatefulSet", "Deployment"}
                  /\ list[j].app = app}}

\* The calls that create an object that selects pods by its own label app.
Selecting(list) ==
    {i \in DOMAIN list :
        list[i].object.kind
            \in {"Service", "PodDisruptionBudget", "StatefulSet", "Deployment"}}

\* The field of spec.nodePorts a Service publishes, "none" for the others.
NodePortField(object) ==
    CASE object \in {Service("elasticsearch"), Service("elasticsearch-master")}
           -> "elasticsearch"
      [] object = Service("kibana") -> "kibana"
      [] OTHER -> "none"
=============================================================================
