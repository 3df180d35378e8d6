------------------------------- MODULE MCStack -------------------------------
(***************************************************************************)
(* Stack for TLC: what users do, one part of a programme in view at a      *)
(* time, for the parts share nothing.                                      *)
(***************************************************************************)
EXTENDS Stack

\* As the code has it, but for the third Zookeeper server and the third broker:
\* the Elasticsearch cluster shows what two of three can do.
ReplicasInView ==
    [s \in StatefulSets |->
        CASE s = "elasticsearch" -> 1 [] s = "elasticsearch-master" -> 3
          [] OTHER -> 2]

Ask(p, elastic, kibana) ==
    [programme |-> p, elastic |-> elastic, kibana |-> kibana]

User(view, logfiles, n) ==
    [view |-> view, logfiles |-> logfiles, disruptions |-> n]

OneNode ==
    {StatefulSet("elasticsearch"), Job("elasticsearch-set-kibana-password"),
     Deployment("kibana")}

ThreeNodes ==
    {StatefulSet("elasticsearch-master"),
     Job("elasticsearch-master-set-kibana-password"), Deployment("kibana")}

Kafka == {StatefulSet("kafka-cluster-zookeeper"), StatefulSet("kafka-cluster")}

\* One node: the same password of elastic and another one of Kibana, then other
\* passwords.  The cluster: pods that fail and are evicted.  Zookeeper and Kafka:
\* a second LogFile on the volumes of the first.
Users ==
    {User(OneNode,
          <<Ask(1, "x", "y"), Ask(3, "x", "z"), Ask(5, "z", "z")>>, 1),
     User(ThreeNodes, <<Ask(2, "x", "y")>>, 2),
     User(Kafka, <<Ask(6, "x", "y"), Ask(6, "x", "y")>>, 1)}

\* Logstash, with two passwords.
TwoPasswords ==
    {User(OneNode \cup {Deployment("logstash")}, <<Ask(3, "x", "y")>>, 1)}
=============================================================================
