---------------------------- MODULE MCReconciler ----------------------------
(***************************************************************************)
(* Reconciler for TLC, with the programmes cut to three objects: the       *)
(* Filebeat ConfigMap they share, an Elasticsearch Service of their own    *)
(* that publishes a node port, and the Kibana Service they share.          *)
(***************************************************************************)
EXTENDS ReconcilerLock, TLC

CONSTANTS Fb, Es, EsMaster, Kb

ShortSteps ==
    [p \in 1..6 |-> IF p \in {2, 4, 6} THEN <<Fb, EsMaster, Kb>>
                                       ELSE <<Fb, Es, Kb>>]

ShortPorts ==
    [o \in {Fb, Es, EsMaster, Kb} |->
        IF o \in {Es, EsMaster} THEN "elasticsearch"
        ELSE IF o = Kb THEN "kibana" ELSE "none"]

Ask(p) == [programmeNum |-> p, resourceStorage |-> Nil, nodePorts |-> Nil]

\* Names and uids are interchangeable; used where only safety is checked.
Interchangeable == Permutations(Names) \cup Permutations(UIDs)

\* A request for each kind of Elasticsearch, and two the webhook refuses.
TwoProgrammes == {Ask(1), Ask(2), Ask(0), Ask(7)}
=============================================================================
