--------------------------- MODULE ReconcilerLock ---------------------------
(***************************************************************************)
(* Reconciler implements DeploymentLock: the lock is ConfigMap             *)
(* filebeat-sidecar, the first object of every programme, and its holder   *)
(* the LogFile in the ConfigMap's owner reference.                         *)
(***************************************************************************)
EXTENDS Reconciler

LockPhase ==
    [u \in UIDs |->
        IF lf[u] = None THEN "absent"
        ELSE IF Active(u) THEN "active"
        ELSE IF Live(u) THEN "waiting" ELSE "deleted"]

Lock == INSTANCE DeploymentLock
            WITH phase <- LockPhase, holder <- children[FilebeatConfigMap]

\* The controller takes, keeps and gives back ConfigMap filebeat-sidecar as
\* DeploymentLock says, and a deleted LogFile's is given back in the end.
ImplementsLock == Lock!FairSpec
=============================================================================
