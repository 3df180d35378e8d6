------------------------------ MODULE Injection ------------------------------
(***************************************************************************)
(* The two halves of the manager together: Reconciler creates and loses    *)
(* ConfigMap filebeat-sidecar and Secret elasticsearch-master-certs, and   *)
(* SidecarInjector reads them.  The pod webhook reads the API server, not  *)
(* the cache, and is down when the manager is.                             *)
(***************************************************************************)
EXTENDS Reconciler

CONSTANTS
    CertsSecret,   \* Secret elasticsearch-master-certs
    PodNames,
    Pods,
    CallsFail      \* whether a read of the pod webhook may fail

\* The Secret is created by programme 2, and is not the ConfigMap.
ASSUME CertsAssumption ==
    /\ CertsSecret \in Objects \ {FilebeatConfigMap}
    /\ \E i \in 1..Len(Steps[2]) : Steps[2][i] = CertsSecret

VARIABLES pods, review

\* What ConfigMap filebeat-sidecar says: the programme of the LogFile it was
\* created for.
SidecarConfig ==
    LET owner == children[FilebeatConfigMap] IN
    IF owner = None
    THEN None
    ELSE [deployment |-> owner, programme |-> lf[owner].spec.programmeNum]

Injector ==
    INSTANCE SidecarInjector
        WITH Deployments <- UIDs, ProgrammeNums <- 1..6,
             configMap <- SidecarConfig, certs <- children[CertsSecret] # None

ASSUME InjectionAssumption ==
    /\ CallsFail \in BOOLEAN
    /\ None \notin Injector!ConfigMaps
    /\ \A pod \in Pods : Injector!Submittable(pod)

webhook == <<pods, review>>

InjectionInit ==
    /\ Init
    /\ pods = [p \in PodNames |-> None]
    /\ review = [p \in PodNames |-> None]

\* The manager answers, and the API server acts on what it was answered.  The
\* updates of pods, which read the same two objects, are left out here.
WebhookStep ==
    /\ UNCHANGED vars
    /\ \E p \in PodNames :
          \/ /\ manager = "up"
             /\ \/ \E pod \in Pods : Injector!CreatePod(p, pod)
                \/ Injector!Handle(p)
          \/ Injector!DeletePod(p)
          \/ Injector!Answer(p)

\* A crash takes the requests along that Handle works on.
WithWebhook ==
    /\ pods' = pods
    /\ review' = IF manager' = "up" THEN review
                 ELSE [p \in PodNames |->
                          IF Injector!AtStage(p, "answer") THEN review[p]
                                                           ELSE None]

InjectionNext == (Next /\ WithWebhook) \/ WebhookStep

InjectionSpec == InjectionInit /\ [][InjectionNext]_<<vars, webhook>>

-----------------------------------------------------------------------------
\* Seen from the webhook, whatever the controller does is the coming and going
\* of two objects: no ConfigMap changes its content while it exists, and no
\* request is lost but by a crash.
ImplementsInjector == Injector!Spec

\* Handle's two reads while a LogFile is active.  If the ConfigMap is read, a pod
\* that asks for the sidecar gets it with the configuration of that LogFile; if
\* the request fails, the pod goes on as its user submitted it.  If the Secret
\* is read, the sidecar of that LogFile has its certificates, though the LogFile
\* may not yet have been active when the configuration was read.  If that
\* request fails, nothing is promised: the certificates are empty.
ActiveServesSidecars ==
    [][\A p \in PodNames, u \in UIDs :
          LET given == review[p].given IN
          Active(u) =>
             /\ Injector!ReadConfig(p) /\ ~ given.optOut /\ given.logs # {}
                   => review'[p].config =
                         [deployment |-> u,
                          programme |-> lf[u].spec.programmeNum]
             /\ Injector!ReadConfigFails(p) => review'[p].pod = given
             /\ Injector!ReadCerts(p) /\ review[p].config.deployment = u
                   => Injector!HasCerts(review'[p].pod)]_<<vars, webhook>>

\* The comment of the webhook: with programme 2, Filebeat needs the
\* certificates of the Elasticsearch cluster.
SidecarHasCerts == Injector!SidecarHasCerts
=============================================================================
