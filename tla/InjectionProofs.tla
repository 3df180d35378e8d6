--------------------------- MODULE InjectionProofs ---------------------------
(***************************************************************************)
(* Theorems about the two halves of the manager together: what the         *)
(* controller does is nothing but what SidecarInjector lets happen around  *)
(* the pod webhook, so that the theorems about the webhook hold here too.  *)
(***************************************************************************)
EXTENDS Injection, ReconcilerProofs

\* SidecarInjector as Injector has it, with the theorems about it.
Webhook ==
    INSTANCE OrdinaryPodsProofs
        WITH Deployments <- UIDs, ProgrammeNums <- 1..6,
             configMap <- SidecarConfig, certs <- children[CertsSecret] # None

-----------------------------------------------------------------------------
(* The controller is not disturbed by the webhook.                         *)

\* What the pod webhook does changes nothing of the controller's: every step of
\* the composed system is one of Reconciler, or leaves it alone.
LEMMA ControllerStep == [InjectionNext]_<<vars, webhook>> => [Next]_vars
BY DEF InjectionNext, WebhookStep, vars, webhook

\* So the controller keeps its invariant next to the webhook.
LEMMA ComposedInductive == InjectionSpec => []Inductive
<1>1. InjectionInit => Inductive
  BY InductiveInit DEF InjectionInit
<1>2. Inductive /\ [InjectionNext]_<<vars, webhook>> => Inductive'
  BY ControllerStep, InductiveStep
<1> QED
  BY <1>1, <1>2, PTL DEF InjectionSpec

\* The manager stops and starts without a change of what is stored.
LEMMA ManagerOrStore == [Next]_vars => UNCHANGED manager \/ UNCHANGED <<lf, children>>
BY DEF Next, Reconcile, RunStep, Faulty, vars, apiServer, informer, budget,
       CreateLogFile, UpdateLogFile, DeleteBackground, DeleteForeground,
       RemoveFinalizer, CollectChild, DeliverEvent, Relist, Resync,
       ReconcileSkip, ReconcileRun, CreateChild, CreateRefused, UpdateStatus,
       UpdateConflict, RequestLost, CreateAnswerLost, UpdateAnswerLost, Crash,
       Restart

-----------------------------------------------------------------------------
(* A manager that is down works on no review: the API server may only have *)
(* an answer left to store.                                                *)

Answered ==
    [p \in PodNames |->
        IF Injector!AtStage(p, "answer") THEN review[p] ELSE None]

Stopped == manager # "up" => review = Answered

\* A crash answers nothing more, and no review begins before the Restart.
LEMMA StoppedStep ==
    ASSUME Stopped, [InjectionNext]_<<vars, webhook>>
    PROVE  Stopped'
<1>1. CASE Next /\ WithWebhook
  <2> SUFFICES ASSUME manager' # "up"
               PROVE  review' = Answered'
    BY DEF Stopped
  <2>1. review' = Answered
    BY <1>1 DEF WithWebhook, Answered
  <2>2. \A p \in PodNames : Answered[p] = Answered'[p]
    BY <2>1 DEF Answered, Injector!AtStage
  <2> QED
    BY <2>1, <2>2 DEF Answered
<1>2. CASE WebhookStep
  <2> SUFFICES ASSUME manager # "up"
               PROVE  review' = Answered'
    BY <1>2 DEF Stopped, WebhookStep, vars
  <2>1. review = Answered
    BY DEF Stopped
  <2>2. PICK p \in PodNames : Injector!DeletePod(p) \/ Injector!Answer(p)
    BY <1>2 DEF WebhookStep
  <2>3. CASE Injector!DeletePod(p)
    BY <2>1, <2>3 DEF Injector!DeletePod, Answered, Injector!AtStage
  <2>4. CASE Injector!Answer(p)
    <3>1. review' = [q \in PodNames |-> IF q = p THEN None ELSE review[q]]
      BY <2>1, <2>4 DEF Injector!Answer, Answered
    <3>2. \A q \in PodNames : review[q] = Answered[q]
      BY <2>1
    <3> QED
      BY <3>1, <3>2 DEF Answered, Injector!AtStage
  <2> QED
    BY <2>2, <2>3, <2>4
<1>3. CASE UNCHANGED <<vars, webhook>>
  BY <1>3 DEF Stopped, Answered, Injector!AtStage, vars, webhook
<1> QED
  BY <1>1, <1>2, <1>3 DEF InjectionNext

\* While the manager is down, no request of the webhook is in progress.
LEMMA StoppedInvariant == InjectionSpec => []Stopped
<1>1. InjectionInit => Stopped
  BY DEF InjectionInit, Init, Stopped
<1> QED
  BY <1>1, StoppedStep, PTL DEF InjectionSpec

-----------------------------------------------------------------------------
(* Seen from the webhook.                                                  *)

\* While an object is not touched, the webhook reads of it what it read before.
LEMMA ConfigKept ==
    ASSUME Inductive, [Next]_vars,
           children'[FilebeatConfigMap] = children[FilebeatConfigMap]
    PROVE  SidecarConfig' = SidecarConfig
<1> DEFINE owner == children[FilebeatConfigMap]
<1>1. CASE owner = None
  BY <1>1 DEF SidecarConfig
<1>2. CASE owner # None
  <2>1. owner \in UIDs /\ lf[owner] # None
    BY <1>2, StepsAssumption DEF Inductive, TypeOK, OwnersBorn
  <2>2. lf'[owner].spec = lf[owner].spec
    BY <2>1, SpecificationKept
  <2> QED
    BY <1>2, <2>2 DEF SidecarConfig
<1> QED
  BY <1>1, <1>2

\* The ConfigMap of a LogFile has that LogFile's programme.
LEMMA ConfigOfOwner ==
    Inductive =>
        IF children[FilebeatConfigMap] = None
        THEN SidecarConfig = None
        ELSE SidecarConfig \in Injector!ConfigMaps
<1> DEFINE owner == children[FilebeatConfigMap]
<1> SUFFICES ASSUME Inductive, owner # None
             PROVE  SidecarConfig \in Injector!ConfigMaps
  BY DEF SidecarConfig
<1>1. owner \in UIDs /\ lf[owner] \in Versions
  BY StepsAssumption DEF Inductive, TypeOK, OwnersBorn
<1>2. lf[owner].spec.programmeNum \in 1..6
  BY <1>1, ProgrammeOfVersion
<1> QED
  BY <1>1, <1>2 DEF SidecarConfig, Injector!ConfigMaps

\* A step of the controller that leaves the reviews alone.
LEMMA ControllerImplements ==
    ASSUME Inductive, Inductive', [Next]_vars, UNCHANGED <<pods, review>>
    PROVE  [Injector!Next]_(Injector!vars)
<1> DEFINE certs == children[CertsSecret] # None
<1>1. FilebeatConfigMap \in Objects /\ CertsSecret \in Objects
      /\ CertsSecret # FilebeatConfigMap
  BY StepsAssumption, CertsAssumption
<1>2. CASE /\ children'[FilebeatConfigMap] = children[FilebeatConfigMap]
           /\ children'[CertsSecret] = children[CertsSecret]
  BY <1>2, ConfigKept DEF Injector!vars
<1>3. ASSUME NEW o \in Objects, Collected(o)
      PROVE  [Injector!Next]_(Injector!vars)
  <2>1. children' = [x \in Objects |-> IF x = o THEN None ELSE children[x]]
    BY <1>3 DEF Collected, Inductive, TypeOK
  <2>2. CASE o = FilebeatConfigMap
    <3>1. SidecarConfig' = None /\ certs' = certs
      BY <1>1, <2>1, <2>2 DEF SidecarConfig
    <3>2. SidecarConfig # None
      BY <1>3, <2>2, InjectionAssumption, ConfigOfOwner DEF Collected
    <3>3. Injector!ConfigMapCollected
      BY <3>1, <3>2 DEF Injector!ConfigMapCollected
    <3> QED
      BY <3>3 DEF Injector!Next, Injector!Environment
  <2>3. CASE o = CertsSecret
    <3>1. SidecarConfig' = SidecarConfig /\ certs /\ ~ certs'
      BY <1>1, <1>3, <2>1, <2>3, ConfigKept DEF Collected
    <3>2. Injector!CertsCollected
      BY <3>1 DEF Injector!CertsCollected
    <3> QED
      BY <3>2 DEF Injector!Next, Injector!Environment
  <2> QED
    BY <1>1, <1>2, <2>1, <2>2, <2>3
<1>4. ASSUME NEW n \in Names, ChildAdded(n)
      PROVE  [Injector!Next]_(Injector!vars)
  <2> DEFINE o == NextObject(n)
             u == run[n].seen.uid
  <2>1. o \in Objects /\ u \in UIDs /\ u # None
    BY <1>4, NextPosition, RunOfLogFile, NoneAssumption
    DEF ChildAdded, AtCreate, Inductive
  <2>2. /\ children[o] = None
        /\ children' = [x \in Objects |-> IF x = o THEN u ELSE children[x]]
    BY <1>4 DEF ChildAdded, Inductive, TypeOK
  <2> HIDE DEF o, u
  <2>3. CASE o = FilebeatConfigMap
    <3>1. SidecarConfig = None /\ certs' = certs
      BY <1>1, <2>2, <2>3 DEF SidecarConfig
    <3>2. children'[FilebeatConfigMap] # None
      BY <1>1, <2>1, <2>2, <2>3
    <3>3. SidecarConfig' \in Injector!ConfigMaps
      <4>1. (Inductive =>
               IF children[FilebeatConfigMap] = None
               THEN SidecarConfig = None
               ELSE SidecarConfig \in Injector!ConfigMaps)'
        BY ConfigOfOwner, PTL
      <4> QED
        BY <3>2, <4>1
    <3>4. Injector!ConfigMapCreated(SidecarConfig')
      BY <3>1 DEF Injector!ConfigMapCreated
    <3> QED
      BY <3>3, <3>4 DEF Injector!Next, Injector!Environment
  <2>4. CASE o = CertsSecret
    <3>1. SidecarConfig' = SidecarConfig /\ ~ certs /\ certs'
      BY <1>1, <2>1, <2>2, <2>4, ConfigKept
    <3>2. Injector!CertsCreated
      BY <3>1 DEF Injector!CertsCreated
    <3> QED
      BY <3>2 DEF Injector!Next, Injector!Environment
  <2> QED
    BY <1>1, <1>2, <2>2, <2>3, <2>4
<1>5. CASE UNCHANGED children
  BY <1>2, <1>5
<1> QED
  BY <1>3, <1>4, <1>5, StepEffect DEF Effect, Admitted, Deleted, Activated

\* A crash of the manager: the reviews it works on are lost.
LEMMA CrashImplements ==
    ASSUME UNCHANGED <<lf, children, pods>>, review' = Answered
    PROVE  [Injector!Next]_(Injector!vars)
<1> DEFINE lost == {p \in PodNames : review[p] # None
                                       /\ ~ Injector!AtStage(p, "answer")}
<1>1. UNCHANGED <<SidecarConfig, children[CertsSecret] # None>>
  BY DEF SidecarConfig
<1>2. \A p \in PodNames :
          Answered[p] = IF p \in lost THEN None ELSE review[p]
  BY DEF Answered, Injector!AtStage
<1>3. Answered = [p \in PodNames |-> IF p \in lost THEN None ELSE review[p]]
  BY <1>2 DEF Answered
<1>4. Injector!CallsLost(lost)
  BY <1>1, <1>3 DEF Injector!CallsLost, Injector!objects
<1> QED
  BY <1>4 DEF Injector!Next

\* A step of the webhook, or of the API server with its answer.
LEMMA WebhookImplements ==
    ASSUME WebhookStep
    PROVE  Injector!Next
<1>1. PICK p \in PodNames :
          \/ \E pod \in Pods : Injector!CreatePod(p, pod)
          \/ Injector!Handle(p)
          \/ Injector!DeletePod(p)
          \/ Injector!Answer(p)
  BY DEF WebhookStep
<1> QED
  BY <1>1 DEF Injector!Next, Injector!Submitted

\* Every step of the manager, the users and the collector is a step that
\* SidecarInjector allows, or changes nothing that it sees.
LEMMA StepImplements ==
    ASSUME Inductive, Inductive', Stopped, [InjectionNext]_<<vars, webhook>>
    PROVE  [Injector!Next]_(Injector!vars)
<1>1. CASE Next /\ WithWebhook
  <2>1. CASE manager' = "up"
    BY <1>1, <2>1, ControllerImplements DEF WithWebhook
  <2>2. CASE manager' # "up" /\ UNCHANGED manager
    <3>1. review' = review
      BY <1>1, <2>2 DEF WithWebhook, Stopped, Answered
    <3> QED
      BY <1>1, <3>1, ControllerImplements DEF WithWebhook
  <2>3. CASE manager' # "up" /\ UNCHANGED <<lf, children>>
    <3>1. review' = Answered
      BY <1>1, <2>3 DEF WithWebhook, Answered
    <3> QED
      BY <1>1, <2>3, <3>1, CrashImplements DEF WithWebhook
  <2> QED
    BY <1>1, <2>1, <2>2, <2>3, ManagerOrStore
<1>2. CASE WebhookStep
  BY <1>2, WebhookImplements
<1>3. CASE UNCHANGED <<vars, webhook>>
  BY <1>3 DEF vars, webhook, Injector!vars, SidecarConfig
<1> QED
  BY <1>1, <1>2, <1>3 DEF InjectionNext

\* Before the first LogFile there is no ConfigMap and no Secret to read.
LEMMA InitImplements == InjectionInit => Injector!Init
BY StepsAssumption, CertsAssumption
DEF InjectionInit, Init, Injector!Init, SidecarConfig

\* Seen from the webhook, the controller and the collector only let two objects
\* come and go (Run, Handle): the composed system implements SidecarInjector.
THEOREM InjectionImplementsInjector == InjectionSpec => ImplementsInjector
<1>1. Inductive /\ Inductive' /\ Stopped /\ [InjectionNext]_<<vars, webhook>>
          => [Injector!Next]_(Injector!vars)
  BY StepImplements
<1> QED
  BY <1>1, InitImplements, ComposedInductive, StoppedInvariant, PTL
  DEF InjectionSpec, ImplementsInjector, Injector!Spec

-----------------------------------------------------------------------------
(* The theorems about the webhook, in the composed system.                 *)

\* Injector and Webhook are the same module under the same substitution, one of
\* them with its theorems: their definitions are equal, one by one.
LEMMA SameInit == Injector!Init => Webhook!Init
BY DEF Injector!Init, Webhook!Init

\* The same for what the webhook, the API server and the users may do.
LEMMA SameNext == [Injector!Next]_(Injector!vars) => [Webhook!Next]_(Webhook!vars)
BY DEF Injector!ConfigMaps, Webhook!ConfigMaps, Injector!objects,
    Webhook!objects, Injector!vars, Webhook!vars, Injector!Volume,
    Webhook!Volume, Injector!SharedVolume, Webhook!SharedVolume,
    Injector!Mount, Webhook!Mount, Injector!Container, Webhook!Container,
    Injector!NoDir, Webhook!NoDir, Injector!ConfDir, Webhook!ConfDir,
    Injector!CertsDir, Webhook!CertsDir, Injector!VolumesOf,
    Webhook!VolumesOf, Injector!Valid, Webhook!Valid, Injector!SameSpec,
    Webhook!SameSpec, Injector!MountsAt, Webhook!MountsAt,
    Injector!WithConfDir, Webhook!WithConfDir, Injector!Unmounted,
    Webhook!Unmounted, Injector!SharedMounts, Webhook!SharedMounts,
    Injector!UsesCerts, Webhook!UsesCerts, Injector!SidecarMounts,
    Webhook!SidecarMounts, Injector!GenFilebeatYml, Webhook!GenFilebeatYml,
    Injector!GenEsClusterHttps, Webhook!GenEsClusterHttps, Injector!Injected,
    Webhook!Injected, Injector!Untouched, Webhook!Untouched, Injector!Review,
    Webhook!Review, Injector!CreatePod, Webhook!CreatePod, Injector!UpdatePod,
    Webhook!UpdatePod, Injector!DeletePod, Webhook!DeletePod,
    Injector!AtStage, Webhook!AtStage, Injector!WithConfig, Webhook!WithConfig,
    Injector!ReadConfig, Webhook!ReadConfig, Injector!ReadConfigFails,
    Webhook!ReadConfigFails, Injector!WithCerts, Webhook!WithCerts,
    Injector!ReadCerts, Webhook!ReadCerts, Injector!ReadCertsFails,
    Webhook!ReadCertsFails, Injector!Accepted, Webhook!Accepted,
    Injector!Answer, Webhook!Answer, Injector!CallsLost, Webhook!CallsLost,
    Injector!ConfigMapCreated, Webhook!ConfigMapCreated,
    Injector!ConfigMapCollected, Webhook!ConfigMapCollected,
    Injector!CertsCreated, Webhook!CertsCreated, Injector!CertsCollected,
    Webhook!CertsCollected, Injector!Submitted, Webhook!Submitted,
    Injector!Handle, Webhook!Handle, Injector!Environment,
    Webhook!Environment, Injector!Next, Webhook!Next

\* The same for the two properties whose theorems are used below.
LEMMA SameProperties ==
    /\ Webhook!LogsShared => Injector!LogsShared
    /\ Webhook!OrdinaryPodsAdmitted => Injector!OrdinaryPodsAdmitted
<1>1. Webhook!LogsShared => Injector!LogsShared
  <2>1. \A pod, c, d : Webhook!VolumesAt(pod, c, d) = Injector!VolumesAt(pod, c, d)
    BY DEF Injector!VolumesAt, Webhook!VolumesAt
  <2>2. \A pod : /\ Webhook!SidecarsOf(pod) = Injector!SidecarsOf(pod)
                 /\ Webhook!Inputs(pod) = Injector!Inputs(pod)
                 /\ Webhook!VolumesAdded(pod) = Injector!VolumesAdded(pod)
    BY DEF Injector!SidecarsOf, Webhook!SidecarsOf, Injector!Inputs,
        Webhook!Inputs, Injector!VolumesAdded, Webhook!VolumesAdded
  <2>3. /\ \A d : Webhook!SharedVolume(d) = Injector!SharedVolume(d)
        /\ Webhook!CertsDir = Injector!CertsDir
    BY DEF Injector!SharedVolume, Webhook!SharedVolume, Injector!CertsDir,
        Webhook!CertsDir, Injector!Mount, Webhook!Mount, Injector!Volume,
        Webhook!Volume
  <2>4. \A pod : Webhook!SharesLogs(pod) => Injector!SharesLogs(pod)
    BY <2>1, <2>2, <2>3 DEF Injector!SharesLogs, Webhook!SharesLogs
  <2> QED
    BY <2>4 DEF Injector!LogsShared, Webhook!LogsShared
<1>2. Webhook!OrdinaryPodsAdmitted => Injector!OrdinaryPodsAdmitted
  BY DEF Injector!Volume, Webhook!Volume, Injector!Mount, Webhook!Mount,
    Injector!NoDir, Webhook!NoDir, Injector!ConfDir, Webhook!ConfDir,
    Injector!CertsDir, Webhook!CertsDir, Injector!VolumesOf,
    Webhook!VolumesOf, Injector!Valid, Webhook!Valid, Injector!MountsAt,
    Webhook!MountsAt, Injector!AtStage, Webhook!AtStage, Injector!Ordinary,
    Webhook!Ordinary, Injector!OrdinaryPodsAdmitted,
    Webhook!OrdinaryPodsAdmitted
<1> QED
  BY <1>1, <1>2

\* The composed system is an instance of the module the theorems are about.
LEMMA ComposedWebhook == InjectionSpec => Webhook!Spec
<1>1. InjectionSpec => Injector!Spec
  BY InjectionImplementsInjector DEF ImplementsInjector
<1> QED
  BY <1>1, SameInit, SameNext, PTL DEF Injector!Spec, Webhook!Spec

\* What SidecarInjector assumes of its constants is what Injection gives it.
LEMMA WebhookAssumptions ==
    /\ CallsFail \in BOOLEAN
    /\ None \notin Webhook!ConfigMaps
    /\ \A pod \in Pods : Webhook!Submittable(pod)
BY InjectionAssumption
DEF Injector!ConfigMaps, Webhook!ConfigMaps, Injector!Submittable,
    Webhook!Submittable, Injector!Volumes, Webhook!Volumes, Injector!Mounts,
    Webhook!Mounts, Injector!UserContainers, Webhook!UserContainers

\* The sidecar that a pod gets while LogFiles come and go (Handle, Run) mounts at
\* each directory it reads what the other containers mount there.
THEOREM SidecarSharesLogsHere == InjectionSpec => []Injector!LogsShared
<1>1. Webhook!Spec => []Webhook!LogsShared
  BY Webhook!SidecarSharesLogs, WebhookAssumptions
<1> QED
  BY <1>1, ComposedWebhook, SameProperties, PTL

\* Whichever LogFile's configuration Handle reads, and however late it reads the
\* certificates, it makes no ordinary pod one that the API server refuses.
THEOREM OrdinaryPodsStayAdmittedHere ==
    InjectionSpec => []Injector!OrdinaryPodsAdmitted
<1>1. Webhook!Spec => []Webhook!OrdinaryPodsAdmitted
  BY Webhook!OrdinaryPodsStayAdmitted, WebhookAssumptions
<1> QED
  BY <1>1, ComposedWebhook, SameProperties, PTL

\* What Handle works on, and what it answers, is a pod of a user or one that it
\* has injected into (the invariant behind the theorems about the webhook).
LEMMA ComposedHandled == InjectionSpec => []Webhook!HandledInv
<1>1. Webhook!Init => Webhook!HandledInv
  BY Webhook!HandledInitially, WebhookAssumptions
<1>2. Webhook!HandledInv /\ [Webhook!Next]_(Webhook!vars) => Webhook!HandledInv'
  BY Webhook!HandledStep, WebhookAssumptions
<1> QED
  BY <1>1, <1>2, ComposedWebhook, PTL DEF Webhook!Spec

\* Until it is answered, a review has in hand the pod it was given.
LEMMA ComposedCorrect == InjectionSpec => []Webhook!Correct
<1>1. Webhook!Init => Webhook!Correct
  BY Webhook!CorrectInitially, WebhookAssumptions
<1>2. Webhook!Correct /\ [Webhook!Next]_(Webhook!vars) => Webhook!Correct'
  BY Webhook!CorrectStep, WebhookAssumptions
<1> QED
  BY <1>1, <1>2, ComposedWebhook, PTL DEF Webhook!Spec

-----------------------------------------------------------------------------
(* What a review has read stays true of the LogFile it was read of, deleted *)
(* or not.                                                                 *)

ConfigFor(u) == [deployment |-> u, programme |-> lf[u].spec.programmeNum]

ReviewCurrent(r) ==
    /\ r.request = "CREATE"
    /\ r.stage = "certs" =>
          \E u \in UIDs : /\ lf[u] # None
                          /\ r.config = ConfigFor(u)
                          /\ lf[u].spec.programmeNum = 2

ReviewsCurrent == \A p \in PodNames : review[p] # None => ReviewCurrent(review[p])

\* Reviews are a function, and a review a record.
LEMMA ReviewsTyped ==
    ASSUME Webhook!HandledInv
    PROVE  /\ review = [p \in PodNames |-> review[p]]
           /\ \A p \in PodNames : review[p] # None =>
                 /\ review[p] \in
                       [request : {review[p].request}, stage : {review[p].stage},
                        given : {review[p].given}, pod : {review[p].pod},
                        config : {review[p].config}]
                 /\ review[p].request = "CREATE" /\ review[p].stage # "answer"
                       => review[p].pod \in Pods
BY DEF Webhook!HandledInv, Webhook!Handled, Webhook!HandledReview

\* Handle reads the ConfigMap as the controller has left it, and later steps of
\* the controller change no specification of a LogFile.
LEMMA ReviewsCurrentStep ==
    ASSUME ReviewsCurrent, Inductive, Webhook!HandledInv,
           [InjectionNext]_<<vars, webhook>>
    PROVE  ReviewsCurrent'
<1>1. CASE \A p \in PodNames : review'[p] \in {review[p], None}
  <2> SUFFICES ASSUME NEW p \in PodNames, review'[p] # None
               PROVE  ReviewCurrent(review[p])'
    BY DEF ReviewsCurrent
  <2>1. review'[p] = review[p] /\ ReviewCurrent(review[p])
    BY <1>1 DEF ReviewsCurrent
  <2>2. \A u \in UIDs : lf[u] # None => lf'[u] # None /\ lf'[u].spec = lf[u].spec
    BY ControllerStep, SpecificationKept
  <2> QED
    BY <2>1, <2>2 DEF ReviewCurrent, ConfigFor
<1>2. ASSUME NEW p \in PodNames, NEW r, review' = [review EXCEPT ![p] = r],
             r # None => ReviewCurrent(r), UNCHANGED vars
      PROVE  ReviewsCurrent'
  <2>1. \A q \in PodNames : review'[q] = IF q = p THEN r ELSE review[q]
    BY <1>2, ReviewsTyped
  <2> SUFFICES ASSUME NEW q \in PodNames, review'[q] # None
               PROVE  ReviewCurrent(review[q])'
    BY DEF ReviewsCurrent
  <2>2. ReviewCurrent(review'[q])
    BY <1>2, <2>1 DEF ReviewsCurrent
  <2> QED
    BY <1>2, <2>2 DEF ReviewCurrent, ConfigFor, vars
<1>3. CASE Next /\ WithWebhook
  BY <1>1, <1>3, ReviewsTyped DEF WithWebhook
<1>4. CASE UNCHANGED <<vars, webhook>>
  BY <1>1, <1>4 DEF webhook
<1>5. CASE WebhookStep
  <2>1. UNCHANGED vars
    BY <1>5 DEF WebhookStep
  <2>2. PICK p \in PodNames :
            \/ \E pod \in Pods : Injector!CreatePod(p, pod)
            \/ Injector!Handle(p)
            \/ Injector!DeletePod(p)
            \/ Injector!Answer(p)
    BY <1>5 DEF WebhookStep
  <2> DEFINE r == review[p]
  <2>3. ASSUME NEW pod \in Pods, Injector!CreatePod(p, pod)
        PROVE  ReviewsCurrent'
    <3>1. ReviewCurrent(Injector!Review("CREATE", pod))
      BY DEF ReviewCurrent, Injector!Review
    <3> QED
      BY <1>2, <2>1, <2>3, <3>1 DEF Injector!CreatePod
  <2>4. ASSUME NEW config \in {SidecarConfig, None}, Injector!WithConfig(p, config)
        PROVE  ReviewsCurrent'
    <3>1. /\ r # None /\ ReviewCurrent(r)
          /\ r \in [request : {r.request}, stage : {r.stage}, given : {r.given},
                    pod : {r.pod}, config : {r.config}]
      BY <2>4, ReviewsTyped DEF Injector!WithConfig, Injector!AtStage, ReviewsCurrent
    <3> DEFINE pod == Injector!Injected(r.pod, config, FALSE)
               next == IF Injector!Untouched(r.given, config)
                       THEN [r EXCEPT !.stage = "answer"]
                       ELSE IF Injector!UsesCerts(config)
                       THEN [r EXCEPT !.stage = "certs", !.config = config]
                       ELSE [r EXCEPT !.stage = "answer", !.config = config,
                                      !.pod = pod]
    <3>2. review' = [review EXCEPT ![p] = next]
      BY <2>4 DEF Injector!WithConfig
    <3> HIDE DEF pod
    <3>3. ASSUME \/ Injector!Untouched(r.given, config)
                 \/ ~ Injector!UsesCerts(config)
          PROVE  ReviewCurrent(next)
      <4>1. next \in {[r EXCEPT !.stage = "answer"],
                      [r EXCEPT !.stage = "answer", !.config = config,
                                !.pod = pod]}
        BY <3>3
      <4>2. next.request = r.request /\ next.stage = "answer"
        BY <3>1, <4>1
      <4> QED
        BY <3>1, <4>2 DEF ReviewCurrent
    <3>4. ASSUME /\ ~ Injector!Untouched(r.given, config)
                 /\ Injector!UsesCerts(config)
          PROVE  ReviewCurrent(next)
      <4> DEFINE u == children[FilebeatConfigMap]
      <4>5. config = SidecarConfig /\ config # None
        BY <2>4, <3>4 DEF Injector!Untouched
      <4>1. u # None /\ u \in UIDs /\ lf[u] # None
        BY <4>5, StepsAssumption DEF SidecarConfig, Inductive, TypeOK, OwnersBorn
      <4>2. config = ConfigFor(u) /\ lf[u].spec.programmeNum = 2
        BY <3>4, <4>1, <4>5 DEF SidecarConfig, ConfigFor, Injector!UsesCerts
      <4>3. next = [r EXCEPT !.stage = "certs", !.config = config]
        BY <3>4
      <4>4. next.request = r.request /\ next.config = config
        BY <3>1, <4>3
      <4> HIDE DEF next, u
      <4> QED
        BY <3>1, <4>1, <4>2, <4>4 DEF ReviewCurrent
    <3>5. ReviewCurrent(next)
      BY <3>3, <3>4
    <3> HIDE DEF next
    <3> QED
      BY <1>2, <2>1, <3>2, <3>5
  <2>5. ASSUME NEW found, Injector!WithCerts(p, found)
        PROVE  ReviewsCurrent'
    <3>1. /\ r # None /\ ReviewCurrent(r)
          /\ r \in [request : {r.request}, stage : {r.stage}, given : {r.given},
                    pod : {r.pod}, config : {r.config}]
      BY <2>5, ReviewsTyped DEF Injector!WithCerts, Injector!AtStage, ReviewsCurrent
    <3>2. PICK pod : review' = [review EXCEPT ![p] =
                                   [r EXCEPT !.stage = "answer", !.pod = pod]]
      BY <2>5 DEF Injector!WithCerts
    <3> HIDE DEF r
    <3>3. ReviewCurrent([r EXCEPT !.stage = "answer", !.pod = pod])
      BY <3>1 DEF ReviewCurrent
    <3> QED
      BY <1>2, <2>1, <3>2, <3>3
  <2>8. CASE Injector!Handle(p)
    BY <2>4, <2>5, <2>8
    DEF Injector!Handle, Injector!ReadConfig, Injector!ReadConfigFails,
        Injector!ReadCerts, Injector!ReadCertsFails
  <2>6. CASE Injector!DeletePod(p)
    BY <1>1, <2>6 DEF Injector!DeletePod
  <2>7. CASE Injector!Answer(p)
    BY <1>2, <2>1, <2>7 DEF Injector!Answer
  <2> QED
    BY <2>2, <2>3, <2>6, <2>7, <2>8
<1> QED
  BY <1>3, <1>4, <1>5 DEF InjectionNext

\* A review that waits for the certificates is of a LogFile of programme 2.
LEMMA ReviewsCurrentInvariant == InjectionSpec => []ReviewsCurrent
<1>1. InjectionInit => ReviewsCurrent
  BY DEF InjectionInit, ReviewsCurrent
<1>2. ReviewsCurrent /\ Inductive /\ Webhook!HandledInv
          /\ [InjectionNext]_<<vars, webhook>> => ReviewsCurrent'
  BY ReviewsCurrentStep
<1> QED
  BY <1>1, <1>2, ComposedInductive, ComposedHandled, PTL DEF InjectionSpec

-----------------------------------------------------------------------------
(* What a pod is answered while a LogFile is active.                       *)

\* The init containers of an injected pod are the user's, who has none that
\* writes anything, and those of the webhook.
LEMMA InjectedHasCerts ==
    ASSUME NEW pod \in Pods, NEW config, Injector!UsesCerts(config)
    PROVE  Injector!HasCerts(Injector!Injected(pod, config, TRUE))
<1> DEFINE certs == Injector!GenEsClusterHttps(TRUE)
           yml == Injector!GenFilebeatYml(pod.logs, config)
           inits == (pod.inits \o <<certs>>) \o <<yml>>
<1>1. /\ pod \in [optOut : BOOLEAN, logs : SUBSET STRING,
                  volumes : Seq(SUBSET Injector!Volumes),
                  inits : Seq(Injector!UserContainers),
                  containers : Seq(Injector!UserContainers) \ {<<>>}]
  BY InjectionAssumption DEF Injector!Submittable
<1>2. Injector!Injected(pod, config, TRUE).inits = inits
  <2>1. Injector!Injected(pod, config, TRUE).inits =
            (pod.inits \o (IF Injector!UsesCerts(config) THEN <<certs>> ELSE <<>>))
               \o <<yml>>
    BY <1>1 DEF Injector!Injected
  <2> QED
    BY <2>1
<1>3. \A i \in DOMAIN pod.inits : pod.inits[i].writes = None
  <2>1. pod.inits \in Seq(Injector!UserContainers)
    BY <1>1
  <2>2. \A c \in Injector!UserContainers : c.writes = None
    BY DEF Injector!UserContainers
  <2> QED
    BY <2>1, <2>2
<1>4. certs.writes.certs /\ yml.name = "genfilebeatyml"
  BY DEF Injector!GenEsClusterHttps, Injector!GenFilebeatYml, Injector!Container
<1>5. pod.inits \in Seq(Injector!UserContainers)
  BY <1>1
<1> DEFINE given == pod.inits
<1> HIDE DEF certs, yml, given
<1>6. \A i \in DOMAIN ((given \o <<certs>>) \o <<yml>>) :
          \/ i \in DOMAIN given /\ ((given \o <<certs>>) \o <<yml>>)[i] = given[i]
          \/ ((given \o <<certs>>) \o <<yml>>)[i] \in {certs, yml}
  BY <1>5 DEF given
<1> QED
  BY <1>2, <1>3, <1>4, <1>6 DEF Injector!HasCerts, given

\* The LogFile that is active has its ConfigMap and its certificates.
LEMMA ActiveHasObjects ==
    ASSUME Inductive, NEW u \in UIDs, Active(u)
    PROVE  /\ children[FilebeatConfigMap] = u
           /\ SidecarConfig = ConfigFor(u)
           /\ lf[u].spec.programmeNum = 2 => children[CertsSecret] = u
<1>1. lf[u] \in Versions
  BY DEF Inductive, TypeOK, Active, Live
<1>2. /\ 1 \in 1..Len(Steps[lf[u].spec.programmeNum])
      /\ Steps[lf[u].spec.programmeNum][1] = FilebeatConfigMap
  BY <1>1, ProgrammeOfVersion
<1>3. children[FilebeatConfigMap] = u
  BY <1>2 DEF Inductive, ActiveIsDeployed
<1>4. SidecarConfig = ConfigFor(u)
  BY <1>3, NoneAssumption DEF SidecarConfig, ConfigFor
<1>5. lf[u].spec.programmeNum = 2 => children[CertsSecret] = u
  BY CertsAssumption DEF Inductive, ActiveIsDeployed
<1> QED
  BY <1>3, <1>4, <1>5

\* While a LogFile is active: a pod that asks for the sidecar gets it with that
\* LogFile's configuration when the ConfigMap is read, and goes on as submitted
\* when the request fails; when the Secret is read, it has the certificates
\* (Handle's two reads, which may lie on both sides of anything Run does).
THEOREM ActiveServed == InjectionSpec => ActiveServesSidecars
<1>1. ASSUME Inductive, Webhook!HandledInv, Webhook!Correct, ReviewsCurrent,
             NEW p \in PodNames, NEW u \in UIDs, Active(u)
      PROVE  LET given == review[p].given IN
             /\ Injector!ReadConfig(p) /\ ~ given.optOut /\ given.logs # {}
                   => review'[p].config = ConfigFor(u)
             /\ Injector!ReadConfigFails(p) => review'[p].pod = given
             /\ Injector!ReadCerts(p) /\ review[p].config.deployment = u
                   => Injector!HasCerts(review'[p].pod)
  <2> DEFINE r == review[p]
  <2>1. ASSUME r # None, r.stage # "answer"
        PROVE  /\ ReviewCurrent(r)
               /\ r \in [request : {r.request}, stage : {r.stage},
                         given : {r.given}, pod : {r.pod}, config : {r.config}]
               /\ r.pod \in Pods
    BY <1>1, <2>1, ReviewsTyped DEF ReviewsCurrent, ReviewCurrent
  <2>2. ASSUME NEW q, review' = [review EXCEPT ![p] = q]
        PROVE  review'[p] = q
    BY <1>1, <2>2, ReviewsTyped
  <2>3. ASSUME Injector!ReadConfig(p), ~ r.given.optOut, r.given.logs # {}
        PROVE  review'[p].config = ConfigFor(u)
    <3> DEFINE config == SidecarConfig
               pod == Injector!Injected(r.pod, config, FALSE)
    <3>1. r # None /\ r.stage # "answer" /\ Injector!WithConfig(p, config)
      BY <2>3 DEF Injector!ReadConfig, Injector!WithConfig, Injector!AtStage
    <3>2. config = ConfigFor(u) /\ config # None
      BY <1>1, ActiveHasObjects, InjectionAssumption, NoneAssumption, ConfigOfOwner
    <3>3. review' =
             [review EXCEPT ![p] =
                 IF Injector!UsesCerts(config)
                 THEN [r EXCEPT !.stage = "certs", !.config = config]
                 ELSE [r EXCEPT !.stage = "answer", !.config = config, !.pod = pod]]
      BY <2>3, <3>1, <3>2 DEF Injector!WithConfig, Injector!Untouched
    <3> HIDE DEF r, pod, config
    <3>4. review'[p] \in {[r EXCEPT !.stage = "certs", !.config = config],
                          [r EXCEPT !.stage = "answer", !.config = config,
                                    !.pod = pod]}
      BY <2>2, <3>3
    <3> QED
      BY <2>1, <3>1, <3>2, <3>4
  <2>4. ASSUME Injector!ReadConfigFails(p)
        PROVE  review'[p].pod = r.given
    <3>1. r # None /\ r.stage # "answer" /\ Injector!WithConfig(p, None)
      BY <2>4 DEF Injector!ReadConfigFails, Injector!WithConfig, Injector!AtStage
    <3>2. review' = [review EXCEPT ![p] = [r EXCEPT !.stage = "answer"]]
      BY <3>1 DEF Injector!WithConfig, Injector!Untouched
    <3>3. r.pod = r.given
      BY <1>1, <3>1 DEF Webhook!Correct, Webhook!CorrectReview
    <3> HIDE DEF r
    <3> QED
      BY <2>1, <2>2, <3>1, <3>2, <3>3
  <2>5. ASSUME Injector!ReadCerts(p), r.config.deployment = u
        PROVE  Injector!HasCerts(review'[p].pod)
    <3>1. /\ r # None /\ r.stage = "certs"
          /\ Injector!WithCerts(p, children[CertsSecret] # None)
      BY <2>5 DEF Injector!ReadCerts, Injector!WithCerts, Injector!AtStage
    <3>2. r.config.programme = 2 /\ lf[u].spec.programmeNum = 2
      <4>1. PICK w \in UIDs : /\ r.config = ConfigFor(w)
                              /\ lf[w].spec.programmeNum = 2
        BY <2>1, <3>1 DEF ReviewCurrent
      <4>2. ConfigFor(w).deployment = w /\ ConfigFor(w).programme = 2
        BY <4>1 DEF ConfigFor
      <4> QED
        BY <2>5, <4>1, <4>2
    <3>3. children[CertsSecret] # None
      BY <1>1, <3>2, ActiveHasObjects, NoneAssumption
    <3> DEFINE pod == Injector!Injected(r.pod, r.config, TRUE)
    <3>4. review' = [review EXCEPT ![p] =
                        [r EXCEPT !.stage = "answer", !.pod = pod]]
      BY <3>1, <3>3 DEF Injector!WithCerts
    <3>5. Injector!HasCerts(pod)
      BY <2>1, <3>1, <3>2, InjectedHasCerts DEF Injector!UsesCerts
    <3> HIDE DEF r, pod
    <3>6. review'[p].pod = pod
      BY <2>1, <2>2, <3>1, <3>4
    <3> QED
      BY <3>5, <3>6
  <2> QED
    BY <2>3, <2>4, <2>5
<1>2. Inductive /\ Webhook!HandledInv /\ Webhook!Correct /\ ReviewsCurrent =>
        \A p \in PodNames, u \in UIDs :
          LET given == review[p].given IN
          Active(u) =>
             /\ Injector!ReadConfig(p) /\ ~ given.optOut /\ given.logs # {}
                   => review'[p].config =
                         [deployment |-> u,
                          programme |-> lf[u].spec.programmeNum]
             /\ Injector!ReadConfigFails(p) => review'[p].pod = given
             /\ Injector!ReadCerts(p) /\ review[p].config.deployment = u
                   => Injector!HasCerts(review'[p].pod)
  BY <1>1 DEF ConfigFor
<1> QED
  BY <1>2, ComposedInductive, ComposedHandled, ComposedCorrect,
     ReviewsCurrentInvariant, PTL
  DEF InjectionSpec, ActiveServesSidecars
=============================================================================
