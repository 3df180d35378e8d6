--------------------------- MODULE SidecarInjector ---------------------------
(***************************************************************************)
(* The webhook that adds a Filebeat sidecar to pods                        *)
(* (controllers/pod_webhook_controller.go).  The API server calls it on    *)
(* every CREATE and UPDATE of a pod in a namespace that asks for it, and   *)
(* validates what it answers.                                              *)
(*                                                                         *)
(* Handle reads ConfigMap filebeat-sidecar, and for programme 2 Secret     *)
(* elasticsearch-master-certs, with two requests of their own: both objects *)
(* come and go while it works.                                             *)
(*                                                                         *)
(* The directories of the annotated log files are a set: which annotation  *)
(* Go's map yields first, and so the index in the name of an added volume, *)
(* is left out.  A mount records the container it was copied from, 0 when  *)
(* it was not: two copies of the same mount are two mounts.  The volumes   *)
(* of a pod are the set it was submitted with and the set that Handle adds.*)
(***************************************************************************)
EXTENDS Integers, Sequences

CONSTANTS
    None,
    PodNames,
    Pods,           \* what users submit
    Deployments,    \* the LogFiles that ConfigMap filebeat-sidecar is created for
    ProgrammeNums,
    CallsFail       \* whether a read of the webhook may fail

ConfigMaps == [deployment : Deployments, programme : ProgrammeNums]

ASSUME InjectorAssumption ==
    /\ ProgrammeNums \subseteq 1..6
    /\ CallsFail \in BOOLEAN
    /\ None \notin ConfigMaps

Volumes == [name : STRING, dir : STRING]

Mounts == [volume : Volumes, dir : STRING, slash : BOOLEAN, from : Nat]

UserContainers == [name : STRING, mounts : SUBSET Mounts, writes : {None}]

\* A pod has a container, and no user calls an init container genfilebeatyml.
Submittable(pod) ==
    /\ pod \in [optOut     : BOOLEAN,
                logs       : SUBSET STRING,
                volumes    : Seq(SUBSET Volumes),
                inits      : Seq(UserContainers),
                containers : Seq(UserContainers) \ {<<>>}]
    /\ \A i \in DOMAIN pod.inits : pod.inits[i].name # "genfilebeatyml"

ASSUME PodsAssumption == \A pod \in Pods : Submittable(pod)

VARIABLES
    configMap,   \* ConfigMap filebeat-sidecar, or None
    certs,       \* whether Secret elasticsearch-master-certs exists
    pods,        \* the stored pods
    review       \* the request for a pod that the webhook works on, or None

objects == <<configMap, certs>>
vars == <<configMap, certs, pods, review>>

-----------------------------------------------------------------------------
(* Pods.                                                                   *)

Volume(name) == [name |-> name, dir |-> ""]
SharedVolume(dir) == [name |-> "logfile-operator", dir |-> dir]

\* slash: the mount path is written with a slash at its end.
Mount(volume, dir, slash) ==
    [volume |-> volume, dir |-> dir, slash |-> slash, from |-> 0]

\* writes: what the command of an init container puts into its volume.
Container(name, mounts, writes) ==
    [name |-> name, mounts |-> mounts, writes |-> writes]

\* The directory of a log file written without one, the empty annotation too.
NoDir == ""

ConfDir == Mount(Volume("confdir"), "/etc/filebeat", TRUE)

CertsDir == Mount(Volume("elasticsearch-master-certs"),
                  "/usr/share/elasticsearch/config/certs", FALSE)

VolumesOf(pod) == UNION {pod.volumes[i] : i \in DOMAIN pod.volumes}

\* The API server's validation of a pod.
Valid(pod) ==
    LET all == pod.inits \o pod.containers IN
    /\ \A i, j \in DOMAIN pod.volumes :
          i # j => pod.volumes[i] \cap pod.volumes[j] = {}
    /\ \A i, j \in DOMAIN all : all[i].name = all[j].name => i = j
    /\ \A i \in DOMAIN all :
          /\ \A m \in all[i].mounts :
                 m.dir # NoDir /\ m.volume \in VolumesOf(pod)
          /\ \A m, n \in all[i].mounts :
                 m.dir = n.dir /\ m.slash = n.slash => m = n

\* The API server lets an UPDATE change labels and annotations.
SameSpec(pod, stored) ==
    /\ pod.volumes = stored.volumes
    /\ pod.inits = stored.inits
    /\ pod.containers = stored.containers

-----------------------------------------------------------------------------
(* Handle: what it adds to a pod.                                          *)

\* Defect for LogsShared: only a mount path with its slash is recognised.
MountsAtWithSlash(containers, dir) ==
    UNION {{[m EXCEPT !.from = c] :
               m \in {n \in containers[c].mounts : n.dir = dir /\ n.slash}} :
           c \in DOMAIN containers}

\* Duplicate_mount_point: the mounts of a directory, over all containers.
MountsAt(containers, dir) ==
    UNION {{[m EXCEPT !.from = c] :
               m \in {n \in containers[c].mounts : n.dir = dir}} :
           c \in DOMAIN containers}

\* The first container gets the configuration of Filebeat, like the sidecar.
WithConfDir(containers) == [containers EXCEPT ![1].mounts = @ \cup {ConfDir}]

Unmounted(containers, dirs) == {d \in dirs : MountsAt(containers, d) = {}}

SharedMounts(dirs) == {Mount(SharedVolume(d), d, TRUE) : d \in dirs}

\* Defect for TypeOK: every programme with certificates is taken for the second.
UsesCertsOfCluster(config) == config.programme \in {2, 4, 6}

UsesCerts(config) == config.programme = 2

\* Defect for OrdinaryPodsAdmitted: the sidecar gets a volume of its own too.
SidecarMountsTwice(containers, dirs) ==
    SharedMounts(dirs) \cup UNION {MountsAt(containers, d) : d \in dirs}

SidecarMounts(containers, dirs) ==
    SharedMounts(Unmounted(containers, dirs))
        \cup UNION {MountsAt(containers, d) : d \in dirs}

GenFilebeatYml(dirs, config) ==
    Container("genfilebeatyml", {ConfDir}, [inputs |-> dirs, output |-> config])

\* The certificates, or three empty files when found is FALSE.
GenEsClusterHttps(found) ==
    Container("genesclusterhttps", {CertsDir}, [certs |-> found])

Injected(pod, config, found) ==
    LET containers == WithConfDir(pod.containers)
        new == Unmounted(containers, pod.logs)
        https == UsesCerts(config)
    IN [pod EXCEPT
          !.volumes = Append(@, {ConfDir.volume}
                                   \cup {SharedVolume(d) : d \in new}
                                   \cup (IF https THEN {CertsDir.volume} ELSE {})),
          !.inits = @ \o (IF https THEN <<GenEsClusterHttps(found)>> ELSE <<>>)
                      \o <<GenFilebeatYml(pod.logs, config)>>,
          !.containers =
              [c \in DOMAIN containers |->
                  [containers[c] EXCEPT !.mounts = @ \cup SharedMounts(new)]]
              \o <<Container("filebeat",
                      {ConfDir} \cup SidecarMounts(containers, pod.logs)
                                \cup (IF https THEN {CertsDir} ELSE {}),
                      None)>>]

\* The label that turns the injection off, no annotation, no ConfigMap.
Untouched(pod, config) == pod.optOut \/ pod.logs = {} \/ config = None

-----------------------------------------------------------------------------
Init ==
    /\ configMap = None
    /\ certs = FALSE
    /\ pods = [p \in PodNames |-> None]
    /\ review = [p \in PodNames |-> None]

Review(request, pod) ==
    [request |-> request, stage |-> "config", given |-> pod, pod |-> pod,
     config |-> None]

CreatePod(p, pod) ==
    /\ pods[p] = None
    /\ review[p] = None
    /\ review' = [review EXCEPT ![p] = Review("CREATE", pod)]
    /\ UNCHANGED <<objects, pods>>

\* Someone changes the annotations or the label of a stored pod.
UpdatePod(p, logs, optOut) ==
    /\ pods[p] # None
    /\ review[p] = None
    /\ review' = [review EXCEPT ![p] =
                     Review("UPDATE", [pods[p] EXCEPT !.logs = logs,
                                                      !.optOut = optOut])]
    /\ UNCHANGED <<objects, pods>>

DeletePod(p) ==
    /\ pods[p] # None
    /\ pods' = [pods EXCEPT ![p] = None]
    /\ UNCHANGED <<objects, review>>

AtStage(p, stage) == review[p] # None /\ review[p].stage = stage

\* What follows the first request of Handle: all, but for programme 2.
WithConfig(p, config) ==
    /\ AtStage(p, "config")
    /\ LET r == review[p] IN
       review' =
          [review EXCEPT ![p] =
              IF Untouched(r.given, config)
              THEN [r EXCEPT !.stage = "answer"]
              ELSE IF UsesCerts(config)
              THEN [r EXCEPT !.stage = "certs", !.config = config]
              ELSE [r EXCEPT !.stage = "answer", !.config = config,
                             !.pod = Injected(r.pod, config, FALSE)]]
    /\ UNCHANGED <<objects, pods>>

ReadConfig(p) == WithConfig(p, configMap)

\* A request that fails is taken for a ConfigMap that is not there.
ReadConfigFails(p) == CallsFail /\ WithConfig(p, None)

\* What follows the second request.
WithCerts(p, found) ==
    /\ AtStage(p, "certs")
    /\ LET r == review[p] IN
       review' =
          [review EXCEPT ![p] =
              [r EXCEPT !.stage = "answer",
                        !.pod = Injected(r.pod, r.config, found)]]
    /\ UNCHANGED <<objects, pods>>

ReadCerts(p) == WithCerts(p, certs)

\* Its error is not looked at.
ReadCertsFails(p) == CallsFail /\ WithCerts(p, FALSE)

Accepted(p) ==
    /\ Valid(review[p].pod)
    /\ IF review[p].request = "CREATE"
       THEN pods[p] = None
       ELSE pods[p] # None /\ SameSpec(review[p].pod, pods[p])

\* The API server stores the pod of the answer, or refuses the request.
Answer(p) ==
    /\ AtStage(p, "answer")
    /\ pods' = [pods EXCEPT ![p] = IF Accepted(p) THEN review[p].pod ELSE @]
    /\ review' = [review EXCEPT ![p] = None]
    /\ UNCHANGED objects

\* The webhook does not answer, to one request or, when the manager stops, to
\* all of them: the failurePolicy is Fail.
CallsLost(lost) ==
    /\ \A p \in lost : review[p] # None
    /\ review' = [p \in PodNames |-> IF p \in lost THEN None ELSE review[p]]
    /\ UNCHANGED <<objects, pods>>

(* The LogFile controller and the garbage collector.                       *)

ConfigMapCreated(config) ==
    /\ configMap = None
    /\ configMap' = config
    /\ UNCHANGED <<certs, pods, review>>

ConfigMapCollected ==
    /\ configMap # None
    /\ configMap' = None
    /\ UNCHANGED <<certs, pods, review>>

CertsCreated ==
    /\ ~ certs
    /\ certs' = TRUE
    /\ UNCHANGED <<configMap, pods, review>>

CertsCollected ==
    /\ certs
    /\ certs' = FALSE
    /\ UNCHANGED <<configMap, pods, review>>

-----------------------------------------------------------------------------
Submitted(p) ==
    \/ \E pod \in Pods : CreatePod(p, pod)
    \/ \E pod \in Pods, optOut \in BOOLEAN : UpdatePod(p, pod.logs, optOut)
    \/ DeletePod(p)

Handle(p) ==
    \/ ReadConfig(p) \/ ReadConfigFails(p)
    \/ ReadCerts(p) \/ ReadCertsFails(p)

Environment ==
    \/ \E config \in ConfigMaps : ConfigMapCreated(config)
    \/ ConfigMapCollected
    \/ CertsCreated
    \/ CertsCollected

Next ==
    \/ \E p \in PodNames : Submitted(p) \/ Handle(p) \/ Answer(p)
    \/ \E lost \in SUBSET PodNames : CallsLost(lost)
    \/ Environment

Spec == Init /\ [][Next]_vars

-----------------------------------------------------------------------------
(* Safety *)

\* Only a review of a pod that is to get the sidecar of programme 2 waits for
\* the certificates, and nothing is stored that the API server would refuse.
TypeOK ==
    /\ configMap \in ConfigMaps \cup {None}
    /\ certs \in BOOLEAN
    /\ \A p \in PodNames : pods[p] # None => Valid(pods[p])
    /\ \A p \in PodNames : review[p] # None =>
          /\ review[p].request \in {"CREATE", "UPDATE"}
          /\ review[p].stage \in {"config", "certs", "answer"}
          /\ review[p].config \in ConfigMaps \cup {None}
          /\ review[p].stage = "certs" =>
                review[p].config \in {c \in ConfigMaps : c.programme = 2}

SidecarsOf(pod) ==
    {c \in DOMAIN pod.containers : pod.containers[c].name = "filebeat"}

\* The directories Filebeat is configured to read in a pod.
Inputs(pod) ==
    UNION {pod.inits[i].writes.inputs :
              i \in {j \in DOMAIN pod.inits :
                        pod.inits[j].name = "genfilebeatyml"}}

\* The volumes that container c of a pod mounts at a directory.
VolumesAt(pod, c, dir) ==
    {m.volume : m \in {n \in pod.containers[c].mounts : n.dir = dir}}

\* The volumes that Handle has added to a pod come last.
VolumesAdded(pod) == pod.volumes[Len(pod.volumes)]

\* The directory of the certificates is the sidecar's own.
SharesLogs(pod) ==
    \A s \in SidecarsOf(pod), d \in Inputs(pod) \ {CertsDir.dir} :
        LET others == DOMAIN pod.containers \ {s}
            mounted == UNION {VolumesAt(pod, c, d) : c \in others}
        IN /\ mounted # {}
           /\ VolumesAt(pod, s, d) = mounted
           /\ SharedVolume(d) \in VolumesAdded(pod) =>
                 \A c \in others : VolumesAt(pod, c, d) = {SharedVolume(d)}

\* At a directory that Filebeat is told to read, the sidecar mounts just what
\* the other containers of its pod mount there, and they mount something.
\* So it reads the volume they write to, if that is one; and a volume that the
\* webhook has added is the only one there, in every container.
\* Nothing is said of two volumes at one directory, written with its slash and
\* without: the sidecar mounts both, and one hides the other.  Nor of a
\* container that does not mount a directory which another one mounts: what
\* it writes there stays in its own file system.
LogsShared == \A p \in PodNames : pods[p] # None => SharesLogs(pods[p])

\* A pod with no name of the sidecar's, and whose log directories are mounted
\* by one of its containers at most.
Ordinary(pod) ==
    /\ \A v \in VolumesOf(pod) :
          v.name \notin {"confdir", "logfile-operator",
                         "elasticsearch-master-certs"}
    /\ \A i \in DOMAIN (pod.inits \o pod.containers) :
          (pod.inits \o pod.containers)[i].name
              \notin {"genfilebeatyml", "genesclusterhttps", "filebeat"}
    /\ ConfDir.dir \notin {m.dir : m \in pod.containers[1].mounts}
    /\ \A d \in pod.logs :
          /\ d \notin {NoDir, ConfDir.dir, CertsDir.dir}
          /\ \A m, n \in MountsAt(pod.containers, d) : m = n

\* Whatever its mounts, its annotations, the programme and the certificates,
\* the sidecar never makes an ordinary pod one that the API server refuses.
OrdinaryPodsAdmitted ==
    \A p \in PodNames :
        /\ AtStage(p, "answer")
        /\ Ordinary(review[p].given)
        /\ Valid(review[p].given)
        => Valid(review[p].pod)

\* What the comment of the webhook says: a pod with the annotation is admitted.
AnnotatedPodsAdmitted ==
    \A p \in PodNames :
        AtStage(p, "answer") /\ review[p].request = "CREATE"
            /\ pods[p] = None /\ review[p].given.logs # {}
            => Accepted(p)

\* A container of that name that the user has written writes nothing.
HasCerts(pod) ==
    \A i \in DOMAIN pod.inits :
        pod.inits[i].name = "genesclusterhttps" /\ pod.inits[i].writes # None
            => pod.inits[i].writes.certs

\* The sidecar of programme 2 has the certificates it connects with.
SidecarHasCerts == \A p \in PodNames : pods[p] # None => HasCerts(pods[p])
=============================================================================
