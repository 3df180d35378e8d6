# logfile-operator in TLA+

logfile-operator is a Kubernetes operator. A user creates a `LogFile`, and the
operator deploys one of six log pipelines ("programmes") for it: Elasticsearch
and Kibana, with Logstash, Kafka and Zookeeper in the larger ones. A second half
of the same process is a webhook that adds a Filebeat sidecar to the pods whose
annotations name log files. This directory holds a model of the operator,
checked with TLC, and theorems about it, checked with TLAPS.

The source is `src/`; `api/v1/logfile_webhook.go:124` stands for a file and a
line of it. PROJECT.json maps every definition to the lines it translates.

## 1. The system

### Components

| component | state | operations |
|---|---|---|
| LogFile admission webhooks (`api/v1/logfile_webhook.go`) | none | `Default`, `ValidateCreate`, `ValidateUpdate`, `ValidateDelete` |
| LogFile controller (`controllers/logfile_controller.go`) | none of its own: the manager's cache and work queue, the position of every `Run` in memory | `Reconcile`, `Run` |
| Programmes (`controllers/Create_*.go`) | the objects in namespace logfile-operator-system | one create function per kind of object and part of the stack |
| Pod sidecar webhook (`controllers/pod_webhook_controller.go`) | none | `Handle` |
| The created stack at run time: the scripts, probes, budgets and Jobs inside the manifests (`controllers/Create_*.go`) | pods; on volumes that outlive the LogFile: server ids, the names of clusters, the password of `kibana_system` | `setup.sh` of ZooKeeper and Kafka, the readiness probes, discovery, evictions, the password Jobs, the logins of Kibana and Logstash |
| Manager (`main.go`) | none | start, stop |

Around them, and outside `src/`: the API server (stores objects, calls the
webhooks, rejects names, node ports and pods it cannot take), the garbage
collector (removes what an owner leaves behind), client-go's watch, informer and
work queue, and the users.

### How they interact

- A user's CREATE or UPDATE of a LogFile goes through `Default` and then
  `ValidateCreate` or `ValidateUpdate`. `ValidateUpdate` refuses every request
  (`logfile_webhook.go:124-137`). The webhooks run in the manager and have
  failurePolicy Fail.
- A stored LogFile reaches the manager as a watch event, which updates the cache
  and puts the name in the queue. One of three workers takes the name and calls
  `Reconcile`, which reads the cache: a LogFile not found, in deletion or already
  Active is left alone, and everything else starts `Run`.
- `Run` makes 9 to 23 create calls, with sleeps of 80 s and 20 s among them, and then
  sets `status.status` to "Active". Each created object has the LogFile as its
  controller reference. Its *name is fixed*: it does not depend on the LogFile.
  An error ends `Run` and puts the name back in the queue; the next `Run` starts
  with the first call. Nothing looks whether an object exists.
- The StatefulSets, the Job and the Deployments that `Run` has created make pods, which
  have to find each other and the data of earlier LogFiles: volume claims of a
  StatefulSet are nobody's children and are never collected. Nothing in `Run` waits for
  any of it; it sleeps 80 s before the password Job and 20 s after it.
- `Handle` reads two of the objects `Run` creates, ConfigMap `filebeat-sidecar`
  and, for programme 2, Secret `elasticsearch-master-certs`, with a GET each that
  goes past the cache, and writes their contents into the pod.

### What is hard here

- Several LogFiles, and several incarnations of one name, compete for the same
  fixed object names, through three workers.
- `Reconcile` decides on a cache that lags behind the API server.
- `Run` is long and not idempotent: a crash, a lost answer or a conflict in the
  middle of it cannot be repaired by running it again.
- A deletion removes the LogFile first and its objects later, one at a time;
  a Run that has begun goes on creating objects for an owner that is gone.
- The update webhook also sees updates that no user asked for: the collector's
  removal of a finalizer.
- `Handle` reads two objects that the other half creates minutes apart.
- The servers of a cluster wait for one another, and what they find on their volumes was
  written by the pods of another LogFile; a Job of that one may still be at work.
- An Elasticsearch node is ready by one question until it has been ready once and by
  another one after that; evictions count the ready.

PROJECT.json lists these as `hazards`, each with its line and the properties
that would catch it going wrong.

### What correctness means

- *Controller*: at most one LogFile deploys; what reports Active is deployed,
  completely and as its own; what a live LogFile owns is a beginning of its
  programme; nothing outlives a deleted LogFile; a LogFile that can be deployed
  becomes Active, unless another one has the place; a deletion completes.
- *Programmes*: every object an object of a programme mounts, runs under or
  connects to is created by the same programme, and whatever selects pods selects those of
  one workload.
- *LogFile webhooks*: only specifications the controller can handle are stored.
- *Pod webhook*: at an annotated directory the sidecar mounts what the other
  containers mount there; the injection never turns a pod the API server accepts into one it
  refuses; the sidecar has the configuration and the certificates of the LogFile
  that is deployed.
- *Created stack*: the clusters of a LogFile that stays come up, whatever volumes they
  find; a server keeps its identity; one node that goes takes neither the quorum nor the
  other nodes' readiness with it; Kibana and Logstash can log in.

## 2. The modules

| module | what it models |
|---|---|
| `LogFileWebhook` | the LogFile specification, `Default`, `ValidateCreate`, `ValidateUpdate` as operators |
| `Reconciler` | the controller with the API server, watch, queue, workers, collector, users, crashes and lost calls; parameterised by the objects of each programme |
| `DeploymentLock` | abstract specification: the one deployment as a lock |
| `ReconcilerLock` | the refinement mapping from `Reconciler` to `DeploymentLock` |
| `Programmes` | what each create function creates, in order, what the manifests refer to, and the label that selects pods |
| `Operator` | `Reconciler` with `Programmes` as its calls |
| `SidecarInjector` | the pod webhook, the API server's validation, and an environment that creates and removes the two objects it reads |
| `Injection` | `Reconciler` and `SidecarInjector` over the same objects |
| `Ensembles` | the StatefulSets of Elasticsearch, ZooKeeper and Kafka as Kubernetes runs them: pods, volumes, probes, crashes, evictions |
| `Stack` | LogFiles that follow each other, the workloads `Run` makes for them (from `Programmes`), their `Ensembles`, the password Jobs, Kibana and Logstash |
| `KafkaStorage` | the size of the claim of programme 5: two quantities added without their units |
| `MCReconciler`, `MCOperator`, `MCSidecarInjector`, `MCInjection`, `MCStack` | instances for TLC |
| `ReconcilerProofs`, `ReconcilerLockProofs`, `OperatorProofs` | theorems about the controller, and about it with the real programmes |
| `SidecarInjectorProofs`, `OrdinaryPodsProofs`, `InjectionProofs` | theorems about the pod webhook, and about it next to the controller |
| `StackProofs` | theorems about the created stack |

### Reconciler

| variable | in the system |
|---|---|
| `lf[u]` | the LogFile with uid `u` in the API server: name, defaulted specification, status, and whether it is live, in foreground deletion or gone. A uid is never used twice, so that an old and a new LogFile of one name are told apart |
| `children[o]` | the uid in the controller reference of object `o`, `None` when there is no such object |
| `watch` | the events on their way to the manager, in order |
| `cache[n]` | what `r.Get` answers for name `n` (`logfile_controller.go:71`) |
| `queue` | the names in the work queue. The queue is a set: client-go drops duplicates |
| `run[n]` | the `Run` in progress for `n`: the version of the LogFile it has read and the number of its next call |
| `manager`, `crashes`, `faults` | up or down, and the counters that bound crashes and lost calls |

| action | code |
|---|---|
| `CreateLogFile`, `UpdateLogFile` | the webhooks called by the API server; a refused request changes nothing |
| `DeleteBackground`, `DeleteForeground`, `CollectChild`, `RemoveFinalizer` | the two propagation policies and the collector. `RemoveFinalizer` is an UPDATE and passes `ValidateUpdate` |
| `DeliverEvent`, `Relist`, `Resync` | reflector and informer; `Owns` is commented out (`:302`), so no event of a child arrives |
| `ReconcileSkip`, `ReconcileRun` | `Reconcile` up to the call of `Run`, with its three early returns (`:70-90`) |
| `CreateChild`, `CreateRefused` | one `r.Create` with its `SetControllerReference`; refused when the owner is of another namespace, the name exists or the node port cannot be given |
| `UpdateStatus`, `UpdateConflict` | the status update at the end of `Run` (`:282-291`), with the resource version it carries |
| `RequestLost`, `CreateAnswerLost`, `UpdateAnswerLost` | a call that does not arrive, or whose answer does not |
| `Crash`, `Restart` | queue, cache and Runs are lost, what is stored is listed again |

The two sleeps are points between two calls, where anything may happen anyway.
`Requests`, `Steps`, `PortOf`, `Policies` and the bounds are constants.

### SidecarInjector and Injection

`pods[p]` is a stored pod and `review[p]` the request for it that `Handle` works
on. A review goes through the stages of `Handle`: "config" (the GET of the
ConfigMap, with everything up to the second GET), "certs" (the GET of the Secret,
programme 2 only) and "answer". `Injected` is the whole of what `Handle` adds to a
pod. Each GET may also fail (`ReadConfigFails`, `ReadCertsFails`, when the constant
`CallsFail` says so): the first error is taken for a ConfigMap that is not there and lets
the pod through as it is (`pod_webhook_controller.go:203-217`), the second is dropped and
makes empty certificates (`:374`). `Answer` is the API server, which validates the result; `Valid` has the parts of
its validation that the injection can break: unique volumes, containers and mount
paths, declared volumes, paths that are not empty.

`Injection` derives the two objects that the webhook reads from `children` and
`lf`, and stops the webhook with the manager.

### Ensembles and Stack

| variable | in the system |
|---|---|
| `pod[s][o]` | the pod with ordinal `o` of StatefulSet `s`: its phase, the LogFile whose StatefulSet made it, `ready` and the kubelet's count of differing probe results, and `marker`, the start file of the Elasticsearch probe |
| `volume[s][o]` | what setup.sh and the broker keep on the claim: the server id, and the Kafka cluster of a broker's meta.properties |
| `store[s]` | what the servers of `s` keep together: in Elasticsearch the password of `kibana_system`, in ZooKeeper the name of the Kafka cluster |
| `green` | all shards of the Elasticsearch cluster are allocated |
| `plan`, `generation`, `exists`, `calls` | what the user does, the number of the LogFile and whether it is there, how many of its workloads `Run` has made |
| `jobPods` | the LogFiles whose password Job has a pod that still tries |

| action | code |
|---|---|
| `CreateWorkload` | the part of `Run` that makes pods: StatefulSets, password Job, Deployments, in the order of `Programmes`; the Job after the sleep of 80 s (`logfile_controller.go:256`) |
| `NewPod` | podManagementPolicy: Parallel for the clusters, in order for the single node |
| `Start` | the container's command; `ServerId` is `setup.sh` of ZooKeeper (`Create_ZookerperCluster.go:32`) and Kafka (`Create_KafkaCluster.go:51`) |
| `Join` | discovery: a server that reaches a majority under the headless Service, which publishes addresses that are not ready |
| `Probe` | one result of the readiness probe, with both thresholds; `ProbeAnswers` is the script of the Elasticsearch cluster (`Create_ElasticsearchCluster.go:213`) |
| `Disruption` | a container that crashes (and loses its marker), a pod evicted under the PodDisruptionBudget |
| `SetKibanaPassword` | the loop of the Job's command (`Create_Elasticsearch.go:226`) |
| `KillPod`, `KillJobPod` | the pods of collected workloads, which may outlast the LogFile |

`KibanaCanLogIn` and `LogstashCanLogIn` say what their environment and configuration
give them: user `kibana_system` with the LogFile's Kibana password, and user `elastic`
with that same password (`Create_Logstash.go:55`).

`Replicas` is a constant. The manifests' choices (`Parallel`, `OnClaim`,
`PublishNotReadyAddresses`, thresholds, `MaxUnavailable`, `ZooServers`) are operators
of `Ensembles` with the lines they come from in PROJECT.json.

What `Stack` takes as given, besides Kubernetes, Elasticsearch, ZooKeeper and Kafka
behaving as the manifests use them:

- A LogFile is created again only when the last one's workloads are collected, all at
  once; its pods and the pod of its Job may still be there. What happens otherwise is
  `Reconciler`'s.
- The pod of a collected Job has gone (30 s of grace) when the next LogFile's `Run` makes
  its own Job, for which it slept 80 s: `SleepOver`, the only use of real time.
- A container that crashes is unready at once. Data of a cluster is one value, as
  durable as its claims. Volumes can be written, whatever the access mode the claims
  ask for.

## 3. What is checked

Passing runs:

| run | properties | distinct states |
|---|---|---|
| `interleavings` | `TypeOK`, `Inductive`, `SoleDeployer`, `ActiveIsDeployed`, `PrefixOwned`, `WedgeIsPermanent` | 497,247 |
| `recreate` | `OrphansCollected`, `ImplementsLock` | 92,971 |
| `programmes` | `Wired`, `EventuallyActive` | 72,737 |
| `injector` | `TypeOK`, `LogsShared`, `OrdinaryPodsAdmitted` | 93,928 |
| `injection` | `ImplementsInjector`, `ActiveServesSidecars` | 160,910 |
| `stack` | `TypeOK`, `ServersKeepTheirIds`, `BrokersAreAccepted`, `ReadyIsKept`, `EvictionKeepsQuorum`, `ComesUp`, `KibanaLogsIn` | 89,111 |

Every property has a mutant in PROJECT.json: a defect of the kind this code could
have, under which TLC finds the property violated in the same run. The mutated
definitions stand beside the originals, marked "Defect for".

### The properties

- `SoleDeployer`: two live LogFiles never both own objects. No code says so; it
  follows from ConfigMap `filebeat-sidecar` being first in every programme.
- `ActiveIsDeployed`, `PrefixOwned`: status and ownership agree in spite of stale
  caches, repeated Runs and conflicting updates.
- `WedgeIsPermanent` (an action property): a LogFile whose `Run` ended early, with its
  first object created, stays so until it is deleted. It is a true statement of
  what the code does, and the reason for two of the findings.
- `OrphansCollected`: in the end a deleted LogFile owns nothing, although its Run
  may create objects after the deletion.
- `ImplementsLock`: the controller implements `DeploymentLock`, liveness included.
- `Wired`: while a LogFile is Active, everything that its objects refer to exists
  and is its own, and every Service, workload and disruption budget selects the pods of
  exactly one workload, its own too. All selectors are one map of labels that `Run`
  rewrites on its way (`logfile_controller.go:118`).
- `EventuallyActive`: a LogFile that can be deployed (a name in the operator's
  namespace, two node ports the API server gives) becomes Active, unless it is deleted
  or finds the place taken by another one that is Active or cannot become so. Of two
  that could be deployed one becomes Active, and *the other one waits at
  `filebeat-sidecar`*, for ever if nobody deletes the first, although nothing has failed.
  A LogFile with a bad port that comes first keeps the rest out without ever becoming
  Active. One of another namespace keeps nobody out. All this holds when nothing fails and
  nothing is deleted; two of the findings are what else breaks it.
- `LogsShared`: at a directory that Filebeat reads, the sidecar of a stored pod mounts
  just the volumes the other containers mount there, one at least, and a volume that the
  webhook has added is the only one there, in every container. It follows that the
  sidecar reads what is written to a volume mounted at an annotated directory, when that is
  the only volume there. It does *not* follow that all logs are read. When two volumes are
  mounted at one directory, as `/d` and as `/d/`, the sidecar gets both and sees one
  (pod `TwoVolumes` of the run). When one container mounts the directory and another
  only writes to it, the webhook adds nothing
  (`pod_webhook_controller.go:346-366`), and the second one's logs stay in its own file
  system (container `app` of `NginxMysql`). The directory of the certificates, where the
  sidecar has a volume of its own, is left out.
- `OrdinaryPodsAdmitted`: the sidecar does not spoil a pod whose log directories
  are mounted by one container at most and which uses no name of the sidecar's.
- `ImplementsInjector`: the composed system implements `SidecarInjector`, so that what
  `injector` shows in its free environment holds with the real controller.
- `ActiveServesSidecars` (an action property), about the two GETs of `Handle` while a
  LogFile is active. If the GET of the ConfigMap is answered, the pod gets that LogFile's
  configuration; if it fails, the pod goes on as it was submitted, without a sidecar.
  If the GET of the Secret is answered, the sidecar of that LogFile has its certificates; if
  it fails, they are empty, and the property promises nothing. So an active LogFile is
  no guarantee of a sidecar: nobody retries a GET that failed.
- `ServersKeepTheirIds`: through crashes, evictions and a new LogFile on old volumes a
  ZooKeeper server has the id under which `ZOO_SERVERS` lists its name, and no two
  brokers have one id.
- `BrokersAreAccepted`: no broker's volume names a Kafka cluster that ZooKeeper does not
  know, which would keep the broker from starting.
- `ReadyIsKept` (an action property): while its cluster has a quorum, a pod stops being
  ready only by its own crash or removal. It is what the start file is for.
- `EvictionKeepsQuorum` (an action property): no drain costs the Elasticsearch cluster
  its quorum.
- `ComesUp`: the StatefulSets of a LogFile that stays have all their pods ready in the
  end.
- `KibanaLogsIn`: Kibana of a LogFile that stays logs in in the end, whatever
  passwords were set before and whatever an earlier Job still does.

### The bounds, and why they are enough

- *Programmes of three objects* (`interleavings`, `recreate`, `injection`): the
  ConfigMap every programme starts with, an object of the programme's own that
  publishes a node port (or is the Secret), and the Kibana Service that all share.
  These are the three roles an object can have: first and shared, private, last and
  shared. `programmes` has the full sequences of calls.
- *Two uids*: every conflict is between two LogFiles, of two names
  (`interleavings`) or of one name in turn (`recreate`, `injection`). The theorems
  have no such bound.
- *One crash, one lost call*: a second one meets a state that the first can leave
  behind.
- `interleavings` has background deletion only, to keep two names, a crash and a
  fault in reach; `recreate` has both policies.
- *`programmes` has no deletion*: collection of up to 23 objects in any order gives
  a state per subset. It has two LogFiles, of two names in the operator's namespace or of
  a third one in a namespace that cannot be served, so that two LogFiles that could both be
  deployed compete. They ask for every programme, and for both ends of the range of ports,
  a port out of it, one that is the default of the other field and so given twice, and
  the two programme numbers nearest the range.
- *One pod* (`injector`, `injection`): reviews share nothing but what they read.
  The pods of `injector` mount their log directories in each way that
  `Duplicate_mount_point` tells apart, and use each name the sidecar takes.
  `injection` leaves out updates of pods, which read the same two objects. The reads of
  the webhook fail in both; in `certs_late` they do not, so that its trace is about the
  order of the creations alone.
- *One part of a programme in view* (`stack`): the single Elasticsearch node with its
  Job and Kibana, the cluster of three with its own, and ZooKeeper with Kafka have
  no state in common, so each of three users has one of them. The first
  creates three LogFiles in turn, which keep or change either password; the
  second has two disruptions, so that a node goes while another is not back; the
  third puts a second LogFile on the volumes of the first.
- *Two ZooKeeper servers and two brokers* instead of three: with two, every server
  is needed for a majority, which is the harder case for coming up. The theorems have
  any number.
- *Symmetry*: uids and names are permuted in `interleavings`, uids in `injection`,
  where only safety is checked.
- Deadlock is not checked: a cluster whose users stop, with an empty queue, is a
  state where the system may stop.

### Fairness

`FairSpec` of `Reconciler` has weak fairness of the watch's delivery, of the
restart (a Deployment restarts its pod), of the next call of every Run that is in
progress (a worker is a goroutine that does not stop), and of the collector for
every object. It has strong fairness of `Reconcile(n)`: the work queue is first
in, first out, so a name in it is taken although other names keep the workers busy
from time to time. Users, faults, relists and resyncs are not fair.
`DeploymentLock` promises only that a deleted holder releases the lock.

`FairSpec` of `Stack` has weak fairness of `Run`'s next workload, of a Job's pod (its
command is a loop without end), and of what Kubernetes and the servers do for some pod:
create, start, join, probe and kill, and of the allocation of shards. Weak fairness
of "some pod" is enough: what can be done for one pod does not undo what was done for
another. A probe that keeps succeeding adds no state, so a fair probe does not hide
the others. Users and disruptions are not fair, and disruptions are bounded: a
node that fails for ever is nothing the manifests could help.

### Findings

Six runs expect a violation, each of something a line of the repository says.

| run | what happens |
|---|---|
| `delete_then_create` | the webhook tells the user to delete and create instead of updating (`logfile_webhook.go:130`). A LogFile created before the collector is done gets its ConfigMap, fails at a leftover, and is then refused at its own ConfigMap for ever |
| `crash_in_run` | one crash in the middle of Run, and the desired state (`README.md:51`) is never reached |
| `foreground_delete` | `ValidateUpdate` refuses the removal of the finalizer: a foreground deletion never ends |
| `shared_log_dir` | two containers mount an annotated directory: the sidecar gets both mounts (`pod_webhook_controller.go:366`), and the pod is refused |
| `certs_late` | a pod reviewed between the creation of the ConfigMap and of the Secret gets three empty certificates (`:374`), and keeps them |
| `logstash_login` | Logstash logs in as `elastic` with the password of Kibana (`Create_Logstash.go:55`): with two passwords, which the LogFile asks for, it never logs in |

## 4. What is proved

`tlapm` checks 4802 obligations in the seven modules of proofs and in `KafkaStorage`.

| theorem | states |
|---|---|
| `TypeCorrect` | `Spec => []TypeOK`, of `Reconciler` |
| `InductiveInvariant` | `Spec => []Inductive` |
| `OneDeployer`, `ActiveDeployed`, `OwnedIsPrefix` | the safety invariants of `interleavings` |
| `WedgesStay` | `Spec => WedgeIsPermanent` |
| `ReconcilerImplementsLock` | `Spec => Lock!Spec`: the safety part of `ImplementsLock` |
| `AlwaysWired` | `Spec => []Wired`, of `Operator` |
| `SidecarSharesLogs` | `Spec => []LogsShared`, of `SidecarInjector` |
| `InjectorTypeCorrect` | `Spec => []TypeOK` |
| `OrdinaryPodsStayAdmitted` | `Spec => []OrdinaryPodsAdmitted` |
| `InjectionImplementsInjector` | `InjectionSpec => ImplementsInjector`, of `Injection` |
| `SidecarSharesLogsHere`, `OrdinaryPodsStayAdmittedHere` | the two invariants of `SidecarInjector`, in the composed system |
| `ActiveServed` | `InjectionSpec => ActiveServesSidecars` |
| `StackTypeCorrect` | `Spec => []TypeOK`, of `Stack` |
| `StackServersKeepTheirIds`, `StackBrokersAreAccepted` | the safety invariants of `stack` |
| `StackReadyIsKept`, `StackEvictionKeepsQuorum` | its action properties |
| `KafkaClaimFallsShort` | whatever two quantities a LogFile asks for, in any unit from bytes to Ei, the claim asks for at most a 2^30th part of their sum |

Every invariant, every action property and the refinement without fairness that the runs
check is a theorem.

### The controller

The theorems of `ReconcilerProofs` and `ReconcilerLockProofs` hold for every value of the
constants that meets the named assumptions: any number of names, uids, workers, crashes and
faults, any requests, and any six programmes whose calls are distinct and begin
with ConfigMap `filebeat-sidecar` (`StepsAssumption`). `NoneAssumption` says that
`None` is not a uid, a LogFile or a Run; `QuantitiesAssumption` that the defaults are
quantities.

None of the safety properties is inductive. That an Active LogFile owns its
programme depends on what the Run that marks it has passed; that depends on the
Run having read a version of *this* LogFile, with the specification it still has;
and the Run has that version from the cache, the cache from the watch. `Inductive`
adds just this chain to them: `StoreKeyed` (a LogFile is stored under its own
uid), `Copies` (whatever is in the watch, the cache or a Run is a version of a
LogFile that was created, with the same specification), `OwnersBorn` (an owner
was created) and `RunsOwn` (while its LogFile lives, a Run owns what it has
passed). `RunsOwn` is not broken by deletion and re-creation, because a uid does
not come back, and not by the collector, because it leaves the live alone.

The proof of `InductiveStep` groups the actions by what they do to the store and
to the objects: lemmas for steps that store a version (`StoreInductive`), create
an object (`CreatedInductive`), collect one, or leave both alone
(`QuietInductive`, `IdleInductive`). `StepEffect` says that a step does one of six
things to `lf` and `children`; `WedgesStay` and `ReconcilerImplementsLock` need
only these six.

`SoleDeployer` follows from `PrefixOwned`: two live LogFiles that own anything both
own ConfigMap `filebeat-sidecar`.

### The programmes

`AlwaysWired` has one assumption more than the controller's theorems:
`OperatorAssumption`, that `Steps` is what `Programmes` says of `Run`. The objects of an
active LogFile are there by `ActiveIsDeployed`, so the rest is about six lists of up to 23
calls. They are not enumerated. `ProgrammesClosed` follows `Run`: each create function makes
one or two calls (`OneCall`, `TwoCalls`), a part of `Run` is several of them under one
label (`WiresPart`), and a programme is five parts (`RunWires`). Each part has a lemma that says
which objects it creates and which ones they name. One after the other, two lists create
and name what both do (`UnionOfParts`), and what a programme names is then found among
what it creates. For the selectors there is a regularity that no line of the source
states and a part added to `Run` would have to keep: the label `app` under which a
part is created is the name of its one workload (`WellLabelled`, `WorkloadOf`). The parts of
Filebeat, which has neither workload nor selector, and of Kafka in programme 6, which is two
parts with two labels, are where it could have failed.

### The pod webhook

`SidecarSharesLogs` holds for any number of reviews and any pods, with any
containers, mounts, volumes and log directories, that `PodsAssumption` admits: they
have a container, and no init container called `genfilebeatyml`. `LogsShared` is not
inductive, because a pod waits in its review before it is stored. `Handled` adds
that a pod to be created is its user's or what `Injected` makes of that, and that
it is the user's until the webhook is done with it. The argument about one
pod (`InjectedSharesLogs`): as the API server takes no two containers of one name,
the sidecar is the last container and the configuration is written by the last init
container (`OneSidecar`); a directory that nobody mounts gets one volume in
all containers (`AddedIsUnmounted`, `SharedAlone`), of any other the sidecar copies every
mount (`SidecarGetsMount`), and it mounts nothing else outside the directory of the
certificates (`SidecarMountsNoMore`). An update keeps the containers and so what they share.

`OrdinaryPodsStayAdmitted` has an invariant of its own, `Correct`: a stored pod is valid, and a
review answers with the pod it was given or with what `Injected` makes of it, once. That
the given pod may be any pod, a stored one with a sidecar included, is why the pods of
these proofs (`PodSpecs`) are wider than the ones users submit. The argument about
one pod (`InjectedValid`) follows the three things the API server asks. The added volumes
have names that an ordinary pod has not. The names of the containers stay apart
(`ConcatenationOf`: the elements and names of a concatenation). And no container
mounts a path twice: a new volume goes where no container mounts anything
(`OwnContainers`), and the sidecar copies at most one mount per directory, as
`Ordinary` demands, at directories that are not its own (`SidecarWellMounted`).

### The two halves together

`InjectionProofs` needs two more assumptions, which the run `injection` evaluates:
`CertsAssumption` (the Secret is an object of programme 2, and is not the ConfigMap) and
`InjectionAssumption` (`CallsFail` is a truth value, `None` is no ConfigMap, and the pods are
`Submittable`, as `SidecarInjector` assumes of its own). `CallsFail` is a constant here too,
so the theorems hold whether the webhook's reads fail or not.

`InjectionImplementsInjector` is the refinement: the ConfigMap that `SidecarInjector` has as a
variable is computed here from `children` and `lf`. Three facts carry it. `Inductive` still
holds, as the webhook writes nothing of the controller's. A ConfigMap that exists
does not change its content, although a LogFile does change: what its content
is computed from, the specification, is never altered once stored
(`SpecificationKept`, which rests on `UpdateLogFile` being refused and on the status
update writing a version with the stored specification, hence on `Copies`). And a step
touches at most one of the two objects the webhook reads, because `StepEffect`
leaves six kinds of steps. A crash takes the requests in progress along: that this is
the only loss needs the invariant `Stopped`, that a manager that is down works on no
review, so that `Restart` finds none to lose.

Since the composed system implements the webhook's specification, the theorems about the webhook
hold in it. They are taken from `OrdinaryPodsProofs` by instantiating it
(`Webhook == INSTANCE ...`), with its assumptions proved of the values it gets
(`WebhookAssumptions`), not by proving them a second time.

`ActiveServed` is about reviews that lie across steps of `Run`. Its invariant
`ReviewsCurrent` says that a review waiting for the certificates has read the ConfigMap
of a LogFile of programme 2, which may be gone by now but not altered. If that LogFile
is active when the Secret is read (and not merely asked for), the Secret is its own, by `ActiveIsDeployed`; that it was not
active when the ConfigMap was read does not matter. `certs_late` shows that it matters when
it is *not* active at the second read.

### The created stack

The theorems of `StackProofs` hold for any number of replicas (three at least in the
Elasticsearch cluster, `ReplicasAssumption`), any LogFiles in any number, any
view, and any number of crashes and evictions.

Their invariant is `TypeOK` with three more: a ready or marked Elasticsearch node takes part in
the cluster (`ReadyNodesTakePart`), the id on a volume is the one of its ordinal
(`IdsFollowOrdinals`), and `BrokersAreAccepted`. `ReadyIsKept` needs the first: a node that is
ready has its start file, so that the probe has a failing answer only without a
quorum; without that, a node that is lost would turn the cluster yellow and take
the others out of the Service. `EvictionKeepsQuorum` needs it too, because the budget counts
ready nodes and the quorum counts members: when one node may be missing,
`Replicas - 1` ready ones remain, which are members, and that is a majority
of three or more. `BrokersAreAccepted` is kept because the name of the Kafka cluster is
written once, to ZooKeeper before any broker's volume, and neither is ever removed.

### Only model-checked

Liveness: `EventuallyActive`, `OrphansCollected`, `ComesUp`, `KibanaLogsIn` and the fairness
of `ImplementsLock`, which the prover does not reach.

## 5. What is not modelled

- Propagation policy Orphan, and the deletion of children by anybody but the
  collector: `Owns` is commented out, so the controller never notices.
- Two managers: `deploy.yaml:473` runs one replica, with `--leader-elect`, and kills a
  stopping one within 10 s, before its lease of 15 s ends. A replacement takes over after
  its predecessor, as after `Crash` and `Restart`.
- Node ports that the API server picks for ports without one; ports beyond
  32 bits, which `int32()` cuts; names too long for a label, whose effect is that
  of a refused create.
- What a storage class makes of the claims' access mode, ReadOnlyMany; images, resources,
  rolling updates (nothing ever changes a workload), and the pipelines of Filebeat and
  Logstash beyond whom they connect to. The single Kafka pod of programme 5 appears
  in `Programmes` and `KafkaStorage` only: its two containers share one pod, so that
  none of the questions of `Ensembles` arises.
- `Stack` under a `Run` that fails half-way: `Reconciler` says which workloads are there
  then, and a stack without all of them comes up or not as its LogFile becomes Active or
  not.
- In pods: images, commands, sub-paths of mounts, the order of annotations, and
  mounts of "/". Pods are created under one name at a time, with one request in
  progress per pod.
- Generated code, flag parsing and logging.

## 6. Plan

1. Done: `LogFileWebhook`, `Reconciler`, `DeploymentLock` and its refinement,
   `Programmes`, `Operator`, `SidecarInjector`, `Injection`, and the created stack in
   `Ensembles` and `Stack`; the theorems of section 4, which cover every safety property
   of the runs.
2. To model, when the code comes to it: a Run that can be repeated, a second manager,
   and children that are watched (`Owns`).
