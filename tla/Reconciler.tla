----------------------------- MODULE Reconciler -----------------------------
(***************************************************************************)
(* The LogFile controller (controllers/logfile_controller.go): the API     *)
(* server's LogFiles and the objects created for them, the watch that      *)
(* feeds the manager's cache and work queue, the workers that execute      *)
(* Reconcile and Run, the garbage collector, users, crashes and lost       *)
(* requests.                                                               *)
(*                                                                         *)
(* Run creates the objects of one programme, one API call after the other, *)
(* and then sets status.status to "Active".  A call that fails ends Run    *)
(* with an error, and the queue hands the name to Reconcile again, which   *)
(* starts Run from its first call.  Nothing asks whether an object is      *)
(* already there.                                                          *)
(***************************************************************************)
EXTENDS LogFileWebhook, Sequences, FiniteSets

CONSTANTS
    None,
    Names,              \* namespace and name of a LogFile
    OperatorNames,      \* the names in namespace logfile-operator-system
    UIDs,               \* the API server gives every created LogFile a new one
    Requests,           \* what users submit
    Policies,           \* propagation policies of the users' deletes
    Objects,            \* what Run creates
    FilebeatConfigMap,  \* ConfigMap filebeat-sidecar, the first call of every Run
    Steps,              \* the objects of a programme, in the order of Run
    PortOf,             \* the nodePorts field an object publishes, or "none"
    MaxConcurrentReconciles,
    MaxCrashes,         \* bound on the crashes of the manager
    MaxFaults           \* bound on requests and answers lost

ASSUME NamesAssumption == OperatorNames \subseteq Names

ASSUME RequestsAssumption == Requests \subseteq SubmittedSpecs

ASSUME StepsAssumption ==
    /\ FilebeatConfigMap \in Objects
    /\ Steps \in [1..6 -> Seq(Objects)]
    /\ \A p \in 1..6 : Len(Steps[p]) >= 1 /\ Steps[p][1] = FilebeatConfigMap
    /\ \A p \in 1..6 : \A i, j \in 1..Len(Steps[p]) :
           Steps[p][i] = Steps[p][j] => i = j

ASSUME BoundsAssumption ==
    /\ MaxConcurrentReconciles \in Nat
    /\ MaxCrashes \in Nat
    /\ MaxFaults \in Nat

VARIABLES
    lf,        \* the LogFile stored under a uid, None before it is created
    children,  \* the uid in an object's owner reference, None when it is absent
    watch,     \* events on their way to the manager, in order
    cache,     \* what r.Get answers for a name
    queue,     \* the names that wait for a worker
    run,       \* the Run in progress for a name
    manager,
    crashes,
    faults

vars == <<lf, children, watch, cache, queue, run, manager, crashes, faults>>
apiServer == <<lf, children>>
informer == <<watch, cache>>
budget == <<crashes, faults>>

-----------------------------------------------------------------------------
(* A version of a LogFile.  "gone" is the tombstone of a deleted one.       *)

Versions ==
    [uid    : UIDs,
     name   : Names,
     spec   : AdmittedSpecs,
     status : {"", "Active"},
     phase  : {"live", "deleting", "gone"}]

Events == [name : Names, object : Versions \cup {None}]

\* A Run between two calls; past the last create call it updates the status.
Runs == {r \in [seen : Versions, pos : Nat \ {0}] :
            r.pos <= Len(Steps[r.seen.spec.programmeNum]) + 1}

ASSUME NoneAssumption ==
    /\ None \notin UIDs
    /\ None \notin Versions
    /\ None \notin Runs

TypeOK ==
    /\ lf \in [UIDs -> Versions \cup {None}]
    /\ children \in [Objects -> UIDs \cup {None}]
    /\ watch \in Seq(Events)
    /\ cache \in [Names -> Versions \cup {None}]
    /\ queue \in SUBSET Names
    /\ run \in [Names -> Runs \cup {None}]
    /\ manager \in {"up", "down"}
    /\ crashes \in 0..MaxCrashes
    /\ faults \in 0..MaxFaults

Exists(u) == lf[u] # None /\ lf[u].phase # "gone"
Live(u) == lf[u] # None /\ lf[u].phase = "live"
Deleting(u) == lf[u] # None /\ lf[u].phase = "deleting"
Gone(u) == lf[u] # None /\ lf[u].phase = "gone"
Active(u) == Live(u) /\ lf[u].status = "Active"

\* What a GET of the name answers.
Stored(n) ==
    IF \E u \in UIDs : Exists(u) /\ lf[u].name = n
    THEN lf[CHOOSE u \in UIDs : Exists(u) /\ lf[u].name = n]
    ELSE None

Owned(u) == {o \in Objects : children[o] = u}

-----------------------------------------------------------------------------
Init ==
    /\ lf = [u \in UIDs |-> None]
    /\ children = [o \in Objects |-> None]
    /\ watch = <<>>
    /\ cache = [n \in Names |-> None]
    /\ queue = {}
    /\ run = [n \in Names |-> None]
    /\ manager = "up"
    /\ crashes = 0
    /\ faults = 0

\* A write of a LogFile: the watchers of the API server learn of it.
Event(v) == [name |-> v.name, object |-> IF v.phase = "gone" THEN None ELSE v]

Store(v) ==
    /\ lf' = [lf EXCEPT ![v.uid] = v]
    /\ watch' = IF manager = "up" THEN Append(watch, Event(v)) ELSE watch

-----------------------------------------------------------------------------
(* Users and the API server.                                               *)

\* The webhook runs in the manager and its failurePolicy is Fail.
CreateLogFile(u, n, request) ==
    /\ manager = "up"
    /\ lf[u] = None
    /\ Stored(n) = None
    /\ ValidateCreate(Default(request))
    /\ Store([uid |-> u, name |-> n, spec |-> Default(request),
              status |-> "", phase |-> "live"])
    /\ UNCHANGED <<children, cache, queue, run, manager, budget>>

UpdateLogFile(u, request) ==
    /\ manager = "up"
    /\ Exists(u)
    /\ IF ValidateUpdate(lf[u].spec, Default(request))
       THEN Store([lf[u] EXCEPT !.spec = Default(request)])
       ELSE UNCHANGED <<lf, watch>>
    /\ UNCHANGED <<children, cache, queue, run, manager, budget>>

\* A background delete removes the LogFile at once, also one that a
\* foreground delete has marked before.
DeleteBackground(u) ==
    /\ "Background" \in Policies
    /\ Exists(u)
    /\ Store([lf[u] EXCEPT !.phase = "gone"])
    /\ UNCHANGED <<children, cache, queue, run, manager, budget>>

\* A foreground delete adds the finalizer foregroundDeletion.
DeleteForeground(u) ==
    /\ "Foreground" \in Policies
    /\ Live(u)
    /\ Store([lf[u] EXCEPT !.phase = "deleting"])
    /\ UNCHANGED <<children, cache, queue, run, manager, budget>>

(* The garbage collector.                                                  *)

CollectChild(o) ==
    /\ children[o] # None
    /\ ~ Live(children[o])
    /\ children' = [children EXCEPT ![o] = None]
    /\ UNCHANGED <<lf, informer, queue, run, manager, budget>>

\* The collector takes its finalizer off with an UPDATE: the webhook sees it.
RemoveFinalizer(u) ==
    /\ manager = "up"
    /\ Deleting(u)
    /\ Owned(u) = {}
    /\ IF ValidateUpdate(lf[u].spec, lf[u].spec)
       THEN Store([lf[u] EXCEPT !.phase = "gone"])
       ELSE UNCHANGED <<lf, watch>>
    /\ UNCHANGED <<children, cache, queue, run, manager, budget>>

-----------------------------------------------------------------------------
(* The informer: For(&LogFile{}) and no Owns.                              *)

DeliverEvent ==
    /\ watch # <<>>
    /\ cache' = [cache EXCEPT ![Head(watch).name] = Head(watch).object]
    /\ queue' = queue \cup {Head(watch).name}
    /\ watch' = Tail(watch)
    /\ UNCHANGED <<apiServer, run, manager, budget>>

\* The watch breaks and the reflector lists again.
Relist ==
    /\ manager = "up"
    /\ watch # <<>>
    /\ cache' = [n \in Names |-> Stored(n)]
    /\ queue' = queue \cup {n \in Names : Stored(n) # None \/ cache[n] # None}
    /\ watch' = <<>>
    /\ UNCHANGED <<apiServer, run, manager, budget>>

\* The periodic resync hands out every cached LogFile again.
Resync(n) ==
    /\ cache[n] # None
    /\ queue' = queue \cup {n}
    /\ UNCHANGED <<apiServer, informer, run, manager, budget>>

-----------------------------------------------------------------------------
(* The workers.  A name is never given to two of them at once.             *)

WorkerFor(n) ==
    /\ n \in queue
    /\ run[n] = None
    /\ Cardinality({m \in Names : run[m] # None}) < MaxConcurrentReconciles

\* Reconcile returns early: not found, in deletion, or already active.
Skipped(v) == v # None /\ v.phase = "live" => v.status = "Active"

ReconcileSkip(n) ==
    /\ WorkerFor(n)
    /\ Skipped(cache[n])
    /\ queue' = queue \ {n}
    /\ UNCHANGED <<apiServer, informer, run, manager, budget>>

\* Defect for ImplementsLock: Run leaves out its first call.
ReconcileRunWithoutFilebeat(n) ==
    /\ WorkerFor(n)
    /\ ~ Skipped(cache[n])
    /\ queue' = queue \ {n}
    /\ run' = [run EXCEPT ![n] = [seen |-> cache[n], pos |-> 2]]
    /\ UNCHANGED <<apiServer, informer, manager, budget>>

ReconcileRun(n) ==
    /\ WorkerFor(n)
    /\ ~ Skipped(cache[n])
    /\ queue' = queue \ {n}
    /\ run' = [run EXCEPT ![n] = [seen |-> cache[n], pos |-> 1]]
    /\ UNCHANGED <<apiServer, informer, manager, budget>>

StepsOf(r) == Steps[r.seen.spec.programmeNum]
AtCreate(n) == run[n] # None /\ run[n].pos <= Len(StepsOf(run[n]))
AtUpdate(n) == run[n] # None /\ run[n].pos > Len(StepsOf(run[n]))

\* Defect for PrefixOwned: the calls after the first are made backwards.
NextObjectBackwards(n) ==
    StepsOf(run[n])[IF run[n].pos = 1 THEN 1
                    ELSE Len(StepsOf(run[n])) + 2 - run[n].pos]

NextObject(n) == StepsOf(run[n])[run[n].pos]

\* The API server's check of the node port of a Service.
NodePortRange == 30000..32767

Port(o, spec) == IF PortOf[o] = "none" THEN 0 ELSE spec.nodePorts[PortOf[o]]

PortAccepted(o, spec) ==
    PortOf[o] # "none" =>
       /\ Port(o, spec) \in NodePortRange
       /\ \A other \in Objects :
              children[other] # None
                  => Port(other, lf[children[other]].spec) # Port(o, spec)

\* Defect for SoleDeployer: an object that exists is taken over.
AcceptsExisting(n) ==
    /\ n \in OperatorNames
    /\ PortAccepted(NextObject(n), run[n].seen.spec)

\* Defect for EventuallyActive: the owner's namespace is not looked at.
AcceptsAnyNamespace(n) ==
    /\ children[NextObject(n)] = None
    /\ PortAccepted(NextObject(n), run[n].seen.spec)

\* SetControllerReference refuses an owner of another namespace; the API
\* server refuses an object that exists or a node port it cannot give.
Accepts(n) ==
    /\ n \in OperatorNames
    /\ children[NextObject(n)] = None
    /\ PortAccepted(NextObject(n), run[n].seen.spec)

\* Defect for OrphansCollected: Run begins again with the LogFile it has read.
RunFailsInPlace(n) ==
    /\ run' = [run EXCEPT ![n].pos = 1]
    /\ UNCHANGED queue

\* Run returns an error: the queue takes the name again.
RunFails(n) ==
    /\ run' = [run EXCEPT ![n] = None]
    /\ queue' = queue \cup {n}

CreateChild(n) ==
    /\ AtCreate(n)
    /\ Accepts(n)
    /\ children' = [children EXCEPT ![NextObject(n)] = run[n].seen.uid]
    /\ run' = [run EXCEPT ![n].pos = @ + 1]
    /\ UNCHANGED <<lf, informer, queue, manager, budget>>

\* Defect for ActiveIsDeployed and WedgeIsPermanent: an object that exists is
\* taken for one's own.
CreateRefusedIgnored(n) ==
    /\ AtCreate(n)
    /\ ~ Accepts(n)
    /\ run' = [run EXCEPT ![n].pos = @ + 1]
    /\ UNCHANGED <<apiServer, informer, queue, manager, budget>>

CreateRefused(n) ==
    /\ AtCreate(n)
    /\ ~ Accepts(n)
    /\ RunFails(n)
    /\ UNCHANGED <<apiServer, informer, manager, budget>>

\* Status().Update carries the resource version Run has seen, and the status
\* subresource does not pass the webhook.
Unchanged(n) == lf[run[n].seen.uid] = run[n].seen

\* Defect for EventuallyActive: the status goes with an UPDATE of the LogFile.
UpdateStatusThroughWebhook(n) ==
    /\ AtUpdate(n)
    /\ Unchanged(n)
    /\ ~ ValidateUpdate(run[n].seen.spec, run[n].seen.spec)
    /\ RunFails(n)
    /\ UNCHANGED <<apiServer, informer, manager, budget>>

UpdateStatus(n) ==
    /\ AtUpdate(n)
    /\ Unchanged(n)
    /\ Store([run[n].seen EXCEPT !.status = "Active"])
    /\ run' = [run EXCEPT ![n] = None]
    /\ UNCHANGED <<children, cache, queue, manager, budget>>

UpdateConflict(n) ==
    /\ AtUpdate(n)
    /\ ~ Unchanged(n)
    /\ RunFails(n)
    /\ UNCHANGED <<apiServer, informer, manager, budget>>

-----------------------------------------------------------------------------
(* Faults: a request that does not arrive, an answer that does not.        *)

Fault == faults < MaxFaults /\ faults' = faults + 1

RequestLost(n) ==
    /\ Fault
    /\ run[n] # None
    /\ RunFails(n)
    /\ UNCHANGED <<apiServer, informer, manager, crashes>>

CreateAnswerLost(n) ==
    /\ Fault
    /\ AtCreate(n)
    /\ Accepts(n)
    /\ children' = [children EXCEPT ![NextObject(n)] = run[n].seen.uid]
    /\ RunFails(n)
    /\ UNCHANGED <<lf, informer, manager, crashes>>

UpdateAnswerLost(n) ==
    /\ Fault
    /\ AtUpdate(n)
    /\ Unchanged(n)
    /\ Store([run[n].seen EXCEPT !.status = "Active"])
    /\ RunFails(n)
    /\ UNCHANGED <<children, cache, manager, crashes>>

\* Queue, cache and the position of every Run are in memory only.
Crash ==
    /\ manager = "up"
    /\ crashes < MaxCrashes
    /\ crashes' = crashes + 1
    /\ manager' = "down"
    /\ watch' = <<>>
    /\ cache' = [n \in Names |-> None]
    /\ queue' = {}
    /\ run' = [n \in Names |-> None]
    /\ UNCHANGED <<apiServer, faults>>

Restart ==
    /\ manager = "down"
    /\ manager' = "up"
    /\ cache' = [n \in Names |-> Stored(n)]
    /\ queue' = {n \in Names : Stored(n) # None}
    /\ UNCHANGED <<apiServer, watch, run, budget>>

-----------------------------------------------------------------------------
Reconcile(n) == ReconcileSkip(n) \/ ReconcileRun(n)

RunStep(n) ==
    CreateChild(n) \/ CreateRefused(n) \/ UpdateStatus(n) \/ UpdateConflict(n)

Faulty(n) == RequestLost(n) \/ CreateAnswerLost(n) \/ UpdateAnswerLost(n)

Next ==
    \/ \E u \in UIDs, n \in Names, request \in Requests :
           CreateLogFile(u, n, request)
    \/ \E u \in UIDs, request \in Requests : UpdateLogFile(u, request)
    \/ \E u \in UIDs : DeleteBackground(u) \/ DeleteForeground(u)
    \/ \E u \in UIDs : RemoveFinalizer(u)
    \/ \E o \in Objects : CollectChild(o)
    \/ DeliverEvent \/ Relist
    \/ \E n \in Names : Resync(n) \/ Reconcile(n) \/ RunStep(n) \/ Faulty(n)
    \/ Crash \/ Restart

\* What the processes do without end: the watch delivers, a worker takes the
\* names of the queue in turn and executes the next call, the collector sweeps,
\* and the Deployment restarts the manager.  Users and faults are not fair.
Fairness ==
    /\ WF_vars(DeliverEvent)
    /\ WF_vars(Restart)
    /\ \A n \in Names : SF_vars(Reconcile(n)) /\ WF_vars(RunStep(n))
    /\ \A o \in Objects : WF_vars(CollectChild(o))
    /\ \A u \in UIDs : WF_vars(RemoveFinalizer(u))

Spec == Init /\ [][Next]_vars
FairSpec == Spec /\ Fairness

-----------------------------------------------------------------------------
(* Safety *)

\* Two LogFiles never both hold objects of a deployment while both live: the
\* name filebeat-sidecar, common to all programmes, is what keeps the loser out.
SoleDeployer ==
    \A u, v \in UIDs :
        Live(u) /\ Live(v) /\ Owned(u) # {} /\ Owned(v) # {} => u = v

\* A LogFile that reports "Active" owns every object of its programme, whatever
\* runs were cut short, repeated or made on a stale cache before.
ActiveIsDeployed ==
    \A u \in UIDs : Active(u) =>
        \A i \in 1..Len(Steps[lf[u].spec.programmeNum]) :
            children[Steps[lf[u].spec.programmeNum][i]] = u

\* What a live LogFile owns is always the beginning of its programme: nothing
\* is there without what Run creates before it.
PrefixOwned ==
    \A u \in UIDs : Live(u) =>
        \E k \in 0..Len(Steps[lf[u].spec.programmeNum]) :
            Owned(u) = {Steps[lf[u].spec.programmeNum][i] : i \in 1..k}

\* A LogFile whose Run ended early, with its first object created.
Wedged(u) ==
    /\ Live(u)
    /\ ~ Active(u)
    /\ children[FilebeatConfigMap] = u
    /\ \A n \in Names :
           run[n] # None /\ run[n].seen.uid = u => run[n].pos = 1

\* No retry, resync or restart takes a LogFile out of that state: only its
\* deletion does.
WedgeIsPermanent ==
    [][\A u \in UIDs : Wedged(u) /\ Live(u)' => Wedged(u)']_vars

(* What makes the safety properties inductive. *)

\* A LogFile is stored under its own uid.
StoreKeyed == \A u \in UIDs : lf[u] # None => lf[u].uid = u

\* A version in flight, cached or being run is that of a LogFile that was
\* created, with the specification it was created with.
CopyOf(v) == v # None => lf[v.uid] # None /\ lf[v.uid].spec = v.spec

Copies ==
    /\ \A i \in 1..Len(watch) : CopyOf(watch[i].object)
    /\ \A n \in Names : CopyOf(cache[n])
    /\ \A n \in Names : run[n] # None =>
           /\ CopyOf(run[n].seen)
           /\ run[n].seen.phase = "live"
           /\ run[n].seen.status = ""

OwnersBorn == \A o \in Objects : children[o] # None => lf[children[o]] # None

\* As long as its LogFile lives, what a Run has passed is there and is its own.
RunsOwn ==
    \A n \in Names : run[n] # None /\ Live(run[n].seen.uid) =>
        \A i \in 1..(run[n].pos - 1) :
            children[StepsOf(run[n])[i]] = run[n].seen.uid

\* The inductive invariant: nothing in memory or in flight, however old, can
\* make a Run claim objects that its LogFile does not own.
Inductive ==
    /\ TypeOK
    /\ StoreKeyed
    /\ Copies
    /\ OwnersBorn
    /\ RunsOwn
    /\ PrefixOwned
    /\ ActiveIsDeployed

-----------------------------------------------------------------------------
(* Liveness *)

\* What the controller can deploy: a LogFile of the operator's namespace with
\* two different node ports that the API server gives out.
Deployable(u) ==
    LET ports == lf[u].spec.nodePorts IN
    /\ lf[u].name \in OperatorNames
    /\ \A f \in NodePortFields : ports[f] \in NodePortRange
    /\ ports["elasticsearch"] # ports["kibana"]

\* The objects have one name in all deployments: who comes second waits for
\* another LogFile, one that is active or that cannot become so.
KeptOut(u) ==
    \E v \in UIDs \ {u} :
        /\ Live(v)
        /\ lf[v].name \in OperatorNames
        /\ children[FilebeatConfigMap] = v
        /\ Deployable(v) => Active(v)

\* A LogFile that can be deployed becomes active, unless it is deleted or finds
\* the place taken.  It never waits for one that is itself waiting, nor for one
\* of another namespace, whose Runs all fail on the owner reference.
EventuallyActive ==
    \A u \in UIDs :
        (Live(u) /\ Deployable(u)) ~> (Active(u) \/ ~ Live(u) \/ KeptOut(u))

\* Nothing outlives a deleted LogFile, not even what its Run creates after the
\* deletion.
OrphansCollected ==
    \A u \in UIDs : <>[](Gone(u) \/ Deleting(u) => Owned(u) = {})

\* A deletion completes, so that the name can be used again.
DeletionCompletes == \A u \in UIDs : Deleting(u) ~> Gone(u)
=============================================================================
