-------------------------- MODULE ReconcilerProofs --------------------------
(***************************************************************************)
(* Theorems about Reconciler, for any sets of LogFiles, names, requests    *)
(* and objects, any programmes and any number of crashes and faults.       *)
(***************************************************************************)
EXTENDS Reconciler, SequenceTheorems, TLAPS

-----------------------------------------------------------------------------
(* Typing *)

\* What the defaulting webhook fills in and the validating webhook admits is a
\* complete specification of one of the six programmes.
LEMMA DefaultAdmitted ==
    ASSUME NEW request \in SubmittedSpecs, ValidateCreate(Default(request))
    PROVE  Default(request) \in AdmittedSpecs
<1>1. request.programmeNum \in 1..6
  BY DEF SubmittedSpecs, ValidateCreate, Default
<1>2. FillStorage(request.resourceStorage) \in [ResourceFields -> Quantities]
  <2>1. \A f \in ResourceFields : DefaultStorage(f) \in Quantities
    BY QuantitiesAssumption DEF DefaultStorage
  <2>2. \/ request.resourceStorage = Nil
        \/ request.resourceStorage \in [ResourceFields -> Quantities]
    BY DEF SubmittedSpecs
  <2> QED
    BY <2>1, <2>2 DEF FillStorage
<1>3. FillNodePorts(request.nodePorts) \in [NodePortFields -> Int]
  BY DEF SubmittedSpecs, FillNodePorts, DefaultNodePort
<1> QED
  BY <1>1, <1>2, <1>3 DEF Default, AdmittedSpecs

\* A version is one of the six programmes, whose steps are a sequence that
\* begins with the Filebeat ConfigMap and names no object twice.
LEMMA ProgrammeOfVersion ==
    ASSUME NEW v \in Versions
    PROVE  /\ v.uid \in UIDs
           /\ v.name \in Names
           /\ v.spec.programmeNum \in 1..6
           /\ Steps[v.spec.programmeNum] \in Seq(Objects)
           /\ Len(Steps[v.spec.programmeNum]) \in Nat \ {0}
           /\ Steps[v.spec.programmeNum][1] = FilebeatConfigMap
           /\ \A i, j \in 1..Len(Steps[v.spec.programmeNum]) :
                  Steps[v.spec.programmeNum][i] = Steps[v.spec.programmeNum][j]
                      => i = j
           /\ \A i \in 1..Len(Steps[v.spec.programmeNum]) :
                  Steps[v.spec.programmeNum][i] \in Objects
<1>1. v.uid \in UIDs /\ v.name \in Names /\ v.spec \in AdmittedSpecs
  BY DEF Versions
<1>2. v.spec.programmeNum \in 1..6
  BY <1>1 DEF AdmittedSpecs
<1>3. Steps[v.spec.programmeNum] \in Seq(Objects)
  BY <1>2, StepsAssumption
<1>4. Len(Steps[v.spec.programmeNum]) \in Nat \ {0}
  <2>1. Len(Steps[v.spec.programmeNum]) \in Nat
    BY <1>3
  <2>2. Len(Steps[v.spec.programmeNum]) >= 1
    BY <1>2, StepsAssumption
  <2> QED
    BY <2>1, <2>2
<1>5. \A i \in 1..Len(Steps[v.spec.programmeNum]) :
          Steps[v.spec.programmeNum][i] \in Objects
  BY <1>3
<1>6. /\ Steps[v.spec.programmeNum][1] = FilebeatConfigMap
      /\ \A i, j \in 1..Len(Steps[v.spec.programmeNum]) :
             Steps[v.spec.programmeNum][i] = Steps[v.spec.programmeNum][j]
                 => i = j
  BY <1>2, StepsAssumption
<1> QED
  BY <1>1, <1>2, <1>3, <1>4, <1>5, <1>6

\* Writing a version keeps the store and the watch well typed.
LEMMA StoreType ==
    ASSUME TypeOK, NEW v \in Versions, Store(v)
    PROVE  /\ lf' \in [UIDs -> Versions \cup {None}]
           /\ watch' \in Seq(Events)
<1>1. v.uid \in UIDs /\ v.name \in Names
  BY DEF Versions
<1>2. lf' \in [UIDs -> Versions \cup {None}]
  BY <1>1 DEF Store, TypeOK
<1>3. Event(v) \in Events
  BY <1>1 DEF Event, Events
<1>4. watch' \in Seq(Events)
  BY <1>3 DEF Store, TypeOK
<1> QED
  BY <1>2, <1>4

\* The run that ReconcileRun starts is well typed.
LEMMA FirstPosition ==
    ASSUME NEW v \in Versions
    PROVE  [seen |-> v, pos |-> 1] \in Runs
BY ProgrammeOfVersion DEF Runs

\* A run that has a create call left may go on to its next position.
LEMMA NextPosition ==
    ASSUME TypeOK, NEW n \in Names, AtCreate(n)
    PROVE  /\ run[n] \in Runs
           /\ NextObject(n) \in Objects
           /\ [run[n] EXCEPT !.pos = @ + 1] \in Runs
<1>1. run[n] \in Runs /\ run[n].seen \in Versions /\ run[n].pos \in Nat \ {0}
  BY DEF TypeOK, AtCreate, Runs
<1>2. /\ Len(StepsOf(run[n])) \in Nat
      /\ \A i \in 1..Len(StepsOf(run[n])) : StepsOf(run[n])[i] \in Objects
  BY <1>1, ProgrammeOfVersion DEF StepsOf
<1>3. run[n].pos \in 1..Len(StepsOf(run[n]))
  BY <1>1, <1>2 DEF AtCreate
<1>4. NextObject(n) \in Objects
  BY <1>2, <1>3 DEF NextObject
<1>5. [run[n] EXCEPT !.pos = @ + 1] \in Runs
  BY <1>1, <1>2, <1>3 DEF Runs, StepsOf
<1> QED
  BY <1>1, <1>4, <1>5

\* What the API server answers for a name is a version or nothing.
LEMMA StoredType ==
    ASSUME TypeOK, NEW n \in Names
    PROVE  Stored(n) \in Versions \cup {None}
BY DEF Stored, Exists, TypeOK

\* One step per action: none breaks the types.
LEMMA TypeStep == TypeOK /\ [Next]_vars => TypeOK'
<1> SUFFICES ASSUME TypeOK, [Next]_vars
             PROVE  TypeOK'
  OBVIOUS
<1>1. ASSUME NEW u \in UIDs, NEW n \in Names, NEW request \in Requests,
             CreateLogFile(u, n, request)
      PROVE  TypeOK'
  <2>1. [uid |-> u, name |-> n, spec |-> Default(request),
         status |-> "", phase |-> "live"] \in Versions
    BY <1>1, RequestsAssumption, DefaultAdmitted DEF CreateLogFile, Versions
  <2> QED
    BY <1>1, <2>1, StoreType DEF CreateLogFile, budget, TypeOK
<1>2. ASSUME NEW u \in UIDs, NEW request \in Requests, UpdateLogFile(u, request)
      PROVE  TypeOK'
  BY <1>2 DEF UpdateLogFile, ValidateUpdate, budget, TypeOK
<1>3. ASSUME NEW u \in UIDs, DeleteBackground(u)
      PROVE  TypeOK'
  <2>1. [lf[u] EXCEPT !.phase = "gone"] \in Versions
    BY <1>3 DEF DeleteBackground, Exists, TypeOK, Versions
  <2> QED
    BY <1>3, <2>1, StoreType DEF DeleteBackground, budget, TypeOK
<1>4. ASSUME NEW u \in UIDs, DeleteForeground(u)
      PROVE  TypeOK'
  <2>1. [lf[u] EXCEPT !.phase = "deleting"] \in Versions
    BY <1>4 DEF DeleteForeground, Live, TypeOK, Versions
  <2> QED
    BY <1>4, <2>1, StoreType DEF DeleteForeground, budget, TypeOK
<1>5. ASSUME NEW u \in UIDs, RemoveFinalizer(u)
      PROVE  TypeOK'
  BY <1>5 DEF RemoveFinalizer, ValidateUpdate, budget, TypeOK
<1>6. ASSUME NEW o \in Objects, CollectChild(o)
      PROVE  TypeOK'
  BY <1>6 DEF CollectChild, informer, budget, TypeOK
<1>7. CASE DeliverEvent
  <2>1. Head(watch) \in Events /\ Tail(watch) \in Seq(Events)
    BY <1>7 DEF DeliverEvent, TypeOK
  <2> QED
    BY <1>7, <2>1 DEF DeliverEvent, apiServer, budget, Events, TypeOK
<1>8. CASE Relist
  BY <1>8, StoredType DEF Relist, apiServer, budget, TypeOK
<1>9. ASSUME NEW n \in Names, Resync(n)
      PROVE  TypeOK'
  BY <1>9 DEF Resync, apiServer, informer, budget, TypeOK
<1>10. ASSUME NEW n \in Names, ReconcileSkip(n)
       PROVE  TypeOK'
  BY <1>10 DEF ReconcileSkip, apiServer, informer, budget, TypeOK
<1>11. ASSUME NEW n \in Names, ReconcileRun(n)
       PROVE  TypeOK'
  <2>1. cache[n] \in Versions
    BY <1>11 DEF ReconcileRun, Skipped, TypeOK
  <2> QED
    BY <1>11, <2>1, FirstPosition
    DEF ReconcileRun, apiServer, informer, budget, TypeOK
<1>12. ASSUME NEW n \in Names, CreateChild(n)
       PROVE  TypeOK'
  <2>1. AtCreate(n)
    BY <1>12 DEF CreateChild
  <2>2. run[n].seen.uid \in UIDs
    BY <2>1, NextPosition, ProgrammeOfVersion DEF Runs
  <2> QED
    BY <1>12, <2>1, <2>2, NextPosition DEF CreateChild, informer, budget, TypeOK
<1>13. ASSUME NEW n \in Names, CreateRefused(n)
       PROVE  TypeOK'
  BY <1>13 DEF CreateRefused, RunFails, apiServer, informer, budget, TypeOK
<1>14. ASSUME NEW n \in Names, UpdateStatus(n)
       PROVE  TypeOK'
  <2>1. [run[n].seen EXCEPT !.status = "Active"] \in Versions
    BY <1>14 DEF UpdateStatus, AtUpdate, TypeOK, Runs, Versions
  <2> QED
    BY <1>14, <2>1, StoreType DEF UpdateStatus, budget, TypeOK
<1>15. ASSUME NEW n \in Names, UpdateConflict(n)
       PROVE  TypeOK'
  BY <1>15 DEF UpdateConflict, RunFails, apiServer, informer, budget, TypeOK
<1>16. ASSUME NEW n \in Names, RequestLost(n)
       PROVE  TypeOK'
  BY <1>16, BoundsAssumption
  DEF RequestLost, Fault, RunFails, apiServer, informer, TypeOK
<1>17. ASSUME NEW n \in Names, CreateAnswerLost(n)
       PROVE  TypeOK'
  <2>1. AtCreate(n)
    BY <1>17 DEF CreateAnswerLost
  <2>2. run[n].seen.uid \in UIDs
    BY <2>1, NextPosition, ProgrammeOfVersion DEF Runs
  <2>3. faults' \in 0..MaxFaults
    BY <1>17, BoundsAssumption DEF CreateAnswerLost, Fault, TypeOK
  <2> QED
    BY <1>17, <2>1, <2>2, <2>3, NextPosition
    DEF CreateAnswerLost, RunFails, informer, TypeOK
<1>18. ASSUME NEW n \in Names, UpdateAnswerLost(n)
       PROVE  TypeOK'
  <2>1. [run[n].seen EXCEPT !.status = "Active"] \in Versions
    BY <1>18 DEF UpdateAnswerLost, AtUpdate, TypeOK, Runs, Versions
  <2>2. faults' \in 0..MaxFaults
    BY <1>18, BoundsAssumption DEF UpdateAnswerLost, Fault, TypeOK
  <2> QED
    BY <1>18, <2>1, <2>2, StoreType DEF UpdateAnswerLost, RunFails, TypeOK
<1>19. CASE Crash
  BY <1>19, BoundsAssumption DEF Crash, apiServer, TypeOK
<1>20. CASE Restart
  BY <1>20, StoredType DEF Restart, apiServer, budget, TypeOK
<1>21. CASE UNCHANGED vars
  BY <1>21 DEF vars, TypeOK
<1> QED
  BY <1>1, <1>2, <1>3, <1>4, <1>5, <1>6, <1>7, <1>8, <1>9, <1>10, <1>11,
     <1>12, <1>13, <1>14, <1>15, <1>16, <1>17, <1>18, <1>19, <1>20, <1>21
  DEF Next, Reconcile, RunStep, Faulty

\* Every variable always has its type, and a Run never goes past its update.
THEOREM TypeCorrect == Spec => []TypeOK
<1>1. Init => TypeOK
  BY BoundsAssumption DEF Init, TypeOK
<1>2. TypeOK /\ [Next]_vars => TypeOK'
  BY TypeStep
<1> QED
  BY <1>1, <1>2, PTL DEF Spec

-----------------------------------------------------------------------------
(* The inductive invariant.  Every action has one of six effects on the     *)
(* LogFiles, the objects and the runs, and a lemma says of each effect that *)
(* it keeps what the LogFiles own in order.                                 *)

Ownership == OwnersBorn /\ RunsOwn /\ PrefixOwned /\ ActiveIsDeployed

\* No run appears, or moves on, other than at its first call.
RunsStandStill ==
    \A n \in Names : run'[n] # None =>
        \/ run'[n] = run[n]
        \/ run'[n].pos = 1 /\ run'[n].seen \in Versions

\* An object is collected only when its LogFile does not live, so that whatever
\* a live LogFile owned it still owns.
Collected(o) ==
    /\ children[o] # None
    /\ ~ Live(children[o])
    /\ children' = [children EXCEPT ![o] = None]

\* The object of the next call is new, and is the LogFile's that was run.
ChildAdded(n) ==
    /\ AtCreate(n)
    /\ children[NextObject(n)] = None
    /\ children' = [children EXCEPT ![NextObject(n)] = run[n].seen.uid]
    /\ \A m \in Names : run'[m] # None =>
           \/ run'[m] = run[m]
           \/ m = n /\ run'[m] = [run[m] EXCEPT !.pos = @ + 1]

\* What a run of a live LogFile sees is that LogFile's specification.
LEMMA RunOfLogFile ==
    ASSUME TypeOK, Copies, NEW n \in Names, run[n] # None
    PROVE  /\ run[n] \in Runs
           /\ run[n].seen \in Versions
           /\ run[n].pos \in Nat \ {0}
           /\ run[n].seen.uid \in UIDs
           /\ lf[run[n].seen.uid] # None
           /\ lf[run[n].seen.uid] \in Versions
           /\ lf[run[n].seen.uid].spec = run[n].seen.spec
<1>1. run[n] \in Runs
  BY DEF TypeOK
<1>2. run[n].seen \in Versions /\ run[n].pos \in Nat \ {0}
  BY <1>1 DEF Runs
<1>3. run[n].seen.uid \in UIDs
  BY <1>2 DEF Versions
<1>4. CopyOf(run[n].seen)
  BY DEF Copies
<1>5. run[n].seen # None
  BY <1>2, NoneAssumption
<1> QED
  BY <1>1, <1>2, <1>3, <1>4, <1>5 DEF CopyOf, TypeOK

\* A LogFile once created keeps its specification, is never brought back to
\* life, and becomes active only when it owns all of its programme.
Evolved ==
    \A u \in UIDs :
        /\ lf[u] # None => lf'[u] # None /\ lf'[u].spec = lf[u].spec
        /\ Live(u)' => Live(u) \/ lf[u] = None
        /\ Active(u)' =>
               \/ Active(u)
               \/ /\ lf[u] # None
                  /\ \A i \in 1..Len(Steps[lf[u].spec.programmeNum]) :
                         children[Steps[lf[u].spec.programmeNum][i]] = u

\* Whatever is written of the LogFiles, as long as they evolve and the runs and
\* the objects stand still.
LEMMA EvolvedKeepsOwnership ==
    ASSUME Inductive, TypeOK', UNCHANGED children, Evolved, RunsStandStill
    PROVE  Ownership'
<1>1. OwnersBorn'
  BY DEF Inductive, TypeOK, OwnersBorn, Evolved
<1>2. RunsOwn'
  <2> SUFFICES ASSUME NEW n \in Names, run'[n] # None,
                      lf'[run'[n].seen.uid] # None,
                      lf'[run'[n].seen.uid].phase = "live",
                      NEW i \in 1..(run'[n].pos - 1)
               PROVE  children'[Steps[run'[n].seen.spec.programmeNum][i]]
                          = run'[n].seen.uid
    BY DEF RunsOwn, StepsOf, Live
  <2>1. run'[n] = run[n]
    BY DEF RunsStandStill
  <2>2. run[n].seen.uid \in UIDs /\ lf[run[n].seen.uid] # None
    BY <2>1, RunOfLogFile DEF Inductive
  <2>3. Live(run[n].seen.uid)
    BY <2>1, <2>2 DEF Evolved, Live
  <2> QED
    BY <2>1, <2>3 DEF Inductive, RunsOwn, StepsOf
<1>3. PrefixOwned'
  <2> SUFFICES ASSUME NEW u \in UIDs, Live(u)'
               PROVE  \E k \in 0..Len(Steps[lf'[u].spec.programmeNum]) :
                          Owned(u) = {Steps[lf'[u].spec.programmeNum][i] : i \in 1..k}
    BY DEF PrefixOwned, Owned
  <2>1. CASE Live(u)
    <3>1. lf'[u].spec = lf[u].spec
      BY <2>1 DEF Evolved, Live
    <3> QED
      BY <2>1, <3>1 DEF Inductive, PrefixOwned
  <2>2. CASE lf[u] = None
    <3>1. Owned(u) = {}
      BY <2>2, NoneAssumption DEF Inductive, OwnersBorn, Owned
    <3>2. Len(Steps[lf'[u].spec.programmeNum]) \in Nat
      BY ProgrammeOfVersion DEF TypeOK, Live
    <3> QED
      BY <3>1, <3>2
  <2> QED
    BY <2>1, <2>2 DEF Evolved
<1>4. ActiveIsDeployed'
  <2> SUFFICES ASSUME NEW u \in UIDs, Active(u)',
                      NEW i \in 1..Len(Steps[lf'[u].spec.programmeNum])
               PROVE  children[Steps[lf'[u].spec.programmeNum][i]] = u
    BY DEF ActiveIsDeployed
  <2>1. CASE Active(u)
    BY <2>1 DEF Inductive, ActiveIsDeployed, Evolved, Active, Live
  <2>2. CASE ~ Active(u)
    BY <2>2 DEF Evolved
  <2> QED
    BY <2>1, <2>2
<1> QED
  BY <1>1, <1>2, <1>3, <1>4 DEF Ownership

LEMMA CollectedKeepsOwnership ==
    ASSUME Inductive, TypeOK', NEW o \in Objects, Collected(o),
           UNCHANGED <<lf, run>>
    PROVE  Ownership'
<1>1. \A x \in Objects : children[x] # None /\ Live(children[x])
                              => children'[x] = children[x]
  BY DEF Collected, Inductive, TypeOK
<1>2. \A x \in Objects : children'[x] # None => children'[x] = children[x]
  BY DEF Collected, Inductive, TypeOK
<1>3. OwnersBorn'
  BY <1>2 DEF Inductive, OwnersBorn
<1>4. RunsOwn'
  <2> SUFFICES ASSUME NEW n \in Names, run[n] # None, Live(run[n].seen.uid),
                      NEW i \in 1..(run[n].pos - 1)
               PROVE  children'[StepsOf(run[n])[i]] = run[n].seen.uid
    BY DEF RunsOwn, StepsOf, Live
  <2>1. children[StepsOf(run[n])[i]] = run[n].seen.uid
    BY DEF Inductive, RunsOwn
  <2>2. run[n].seen.uid # None /\ StepsOf(run[n])[i] \in Objects
    <3>1. run[n].pos - 1 \in 0..Len(StepsOf(run[n]))
      BY RunOfLogFile DEF Inductive, Runs, StepsOf
    <3> QED
      BY <3>1, RunOfLogFile, ProgrammeOfVersion, NoneAssumption
      DEF Inductive, StepsOf
  <2> QED
    BY <1>1, <2>1, <2>2
<1>5. \A u \in UIDs : Live(u) => Owned(u)' = Owned(u)
  BY <1>1, <1>2, NoneAssumption DEF Owned
<1>6. PrefixOwned'
  BY <1>5 DEF Inductive, PrefixOwned, Live
<1>7. ActiveIsDeployed'
  <2> SUFFICES ASSUME NEW u \in UIDs, Active(u),
                      NEW i \in 1..Len(Steps[lf[u].spec.programmeNum])
               PROVE  children'[Steps[lf[u].spec.programmeNum][i]] = u
    BY DEF ActiveIsDeployed, Active, Live
  <2>1. Steps[lf[u].spec.programmeNum][i] \in Objects
    BY ProgrammeOfVersion DEF Inductive, TypeOK, Active, Live
  <2> QED
    BY <2>1, <1>1, NoneAssumption DEF Inductive, ActiveIsDeployed, Active
<1> QED
  BY <1>3, <1>4, <1>6, <1>7 DEF Ownership

LEMMA CreatedKeepsOwnership ==
    ASSUME Inductive, TypeOK', NEW n \in Names, ChildAdded(n), UNCHANGED lf
    PROVE  Ownership'
<1> DEFINE new == NextObject(n)
           owner == run[n].seen.uid
           steps == StepsOf(run[n])
<1>1. /\ run[n] # None
      /\ new \in Objects /\ children[new] = None
      /\ children' = [children EXCEPT ![new] = owner]
  BY NextPosition DEF ChildAdded, AtCreate, Inductive
<1>2. /\ owner \in UIDs /\ owner # None /\ lf[owner] # None
      /\ steps = Steps[lf[owner].spec.programmeNum]
  BY <1>1, RunOfLogFile, NoneAssumption DEF Inductive, StepsOf
<1>3. /\ Len(steps) \in Nat
      /\ run[n].pos \in 1..Len(steps)
      /\ new = steps[run[n].pos]
      /\ \A i, j \in 1..Len(steps) : steps[i] = steps[j] => i = j
      /\ \A i \in 1..Len(steps) : steps[i] \in Objects
  <2>1. run[n].seen \in Versions /\ run[n].pos \in Nat \ {0}
    BY <1>1, RunOfLogFile DEF Inductive
  <2>2. run[n].pos <= Len(steps) /\ new = steps[run[n].pos]
    BY DEF ChildAdded, AtCreate, NextObject
  <2>3. /\ Len(steps) \in Nat
        /\ \A i, j \in 1..Len(steps) : steps[i] = steps[j] => i = j
        /\ \A i \in 1..Len(steps) : steps[i] \in Objects
    BY <2>1, ProgrammeOfVersion DEF StepsOf
  <2> HIDE DEF steps, new
  <2> QED
    BY <2>1, <2>2, <2>3
<1>4. \A x \in Objects :
          children'[x] = IF x = new THEN owner ELSE children[x]
  BY <1>1 DEF Inductive, TypeOK
<1> HIDE DEF new, owner, steps
<1>5. OwnersBorn'
  BY <1>2, <1>4 DEF Inductive, OwnersBorn
<1>6. RunsOwn'
  <2> SUFFICES ASSUME NEW m \in Names, run'[m] # None, Live(run'[m].seen.uid),
                      NEW i \in 1..(run'[m].pos - 1)
               PROVE  children'[StepsOf(run'[m])[i]] = run'[m].seen.uid
    BY DEF RunsOwn, StepsOf, Live
  <2>1. CASE run'[m] = run[m]
    <3>1. children[StepsOf(run[m])[i]] = run[m].seen.uid
      BY <2>1 DEF Inductive, RunsOwn
    <3>2. StepsOf(run[m])[i] \in Objects
      <4>1. i \in 1..Len(StepsOf(run[m]))
        BY <2>1, RunOfLogFile, ProgrammeOfVersion DEF Inductive, Runs, StepsOf
      <4> QED
        BY <2>1, <4>1, RunOfLogFile, ProgrammeOfVersion DEF Inductive, StepsOf
    <3>3. run[m].seen.uid # None
      BY <2>1, RunOfLogFile, NoneAssumption DEF Inductive
    <3> QED
      BY <1>1, <1>4, <2>1, <3>1, <3>2, <3>3
  <2>2. CASE m = n /\ run'[m] = [run[m] EXCEPT !.pos = @ + 1]
    <3>1. /\ run'[m].seen = run[n].seen
          /\ run'[m].pos = run[n].pos + 1
          /\ StepsOf(run'[m]) = steps
      BY <1>1, <2>2, RunOfLogFile DEF Inductive, Runs, StepsOf, steps
    <3>2. CASE i = run[n].pos
      BY <1>3, <1>4, <3>1, <3>2 DEF owner
    <3>3. CASE i \in 1..(run[n].pos - 1)
      <4>1. children[steps[i]] = owner
        BY <1>1, <3>1, <3>3 DEF Inductive, RunsOwn, steps, owner
      <4>2. i \in 1..Len(steps)
        BY <1>3, <3>3
      <4>3. children'[steps[i]] = owner
        BY <1>3, <1>4, <4>1, <4>2
      <4> QED
        BY <3>1, <4>3 DEF owner
    <3> QED
      BY <1>3, <3>1, <3>2, <3>3
  <2> QED
    BY <2>1, <2>2 DEF ChildAdded
<1>7. PrefixOwned'
  <2> SUFFICES ASSUME NEW u \in UIDs, Live(u)
               PROVE  \E k \in 0..Len(Steps[lf[u].spec.programmeNum]) :
                          Owned(u)' = {Steps[lf[u].spec.programmeNum][i] : i \in 1..k}
    BY DEF PrefixOwned, Live
  <2>1. PICK k \in 0..Len(Steps[lf[u].spec.programmeNum]) :
            Owned(u) = {Steps[lf[u].spec.programmeNum][i] : i \in 1..k}
    BY DEF Inductive, PrefixOwned
  <2>2. CASE u # owner
    <3>1. Owned(u)' = Owned(u)
      BY <1>1, <1>4, <2>2, NoneAssumption DEF Owned
    <3> QED
      BY <2>1, <3>1
  <2>3. CASE u = owner
    <3>1. Owned(u) = {steps[i] : i \in 1..k} /\ k \in 0..Len(steps)
      BY <1>2, <2>1, <2>3
    <3>2. \A i \in 1..(run[n].pos - 1) : steps[i] \in Owned(u)
      BY <1>1, <1>3, <2>3 DEF Inductive, RunsOwn, Owned, steps, owner
    <3>3. new \notin Owned(u)
      BY <1>1, NoneAssumption DEF Owned
    <3>4. k < run[n].pos
      BY <1>3, <3>1, <3>3
    <3>5. k >= run[n].pos - 1
      <4>1. CASE run[n].pos = 1
        BY <3>1, <4>1
      <4>2. CASE run[n].pos > 1
        <5>1. steps[run[n].pos - 1] \in Owned(u)
          BY <1>3, <3>2, <4>2
        <5> QED
          BY <1>3, <3>1, <4>2, <5>1
      <4> QED
        BY <1>3, <4>1, <4>2
    <3>6. k + 1 = run[n].pos
      BY <1>3, <3>1, <3>4, <3>5
    <3>7. Owned(u)' = Owned(u) \cup {new}
      BY <1>1, <1>4, <2>3 DEF Owned
    <3>8. Owned(u)' = {steps[i] : i \in 1..(k + 1)}
      BY <1>3, <3>1, <3>6, <3>7
    <3> QED
      BY <1>2, <1>3, <2>3, <3>1, <3>6, <3>8
  <2> QED
    BY <2>2, <2>3
<1>8. ActiveIsDeployed'
  <2> SUFFICES ASSUME NEW u \in UIDs, Active(u),
                      NEW i \in 1..Len(Steps[lf[u].spec.programmeNum])
               PROVE  children'[Steps[lf[u].spec.programmeNum][i]] = u
    BY DEF ActiveIsDeployed, Active, Live
  <2>1. Steps[lf[u].spec.programmeNum][i] \in Objects
    BY ProgrammeOfVersion DEF Inductive, TypeOK, Active, Live
  <2> QED
    BY <2>1, <1>1, <1>4, NoneAssumption DEF Inductive, ActiveIsDeployed, Active
<1> QED
  BY <1>5, <1>6, <1>7, <1>8 DEF Ownership

-----------------------------------------------------------------------------
(* Copies stay true: what was read earlier is still true of the LogFiles as *)
(* they evolve, and what is read now is.                                    *)

CopyOfNext(v) == v # None => lf'[v.uid] # None /\ lf'[v.uid].spec = v.spec

LEMMA CopyKept ==
    ASSUME Evolved
    PROVE  \A v \in Versions \cup {None} : CopyOf(v) => CopyOfNext(v)
BY DEF Evolved, CopyOf, CopyOfNext, Versions

LEMMA WatchedVersion ==
    ASSUME TypeOK, NEW i \in 1..Len(watch)
    PROVE  watch[i].object \in Versions \cup {None}
<1>1. watch \in Seq(Events)
  BY DEF TypeOK
<1>2. watch[i] \in Events
  BY <1>1
<1> QED
  BY <1>2 DEF Events

LEMMA WatchKept ==
    ASSUME Inductive, Evolved, UNCHANGED watch
    PROVE  \A i \in 1..Len(watch') : CopyOfNext(watch'[i].object)
<1> SUFFICES ASSUME NEW i \in 1..Len(watch)
             PROVE  CopyOfNext(watch[i].object)
  OBVIOUS
<1>1. watch[i].object \in Versions \cup {None}
  BY WatchedVersion DEF Inductive
<1> QED
  BY <1>1, CopyKept DEF Inductive, Copies

LEMMA CacheKept ==
    ASSUME Inductive, Evolved, UNCHANGED cache
    PROVE  \A n \in Names : CopyOfNext(cache'[n])
BY CopyKept DEF Inductive, TypeOK, Copies

LEMMA RunsKept ==
    ASSUME Inductive, Evolved,
           NEW n \in Names, run[n] # None, run'[n].seen = run[n].seen
    PROVE  /\ CopyOfNext(run'[n].seen)
           /\ run'[n].seen.phase = "live"
           /\ run'[n].seen.status = ""
BY CopyKept, RunOfLogFile DEF Inductive, Copies

LEMMA StoredCopy ==
    ASSUME Inductive, NEW n \in Names
    PROVE  CopyOf(Stored(n))
<1>1. CASE \E u \in UIDs : Exists(u) /\ lf[u].name = n
  <2> DEFINE w == CHOOSE u \in UIDs : Exists(u) /\ lf[u].name = n
  <2>1. w \in UIDs /\ Exists(w)
    BY <1>1
  <2>2. Stored(n) = lf[w]
    BY <1>1 DEF Stored
  <2> HIDE DEF w
  <2> QED
    BY <2>1, <2>2 DEF CopyOf, Exists, Inductive, StoreKeyed
<1>2. CASE ~ \E u \in UIDs : Exists(u) /\ lf[u].name = n
  BY <1>2 DEF Stored, CopyOf
<1> QED
  BY <1>1, <1>2

\* Writing a version: the watchers get a true copy.
LEMMA StoreWatched ==
    ASSUME Inductive, Evolved, NEW v \in Versions, Store(v)
    PROVE  /\ StoreKeyed'
           /\ \A i \in 1..Len(watch') : CopyOfNext(watch'[i].object)
<1>1. v.uid \in UIDs /\ v # None
  BY NoneAssumption DEF Versions
<1>2. lf'[v.uid] = v
  BY <1>1 DEF Store, Inductive, TypeOK
<1>3. StoreKeyed'
  BY <1>1, <1>2 DEF Store, Inductive, TypeOK, StoreKeyed
<1>4. CopyOfNext(Event(v).object)
  BY <1>1, <1>2 DEF Event, CopyOfNext
<1>5. \A i \in 1..Len(watch) : CopyOfNext(watch[i].object)
  <2> SUFFICES ASSUME NEW i \in 1..Len(watch)
               PROVE  CopyOfNext(watch[i].object)
    OBVIOUS
  <2>1. watch[i].object \in Versions \cup {None}
    BY WatchedVersion DEF Inductive
  <2> QED
    BY <2>1, CopyKept DEF Inductive, Copies
<1>6. CASE watch' = watch
  BY <1>3, <1>5, <1>6
<1>7. CASE watch' = Append(watch, Event(v))
  <2>1. watch \in Seq(Events)
    BY DEF Inductive, TypeOK
  <2>2. /\ Len(watch') = Len(watch) + 1
        /\ \A i \in 1..Len(watch) : watch'[i] = watch[i]
        /\ watch'[Len(watch) + 1] = Event(v)
        /\ Len(watch) \in Nat
    BY <1>7, <2>1
  <2> QED
    BY <1>3, <1>4, <1>5, <2>2
<1> QED
  BY <1>6, <1>7 DEF Store

-----------------------------------------------------------------------------
(* The effects put together.                                                *)

\* An action that writes version v, stops at most some runs, and does nothing
\* else.
LEMMA StoreInductive ==
    ASSUME Inductive, TypeOK', Evolved, NEW v \in Versions, Store(v),
           UNCHANGED <<children, cache>>,
           \A n \in Names : run'[n] # None => run'[n] = run[n]
    PROVE  Inductive'
<1>1. StoreKeyed' /\ \A i \in 1..Len(watch') : CopyOfNext(watch'[i].object)
  BY StoreWatched
<1>2. \A n \in Names : CopyOfNext(cache'[n])
  BY CacheKept
<1>3. Copies'
  BY <1>1, <1>2, RunsKept DEF Copies, CopyOf, CopyOfNext
<1>4. Ownership'
  BY EvolvedKeepsOwnership DEF RunsStandStill
<1> QED
  BY <1>1, <1>3, <1>4 DEF Inductive, Ownership

\* An action that leaves the LogFiles and the objects alone.
LEMMA QuietInductive ==
    ASSUME Inductive, TypeOK', UNCHANGED <<lf, children>>, RunsStandStill, Copies'
    PROVE  Inductive'
<1>1. Evolved
  BY DEF Evolved, Live, Active
<1>2. StoreKeyed'
  BY DEF Inductive, StoreKeyed
<1>3. Ownership'
  BY <1>1, EvolvedKeepsOwnership
<1> QED
  BY <1>2, <1>3 DEF Inductive, Ownership

\* An action that changes nothing but the queue and the counters, and stops at
\* most some runs.
LEMMA IdleInductive ==
    ASSUME Inductive, TypeOK', UNCHANGED <<lf, children, watch, cache>>,
           \A n \in Names : run'[n] # None => run'[n] = run[n]
    PROVE  Inductive'
<1>1. Copies'
  BY DEF Inductive, Copies, CopyOf
<1> QED
  BY <1>1, QuietInductive DEF RunsStandStill

\* An action that creates the object of the next call.
LEMMA CreatedInductive ==
    ASSUME Inductive, TypeOK', NEW n \in Names, ChildAdded(n),
           UNCHANGED <<lf, watch, cache>>
    PROVE  Inductive'
<1>1. Evolved
  BY DEF Evolved, Live, Active
<1>2. StoreKeyed'
  BY DEF Inductive, StoreKeyed
<1>3. \A m \in Names : run'[m] # None =>
          run[m] # None /\ run'[m].seen = run[m].seen
  BY NextPosition, RunOfLogFile DEF Inductive, ChildAdded, AtCreate, Runs
<1>4. \A i \in 1..Len(watch') : CopyOfNext(watch'[i].object)
  BY <1>1, WatchKept
<1>5. \A m \in Names : CopyOfNext(cache'[m])
  BY <1>1, CacheKept
<1>6. Copies'
  BY <1>1, <1>3, <1>4, <1>5, RunsKept DEF Copies, CopyOf, CopyOfNext
<1>7. Ownership'
  BY CreatedKeepsOwnership
<1> QED
  BY <1>2, <1>6, <1>7 DEF Inductive, Ownership

LEMMA InductiveInit == Init => Inductive
<1> SUFFICES ASSUME Init
             PROVE  Inductive
  OBVIOUS
<1>1. TypeOK
  BY BoundsAssumption DEF Init, TypeOK
<1>2. StoreKeyed /\ Copies /\ OwnersBorn /\ RunsOwn
  BY DEF Init, StoreKeyed, Copies, CopyOf, OwnersBorn, RunsOwn
<1>3. \A u \in UIDs : ~ Live(u)
  BY DEF Init, Live
<1>4. PrefixOwned /\ ActiveIsDeployed
  BY <1>3 DEF PrefixOwned, ActiveIsDeployed, Active
<1> QED
  BY <1>1, <1>2, <1>4 DEF Inductive

\* One step per action: none breaks the inductive invariant.
LEMMA InductiveStep == Inductive /\ [Next]_vars => Inductive'
<1> SUFFICES ASSUME Inductive, [Next]_vars
             PROVE  Inductive'
  OBVIOUS
<1> USE TypeStep
<1>0. TypeOK /\ TypeOK'
  BY DEF Inductive
<1> HIDE TypeStep
<1>1. ASSUME NEW u \in UIDs, NEW n \in Names, NEW request \in Requests,
             CreateLogFile(u, n, request)
      PROVE  Inductive'
  <2> DEFINE v == [uid |-> u, name |-> n, spec |-> Default(request),
                   status |-> "", phase |-> "live"]
  <2>1. v \in Versions
    BY <1>1, RequestsAssumption, DefaultAdmitted DEF CreateLogFile, Versions
  <2>2. Store(v) /\ lf[u] = None /\ UNCHANGED <<children, cache, run>>
    BY <1>1 DEF CreateLogFile
  <2>3. Evolved
    BY <2>2, <1>0 DEF Store, Evolved, TypeOK, Live, Active
  <2> HIDE DEF v
  <2> QED
    BY <1>0, <2>1, <2>2, <2>3, StoreInductive
<1>2. ASSUME NEW u \in UIDs, NEW request \in Requests, UpdateLogFile(u, request)
      PROVE  Inductive'
  BY <1>0, <1>2, IdleInductive DEF UpdateLogFile, ValidateUpdate
<1>3. ASSUME NEW u \in UIDs, DeleteBackground(u)
      PROVE  Inductive'
  <2> DEFINE v == [lf[u] EXCEPT !.phase = "gone"]
  <2>1. lf[u] # None /\ lf[u] \in Versions /\ v \in Versions /\ v.uid = u
    BY <1>0, <1>3
    DEF DeleteBackground, Exists, TypeOK, Versions, Inductive, StoreKeyed
  <2>2. Store(v) /\ UNCHANGED <<children, cache, run>>
    BY <1>3 DEF DeleteBackground
  <2>3. v.spec = lf[u].spec /\ v.phase = "gone"
    BY <2>1 DEF Versions
  <2> HIDE DEF v
  <2>4. Evolved
    BY <1>0, <2>1, <2>2, <2>3, NoneAssumption
    DEF Store, Evolved, TypeOK, Live, Active
  <2> QED
    BY <1>0, <2>1, <2>2, <2>4, StoreInductive
<1>4. ASSUME NEW u \in UIDs, DeleteForeground(u)
      PROVE  Inductive'
  <2> DEFINE v == [lf[u] EXCEPT !.phase = "deleting"]
  <2>1. lf[u] # None /\ lf[u] \in Versions /\ v \in Versions /\ v.uid = u
    BY <1>0, <1>4
    DEF DeleteForeground, Live, TypeOK, Versions, Inductive, StoreKeyed
  <2>2. Store(v) /\ UNCHANGED <<children, cache, run>>
    BY <1>4 DEF DeleteForeground
  <2>3. v.spec = lf[u].spec /\ v.phase = "deleting"
    BY <2>1 DEF Versions
  <2> HIDE DEF v
  <2>4. Evolved
    BY <1>0, <2>1, <2>2, <2>3, NoneAssumption
    DEF Store, Evolved, TypeOK, Live, Active
  <2> QED
    BY <1>0, <2>1, <2>2, <2>4, StoreInductive
<1>5. ASSUME NEW u \in UIDs, RemoveFinalizer(u)
      PROVE  Inductive'
  BY <1>0, <1>5, IdleInductive DEF RemoveFinalizer, ValidateUpdate
<1>6. ASSUME NEW o \in Objects, CollectChild(o)
      PROVE  Inductive'
  <2>1. Collected(o) /\ UNCHANGED <<lf, watch, cache, run>>
    BY <1>6 DEF CollectChild, Collected, informer
  <2>2. StoreKeyed' /\ Copies'
    BY <2>1 DEF Inductive, StoreKeyed, Copies, CopyOf
  <2> QED
    BY <1>0, <2>1, <2>2, CollectedKeepsOwnership DEF Inductive, Ownership
<1>7. CASE DeliverEvent
  <2>1. /\ UNCHANGED <<lf, children, run>>
        /\ watch' = Tail(watch) /\ watch # <<>> /\ watch \in Seq(Events)
        /\ cache' = [cache EXCEPT ![Head(watch).name] = Head(watch).object]
    BY <1>0, <1>7 DEF DeliverEvent, apiServer, TypeOK
  <2>2. /\ Len(watch) \in Nat \ {0} /\ Head(watch) = watch[1]
        /\ Len(watch') = Len(watch) - 1
        /\ \A i \in 1..(Len(watch) - 1) : watch'[i] = watch[i + 1]
    BY <2>1
  <2>3. \A i \in 1..Len(watch) : CopyOf(watch[i].object)
    BY DEF Inductive, Copies
  <2>4. \A i \in 1..Len(watch') : CopyOf(watch'[i].object)
    BY <2>2, <2>3
  <2>5. \A n \in Names : CopyOf(cache'[n])
    <3>1. \A n \in Names : cache'[n] \in {cache[n], watch[1].object}
      BY <1>0, <2>1, <2>2 DEF TypeOK
    <3>2. \A n \in Names : CopyOf(cache[n])
      BY DEF Inductive, Copies
    <3>3. CopyOf(watch[1].object)
      BY <2>2, <2>3
    <3> QED
      BY <3>1, <3>2, <3>3
  <2>6. Copies'
    BY <2>1, <2>4, <2>5 DEF Inductive, Copies, CopyOf
  <2> QED
    BY <1>0, <2>1, <2>6, QuietInductive DEF RunsStandStill
<1>8. CASE Relist
  <2>1. Copies'
    <3>1. \A n \in Names : CopyOf(cache'[n])
      BY <1>8, StoredCopy DEF Relist
    <3>2. Len(watch') = 0
      BY <1>8 DEF Relist
    <3>3. UNCHANGED <<lf, run>>
      BY <1>8 DEF Relist, apiServer
    <3>4. \A i \in 1..Len(watch') : FALSE
      BY <3>2
    <3> QED
      BY <3>1, <3>3, <3>4 DEF Inductive, Copies, CopyOf
  <2> QED
    BY <1>0, <1>8, <2>1, QuietInductive DEF Relist, apiServer, RunsStandStill
<1>9. ASSUME NEW n \in Names, Resync(n)
      PROVE  Inductive'
  BY <1>0, <1>9, IdleInductive DEF Resync, apiServer, informer
<1>10. ASSUME NEW n \in Names, ReconcileSkip(n)
       PROVE  Inductive'
  BY <1>0, <1>10, IdleInductive DEF ReconcileSkip, apiServer, informer
<1>11. ASSUME NEW n \in Names, ReconcileRun(n)
       PROVE  Inductive'
  <2>1. /\ cache[n] \in Versions /\ cache[n].phase = "live"
        /\ cache[n].status = ""
    BY <1>0, <1>11 DEF ReconcileRun, Skipped, TypeOK, Versions
  <2>2. /\ run' = [run EXCEPT ![n] = [seen |-> cache[n], pos |-> 1]]
        /\ UNCHANGED <<lf, children, watch, cache>>
    BY <1>11 DEF ReconcileRun, apiServer, informer
  <2>3. /\ run'[n] = [seen |-> cache[n], pos |-> 1]
        /\ run'[n].seen = cache[n] /\ run'[n].pos = 1
        /\ \A m \in Names \ {n} : run'[m] = run[m]
    <3>1. /\ run'[n] = [seen |-> cache[n], pos |-> 1]
          /\ \A m \in Names \ {n} : run'[m] = run[m]
      BY <1>0, <2>2 DEF TypeOK
    <3>2. [seen |-> cache[n], pos |-> 1].seen = cache[n]
      OBVIOUS
    <3>3. [seen |-> cache[n], pos |-> 1].pos = 1
      OBVIOUS
    <3> QED
      BY <3>1, <3>2, <3>3
  <2>4. Copies'
    <3>1. CopyOf(cache[n])
      BY DEF Inductive, Copies
    <3>2. ASSUME NEW m \in Names, run'[m] # None
          PROVE  /\ CopyOf(run'[m].seen)
                 /\ run'[m].seen.phase = "live"
                 /\ run'[m].seen.status = ""
      <4>1. CASE m = n
        BY <2>1, <2>3, <3>1, <4>1
      <4>2. CASE m # n
        BY <2>3, <3>2, <4>2 DEF Inductive, Copies
      <4> QED
        BY <4>1, <4>2
    <3> QED
      BY <2>2, <3>2 DEF Inductive, Copies, CopyOf
  <2>5. RunsStandStill
    <3> SUFFICES ASSUME NEW m \in Names, m = n
                 PROVE  run'[m].pos = 1 /\ run'[m].seen \in Versions
      BY <2>3 DEF RunsStandStill
    <3> QED
      BY <2>1, <2>3
  <2> QED
    BY <1>0, <2>2, <2>4, <2>5, QuietInductive
<1>12. ASSUME NEW n \in Names, CreateChild(n)
       PROVE  Inductive'
  <2>1. ChildAdded(n)
    BY <1>0, <1>12 DEF CreateChild, Accepts, ChildAdded, TypeOK
  <2> QED
    BY <1>0, <1>12, <2>1, CreatedInductive DEF CreateChild, informer
<1>13. ASSUME NEW n \in Names, CreateRefused(n)
       PROVE  Inductive'
  BY <1>0, <1>13, IdleInductive
  DEF CreateRefused, RunFails, apiServer, informer, TypeOK
<1>14. ASSUME NEW n \in Names, AtUpdate(n), Unchanged(n),
              Store([run[n].seen EXCEPT !.status = "Active"]),
              UNCHANGED <<children, cache>>, run' = [run EXCEPT ![n] = None]
       PROVE  Inductive'
  <2> DEFINE seen == run[n].seen
             v == [seen EXCEPT !.status = "Active"]
             u == seen.uid
  <2>1. /\ seen \in Versions /\ u \in UIDs /\ u # None /\ lf[u] # None
        /\ lf[u] = seen /\ Live(u)
        /\ run[n] \in Runs /\ run[n].pos \in Nat
    BY <1>0, <1>14, RunOfLogFile, NoneAssumption
    DEF AtUpdate, Unchanged, Live, Inductive, Copies
  <2>2. v \in Versions /\ v.uid = u /\ v.spec = seen.spec /\ v.phase = "live"
    BY <2>1 DEF Versions, Live
  <2>3. \A i \in 1..Len(Steps[lf[u].spec.programmeNum]) :
            children[Steps[lf[u].spec.programmeNum][i]] = u
    <3>1. run[n] # None /\ run[n].pos > Len(Steps[seen.spec.programmeNum])
      BY <1>14 DEF AtUpdate, StepsOf
    <3>2. Len(Steps[seen.spec.programmeNum]) \in Nat
      BY <2>1, ProgrammeOfVersion
    <3>3. \A i \in 1..(run[n].pos - 1) :
              children[Steps[seen.spec.programmeNum][i]] = u
      BY <2>1, <3>1 DEF Inductive, RunsOwn, StepsOf
    <3> QED
      BY <2>1, <3>1, <3>2, <3>3
  <2> HIDE DEF v
  <2>4. Store(v)
    BY <1>14 DEF v
  <2> HIDE DEF u, seen
  <2>5. Evolved
    <3>1. lf'[u] = v /\ v # None
      BY <1>0, <2>1, <2>2, <2>4, NoneAssumption DEF Store, TypeOK
    <3>2. \A w \in UIDs \ {u} : lf'[w] = lf[w]
      BY <1>0, <2>2, <2>4 DEF Store, TypeOK
    <3>3. lf'[u].spec = lf[u].spec
      BY <2>1, <2>2, <3>1
    <3> QED
      BY <2>1, <2>3, <3>1, <3>2, <3>3 DEF Evolved, Live, Active
  <2>6. \A m \in Names : run'[m] # None => run'[m] = run[m]
    BY <1>0, <1>14 DEF TypeOK
  <2> QED
    BY <1>0, <1>14, <2>2, <2>4, <2>5, <2>6, StoreInductive
<1>15. ASSUME NEW n \in Names, UpdateStatus(n)
       PROVE  Inductive'
  BY <1>14, <1>15 DEF UpdateStatus
<1>16. ASSUME NEW n \in Names, UpdateConflict(n)
       PROVE  Inductive'
  BY <1>0, <1>16, IdleInductive
  DEF UpdateConflict, RunFails, apiServer, informer, TypeOK
<1>17. ASSUME NEW n \in Names, RequestLost(n)
       PROVE  Inductive'
  BY <1>0, <1>17, IdleInductive
  DEF RequestLost, RunFails, apiServer, informer, TypeOK
<1>18. ASSUME NEW n \in Names, CreateAnswerLost(n)
       PROVE  Inductive'
  <2>1. ChildAdded(n)
    BY <1>0, <1>18 DEF CreateAnswerLost, Accepts, RunFails, ChildAdded, TypeOK
  <2> QED
    BY <1>0, <1>18, <2>1, CreatedInductive DEF CreateAnswerLost, informer
<1>19. ASSUME NEW n \in Names, UpdateAnswerLost(n)
       PROVE  Inductive'
  BY <1>14, <1>19 DEF UpdateAnswerLost, RunFails
<1>20. CASE Crash
  <2>1. Copies' /\ RunsStandStill
    BY <1>20 DEF Crash, Copies, CopyOf, RunsStandStill
  <2> QED
    BY <1>0, <1>20, <2>1, QuietInductive DEF Crash, apiServer
<1>21. CASE Restart
  <2>1. Copies'
    BY <1>0, <1>21, StoredCopy DEF Restart, apiServer, Inductive, Copies, CopyOf
  <2> QED
    BY <1>0, <1>21, <2>1, QuietInductive DEF Restart, apiServer, RunsStandStill
<1>22. CASE UNCHANGED vars
  BY <1>0, <1>22, IdleInductive DEF vars
<1> QED
  BY <1>1, <1>2, <1>3, <1>4, <1>5, <1>6, <1>7, <1>8, <1>9, <1>10, <1>11,
     <1>12, <1>13, <1>15, <1>16, <1>17, <1>18, <1>19, <1>20, <1>21, <1>22
  DEF Next, Reconcile, RunStep, Faulty

\* Nothing in memory or in flight ever makes a Run claim objects that its
\* LogFile does not own.
THEOREM InductiveInvariant == Spec => []Inductive
BY InductiveInit, InductiveStep, PTL DEF Spec

-----------------------------------------------------------------------------
(* The six effects, as what the remaining theorems need to know of a step.  *)

Admitted(u) ==
    /\ lf[u] = None
    /\ lf'[u] # None /\ lf'[u].status = "" /\ lf'[u].phase = "live"
    /\ \A w \in UIDs \ {u} : lf'[w] = lf[w]
    /\ UNCHANGED <<children, run>>

Deleted(u) ==
    /\ Exists(u)
    /\ lf'[u] # None /\ lf'[u].phase # "live" /\ lf'[u].spec = lf[u].spec
    /\ \A w \in UIDs \ {u} : lf'[w] = lf[w]
    /\ UNCHANGED <<children, run>>

Activated(n) ==
    /\ AtUpdate(n)
    /\ Unchanged(n)
    /\ lf'[run[n].seen.uid] # None
    /\ lf'[run[n].seen.uid].phase = "live"
    /\ lf'[run[n].seen.uid].status = "Active"
    /\ lf'[run[n].seen.uid].spec = lf[run[n].seen.uid].spec
    /\ \A w \in UIDs \ {run[n].seen.uid} : lf'[w] = lf[w]
    /\ UNCHANGED children
    /\ run' = [run EXCEPT ![n] = None]

Effect ==
    \/ UNCHANGED <<lf, children>> /\ RunsStandStill
    \/ \E u \in UIDs : Admitted(u) \/ Deleted(u)
    \/ \E o \in Objects : Collected(o) /\ UNCHANGED <<lf, run>>
    \/ \E n \in Names : ChildAdded(n) /\ UNCHANGED lf
    \/ \E n \in Names : Activated(n)

\* Every step has one of the effects.
LEMMA StepEffect == Inductive /\ [Next]_vars => Effect
<1> SUFFICES ASSUME Inductive, [Next]_vars
             PROVE  Effect
  OBVIOUS
<1>0. TypeOK
  BY DEF Inductive
<1>1. ASSUME NEW u \in UIDs, NEW n \in Names, NEW request \in Requests,
             CreateLogFile(u, n, request)
      PROVE  Effect
  <2> DEFINE v == [uid |-> u, name |-> n, spec |-> Default(request),
                   status |-> "", phase |-> "live"]
  <2>1. v \in Versions
    BY <1>1, RequestsAssumption, DefaultAdmitted DEF CreateLogFile, Versions
  <2>2. v.uid = u /\ v.status = "" /\ v.phase = "live"
    OBVIOUS
  <2>3. Store(v) /\ lf[u] = None /\ UNCHANGED <<children, run>>
    BY <1>1 DEF CreateLogFile
  <2> HIDE DEF v
  <2> QED
    BY <1>0, <2>1, <2>2, <2>3, NoneAssumption DEF Store, TypeOK, Admitted, Effect
<1>2. ASSUME NEW u \in UIDs, NEW request \in Requests, UpdateLogFile(u, request)
      PROVE  Effect
  BY <1>2 DEF UpdateLogFile, ValidateUpdate, RunsStandStill, Effect
<1>3. ASSUME NEW u \in UIDs, NEW p \in {"gone", "deleting"}, Exists(u),
             Store([lf[u] EXCEPT !.phase = p]), UNCHANGED <<children, run>>
      PROVE  Effect
  <2> DEFINE v == [lf[u] EXCEPT !.phase = p]
  <2>1. v \in Versions /\ v.uid = u /\ v.phase = p /\ v.spec = lf[u].spec
    BY <1>0, <1>3 DEF Exists, TypeOK, Versions, Inductive, StoreKeyed
  <2>2. Store(v)
    BY <1>3
  <2> HIDE DEF v
  <2> QED
    BY <1>0, <1>3, <2>1, <2>2, NoneAssumption DEF Store, TypeOK, Deleted, Effect
<1>4. ASSUME NEW u \in UIDs, DeleteBackground(u)
      PROVE  Effect
  BY <1>3, <1>4 DEF DeleteBackground
<1>5. ASSUME NEW u \in UIDs, DeleteForeground(u)
      PROVE  Effect
  BY <1>3, <1>5 DEF DeleteForeground, Live, Exists
<1>6. ASSUME NEW u \in UIDs, RemoveFinalizer(u)
      PROVE  Effect
  BY <1>6 DEF RemoveFinalizer, ValidateUpdate, RunsStandStill, Effect
<1>7. ASSUME NEW o \in Objects, CollectChild(o)
      PROVE  Effect
  BY <1>7 DEF CollectChild, Collected, Effect
<1>8. CASE DeliverEvent
  BY <1>8 DEF DeliverEvent, apiServer, RunsStandStill, Effect
<1>9. CASE Relist
  BY <1>9 DEF Relist, apiServer, RunsStandStill, Effect
<1>10. ASSUME NEW n \in Names, Resync(n) \/ ReconcileSkip(n)
       PROVE  Effect
  BY <1>10 DEF Resync, ReconcileSkip, apiServer, RunsStandStill, Effect
<1>11. ASSUME NEW n \in Names, ReconcileRun(n)
       PROVE  Effect
  <2>1. cache[n] \in Versions
    BY <1>0, <1>11 DEF ReconcileRun, Skipped, TypeOK
  <2>2. /\ run'[n] = [seen |-> cache[n], pos |-> 1]
        /\ \A m \in Names \ {n} : run'[m] = run[m]
    BY <1>0, <1>11 DEF ReconcileRun, TypeOK
  <2>3. RunsStandStill
    BY <2>1, <2>2 DEF RunsStandStill
  <2> QED
    BY <1>11, <2>3 DEF ReconcileRun, apiServer, Effect
<1>12. ASSUME NEW n \in Names, CreateChild(n) \/ CreateAnswerLost(n)
       PROVE  Effect
  <2>1. ChildAdded(n) /\ UNCHANGED lf
    BY <1>0, <1>12
    DEF CreateChild, CreateAnswerLost, Accepts, RunFails, ChildAdded, TypeOK
  <2> QED
    BY <2>1 DEF Effect
<1>13. ASSUME NEW n \in Names,
              CreateRefused(n) \/ UpdateConflict(n) \/ RequestLost(n)
       PROVE  Effect
  <2>1. RunsStandStill /\ UNCHANGED <<lf, children>>
    BY <1>0, <1>13
    DEF CreateRefused, UpdateConflict, RequestLost, RunFails, apiServer, TypeOK,
        RunsStandStill
  <2> QED
    BY <2>1 DEF Effect
<1>14. ASSUME NEW n \in Names, UpdateStatus(n) \/ UpdateAnswerLost(n)
       PROVE  Effect
  <2> DEFINE v == [run[n].seen EXCEPT !.status = "Active"]
  <2>1. AtUpdate(n) /\ Unchanged(n) /\ Store(v) /\ UNCHANGED children
        /\ run' = [run EXCEPT ![n] = None]
    BY <1>14 DEF UpdateStatus, UpdateAnswerLost, RunFails
  <2>2. run[n].seen \in Versions /\ run[n].seen.phase = "live"
    BY <2>1, RunOfLogFile DEF AtUpdate, Inductive, Copies
  <2>3. v \in Versions /\ v.uid = run[n].seen.uid /\ v.uid \in UIDs
        /\ v.status = "Active" /\ v.phase = "live" /\ v.spec = run[n].seen.spec
    BY <2>2 DEF Versions
  <2> HIDE DEF v
  <2>4. lf'[run[n].seen.uid] = v /\ v # None
        /\ \A w \in UIDs \ {run[n].seen.uid} : lf'[w] = lf[w]
    BY <1>0, <2>1, <2>3, NoneAssumption DEF Store, TypeOK
  <2>5. Activated(n)
    BY <2>1, <2>3, <2>4 DEF Activated, Unchanged
  <2> QED
    BY <2>5 DEF Effect
<1>15. CASE Crash
  BY <1>15 DEF Crash, apiServer, RunsStandStill, Effect
<1>16. CASE Restart
  BY <1>16 DEF Restart, apiServer, RunsStandStill, Effect
<1>17. CASE UNCHANGED vars
  BY <1>17 DEF vars, RunsStandStill, Effect
<1> QED
  BY <1>1, <1>2, <1>4, <1>5, <1>6, <1>7, <1>8, <1>9, <1>10, <1>11, <1>12,
     <1>13, <1>14, <1>15, <1>16, <1>17
  DEF Next, Reconcile, RunStep, Faulty

\* A LogFile that was created keeps its specification.
LEMMA SpecificationKept ==
    ASSUME Inductive, [Next]_vars, NEW u \in UIDs, lf[u] # None
    PROVE  lf'[u] # None /\ lf'[u].spec = lf[u].spec
<1>1. ASSUME NEW n \in Names, Activated(n)
      PROVE  lf'[u] # None /\ lf'[u].spec = lf[u].spec
  BY <1>1 DEF Activated
<1>2. ASSUME NEW w \in UIDs, Admitted(w) \/ Deleted(w)
      PROVE  lf'[u] # None /\ lf'[u].spec = lf[u].spec
  BY <1>2 DEF Admitted, Deleted
<1> QED
  BY <1>1, <1>2, StepEffect DEF Effect

-----------------------------------------------------------------------------
(* The properties.                                                          *)

\* A live LogFile that owns anything owns the Filebeat ConfigMap.
LEMMA FilebeatOwned ==
    ASSUME Inductive, NEW u \in UIDs, Live(u), Owned(u) # {}
    PROVE  children[FilebeatConfigMap] = u
<1>1. PICK k \in 0..Len(Steps[lf[u].spec.programmeNum]) :
          Owned(u) = {Steps[lf[u].spec.programmeNum][i] : i \in 1..k}
  BY DEF Inductive, PrefixOwned
<1>2. /\ Len(Steps[lf[u].spec.programmeNum]) \in Nat
      /\ Steps[lf[u].spec.programmeNum][1] = FilebeatConfigMap
  BY ProgrammeOfVersion DEF Inductive, TypeOK, Live
<1>3. k # 0
  BY <1>1, <1>2
<1>4. 1 \in 1..k
  BY <1>2, <1>3
<1> QED
  BY <1>1, <1>2, <1>4 DEF Owned

\* Two live LogFiles never both own objects, however runs interleave, fail,
\* repeat and work on stale copies.
THEOREM OneDeployer == Spec => []SoleDeployer
<1>1. Inductive => SoleDeployer
  BY FilebeatOwned DEF SoleDeployer
<1> QED
  BY <1>1, InductiveInvariant, PTL

\* An active LogFile owns every object of its programme.
THEOREM ActiveDeployed == Spec => []ActiveIsDeployed
<1>1. Inductive => ActiveIsDeployed
  BY DEF Inductive
<1> QED
  BY <1>1, InductiveInvariant, PTL

\* What a live LogFile owns is the beginning of its programme.
THEOREM OwnedIsPrefix == Spec => []PrefixOwned
<1>1. Inductive => PrefixOwned
  BY DEF Inductive
<1> QED
  BY <1>1, InductiveInvariant, PTL

\* A LogFile whose Run has ended early stays as it is as long as it lives.
THEOREM WedgesStay == Spec => WedgeIsPermanent
<1>1. ASSUME Inductive, Inductive', [Next]_vars
      PROVE  \A u \in UIDs : Wedged(u) /\ Live(u)' => Wedged(u)'
  <2> SUFFICES ASSUME NEW u \in UIDs, Wedged(u), Live(u)'
               PROVE  Wedged(u)'
    OBVIOUS
  <2>1. /\ Live(u) /\ ~ Active(u) /\ children[FilebeatConfigMap] = u
        /\ FilebeatConfigMap \in Objects /\ u # None
        /\ \A n \in Names :
               run[n] # None /\ run[n].seen.uid = u => run[n].pos = 1
    BY StepsAssumption, NoneAssumption DEF Wedged
  <2>2. ASSUME NEW n \in Names, AtUpdate(n)
        PROVE  run[n].seen.uid # u
    <3>1. /\ run[n] # None /\ run[n].seen \in Versions
          /\ run[n].pos \in Nat /\ run[n].pos > Len(StepsOf(run[n]))
      BY <1>1, <2>2, RunOfLogFile DEF AtUpdate, Inductive
    <3>2. Len(StepsOf(run[n])) \in Nat \ {0}
      BY <3>1, ProgrammeOfVersion DEF StepsOf
    <3>3. run[n].pos # 1
      BY <3>1, <3>2
    <3> QED
      BY <2>1, <3>1, <3>3
  <2>3. ASSUME NEW n \in Names, ChildAdded(n)
        PROVE  run[n].seen.uid # u
    <3>1. run[n] # None /\ run[n].seen \in Versions
      BY <1>1, <2>3, RunOfLogFile DEF ChildAdded, AtCreate, Inductive
    <3>2. children[NextObject(n)] = None
      BY <2>3 DEF ChildAdded
    <3>3. run[n].pos = 1 => NextObject(n) = FilebeatConfigMap
      BY <3>1, ProgrammeOfVersion DEF NextObject, StepsOf
    <3> QED
      BY <2>1, <3>1, <3>2, <3>3
  <2>4. children'[FilebeatConfigMap] = u
    BY <1>1, <2>1, StepEffect
    DEF Effect, Admitted, Deleted, Activated, Collected, ChildAdded, Inductive, TypeOK
  <2>5. ~ Active(u)'
    BY <1>1, <2>1, <2>2, StepEffect
    DEF Effect, Admitted, Deleted, Activated, Live, Active
  <2>6. ASSUME NEW n \in Names, run'[n] # None, run'[n].seen.uid = u
        PROVE  run'[n].pos = 1
    <3>1. CASE RunsStandStill
      BY <2>1, <2>6, <3>1 DEF RunsStandStill
    <3>2. CASE UNCHANGED run
      BY <2>1, <2>6, <3>2
    <3>3. ASSUME NEW m \in Names, ChildAdded(m)
          PROVE  run'[n].pos = 1
      <4>1. m # n \/ run'[n] = run[n]
        BY <1>1, <2>3, <2>6, <3>3, RunOfLogFile
        DEF ChildAdded, AtCreate, Inductive, Runs
      <4> QED
        BY <2>1, <2>6, <3>3, <4>1 DEF ChildAdded
    <3>4. ASSUME NEW m \in Names, Activated(m)
          PROVE  run'[n].pos = 1
      BY <1>1, <2>1, <2>6, <3>4 DEF Activated, Inductive, TypeOK
    <3> QED
      BY <1>1, <3>1, <3>2, <3>3, <3>4, StepEffect DEF Effect, Admitted, Deleted
  <2> QED
    BY <2>4, <2>5, <2>6 DEF Wedged
<1> QED
  BY <1>1, InductiveInvariant, PTL DEF Spec, WedgeIsPermanent
=============================================================================
