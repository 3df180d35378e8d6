------------------------ MODULE ReconcilerLockProofs ------------------------
(***************************************************************************)
(* Reconciler implements DeploymentLock, and what that lock promises.      *)
(***************************************************************************)
EXTENDS ReconcilerLock, ReconcilerProofs

LEMMA FilebeatIsObject == FilebeatConfigMap \in Objects
BY StepsAssumption

LEMMA InitImplements == Init => Lock!Init
BY FilebeatIsObject DEF Init, Lock!Init, LockPhase

\* An active LogFile holds the lock.
LEMMA ActiveHoldsLock ==
    ASSUME Inductive, NEW u \in UIDs, Active(u)
    PROVE  children[FilebeatConfigMap] = u
<1>1. lf[u] \in Versions /\ lf[u] # None
  BY DEF Inductive, TypeOK, Active, Live
<1>2. /\ 1 \in 1..Len(Steps[lf[u].spec.programmeNum])
      /\ Steps[lf[u].spec.programmeNum][1] = FilebeatConfigMap
  BY <1>1, ProgrammeOfVersion
<1> QED
  BY <1>2 DEF Inductive, ActiveIsDeployed

\* The LogFiles that keep their phase.
LEMMA SamePhase ==
    ASSUME NEW u \in UIDs, lf'[u] = lf[u]
    PROVE  LockPhase'[u] = LockPhase[u]
BY DEF LockPhase, Active, Live

\* Every effect of a step is a step of the lock, or none.
LEMMA StepImplements ==
    ASSUME Inductive, Inductive', [Next]_vars
    PROVE  [Lock!Next]_(Lock!vars)
<1> DEFINE holder == children[FilebeatConfigMap]
<1>1. CASE UNCHANGED <<lf, children>>
  BY <1>1 DEF Lock!vars, LockPhase, Active, Live
<1>2. ASSUME NEW u \in UIDs, Admitted(u)
      PROVE  Lock!Admit(u)
  <2>1. LockPhase[u] = "absent" /\ LockPhase'[u] = "waiting"
    BY <1>2 DEF Admitted, LockPhase, Active, Live
  <2>2. \A w \in UIDs \ {u} : LockPhase'[w] = LockPhase[w]
    BY <1>2, SamePhase DEF Admitted
  <2>3. LockPhase' = [LockPhase EXCEPT ![u] = "waiting"]
    BY <2>1, <2>2 DEF LockPhase
  <2> QED
    BY <1>2, <2>1, <2>3 DEF Admitted, Lock!Admit
<1>3. ASSUME NEW u \in UIDs, Deleted(u)
      PROVE  Lock!Delete(u) \/ UNCHANGED Lock!vars
  <2>1. LockPhase'[u] = "deleted"
    BY <1>3 DEF Deleted, LockPhase, Active, Live
  <2>2. \A w \in UIDs \ {u} : LockPhase'[w] = LockPhase[w]
    BY <1>3, SamePhase DEF Deleted
  <2>3. LockPhase' = [LockPhase EXCEPT ![u] = "deleted"]
    BY <2>1, <2>2 DEF LockPhase
  <2>4. LockPhase[u] \in {"waiting", "active", "deleted"}
    BY <1>3 DEF Deleted, Exists, LockPhase, Active, Live
  <2>5. CASE LockPhase[u] \in {"waiting", "active"}
    BY <1>3, <2>3, <2>5 DEF Deleted, Lock!Delete
  <2>6. CASE LockPhase[u] = "deleted"
    <3>1. LockPhase' = LockPhase
      BY <2>3, <2>6 DEF LockPhase
    <3> QED
      BY <1>3, <3>1 DEF Deleted, Lock!vars
  <2> QED
    BY <2>4, <2>5, <2>6
<1>4. ASSUME NEW o \in Objects, Collected(o), UNCHANGED <<lf, run>>
      PROVE  [Lock!Next]_(Lock!vars)
  <2>1. LockPhase' = LockPhase
    BY <1>4 DEF LockPhase, Active, Live
  <2>2. CASE o = FilebeatConfigMap
    <3>1. holder \in UIDs /\ ~ Live(holder) /\ lf[holder] # None
      BY <1>4, <2>2 DEF Collected, Inductive, TypeOK, OwnersBorn
    <3>2. LockPhase[holder] = "deleted"
      BY <3>1 DEF LockPhase, Active
    <3>3. holder' = None
      BY <1>4, <2>2 DEF Collected, Inductive, TypeOK
    <3>4. Lock!Release(holder)
      BY <2>1, <3>2, <3>3 DEF Lock!Release
    <3> QED
      BY <3>1, <3>4 DEF Lock!Next
  <2>3. CASE o # FilebeatConfigMap
    <3>1. holder' = holder
      BY <1>4, <2>3, FilebeatIsObject DEF Collected, Inductive, TypeOK
    <3> QED
      BY <2>1, <3>1 DEF Lock!vars
  <2> QED
    BY <2>2, <2>3
<1>5. ASSUME NEW n \in Names, ChildAdded(n), UNCHANGED lf
      PROVE  [Lock!Next]_(Lock!vars)
  <2> DEFINE u == run[n].seen.uid
  <2>1. LockPhase' = LockPhase
    BY <1>5 DEF LockPhase, Active, Live
  <2>2. u \in UIDs /\ u # None /\ lf[u] # None
    BY <1>5, RunOfLogFile, NoneAssumption DEF ChildAdded, AtCreate, Inductive
  <2>3. CASE NextObject(n) = FilebeatConfigMap
    <3>1. holder = None /\ holder' = u
      BY <1>5, <2>3, FilebeatIsObject DEF ChildAdded, Inductive, TypeOK
    <3>2. ~ Active(u)
      BY <2>2, <3>1, ActiveHoldsLock
    <3>3. LockPhase[u] \in {"waiting", "deleted"}
      BY <2>2, <3>2 DEF LockPhase
    <3>4. Lock!Acquire(u)
      BY <2>1, <3>1, <3>3 DEF Lock!Acquire
    <3> QED
      BY <2>2, <3>4 DEF Lock!Next
  <2>4. CASE NextObject(n) # FilebeatConfigMap
    <3>1. holder' = holder
      BY <1>5, <2>4, FilebeatIsObject DEF ChildAdded, Inductive, TypeOK
    <3> QED
      BY <2>1, <3>1 DEF Lock!vars
  <2> QED
    BY <2>3, <2>4
<1>6. ASSUME NEW n \in Names, Activated(n)
      PROVE  [Lock!Next]_(Lock!vars)
  <2> DEFINE u == run[n].seen.uid
  <2>1. /\ u \in UIDs /\ lf[u] # None /\ lf[u] = run[n].seen
        /\ run[n].seen.phase = "live" /\ run[n].seen.status = ""
    BY <1>6, RunOfLogFile
    DEF Activated, AtUpdate, Unchanged, Inductive, Copies
  <2> HIDE DEF u
  <2>2. LockPhase[u] = "waiting"
    BY <2>1 DEF LockPhase, Active, Live
  <2>3. /\ lf'[u] # None /\ lf'[u].phase = "live" /\ lf'[u].status = "Active"
        /\ \A w \in UIDs \ {u} : lf'[w] = lf[w]
        /\ children' = children
    BY <1>6 DEF Activated, u
  <2>4. LockPhase'[u] = "active"
    BY <2>1, <2>3 DEF LockPhase, Active, Live
  <2>5. \A w \in UIDs \ {u} : LockPhase'[w] = LockPhase[w]
    BY <2>3, SamePhase
  <2>6. LockPhase' = [LockPhase EXCEPT ![u] = "active"]
    BY <2>4, <2>5 DEF LockPhase
  <2>7. holder' = u
    <3>1. \A w \in UIDs : lf'[w] # None /\ lf'[w].phase = "live"
              /\ lf'[w].status = "Active" => children'[FilebeatConfigMap] = w
      <4> SUFFICES ASSUME NEW w \in UIDs, Active(w)'
                   PROVE  children'[FilebeatConfigMap] = w
        BY DEF Active, Live
      <4>1. lf'[w] \in Versions
        BY DEF Inductive, TypeOK, Active, Live
      <4>2. /\ 1 \in 1..Len(Steps[lf'[w].spec.programmeNum])
            /\ Steps[lf'[w].spec.programmeNum][1] = FilebeatConfigMap
        BY <4>1, ProgrammeOfVersion
      <4> QED
        BY <4>2 DEF Inductive, ActiveIsDeployed
    <3> QED
      BY <2>1, <2>3, <3>1
  <2>8. holder = u
    BY <2>3, <2>7
  <2>9. Lock!Activate(u)
    BY <2>2, <2>3, <2>6, <2>8 DEF Lock!Activate
  <2> QED
    BY <2>1, <2>9 DEF Lock!Next
<1> QED
  BY <1>1, <1>2, <1>3, <1>4, <1>5, <1>6, StepEffect DEF Effect, Lock!Next

\* The controller takes, keeps and gives back ConfigMap filebeat-sidecar as a
\* lock is: what ImplementsLock says, without the fairness.
THEOREM ReconcilerImplementsLock == Spec => Lock!Spec
<1>1. Inductive /\ Inductive' /\ [Next]_vars => [Lock!Next]_(Lock!vars)
  BY StepImplements
<1> QED
  BY <1>1, InitImplements, InductiveInvariant, PTL DEF Spec, Lock!Spec
=============================================================================
