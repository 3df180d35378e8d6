------------------------------ MODULE Operator ------------------------------
(***************************************************************************)
(* The controller with the programmes it really deploys: Reconciler with   *)
(* the create calls of Programmes as its Steps.                            *)
(***************************************************************************)
EXTENDS Reconciler, Programmes

Calls == [p \in 1..6 |-> RunCalls(p)]

ProgrammeSteps ==
    [p \in 1..6 |-> [i \in 1..Len(Calls[p]) |-> Calls[p][i].object]]

ProgrammeObjects ==
    UNION {{ProgrammeSteps[p][i] : i \in 1..Len(Calls[p])} : p \in 1..6}

\* What Reconciler is told of Run: the objects of these calls, in this order.
ASSUME OperatorAssumption == Steps = ProgrammeSteps

PublishedPorts == [o \in ProgrammeObjects |-> NodePortField(o)]

\* When a LogFile is active, every ConfigMap, Secret, ServiceAccount and Service
\* that a created object mounts, runs under or connects to is there, and is its
\* own: no programme refers to a name that only another programme creates.  And
\* whatever selects pods selects those of exactly one workload, also its own.
Wired ==
    \A u \in UIDs : Active(u) =>
        LET calls == Calls[lf[u].spec.programmeNum] IN
        /\ \A i \in DOMAIN calls : \A ref \in calls[i].refs :
              ref \in Objects /\ children[ref] = u
        /\ \A i \in Selecting(calls) : \E o \in Objects :
              PodsLabelled(calls, calls[i].app) = {o} /\ children[o] = u
=============================================================================
