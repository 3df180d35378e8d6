--------------------------- MODULE DeploymentLock ---------------------------
(***************************************************************************)
(* What the controller promises of the one deployment the cluster can      *)
(* hold: a lock that a LogFile takes, keeps until it is deleted, and must  *)
(* hold to become active.  The code has no such lock: it is what the fixed *)
(* names of the created objects amount to.                                 *)
(***************************************************************************)
CONSTANTS UIDs, None

VARIABLES
    phase,   \* of the LogFile with a uid
    holder   \* the uid that holds the lock, or None

vars == <<phase, holder>>

TypeOK ==
    /\ phase \in [UIDs -> {"absent", "waiting", "active", "deleted"}]
    /\ holder \in UIDs \cup {None}

Init ==
    /\ phase = [u \in UIDs |-> "absent"]
    /\ holder = None

Admit(u) ==
    /\ phase[u] = "absent"
    /\ phase' = [phase EXCEPT ![u] = "waiting"]
    /\ UNCHANGED holder

Delete(u) ==
    /\ phase[u] \in {"waiting", "active"}
    /\ phase' = [phase EXCEPT ![u] = "deleted"]
    /\ UNCHANGED holder

\* A Run that outlives the deletion of its LogFile may still take the lock; an
\* active LogFile has it and never takes it a second time.
Acquire(u) ==
    /\ holder = None
    /\ phase[u] \in {"waiting", "deleted"}
    /\ holder' = u
    /\ UNCHANGED phase

Activate(u) ==
    /\ holder = u
    /\ phase[u] = "waiting"
    /\ phase' = [phase EXCEPT ![u] = "active"]
    /\ UNCHANGED holder

Release(u) ==
    /\ holder = u
    /\ phase[u] = "deleted"
    /\ holder' = None
    /\ UNCHANGED phase

Next ==
    \E u \in UIDs :
        Admit(u) \/ Delete(u) \/ Acquire(u) \/ Activate(u) \/ Release(u)

\* A deleted LogFile gives the lock back.
Fairness == \A u \in UIDs : WF_vars(Release(u))

Spec == Init /\ [][Next]_vars
FairSpec == Spec /\ Fairness

\* An active LogFile holds the lock, so that there is at most one.
ActiveHolds == \A u \in UIDs : phase[u] = "active" => holder = u
=============================================================================
