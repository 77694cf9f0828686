------------------------------- MODULE DistLock -------------------------------
(***************************************************************************)
(* netforce.common.lockutils.lock: a context manager around a lock of the  *)
(* coordination service, for threads of any number of processes and one    *)
(* name.  What the service keeps is a lease: it ends unless the heartbeat  *)
(* of the holder's coordinator extends it in time, so a thread that is     *)
(* held up, or whose process has died, loses it.                           *)
(*                                                                         *)
(* The service is external and modelled as lockutils uses it: one owner at *)
(* most, waiters in no order, a release that looks at the owner, and calls *)
(* that raise a ToozError, whether or not the service has done them.       *)
(***************************************************************************)
EXTENDS FiniteSets

CONSTANTS
    Threads,
    Nobody      \* no owner

ASSUME LockAssumption == Nobody \notin Threads

VARIABLES
    owner,      \* who has the lease, as the service sees it
    renewed,    \* whether the heartbeat of the owner's coordinator extends it
    coord,      \* the threads that have a coordinator in local.strong_store
    pc,         \* Threads -> "idle", "acquiring" or "body", "dead"
    blocking,   \* Threads -> the argument: "forever", "a while" or "never"
    paused,     \* the threads whose process is held up, its heartbeat included
    lost,       \* the threads whose lease has ended since they acquired it
    broken,     \* the threads the service failed a call of since they acquired it
    error       \* Threads -> what the last call of lock raised

vars == <<owner, renewed, coord, pc, blocking, paused, lost, broken, error>>

Blocking == {"forever", "a while", "never"}

Errors ==
    {"none", "DistributedLockError", "AcquireDistributedLockFailed", "ToozError", "body"}

TypeOK ==
    /\ owner \in Threads \cup {Nobody} /\ renewed \in BOOLEAN
    /\ coord \subseteq Threads
    /\ pc \in [Threads -> {"idle", "acquiring", "body", "dead"}]
    /\ blocking \in [Threads -> Blocking]
    /\ paused \subseteq Threads /\ lost \subseteq Threads /\ broken \subseteq Threads
    /\ error \in [Threads -> Errors]

Init ==
    /\ owner = Nobody /\ renewed = FALSE
    /\ coord = {}
    /\ pc = [t \in Threads |-> "idle"]
    /\ blocking \in [Threads -> Blocking]
    /\ paused = {} /\ lost = {} /\ broken = {}
    /\ error = [t \in Threads |-> "none"]

Runs(t, at) == pc[t] = at /\ t \notin paused

Goes(t, to, raised) ==
    /\ pc' = [pc EXCEPT ![t] = to]
    /\ error' = [error EXCEPT ![t] = raised]

-----------------------------------------------------------------------------

\* The coordinator cannot be started: nothing is stored, and the next call of
\* the thread tries again.
StartFails(t) ==
    /\ Runs(t, "idle") /\ t \notin coord
    /\ Goes(t, "idle", "DistributedLockError")
    /\ UNCHANGED <<owner, renewed, coord, blocking, paused, lost, broken>>

\* get_lock, in the coordinator this thread has or starts.
Enter(t) ==
    /\ Runs(t, "idle")
    /\ coord' = coord \cup {t}
    /\ \E b \in Blocking : blocking' = [blocking EXCEPT ![t] = b]
    /\ Goes(t, "acquiring", "none")
    /\ UNCHANGED <<owner, renewed, paused, lost, broken>>

\* `with lock(blocking)`: from now on the heartbeat extends the lease.
Acquire(t) ==
    /\ Runs(t, "acquiring")
    /\ owner = Nobody
    /\ owner' = t /\ renewed' = TRUE
    /\ lost' = lost \ {t} /\ broken' = broken \ {t}
    /\ Goes(t, "body", "none")
    /\ UNCHANGED <<coord, blocking, paused>>

\* The acquire raises, and nothing here catches it.  When only its answer was lost
\* the lease is t's, but the coordinator does not know and leaves it to end.
AcquireFails(t) ==
    /\ Runs(t, "acquiring")
    /\ \/ UNCHANGED <<owner, renewed>>
       \/ owner = Nobody /\ owner' = t /\ renewed' = FALSE
    /\ broken' = broken \cup {t}
    /\ Goes(t, "idle", "ToozError")
    /\ UNCHANGED <<coord, blocking, paused, lost>>

\* Mutant: the body runs although the lock was not acquired.
RefusedEnters(t) == Goes(t, "body", "none")

\* Mutant: tooz's own exception comes through.
RefusedUncaught(t) == Goes(t, "idle", "LockAcquireFailed")

\* LockAcquireFailed
Refused(t) == Goes(t, "idle", "AcquireDistributedLockFailed")

\* True waits for ever; False fails at once, a number when the time is over.
GivesUp(t) == blocking[t] # "forever"

NotAcquired(t) ==
    /\ Runs(t, "acquiring")
    /\ GivesUp(t) /\ owner # Nobody
    /\ Refused(t)
    /\ UNCHANGED <<owner, renewed, coord, blocking, paused, lost, broken>>

\* A lease that has ended may be somebody else's by now.
Released(t) ==
    /\ owner' = IF owner = t THEN Nobody ELSE owner
    /\ renewed' = (renewed /\ owner # t)

\* Mutant: the lock is not released when the body raises.
LeaveKeeps(t, raised) ==
    /\ IF raised = "none" THEN Released(t) ELSE UNCHANGED <<owner, renewed>>
    /\ Goes(t, "idle", raised)
    /\ UNCHANGED broken

\* The lock is released whatever the body raises.  The release may raise in turn,
\* done or not: then its ToozError takes the place of what the body raised, is
\* not caught, and the coordinator, which stays, goes on with its heartbeat.
Leave(t, raised) ==
    \/ Released(t) /\ Goes(t, "idle", raised) /\ UNCHANGED broken
    \/ /\ Released(t) \/ UNCHANGED <<owner, renewed>>
       /\ broken' = broken \cup {t}
       /\ Goes(t, "idle", "ToozError")

\* The end of the body.  A LockAcquireFailed that the body itself raises, from
\* another lock, is caught as if this one had not been acquired.
EndBody(t) ==
    /\ Runs(t, "body")
    /\ \E raised \in {"none", "body", "AcquireDistributedLockFailed"} : Leave(t, raised)
    /\ UNCHANGED <<coord, blocking, paused, lost>>

-----------------------------------------------------------------------------
(* The process and the service.                                            *)

Pause(t) ==
    /\ pc[t] # "dead" /\ t \notin paused
    /\ paused' = paused \cup {t}
    /\ UNCHANGED <<owner, renewed, coord, pc, blocking, lost, broken, error>>

Resume(t) ==
    /\ t \in paused
    /\ paused' = paused \ {t}
    /\ UNCHANGED <<owner, renewed, coord, pc, blocking, lost, broken, error>>

Die(t) ==
    /\ pc[t] # "dead"
    /\ pc' = [pc EXCEPT ![t] = "dead"]
    /\ paused' = paused \ {t}
    /\ UNCHANGED <<owner, renewed, coord, blocking, lost, broken, error>>

\* dist_lock.timeout is over without a heartbeat.
Expire(t) ==
    /\ owner = t
    /\ ~renewed \/ t \in paused \/ pc[t] = "dead"
    /\ owner' = Nobody /\ renewed' = FALSE
    /\ lost' = lost \cup {t}
    /\ UNCHANGED <<coord, pc, blocking, paused, broken, error>>

-----------------------------------------------------------------------------

Step(t) ==
    \/ StartFails(t) \/ Enter(t)
    \/ Acquire(t) \/ AcquireFails(t) \/ NotAcquired(t) \/ EndBody(t)
    \/ Pause(t) \/ Resume(t) \/ Die(t) \/ Expire(t)

Next == \E t \in Threads : Step(t)

Spec == Init /\ [][Next]_vars

\* Leases end, and so do bodies whose process runs again and again.  A waiter is
\* not promised the lock, and nobody has to resume.
Fairness ==
    \A t \in Threads : WF_vars(Expire(t)) /\ SF_vars(EndBody(t))

FairSpec == Spec /\ Fairness
-----------------------------------------------------------------------------
(* Properties.                                                             *)

Inside == { t \in Threads : pc[t] = "body" }

\* Whoever is in the body with its lease is the owner, and the only one: two
\* threads are in the body at once only if the lease of all but one has ended
\* (lock, and the lease behind it).
Exclusion ==
    \A s, t \in Inside \ lost : s = t /\ owner = t

\* The lock does not leak: whoever has it and lives is in the body, whatever the
\* bodies raised, or the service failed its acquire or its release.  Only such a
\* thread ever waits for itself (lock: the with statement, what it catches).
OwnerIsInside ==
    owner # Nobody /\ pc[owner] \notin {"body", "dead"} => owner \in broken

\* A lock is free again and again, whatever becomes of its owner: the release is
\* in the with statement, and a lease that is not extended ends.  The exception is
\* a release that the service failed, after which the heartbeat goes on.
ComesFree ==
    [](owner # Nobody => <>(owner = Nobody \/ (owner \in broken /\ renewed)))
=============================================================================
