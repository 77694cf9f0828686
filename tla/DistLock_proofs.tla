---------------------------- MODULE DistLock_proofs ----------------------------
(***************************************************************************)
(* Theorems about DistLock for any number of threads.                      *)
(***************************************************************************)
EXTENDS DistLock, TLAPS

-----------------------------------------------------------------------------
(* Types.                                                                  *)

LEMMA InitType == Init => TypeOK
  BY DEF Init, TypeOK, Blocking, Errors

LEMMA StepType == TypeOK /\ [Next]_vars => TypeOK'
<1> SUFFICES ASSUME TypeOK, [Next]_vars PROVE TypeOK'
  OBVIOUS
<1> USE DEF TypeOK
<1>1. CASE UNCHANGED vars
  BY <1>1 DEF vars
<1>2. ASSUME NEW t \in Threads, Step(t) PROVE TypeOK'
  <2>1. CASE StartFails(t)
    BY <2>1 DEF StartFails, Goes, Errors
  <2>2. CASE Enter(t)
    BY <2>2 DEF Enter, Goes, Errors
  <2>3. CASE Acquire(t)
    BY <2>3 DEF Acquire, Goes, Errors
  <2>4. CASE NotAcquired(t)
    BY <2>4 DEF NotAcquired, Refused, Goes, Errors
  <2>5. CASE EndBody(t)
    <3>1. PICK raised \in {"none", "body", "AcquireDistributedLockFailed"} : Leave(t, raised)
      BY <2>5 DEF EndBody
    <3> QED
      BY <2>5, <3>1 DEF EndBody, Leave, Released, Goes, Errors
  <2>6. CASE Pause(t) \/ Resume(t) \/ Die(t)
    BY <2>6 DEF Pause, Resume, Die
  <2>7. CASE Expire(t)
    BY <2>7 DEF Expire
  <2>8. CASE AcquireFails(t)
    BY <2>8 DEF AcquireFails, Goes, Errors
  <2> QED
    BY <1>2, <2>1, <2>2, <2>3, <2>4, <2>5, <2>6, <2>7, <2>8 DEF Step
<1> QED
  BY <1>1, <1>2 DEF Next

\* The service, the threads and what they raise keep their types: a lock that is
\* refused never leaves lock as the LockAcquireFailed of tooz.
THEOREM TypeCorrect == Spec => []TypeOK
<1> QED
  BY InitType, StepType, PTL DEF Spec

-----------------------------------------------------------------------------
(* Exclusion.                                                              *)

\* What Exclusion says of one thread.
HasLease(t) == pc[t] = "body" /\ t \notin lost => owner = t

LeaseInv == \A t \in Threads : HasLease(t)

LEMMA StepLease == TypeOK /\ LeaseInv /\ [Next]_vars => LeaseInv'
<1> SUFFICES ASSUME TypeOK, \A t \in Threads : HasLease(t), [Next]_vars
             PROVE  \A t \in Threads : HasLease(t)'
  BY DEF LeaseInv
<1> USE DEF HasLease, TypeOK
<1>1. CASE UNCHANGED vars
  BY <1>1 DEF vars
<1>2. ASSUME NEW t \in Threads, Step(t) PROVE \A s \in Threads : HasLease(s)'
  <2>1. CASE StartFails(t)
    BY <2>1 DEF StartFails, Goes
  <2>2. CASE Enter(t)
    BY <2>2 DEF Enter, Goes
  <2>3. CASE Acquire(t)
    \* The lock is free, so nobody else is in the body with a lease.
    BY <2>3, LockAssumption DEF Acquire, Goes
  <2>4. CASE NotAcquired(t)
    BY <2>4 DEF NotAcquired, Refused, Goes
  <2>5. CASE EndBody(t)
    \* t leaves; if it gives the lock up, nobody else had it.
    <3>1. PICK raised \in {"none", "body", "AcquireDistributedLockFailed"} : Leave(t, raised)
      BY <2>5 DEF EndBody
    <3> QED
      BY <2>5, <3>1 DEF EndBody, Leave, Released, Goes
  <2>6. CASE Pause(t) \/ Resume(t) \/ Die(t)
    BY <2>6 DEF Pause, Resume, Die
  <2>7. CASE Expire(t)
    BY <2>7 DEF Expire
  <2>8. CASE AcquireFails(t)
    \* A lease t got without knowing was free as well.
    BY <2>8, LockAssumption DEF AcquireFails, Goes
  <2> QED
    BY <1>2, <2>1, <2>2, <2>3, <2>4, <2>5, <2>6, <2>7, <2>8 DEF Step
<1> QED
  BY <1>1, <1>2 DEF Next

\* However many threads use the lock, and whichever of them are held up or die,
\* two are in the body at once only if one of them has lost its lease.
THEOREM LockExcludes == Spec => []Exclusion
<1>1. Init => LeaseInv
  BY DEF Init, LeaseInv, HasLease
<1>2. LeaseInv => Exclusion
  BY DEF LeaseInv, HasLease, Exclusion, Inside
<1> QED
  BY <1>1, <1>2, InitType, StepType, StepLease, PTL DEF Spec

-----------------------------------------------------------------------------
(* The release.                                                            *)

LEMMA StepInside == TypeOK /\ OwnerIsInside /\ [Next]_vars => OwnerIsInside'
<1> SUFFICES ASSUME TypeOK, OwnerIsInside, [Next]_vars PROVE OwnerIsInside'
  OBVIOUS
<1> USE DEF OwnerIsInside, TypeOK
<1>1. CASE UNCHANGED vars
  BY <1>1 DEF vars
<1>2. ASSUME NEW t \in Threads, Step(t) PROVE OwnerIsInside'
  <2>1. CASE StartFails(t) \/ Enter(t) \/ NotAcquired(t)
    \* t is in no body before, so if it is the owner it is broken, and stays so.
    BY <2>1 DEF StartFails, Enter, NotAcquired, Refused, Runs, Goes
  <2>2. CASE Acquire(t) \/ AcquireFails(t)
    BY <2>2, LockAssumption DEF Acquire, AcquireFails, Runs, Goes
  <2>3. CASE EndBody(t)
    <3>1. PICK raised \in {"none", "body", "AcquireDistributedLockFailed"} : Leave(t, raised)
      BY <2>3 DEF EndBody
    <3> QED
      BY <3>1, LockAssumption DEF Leave, Released, Goes
  <2>4. CASE Pause(t) \/ Resume(t) \/ Die(t) \/ Expire(t)
    BY <2>4 DEF Pause, Resume, Die, Expire
  <2> QED
    BY <1>2, <2>1, <2>2, <2>3, <2>4 DEF Step
<1> QED
  BY <1>1, <1>2 DEF Next

\* A body that raises, a refused lock and a lease that ends leave no lock behind in
\* any number of threads: only a call that the service failed does.
THEOREM LockDoesNotLeak == Spec => []OwnerIsInside
<1>1. Init => OwnerIsInside
  BY DEF Init, OwnerIsInside
<1> QED
  BY <1>1, InitType, StepType, StepInside, PTL DEF Spec
=============================================================================
