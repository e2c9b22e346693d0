------------------------- MODULE Cancellation_proofs -------------------------
(***************************************************************************)
(* Theorems about Cancellation, for any waiters, timeouts and durations:   *)
(* the outcome a wait names is true although the reason is read again      *)
(* without the lock, and no wait returns with the lock held.               *)
(***************************************************************************)
EXTENDS Cancellation, TLAPS

\* Past the fast path, and until it returns, a wait knows its end.
InWait == {"lock", "test", "block", "asleep", "woken", "expired", "return"}

\* Why the outcome of waiter t is true, at each place it can stand: a wait
\* leaves its sleep by a request or at its end, which is the end asked for
\* unless the deadline is earlier; a reason once seen stays.
WaitInv(t) ==
    /\ pc[t] \in InWait =>
          IF deadline[t] # NoDeadline /\ deadline[t] <= requestedEnd[t]
          THEN waitEnd[t] = deadline[t] ELSE waitEnd[t] = requestedEnd[t]
    /\ pc[t] \in {"expired", "return"} => cancelRequested \/ waitEnd[t] <= now
    /\ pc[t] \in {"verdict", "done"} =>
          IF reported[t] THEN cancelRequested \/ IsTimedOut(t) ELSE requestedEnd[t] <= now
    /\ pc[t] # "done" => result[t] = "none"
    /\ pc[t] = "done" /\ result[t] = "Passed" => requestedEnd[t] <= now
    /\ pc[t] = "done" /\ result[t] = "Cancelled" => cancelRequested
    /\ pc[t] = "done" /\ result[t] = "TimedOut" => IsTimedOut(t)

\* The inductive invariant.
IInv == \A t \in Waiters : WaitInv(t)
-----------------------------------------------------------------------------
\* All waiters begin idle.
LEMMA TypeInit == Init => TypeOK
<1> SUFFICES ASSUME Init PROVE TypeOK
  OBVIOUS
<1>1. now \in 0 .. MaxTime
  BY MaxDurationAssumption, LastStartAssumption DEF Init, MaxTime
<1>2. deadline \in [Waiters -> Nat \cup {NoDeadline}]
  BY DEF Init
<1>3. pc \in [Waiters -> Location]
  BY DEF Init, Location
<1> QED
  BY <1>1, <1>2, <1>3 DEF Init, TypeOK

\* No step takes a variable out of its type.
LEMMA TypeStep == TypeOK /\ [Next]_vars => TypeOK'
<1> SUFFICES ASSUME TypeOK, [Next]_vars PROVE TypeOK'
  OBVIOUS
<1> USE MaxDurationAssumption, LastStartAssumption, NobodyAssumption
        DEF waitVars, Location, MaxTime, NoDeadline, Goto
<1>1. ASSUME NEW t \in Waiters, BeginWait(t) PROVE TypeOK'
  <2>1. PICK timeout, duration \in 0 .. MaxDuration :
            /\ deadline' = [deadline EXCEPT ![t] = WithTimeout(NoDeadline, timeout)]
            /\ requestedEnd' = [requestedEnd EXCEPT ![t] = now + duration]
    BY <1>1 DEF BeginWait
  <2>2. WithTimeout(NoDeadline, timeout) \in Nat \cup {NoDeadline} /\ now + duration \in Nat
    BY DEF WithTimeout, TypeOK
  <2> QED
    BY <1>1, <2>1, <2>2 DEF BeginWait, TypeOK
<1>2. ASSUME NEW t \in Waiters, CheckReason(t) PROVE TypeOK'
  BY <1>2 DEF CheckReason, Earlier, TypeOK
<1>3. ASSUME NEW t \in Waiters, Acquire(t) PROVE TypeOK'
  BY <1>3 DEF Acquire, TypeOK
<1>4. ASSUME NEW t \in Waiters, TestPredicate(t) PROVE TypeOK'
  BY <1>4 DEF TestPredicate, TypeOK
<1>5. ASSUME NEW t \in Waiters, Block(t) PROVE TypeOK'
  BY <1>5 DEF Block, TypeOK
<1>6. ASSUME NEW t \in Waiters, Expire(t) PROVE TypeOK'
  BY <1>6 DEF Expire, TypeOK
<1>7. ASSUME NEW t \in Waiters, SpuriousWake(t) PROVE TypeOK'
  BY <1>7 DEF SpuriousWake, TypeOK
<1>8. ASSUME NEW t \in Waiters, Return(t) PROVE TypeOK'
  BY <1>8 DEF Return, TypeOK
<1>9. ASSUME NEW t \in Waiters, Verdict(t) PROVE TypeOK'
  BY <1>9 DEF Verdict, TypeOK
<1>10. ASSUME StoreFlag PROVE TypeOK'
  BY <1>10 DEF StoreFlag, TypeOK
<1>11. ASSUME NotifyAll PROVE TypeOK'
  BY <1>11 DEF NotifyAll, TypeOK
<1>12. ASSUME Tick PROVE TypeOK'
  BY <1>12 DEF Tick, TypeOK
<1>13. CASE UNCHANGED vars
  BY <1>13 DEF vars, TypeOK
<1> QED
  BY <1>1, <1>2, <1>3, <1>4, <1>5, <1>6, <1>7, <1>8, <1>9, <1>10, <1>11, <1>12, <1>13
  DEF Next, ThreadStep

\* The clock, the flag and every waiter stay of their types.
THEOREM TypeCorrect == Spec => []TypeOK
BY TypeInit, TypeStep, PTL DEF Spec
-----------------------------------------------------------------------------
\* No waiter has waited yet.
LEMMA InvInit == Init => IInv
BY DEF Init, IInv, WaitInv, InWait

\* What a step of a waiter, of the canceller or of the clock keeps.
LEMMA InvStep == TypeOK /\ IInv /\ [Next]_vars => IInv'
<1> SUFFICES ASSUME TypeOK, IInv, [Next]_vars PROVE IInv'
  OBVIOUS
<1> USE MaxDurationAssumption, LastStartAssumption DEF waitVars, MaxTime, NoDeadline, Goto
<1>1. ASSUME NEW t \in Waiters, BeginWait(t) PROVE IInv'
  <2> SUFFICES ASSUME NEW u \in Waiters PROVE WaitInv(u)'
    BY DEF IInv
  <2>1. WaitInv(u)
    BY DEF IInv
  <2> QED
    BY <1>1, <2>1 DEF BeginWait, WaitInv, IsTimedOut, InWait, TypeOK
<1>2. ASSUME NEW t \in Waiters, CheckReason(t) PROVE IInv'
  <2> SUFFICES ASSUME NEW u \in Waiters PROVE WaitInv(u)'
    BY DEF IInv
  <2>1. WaitInv(u)
    BY DEF IInv
  <2> QED
    BY <1>2, <2>1 DEF CheckReason, Reason, Earlier, WaitInv, IsTimedOut, InWait, TypeOK
<1>3. ASSUME NEW t \in Waiters, Acquire(t) PROVE IInv'
  <2> SUFFICES ASSUME NEW u \in Waiters PROVE WaitInv(u)'
    BY DEF IInv
  <2>1. WaitInv(u)
    BY DEF IInv
  <2> QED
    BY <1>3, <2>1 DEF Acquire, WaitInv, IsTimedOut, InWait, TypeOK
<1>4. ASSUME NEW t \in Waiters, TestPredicate(t) PROVE IInv'
  <2> SUFFICES ASSUME NEW u \in Waiters PROVE WaitInv(u)'
    BY DEF IInv
  <2>1. WaitInv(u)
    BY DEF IInv
  <2> QED
    BY <1>4, <2>1 DEF TestPredicate, WaitInv, IsTimedOut, InWait, TypeOK
<1>5. ASSUME NEW t \in Waiters, Block(t) PROVE IInv'
  <2> SUFFICES ASSUME NEW u \in Waiters PROVE WaitInv(u)'
    BY DEF IInv
  <2>1. WaitInv(u)
    BY DEF IInv
  <2> QED
    BY <1>5, <2>1 DEF Block, WaitInv, IsTimedOut, InWait, TypeOK
<1>6. ASSUME NEW t \in Waiters, Expire(t) PROVE IInv'
  <2> SUFFICES ASSUME NEW u \in Waiters PROVE WaitInv(u)'
    BY DEF IInv
  <2>1. WaitInv(u)
    BY DEF IInv
  <2> QED
    BY <1>6, <2>1 DEF Expire, Expired, WaitInv, IsTimedOut, InWait, TypeOK
<1>7. ASSUME NEW t \in Waiters, SpuriousWake(t) PROVE IInv'
  <2> SUFFICES ASSUME NEW u \in Waiters PROVE WaitInv(u)'
    BY DEF IInv
  <2>1. WaitInv(u)
    BY DEF IInv
  <2> QED
    BY <1>7, <2>1 DEF SpuriousWake, Expired, WaitInv, IsTimedOut, InWait, TypeOK
<1>8. ASSUME NEW t \in Waiters, Return(t) PROVE IInv'
  <2> SUFFICES ASSUME NEW u \in Waiters PROVE WaitInv(u)'
    BY DEF IInv
  <2>1. WaitInv(u)
    BY DEF IInv
  <2> QED
    BY <1>8, <2>1 DEF Return, Reason, WaitInv, IsTimedOut, InWait, TypeOK
<1>9. ASSUME NEW t \in Waiters, Verdict(t) PROVE IInv'
  <2> SUFFICES ASSUME NEW u \in Waiters PROVE WaitInv(u)'
    BY DEF IInv
  <2>1. WaitInv(u)
    BY DEF IInv
  <2> QED
    BY <1>9, <2>1 DEF Verdict, Reason, WaitInv, IsTimedOut, InWait, TypeOK
<1>10. ASSUME StoreFlag PROVE IInv'
  <2> SUFFICES ASSUME NEW u \in Waiters PROVE WaitInv(u)'
    BY DEF IInv
  <2>1. WaitInv(u)
    BY DEF IInv
  <2> QED
    BY <1>10, <2>1 DEF StoreFlag, WaitInv, IsTimedOut, InWait, TypeOK
<1>11. ASSUME NotifyAll PROVE IInv'
  <2> SUFFICES ASSUME NEW u \in Waiters PROVE WaitInv(u)'
    BY DEF IInv
  <2>1. WaitInv(u)
    BY DEF IInv
  <2> QED
    BY <1>11, <2>1 DEF NotifyAll, WaitInv, IsTimedOut, InWait, TypeOK
<1>12. ASSUME Tick PROVE IInv'
  <2> SUFFICES ASSUME NEW u \in Waiters PROVE WaitInv(u)'
    BY DEF IInv
  <2>1. WaitInv(u)
    BY DEF IInv
  <2> QED
    BY <1>12, <2>1 DEF Tick, WaitInv, IsTimedOut, InWait, TypeOK
<1>13. CASE UNCHANGED vars
  BY <1>13 DEF vars, IInv, WaitInv, IsTimedOut
<1> QED
  BY <1>1, <1>2, <1>3, <1>4, <1>5, <1>6, <1>7, <1>8, <1>9, <1>10, <1>11, <1>12, <1>13
  DEF Next, ThreadStep

\* The outcome of a wait is true of the world (WaitCommand.cpp:42): the reason
\* that ended it is still there when it is read again, and a wait without a
\* reason ended at the end it asked for.
THEOREM OutcomeTrue == Spec => []OutcomeHolds
<1>1. TypeOK /\ IInv => OutcomeHolds
  <2> SUFFICES ASSUME TypeOK, IInv, NEW t \in Waiters
               PROVE  /\ result[t] = "Passed" => now >= requestedEnd[t]
                      /\ result[t] = "Cancelled" => cancelRequested
                      /\ result[t] = "TimedOut" => IsTimedOut(t)
    BY DEF OutcomeHolds
  <2>1. WaitInv(t)
    BY DEF IInv
  <2> QED
    BY <2>1, LastStartAssumption, MaxDurationAssumption DEF WaitInv, TypeOK, MaxTime
<1> QED
  BY <1>1, TypeInit, TypeStep, InvInit, InvStep, PTL DEF Spec

\* The mutex belongs to the waiter between taking and releasing it, so no wait
\* returns with it, whoever wakes it and whatever for.
THEOREM LockReleased == Spec => []LockAccounted
<1>1. Init => LockAccounted
  BY NobodyAssumption DEF Init, LockAccounted
<1>2. ASSUME TypeOK, LockAccounted, [Next]_vars PROVE LockAccounted'
  <2> USE NobodyAssumption DEF TypeOK, LockAccounted, Goto, waitVars
  <2>1. ASSUME NEW t \in Waiters, BeginWait(t) PROVE LockAccounted'
    BY <1>2, <2>1 DEF BeginWait
  <2>2. ASSUME NEW t \in Waiters, CheckReason(t) PROVE LockAccounted'
    BY <1>2, <2>2 DEF CheckReason
  <2>3. ASSUME NEW t \in Waiters, Acquire(t) PROVE LockAccounted'
    BY <1>2, <2>3 DEF Acquire
  <2>4. ASSUME NEW t \in Waiters, TestPredicate(t) PROVE LockAccounted'
    BY <1>2, <2>4 DEF TestPredicate
  <2>5. ASSUME NEW t \in Waiters, Block(t) PROVE LockAccounted'
    BY <1>2, <2>5 DEF Block
  <2>6. ASSUME NEW t \in Waiters, Expire(t) PROVE LockAccounted'
    BY <1>2, <2>6 DEF Expire
  <2>7. ASSUME NEW t \in Waiters, SpuriousWake(t) PROVE LockAccounted'
    BY <1>2, <2>7 DEF SpuriousWake
  <2>8. ASSUME NEW t \in Waiters, Return(t) PROVE LockAccounted'
    BY <1>2, <2>8 DEF Return
  <2>9. ASSUME NEW t \in Waiters, Verdict(t) PROVE LockAccounted'
    BY <1>2, <2>9 DEF Verdict
  <2>10. ASSUME StoreFlag PROVE LockAccounted'
    BY <1>2, <2>10 DEF StoreFlag
  <2>11. ASSUME NotifyAll PROVE LockAccounted'
    BY <1>2, <2>11 DEF NotifyAll
  <2>12. ASSUME Tick PROVE LockAccounted'
    BY <1>2, <2>12 DEF Tick
  <2>13. CASE UNCHANGED vars
    BY <1>2, <2>13 DEF vars
  <2> QED
    BY <1>2, <2>1, <2>2, <2>3, <2>4, <2>5, <2>6, <2>7, <2>8, <2>9, <2>10, <2>11, <2>12, <2>13
    DEF Next, ThreadStep
<1> QED
  BY <1>1, <1>2, TypeInit, TypeStep, PTL DEF Spec
=============================================================================
