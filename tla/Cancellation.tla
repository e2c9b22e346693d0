---------------------------- MODULE Cancellation ----------------------------
(***************************************************************************)
(* CancellationSource and CancellationToken: an atomic flag, a condition   *)
(* variable and per-token deadlines.  A waiter is a thread inside          *)
(* CancellationToken::WaitFor called by WaitCommand::Execute; the          *)
(* canceller is the host thread inside CancellationSource::Cancel.         *)
(* Every token of a run comes from a CancellationSource: the plain sleep   *)
(* of a token without shared state is not modelled.                        *)
(*                                                                         *)
(* The flag is stored without the mutex the waiters hold while they test   *)
(* it, so the store and the notification can fall between a waiter's test  *)
(* and its going to sleep.                                                 *)
(***************************************************************************)
EXTENDS Integers

CONSTANTS Waiters,       \* the waiting threads
          MaxDuration,   \* bound on a wait's duration and on a token's timeout
          LastStart      \* bound on the time a wait may begin

ASSUME MaxDurationAssumption == MaxDuration \in Nat
ASSUME LastStartAssumption == LastStart \in Nat

MaxTime == LastStart + MaxDuration

Nobody == "nobody"
NoDeadline == -1

ASSUME NobodyAssumption == Nobody \notin Waiters

VARIABLES
    now,               \* steady_clock, in ticks
    cancelRequested,   \* SharedState::cancellationRequested
    holder,            \* owner of SharedState::mutex
    canceller,         \* where Cancel stands
    pc,                \* where each waiter stands
    deadline,          \* the waiter's token: m_deadline
    requestedEnd,      \* begin of the wait plus its duration
    waitEnd,           \* the earlier of requestedEnd and the deadline
    reported,          \* what WaitFor returned
    result             \* what WaitCommand::Execute returned

waitVars == <<deadline, requestedEnd, waitEnd, reported, result>>
vars == <<now, cancelRequested, holder, canceller, pc, waitVars>>

Location == {"idle", "begin", "lock", "test", "block", "asleep", "woken", "expired",
             "return", "verdict", "done"}

Init ==
    /\ now = 0
    /\ cancelRequested = FALSE
    /\ holder = Nobody
    /\ canceller = "idle"
    /\ pc = [t \in Waiters |-> "idle"]
    /\ deadline = [t \in Waiters |-> NoDeadline]
    /\ requestedEnd = [t \in Waiters |-> 0]
    /\ waitEnd = [t \in Waiters |-> 0]
    /\ reported = [t \in Waiters |-> FALSE]
    /\ result = [t \in Waiters |-> "none"]
-----------------------------------------------------------------------------
Earlier(a, b) == IF a < b THEN a ELSE b

\* WithTimeout: zero keeps the parent's deadline, else the earlier one holds.
WithTimeout(parent, timeout) ==
    IF timeout <= 0 THEN parent
    ELSE IF parent = NoDeadline THEN now + timeout
    ELSE Earlier(parent, now + timeout)

IsTimedOut(t) == deadline[t] # NoDeadline /\ now >= deadline[t]

\* Reason: an explicit request before an expired deadline.
Reason(t) == IF cancelRequested THEN "Requested" ELSE IF IsTimedOut(t) THEN "TimedOut" ELSE "None"

Goto(t, location) == pc' = [pc EXCEPT ![t] = location]

\* A command begins a wait on a token made with an arbitrary timeout.
BeginWait(t) ==
    /\ pc[t] = "idle"
    /\ now <= LastStart
    /\ \E timeout, duration \in 0 .. MaxDuration :
          /\ deadline' = [deadline EXCEPT ![t] = WithTimeout(NoDeadline, timeout)]
          /\ requestedEnd' = [requestedEnd EXCEPT ![t] = now + duration]
    /\ Goto(t, "begin")
    /\ UNCHANGED <<now, cancelRequested, holder, canceller, waitEnd, reported, result>>

\* The fast path: a reason that holds already ends the wait.  Otherwise the
\* end of the wait is computed.
CheckReason(t) ==
    /\ pc[t] = "begin"
    /\ IF Reason(t) # "None"
       THEN Goto(t, "verdict") /\ reported' = [reported EXCEPT ![t] = TRUE] /\ UNCHANGED waitEnd
       ELSE /\ Goto(t, "lock")
            /\ waitEnd' = [waitEnd EXCEPT ![t] =
                  IF deadline[t] = NoDeadline THEN requestedEnd[t]
                  ELSE Earlier(requestedEnd[t], deadline[t])]
            /\ UNCHANGED reported
    /\ UNCHANGED <<now, cancelRequested, holder, canceller, deadline, requestedEnd, result>>

\* Fault: a wake-up of any kind ends the wait, the predicate is not tested.
FaultyAcquire(t) ==
    /\ holder = Nobody
    /\ holder' = t
    /\ \/ pc[t] = "lock" /\ Goto(t, "test")
       \/ pc[t] \in {"woken", "expired"} /\ Goto(t, "return")
    /\ UNCHANGED <<now, cancelRequested, canceller, waitVars>>

\* The mutex is taken, at first or after a wake-up.  A timed-out wait ends
\* whatever the predicate says.
Acquire(t) ==
    /\ holder = Nobody
    /\ holder' = t
    /\ \/ pc[t] \in {"lock", "woken"} /\ Goto(t, "test")
       \/ pc[t] = "expired" /\ Goto(t, "return")
    /\ UNCHANGED <<now, cancelRequested, canceller, waitVars>>

\* The predicate, under the mutex.
TestPredicate(t) ==
    /\ pc[t] = "test"
    /\ Goto(t, IF cancelRequested THEN "return" ELSE "block")
    /\ UNCHANGED <<now, cancelRequested, holder, canceller, waitVars>>

\* The mutex is released and the thread parked, atomically.
Block(t) ==
    /\ pc[t] = "block"
    /\ Goto(t, "asleep")
    /\ holder' = Nobody
    /\ UNCHANGED <<now, cancelRequested, canceller, waitVars>>

\* Fault: wait instead of wait_until.
FaultyExpired(t) == FALSE

Expired(t) == now >= waitEnd[t]

\* The parked thread wakes because its time is up, or for no reason.
Expire(t) ==
    /\ pc[t] = "asleep"
    /\ Expired(t)
    /\ Goto(t, "expired")
    /\ UNCHANGED <<now, cancelRequested, holder, canceller, waitVars>>

SpuriousWake(t) ==
    /\ pc[t] = "asleep"
    /\ ~Expired(t)
    /\ Goto(t, "woken")
    /\ UNCHANGED <<now, cancelRequested, holder, canceller, waitVars>>

\* WaitFor returns whether there is a reason to stop; the lock goes with it.
Return(t) ==
    /\ pc[t] = "return"
    /\ reported' = [reported EXCEPT ![t] = Reason(t) # "None"]
    /\ holder' = Nobody
    /\ Goto(t, "verdict")
    /\ UNCHANGED <<now, cancelRequested, canceller, deadline, requestedEnd, waitEnd, result>>

\* WaitCommand::Execute reads the reason once more to name the outcome.
Verdict(t) ==
    /\ pc[t] = "verdict"
    /\ result' = [result EXCEPT ![t] = IF ~reported[t] THEN "Passed"
                                       ELSE IF Reason(t) = "TimedOut" THEN "TimedOut" ELSE "Cancelled"]
    /\ Goto(t, "done")
    /\ UNCHANGED <<now, cancelRequested, holder, canceller, deadline, requestedEnd, waitEnd, reported>>
-----------------------------------------------------------------------------
\* CancellationSource::Cancel, in its two steps.
StoreFlag ==
    /\ canceller = "idle"
    /\ canceller' = "stored"
    /\ cancelRequested' = TRUE
    /\ UNCHANGED <<now, holder, pc, waitVars>>

NotifyAll ==
    /\ canceller = "stored"
    /\ canceller' = "done"
    /\ pc' = [t \in Waiters |-> IF pc[t] = "asleep" THEN "woken" ELSE pc[t]]
    /\ UNCHANGED <<now, cancelRequested, holder, waitVars>>

Tick ==
    /\ now < MaxTime
    /\ now' = now + 1
    /\ UNCHANGED <<cancelRequested, holder, canceller, pc, waitVars>>

ThreadStep(t) ==
    \/ CheckReason(t)
    \/ Acquire(t)
    \/ TestPredicate(t)
    \/ Block(t)
    \/ Expire(t)
    \/ Return(t)
    \/ Verdict(t)

Next ==
    \/ \E t \in Waiters : BeginWait(t) \/ ThreadStep(t) \/ SpuriousWake(t)
    \/ StoreFlag
    \/ NotifyAll
    \/ Tick

Spec == Init /\ [][Next]_vars

\* Threads are scheduled and time passes; nobody has to cancel.
FairSpec ==
    /\ Spec
    /\ \A t \in Waiters : WF_vars(ThreadStep(t))
    /\ WF_vars(NotifyAll)
    /\ WF_vars(Tick)
-----------------------------------------------------------------------------
TypeOK ==
    /\ now \in 0 .. MaxTime
    /\ cancelRequested \in BOOLEAN
    /\ holder \in Waiters \cup {Nobody}
    /\ canceller \in {"idle", "stored", "done"}
    /\ pc \in [Waiters -> Location]
    /\ deadline \in [Waiters -> Nat \cup {NoDeadline}]
    /\ requestedEnd \in [Waiters -> Nat]
    /\ waitEnd \in [Waiters -> Nat]
    /\ reported \in [Waiters -> BOOLEAN]
    /\ result \in [Waiters -> {"none", "Passed", "Cancelled", "TimedOut"}]

\* The outcome of a wait is true of the world although the reason is read a
\* second time after the lock is gone, and wake-ups may be spurious: a wait
\* that passed ran its full length, one that was cancelled or timed out has a
\* request or an expired deadline behind it (WaitCommand.cpp:42).
OutcomeHolds ==
    \A t \in Waiters :
        /\ result[t] = "Passed" => now >= requestedEnd[t]
        /\ result[t] = "Cancelled" => cancelRequested
        /\ result[t] = "TimedOut" => IsTimedOut(t)

\* The mutex is held by exactly the thread that is between taking and
\* releasing it: no wait returns with the lock still held.
LockAccounted ==
    \A t \in Waiters : (holder = t) <=> (pc[t] \in {"test", "block", "return"})

\* Every wait ends, at its own end at the latest, also when the notification
\* is missed.
WaitEnds == \A t \in Waiters : (pc[t] = "begin") ~> (pc[t] = "done")

\* stage-c-robust-execution.md:66: "Time.WaitMs uses a condition-variable wait
\* so Ctrl+C and timeout wake it immediately": once Cancel has returned, no
\* waiter that still has time to go is left parked.
CancelWakesWaiters ==
    canceller = "done" => \A t \in Waiters : pc[t] = "asleep" => Expired(t)
=============================================================================
