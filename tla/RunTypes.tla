------------------------------ MODULE RunTypes ------------------------------
(***************************************************************************)
(* The vocabulary of an execution: step and run statuses, failure kinds,   *)
(* the session's life-cycle states, and the pure functions the executor    *)
(* and the session apply to them (ExecutionResult.h, TestExecutor.cpp,     *)
(* ExecutionStateMachine.cpp).                                             *)
(***************************************************************************)
EXTENDS Integers

\* enum class StepStatus.  Skipped is declared by the code but no function
\* produces a step with that status, so it is not a member.
StepStatus == {"Passed", "Failed", "Error", "Cancelled", "TimedOut"}

\* enum class RunStatus.
RunStatus == {"Passed", "Failed", "Error", "Cancelled", "TimedOut"}

\* enum class RunFailureKind.
RunFailureKind == {"None", "Initialization", "Execution", "Cleanup", "Internal"}

\* The run status a step status stands for: the names coincide.
RunStatusFor(status) == status

\* The order in which a verdict replaces another.
Severity == [Passed |-> 0, Failed |-> 1, Error |-> 2, TimedOut |-> 3, Cancelled |-> 4]

\* Fault: the last step wins.
FaultyAccumulateStatus(run, status) == RunStatusFor(status)

\* The run status after one more step has finished with the given status.
AccumulateStatus(run, status) ==
    IF Severity[RunStatusFor(status)] > Severity[run] THEN RunStatusFor(status) ELSE run

\* What a command hands back to the executor.  A command adapter reports an
\* indeterminate effect only together with a failure (ComponentAdapters.cpp),
\* so a passed, indeterminate result does not exist.
StepResult == {r \in [status : StepStatus, indeterminate : BOOLEAN] :
                  r.indeterminate => r.status \notin {"Passed", "Failed"}}

Succeeded(result) == result.status = "Passed"
-----------------------------------------------------------------------------
\* enum class ExecutionState.
ExecutionState == {"Idle", "Initializing", "Running", "Cancelling", "CleaningUp",
                   "Completed", "Failed", "Cancelled", "TimedOut"}

TerminalState == {"Completed", "Failed", "Cancelled", "TimedOut"}

\* The life-cycle transitions the state machine accepts.
IsAllowed(current, next) ==
    \/ current = "Idle"         /\ next = "Initializing"
    \/ current = "Initializing" /\ next \in {"Running", "Cancelling", "CleaningUp"}
    \/ current = "Running"      /\ next \in {"Cancelling", "CleaningUp"}
    \/ current = "Cancelling"   /\ next = "CleaningUp"
    \/ current = "CleaningUp"   /\ next \in TerminalState

\* TryTransition: the state after an attempt to move to next.
TryTransition(current, next) == IF IsAllowed(current, next) THEN next ELSE current

\* The terminal state a session gives a run of the given status.
TerminalStateFor(status) ==
    CASE status = "Passed"    -> "Completed"
      [] status = "Cancelled" -> "Cancelled"
      [] status = "TimedOut"  -> "TimedOut"
      [] OTHER                -> "Failed"
=============================================================================
