---------------------------- MODULE TestExecutor ----------------------------
(***************************************************************************)
(* TestExecutor::Execute, the sequencer: it runs the bound steps of a plan *)
(* in order, each in up to maxAttempts attempts, under a cancellation      *)
(* token that another thread may signal at any time.                       *)
(*                                                                         *)
(* Every read of the token, every call into foreign code (the execution    *)
(* control, the command) and every return from it is a step of its own;    *)
(* Cancel interleaves between any two.  Time is abstracted: an attempt     *)
(* with a timeout may or may not have expired when the command returns.    *)
(***************************************************************************)
EXTENDS RunTypes, SequencesExt

CONSTANTS NumSteps,      \* steps of the compiled plan
          MaxAttempts    \* bound on a policy's maxAttempts

ASSUME NumStepsAssumption == NumSteps \in Nat
ASSUME MaxAttemptsAssumption == MaxAttempts \in Nat \ {0}

Step == 1 .. NumSteps

\* StepExecutionPolicy.  The compiler admits 1..100 attempts; the executor
\* still protects direct callers, so 0 is a possible value.
Policy == [maxAttempts : 0 .. MaxAttempts, timeout : BOOLEAN, onFailure : {"stop", "continue"}]

VARIABLES
    policy,            \* the plan: one policy per step, fixed for the run
    cancelRequested,   \* CancellationSource: only ever set
    at,                \* where the executor stands
    index,             \* the step it is at
    attempt,           \* the attempt of that step
    attemptResult,     \* attemptResult, then record.result
    runStatus,         \* run.status
    failureKind,       \* run.failureKind
    records,           \* run.steps: the record of every finished step
    summary,           \* run.summary: the step counts
    totalAttempts,     \* run.summary.totalAttempts
    \* History of what the outside world saw.
    started,           \* attempts started, that is commands asked to act
    lateStarts,        \* of these, the ones started after the cancellation
    effectLost         \* some command reported an indeterminate effect

resultVars   == <<records, summary, totalAttempts>>
executorVars == <<at, index, attempt, attemptResult, runStatus, failureKind, resultVars>>
historyVars  == <<started, lateStarts, effectLost>>
testVars     == <<policy, cancelRequested, executorVars, historyVars>>

Location == {"idle", "check", "before", "attempt", "executing", "judge", "delay",
             "complete", "summary", "done"}

\* StepExecutionRecord: the final result and the number of attempts recorded.
Record == [result : StepResult, attempts : Nat]

\* RunSummary, without the durations and the counts per status.
RunSummary == [planned : Nat, executed : Nat, skipped : Nat]

NoResult == [status |-> "Passed", indeterminate |-> FALSE]
-----------------------------------------------------------------------------
\* Loop bound of the attempts of a step.
MaximumAttempts(p) == IF p.maxAttempts < 1 THEN 1 ELSE p.maxAttempts

\* The attempts of all the records.
AttemptsRecorded == FoldLeft(LAMBDA sum, r : sum + r.attempts, 0, records)

\* BuildSummary.
BuildSummary ==
    /\ summary' = [planned  |-> NumSteps,
                   executed |-> Len(records),
                   skipped  |-> NumSteps - Len(records)]
    /\ totalAttempts' = AttemptsRecorded

ExecutorInit ==
    /\ at = "idle"
    /\ index = 1
    /\ attempt = 0
    /\ attemptResult = NoResult
    /\ runStatus = "Passed"
    /\ failureKind = "None"
    /\ records = << >>
    /\ summary = [planned |-> NumSteps, executed |-> 0, skipped |-> NumSteps]
    /\ totalAttempts = 0
    /\ started = 0
    /\ lateStarts = 0
    /\ effectLost = FALSE

TestInit ==
    /\ policy \in [Step -> Policy]
    /\ cancelRequested = FALSE
    /\ ExecutorInit
-----------------------------------------------------------------------------
\* Fault: a token detached from the source it was made by.
FaultyIsCancellationRequested == FALSE

\* The token as the executor reads it.
IsCancellationRequested == cancelRequested

\* Another thread signals the token.
Cancel ==
    /\ cancelRequested' = TRUE
    /\ UNCHANGED <<policy, executorVars, historyVars>>

\* The run is called off before the current step: run.status and failureKind
\* are assigned, not accumulated, and the loop is left.
CallOff(status, kind) ==
    /\ runStatus' = status
    /\ failureKind' = kind
    /\ at' = "summary"
    /\ UNCHANGED <<index, attempt, attemptResult, resultVars>>

\* Entry: a fresh RunResult, the loop at its first step.
Execute ==
    /\ at = "idle"
    /\ at' = "check"
    /\ UNCHANGED <<policy, cancelRequested, index, attempt, attemptResult, runStatus,
                   failureKind, resultVars, historyVars>>

\* Loop head: no step left, the token is signalled, or the step may begin.
CheckCancellation ==
    /\ at = "check"
    /\ \/ /\ index > NumSteps
          /\ at' = "summary"
          /\ UNCHANGED <<index, attempt, attemptResult, runStatus, failureKind, resultVars>>
       \/ /\ index <= NumSteps
          /\ IsCancellationRequested
          /\ CallOff("Cancelled", "Execution")
       \/ /\ index <= NumSteps
          /\ ~IsCancellationRequested
          /\ at' = "before"
          /\ UNCHANGED <<index, attempt, attemptResult, runStatus, failureKind, resultVars>>
    /\ UNCHANGED <<policy, cancelRequested, historyVars>>

\* Fault: an exception of the control passes for a failure of a step.
FaultyBeforeStep ==
    /\ at = "before"
    /\ \/ /\ at' = "attempt"
          /\ attempt' = 1
          /\ UNCHANGED <<index, attemptResult, runStatus, failureKind, resultVars>>
       \/ CallOff("Cancelled", "Execution")
       \/ CallOff("Error", "Execution")
    /\ UNCHANGED <<policy, cancelRequested, historyVars>>

\* IExecutionControl::BeforeStep returns a decision or throws.
BeforeStep ==
    /\ at = "before"
    /\ \/ /\ at' = "attempt"
          /\ attempt' = 1
          /\ UNCHANGED <<index, attemptResult, runStatus, failureKind, resultVars>>
       \/ CallOff("Cancelled", "Execution")
       \/ CallOff("Error", "Internal")
    /\ UNCHANGED <<policy, cancelRequested, historyVars>>

\* StepAttemptStarted is published and the command is called.
StartAttempt ==
    /\ at = "attempt"
    /\ at' = "executing"
    /\ started' = started + 1
    /\ lateStarts' = lateStarts + (IF cancelRequested THEN 1 ELSE 0)
    /\ UNCHANGED <<policy, cancelRequested, index, attempt, attemptResult, runStatus,
                   failureKind, resultVars, effectLost>>

\* The command returns a result; an exception becomes an Error result.
CommandReturns ==
    /\ at = "executing"
    /\ at' = "judge"
    /\ attemptResult' \in StepResult
    /\ effectLost' = (effectLost \/ attemptResult'.indeterminate)
    /\ UNCHANGED <<policy, cancelRequested, index, attempt, runStatus, failureKind,
                   resultVars, started, lateStarts>>

\* What the attempt counts as: cancellation first, then an expired deadline,
\* then the command's own status.  The indeterminate flag is kept.
Judged(expired) ==
    [attemptResult EXCEPT !.status = IF IsCancellationRequested THEN "Cancelled"
                                     ELSE IF expired THEN "TimedOut" ELSE @]

\* Fault: an unconfirmed effect is retried like any other failure.
FaultyReplayEndsStep(result) ==
    \/ Succeeded(result)
    \/ result.status = "Cancelled"
    \/ attempt >= MaximumAttempts(policy[index])

\* Fault: an attempt that timed out is not retried.
FaultyTimeoutEndsStep(result) ==
    \/ result.status \in {"Passed", "Cancelled", "TimedOut"}
    \/ result.indeterminate
    \/ attempt >= MaximumAttempts(policy[index])

\* No further attempt follows a result of this kind.
EndsStep(result) ==
    \/ Succeeded(result)
    \/ result.indeterminate
    \/ result.status = "Cancelled"
    \/ attempt >= MaximumAttempts(policy[index])

\* The attempt is judged and recorded; the step ends or a retry is scheduled.
JudgeAttempt ==
    /\ at = "judge"
    /\ \E expired \in {FALSE, policy[index].timeout} :
          /\ attemptResult' = Judged(expired)
          /\ at' = IF EndsStep(Judged(expired)) THEN "complete" ELSE "delay"
    /\ UNCHANGED <<policy, cancelRequested, index, attempt, runStatus, failureKind,
                   resultVars, historyVars>>

\* The retry delay on the run's own token ends: by cancellation, which
\* replaces the step's result, or by time, which begins the next attempt.
RetryDelay ==
    /\ at = "delay"
    /\ \/ /\ IsCancellationRequested
          /\ attemptResult' = [status |-> "Cancelled", indeterminate |-> FALSE]
          /\ at' = "complete"
          /\ UNCHANGED attempt
       \/ /\ ~IsCancellationRequested
          /\ attempt' = attempt + 1
          /\ at' = "attempt"
          /\ UNCHANGED attemptResult
    /\ UNCHANGED <<policy, cancelRequested, index, runStatus, failureKind, resultVars, historyVars>>

\* Fault: onFailure "continue" also covers an unconfirmed effect.
FaultyStopsRun(result) ==
    /\ ~Succeeded(result)
    /\ result.status = "Cancelled" \/ policy[index].onFailure = "stop"

\* A finished step after which no later step may run.
StopsRun(result) ==
    /\ ~Succeeded(result)
    /\ \/ result.status = "Cancelled"
       \/ result.indeterminate
       \/ policy[index].onFailure = "stop"

\* The step's record is filed and the run's verdict accumulated.
CompleteStep ==
    /\ at = "complete"
    /\ records' = Append(records, [result |-> attemptResult, attempts |-> attempt])
    /\ runStatus' = AccumulateStatus(runStatus, attemptResult.status)
    /\ failureKind' = IF Succeeded(attemptResult) THEN failureKind ELSE "Execution"
    /\ IF StopsRun(attemptResult)
       THEN at' = "summary" /\ UNCHANGED index
       ELSE at' = "check" /\ index' = index + 1
    /\ UNCHANGED <<policy, cancelRequested, attempt, attemptResult, summary, totalAttempts, historyVars>>

\* The summary is computed and the RunResult returned.
Summarise ==
    /\ at = "summary"
    /\ at' = "done"
    /\ BuildSummary
    /\ UNCHANGED <<policy, cancelRequested, index, attempt, attemptResult, runStatus,
                   failureKind, records, historyVars>>

ExecutorStep ==
    \/ CheckCancellation
    \/ BeforeStep
    \/ StartAttempt
    \/ CommandReturns
    \/ JudgeAttempt
    \/ RetryDelay
    \/ CompleteStep
    \/ Summarise

TestNext == Execute \/ ExecutorStep \/ Cancel

TestSpec == TestInit /\ [][TestNext]_testVars

\* The executor is one thread that is never parked for good: commands are
\* bounded by contract, BeforeStep returns and a retry delay ends.
TestFairSpec == TestSpec /\ WF_testVars(ExecutorStep)
-----------------------------------------------------------------------------
\* The type of every variable.  totalAttempts is left out: its value is
\* a fold over the records.
TestTypeOK ==
    /\ policy \in [Step -> Policy]
    /\ cancelRequested \in BOOLEAN
    /\ at \in Location
    /\ index \in 1 .. NumSteps + 1
    /\ attempt \in 0 .. MaxAttempts
    /\ attemptResult \in StepResult
    /\ runStatus \in RunStatus
    /\ failureKind \in RunFailureKind
    /\ records \in Seq(Record)
    /\ summary \in RunSummary
    /\ started \in Nat
    /\ lateStarts \in Nat
    /\ effectLost \in BOOLEAN

\* Once cancellation is requested at most one more attempt starts: the one
\* whose check had already passed.  The token is read before a step, after an
\* attempt and at the end of a retry delay (TestExecutor.cpp:135, 227, 260).
AtMostOneLateStart == lateStarts <= 1

\* After a command reported an indeterminate effect no command is called
\* again in this run, neither as a retry nor as a later step, whatever the
\* step's policy says (TestExecutor.cpp:242, 292).
NoReplayAfterLostEffect == [][effectLost => started' = started]_testVars

\* A run is PASSED only if every planned step ran and the last attempt of each
\* passed, with no effect left unconfirmed on the way.
PassedMeansAllPassed ==
    at = "done" /\ runStatus = "Passed" =>
        /\ Len(records) = NumSteps
        /\ \A i \in Step : Succeeded(records[i].result)
        /\ ~effectLost

\* Only the last recorded step may be one that ends the sequence: a cancelled
\* or indeterminate step, or a step that did not pass under onFailure "stop".
RunStopsAtFatalStep ==
    \A i \in 1 .. Len(records) - 1 :
        LET result == records[i].result
        IN  /\ ~result.indeterminate
            /\ result.status # "Cancelled"
            /\ policy[i].onFailure = "stop" => Succeeded(result)

\* A step is attempted again until it passes or its attempts are used up;
\* only cancellation and an unconfirmed effect end it earlier.
RetryPolicyHonoured ==
    \A i \in 1 .. Len(records) :
        LET result == records[i].result
            allowed == MaximumAttempts(policy[i])
        IN  /\ records[i].attempts \in 1 .. allowed
            /\ \/ records[i].attempts = allowed
               \/ result.indeterminate
               \/ result.status \in {"Passed", "Cancelled"}

\* The verdict is at least as severe as the result of every recorded step.
VerdictCoversRecords ==
    \A i \in DOMAIN records : Severity[RunStatusFor(records[i].result.status)] <= Severity[runStatus]

\* A run that did not pass says why, and a run that passed has no failure
\* kind.  The verdict is milder than a recorded step's only where another
\* error replaced it, and then the kind owns up to it: the execution control
\* threw (TestExecutor.cpp:154) or the clean-up failed
\* (ExecutionSession.cpp:346), which can turn a TIMED_OUT into an ERROR.
FailureKindAgrees ==
    at = "done" =>
        /\ failureKind = "None" <=> runStatus = "Passed"
        /\ ~VerdictCoversRecords => runStatus = "Error" /\ failureKind \in {"Internal", "Cleanup"}
=============================================================================
