----------------------- MODULE ExecutionSession_proofs -----------------------
(***************************************************************************)
(* Theorems about the sequencer and the session around it, for any plan,   *)
(* any bound on the attempts and any number of instruments.                *)
(*                                                                         *)
(* First TestExecutor alone (TestSpec): its promises are not inductive;    *)
(* what makes them true is where the executor can stand once a             *)
(* cancellation, a lost effect or a fatal result has been seen.            *)
(* ExecutorInv says so, one conjunct per concern; each is preserved        *)
(* relative to the type invariant.                                         *)
(*                                                                         *)
(* Then the session (SessionSpec): the sequencer's promises hold inside    *)
(* it, a completion is the last thing and says the truth about steps and   *)
(* equipment, and teardown has its order.  The invariant is the            *)
(* sequencer's and four parts about the worker: where the session and its  *)
(* manager stand at each phase, how far the instruments are up, which      *)
(* resources are alive, and what the outcome fields may say.               *)
(*                                                                         *)
(* Last, the session implements BenchContract, and what that contract      *)
(* says of the bench.                                                      *)
(***************************************************************************)
EXTENDS ExecutionSession, TLAPS

(***************************************************************************)
(* The sequencer.                                                          *)
(***************************************************************************)

\* The executor is at a step of the plan.
InStep == {"before", "attempt", "executing", "judge", "delay", "complete"}

\* The executor is at an attempt of that step.
InAttempt == {"attempt", "executing", "judge", "delay", "complete"}

Ended == {"summary", "done"}

\* A record after which the run goes on.
LetsRunGoOn(i) ==
    /\ ~records[i].result.indeterminate
    /\ records[i].result.status # "Cancelled"
    /\ policy[i].onFailure = "stop" => Succeeded(records[i].result)

\* What the recorded attempts of a step may be.
Exhausted(result, attempts, allowed) ==
    \/ attempts = allowed
    \/ result.indeterminate
    \/ result.status \in {"Passed", "Cancelled"}

\* Where the loop stands in the plan, and the attempt in its bound.
PositionInv ==
    /\ at \in InStep => index <= NumSteps
    /\ at \notin Ended => Len(records) = index - 1
    /\ Len(records) <= NumSteps
    /\ at \in InAttempt => attempt \in 1 .. MaximumAttempts(policy[index])
    /\ at = "delay" => attempt < MaximumAttempts(policy[index])

\* After the late start only the way out is left.
LateInv ==
    /\ lateStarts <= 1
    /\ lateStarts = 1 =>
          /\ cancelRequested
          /\ at \in {"executing", "judge", "complete"} \cup Ended
          /\ at = "complete" => attemptResult.status = "Cancelled"

\* After a lost effect only the way out is left.
EffectInv ==
    effectLost =>
        /\ at \in {"judge", "complete"} \cup Ended
        /\ at \in {"judge", "complete"} => attemptResult.indeterminate

\* Records end steps as the policies say, and only the last may be fatal.
RecordInv ==
    /\ at = "complete" => Exhausted(attemptResult, attempt, MaximumAttempts(policy[index]))
    /\ RetryPolicyHonoured
    /\ RunStopsAtFatalStep
    /\ at \notin Ended => \A i \in 1 .. Len(records) : LetsRunGoOn(i)

\* The verdict and the failure kind agree with the records.
VerdictInv ==
    /\ failureKind = "None" <=> runStatus = "Passed"
    /\ runStatus = "Passed" => \A i \in 1 .. Len(records) : Succeeded(records[i].result)
    /\ runStatus = "Passed" /\ at \in Ended => Len(records) = NumSteps /\ ~effectLost
    /\ at = "idle" => Len(records) = 0
    /\ \/ VerdictCoversRecords
       \/ at \in Ended /\ runStatus = "Error" /\ failureKind \in {"Internal", "Cleanup"}

ExecutorInv ==
    /\ TestTypeOK
    /\ PositionInv
    /\ LateInv
    /\ EffectInv
    /\ RecordInv
    /\ VerdictInv
-----------------------------------------------------------------------------
(* The operators the executor is built from.                               *)

\* Every verdict has its place below CANCELLED, the worst.
LEMMA SeverityOrdered ==
    ASSUME NEW status \in RunStatus
    PROVE  Severity[status] \in Nat /\ Severity[status] <= Severity["Cancelled"]
  BY DEF Severity, RunStatus

\* Every recorded status counts as one a run can have.
LEMMA RecordedStatus ==
    ASSUME TestTypeOK
    PROVE  \A i \in DOMAIN records : RunStatusFor(records[i].result.status) \in RunStatus
<1> SUFFICES ASSUME NEW i \in DOMAIN records
             PROVE  RunStatusFor(records[i].result.status) \in RunStatus
  OBVIOUS
<1>1. records[i] \in Record
  BY DEF TestTypeOK
<1>2. records[i].result \in StepResult
  BY <1>1 DEF Record
<1> QED
  BY <1>2 DEF StepResult, StepStatus, RunStatus, RunStatusFor

\* A cancelled run's verdict covers whatever was recorded before.
LEMMA CancelledCovers == TestTypeOK /\ runStatus' = "Cancelled" /\ UNCHANGED records => VerdictCoversRecords'
<1> SUFFICES ASSUME TestTypeOK, runStatus' = "Cancelled", UNCHANGED records,
                    NEW i \in DOMAIN records
             PROVE  Severity[RunStatusFor(records[i].result.status)] <= Severity["Cancelled"]
  BY DEF VerdictCoversRecords
<1>1. RunStatusFor(records[i].result.status) \in RunStatus
  BY RecordedStatus
<1> QED
  BY <1>1, SeverityOrdered

\* A verdict only gets worse, and it stays PASSED exactly when a passed step
\* is added to a passed run (AccumulateStatus).
LEMMA AccumulateProperties ==
    ASSUME NEW run \in RunStatus, NEW status \in StepStatus
    PROVE  /\ AccumulateStatus(run, status) \in RunStatus
           /\ AccumulateStatus(run, status) = "Passed" <=> run = "Passed" /\ status = "Passed"
           /\ status = "Passed" => AccumulateStatus(run, status) = run
           /\ Severity[RunStatusFor(status)] <= Severity[AccumulateStatus(run, status)]
           /\ Severity[run] <= Severity[AccumulateStatus(run, status)]
<1>1. /\ Severity["Passed"] = 0 /\ Severity["Failed"] = 1 /\ Severity["Error"] = 2
      /\ Severity["TimedOut"] = 3 /\ Severity["Cancelled"] = 4
  BY DEF Severity
<1>2. QED
  BY <1>1 DEF AccumulateStatus, RunStatusFor, RunStatus, StepStatus

\* A judged attempt is a step result: the flag of an unconfirmed effect is
\* never attached to a step that counts as passed or failed.
LEMMA JudgedProperties ==
    ASSUME NEW expired \in BOOLEAN, attemptResult \in StepResult
    PROVE  /\ Judged(expired) \in StepResult
           /\ Judged(expired).indeterminate = attemptResult.indeterminate
           /\ cancelRequested => Judged(expired).status = "Cancelled"
  BY DEF Judged, StepResult, StepStatus, IsCancellationRequested

\* A step is allowed at least one attempt and no more than the bound.
LEMMA MaximumAttemptsBound ==
    ASSUME NEW p \in Policy
    PROVE  MaximumAttempts(p) \in 1 .. MaxAttempts
  BY MaxAttemptsAssumption DEF MaximumAttempts, Policy
-----------------------------------------------------------------------------
(* Initial states.                                                         *)

\* A run that has not begun satisfies the invariant.
LEMMA ExecutorInvInit == TestInit => ExecutorInv
<1> SUFFICES ASSUME TestInit PROVE ExecutorInv
  OBVIOUS
<1> USE NumStepsAssumption, MaxAttemptsAssumption DEF TestInit, ExecutorInit
<1>1. TestTypeOK
  <2>1. attemptResult \in StepResult
    BY DEF StepResult, StepStatus, NoResult
  <2>2. summary \in RunSummary
    BY DEF RunSummary
  <2>3. records \in Seq(Record)
    OBVIOUS
  <2>4. at \in Location /\ runStatus \in RunStatus /\ failureKind \in RunFailureKind
    BY DEF Location, RunStatus, RunFailureKind
  <2>5. index \in 1 .. NumSteps + 1 /\ attempt \in 0 .. MaxAttempts
    OBVIOUS
  <2>6. QED
    BY <2>1, <2>2, <2>3, <2>4, <2>5 DEF TestTypeOK
<1>2. PositionInv
  BY DEF PositionInv, InStep, InAttempt, Ended
<1>3. LateInv /\ EffectInv
  BY DEF LateInv, EffectInv
<1>4. RecordInv
  BY DEF RecordInv, RetryPolicyHonoured, RunStopsAtFatalStep
<1>5. VerdictInv
  BY DEF VerdictInv, VerdictCoversRecords, Ended
<1>6. QED
  BY <1>1, <1>2, <1>3, <1>4, <1>5 DEF ExecutorInv
-----------------------------------------------------------------------------
(* Steps: the types, and where the loop stands.                            *)

\* Every step of the executor keeps the types and its place in the plan.
LEMMA TypeStep == TestTypeOK /\ PositionInv /\ [TestNext]_testVars => TestTypeOK' /\ PositionInv'
<1> SUFFICES ASSUME TestTypeOK, PositionInv, [TestNext]_testVars
             PROVE  TestTypeOK' /\ PositionInv'
  OBVIOUS
<1> USE NumStepsAssumption, MaxAttemptsAssumption
    DEF TestTypeOK, PositionInv, InStep, InAttempt, Ended, Location
<1>1. CASE Execute
  BY <1>1 DEF Execute, resultVars, historyVars
<1>2. CASE CheckCancellation
  BY <1>2 DEF CheckCancellation, CallOff, resultVars, historyVars, RunStatus, RunFailureKind
<1>3. CASE BeforeStep
  <2>1. index \in Step /\ policy[index] \in Policy
    BY <1>3 DEF BeforeStep, Step
  <2>2. MaximumAttempts(policy[index]) \in 1 .. MaxAttempts
    BY <2>1, MaximumAttemptsBound
  <2>3. QED
    BY <1>3, <2>2 DEF BeforeStep, CallOff, resultVars, historyVars, RunStatus, RunFailureKind
<1>4. CASE StartAttempt
  BY <1>4 DEF StartAttempt, resultVars
<1>5. CASE CommandReturns
  <2>1. attemptResult' \in StepResult /\ attemptResult'.indeterminate \in BOOLEAN
    BY <1>5 DEF CommandReturns, StepResult
  <2>2. QED
    BY <1>5, <2>1 DEF CommandReturns, resultVars
<1>6. CASE JudgeAttempt
  <2>1. index \in Step /\ policy[index] \in Policy
    BY <1>6 DEF JudgeAttempt, Step
  <2>2. MaximumAttempts(policy[index]) \in 1 .. MaxAttempts
    BY <2>1, MaximumAttemptsBound
  <2>3. PICK expired \in {FALSE, policy[index].timeout} :
          /\ attemptResult' = Judged(expired)
          /\ at' = IF EndsStep(Judged(expired)) THEN "complete" ELSE "delay"
    BY <1>6 DEF JudgeAttempt
  <2>4. expired \in BOOLEAN
    BY <2>1, <2>3 DEF Policy
  <2>5. Judged(expired) \in StepResult
    BY <2>4, JudgedProperties
  <2>6. at' = "delay" => attempt < MaximumAttempts(policy[index])
    BY <1>6, <2>2, <2>3 DEF EndsStep, JudgeAttempt
  <2>7. at' \in {"complete", "delay"} /\ attemptResult' \in StepResult
    BY <2>3, <2>5
  <2>8. QED
    BY <1>6, <2>2, <2>6, <2>7 DEF JudgeAttempt, resultVars, historyVars
<1>7. CASE RetryDelay
  <2>1. index \in Step /\ policy[index] \in Policy
    BY <1>7 DEF RetryDelay, Step
  <2>2. MaximumAttempts(policy[index]) \in 1 .. MaxAttempts
    BY <2>1, MaximumAttemptsBound
  <2>3. [status |-> "Cancelled", indeterminate |-> FALSE] \in StepResult
    BY DEF StepResult, StepStatus
  <2>4. CASE IsCancellationRequested
    <3>1. attemptResult' \in StepResult /\ at' = "complete" /\ attempt' = attempt
      BY <1>7, <2>3, <2>4 DEF RetryDelay
    <3>2. QED
      BY <1>7, <2>2, <3>1 DEF RetryDelay, resultVars, historyVars
  <2>5. CASE ~IsCancellationRequested
    <3>1. attemptResult' = attemptResult /\ at' = "attempt" /\ attempt' = attempt + 1
      BY <1>7, <2>5 DEF RetryDelay
    <3>2. QED
      BY <1>7, <2>2, <3>1 DEF RetryDelay, resultVars, historyVars
  <2>6. QED
    BY <2>4, <2>5
<1>8. CASE CompleteStep
  <2>1. [result |-> attemptResult, attempts |-> attempt] \in Record
    BY DEF Record
  <2>2. records' \in Seq(Record) /\ Len(records') = Len(records) + 1
    BY <1>8, <2>1 DEF CompleteStep
  <2>3. runStatus' \in RunStatus /\ failureKind' \in RunFailureKind
    <3>1. attemptResult.status \in StepStatus
      BY DEF StepResult
    <3>2. QED
      BY <1>8, <3>1, AccumulateProperties DEF CompleteStep, RunFailureKind
  <2>4. QED
    BY <1>8, <2>2, <2>3 DEF CompleteStep, historyVars
<1>9. CASE Summarise
  <2>1. summary' \in RunSummary
    BY <1>9 DEF Summarise, BuildSummary, RunSummary
  <2>2. QED
    BY <1>9, <2>1 DEF Summarise, historyVars
<1>10. CASE Cancel
  BY <1>10 DEF Cancel, executorVars, resultVars, historyVars
<1>11. CASE UNCHANGED testVars
  BY <1>11 DEF testVars, executorVars, resultVars, historyVars
<1>12. QED
  BY <1>1, <1>2, <1>3, <1>4, <1>5, <1>6, <1>7, <1>8, <1>9, <1>10, <1>11 DEF TestNext, ExecutorStep
-----------------------------------------------------------------------------
(* Steps: what is left to do after a cancellation or a lost effect.        *)

\* Every step keeps what is known of the attempts begun since the cancellation.
LEMMA LateStep == TestTypeOK /\ LateInv /\ [TestNext]_testVars => LateInv'
<1> SUFFICES ASSUME TestTypeOK, LateInv, [TestNext]_testVars PROVE LateInv'
  OBVIOUS
<1> USE DEF TestTypeOK, LateInv, Ended
<1>1. CASE Execute
  BY <1>1 DEF Execute, historyVars
<1>2. CASE CheckCancellation
  BY <1>2 DEF CheckCancellation, CallOff, historyVars
<1>3. CASE BeforeStep
  BY <1>3 DEF BeforeStep, CallOff, historyVars
<1>4. CASE StartAttempt
  BY <1>4 DEF StartAttempt
<1>5. CASE CommandReturns
  BY <1>5 DEF CommandReturns
<1>6. CASE JudgeAttempt
  <2>1. PICK expired \in {FALSE, policy[index].timeout} :
          /\ attemptResult' = Judged(expired)
          /\ at' = IF EndsStep(Judged(expired)) THEN "complete" ELSE "delay"
    BY <1>6 DEF JudgeAttempt
  <2>2. CASE lateStarts = 1
    <3>1. Judged(expired).status = "Cancelled"
      BY <2>2 DEF Judged, IsCancellationRequested, StepResult
    <3>2. QED
      BY <1>6, <2>1, <2>2, <3>1 DEF JudgeAttempt, EndsStep, historyVars
  <2>3. CASE lateStarts # 1
    BY <1>6, <2>3 DEF JudgeAttempt, historyVars
  <2>4. QED
    BY <2>2, <2>3
<1>7. CASE RetryDelay
  BY <1>7 DEF RetryDelay, historyVars
<1>8. CASE CompleteStep
  BY <1>8 DEF CompleteStep, StopsRun, Succeeded, historyVars
<1>9. CASE Summarise
  BY <1>9 DEF Summarise, historyVars
<1>10. CASE Cancel
  BY <1>10 DEF Cancel, executorVars, historyVars
<1>11. CASE UNCHANGED testVars
  BY <1>11 DEF testVars, executorVars, historyVars
<1>12. QED
  BY <1>1, <1>2, <1>3, <1>4, <1>5, <1>6, <1>7, <1>8, <1>9, <1>10, <1>11 DEF TestNext, ExecutorStep

\* Every step keeps where the executor can stand after a lost effect.
LEMMA EffectStep == TestTypeOK /\ PositionInv /\ EffectInv /\ [TestNext]_testVars => EffectInv'
<1> SUFFICES ASSUME TestTypeOK, PositionInv, EffectInv, [TestNext]_testVars PROVE EffectInv'
  OBVIOUS
<1> USE DEF TestTypeOK, EffectInv, Ended
<1>1. CASE Execute
  BY <1>1 DEF Execute, historyVars
<1>2. CASE CheckCancellation
  BY <1>2 DEF CheckCancellation, CallOff, historyVars
<1>3. CASE BeforeStep
  BY <1>3 DEF BeforeStep, CallOff, historyVars
<1>4. CASE StartAttempt
  BY <1>4 DEF StartAttempt
<1>5. CASE CommandReturns
  BY <1>5 DEF CommandReturns
<1>6. CASE JudgeAttempt
  <2>1. index \in Step /\ policy[index].timeout \in BOOLEAN
    BY <1>6 DEF JudgeAttempt, PositionInv, InStep, Step, Policy
  <2>2. PICK expired \in {FALSE, policy[index].timeout} :
          /\ attemptResult' = Judged(expired)
          /\ at' = IF EndsStep(Judged(expired)) THEN "complete" ELSE "delay"
    BY <1>6 DEF JudgeAttempt
  <2>3. Judged(expired).indeterminate = attemptResult.indeterminate
    BY <2>1, <2>2, JudgedProperties
  <2>4. QED
    BY <1>6, <2>2, <2>3 DEF JudgeAttempt, EndsStep, historyVars
<1>7. CASE RetryDelay
  BY <1>7 DEF RetryDelay, historyVars
<1>8. CASE CompleteStep
  BY <1>8 DEF CompleteStep, StopsRun, Succeeded, historyVars, StepResult
<1>9. CASE Summarise
  BY <1>9 DEF Summarise, historyVars
<1>10. CASE Cancel
  BY <1>10 DEF Cancel, executorVars, historyVars
<1>11. CASE UNCHANGED testVars
  BY <1>11 DEF testVars, executorVars, historyVars
<1>12. QED
  BY <1>1, <1>2, <1>3, <1>4, <1>5, <1>6, <1>7, <1>8, <1>9, <1>10, <1>11 DEF TestNext, ExecutorStep
-----------------------------------------------------------------------------
(* Steps: the records and the verdict.                                     *)

\* A step that files no record and stays on its side of the run's end keeps
\* what is said of the records.
LEMMA RecordsUnchanged ==
    ASSUME RecordInv, UNCHANGED <<records, policy>>,
           at' # "complete", at' \in Ended \/ at \notin Ended
    PROVE  RecordInv'
  BY DEF RecordInv, RetryPolicyHonoured, RunStopsAtFatalStep, LetsRunGoOn, Exhausted

\* Every step keeps what the records say of the steps that were run.
LEMMA RecordStep ==
    TestTypeOK /\ PositionInv /\ RecordInv /\ [TestNext]_testVars => RecordInv'
<1> SUFFICES ASSUME TestTypeOK, PositionInv, RecordInv, [TestNext]_testVars
             PROVE  RecordInv'
  OBVIOUS
<1>1. CASE Execute
  BY <1>1, RecordsUnchanged DEF Execute, resultVars, Ended
<1>2. CASE CheckCancellation
  BY <1>2, RecordsUnchanged DEF CheckCancellation, CallOff, resultVars, Ended
<1>3. CASE BeforeStep
  BY <1>3, RecordsUnchanged DEF BeforeStep, CallOff, resultVars, Ended
<1>4. CASE StartAttempt
  BY <1>4, RecordsUnchanged DEF StartAttempt, resultVars, Ended
<1>5. CASE CommandReturns
  BY <1>5, RecordsUnchanged DEF CommandReturns, resultVars, Ended
<1>6. CASE JudgeAttempt
  <2>1. attempt \in 1 .. MaximumAttempts(policy[index]) /\ MaximumAttempts(policy[index]) \in Nat
    <3>1. index \in Step /\ policy[index] \in Policy
      BY <1>6 DEF JudgeAttempt, TestTypeOK, PositionInv, InStep, Step
    <3>2. QED
      BY <1>6, <3>1, MaximumAttemptsBound DEF JudgeAttempt, PositionInv, InAttempt
  <2>2. PICK expired \in {FALSE, policy[index].timeout} :
          /\ attemptResult' = Judged(expired)
          /\ at' = IF EndsStep(Judged(expired)) THEN "complete" ELSE "delay"
    BY <1>6 DEF JudgeAttempt
  <2>3. at' = "complete" => Exhausted(attemptResult', attempt, MaximumAttempts(policy[index]))
    BY <2>1, <2>2 DEF EndsStep, Exhausted, Succeeded
  <2>4. UNCHANGED <<records, policy, index, attempt>> /\ at \notin Ended
    BY <1>6 DEF JudgeAttempt, resultVars, Ended
  <2>5. QED
    BY <2>3, <2>4 DEF RecordInv, RetryPolicyHonoured, RunStopsAtFatalStep, LetsRunGoOn, MaximumAttempts
<1>7. CASE RetryDelay
  <2>1. at' = "complete" => Exhausted(attemptResult', attempt, MaximumAttempts(policy[index]))
    BY <1>7 DEF RetryDelay, Exhausted
  <2>2. UNCHANGED <<records, policy, index>> /\ at \notin Ended
    BY <1>7 DEF RetryDelay, resultVars, Ended
  <2>3. at' = "complete" => attempt' = attempt
    BY <1>7 DEF RetryDelay
  <2>4. QED
    BY <2>1, <2>2, <2>3 DEF RecordInv, RetryPolicyHonoured, RunStopsAtFatalStep, LetsRunGoOn, MaximumAttempts
<1>8. CASE CompleteStep
  <2> DEFINE filed == [result |-> attemptResult, attempts |-> attempt]
  <2>1. filed \in Record
    BY DEF Record, TestTypeOK
  <2>2. Len(records) = index - 1 /\ index \in Step /\ Len(records) \in Nat
    BY <1>8 DEF CompleteStep, PositionInv, TestTypeOK, InStep, Ended, Step
  <2>3. /\ Len(records') = index
        /\ \A i \in 1 .. index - 1 : records'[i] = records[i]
        /\ records'[index] = filed
    BY <1>8, <2>1, <2>2 DEF CompleteStep, TestTypeOK
  <2>4. UNCHANGED policy
    BY <1>8 DEF CompleteStep
  <2>5. RetryPolicyHonoured'
    <3>1. index \in Step /\ policy[index] \in Policy
      BY <2>2 DEF TestTypeOK
    <3>2. attempt \in 1 .. MaximumAttempts(policy[index])
      BY <1>8 DEF CompleteStep, PositionInv, InAttempt
    <3>3. Exhausted(attemptResult, attempt, MaximumAttempts(policy[index]))
      BY <1>8 DEF CompleteStep, RecordInv
    <3>4. QED
      BY <2>2, <2>3, <2>4, <3>2, <3>3 DEF RecordInv, RetryPolicyHonoured, Exhausted, MaximumAttempts
  <2>6. \A i \in 1 .. index - 1 : LetsRunGoOn(i) /\ LetsRunGoOn(i)'
    BY <1>8, <2>2, <2>3, <2>4 DEF RecordInv, LetsRunGoOn, CompleteStep, Ended
  <2>7. RunStopsAtFatalStep'
    BY <2>2, <2>3, <2>6 DEF RunStopsAtFatalStep, LetsRunGoOn
  <2>8. \A i \in {index} : at' \notin Ended => LetsRunGoOn(i)'
    <3>1. at' \notin Ended => ~StopsRun(attemptResult)
      BY <1>8 DEF CompleteStep, Ended
    <3>2. records'[index].result = attemptResult
      BY <2>3
    <3>3. attemptResult.indeterminate => attemptResult.status # "Passed"
      BY DEF TestTypeOK, StepResult
    <3>4. QED
      BY <2>4, <3>1, <3>2, <3>3 DEF StopsRun, LetsRunGoOn, Succeeded
  <2>9. at' # "complete"
    BY <1>8 DEF CompleteStep
  <2>10. QED
    BY <2>2, <2>3, <2>5, <2>6, <2>7, <2>8, <2>9 DEF RecordInv
<1>9. CASE Summarise
  BY <1>9, RecordsUnchanged DEF Summarise, Ended
<1>10. CASE Cancel
  BY <1>10 DEF Cancel, executorVars, resultVars, RecordInv, RetryPolicyHonoured,
               RunStopsAtFatalStep, LetsRunGoOn, MaximumAttempts
<1>11. CASE UNCHANGED testVars
  BY <1>11 DEF testVars, executorVars, resultVars, RecordInv, RetryPolicyHonoured,
               RunStopsAtFatalStep, LetsRunGoOn, MaximumAttempts
<1>12. QED
  BY <1>1, <1>2, <1>3, <1>4, <1>5, <1>6, <1>7, <1>8, <1>9, <1>10, <1>11 DEF TestNext, ExecutorStep

\* Every step keeps what the verdict may be.
LEMMA VerdictStep ==
    TestTypeOK /\ PositionInv /\ EffectInv /\ VerdictInv /\ [TestNext]_testVars => VerdictInv'
<1> SUFFICES ASSUME TestTypeOK, PositionInv, EffectInv, VerdictInv, [TestNext]_testVars
             PROVE  VerdictInv'
  OBVIOUS
<1> USE DEF VerdictInv, VerdictCoversRecords, Ended
<1>1. CASE Execute
  BY <1>1 DEF Execute, resultVars, historyVars
<1>2. CASE CheckCancellation
  <2>1. index > NumSteps => Len(records) = NumSteps /\ ~effectLost
    BY <1>2, NumStepsAssumption DEF CheckCancellation, PositionInv, EffectInv, TestTypeOK
  <2>2. QED
    BY <1>2, <2>1, CancelledCovers DEF CheckCancellation, CallOff, resultVars, historyVars
<1>3. CASE BeforeStep
  BY <1>3, CancelledCovers DEF BeforeStep, CallOff, resultVars, historyVars
<1>4. CASE StartAttempt
  BY <1>4 DEF StartAttempt, resultVars
<1>5. CASE CommandReturns
  BY <1>5 DEF CommandReturns, resultVars
<1>6. CASE JudgeAttempt
  BY <1>6 DEF JudgeAttempt, resultVars, historyVars
<1>7. CASE RetryDelay
  BY <1>7 DEF RetryDelay, resultVars, historyVars
<1>8. CASE CompleteStep
  <2> DEFINE filed == [result |-> attemptResult, attempts |-> attempt]
  <2>1. filed \in Record
    BY DEF Record, TestTypeOK
  <2>2. /\ Len(records') = Len(records) + 1
        /\ Len(records) \in Nat
        /\ \A i \in 1 .. Len(records) : records'[i] = records[i]
        /\ records'[Len(records) + 1] = filed
    BY <1>8, <2>1 DEF CompleteStep, TestTypeOK
  <2>3. /\ runStatus' = "Passed" <=> runStatus = "Passed" /\ attemptResult.status = "Passed"
        /\ attemptResult.status = "Passed" => runStatus' = runStatus
    <3>1. attemptResult.status \in StepStatus
      BY DEF TestTypeOK, StepResult
    <3>2. QED
      BY <1>8, <3>1, AccumulateProperties DEF CompleteStep, TestTypeOK
  <2>4. failureKind' = "None" <=> runStatus' = "Passed"
    BY <1>8, <2>3 DEF CompleteStep, Succeeded
  <2>5. runStatus' = "Passed" => \A i \in 1 .. Len(records') : Succeeded(records'[i].result)
    BY <2>2, <2>3 DEF Succeeded
  <2>6. runStatus' = "Passed" => at' \notin Ended
    BY <1>8, <2>3 DEF CompleteStep, StopsRun, Succeeded
  <2>7. VerdictCoversRecords'
    <3>1. attemptResult.status \in StepStatus
      BY DEF TestTypeOK, StepResult
    <3>2. /\ Severity[RunStatusFor(attemptResult.status)] <= Severity[runStatus']
          /\ Severity[runStatus] <= Severity[runStatus']
      BY <1>8, <3>1, AccumulateProperties DEF CompleteStep, TestTypeOK
    <3>3. \A i \in DOMAIN records : Severity[RunStatusFor(records[i].result.status)] <= Severity[runStatus]
      BY <1>8 DEF CompleteStep
    <3>4. /\ runStatus \in RunStatus /\ runStatus' \in RunStatus
          /\ \A i \in DOMAIN records : RunStatusFor(records[i].result.status) \in RunStatus
      BY <1>8, <3>1, AccumulateProperties, RecordedStatus DEF CompleteStep, TestTypeOK
    <3>5. \A i \in DOMAIN records : Severity[RunStatusFor(records[i].result.status)] <= Severity[runStatus']
      BY <3>2, <3>3, <3>4, SeverityOrdered
    <3>6. DOMAIN records = 1 .. Len(records) /\ DOMAIN records' = 1 .. Len(records')
      BY <1>8, <2>1 DEF CompleteStep, TestTypeOK
    <3> QED
      BY <2>2, <3>2, <3>5, <3>6
  <2>8. QED
    BY <1>8, <2>4, <2>5, <2>6, <2>7 DEF CompleteStep, Succeeded
<1>9. CASE Summarise
  BY <1>9 DEF Summarise, historyVars
<1>10. CASE Cancel
  BY <1>10 DEF Cancel, executorVars, resultVars, historyVars
<1>11. CASE UNCHANGED testVars
  BY <1>11 DEF testVars, executorVars, resultVars, historyVars
<1>12. QED
  BY <1>1, <1>2, <1>3, <1>4, <1>5, <1>6, <1>7, <1>8, <1>9, <1>10, <1>11 DEF TestNext, ExecutorStep
-----------------------------------------------------------------------------
(* The invariant, and what follows from it.                                *)

\* The inductive invariant holds throughout every execution.
THEOREM ExecutorInvariant == TestSpec => []ExecutorInv
<1>1. TestInit => ExecutorInv
  BY ExecutorInvInit
<1>2. ExecutorInv /\ [TestNext]_testVars => ExecutorInv'
  BY TypeStep, LateStep, EffectStep, RecordStep, VerdictStep DEF ExecutorInv
<1>3. QED
  BY <1>1, <1>2, PTL DEF TestSpec

\* Every variable of the sequencer keeps its type: the loop never leaves the
\* plan and no step gets more attempts than the bound.
THEOREM TypeCorrect == TestSpec => []TestTypeOK
  BY ExecutorInvariant, PTL DEF ExecutorInv

\* At most one attempt starts after the cancellation (TestExecutor.cpp:135,
\* 227, 260).
THEOREM AtMostOneAttemptAfterCancel == TestSpec => []AtMostOneLateStart
<1>1. ExecutorInv => AtMostOneLateStart
  BY DEF ExecutorInv, LateInv, AtMostOneLateStart
<1>2. QED
  BY <1>1, ExecutorInvariant, PTL

\* No command is called after an effect was lost (TestExecutor.cpp:242, 292).
THEOREM NothingFollowsALostEffect == TestSpec => NoReplayAfterLostEffect
<1>1. ExecutorInv /\ [TestNext]_testVars => [effectLost => started' = started]_testVars
  <2> SUFFICES ASSUME ExecutorInv, TestNext, effectLost PROVE started' = started
    BY DEF testVars, historyVars
  <2>1. ~StartAttempt
    BY DEF ExecutorInv, EffectInv, Ended, StartAttempt
  <2>2. QED
    BY <2>1 DEF TestNext, ExecutorStep, Execute, CheckCancellation, BeforeStep, CommandReturns,
                JudgeAttempt, RetryDelay, CompleteStep, Summarise, Cancel, historyVars
<1>2. QED
  BY <1>1, ExecutorInvariant, PTL DEF TestSpec, NoReplayAfterLostEffect

\* Every recorded step used the attempts its policy gives it, no more, and
\* fewer only for a reason (TestExecutor.cpp:241-247).
THEOREM RetriesFollowThePolicy == TestSpec => []RetryPolicyHonoured
  BY ExecutorInvariant, PTL DEF ExecutorInv, RecordInv

\* No step follows one that ends the sequence (TestExecutor.cpp:288-297).
THEOREM FatalStepIsTheLast == TestSpec => []RunStopsAtFatalStep
  BY ExecutorInvariant, PTL DEF ExecutorInv, RecordInv

\* A run reported PASSED ran every step, and every step passed.
THEOREM PassedIsEarned == TestSpec => []PassedMeansAllPassed
<1>1. ExecutorInv => PassedMeansAllPassed
  BY DEF ExecutorInv, VerdictInv, Ended, PassedMeansAllPassed, Step
<1>2. QED
  BY <1>1, ExecutorInvariant, PTL

\* The verdict and the failure kind are assigned on the same paths.
THEOREM FailureKindMatchesVerdict == TestSpec => []FailureKindAgrees
<1>1. ExecutorInv => FailureKindAgrees
  BY DEF ExecutorInv, VerdictInv, Ended, FailureKindAgrees
<1>2. QED
  BY <1>1, ExecutorInvariant, PTL

-----------------------------------------------------------------------------
(***************************************************************************)
(* The session.                                                            *)
(***************************************************************************)

\* The phases before the sequencer, and those after it.
Before == {"none", "prepare", "initialize", "bindCheck", "bind", "decide"}
Concluded == {"terminal", "publish", "returned"}
After == {"leave", "enterCleanup", "clear", "shutdown", "finish", "verdict"} \cup Concluded

\* The manager between two calls of the session.
Resting == {"loaded", "ready", "failed"}

\* The session's state and the manager at each phase of the worker.
PhaseInv ==
    /\ pc = "none" => state \in {"Idle", "Failed"} /\ manager = "loaded"
    /\ pc = "prepare" => state = "Initializing" /\ manager = "loaded"
    /\ pc = "initialize" =>
          state = "Initializing" /\ manager \in {"initializing", "unwinding", "ready", "failed"}
    /\ pc \in {"bindCheck", "bind"} => state = "Initializing" /\ manager = "ready"
    /\ pc = "decide" => /\ state = "Initializing"
                        /\ manager \in Resting
                        /\ initialization = "succeeded" => manager = "ready"
    /\ pc = "run" => state = "Running" /\ manager = "ready"
    /\ pc = "leave" => /\ state = IF at = "idle" THEN "Initializing" ELSE "Running"
                       /\ manager \in Resting
    /\ pc = "enterCleanup" => state \in {"Initializing", "Running", "Cancelling"} /\ manager \in Resting
    /\ pc = "clear" => state = "CleaningUp" /\ manager \in Resting
    /\ pc = "shutdown" => state = "CleaningUp" /\ manager \in {"shutting", "closed"}
    /\ pc \in {"finish", "verdict", "terminal"} => state = "CleaningUp" /\ manager = "closed"
    /\ pc \in {"publish", "returned"} => state = TerminalStateFor(runStatus) /\ manager = "closed"

\* The sequencer is entered once, on a bench that is fully up.
SequencerInv ==
    /\ at = "idle" => pc # "run" /\ started = 0 /\ ~effectLost
    /\ at # "idle" => /\ pc \notin Before
                      /\ manager \in {"ready", "shutting", "closed"}
                      /\ \A i \in Instrument : driver[i] # "absent"
    /\ at \notin {"idle", "done"} => pc = "run"
    /\ pc \in After /\ at = "idle" => runStatus # "Passed"

\* How many instruments are up: always the first ones.
NumUp ==
    IF manager = "initializing" THEN cursor - 1
    ELSE IF manager = "ready" THEN NumInstruments
    ELSE IF manager \in {"unwinding", "shutting"} THEN cursor
    ELSE 0

\* The instruments come up, and go down, one at a time along initOrder.
DriverInv ==
    /\ \A i \in Instrument : initialized[i] <=> i <= NumUp
    /\ \A i \in Instrument : driver[i] = "up" <=> i <= NumUp
    /\ \A k \in 1 .. Len(initOrder) : initOrder[k] = k
    /\ manager = "initializing" => /\ cursor >= 1
                                   /\ Len(initOrder) = cursor - 1
                                   /\ \A i \in Instrument : cursor <= i => driver[i] = "absent"
    /\ manager = "ready" => Len(initOrder) = NumInstruments
    /\ manager \in {"unwinding", "shutting"} => cursor <= Len(initOrder)
    /\ manager = "loaded" => \A i \in Instrument : driver[i] = "absent"
    /\ manager \in {"loaded", "failed"} => Len(initOrder) = 0
    /\ Len(initOrder) <= NumInstruments

\* What is alive at each phase.
ResourceInv ==
    /\ pc \in {"bind", "decide", "run", "leave", "enterCleanup", "clear"} \/ bound = 0
    /\ runtime = "ended" <=> pc \in {"verdict"} \cup Concluded
    /\ completions = IF pc = "returned" THEN 1 ELSE 0
    /\ future \in {"ready", "taken"} <=> pc = "returned"

\* What the failure kind stands for.
KindInv ==
    /\ failureKind \in {"Initialization", "Cleanup", "Internal"} => runStatus = "Error"
    /\ failureKind = "Cleanup" => cleanupFailed /\ pc \in Concluded
    /\ cleanupFailed /\ pc \in Concluded => failureKind = "Cleanup"
    /\ failureKind = "Initialization" => initialization = "failed" /\ at = "idle"

WorkerInv == PhaseInv /\ SequencerInv /\ DriverInv /\ ResourceInv /\ KindInv

\* The types of the session's own variables, the manager's and the sequencer's
\* being ManagerTypeOK and a part of ExecutorInv.
ControlTypeOK ==
    /\ state \in ExecutionState
    /\ pc \in WorkerLocation
    /\ future \in {"invalid", "running", "ready", "taken"}
    /\ bound \in 0 .. NumSteps
    /\ initialization \in {"succeeded", "failed"}
    /\ runtime \in {"closed", "open", "ended"}
    /\ completions \in 0 .. 1

\* The inductive invariant.
SessionInv == ExecutorInv /\ ManagerTypeOK /\ ControlTypeOK /\ WorkerInv
-----------------------------------------------------------------------------
(* The sequencer inside the session.                                       *)

\* A step of the sequencer keeps its invariant.
LEMMA SequencerStep == ExecutorInv /\ [TestNext]_testVars => ExecutorInv'
BY TypeStep, LateStep, EffectStep, RecordStep, VerdictStep DEF ExecutorInv

\* So does giving the run up before the sequencer is entered, or overriding its
\* verdict for a failed clean-up after it has returned.
LEMMA GivenUp ==
    ASSUME ExecutorInv,
           runStatus' \in RunStatus \ {"Passed"}, failureKind' \in RunFailureKind \ {"None"},
           at = "idle" \/ (at = "done" /\ runStatus' = "Error" /\ failureKind' = "Cleanup"),
           UNCHANGED <<policy, cancelRequested, at, index, attempt, attemptResult, resultVars, historyVars>>
    PROVE  ExecutorInv'
<1> USE DEF resultVars, historyVars
<1>1. TestTypeOK'
  BY DEF ExecutorInv, TestTypeOK
<1>2. PositionInv' /\ LateInv' /\ EffectInv'
  BY DEF ExecutorInv, PositionInv, LateInv, EffectInv, MaximumAttempts
<1>3. RecordInv'
  BY DEF ExecutorInv, RecordInv, RetryPolicyHonoured, RunStopsAtFatalStep, LetsRunGoOn, MaximumAttempts
<1>4. VerdictInv'
  <2>1. at = "idle" => DOMAIN records = {}
    BY DEF ExecutorInv, VerdictInv, TestTypeOK
  <2> QED
    BY <2>1 DEF ExecutorInv, VerdictInv, VerdictCoversRecords, Ended
<1> QED
  BY <1>1, <1>2, <1>3, <1>4 DEF ExecutorInv

\* Outside its phase the sequencer has either not begun or returned.
LEMMA NotEntered ==
    WorkerInv => /\ pc \in Before => at = "idle"
                 /\ pc # "run" => at \in {"idle", "done"}
BY DEF WorkerInv, SequencerInv, Before

\* The session enters the sequencer once and otherwise leaves it alone or gives
\* the run up.
LEMMA ExecutorKept ==
    ExecutorInv /\ WorkerInv /\ [SessionNext]_sessionVars => ExecutorInv'
<1> SUFFICES ASSUME ExecutorInv, WorkerInv, [SessionNext]_sessionVars
             PROVE  ExecutorInv'
  OBVIOUS
<1>1. CASE Start
  BY <1>1, SequencerStep DEF Start
<1>2. CASE CancelSession
  BY <1>2, SequencerStep DEF CancelSession, TestNext
<1>3. CASE Wait
  BY <1>3, SequencerStep DEF Wait
<1>4. CASE PrepareRuntime
  <2>1. CASE UNCHANGED <<runStatus, failureKind>>
    BY <1>4, <2>1, SequencerStep DEF PrepareRuntime, testVars, executorVars
  <2>2. CASE runStatus' = "Error" /\ failureKind' = "Internal"
    BY <1>4, <2>2, GivenUp, NotEntered DEF PrepareRuntime, Before, RunStatus, RunFailureKind
  <2> QED
    BY <1>4, <2>1, <2>2 DEF PrepareRuntime
<1>5. CASE InitializeInstruments
  BY <1>5, SequencerStep DEF InitializeInstruments
<1>6. CASE CheckBeforeBind
  BY <1>6, SequencerStep DEF CheckBeforeBind
<1>7. CASE BindCommands
  <2>1. CASE UNCHANGED <<runStatus, failureKind>>
    BY <1>7, <2>1, SequencerStep DEF BindCommands, testVars, executorVars
  <2>2. CASE runStatus' = "Error" /\ failureKind' = "Internal"
    BY <1>7, <2>2, GivenUp, NotEntered DEF BindCommands, Before, RunStatus, RunFailureKind
  <2> QED
    BY <1>7, <2>1, <2>2 DEF BindCommands
<1>8. CASE Decide
  <2>1. CASE NotRun("Error", "Initialization") \/ NotRun("Cancelled", "Execution")
    BY <1>8, <2>1, GivenUp, NotEntered DEF Decide, NotRun, Before, RunStatus, RunFailureKind
  <2>2. CASE at' = "check" /\ UNCHANGED <<runStatus, failureKind>>
    <3>1. Execute
      BY <1>8, <2>2 DEF Decide, Execute, WorkerInv, SequencerInv, Before
    <3> QED
      BY <3>1, SequencerStep DEF TestNext
  <2> QED
    BY <1>8, <2>1, <2>2 DEF Decide
<1>9. CASE RunStep
  BY <1>9, SequencerStep DEF RunStep, TestNext
<1>10. CASE RunReturns
  BY <1>10, SequencerStep DEF RunReturns
<1>11. CASE EnterCancelling
  BY <1>11, SequencerStep DEF EnterCancelling
<1>12. CASE EnterCleanup
  BY <1>12, SequencerStep DEF EnterCleanup
<1>13. CASE ClearCommands
  BY <1>13, SequencerStep DEF ClearCommands
<1>14. CASE ShutdownInstruments
  BY <1>14, SequencerStep DEF ShutdownInstruments
<1>15. CASE FinishRuntime
  BY <1>15, SequencerStep DEF FinishRuntime
<1>16. CASE Conclude
  <2>1. CASE cleanupFailed
    BY <1>16, <2>1, GivenUp, NotEntered DEF Conclude, RunStatus, RunFailureKind
  <2>2. CASE ~cleanupFailed
    BY <1>16, <2>2, SequencerStep DEF Conclude, testVars, executorVars
  <2> QED
    BY <2>1, <2>2
<1>17. CASE EnterTerminal
  BY <1>17, SequencerStep DEF EnterTerminal
<1>18. CASE PublishCompletion
  BY <1>18, SequencerStep DEF PublishCompletion
<1>19. CASE UNCHANGED sessionVars
  BY <1>19, SequencerStep DEF sessionVars
<1> QED
  BY <1>1, <1>2, <1>3, <1>4, <1>5, <1>6, <1>7, <1>8, <1>9, <1>10, <1>11, <1>12, <1>13, <1>14,
     <1>15, <1>16, <1>17, <1>18, <1>19
  DEF SessionNext, WorkerStep

-----------------------------------------------------------------------------
(* The instruments.                                                        *)

\* Each call of the manager brings one instrument up, or the last one down.
LEMMA ManagerStep ==
    ASSUME ManagerTypeOK, DriverInv, InitializeAll \/ InitializeStep \/ ShutdownAll \/ ShutdownStep
    PROVE  ManagerTypeOK' /\ DriverInv'
<1> USE NumInstrumentsAssumption DEF Instrument, ManagerCall, DriverState
<1>1. CASE InitializeAll
  BY <1>1 DEF InitializeAll, ManagerTypeOK, DriverInv, NumUp
<1>2. CASE InstrumentInitialized
  <2>1. cursor \in Instrument /\ Len(initOrder) = cursor - 1
    BY <1>2 DEF InstrumentInitialized, ManagerTypeOK, DriverInv
  <2>2. /\ initOrder' \in Seq(Instrument)
        /\ Len(initOrder') = cursor
        /\ \A k \in 1 .. cursor : initOrder'[k] = k
    BY <1>2, <2>1 DEF InstrumentInitialized, ManagerTypeOK, DriverInv
  <2>3. ManagerTypeOK'
    BY <1>2, <2>1, <2>2 DEF InstrumentInitialized, ManagerTypeOK
  <2>4. /\ \A i \in Instrument : initialized'[i] <=> i <= cursor
        /\ \A i \in Instrument : driver'[i] = "up" <=> i <= cursor
        /\ \A i \in Instrument : cursor + 1 <= i => driver'[i] = "absent"
    BY <1>2, <2>1 DEF InstrumentInitialized, ManagerTypeOK, DriverInv, NumUp
  <2> QED
    BY <1>2, <2>1, <2>2, <2>3, <2>4 DEF InstrumentInitialized, DriverInv, NumUp
<1>3. CASE InstrumentInitFails
  <2>1. cursor \in Instrument /\ Len(initOrder) = cursor - 1 /\ driver[cursor] = "absent"
    BY <1>3 DEF InstrumentInitFails, ManagerTypeOK, DriverInv
  <2>2. ManagerTypeOK'
    BY <1>3, <2>1 DEF InstrumentInitFails, ManagerTypeOK
  <2>3. \A i \in Instrument : driver'[i] = "up" <=> driver[i] = "up"
    BY <1>3, <2>1 DEF InstrumentInitFails, ManagerTypeOK
  <2> QED
    BY <1>3, <2>1, <2>2, <2>3 DEF InstrumentInitFails, DriverInv, NumUp
<1>4. CASE AllInitialized
  BY <1>4 DEF AllInitialized, ManagerTypeOK, DriverInv, NumUp
<1>5. CASE ShutdownAll
  BY <1>5 DEF ShutdownAll, ManagerTypeOK, DriverInv, NumUp
<1>6. CASE ShutdownInstrument
  <2>1. cursor \in Instrument /\ ShutdownTarget = cursor
    BY <1>6 DEF ShutdownInstrument, ShutdownTarget, ManagerTypeOK, DriverInv
  <2>2. initialized[cursor]
    BY <1>6, <2>1 DEF ShutdownInstrument, DriverInv, NumUp
  <2>3. /\ driver' = [driver EXCEPT ![cursor] = "down"]
        /\ initialized' = [initialized EXCEPT ![cursor] = FALSE]
        /\ cleanupFailed' \in BOOLEAN
        /\ cursor' = cursor - 1
        /\ UNCHANGED <<manager, initOrder>>
    BY <1>6, <2>1, <2>2 DEF ShutdownInstrument, ManagerTypeOK
  <2>4. ManagerTypeOK'
    BY <2>1, <2>3 DEF ManagerTypeOK
  <2> QED
    BY <1>6, <2>1, <2>3, <2>4 DEF ShutdownInstrument, DriverInv, NumUp, ManagerTypeOK
<1>7. CASE AllShutDown
  BY <1>7 DEF AllShutDown, ManagerTypeOK, DriverInv, NumUp
<1> QED
  BY <1>1, <1>2, <1>3, <1>4, <1>5, <1>6, <1>7 DEF InitializeStep, ShutdownStep

\* The session calls the manager at four phases only.
LEMMA DriversKept ==
    ManagerTypeOK /\ DriverInv /\ [SessionNext]_sessionVars => (ManagerTypeOK /\ DriverInv)'
<1> SUFFICES ASSUME ManagerTypeOK, DriverInv, [SessionNext]_sessionVars
             PROVE  (ManagerTypeOK /\ DriverInv)'
  OBVIOUS
<1>1. CASE Start
  BY <1>1 DEF Start, managerVars, ManagerTypeOK, DriverInv, NumUp
<1>2. CASE CancelSession
  BY <1>2 DEF CancelSession, managerVars, ManagerTypeOK, DriverInv, NumUp
<1>3. CASE Wait
  BY <1>3 DEF Wait, managerVars, ManagerTypeOK, DriverInv, NumUp
<1>4. CASE PrepareRuntime
  <2>1. CASE UNCHANGED managerVars
    BY <2>1 DEF managerVars, ManagerTypeOK, DriverInv, NumUp
  <2> QED
    BY <1>4, <2>1, ManagerStep DEF PrepareRuntime
<1>5. CASE InitializeInstruments
  <2>1. CASE UNCHANGED managerVars
    BY <2>1 DEF managerVars, ManagerTypeOK, DriverInv, NumUp
  <2> QED
    BY <1>5, <2>1, ManagerStep DEF InitializeInstruments
<1>6. CASE CheckBeforeBind
  BY <1>6 DEF CheckBeforeBind, managerVars, ManagerTypeOK, DriverInv, NumUp
<1>7. CASE BindCommands
  BY <1>7 DEF BindCommands, managerVars, ManagerTypeOK, DriverInv, NumUp
<1>8. CASE Decide
  BY <1>8 DEF Decide, managerVars, ManagerTypeOK, DriverInv, NumUp
<1>9. CASE RunStep
  BY <1>9 DEF RunStep, managerVars, ManagerTypeOK, DriverInv, NumUp
<1>10. CASE RunReturns
  BY <1>10 DEF RunReturns, managerVars, ManagerTypeOK, DriverInv, NumUp
<1>11. CASE EnterCancelling
  BY <1>11 DEF EnterCancelling, managerVars, ManagerTypeOK, DriverInv, NumUp
<1>12. CASE EnterCleanup
  BY <1>12 DEF EnterCleanup, managerVars, ManagerTypeOK, DriverInv, NumUp
<1>13. CASE ClearCommands
  <2>1. CASE UNCHANGED managerVars
    BY <2>1 DEF managerVars, ManagerTypeOK, DriverInv, NumUp
  <2> QED
    BY <1>13, <2>1, ManagerStep DEF ClearCommands
<1>14. CASE ShutdownInstruments
  <2>1. CASE UNCHANGED managerVars
    BY <2>1 DEF managerVars, ManagerTypeOK, DriverInv, NumUp
  <2> QED
    BY <1>14, <2>1, ManagerStep DEF ShutdownInstruments
<1>15. CASE FinishRuntime
  BY <1>15 DEF FinishRuntime, ManagerTypeOK, DriverInv, NumUp
<1>16. CASE Conclude
  BY <1>16 DEF Conclude, managerVars, ManagerTypeOK, DriverInv, NumUp
<1>17. CASE EnterTerminal
  BY <1>17 DEF EnterTerminal, managerVars, ManagerTypeOK, DriverInv, NumUp
<1>18. CASE PublishCompletion
  BY <1>18 DEF PublishCompletion, managerVars, ManagerTypeOK, DriverInv, NumUp
<1>19. CASE UNCHANGED sessionVars
  BY <1>19 DEF sessionVars, managerVars, ManagerTypeOK, DriverInv, NumUp
<1> QED
  BY <1>1, <1>2, <1>3, <1>4, <1>5, <1>6, <1>7, <1>8, <1>9, <1>10, <1>11, <1>12, <1>13, <1>14,
     <1>15, <1>16, <1>17, <1>18, <1>19
  DEF SessionNext, WorkerStep

-----------------------------------------------------------------------------
(* The worker.                                                             *)

\* What a step of the sequencer means to the session.
LEMMA SequencerEffects ==
    ASSUME ExecutorInv, ExecutorStep
    PROVE  /\ at # "idle" /\ at' # "idle"
           /\ failureKind' \in {failureKind, "Execution", "Internal"}
           /\ failureKind' = "Internal" => runStatus' = "Error" \/ failureKind = "Internal"
           /\ runStatus' \in {runStatus, "Error"} \/ failureKind' = "Execution"
<1>1. CASE CompleteStep
  <2>1. attemptResult.status \in StepStatus /\ runStatus \in RunStatus
    BY DEF ExecutorInv, TestTypeOK, StepResult
  <2>2. Succeeded(attemptResult) => runStatus' = runStatus
    BY <1>1, <2>1, AccumulateProperties DEF CompleteStep, Succeeded
  <2>3. /\ at = "complete" /\ at' \in {"summary", "check"}
        /\ failureKind' = IF Succeeded(attemptResult) THEN failureKind ELSE "Execution"
    BY <1>1 DEF CompleteStep
  <2> QED
    BY <2>2, <2>3
<1>2. CASE CheckCancellation
  BY <1>2 DEF CheckCancellation, CallOff
<1>3. CASE BeforeStep
  BY <1>3 DEF BeforeStep, CallOff
<1>4. CASE JudgeAttempt
  BY <1>4 DEF JudgeAttempt
<1>5. CASE StartAttempt \/ CommandReturns \/ RetryDelay \/ Summarise
  BY <1>5 DEF StartAttempt, CommandReturns, RetryDelay, Summarise
<1> QED
  BY <1>1, <1>2, <1>3, <1>4, <1>5 DEF ExecutorStep

\* A session that can be started has no worker.
LEMMA IdleHasNoWorker ==
    ASSUME ExecutorInv, ControlTypeOK, WorkerInv, IsAllowed(state, "Initializing")
    PROVE  state = "Idle" /\ pc = "none"
<1>1. state = "Idle"
  BY DEF IsAllowed, TerminalState
<1>2. TerminalStateFor(runStatus) # "Idle"
  BY DEF TerminalStateFor, ExecutorInv, TestTypeOK, RunStatus
<1> QED
  BY <1>1, <1>2 DEF ControlTypeOK, WorkerLocation, WorkerInv, PhaseInv

\* The worker's own variables keep their types.
LEMMA ControlTypeKept ==
    ExecutorInv /\ ManagerTypeOK /\ ControlTypeOK /\ WorkerInv /\ [SessionNext]_sessionVars => ControlTypeOK'
<1> SUFFICES ASSUME ExecutorInv, ManagerTypeOK, ControlTypeOK, WorkerInv, [SessionNext]_sessionVars
             PROVE  ControlTypeOK'
  OBVIOUS
<1> USE NumStepsAssumption DEF testVars, executorVars, resultVars, historyVars, managerVars, controlVars
<1>1. CASE Start
  BY <1>1
  DEF Start, ControlTypeOK, WorkerLocation, ExecutionState, WorkerInv, ResourceInv, ExecutorInv,
      TestTypeOK, RunStatus, IsAllowed
<1>2. CASE CancelSession
  BY <1>2
  DEF CancelSession, Cancel, ControlTypeOK, WorkerLocation, ExecutionState, WorkerInv, ResourceInv,
      ExecutorInv, TestTypeOK, RunStatus
<1>3. CASE Wait
  BY <1>3
  DEF Wait, ControlTypeOK, WorkerLocation, ExecutionState, WorkerInv, ResourceInv, ExecutorInv,
      TestTypeOK, RunStatus
<1>4. CASE PrepareRuntime
  BY <1>4
  DEF PrepareRuntime, InitializeAll, ControlTypeOK, WorkerLocation, ExecutionState, WorkerInv,
      ResourceInv, ExecutorInv, TestTypeOK, RunStatus
<1>5. CASE InitializeInstruments
  BY <1>5
  DEF InitializeInstruments, InitializeStep, ShutdownStep, InstrumentInitialized,
      InstrumentInitFails, AllInitialized, ShutdownInstrument, AllShutDown, ControlTypeOK,
      WorkerLocation, ExecutionState, WorkerInv, ResourceInv, ExecutorInv, TestTypeOK, RunStatus
<1>6. CASE CheckBeforeBind
  BY <1>6
  DEF CheckBeforeBind, ControlTypeOK, WorkerLocation, ExecutionState, WorkerInv, ResourceInv,
      ExecutorInv, TestTypeOK, RunStatus
<1>7. CASE BindCommands
  BY <1>7
  DEF BindCommands, ControlTypeOK, WorkerLocation, ExecutionState, WorkerInv, ResourceInv,
      ExecutorInv, TestTypeOK, RunStatus
<1>8. CASE Decide
  BY <1>8
  DEF Decide, NotRun, ControlTypeOK, WorkerLocation, ExecutionState, WorkerInv, ResourceInv,
      ExecutorInv, TestTypeOK, RunStatus, TryTransition, IsAllowed
<1>9. CASE RunStep
  BY <1>9, SequencerEffects
  DEF RunStep, ControlTypeOK, WorkerLocation, ExecutionState, WorkerInv, ResourceInv, ExecutorInv,
      TestTypeOK, RunStatus
<1>10. CASE RunReturns
  BY <1>10
  DEF RunReturns, ControlTypeOK, WorkerLocation, ExecutionState, WorkerInv, ResourceInv,
      ExecutorInv, TestTypeOK, RunStatus
<1>11. CASE EnterCancelling
  BY <1>11
  DEF EnterCancelling, ControlTypeOK, WorkerLocation, ExecutionState, WorkerInv, ResourceInv,
      ExecutorInv, TestTypeOK, RunStatus, TryTransition
<1>12. CASE EnterCleanup
  BY <1>12
  DEF EnterCleanup, ControlTypeOK, WorkerLocation, ExecutionState, WorkerInv, ResourceInv,
      ExecutorInv, TestTypeOK, RunStatus, TryTransition
<1>13. CASE ClearCommands
  BY <1>13
  DEF ClearCommands, ShutdownAll, ControlTypeOK, WorkerLocation, ExecutionState, WorkerInv,
      ResourceInv, ExecutorInv, TestTypeOK, RunStatus
<1>14. CASE ShutdownInstruments
  BY <1>14
  DEF ShutdownInstruments, ShutdownStep, ShutdownInstrument, AllShutDown, ControlTypeOK,
      WorkerLocation, ExecutionState, WorkerInv, ResourceInv, ExecutorInv, TestTypeOK, RunStatus
<1>15. CASE FinishRuntime
  BY <1>15
  DEF FinishRuntime, ControlTypeOK, WorkerLocation, ExecutionState, WorkerInv, ResourceInv,
      ExecutorInv, TestTypeOK, RunStatus
<1>16. CASE Conclude
  BY <1>16
  DEF Conclude, ControlTypeOK, WorkerLocation, ExecutionState, WorkerInv, ResourceInv, ExecutorInv,
      TestTypeOK, RunStatus
<1>17. CASE EnterTerminal
  BY <1>17
  DEF EnterTerminal, ControlTypeOK, WorkerLocation, ExecutionState, WorkerInv, ResourceInv,
      ExecutorInv, TestTypeOK, RunStatus, TryTransition, TerminalStateFor
<1>18. CASE PublishCompletion
  BY <1>18
  DEF PublishCompletion, ControlTypeOK, WorkerLocation, ExecutionState, WorkerInv, ResourceInv,
      ExecutorInv, TestTypeOK, RunStatus
<1>19. CASE UNCHANGED sessionVars
  BY <1>19
  DEF sessionVars, ControlTypeOK, WorkerLocation, ExecutionState, WorkerInv, ResourceInv,
      ExecutorInv, TestTypeOK, RunStatus
<1> QED
  BY <1>1, <1>2, <1>3, <1>4, <1>5, <1>6, <1>7, <1>8, <1>9, <1>10, <1>11, <1>12, <1>13, <1>14,
     <1>15, <1>16, <1>17, <1>18, <1>19
  DEF SessionNext, WorkerStep

\* Each phase leaves the session's state and the manager where the next expects
\* them: no transition the worker asks for is refused.
LEMMA PhasesKept ==
    ExecutorInv /\ ManagerTypeOK /\ ControlTypeOK /\ WorkerInv /\ [SessionNext]_sessionVars => PhaseInv'
<1> SUFFICES ASSUME ExecutorInv, ManagerTypeOK, ControlTypeOK, WorkerInv, [SessionNext]_sessionVars
             PROVE  PhaseInv'
  OBVIOUS
<1> USE DEF testVars, executorVars, resultVars, historyVars, managerVars, controlVars,
            Resting
<1>1. CASE Start
  BY <1>1, IdleHasNoWorker
  DEF Start, PhaseInv, SequencerInv, Before, WorkerInv, ControlTypeOK, WorkerLocation
<1>2. CASE CancelSession
  BY <1>2
  DEF CancelSession, Cancel, PhaseInv, SequencerInv, Before, WorkerInv, ControlTypeOK,
      WorkerLocation
<1>3. CASE Wait
  BY <1>3 DEF Wait, PhaseInv, SequencerInv, Before, WorkerInv, ControlTypeOK, WorkerLocation
<1>4. CASE PrepareRuntime
  BY <1>4
  DEF PrepareRuntime, InitializeAll, PhaseInv, SequencerInv, Before, WorkerInv, ControlTypeOK,
      WorkerLocation
<1>5. CASE InitializeInstruments
  BY <1>5
  DEF InitializeInstruments, InitializeStep, ShutdownStep, InstrumentInitialized,
      InstrumentInitFails, AllInitialized, ShutdownInstrument, AllShutDown, PhaseInv, SequencerInv,
      Before, WorkerInv, ControlTypeOK, WorkerLocation
<1>6. CASE CheckBeforeBind
  BY <1>6 DEF CheckBeforeBind, PhaseInv, SequencerInv, Before, WorkerInv, ControlTypeOK, WorkerLocation
<1>7. CASE BindCommands
  BY <1>7 DEF BindCommands, PhaseInv, SequencerInv, Before, WorkerInv, ControlTypeOK, WorkerLocation
<1>8. CASE Decide
  BY <1>8
  DEF Decide, NotRun, PhaseInv, SequencerInv, Before, WorkerInv, ControlTypeOK, WorkerLocation,
      TryTransition, IsAllowed
<1>9. CASE RunStep
  BY <1>9, SequencerEffects
  DEF RunStep, PhaseInv, SequencerInv, Before, WorkerInv, ControlTypeOK, WorkerLocation
<1>10. CASE RunReturns
  BY <1>10 DEF RunReturns, PhaseInv, SequencerInv, Before, WorkerInv, ControlTypeOK, WorkerLocation
<1>11. CASE EnterCancelling
  BY <1>11
  DEF EnterCancelling, PhaseInv, SequencerInv, Before, WorkerInv, ControlTypeOK, WorkerLocation,
      TryTransition, IsAllowed
<1>12. CASE EnterCleanup
  BY <1>12
  DEF EnterCleanup, PhaseInv, SequencerInv, Before, WorkerInv, ControlTypeOK, WorkerLocation,
      TryTransition, IsAllowed
<1>13. CASE ClearCommands
  BY <1>13
  DEF ClearCommands, ShutdownAll, PhaseInv, SequencerInv, Before, WorkerInv, ControlTypeOK,
      WorkerLocation
<1>14. CASE ShutdownInstruments
  BY <1>14
  DEF ShutdownInstruments, ShutdownStep, ShutdownInstrument, AllShutDown, PhaseInv, SequencerInv,
      Before, WorkerInv, ControlTypeOK, WorkerLocation
<1>15. CASE FinishRuntime
  BY <1>15 DEF FinishRuntime, PhaseInv, SequencerInv, Before, WorkerInv, ControlTypeOK, WorkerLocation
<1>16. CASE Conclude
  BY <1>16 DEF Conclude, PhaseInv, SequencerInv, Before, WorkerInv, ControlTypeOK, WorkerLocation
<1>17. CASE EnterTerminal
  BY <1>17
  DEF EnterTerminal, PhaseInv, SequencerInv, Before, WorkerInv, ControlTypeOK, WorkerLocation,
      TryTransition, IsAllowed, TerminalStateFor, TerminalState, ExecutorInv, TestTypeOK, RunStatus
<1>18. CASE PublishCompletion
  BY <1>18
  DEF PublishCompletion, PhaseInv, SequencerInv, Before, WorkerInv, ControlTypeOK, WorkerLocation
<1>19. CASE UNCHANGED sessionVars
  BY <1>19 DEF sessionVars, PhaseInv, SequencerInv, Before, WorkerInv, ControlTypeOK, WorkerLocation
<1> QED
  BY <1>1, <1>2, <1>3, <1>4, <1>5, <1>6, <1>7, <1>8, <1>9, <1>10, <1>11, <1>12, <1>13, <1>14,
     <1>15, <1>16, <1>17, <1>18, <1>19
  DEF SessionNext, WorkerStep

\* The sequencer begins on a full bench, and a run without it has not passed.
LEMMA SequencerKept ==
    ExecutorInv /\ ManagerTypeOK /\ ControlTypeOK /\ WorkerInv /\ [SessionNext]_sessionVars => SequencerInv'
<1> SUFFICES ASSUME ExecutorInv, ManagerTypeOK, ControlTypeOK, WorkerInv, [SessionNext]_sessionVars
             PROVE  SequencerInv'
  OBVIOUS
<1> USE DEF testVars, executorVars, resultVars, historyVars, managerVars, controlVars,
            Before, After, Concluded
<1>1. CASE Start
  BY <1>1, IdleHasNoWorker
  DEF Start, SequencerInv, PhaseInv, WorkerInv, ControlTypeOK, WorkerLocation, ManagerTypeOK
<1>2. CASE CancelSession
  BY <1>2
  DEF CancelSession, Cancel, SequencerInv, PhaseInv, WorkerInv, ControlTypeOK, WorkerLocation,
      ManagerTypeOK
<1>3. CASE Wait
  BY <1>3 DEF Wait, SequencerInv, PhaseInv, WorkerInv, ControlTypeOK, WorkerLocation, ManagerTypeOK
<1>4. CASE PrepareRuntime
  BY <1>4
  DEF PrepareRuntime, InitializeAll, SequencerInv, PhaseInv, WorkerInv, ControlTypeOK,
      WorkerLocation, ManagerTypeOK
<1>5. CASE InitializeInstruments
  BY <1>5
  DEF InitializeInstruments, InitializeStep, ShutdownStep, InstrumentInitialized,
      InstrumentInitFails, AllInitialized, ShutdownInstrument, AllShutDown, SequencerInv, PhaseInv,
      WorkerInv, ControlTypeOK, WorkerLocation, ManagerTypeOK
<1>6. CASE CheckBeforeBind
  BY <1>6
  DEF CheckBeforeBind, SequencerInv, PhaseInv, WorkerInv, ControlTypeOK, WorkerLocation,
      ManagerTypeOK
<1>7. CASE BindCommands
  BY <1>7
  DEF BindCommands, SequencerInv, PhaseInv, WorkerInv, ControlTypeOK, WorkerLocation, ManagerTypeOK
<1>8. CASE Decide
  BY <1>8
  DEF Decide, NotRun, SequencerInv, PhaseInv, WorkerInv, ControlTypeOK, WorkerLocation,
      ManagerTypeOK, DriverInv, NumUp, Instrument
<1>9. CASE RunStep
  BY <1>9, SequencerEffects
  DEF RunStep, SequencerInv, PhaseInv, WorkerInv, ControlTypeOK, WorkerLocation, ManagerTypeOK
<1>10. CASE RunReturns
  BY <1>10
  DEF RunReturns, SequencerInv, PhaseInv, WorkerInv, ControlTypeOK, WorkerLocation, ManagerTypeOK
<1>11. CASE EnterCancelling
  BY <1>11
  DEF EnterCancelling, SequencerInv, PhaseInv, WorkerInv, ControlTypeOK, WorkerLocation,
      ManagerTypeOK
<1>12. CASE EnterCleanup
  BY <1>12
  DEF EnterCleanup, SequencerInv, PhaseInv, WorkerInv, ControlTypeOK, WorkerLocation, ManagerTypeOK
<1>13. CASE ClearCommands
  BY <1>13
  DEF ClearCommands, ShutdownAll, SequencerInv, PhaseInv, WorkerInv, ControlTypeOK, WorkerLocation,
      ManagerTypeOK
<1>14. CASE ShutdownInstruments
  BY <1>14
  DEF ShutdownInstruments, ShutdownStep, ShutdownInstrument, AllShutDown, SequencerInv, PhaseInv,
      WorkerInv, ControlTypeOK, WorkerLocation, ManagerTypeOK
<1>15. CASE FinishRuntime
  BY <1>15
  DEF FinishRuntime, SequencerInv, PhaseInv, WorkerInv, ControlTypeOK, WorkerLocation,
      ManagerTypeOK
<1>16. CASE Conclude
  BY <1>16 DEF Conclude, SequencerInv, PhaseInv, WorkerInv, ControlTypeOK, WorkerLocation, ManagerTypeOK
<1>17. CASE EnterTerminal
  BY <1>17
  DEF EnterTerminal, SequencerInv, PhaseInv, WorkerInv, ControlTypeOK, WorkerLocation,
      ManagerTypeOK
<1>18. CASE PublishCompletion
  BY <1>18
  DEF PublishCompletion, SequencerInv, PhaseInv, WorkerInv, ControlTypeOK, WorkerLocation,
      ManagerTypeOK
<1>19. CASE UNCHANGED sessionVars
  BY <1>19
  DEF sessionVars, SequencerInv, PhaseInv, WorkerInv, ControlTypeOK, WorkerLocation, ManagerTypeOK
<1> QED
  BY <1>1, <1>2, <1>3, <1>4, <1>5, <1>6, <1>7, <1>8, <1>9, <1>10, <1>11, <1>12, <1>13, <1>14,
     <1>15, <1>16, <1>17, <1>18, <1>19
  DEF SessionNext, WorkerStep

\* Commands go before the drivers, the runtime after them, the completion last.
LEMMA ResourcesKept ==
    ExecutorInv /\ ManagerTypeOK /\ ControlTypeOK /\ WorkerInv /\ [SessionNext]_sessionVars => ResourceInv'
<1> SUFFICES ASSUME ExecutorInv, ManagerTypeOK, ControlTypeOK, WorkerInv, [SessionNext]_sessionVars
             PROVE  ResourceInv'
  OBVIOUS
<1> USE DEF testVars, executorVars, resultVars, historyVars, managerVars, controlVars,
            Concluded
<1>1. CASE Start
  BY <1>1, IdleHasNoWorker DEF Start, ResourceInv, PhaseInv, WorkerInv, ControlTypeOK, WorkerLocation
<1>2. CASE CancelSession
  BY <1>2 DEF CancelSession, Cancel, ResourceInv, PhaseInv, WorkerInv, ControlTypeOK, WorkerLocation
<1>3. CASE Wait
  BY <1>3 DEF Wait, ResourceInv, PhaseInv, WorkerInv, ControlTypeOK, WorkerLocation
<1>4. CASE PrepareRuntime
  BY <1>4
  DEF PrepareRuntime, InitializeAll, ResourceInv, PhaseInv, WorkerInv, ControlTypeOK,
      WorkerLocation
<1>5. CASE InitializeInstruments
  BY <1>5
  DEF InitializeInstruments, InitializeStep, ShutdownStep, InstrumentInitialized,
      InstrumentInitFails, AllInitialized, ShutdownInstrument, AllShutDown, ResourceInv, PhaseInv,
      WorkerInv, ControlTypeOK, WorkerLocation
<1>6. CASE CheckBeforeBind
  BY <1>6 DEF CheckBeforeBind, ResourceInv, PhaseInv, WorkerInv, ControlTypeOK, WorkerLocation
<1>7. CASE BindCommands
  BY <1>7 DEF BindCommands, ResourceInv, PhaseInv, WorkerInv, ControlTypeOK, WorkerLocation
<1>8. CASE Decide
  BY <1>8 DEF Decide, NotRun, ResourceInv, PhaseInv, WorkerInv, ControlTypeOK, WorkerLocation
<1>9. CASE RunStep
  BY <1>9, SequencerEffects DEF RunStep, ResourceInv, PhaseInv, WorkerInv, ControlTypeOK, WorkerLocation
<1>10. CASE RunReturns
  BY <1>10 DEF RunReturns, ResourceInv, PhaseInv, WorkerInv, ControlTypeOK, WorkerLocation
<1>11. CASE EnterCancelling
  BY <1>11 DEF EnterCancelling, ResourceInv, PhaseInv, WorkerInv, ControlTypeOK, WorkerLocation
<1>12. CASE EnterCleanup
  BY <1>12 DEF EnterCleanup, ResourceInv, PhaseInv, WorkerInv, ControlTypeOK, WorkerLocation
<1>13. CASE ClearCommands
  BY <1>13
  DEF ClearCommands, ShutdownAll, ResourceInv, PhaseInv, WorkerInv, ControlTypeOK, WorkerLocation
<1>14. CASE ShutdownInstruments
  BY <1>14
  DEF ShutdownInstruments, ShutdownStep, ShutdownInstrument, AllShutDown, ResourceInv, PhaseInv,
      WorkerInv, ControlTypeOK, WorkerLocation
<1>15. CASE FinishRuntime
  BY <1>15 DEF FinishRuntime, ResourceInv, PhaseInv, WorkerInv, ControlTypeOK, WorkerLocation
<1>16. CASE Conclude
  BY <1>16 DEF Conclude, ResourceInv, PhaseInv, WorkerInv, ControlTypeOK, WorkerLocation
<1>17. CASE EnterTerminal
  BY <1>17 DEF EnterTerminal, ResourceInv, PhaseInv, WorkerInv, ControlTypeOK, WorkerLocation
<1>18. CASE PublishCompletion
  BY <1>18 DEF PublishCompletion, ResourceInv, PhaseInv, WorkerInv, ControlTypeOK, WorkerLocation
<1>19. CASE UNCHANGED sessionVars
  BY <1>19 DEF sessionVars, ResourceInv, PhaseInv, WorkerInv, ControlTypeOK, WorkerLocation
<1> QED
  BY <1>1, <1>2, <1>3, <1>4, <1>5, <1>6, <1>7, <1>8, <1>9, <1>10, <1>11, <1>12, <1>13, <1>14,
     <1>15, <1>16, <1>17, <1>18, <1>19
  DEF SessionNext, WorkerStep

\* The failure kind keeps naming the phase that failed.
LEMMA KindsKept ==
    ExecutorInv /\ ManagerTypeOK /\ ControlTypeOK /\ WorkerInv /\ [SessionNext]_sessionVars => KindInv'
<1> SUFFICES ASSUME ExecutorInv, ManagerTypeOK, ControlTypeOK, WorkerInv, [SessionNext]_sessionVars
             PROVE  KindInv'
  OBVIOUS
<1> USE DEF testVars, executorVars, resultVars, historyVars, managerVars, controlVars,
            Concluded
<1>1. CASE Start
  BY <1>1, IdleHasNoWorker
  DEF Start, KindInv, PhaseInv, SequencerInv, ResourceInv, WorkerInv, ControlTypeOK, WorkerLocation
<1>2. CASE CancelSession
  BY <1>2
  DEF CancelSession, Cancel, KindInv, PhaseInv, SequencerInv, ResourceInv, WorkerInv,
      ControlTypeOK, WorkerLocation
<1>3. CASE Wait
  BY <1>3
  DEF Wait, KindInv, PhaseInv, SequencerInv, ResourceInv, WorkerInv, ControlTypeOK, WorkerLocation
<1>4. CASE PrepareRuntime
  BY <1>4
  DEF PrepareRuntime, InitializeAll, KindInv, PhaseInv, SequencerInv, ResourceInv, WorkerInv,
      ControlTypeOK, WorkerLocation
<1>5. CASE InitializeInstruments
  BY <1>5
  DEF InitializeInstruments, InitializeStep, ShutdownStep, InstrumentInitialized,
      InstrumentInitFails, AllInitialized, ShutdownInstrument, AllShutDown, KindInv, PhaseInv,
      SequencerInv, ResourceInv, WorkerInv, ControlTypeOK, WorkerLocation
<1>6. CASE CheckBeforeBind
  BY <1>6
  DEF CheckBeforeBind, KindInv, PhaseInv, SequencerInv, ResourceInv, WorkerInv, ControlTypeOK,
      WorkerLocation
<1>7. CASE BindCommands
  BY <1>7
  DEF BindCommands, KindInv, PhaseInv, SequencerInv, ResourceInv, WorkerInv, ControlTypeOK,
      WorkerLocation
<1>8. CASE Decide
  BY <1>8
  DEF Decide, NotRun, KindInv, PhaseInv, SequencerInv, ResourceInv, WorkerInv, ControlTypeOK,
      WorkerLocation, Before
<1>9. CASE RunStep
  BY <1>9, SequencerEffects
  DEF RunStep, KindInv, PhaseInv, SequencerInv, ResourceInv, WorkerInv, ControlTypeOK,
      WorkerLocation
<1>10. CASE RunReturns
  BY <1>10
  DEF RunReturns, KindInv, PhaseInv, SequencerInv, ResourceInv, WorkerInv, ControlTypeOK,
      WorkerLocation
<1>11. CASE EnterCancelling
  BY <1>11
  DEF EnterCancelling, KindInv, PhaseInv, SequencerInv, ResourceInv, WorkerInv, ControlTypeOK,
      WorkerLocation
<1>12. CASE EnterCleanup
  BY <1>12
  DEF EnterCleanup, KindInv, PhaseInv, SequencerInv, ResourceInv, WorkerInv, ControlTypeOK,
      WorkerLocation
<1>13. CASE ClearCommands
  BY <1>13
  DEF ClearCommands, ShutdownAll, KindInv, PhaseInv, SequencerInv, ResourceInv, WorkerInv,
      ControlTypeOK, WorkerLocation
<1>14. CASE ShutdownInstruments
  BY <1>14
  DEF ShutdownInstruments, ShutdownStep, ShutdownInstrument, AllShutDown, KindInv, PhaseInv,
      SequencerInv, ResourceInv, WorkerInv, ControlTypeOK, WorkerLocation
<1>15. CASE FinishRuntime
  BY <1>15
  DEF FinishRuntime, KindInv, PhaseInv, SequencerInv, ResourceInv, WorkerInv, ControlTypeOK,
      WorkerLocation
<1>16. CASE Conclude
  BY <1>16
  DEF Conclude, KindInv, PhaseInv, SequencerInv, ResourceInv, WorkerInv, ControlTypeOK,
      WorkerLocation
<1>17. CASE EnterTerminal
  BY <1>17
  DEF EnterTerminal, KindInv, PhaseInv, SequencerInv, ResourceInv, WorkerInv, ControlTypeOK,
      WorkerLocation
<1>18. CASE PublishCompletion
  BY <1>18
  DEF PublishCompletion, KindInv, PhaseInv, SequencerInv, ResourceInv, WorkerInv, ControlTypeOK,
      WorkerLocation
<1>19. CASE UNCHANGED sessionVars
  BY <1>19
  DEF sessionVars, KindInv, PhaseInv, SequencerInv, ResourceInv, WorkerInv, ControlTypeOK,
      WorkerLocation
<1> QED
  BY <1>1, <1>2, <1>3, <1>4, <1>5, <1>6, <1>7, <1>8, <1>9, <1>10, <1>11, <1>12, <1>13, <1>14,
     <1>15, <1>16, <1>17, <1>18, <1>19
  DEF SessionNext, WorkerStep

\* A session begins with nothing alive.
LEMMA SessionInvInit == SessionInit => SessionInv
<1> SUFFICES ASSUME SessionInit PROVE SessionInv
  OBVIOUS
<1> USE NumStepsAssumption, NumInstrumentsAssumption DEF SessionInit
<1>1. ExecutorInv
  BY ExecutorInvInit
<1>2. ManagerTypeOK /\ DriverInv
  <2>1. initOrder = << >> /\ initOrder \in Seq(Instrument) /\ Len(initOrder) = 0
    BY DEF ManagerInit
  <2>2. ManagerTypeOK
    <3>1. cursor \in 0 .. NumInstruments + 1
      BY DEF ManagerInit
    <3>2. initialized \in [Instrument -> BOOLEAN] /\ driver \in [Instrument -> DriverState]
      BY DEF ManagerInit, DriverState
    <3> QED
      BY <2>1, <3>1, <3>2 DEF ManagerInit, ManagerTypeOK, ManagerCall
  <2>3. NumUp = 0
    BY DEF ManagerInit, NumUp
  <2>4. \A i \in Instrument : ~initialized[i] /\ driver[i] = "absent" /\ ~(i <= 0)
    BY DEF ManagerInit, Instrument
  <2>5. DriverInv
    BY <2>1, <2>3, <2>4 DEF DriverInv, ManagerInit
  <2> QED
    BY <2>2, <2>5
<1>3. ControlTypeOK
  BY DEF ControlTypeOK, WorkerLocation, ExecutionState
<1>4. PhaseInv /\ ResourceInv
  BY DEF PhaseInv, ResourceInv, Concluded, ManagerInit
<1>5. SequencerInv /\ KindInv
  BY DEF SequencerInv, KindInv, After, Concluded, TestInit, ExecutorInit
<1> QED
  BY <1>1, <1>2, <1>3, <1>4, <1>5 DEF SessionInv, WorkerInv

\* The invariant of a whole session: the sequencer's and the worker's.
THEOREM SessionInvariant == SessionSpec => []SessionInv
<1>1. SessionInv /\ [SessionNext]_sessionVars => SessionInv'
  BY ExecutorKept, DriversKept, ControlTypeKept, PhasesKept, SequencerKept, ResourcesKept, KindsKept
  DEF SessionInv, WorkerInv
<1> QED
  BY <1>1, SessionInvInit, PTL DEF SessionSpec
-----------------------------------------------------------------------------
(* What a session promises.                                                *)

\* What the sequencer promises alone, it promises in a session that sets the
\* same fields before and after it: one late start at most, PASSED only when
\* every step passed, and a failure kind that agrees.
THEOREM SequencerPromisesHold ==
    SessionSpec => [](AtMostOneLateStart /\ PassedMeansAllPassed /\ RunStopsAtFatalStep
                        /\ RetryPolicyHonoured /\ FailureKindAgrees)
<1>1. ExecutorInv => /\ AtMostOneLateStart /\ PassedMeansAllPassed /\ RunStopsAtFatalStep
                     /\ RetryPolicyHonoured /\ FailureKindAgrees
  BY DEF ExecutorInv, LateInv, VerdictInv, RecordInv, Ended, Step, AtMostOneLateStart,
         PassedMeansAllPassed, FailureKindAgrees
<1> QED
  BY <1>1, SessionInvariant, PTL DEF SessionInv

\* ... and no command is called after a lost effect in any session.
THEOREM SessionNeverReplays == SessionSpec => NoReplayAfterLostEffect
<1>1. ASSUME SessionInv, SessionNext, effectLost PROVE started' = started
  <2>1. CASE RunStep
    <3>1. ~StartAttempt
      BY <1>1 DEF SessionInv, ExecutorInv, EffectInv, Ended, StartAttempt
    <3> QED
      BY <2>1, <3>1
      DEF RunStep, ExecutorStep, CheckCancellation, BeforeStep, CommandReturns, JudgeAttempt,
                        RetryDelay, CompleteStep, Summarise, historyVars
  <2>2. CASE ~RunStep
    BY <1>1, <2>2
    DEF SessionNext, WorkerStep, Start, CancelSession, Cancel, Wait, PrepareRuntime, InitializeInstruments,
        CheckBeforeBind, BindCommands, Decide, RunReturns, EnterCancelling, EnterCleanup, ClearCommands,
        ShutdownInstruments, FinishRuntime, Conclude, EnterTerminal, PublishCompletion, testVars, historyVars
  <2> QED
    BY <2>1, <2>2
<1>2. SessionInv /\ [SessionNext]_sessionVars => [effectLost => started' = started]_testVars
  BY <1>1 DEF sessionVars
<1> QED
  BY <1>2, SessionInvariant, PTL DEF SessionSpec, NoReplayAfterLostEffect

\* COMPLETED says that every step passed and that every instrument went down
\* without a complaint: a run that was given up has not passed, and a cleanup
\* that failed takes the verdict away (ExecutionSession.cpp).
THEOREM CompletedIsSafe == SessionSpec => []CompletedMeansPassedAndSafe
<1>1. ASSUME SessionInv PROVE CompletedMeansPassedAndSafe
  <2> SUFFICES ASSUME state = "Completed"
               PROVE  /\ Len(records) = NumSteps
                      /\ \A i \in Step : Succeeded(records[i].result)
                      /\ ~effectLost
                      /\ \A i \in Instrument : driver[i] = "down"
                      /\ ~cleanupFailed
    BY DEF CompletedMeansPassedAndSafe
  <2> USE <1>1 DEF SessionInv, WorkerInv
  <2>1. pc \in {"publish", "returned"} /\ manager = "closed" /\ runStatus = "Passed"
    BY DEF PhaseInv, ControlTypeOK, WorkerLocation, TerminalStateFor
  <2>2. at = "done"
    BY <2>1 DEF SequencerInv, After, Concluded
  <2>3. Len(records) = NumSteps /\ ~effectLost /\ \A i \in Step : Succeeded(records[i].result)
    BY <2>1, <2>2 DEF ExecutorInv, VerdictInv, Ended, Step
  <2>4. \A i \in Instrument : driver[i] = "down"
    BY <2>1, <2>2 DEF SequencerInv, DriverInv, NumUp, ManagerTypeOK, DriverState, Instrument
  <2>5. ~cleanupFailed
    BY <2>1 DEF KindInv, Concluded
  <2> QED
    BY <2>3, <2>4, <2>5
<1> QED
  BY <1>1, SessionInvariant, PTL

\* Nothing is alive behind a completion, and the state tells the verdict.
THEOREM CompletionIsLast == SessionSpec => []CompletionComesLast
<1>1. ASSUME SessionInv PROVE CompletionComesLast
  <2> USE <1>1 DEF SessionInv, WorkerInv
  <2>1. future \in {"ready", "taken"} => state = TerminalStateFor(runStatus) /\ completions = 1
    BY DEF ResourceInv, PhaseInv
  <2>2. ASSUME (state \in TerminalState /\ pc # "none") \/ completions = 1
        PROVE  bound = 0 /\ (\A i \in Instrument : driver[i] # "up") /\ runtime = "ended"
    <3>1. pc \in {"publish", "returned"}
      BY <2>2 DEF ResourceInv, PhaseInv, TerminalState, ControlTypeOK, WorkerLocation
    <3>2. manager = "closed" /\ bound = 0 /\ runtime = "ended"
      BY <3>1 DEF PhaseInv, ResourceInv, Concluded
    <3> QED
      BY <3>2 DEF DriverInv, NumUp, Instrument
  <2> QED
    BY <2>1, <2>2 DEF CompletionComesLast
<1> QED
  BY <1>1, SessionInvariant, PTL

\* The failure kind of a finished run names the phase that failed.
THEOREM KindNamesPhase == SessionSpec => []FailureKindNamesPhase
<1>1. SessionInv => FailureKindNamesPhase
  BY DEF SessionInv, WorkerInv, KindInv, SequencerInv, ExecutorInv, VerdictInv, Concluded,
         FailureKindNamesPhase
<1> QED
  BY <1>1, SessionInvariant, PTL

\* Commands are destroyed before any driver goes down, and the runtime's
\* session ends after all of them (ExecutionSession.cpp:308, 324).
THEOREM TeardownInOrder == SessionSpec => TeardownOrder
<1> DEFINE Ordered ==
      /\ \A i \in Instrument :
            driver[i] = "up" /\ driver'[i] = "down" => bound = 0 /\ runtime # "ended"
      /\ runtime # "ended" /\ runtime' = "ended" =>
            bound = 0 /\ \A i \in Instrument : driver[i] # "up"
<1>1. ASSUME SessionInv, SessionNext PROVE Ordered
  <2> USE <1>1 DEF SessionInv, WorkerInv
  <2>1. CASE InitializeInstruments
    BY <2>1 DEF InitializeInstruments, ResourceInv, Concluded
  <2>2. CASE ShutdownInstruments
    BY <2>2 DEF ShutdownInstruments, ResourceInv, Concluded
  <2>3. CASE FinishRuntime
    BY <2>3 DEF FinishRuntime, PhaseInv, ResourceInv, Concluded, DriverInv, NumUp, Instrument
  <2>4. CASE PrepareRuntime
    BY <2>4 DEF PrepareRuntime, InitializeAll, managerVars
  <2>5. CASE UNCHANGED <<driver, runtime>>
    BY <2>5
  <2>6. \/ InitializeInstruments \/ ShutdownInstruments \/ FinishRuntime \/ PrepareRuntime
        \/ UNCHANGED <<driver, runtime>>
    BY DEF SessionNext, WorkerStep, Start, CancelSession, Wait, CheckBeforeBind, BindCommands, Decide, NotRun,
           RunStep, RunReturns, EnterCancelling, EnterCleanup, ClearCommands, ShutdownAll, Conclude,
           EnterTerminal, PublishCompletion, managerVars, controlVars
  <2> QED
    BY <2>1, <2>2, <2>3, <2>4, <2>5, <2>6
<1>2. SessionInv /\ [SessionNext]_sessionVars => [Ordered]_sessionVars
  BY <1>1
<1> QED
  BY <1>2, SessionInvariant, PTL DEF SessionSpec, TeardownOrder
-----------------------------------------------------------------------------
(* The session implements BenchContract.                                   *)

\* A new session is an idle, dark bench.
LEMMA ContractInit == SessionInit => Contract!Init
BY DEF SessionInit, TestInit, ExecutorInit, ManagerInit, Contract!Init, Mode, Up, Acting, Instrument

\* The instruments that are up are the first NumUp.
LEMMA UpIsPrefix ==
    ASSUME DriverInv
    PROVE  Up = {i \in Instrument : i <= NumUp}
BY DEF DriverInv, Up

\* A step that only moves the session between phases of one mode.
LEMMA ContractStutters ==
    ASSUME Mode' = Mode, UNCHANGED <<driver, at, effectLost>>
    PROVE  UNCHANGED <<Mode, Up, Acting, effectLost>>
BY DEF Up, Acting

\* One turn of the shutdown loop powers off the last instrument that is up.
LEMMA TurnsOff ==
    ASSUME ManagerTypeOK, DriverInv, ShutdownInstrument,
           Mode = "closing", Mode' = "closing", UNCHANGED <<Acting, effectLost>>
    PROVE  \E i \in Up : Contract!PowerOff(i)
<1>1. cursor \in Instrument /\ NumUp = cursor /\ ShutdownTarget = cursor
  BY NumInstrumentsAssumption
  DEF ShutdownInstrument, ShutdownTarget, ManagerTypeOK, DriverInv, NumUp, Instrument
<1>2. Up = {i \in Instrument : i <= cursor}
  BY <1>1, UpIsPrefix
<1>3. cursor \in Up /\ \A j \in Up : j <= cursor
  BY <1>1, <1>2 DEF Instrument
<1>4. driver' = [driver EXCEPT ![cursor] = "down"]
  <2>1. initialized[cursor]
    BY <1>1 DEF DriverInv, Instrument
  <2> QED
    BY <1>1, <2>1 DEF ShutdownInstrument
<1>5. Up' = Up \ {cursor}
  BY <1>1, <1>4 DEF Up, ManagerTypeOK
<1> QED
  BY <1>3, <1>5 DEF Contract!PowerOff

\* A session that turns to its cleanup gives the bench up.
LEMMA Leaves ==
    ASSUME state \in {"Initializing", "Running", "Cancelling"}, state' \in {"Cancelling", "CleaningUp"},
           UNCHANGED <<manager, Up, Acting, effectLost>>, ~Acting
    PROVE  Contract!Next \/ UNCHANGED <<Mode, Up, Acting, effectLost>>
<1>1. Mode \in {"preparing", "serving", "closing"} /\ Mode' = "closing"
  BY DEF Mode, TerminalState
<1> QED
  BY <1>1 DEF Contract!Next, Contract!GiveUp

\* Every step of a session is one of the bench, or none.
LEMMA ContractStep ==
    SessionInv /\ SessionInv' /\ [SessionNext]_sessionVars => [Contract!Next]_(Contract!benchVars)
<1> SUFFICES ASSUME SessionInv, SessionInv', [SessionNext]_sessionVars
             PROVE  Contract!Next \/ UNCHANGED <<Mode, Up, Acting, effectLost>>
  BY DEF Contract!benchVars
<1> USE DEF SessionInv, WorkerInv
<1>1. CASE Start
  <2>1. pc = "none" /\ state = "Idle" /\ manager = "loaded"
    BY <1>1, IdleHasNoWorker DEF Start, PhaseInv
  <2>2. UNCHANGED <<driver, at, effectLost, manager>>
    BY <1>1 DEF Start, testVars, executorVars, historyVars, managerVars
  <2>3. Mode = "idle" /\ Mode' \in {"preparing", "closed"}
    BY <1>1, <2>1, <2>2 DEF Start, Mode, TerminalState
  <2>4. UNCHANGED <<Up, Acting, effectLost>>
    BY <2>2 DEF Up, Acting
  <2> QED
    BY <2>3, <2>4 DEF Contract!Next, Contract!Open, Contract!Refuse
<1>2. CASE CancelSession \/ Wait
  BY <1>2, ContractStutters
  DEF CancelSession, Cancel, Wait, Mode, testVars, executorVars, historyVars, managerVars, controlVars
<1>3. CASE PrepareRuntime
  BY <1>3, ContractStutters DEF PrepareRuntime, InitializeAll, PhaseInv, Mode, historyVars, managerVars
<1>4. CASE InitializeInstruments
  <2>1. pc = "initialize" /\ state = "Initializing"
    BY <1>4 DEF InitializeInstruments, PhaseInv
  <2>2. UNCHANGED <<state, at, effectLost, Acting>>
    BY <1>4 DEF InitializeInstruments, testVars, executorVars, historyVars, Acting
  <2>3. ~Acting
    BY <2>1 DEF Acting, SequencerInv, Before
  <2>4. CASE InstrumentInitialized
    <3>1. cursor \in Instrument /\ NumUp = cursor - 1 /\ manager' = "initializing" /\ manager = "initializing"
      BY <2>4, NumInstrumentsAssumption
      DEF InstrumentInitialized, ManagerTypeOK, DriverInv, NumUp, Instrument
    <3>2. Mode = "preparing" /\ Mode' = "preparing"
      BY <2>1, <2>2, <3>1 DEF Mode, TerminalState
    <3>3. Up = {j \in Instrument : j < cursor}
      BY <3>1, UpIsPrefix DEF Instrument
    <3>4. Up' = Up \cup {cursor}
      BY <2>4, <3>1 DEF InstrumentInitialized, Up, ManagerTypeOK
    <3>5. Contract!PowerOn(cursor)
      BY <2>2, <3>2, <3>3, <3>4 DEF Contract!PowerOn
    <3> QED
      BY <3>1, <3>5 DEF Contract!Next
  <2>5. CASE InstrumentInitFails
    <3>1. manager = "initializing" /\ manager' = "unwinding" /\ driver[cursor] = "absent" /\ cursor \in Instrument
      BY <2>5, NumInstrumentsAssumption DEF InstrumentInitFails, ManagerTypeOK, DriverInv, Instrument
    <3>2. Mode = "preparing" /\ Mode' = "closing"
      BY <2>1, <2>2, <3>1 DEF Mode, TerminalState
    <3>3. Up' = Up
      BY <2>5, <3>1 DEF InstrumentInitFails, Up, ManagerTypeOK
    <3> QED
      BY <2>2, <2>3, <3>2, <3>3 DEF Contract!Next, Contract!GiveUp
  <2>6. CASE ShutdownInstrument
    <3>1. manager = "unwinding" /\ manager' = "unwinding"
      BY <2>1, <2>6 DEF ShutdownInstrument, PhaseInv
    <3>2. Mode = "closing" /\ Mode' = "closing"
      BY <2>1, <2>2, <3>1 DEF Mode, TerminalState
    <3> QED
      BY <2>2, <2>6, <3>2, TurnsOff DEF Contract!Next
  <2>7. CASE AllShutDown
    <3>1. manager = "unwinding" /\ manager' = "failed" /\ UNCHANGED driver
      BY <2>1, <2>7 DEF AllShutDown, PhaseInv
    <3> QED
      BY <2>1, <2>2, <3>1, ContractStutters DEF Mode
  <2>8. CASE AllInitialized
    BY <2>1, <2>2, <2>8, ContractStutters DEF AllInitialized, Mode
  <2>9. CASE UNCHANGED managerVars
    BY <2>2, <2>9, ContractStutters DEF managerVars, Mode
  <2> QED
    BY <1>4, <2>4, <2>5, <2>6, <2>7, <2>8, <2>9 DEF InitializeInstruments, InitializeStep, ShutdownStep
<1>5. CASE CheckBeforeBind \/ BindCommands
  BY <1>5, ContractStutters
  DEF CheckBeforeBind, BindCommands, Mode, testVars, executorVars, historyVars, managerVars
<1>6. CASE Decide
  <2>1. CASE pc' = "leave"
    BY <1>6, <2>1, ContractStutters DEF Decide, NotRun, Mode, historyVars, managerVars
  <2>2. CASE pc' = "run"
    <3>1. /\ state = "Initializing" /\ state' = "Running" /\ manager = "ready" /\ at = "idle" /\ at' = "check"
          /\ ~effectLost
      BY <1>6, <2>2 DEF Decide, NotRun, PhaseInv, SequencerInv, Before, TryTransition, IsAllowed
    <3>2. UNCHANGED <<Up, effectLost>>
      BY <1>6 DEF Decide, historyVars, managerVars, Up
    <3>3. Up = Instrument
      <4>1. NumUp = NumInstruments
        BY <3>1 DEF NumUp
      <4>2. Up = {i \in Instrument : i <= NumUp}
        BY UpIsPrefix
      <4> QED
        BY <4>1, <4>2, NumInstrumentsAssumption DEF Instrument
    <3>4. Mode = "preparing" /\ Mode' = "serving" /\ UNCHANGED Acting
      BY <3>1, <3>2 DEF Mode, Acting, TerminalState
    <3> QED
      BY <3>2, <3>3, <3>4 DEF Contract!Next, Contract!Serve
  <2> QED
    BY <1>6, <2>1, <2>2 DEF Decide, NotRun
<1>7. CASE RunStep
  <2>1. state = "Running" /\ UNCHANGED <<state, manager, driver, Up>>
    BY <1>7 DEF RunStep, PhaseInv, managerVars, controlVars, Up
  <2>2. CASE StartAttempt
    <3>1. at = "attempt" /\ at' = "executing" /\ UNCHANGED effectLost /\ ~effectLost
      BY <2>2 DEF StartAttempt, ExecutorInv, EffectInv, Ended
    <3>2. Mode = "serving" /\ Mode' = "serving" /\ ~Acting /\ Acting'
      BY <2>1, <3>1 DEF Mode, Acting, TerminalState
    <3> QED
      BY <2>1, <3>1, <3>2 DEF Contract!Next, Contract!Act, Acting
  <2>3. CASE CommandReturns
    <3>1. at = "executing" /\ at' = "judge" /\ ~effectLost /\ effectLost \in BOOLEAN /\ effectLost' \in BOOLEAN
      BY <2>3 DEF CommandReturns, ExecutorInv, EffectInv, TestTypeOK, Ended
    <3>2. Mode = "serving" /\ Mode' = IF effectLost' THEN "closing" ELSE "serving"
      BY <2>1, <3>1 DEF Mode, TerminalState
    <3>3. Acting /\ Acting' = FALSE
      BY <3>1 DEF Acting
    <3>4. Contract!Rest
      <4>1. CASE effectLost'
        BY <2>1, <3>1, <3>2, <3>3, <4>1 DEF Contract!Rest
      <4>2. CASE ~effectLost'
        <5>1. UNCHANGED <<Mode, effectLost>>
          BY <3>1, <3>2, <4>2
        <5> QED
          BY <2>1, <3>3, <5>1 DEF Contract!Rest
      <4> QED
        BY <4>1, <4>2
    <3> QED
      BY <3>4 DEF Contract!Next
  <2>4. CASE ~StartAttempt /\ ~CommandReturns
    <3>1. at # "executing" /\ at' # "executing" /\ UNCHANGED effectLost
      BY <1>7, <2>4 DEF RunStep, ExecutorStep, CheckCancellation, CallOff, BeforeStep, JudgeAttempt,
                        RetryDelay, CompleteStep, Summarise, historyVars
    <3> QED
      BY <2>1, <3>1 DEF Mode, Acting
  <2> QED
    BY <2>2, <2>3, <2>4
<1>8. CASE RunReturns
  BY <1>8, ContractStutters DEF RunReturns, Mode, testVars, executorVars, historyVars, managerVars
<1>9. CASE EnterCancelling
  <2>1. UNCHANGED <<manager, Up, Acting, effectLost>> /\ ~Acting
    BY <1>9
    DEF EnterCancelling, testVars, executorVars, historyVars, managerVars, Up, Acting, SequencerInv
  <2>2. CASE state' = state
    BY <2>1, <2>2 DEF Mode
  <2>3. CASE state' = "Cancelling" /\ state \in {"Initializing", "Running"}
    BY <2>1, <2>3, Leaves
  <2> QED
    BY <1>9, <2>2, <2>3 DEF EnterCancelling, TryTransition
<1>10. CASE EnterCleanup
  <2>1. UNCHANGED <<manager, Up, Acting, effectLost>> /\ ~Acting
    BY <1>10
    DEF EnterCleanup, testVars, executorVars, historyVars, managerVars, Up, Acting, SequencerInv
  <2>2. state \in {"Initializing", "Running", "Cancelling"} /\ state' = "CleaningUp"
    BY <1>10 DEF EnterCleanup, PhaseInv, TryTransition, IsAllowed
  <2> QED
    BY <2>1, <2>2, Leaves
<1>11. CASE ClearCommands
  <2>1. state = "CleaningUp" /\ UNCHANGED <<state, driver, at, effectLost>>
    BY <1>11 DEF ClearCommands, ShutdownAll, PhaseInv, testVars, executorVars, historyVars
  <2> QED
    BY <2>1, ContractStutters DEF Mode
<1>12. CASE ShutdownInstruments
  <2>1. state = "CleaningUp" /\ UNCHANGED <<state, at, effectLost, Acting>>
    BY <1>12 DEF ShutdownInstruments, PhaseInv, testVars, executorVars, historyVars, Acting
  <2>2. Mode = "closing" /\ Mode' = "closing"
    BY <2>1 DEF Mode, TerminalState
  <2>3. CASE ShutdownInstrument
    BY <2>1, <2>2, <2>3, TurnsOff DEF Contract!Next
  <2>4. CASE UNCHANGED driver
    BY <2>1, <2>2, <2>4, ContractStutters
  <2> QED
    BY <1>12, <2>3, <2>4 DEF ShutdownInstruments, ShutdownStep, AllShutDown, managerVars
<1>13. CASE FinishRuntime \/ Conclude \/ PublishCompletion
  <2>1. UNCHANGED <<state, manager, driver, at, effectLost>>
    BY <1>13
    DEF FinishRuntime, Conclude, PublishCompletion, testVars, executorVars, historyVars,
        managerVars
  <2> QED
    BY <2>1, ContractStutters DEF Mode
<1>14. CASE EnterTerminal
  <2>1. state = "CleaningUp" /\ state' \in TerminalState /\ manager = "closed"
    BY <1>14 DEF EnterTerminal, PhaseInv, TryTransition, IsAllowed, TerminalStateFor, TerminalState
  <2>2. UNCHANGED <<Up, Acting, effectLost>>
    BY <1>14 DEF EnterTerminal, testVars, executorVars, historyVars, managerVars, Up, Acting
  <2>3. Up = {}
    BY <2>1, UpIsPrefix DEF NumUp, Instrument
  <2>4. Mode = "closing" /\ Mode' = "closed"
    BY <2>1 DEF Mode, TerminalState
  <2> QED
    BY <2>2, <2>3, <2>4 DEF Contract!Next, Contract!Close
<1>15. CASE UNCHANGED sessionVars
  BY <1>15, ContractStutters
  DEF sessionVars, testVars, executorVars, historyVars, managerVars, controlVars, Mode
<1> QED
  BY <1>1, <1>2, <1>3, <1>4, <1>5, <1>6, <1>7, <1>8, <1>9, <1>10, <1>11, <1>12, <1>13, <1>14, <1>15
  DEF SessionNext, WorkerStep

\* The session keeps the contract of its bench, whatever fails inside it.
THEOREM KeepsItsContract == SessionSpec => KeepsContract
<1>1. SessionInit => Contract!Init
  BY ContractInit
<1>2. SessionInv /\ SessionInv' /\ [SessionNext]_sessionVars => [Contract!Next]_(Contract!benchVars)
  BY ContractStep
<1> QED
  BY <1>1, <1>2, SessionInvariant, PTL DEF SessionSpec, KeepsContract, Contract!Spec
-----------------------------------------------------------------------------
(* What the contract alone guarantees: the reasons a session is shown to   *)
(* implement it. These proofs look at the contract's own actions only.     *)

\* Acting needs a serving bench, serving needs every instrument, a closed bench
\* has none, and a bench with a lost effect is on its way out.
BenchInv ==
    /\ Contract!BenchTypeOK
    /\ Acting => Mode = "serving"
    /\ Mode = "serving" => Up = Instrument
    /\ Mode \in {"idle", "closed"} => Up = {}
    /\ effectLost => Mode \in {"closing", "closed"}

\* An idle, dark bench satisfies the invariant.
LEMMA BenchInvInit == Contract!Init => BenchInv
  BY DEF Contract!Init, BenchInv, Contract!BenchTypeOK, Contract!Modes

\* Every step the contract allows keeps the invariant.
LEMMA BenchInvStep == BenchInv /\ [Contract!Next]_(Contract!benchVars) => BenchInv'
<1> SUFFICES ASSUME BenchInv, [Contract!Next]_(Contract!benchVars) PROVE BenchInv'
  OBVIOUS
<1> USE DEF BenchInv, Contract!BenchTypeOK, Contract!Modes
<1>1. CASE Contract!Open \/ Contract!Refuse
  BY <1>1 DEF Contract!Open, Contract!Refuse
<1>2. CASE Contract!Serve
  BY <1>2 DEF Contract!Serve
<1>3. CASE Contract!Act
  BY <1>3 DEF Contract!Act
<1>4. CASE Contract!Rest
  <2>1. Acting' = FALSE /\ Up' = Up /\ Mode = "serving" /\ Up = Instrument
    BY <1>4 DEF Contract!Rest
  <2>2. CASE UNCHANGED <<Mode, effectLost>>
    BY <2>1, <2>2
  <2>3. CASE Mode' = "closing" /\ effectLost' = TRUE
    BY <2>1, <2>3
  <2>4. QED
    BY <1>4, <2>2, <2>3 DEF Contract!Rest
<1>5. CASE Contract!GiveUp \/ Contract!Close
  BY <1>5 DEF Contract!GiveUp, Contract!Close
<1>6. ASSUME NEW i \in Instrument, Contract!PowerOn(i) PROVE BenchInv'
  BY <1>6 DEF Contract!PowerOn
<1>7. ASSUME NEW i \in Up, Contract!PowerOff(i) PROVE BenchInv'
  BY <1>7 DEF Contract!PowerOff
<1>8. CASE UNCHANGED Contract!benchVars
  BY <1>8 DEF Contract!benchVars
<1>9. QED
  BY <1>1, <1>2, <1>3, <1>4, <1>5, <1>6, <1>7, <1>8 DEF Contract!Next

\* Numbered instruments come up in order and go down in the reverse order.
LEMMA PowerOrderStep ==
    ASSUME BenchInv, Contract!PoweredInOrder, [Contract!Next]_(Contract!benchVars)
    PROVE  Contract!PoweredInOrder'
<1> USE DEF Instrument
<1>1. ASSUME NEW i \in Instrument, Contract!PowerOn(i) PROVE Contract!PoweredInOrder'
  BY <1>1, NumInstrumentsAssumption DEF Contract!PowerOn, Contract!PoweredInOrder
<1>2. ASSUME NEW i \in Up, Contract!PowerOff(i) PROVE Contract!PoweredInOrder'
  <2> SUFFICES ASSUME NEW k \in Instrument, NEW j \in Instrument, k \in Up', j < k PROVE j \in Up'
    BY DEF Contract!PoweredInOrder
  <2>1. k \in Up /\ j \in Up /\ k <= i /\ k # i /\ i \in Int /\ Up' = Up \ {i}
    BY <1>2, NumInstrumentsAssumption
    DEF Contract!PowerOff, Contract!PoweredInOrder, BenchInv, Contract!BenchTypeOK
  <2>2. QED
    BY <2>1
<1>3. CASE UNCHANGED Up
  BY <1>3 DEF Contract!PoweredInOrder
<1>4. QED
  BY <1>1, <1>2, <1>3
  DEF Contract!Next, Contract!Open, Contract!Refuse, Contract!Serve, Contract!Act, Contract!Rest,
      Contract!GiveUp, Contract!Close, Contract!benchVars

\* Whoever keeps the contract satisfies the invariant.
LEMMA BenchInvariant == Contract!Spec => []BenchInv
  BY BenchInvInit, BenchInvStep, PTL DEF Contract!Spec

\* Whoever keeps the contract never acts on a bench that is not fully up, and
\* never ends with an instrument up.
THEOREM BenchIsSafe == Contract!Spec => [](Contract!ActsOnPoweredBench /\ Contract!ClosedIsDark)
<1>1. BenchInv => Contract!ActsOnPoweredBench /\ Contract!ClosedIsDark
  BY DEF BenchInv, Contract!ActsOnPoweredBench, Contract!ClosedIsDark
<1>2. QED
  BY <1>1, BenchInvariant, PTL

\* ... and never acts again once an effect could not be confirmed.
THEOREM LostEffectEndsActing == Contract!Spec => Contract!LossIsFinal
<1>1. BenchInv /\ [Contract!Next]_(Contract!benchVars) => [effectLost => ~Acting']_(Contract!benchVars)
  <2> SUFFICES ASSUME BenchInv, Contract!Next, effectLost PROVE ~Acting'
    BY DEF Contract!benchVars
  <2>1. ~Acting /\ Mode \in {"closing", "closed"}
    BY DEF BenchInv
  <2>2. QED
    BY <2>1
    DEF Contract!Next, Contract!Open, Contract!Refuse, Contract!PowerOn, Contract!Serve, Contract!Act,
        Contract!Rest, Contract!GiveUp, Contract!PowerOff, Contract!Close
<1>2. QED
  BY <1>1, BenchInvariant, PTL DEF Contract!Spec, Contract!LossIsFinal

\* ... and never has an instrument up without the ones before it.
THEOREM BenchPowersInOrder == Contract!Spec => []Contract!PoweredInOrder
<1>1. Contract!Init => Contract!PoweredInOrder
  BY DEF Contract!Init, Contract!PoweredInOrder
<1>2. BenchInv /\ Contract!PoweredInOrder /\ [Contract!Next]_(Contract!benchVars) => Contract!PoweredInOrder'
  BY PowerOrderStep
<1>3. QED
  BY <1>1, <1>2, BenchInvariant, PTL DEF Contract!Spec

\* A session, whatever fails inside it: commands act only while every instrument
\* is up, it ends dark, nothing acts after a lost effect, and no instrument is up
\* without the ones before it.
THEOREM SessionKeepsBenchSafe ==
    SessionSpec => /\ [](Contract!ActsOnPoweredBench /\ Contract!ClosedIsDark)
                   /\ Contract!LossIsFinal
                   /\ []Contract!PoweredInOrder
BY KeepsItsContract, BenchIsSafe, LostEffectEndsActing, BenchPowersInOrder DEF KeepsContract
=============================================================================
