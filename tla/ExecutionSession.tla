-------------------------- MODULE ExecutionSession --------------------------
(***************************************************************************)
(* ExecutionSession: one run of a compiled plan on a worker thread of its  *)
(* own.  The worker prepares the runtime, initializes the instruments,     *)
(* binds the commands, runs the sequencer, and always cleans up: commands  *)
(* first, then instruments, then the runtime.  The host starts, cancels    *)
(* and joins it from other threads.                                        *)
(*                                                                         *)
(* The module composes TestExecutor and InstrumentManager: their actions   *)
(* are steps of the worker.                                                *)
(***************************************************************************)
EXTENDS TestExecutor, InstrumentManager

VARIABLES
    state,          \* ExecutionStateMachine::m_state
    pc,             \* where the worker (RunWorker) stands
    future,         \* m_future and m_result, as the host sees them
    bound,          \* command instances alive: pending in BindCommands, then m_steps
    initialization, \* the OperationResult of the preparation
    runtime,        \* external: BeginSession and EndSession of the runtime
    completions     \* history: RunCompleted events published

controlVars == <<state, pc, future, bound, initialization, runtime, completions>>
runVars     == <<policy, executorVars, historyVars>>
sessionVars == <<testVars, managerVars, controlVars>>

WorkerLocation == {"none", "prepare", "initialize", "bindCheck", "bind", "decide", "run",
                   "leave", "enterCleanup", "clear", "shutdown", "finish", "verdict",
                   "terminal", "publish", "returned"}

SessionInit ==
    /\ TestInit
    /\ ManagerInit
    /\ state = "Idle"
    /\ pc = "none"
    /\ future = "invalid"
    /\ bound = 0
    /\ initialization = "succeeded"
    /\ runtime = "closed"
    /\ completions = 0

-----------------------------------------------------------------------------
(* The host's threads.                                                     *)

\* Start: INITIALIZING, then the worker is launched, or the launch throws and
\* the session passes through CLEANING_UP to FAILED without a worker.
Start ==
    /\ IsAllowed(state, "Initializing")
    /\ \/ /\ state' = "Initializing"
          /\ pc' = "prepare"
          /\ future' = "running"
       \/ /\ state' = "Failed"
          /\ UNCHANGED <<pc, future>>
    /\ UNCHANGED <<testVars, managerVars, bound, initialization, runtime, completions>>

\* Cancel and the first half of the destructor: only the token is signalled.
CancelSession == Cancel /\ UNCHANGED <<managerVars, controlVars>>

\* Wait: the future is consumed and the result kept.
Wait ==
    /\ future = "ready"
    /\ future' = "taken"
    /\ UNCHANGED <<testVars, managerVars, state, pc, bound, initialization, runtime, completions>>
-----------------------------------------------------------------------------
(* The worker.                                                             *)

\* prepareRuntime: BeginSession, Activate and LoadDefinitions.  It succeeds,
\* reports a failure, or throws; the runtime's session may be open even so.
PrepareRuntime ==
    /\ pc = "prepare"
    /\ \/ /\ pc' = "initialize"
          /\ runtime' = "open"
          /\ InitializeAll
          /\ UNCHANGED <<initialization, runStatus, failureKind>>
       \/ /\ pc' = "decide"
          /\ initialization' = "failed"
          /\ runtime' \in {"closed", "open"}
          /\ UNCHANGED <<managerVars, runStatus, failureKind>>
       \/ /\ pc' = "leave"
          /\ runStatus' = "Error"
          /\ failureKind' = "Internal"
          /\ runtime' \in {"closed", "open"}
          /\ UNCHANGED <<managerVars, initialization>>
    /\ UNCHANGED <<policy, cancelRequested, at, index, attempt, attemptResult, resultVars,
                   historyVars, state, future, bound, completions>>

\* InitializeAll, one instrument at a time, and its unwinding when one fails.
InitializeInstruments ==
    /\ pc = "initialize"
    /\ \/ (InitializeStep \/ ShutdownStep) /\ UNCHANGED <<pc, initialization>>
       \/ manager = "ready" /\ pc' = "bindCheck" /\ UNCHANGED <<managerVars, initialization>>
       \/ /\ manager = "failed"
          /\ pc' = "decide"
          /\ initialization' = "failed"
          /\ UNCHANGED managerVars
    /\ UNCHANGED <<testVars, state, future, bound, runtime, completions>>

\* Commands are bound only if no cancellation is requested by now.
CheckBeforeBind ==
    /\ pc = "bindCheck"
    /\ pc' = IF IsCancellationRequested THEN "decide" ELSE "bind"
    /\ UNCHANGED <<testVars, managerVars, state, future, bound, initialization, runtime, completions>>

\* BindCommands: create, configure and validate the commands in order.  The
\* first failure, or exception, destroys the pending ones.
BindCommands ==
    /\ pc = "bind"
    /\ \/ /\ bound < NumSteps
          /\ bound' = bound + 1
          /\ UNCHANGED <<pc, initialization, runStatus, failureKind>>
       \/ /\ bound < NumSteps
          /\ bound' = 0
          /\ pc' = "decide"
          /\ initialization' = "failed"
          /\ UNCHANGED <<runStatus, failureKind>>
       \/ /\ bound < NumSteps
          /\ bound' = 0
          /\ pc' = "leave"
          /\ runStatus' = "Error"
          /\ failureKind' = "Internal"
          /\ UNCHANGED initialization
       \/ /\ bound = NumSteps
          /\ pc' = "decide"
          /\ UNCHANGED <<bound, initialization, runStatus, failureKind>>
    /\ UNCHANGED <<policy, cancelRequested, at, index, attempt, attemptResult, resultVars,
                   historyVars, managerVars, state, future, runtime, completions>>

\* The run is given up before it began: run.status and failureKind are set.
NotRun(status, kind) ==
    /\ runStatus' = status
    /\ failureKind' = kind
    /\ pc' = "leave"
    /\ UNCHANGED <<at, state>>

\* After the preparation: a failure first, then the cancellation, else RUNNING
\* and the sequencer.  The transition is accepted: only the worker moves the
\* state machine, and it stands at INITIALIZING.
Decide ==
    /\ pc = "decide"
    /\ \/ initialization = "failed" /\ NotRun("Error", "Initialization")
       \/ initialization = "succeeded" /\ IsCancellationRequested /\ NotRun("Cancelled", "Execution")
       \/ /\ initialization = "succeeded"
          /\ ~IsCancellationRequested
          /\ state' = TryTransition(state, "Running")
          /\ pc' = "run"
          /\ at' = "check"
          /\ UNCHANGED <<runStatus, failureKind>>
    /\ UNCHANGED <<policy, cancelRequested, index, attempt, attemptResult, resultVars, historyVars,
                   managerVars, future, bound, initialization, runtime, completions>>

\* One step of the sequencer.
RunStep ==
    /\ pc = "run"
    /\ ExecutorStep
    /\ UNCHANGED <<managerVars, controlVars>>

\* The sequencer returned.
RunReturns ==
    /\ pc = "run"
    /\ at = "done"
    /\ pc' = "leave"
    /\ UNCHANGED <<testVars, managerVars, state, future, bound, initialization, runtime, completions>>

\* A cancelled run passes through CANCELLING.
EnterCancelling ==
    /\ pc = "leave"
    /\ pc' = "enterCleanup"
    /\ state' = IF runStatus = "Cancelled" /\ state \in {"Initializing", "Running"}
                THEN TryTransition(state, "Cancelling") ELSE state
    /\ UNCHANGED <<testVars, managerVars, future, bound, initialization, runtime, completions>>

EnterCleanup ==
    /\ pc = "enterCleanup"
    /\ pc' = "clear"
    /\ state' = IF state \in {"Initializing", "Running", "Cancelling"}
                THEN TryTransition(state, "CleaningUp") ELSE state
    /\ UNCHANGED <<testVars, managerVars, future, bound, initialization, runtime, completions>>

\* Fault: the commands outlive the drivers they lease.
FaultyClearCommands ==
    /\ pc = "clear"
    /\ pc' = "shutdown"
    /\ ShutdownAll
    /\ UNCHANGED <<testVars, state, future, bound, initialization, runtime, completions>>

\* m_steps.clear(), then ShutdownAll is entered.
ClearCommands ==
    /\ pc = "clear"
    /\ pc' = "shutdown"
    /\ bound' = 0
    /\ ShutdownAll
    /\ UNCHANGED <<testVars, state, future, initialization, runtime, completions>>

\* ShutdownAll, one instrument at a time.
ShutdownInstruments ==
    /\ pc = "shutdown"
    /\ \/ ShutdownStep /\ UNCHANGED pc
       \/ manager = "closed" /\ pc' = "finish" /\ UNCHANGED managerVars
    /\ UNCHANGED <<testVars, state, future, bound, initialization, runtime, completions>>

\* finishRuntime: EndSession is attempted whatever happened before; it
\* reports a failure or throws, which both count as a failed cleanup.
FinishRuntime ==
    /\ pc = "finish"
    /\ pc' = "verdict"
    /\ runtime' = "ended"
    /\ \E failed \in BOOLEAN : cleanupFailed' = (cleanupFailed \/ failed)
    /\ UNCHANGED <<testVars, manager, initialized, initOrder, cursor, driver, state, future,
                   bound, initialization, completions>>

\* Fault: a failed cleanup only degrades a run that had passed.
FaultyConclude ==
    /\ pc = "verdict"
    /\ pc' = "terminal"
    /\ IF cleanupFailed /\ runStatus = "Passed"
       THEN runStatus' = "Error" /\ failureKind' = "Cleanup"
       ELSE UNCHANGED <<runStatus, failureKind>>
    /\ UNCHANGED <<policy, cancelRequested, at, index, attempt, attemptResult, resultVars,
                   historyVars, managerVars, state, future, bound, initialization, runtime, completions>>

\* A failed cleanup overrides the verdict: the equipment cannot be assumed safe.
Conclude ==
    /\ pc = "verdict"
    /\ pc' = "terminal"
    /\ IF cleanupFailed
       THEN runStatus' = "Error" /\ failureKind' = "Cleanup"
       ELSE UNCHANGED <<runStatus, failureKind>>
    /\ UNCHANGED <<policy, cancelRequested, at, index, attempt, attemptResult, resultVars,
                   historyVars, managerVars, state, future, bound, initialization, runtime, completions>>

\* Fault: the terminal state is the one the sequencer's outcome suggested,
\* published before the cleanup had its say.
FaultyEnterTerminal ==
    /\ pc = "terminal"
    /\ pc' = "publish"
    /\ state' = TryTransition(state, IF failureKind = "Cleanup" THEN "Completed"
                                     ELSE TerminalStateFor(runStatus))
    /\ UNCHANGED <<testVars, managerVars, future, bound, initialization, runtime, completions>>

EnterTerminal ==
    /\ pc = "terminal"
    /\ pc' = "publish"
    /\ state' = TryTransition(state, TerminalStateFor(runStatus))
    /\ UNCHANGED <<testVars, managerVars, future, bound, initialization, runtime, completions>>

\* The one RunCompleted event, the sequencer's own having been filtered out by
\* SessionEventSink; then RunWorker returns and the future becomes ready.
PublishCompletion ==
    /\ pc = "publish"
    /\ pc' = "returned"
    /\ completions' = completions + 1
    /\ future' = "ready"
    /\ UNCHANGED <<testVars, managerVars, state, bound, initialization, runtime>>

WorkerStep ==
    \/ PrepareRuntime
    \/ InitializeInstruments
    \/ CheckBeforeBind
    \/ BindCommands
    \/ Decide
    \/ RunStep
    \/ RunReturns
    \/ EnterCancelling
    \/ EnterCleanup
    \/ ClearCommands
    \/ ShutdownInstruments
    \/ FinishRuntime
    \/ Conclude
    \/ EnterTerminal
    \/ PublishCompletion

SessionNext == Start \/ CancelSession \/ Wait \/ WorkerStep

SessionSpec == SessionInit /\ [][SessionNext]_sessionVars

\* The worker is a thread of its own that nothing parks for good: extension
\* calls, host callbacks and waits it makes are bounded by contract.
SessionFairSpec == SessionSpec /\ WF_sessionVars(WorkerStep)
-----------------------------------------------------------------------------
SessionTypeOK ==
    /\ TestTypeOK
    /\ ManagerTypeOK
    /\ state \in ExecutionState
    /\ pc \in WorkerLocation
    /\ future \in {"invalid", "running", "ready", "taken"}
    /\ bound \in 0 .. NumSteps
    /\ initialization \in {"succeeded", "failed"}
    /\ runtime \in {"closed", "open", "ended"}
    /\ completions \in 0 .. 1

\* COMPLETED is a statement about the equipment as well as about the steps:
\* all steps passed, no effect is unconfirmed, and every instrument that came
\* up was shut down without a complaint.
CompletedMeansPassedAndSafe ==
    state = "Completed" =>
        /\ Len(records) = NumSteps
        /\ \A i \in Step : Succeeded(records[i].result)
        /\ ~effectLost
        /\ \A i \in Instrument : driver[i] = "down"
        /\ ~cleanupFailed

\* Nothing of a session is alive once its completion is published or a
\* terminal state can be observed: no command, no driver, no runtime session;
\* and the state, moved by transitions whose refusal is ignored, is the one
\* the final verdict stands for.
CompletionComesLast ==
    /\ future \in {"ready", "taken"} => state = TerminalStateFor(runStatus) /\ completions = 1
    /\ (state \in TerminalState /\ pc # "none") \/ completions = 1 =>
        /\ bound = 0
        /\ \A i \in Instrument : driver[i] # "up"
        /\ runtime = "ended"

\* The failure kind of a finished run names the phase that really failed.
FailureKindNamesPhase ==
    pc = "returned" =>
        /\ failureKind = "Cleanup" <=> cleanupFailed
        /\ failureKind = "Initialization" => initialization = "failed" /\ started = 0
        /\ failureKind = "None" <=> runStatus = "Passed"
        /\ failureKind \in {"Initialization", "Cleanup", "Internal"} => runStatus = "Error"

\* Commands are destroyed before any driver goes down, and the runtime's
\* session ends after all of them (ExecutionSession.cpp:308, 324).
TeardownOrder ==
    [][/\ \A i \in Instrument :
             driver[i] = "up" /\ driver'[i] = "down" => bound = 0 /\ runtime # "ended"
       /\ runtime # "ended" /\ runtime' = "ended" =>
             bound = 0 /\ \A i \in Instrument : driver[i] # "up"]_sessionVars

\* A started session always ends, whatever fails in it, and a host that waits
\* for it gets its result.
SessionEnds == (pc = "prepare") ~> (future \in {"ready", "taken"})
-----------------------------------------------------------------------------
\* The session as BenchContract sees it.
Up == {i \in Instrument : driver[i] = "up"}

Acting == at = "executing"

Mode ==
    IF state = "Idle" THEN "idle"
    ELSE IF state \in TerminalState THEN "closed"
    ELSE IF state = "Initializing" /\ manager \in {"loaded", "initializing", "ready"} THEN "preparing"
    ELSE IF state = "Running" /\ ~effectLost THEN "serving"
    ELSE "closing"

Contract == INSTANCE BenchContract WITH
    Instruments <- Instrument, mode <- Mode, up <- Up, acting <- Acting, lost <- effectLost

\* Whatever fails inside it, a session keeps the promise of BenchContract.
KeepsContract == Contract!Spec
=============================================================================
