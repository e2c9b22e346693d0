# Verification of ARTestCLI: models, checks and proofs

ARTestCLI runs hardware test plans. `ARTestEngine.dll` compiles a plan against
a catalog of extension components, runs it on a worker thread of its own, and
drives instruments and commands through extension packages, native DLLs or
Python worker processes. The CLI is a host of its C API. `ARTestDev` is the
developer tool: it builds, inspects and validates extension projects and
integrates their packages into installation profiles.

This directory holds TLA+ modules of the parts that decide whether a bench is
driven safely and whether a tool that is killed leaves a usable disk, TLC
configurations that check them, and TLAPS proofs of their main properties.
Every definition translates C++ or Python source; comments in the modules name
it.

## Inventory

Paths are under `src/source/`. "Hard" is what makes a part hard to test.

| Component | State | Operations | Hard | What makes it correct |
|---|---|---|---|---|
| Test sequencer, `ARTestEngine.Core/Execution/TestExecutor.cpp` | step and attempt, records, verdict, failure kind, summary | `Execute` | cancellation between any two lines, expired attempts, unconfirmed effects, a throwing execution control | no replay of a lost effect; at most one late attempt; a PASSED run is earned; retries follow the policy; it ends |
| Execution session, `ExecutionSession.cpp`, `ExecutionStateMachine.cpp` | life-cycle state, future, bound commands | `Start`, `Cancel`, `Wait`, `WaitFor`, worker | failures of every phase and of the clean-up, cancellation during preparation | everything that came up goes down, in order, before the end is observable; the verdict tells about the equipment too |
| Instrument manager and adapter, `Instruments/InstrumentManager.cpp`, `Extensions/ComponentAdapters.cpp` | initialized flags, initialization order | `InitializeAll`, `ShutdownAll` | an instrument failing half-way | reverse order, nothing left up |
| Cancellation, `Cancellation.cpp`, `WaitCommand.cpp` | atomic flag, mutex, condition variable, deadlines | `Cancel`, `WaitFor`, `WithTimeout` | lost and spurious wake-ups, deadline against request | a wait's outcome is true; every wait ends |
| Event hub, `ARTestEngine/Api/EngineEvents.h` | subscribers | `Subscribe`, `Unsubscribe`, `Publish` | subscriptions changing during a publication | ordered, once, nobody missed |
| Engine API, `ARTestEngine/Api/*.cpp` | catalog revision, active and loading marks, lease, plan and session handles | prepare, refresh, compile, start, wait, destroy | several host threads, stale plans, an activation outside the lock | a session runs what its plan was compiled against; one session at a time |
| Extension runtime, `Extensions/ExtensionRuntime.cpp`, `NativeInvocation.cpp`, `NativeServiceBroker.h`, `ComponentAdapters.cpp` | components, services, call stack, the scope of the root invocation | create, invoke, register a service, resolve and call it, shut down, drop | nested calls between components of different kinds, effects lost inside them | a lost effect is reported at the root and stops all further work but the shutdowns |
| Worker supervision, `ARTestEngine.Process/WorkerSupervisor.cpp` | worker state, call stack, correlations, deadlines | `Start`, `Call`, `Pump`, `Stop`, `Abort` | a cancellation crossing a response, nested deadlines, requests read while another is served, a dying worker | every call is answered once; a late message never answers another call |
| Python host and runtime, `ARTest.Python/artest_host/worker.py`, `Extensions/PythonRuntime.cpp` | calls, cancelled set, tombstones, components | accept, dispatch, service | the other side of the above | the same |
| Registration store and integration driver, `ARTestDev/RegistrationStore.cpp`, `IntegrationService.cpp` | catalog, candidate and backup trees, two configuration files, the shared `installations.json`, journal, cursor, archive | `recover`, `stage`, `promote`, `commit`, `integrate` | a crash or a failing step between any two renames, in the recovery too; two profiles over one `installations.json` | recovery is never ambiguous; a profile is integrated whole or not at all; no content is lost |
| Native outputs and retention, `ARTestDev/NativeOutputs.cpp`, `NativeRetention.cpp` | output trees, scratch directories with seals, incremental cache, transaction and retirement journals | build, inspect, validate, clean, recover, prune | the same, and inputs edited during a build, objects of an interrupted compilation reused, a compiler that outlives the tool | the output is one completed build's, of the inputs its record names; scratch has an owner |
| Process supervision, `ARTestDev/TreeProcess.cpp` | the child's job, status, timers | `start`, `stop`, `tick`, `Native::run` | a root that ends before its children, a termination that is not confirmed, limits that race an exit | nothing goes on while a child may still write; every run ends |
| Parser, compiler, schemas, registries | none across calls | pure functions | many inputs | unit tests |
| Extension discovery and integrity | none across calls | file I/O, hashing | many inputs | unit tests |
| CLI | none that outlives a command | console and file I/O | Ctrl+C at the end of a run, see below | unit tests |
| Developer tool's other commands, SDK, samples, scripts | none that outlives a command | scaffolding, forms, packaging | - | unit tests |

**Interactions.** A host thread calls the API. `StartSessionInternal` takes the
engine's lease and starts an `ExecutionSession`; its worker thread activates
the catalog, creates and initializes the instruments, binds the commands, runs
the `TestExecutor` and cleans up. The host cancels through the
`CancellationSource` and joins through the future. Every part publishes events
through the hub, whose callbacks run on the publishing thread. Commands and
drivers reach extensions through the runtime; a component may call the services
of others, through the broker if it is native and through the supervisor's pipe
if it is Python. The developer tool shares no process with the engine: each
operation is a process that takes a lock file, recovers what an earlier one
left, and works on disk.

## Modules

| Module | Models | Role |
|---|---|---|
| `RunTypes` | statuses, life-cycle transitions, pure functions on them | vocabulary |
| `TestExecutor` | `TestExecutor::Execute` | component |
| `InstrumentManager` | `InstrumentManager` with `ExtensionInstrumentAdapter` | component |
| `ExecutionSession` | `ExecutionSession` with its worker | extends the two components: their actions are its worker's steps |
| `BenchContract` | - | what a session promises about the bench, abstractly |
| `Cancellation` | `CancellationSource`, `CancellationToken`, `WaitCommand::Execute` | component |
| `EventHub` | `EventHub` | component, composed below |
| `ExtensionRuntime` | root and nested invocations, the broker, the adapters' life cycle | extends `EventHub`: a component's logged line is an event |
| `EngineApi` | `EngineContext`, plan and session functions of the API | component; the session's worker is abstracted to preparation, run and end |
| `PythonHost` | `worker.py`, service part of `api.py`, the pipe | component, composed below |
| `WorkerSupervisor` | `WorkerSupervisor.cpp` with `PythonRuntime::Service` | extends the host: both ends of the protocol |
| `RegistrationTransaction` | `Registration::Transaction` and `integrate()` | component |
| `AtomicRegistration` | - | what an integration promises |
| `RegistrationPair` | two profiles of one root | two instances of the transaction over one `installations.json` |
| `TreeProcess` | `TreeProcess`, `Native::run` | component, composed below |
| `NativePublication` | `NativeOutputs.cpp`, `NativeRetention.cpp` | extends the child process: the operations that wait for it |
| `AtomicOutput` | - | what a native project promises about its output |
| `*_proofs` | - | the theorems about the module of that name; `ExecutionSession_proofs` also holds those about the sequencer and the contract |
| `MC*` | - | instances for TLC |

Operators named `Faulty...` are plausible bugs. No specification uses one; each
is what its neighbour is replaced by to see that a property notices.

### How the models correspond to the code

*TestExecutor.* `at` is the place in the loop. Every read of the token, call of
the execution control, call of a command and return from it is a step, so
`Cancel` falls between any two. A command returns any `StepResult` the command
adapter can produce. Time is a choice: an attempt whose policy has a timeout
may or may not have expired when its command returns. `started`,
`lateStarts` and `effectLost` are history.

*ExecutionSession.* `pc` is the place in `RunWorker`; the worker's steps include
those of the sequencer (`RunStep`) and of the manager (`InitializeInstruments`,
`ShutdownInstruments`). Preparation succeeds, reports a failure or throws.
Binding fails or throws at any command, shutdown of any instrument and the end
of the runtime's session fail or succeed. The state machine's transitions use
`TryTransition`, whose refusal is ignored as in the code.

*Cancellation.* The condition variable is modelled at its atomic steps: test
under the mutex, release-and-park, wake by notification, by time or
spuriously, re-acquire. `StoreFlag` and `NotifyAll` are separate and take no
mutex. Time is a bounded clock.

*EventHub and ExtensionRuntime.* One thread, the session's, calls components and
publishes; subscribers come and go. A call from the session is a root
invocation: `effects` is its `InvocationEffects` scope. `stack` holds the
components entered and not left. Each component is native, native of ABI 0.1
(which knows no unconfirmed effect), or Python; all Python components share one
package and its worker, which may die at any call. A nested call goes to a
driver whose service is registered. Components are taken to be written with the
SDK, whose service call resolves, invokes and releases within one invocation:
raw-ABI components are obliged to release before they are destroyed
(`docs/architecture/stage-d-native-abi-v0.md:251-253`), and the broker itself
does not check that a leased driver is still up. Entering a Python component
again from inside itself is refused or ends the worker, and is the subject of
`WorkerSupervisor`. `lostHere`, `lost` and `told` are history.

*EngineApi.* The engine's mutex is held for single actions only. Activation is
three: the two critical sections and the runtime's refresh between them, by a
worker or by a host thread in `refresh_catalog`. A package directory's content
is a number compared as the fingerprint is. A session's mutex is a variable,
since `wait_session` holds it while it waits. Host threads respect the one
obligation of the API: no call on a handle that is being destroyed.

*PythonHost and WorkerSupervisor.* The pipe is a sequence each way. `stack` is
the C++ stack of nested pumps: each frame is a `Call` with the locals of its
`Pump`, and names the service request it serves. The loop's checks
(`SendCancel`, `GiveUp`, `Return`, `Poll`) and its read are separate steps, so
messages, deadlines and cancellations fall between them. A handler that makes
no nested call is part of the read. On the other side `accept` runs whole, as a
callback of the event loop does, and a task is three steps: taking the lock,
asking for services, answering. An operation may do anything the SDK's
`Context` offers, with several requests awaited at a time; it ends once all are
answered (no detached task outlives it). It may answer anything, or never; the
process may die at any time. `Abort` unwinds every pump. Deadlines are flags:
that of a nested call passes no later than those around it. Whether an
interruption is reported TIMED_OUT or CANCELLED is abstracted. Not modelled: log
events, frames and generations, the instances' creation and life cycle (they
are live throughout, so STOP is refused for other reasons), and a request
refused before it is sent.

*RegistrationTransaction.* One action per durable step: each rename, each
atomic replacement of a file, the journal's phases, the cursor of the recovery.
Between any two the process may die (`Crash`) or the step may throw
(`StepFails`), upon which `integrate`'s catch block calls `recover`, as the
next process does. A tree or file is known by the revision it carries; the
hashes that journal and cursor hold are the values themselves. `Requirement` is
the `require` the next step evaluates. `CallOff` is a publication given up
between steps, by a preparation or a discovery that fails. `RegistrationPair`
instantiates the module twice: catalog, folder and journal are each profile's
own, `installations.json` and its lock are shared.

*TreeProcess and NativePublication.* The supervisor's timer turn is an action
that sees which limits have passed; processes spawn, exit and die between
turns. The compiler's telemetry process (`vctip.exe`) may outlive it and is
ended without failing the build. An operation's process dies at any step, and
with it the supervisor: `orphans` are what its job held and are still ending.
`pc` walks through recovery, pruning, evaluation, hashing, compilation, assembly
and the renames of `promote`; any step may throw, and the scope guards run. An
output tree is its revision, the inputs its record names and the inputs its
objects came from, which is what `AtomicOutput` compares. The inputs may change
whenever the operation does not keep them open for reading.

## Runs

| Run | Instance | States | Shows |
|---|---|---|---|
| `session` | 2 steps, at most 2 attempts, all policies, 2 instruments | 404 312 | the sequencer's verdict, records, retries and late starts; teardown order, meaning of COMPLETED, completion last, failure kinds, termination, refinement of `BenchContract` |
| `cancellation` | 2 waiters, durations and timeouts to 2 | 271 610 | outcomes of waits, every wait ends |
| `extension_runtime` | a command and 2 drivers of every kind, calls 3 deep, 2 executions, 2 events, 2 subscriptions | 2 301 901 | a lost effect reaches the root and stops work but not the shutdowns; events in order, once, to everyone |
| `engine_api` | 2 hosts, 2 handles, 2 preparations, 3 directory contents | 232 362 | lease, stale plans, single activation, destroy returns |
| `worker` | a command, a driver and a device elsewhere, 3 calls, nesting 3, 3 service requests, 2 awaited at a time, 2 remembered calls | 811 342 | both ends agree, nothing is left between calls, outcomes are true, STOP, no work after an interruption, every call ends |
| `registration` | one profile, 2 revisions, 2 transactions, 3 faults | 115 864 | recovery is never ambiguous or refused, loses nothing, settles; refinement of `AtomicRegistration` |
| `registration_pair` | two profiles, 2 transactions each, 2 faults between them, the second with packages of other owners | 1 812 600 | no rollback of one profile undoes the other's commit |
| `native` | inputs in 2 states, 3 builds | 128 412 | recovery is never ambiguous, one writer, every operation ends; refinement of `AtomicOutput` |
| `cancel_wakes`, `service_cycle`, `registration_stranded`, `native_stuck` | small | - | the findings below |

Why the bounds are enough. Two steps give a step before and one after every
fatal step; two attempts give a first, a repeated and a refused one, and zero
is the direct caller's value the code guards against. Two instruments give a
first, a failing one after a success, and an order to reverse. Two waiters
contend for the mutex. Two handles are what the lease separates; two
preparations make a plan stale; contents 0 to 2 are none, the prepared, and
another.

In `extension_runtime` three calls deep are a root, a component between that
may hide an error, and the one that loses an effect; two drivers in every mix
of kinds put each kind in each place; two executions are a step and a retry or
a later step; with two events and two subscriptions a subscriber leaves or comes
while another is called.

In `worker` three calls are one, one nested in it and one after them that would
read a message left over; three requests, besides releases, are a resolve and
two invocations that overlap or follow each other. Two tombstones are as many as
the calls a first call can make, so `PeersAgree` must hold here; where calls are
more, it holds as long as no call makes more of them than there are tombstones
(`PeersAgreeOnFewCalls`), and may fail beyond that (see the divergences below).

In `registration` two transactions let one follow a commit or a rollback; three
faults are one in a publication, one in its recovery and one in the next
recovery. In `registration_pair` each profile may commit, be interrupted and
try again before, after or between the steps of the other; a first that has
packages of others beside a new second is the same with the profiles exchanged,
and two new ones meet only in `selection`, which no catalog decides. In `native` the
third build follows a failed or interrupted incremental compilation that
follows a good one; faults are not bounded there.

`CHECK_DEADLOCK FALSE` stands where the system really stops: waiters that are
done (`Cancellation`), and a worker that has exited or faulted, which is never
restarted (`WorkerSupervisor`). All other runs check deadlock.

**Fairness.** The sequencer, the session's worker and a waiter are threads that
the scheduler runs (`WF` on their steps). Commands, drivers, host callbacks and
extension loading are assumed to return, as the component contract demands. A
call blocked at a session's mutex has no more than weak fairness, because
`std::mutex` promises none. Nobody has to call anything: cancelling, waiting
and destroying are never fair. Time passes (`WF` on `Tick`, on `TimePasses`).
The supervisor's owner thread runs (`WF` on `Pump`, whose reads return after
10 ms); of the worker nothing is assumed. An operation of the developer tool
goes on with its next step (`WF` on `Step`); of its child only that the timer
fires until every limit has passed (`WF` on `LateTick`, which reads no flood of
output) and that a terminated job dies some time (`WF` on `TerminatedDies`: the
system ends it, the tool only asks).

## Findings

1. `cancel_wakes`: a cancellation may miss a waiter (`Cancellation.cpp:86`),
   which then sleeps to the end of its wait, against
   `docs/architecture/stage-c-robust-execution.md:66-67`. The `cancellation` run
   shows the wait still ends by itself.
2. `service_cycle`: a component that resolves its own instance again is not
   recognised as a cycle, since the ancestry (`WorkerSupervisor.cpp:182`)
   compares tokens and every resolve makes a new one (`PythonRuntime.cpp:229`).
   The nested call waits for the lock its ancestor holds, against
   `stage-d4-managed-execution.md:97-98`. The `worker` run shows that deadline
   and grace end it, at the price of the worker.
3. `registration_stranded`: a journal keeps the bytes of `installations.json`,
   which all profiles share. Once another profile has been integrated,
   `checkRecord` (`RegistrationStore.cpp:176`) refuses the interrupted journal
   for ever, against `docs/sdk/artestdev-dev01-5.md:72-74`. The other side of
   that refusal is what `registration_pair` shows: no commit is undone.
4. `native_stuck`: a build whose evaluation fails leaves a directory without a
   seal (`NativeOutputs.cpp:412`, `:625-634`) that every later operation refuses,
   against its own message "retry after editing" (`NativeOutputs.cpp:66`).

Divergences seen while modelling, which no run checks:

- An exception of the execution control assigns ERROR over an accumulated
  TIMED_OUT (`TestExecutor.cpp:154`), although a step's ERROR would not replace
  it, against `docs/architecture/stage-c-robust-execution.md:83`, "`onFailure:
  continue` runs later steps but preserves the worst run verdict". `TestExecutor`
  models it, and `FailureKindAgrees` shows what is left to the reader of such a
  run: a verdict milder than a recorded step's is an ERROR of kind INTERNAL, or
  CLEANUP after a failed clean-up, never one of kind EXECUTION.
- A callback may begin after `unsubscribe_events` returned
  (`EngineEvents.h:55`), against `stage-d-engine-api-v0.md:183`. `EventHub`
  models it: a subscription may leave between the copy and its call.
- `wait_session` with a timeout blocks behind another thread's wait without one
  (`EngineSessionApi.cpp:165`), against `stage-d-engine-api-v0.md:146` and
  `:178`. `EngineApi` models it: `Elapse` at the lock frees nobody.
- The host keeps 64 tombstones of ended calls (`worker.py:196`) so that it
  "acknowledges a cancellation that crossed a terminal response"
  (`docs/architecture/checkpoint-c01-effect-uncertainty.md:69-75`). With two
  service requests awaited at a time one call may be answered while its pump
  waits under another that serves any number of further calls; if they are more
  than the tombstones and the engine is then cancelled, the host does not know
  the cancelled call and ends itself. TLC finds it with three tombstones and six
  calls (`MaxCompleted` 3, `MaxCalls` 6, `MaxDepth` 4, `MaxRequests` 7, `MaxAwaited`
  3). `FewCalls` in `WorkerSupervisor_proofs` is the condition under which it
  cannot happen.

Outside the models: `ConsoleCancellationHandler::HandleControl` loads the
function and the context (`ConsoleCancellationHandler.cpp:35-36`) on the
console's thread and then calls `RequestCancel`. The run may end in between, the
handler be destroyed and the client release its session; only the system's
removal of the handler stands between the call and that.

## Proofs

A theorem holds for every value of the constants under the assumptions named in
the module: bounds are naturals (`MaxAttempts`, `MaxRevision`, `MaxDepth` and
`MaxCompleted` at least 1: a step has an attempt, an engine may begin at revision
1, a call may be made and its tombstone kept), and names are distinct from
markers such as `Nobody` and `Absent`. No theorem needs its sets to be finite.
`PeersAgreeOnFewCalls` supposes `FewCalls` of the behaviour, and says so. Each proof has the same shape. An invariant `IInv` is added to
the type invariant, TLC checks it on the instance of the run first, and lemmas
show that `Init` establishes it and that each action keeps each of its parts.

| Module | Theorems | Inductive invariant |
|---|---|---|
| `ExecutionSession_proofs`, the sequencer | types, `AtMostOneLateStart`, `NoReplayAfterLostEffect`, `RetryPolicyHonoured`, `RunStopsAtFatalStep`, `PassedMeansAllPassed`, `FailureKindAgrees` | `ExecutorInv` |
| `ExecutionSession_proofs`, the session | the above inside a session, `CompletedMeansPassedAndSafe`, `CompletionComesLast`, `FailureKindNamesPhase`, `TeardownOrder`, `KeepsContract` | `SessionInv` |
| `ExecutionSession_proofs`, the contract | nothing acts unless every instrument is up, or after a lost effect; instruments are up in order; so it is in every session | `BenchInv` |
| `Cancellation_proofs` | types, `OutcomeHolds`, the lock's owner | `WaitInv` of each waiter |
| `EngineApi_proofs` | types, `LeaseCoversWorker`, `ExecutesWhatWasCompiled`, `RegisteredIsPrepared`, `OneActivation` | `CallInv`, `HandleInv`, `ActivationInv`, `PlanInv` |
| `ExtensionRuntime_proofs` | types, `LossReachesRoot`, `NothingAfterLoss`, `ShutdownReachesDriver`, `OrderedOnce`, `NobodyMissed` | `HubInv`, `ScopeInv`, `LostInv`, `Placed`, `TurnInv` |
| `WorkerSupervisor_proofs` | types, `IdleIsQuiet`, `WorkIsAwaited`, `OutcomeIsTrue`, `ExitIsClean`, `InterruptedStartsNothing`; what either end may reject | `TypeInv`, `Core` |
| | `PeersAgree`, while there are few calls | `PeerInv`, over the former |
| `RegistrationTransaction_proofs` | types, `Recoverable`, `NeverRefused`, `TreesOnlyMove`, `CommittedStays`, `AtomicSpec` | the disk at each phase and cursor |
| `RegistrationPair_proofs` | `CommittedProfileKept` | `StaysListed` of each profile |
| `NativePublication_proofs` | types, `OneWriter`, `PublicationRecovers`, `KeepsOutput` | the disk at each phase, what each step holds |

Why the invariants are needed.

*Sequencer.* That no command is called after a lost effect says nothing of where
the executor stands just after the loss. `PositionInv` relates the records to
the step index and the attempt to its policy. `LateInv` and `EffectInv`: after a
late start, or a lost effect, only the places on the way out are reachable,
carrying a cancelled, or indeterminate, result. `RecordInv`: every record ends
its step as the policy says, and while the loop goes on none is fatal.
`VerdictInv`: verdict and failure kind agree, and until the loop is left the
verdict covers every record, so that only a thrown error of the control, or later
a failed clean-up, can have replaced it with a milder one.

*Session.* `ExecutorInv` again, since the sequencer is part of the session and
the session sets the same result fields before and after it, with four parts
about the worker: where session and manager stand at each phase, how far the
instruments are up, which resources are alive, and what the outcome fields may
say. With them every step of `ExecutionSession` is a step of `BenchContract` or
a stutter, so that what is derived from the contract alone (`BenchIsSafe`,
`LostEffectEndsActing`, `BenchPowersInOrder`) holds of every session of any plan
and any number of instruments (`SessionKeepsBenchSafe`).

*Cancellation.* A waiter's place says what it knows: that a deadline or the end
of its wait was reached before its outcome was named, although the reason is
read again without the lock.

*EngineApi.* A handle's life is tied to the lease (`HandleInv`) only because a
host inside a call finds the handle as it left it (`CallInv`); the lease and
`loading` together keep the prepared catalog still from a plan's acceptance to
the session's run (`ActivationInv`, `PlanInv`).

*ExtensionRuntime.* The scope tells of a loss as long as a frame beneath the
root is open (`ScopeInv`), the session's place tells whether it may still work
(`LostInv`, `Placed`), and `TurnInv` counts the drivers that still hold a
component.

*Worker.* That nothing is left between two calls is true only because, during a
call, everything has an owner. `Core` says which: each message on the way to the
host is a call, a cancellation or an answer the host awaits (`CallInv`,
`CancelInv`, `ReplyInv`); each message back is the one answer, acknowledgement or
request of an operation or frame that is there (`AnswerInv`, `RequestInv`);
every operation belongs to a frame (`TaskInv`), every request awaited to an
operation (`PendingInv`), every lease to a handle held or on its way
(`LeaseInv`). So what the supervisor reads it never rejects, and a call that is
popped leaves nothing. None of this tells which calls the host still remembers:
`PeerInv` says that the call of every frame is on its way, running, or remembered
with nothing remembered after it but calls that the engine's own call has made.
`FewCalls` says that those are no more than the tombstones, and the theorem
`PeersAgreeOnFewCalls` supposes it of the behaviour: without it the property
fails, as the divergence above shows.

*Registration and native outputs.* For each phase of the journal, and each step
of the cursor, the invariant says where every tree is and which files hold which
side; `recover` decides by just that. Refinement follows: the abstract state
changes at one step, the one that makes `committed` durable, or the rename of
the candidate.

`TreesOnlyMove` needs no more of it than that the place a tree is renamed to is
empty at that step; the rest is counting (`HeldChange`).

*Two profiles.* The invariant of a single transaction is false beside another,
which changes `installations.json` under an interrupted journal. What remains is
rely and guarantee: a transaction keeps its own profile listed once it was
integrated and never changes whether another is listed (`OthersStayListed`); and
a profile stays listed beside whoever does not change whether it is
(`StaysListedBeside`). `RegistrationPair_proofs` instantiates both for each
profile.

Only model-checked: the liveness properties (`SessionEnds`, `WaitEnds`,
`DestroyReturns`, `CallsEnd`, `AttemptSettles`, `OperationEnds`), which the prover
does not do under fairness.
Every invariant and action property of the passing runs is stated by a theorem.

## Not modelled

- Names, messages, durations and JSON text. Parser, compiler and schemas are
  pure functions of a text; discovery and hashing are file I/O. A registry
  look-up changes nothing.
- Running out of memory. It is all that could make `CatalogSnapshot` throw after
  a `Refresh` that succeeded (`EngineContext.cpp:97`), which would leave the
  registries filled, `active` unset and the catalog free to be prepared anew:
  `RegisteredIsPrepared` would not hold then. `EndActivate` stands for the
  handler after a `Refresh` that threw.
- The sleep of a `CancellationToken` without shared state
  (`Cancellation.cpp:46-50`): every token of a run comes from a source.
- Files that are replaced between the activation's rescan and the load of the
  modules. Host callbacks that call back into the API or throw.
- Payloads and sinks of native invocations, component configuration, several
  Python packages in one session, raw-ABI components that keep a lease.
- Of the worker: log events, encoding, partial reads and writes, creation and
  life cycle of instances.
- Of registration: hashing and path checks of the trees, the copies before
  they are complete, the tools `integrate` runs (their outcome is a choice).
- Of native outputs: hashing, dependency traces, diagnostics files. The two MSBuild
  runs of a compilation (`NativeOutputs.cpp:671`, `:674`, four when the cache is
  compacted) and the two CLI runs of a validation (`:797`, `:799`) follow each other with
  nothing durable between them; each pair is one child here, which may end
  badly, be killed or outlive its operation as either could. The journal
  left at `building`, `checking` or `validating` blocks the project by design
  (`docs/sdk/artestdev-dev01-4.md:97-100`), also after an ordinary write error
  between `publicationStarted` (`NativeOutputs.cpp:747`) and `staged`. When
  pruning fails on a reused build and the failing seal fails as well,
  intermediates remain unsealed without a journal: `PublicationRecovers` is
  stated of `work` and `validation` only.
- Of child processes: the commit handshake of the other tools and the audit of
  processes. The developer tool's scaffolding, forms and inspection, and the
  CLI, are sequential programs around the modelled parts. Third-party code
  (`json.hpp`) is most of the source by lines.

## Plan

Done: every module above, and the proof of every safety property the passing runs
check. Worth adding next: creation and life cycle of Python instances and the
limit of log events in `PythonHost`; an abstract worker protocol (each call ends
once, with its own answer or as lost) that `WorkerSupervisor` refines; several
Python packages in `ExtensionRuntime`; `CommittedProfileKept` for any number of
profiles, which needs a module with a family of transactions.
