-------------------------- MODULE ExtensionRuntime --------------------------
(***************************************************************************)
(* ExtensionRuntime: the calls a session makes into its command and its    *)
(* drivers, and the service calls these make of each other through the     *)
(* broker, all on the session's thread.  A call from the session is a root *)
(* invocation with a scope of its own (InvocationEffects), which remembers *)
(* that the effect of some call beneath it is unconfirmed.                 *)
(*                                                                         *)
(* Component 0 is the command; the others are the drivers in the order     *)
(* they are initialized in.  All Python components share one worker.       *)
(* Components are written with the SDK: a service call resolves, invokes   *)
(* and releases within one invocation.  A logged line is an event that the *)
(* same thread publishes, so the module extends EventHub.                  *)
(***************************************************************************)
EXTENDS EventHub

CONSTANTS NumDrivers,
          MaxAttempts,   \* bound on the executions of the command in a session
          MaxDepth       \* bound on the calls open at a time

ASSUME RuntimeAssumption ==
    /\ NumDrivers \in Nat
    /\ MaxAttempts \in Nat
    /\ MaxDepth \in Nat

Command == 0
Driver == 1 .. NumDrivers
Component == 0 .. NumDrivers

\* "old" is a native component of ABI 0.1, which knows no unconfirmed effect.
Kind == {"native", "old", "python"}

VARIABLES
    kind,        \* the kind of each component
    at,          \* where the session's thread stands
    turn,        \* the driver InitializeAll or ShutdownAll is at
    attempts,    \* executions of the command so far
    components,  \* the drivers whose adapter holds a component
    services,    \* NativeServiceBroker::services
    worker,      \* whether the Python worker is up
    stack,       \* the components being invoked, innermost last
    effects,     \* the scope of the root invocation; "none" between two roots
    answer,      \* what the last root invocation reported
    lostHere,    \* history: an effect was lost in the last root invocation
    lost,        \* history: an effect was lost in this session before its cleanup
    told         \* history: drivers whose shutdown was entered in this session

control == <<at, turn, attempts>>
history == <<lostHere, lost, told>>
runtimeVars == <<kind, control, components, services, worker, stack, effects, answer, history>>
vars == <<hubVars, runtimeVars>>

Cleanup == {"abandoning", "shuttingDown"}
Working == {"initializing", "validating", "executing"} \cup Cleanup

Location == {"create", "initialize", "abandon", "validate", "execute", "unbind",
             "shutdown", "ended"} \cup Working

Init ==
    /\ HubInit
    /\ kind \in [Component -> Kind]
    /\ at = "create" /\ turn = 1 /\ attempts = 0
    /\ components = {} /\ services = {}
    /\ worker = "up"
    /\ stack = << >> /\ effects = "none"
    /\ answer = [ok |-> TRUE, unsure |-> FALSE]
    /\ lostHere = FALSE /\ lost = FALSE /\ told = {}
-----------------------------------------------------------------------------
\* The thread runs the session or a component only while it publishes nothing.
Quiet == publisher = "idle" /\ UNCHANGED hubVars

Between == Quiet /\ stack = << >>
Inside == Quiet /\ stack # << >>

Top == stack[Len(stack)]
IsPython(c) == kind[c] = "python"

\* Every call of a dead worker, and every call it was in, throws ProcessError,
\* which InvokeAbi's caller sees as an unconfirmed effect.
Dead(c) == IsPython(c) /\ worker = "down"

\* Fault: a scope that is not emptied for the next root invocation.
FaultyFreshScope == IF lostHere THEN "lost" ELSE "clean"

FreshScope == "clean"

\* InvokeAbi enters the component unless the scope forbids further work.
Entered(scope, c) == scope # "lost" /\ ~Dead(c)

\* ExtensionRuntime::Invoke and the InvokeAbi it makes.
BeginRoot(c, location) ==
    /\ at' = location
    /\ lostHere' = Dead(c)
    /\ IF Entered(FreshScope, c)
       THEN /\ stack' = <<c>>
            /\ effects' = FreshScope
            /\ told' = IF location \in Cleanup THEN told \cup {c} ELSE told
            /\ UNCHANGED <<answer, lost>>
       ELSE /\ answer' = [ok |-> FALSE, unsure |-> TRUE]
            /\ lost' = (lost \/ (Dead(c) /\ location \notin Cleanup))
            /\ UNCHANGED <<stack, effects, told>>

\* A service call of the component that runs: broker.invoke.  A call that is
\* refused, because there is no such service or an effect was lost before,
\* returns an error to its caller and changes nothing.  So does a call of a
\* Python component from beneath itself, unless the worker is killed for it.
Callable(d) ==
    /\ d \in services
    /\ ~Dead(Top)
    /\ IsPython(d) => \A i \in DOMAIN stack : stack[i] # d
    /\ Len(stack) < MaxDepth

\* Fault: the broker goes on although the scope is lost.
FaultyCall(d) ==
    /\ Inside /\ Callable(d)
    /\ ~Dead(d)
    /\ stack' = Append(stack, d)
    /\ UNCHANGED <<kind, control, components, services, worker, effects, answer, history>>

Call(d) ==
    /\ Inside /\ Callable(d)
    /\ Entered(effects, d)
    /\ stack' = Append(stack, d)
    /\ UNCHANGED <<kind, control, components, services, worker, effects, answer, history>>

\* The histories after a call that reported, or not, an unconfirmed effect.
Witnessed(unsure) ==
    /\ lostHere' = (lostHere \/ unsure)
    /\ lost' = (lost \/ (unsure /\ at \notin Cleanup))
    /\ UNCHANGED told

\* The call of a dead worker: nothing is entered, the scope is lost.
CallDead(d) ==
    /\ Inside /\ Callable(d)
    /\ effects # "lost" /\ Dead(d)
    /\ effects' = "lost"
    /\ Witnessed(TRUE)
    /\ UNCHANGED <<kind, control, components, services, worker, stack, answer>>

\* What a component reports: it may hide what its own calls reported.
Reports(c) ==
    IF Dead(c) THEN {[ok |-> FALSE, unsure |-> TRUE]}
    ELSE IF kind[c] = "old" THEN [ok : BOOLEAN, unsure : {FALSE}]
    ELSE [ok : BOOLEAN, unsure : BOOLEAN] \ {[ok |-> TRUE, unsure |-> TRUE]}

\* Fault: what is hidden from a caller of ABI 0.1 is hidden from the scope.
FaultyRecorded(report) ==
    report.unsure /\ (Len(stack) > 1 => kind[stack[Len(stack) - 1]] # "old")

\* InvokeAbi records before broker.invoke hides the flag from an old caller.
Recorded(report) == report.unsure

\* A component returns to the one that called it.
ReturnToCaller ==
    /\ Inside /\ Len(stack) > 1
    /\ \E report \in Reports(Top) :
          /\ effects' = IF Recorded(report) THEN "lost" ELSE effects
          /\ Witnessed(report.unsure)
    /\ stack' = SubSeq(stack, 1, Len(stack) - 1)
    /\ UNCHANGED <<kind, control, components, services, worker, answer>>

\* The root returns: its result is read off the scope, which is then left.
ReturnToSession ==
    /\ Inside /\ Len(stack) = 1
    /\ \E report \in Reports(Top) :
          LET unsure == effects = "lost" \/ Recorded(report)
          IN  /\ answer' = [ok |-> report.ok /\ ~unsure, unsure |-> unsure]
              /\ Witnessed(report.unsure)
    /\ stack' = << >> /\ effects' = "none"
    /\ UNCHANGED <<kind, control, components, services, worker>>

\* Log: the event is published before the component goes on.
Log ==
    /\ stack # << >> /\ ~Dead(Top)
    /\ Publish
    /\ UNCHANGED runtimeVars

WorkerDies ==
    /\ worker = "up" /\ worker' = "down"
    /\ \E c \in Component : IsPython(c)
    /\ UNCHANGED <<hubVars, kind, control, components, services, stack, effects, answer, history>>
-----------------------------------------------------------------------------
(* The session's thread between two root invocations.                      *)

\* ExtensionInstrumentAdapter::Initialize, first half.
CreateDriver ==
    /\ Between /\ at = "create" /\ turn <= NumDrivers
    /\ \/ /\ ~Dead(turn)
          /\ components' = components \cup {turn}
          /\ at' = "initialize"
          /\ UNCHANGED turn
       \/ /\ at' = "shutdown"
          /\ turn' = turn - 1
          /\ UNCHANGED components
    /\ UNCHANGED <<kind, attempts, services, worker, stack, effects, answer, history>>

\* Its two calls of the driver, and the one of Shutdown, which makes the
\* service unreachable first.
InvokeDriver ==
    /\ Between
    /\ \/ at = "initialize" /\ BeginRoot(turn, "initializing") /\ UNCHANGED services
       \/ at = "abandon" /\ BeginRoot(turn, "abandoning") /\ UNCHANGED services
       \/ /\ at = "shutdown" /\ turn \in components
          /\ services' = services \ {turn}
          /\ BeginRoot(turn, "shuttingDown")
    /\ UNCHANGED <<kind, turn, attempts, components, worker>>

\* A driver that came up is registered as a service.
RegisterService ==
    /\ Between /\ at = "initializing" /\ answer.ok
    /\ services' = services \cup {turn}
    /\ at' = "create" /\ turn' = turn + 1
    /\ UNCHANGED <<kind, attempts, components, worker, stack, effects, answer, history>>

InitializeFailed ==
    /\ Between /\ at = "initializing" /\ ~answer.ok
    /\ at' = "abandon"
    /\ UNCHANGED <<kind, turn, attempts, components, services, worker>>
    /\ UNCHANGED <<stack, effects, answer, history>>

\* The adapter drops the component, whatever its shutdown reported.
DropDriver ==
    /\ Between /\ at \in Cleanup
    /\ components' = components \ {turn}
    /\ at' = "shutdown" /\ turn' = turn - 1
    /\ UNCHANGED <<kind, attempts, services, worker, stack, effects, answer, history>>

\* ExtensionCommandAdapter::Configure; a cancelled session binds no command.
BindCommand ==
    /\ Between /\ at = "create" /\ turn > NumDrivers
    /\ \/ ~Dead(Command) /\ at' = "validate"
       \/ at' = "unbind"
    /\ UNCHANGED <<kind, turn, attempts, components, services, worker>>
    /\ UNCHANGED <<stack, effects, answer, history>>

InvokeCommand ==
    /\ Between
    /\ \/ at = "validate" /\ BeginRoot(Command, "validating") /\ UNCHANGED attempts
       \/ at = "execute" /\ BeginRoot(Command, "executing") /\ attempts' = attempts + 1
    /\ UNCHANGED <<kind, turn, components, services, worker>>

\* The sequencer executes the command for a step, a retry or a later step,
\* but not after an unconfirmed effect.
Continue ==
    /\ Between /\ attempts < MaxAttempts
    /\ \/ at = "validating" /\ answer.ok
       \/ at = "executing" /\ ~answer.unsure
    /\ at' = "execute"
    /\ UNCHANGED <<kind, turn, attempts, components, services, worker>>
    /\ UNCHANGED <<stack, effects, answer, history>>

Stop ==
    /\ Between /\ at \in {"validating", "executing"}
    /\ at' = "unbind"
    /\ UNCHANGED <<kind, turn, attempts, components, services, worker>>
    /\ UNCHANGED <<stack, effects, answer, history>>

\* The commands are destroyed, then ShutdownAll starts with the last driver.
ClearCommands ==
    /\ Between /\ at = "unbind"
    /\ at' = "shutdown" /\ turn' = NumDrivers
    /\ UNCHANGED <<kind, attempts, components, services, worker, stack, effects, answer, history>>

\* EndSession stops the worker; another session may start, with a new worker.
EndSession ==
    /\ Between /\ at = "shutdown" /\ turn = 0
    /\ at' = "ended"
    /\ worker' = "down"
    /\ UNCHANGED <<kind, turn, attempts, components, services, stack, effects, answer, history>>

NewSession ==
    /\ Between /\ at = "ended"
    /\ at' = "create" /\ turn' = 1 /\ attempts' = 0
    /\ worker' = "up"
    /\ lost' = FALSE /\ told' = {}
    /\ UNCHANGED <<kind, components, services, stack, effects, answer, lostHere>>
-----------------------------------------------------------------------------
Extension ==
    \/ \E d \in Driver : Call(d) \/ CallDead(d)
    \/ ReturnToCaller
    \/ ReturnToSession
    \/ Log
    \/ WorkerDies

Session ==
    \/ CreateDriver \/ InvokeDriver \/ RegisterService \/ InitializeFailed \/ DropDriver
    \/ BindCommand \/ InvokeCommand \/ Continue \/ Stop
    \/ ClearCommands \/ EndSession \/ NewSession

Next ==
    \/ Extension
    \/ Session
    \/ (HostStep \/ PublisherStep) /\ UNCHANGED runtimeVars

Spec == Init /\ [][Next]_vars
-----------------------------------------------------------------------------
TypeOK ==
    /\ HubTypeOK
    /\ kind \in [Component -> Kind]
    /\ at \in Location
    /\ turn \in 0 .. NumDrivers + 1
    /\ attempts \in 0 .. MaxAttempts
    /\ components \subseteq Driver
    /\ services \subseteq components
    /\ worker \in {"up", "down"}
    /\ stack \in Seq(Component)
    /\ effects \in {"none", "clean", "lost"}
    /\ answer \in [ok : BOOLEAN, unsure : BOOLEAN]
    /\ lostHere \in BOOLEAN /\ lost \in BOOLEAN
    /\ told \subseteq Driver

\* Whatever the components between do with the error, a root invocation is
\* reported as unconfirmed exactly when some call beneath it, or its own, lost
\* an effect: no wrapper, no caller of ABI 0.1 and no death of the worker hides
\* one, and none is inherited from an earlier root.
LossReachesRoot == stack = << >> => answer.unsure = lostHere

\* After an effect is lost no component is entered again but to shut it down:
\* not beneath the same root, not by a retry and not by a later step.
NothingAfterLoss ==
    [][Len(stack') > Len(stack) =>
          /\ stack # << >> => ~lostHere
          /\ lost => at' \in Cleanup]_vars

\* No driver's component is dropped before the driver was told to shut down,
\* though effects were lost before or its initialization failed, unless the
\* worker that runs it is gone; and nothing of a session is left behind.
ShutdownReachesDriver ==
    [][/\ \A d \in components \ components' : d \in told \/ Dead(d)
       /\ at' = "ended" => components = {} /\ services = {}]_vars
=============================================================================
