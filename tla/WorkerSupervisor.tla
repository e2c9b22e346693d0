-------------------------- MODULE WorkerSupervisor --------------------------
(***************************************************************************)
(* WorkerSupervisor: the engine's side of a Python worker.  Its owner      *)
(* thread makes a call and pumps messages until the call's own answer is   *)
(* in.  A service request met on the way may call the same worker again,   *)
(* in a pump of its own, so calls nest.                                    *)
(*                                                                         *)
(* The service handler is PythonRuntime::Service with the broker behind    *)
(* it, and a nested call is one PythonRuntime::Invoke makes.               *)
(***************************************************************************)
EXTENDS PythonHost

CONSTANTS Entry,       \* the instances the engine calls on its own account
          MaxCalls     \* bound of the model on dispatched calls

ASSUME EntryAssumption == Entry \subseteq Instances

VARIABLES
    state,         \* m_state
    stack,         \* m_active, m_deadlines and Pump's locals, innermost last
    reading,       \* the innermost Pump has passed its checks and reads
    terminals,     \* m_pending
    nextCall,      \* m_next
    lastService,   \* m_lastService
    services,      \* PythonWorker::services by token
    asked,         \* the invocation's cancellation has been requested
    fault,         \* history: why Abort was called
    outcomes       \* history: how each dispatched call ended

history == <<fault, outcomes>>
served == <<lastService, services>>
supervisorVars == <<state, stack, reading, terminals, nextCall, served, asked, history>>
vars == <<hostVars, supervisorVars>>

Released == "released"
Lost == [status |-> "lost", unsure |-> TRUE]

Init ==
    /\ InitHost
    /\ state = "created" /\ stack = <<>> /\ reading = FALSE
    /\ terminals = {} /\ nextCall = 2 /\ lastService = 0
    /\ services = <<>> /\ asked = FALSE
    /\ fault = "none" /\ outcomes = {}

Active == {stack[i].id : i \in DOMAIN stack}
Top == stack[Len(stack)]
Below == SubSeq(stack, 1, Len(stack) - 1)
WithTop(frame) == Append(Below, frame)

\* A call's frame: the service request and token it serves, what its Pump has
\* done about its cancellation, and whether its deadline and grace have passed.
Frame(target, via, token) ==
    [id |-> nextCall, target |-> target, via |-> via, token |-> token,
     cancelSent |-> FALSE, acknowledged |-> FALSE, due |-> FALSE, late |-> FALSE]

\* Abort, with the exception that then unwinds every pump: all calls are lost.
AbortCalls(ids, why) ==
    /\ state' = "faulted" /\ fault' = why
    /\ outcomes' = outcomes \cup {[id |-> id, result |-> Lost] : id \in ids}
    /\ stack' = <<>> /\ reading' = FALSE /\ terminals' = {}
    /\ Killed
    /\ UNCHANGED <<nextCall, served, asked>>

Abort(why) == AbortCalls(Active, why)
-----------------------------------------------------------------------------
\* Start: launch, connect and handshake, or fail.
Start ==
    /\ state = "created"
    /\ \/ /\ process = "up"
          /\ state' = "ready"
          /\ UNCHANGED <<hostVars, stack, reading, terminals, nextCall, served, asked, history>>
       \/ Abort("start")

\* Call from outside any pump, and the STOP call of Stop.  A request that is
\* cancelled or out of time before it is sent changes nothing and is left out.
Call(target) ==
    /\ state = "ready" /\ stack = <<>>
    /\ nextCall <= 2 * MaxCalls
    /\ nextCall' = nextCall + 2
    /\ asked' = FALSE
    /\ IF process = "gone"
       THEN /\ state' = "faulted" /\ fault' = "pipe"
            /\ outcomes' = outcomes \cup {[id |-> nextCall, result |-> Lost]}
            /\ Killed
            /\ UNCHANGED <<stack, reading, terminals, served>>
       ELSE /\ stack' = <<Frame(target, 0, 0)>>
            /\ toHost' = Append(toHost, CallMessage(nextCall, 0, target))
            /\ outcomes' = {} /\ answers' = {}
            /\ UNCHANGED <<toEngine, process, failure, completed, taskVars, nextRequest, lastRequest>>
            /\ UNCHANGED <<state, reading, terminals, served, fault>>

\* Time: a deadline passes, with those of the calls nested inside, which are
\* never later.
DeadlinePasses ==
    /\ \E i \in DOMAIN stack :
           /\ ~stack[i].due
           /\ stack' = [j \in DOMAIN stack |->
                           IF j >= i THEN [stack[j] EXCEPT !.due = TRUE] ELSE stack[j]]
    /\ UNCHANGED <<hostVars, state, reading, terminals, nextCall, served, asked, history>>

GracePasses ==
    /\ stack # <<>> /\ Top.cancelSent /\ ~Top.late
    /\ stack' = WithTop([Top EXCEPT !.late = TRUE])
    /\ UNCHANGED <<hostVars, state, reading, terminals, nextCall, served, asked, history>>

TimePasses == DeadlinePasses \/ GracePasses

\* The invocation's token: one probe serves all calls of the stack; STOP has none.
CancellationRequested ==
    /\ stack # <<>> /\ Top.target # Stop /\ ~asked
    /\ asked' = TRUE
    /\ UNCHANGED <<hostVars, state, stack, reading, terminals, nextCall, served, history>>
-----------------------------------------------------------------------------
\* Fault: the acknowledgement of a cancellation is not waited for.
FaultyComplete == \E t \in terminals : t.id = Top.id

\* Fault: the grace of a cancelled call is not limited.
FaultyGraceIsOver == FALSE

\* The checks at the head of Pump's loop, in order.
Pumping == state = "ready" /\ stack # <<>> /\ ~reading
MustCancel == ~Top.cancelSent /\ (Top.due \/ asked)
GraceIsOver == Top.cancelSent /\ Top.late
Own == {t \in terminals : t.id = Top.id}
Complete == Own # {} /\ (Top.cancelSent => Top.acknowledged)

SendCancel ==
    /\ Pumping /\ MustCancel
    /\ IF process = "gone" THEN Abort("pipe")
       ELSE /\ toHost' = Append(toHost, CancelMessage(Top.id))
            /\ stack' = WithTop([Top EXCEPT !.cancelSent = TRUE])
            /\ reading' = TRUE
            /\ UNCHANGED <<toEngine, hostState, state, terminals, nextCall, served, asked, history>>

GiveUp == Pumping /\ ~MustCancel /\ GraceIsOver /\ Abort("grace")

\* Fault: an interrupted call's answer is replaced as a whole.
FaultyClassified(answer) ==
    IF Top.cancelSent THEN [status |-> "interrupted", unsure |-> FALSE] ELSE answer

\* An interruption changes the status only; the uncertainty of the effect survives.
Classified(answer) ==
    IF Top.cancelSent THEN [status |-> "interrupted", unsure |-> answer.unsure] ELSE answer

\* Fault: the answer to STOP ends the worker, whether or not the process is gone.
FaultyExitConfirmed(result) == result.status = "ok"

\* Stop after its call: an accepted STOP and an observed exit.
ExitConfirmed(result) == result.status = "ok" /\ process = "gone"

\* Pump returns.  Below it the handler of the service request answers with
\* what the call brought; below a STOP the supervisor confirms the exit.
Return ==
    /\ Pumping /\ ~MustCancel /\ ~GraceIsOver /\ Complete
    /\ \E own \in Own :
           LET result == Classified(own.answer)
               ended == outcomes \cup {[id |-> Top.id, result |-> result]}
           IN \/ /\ Top.target # Stop
                 /\ Top.via # 0 => process # "gone"
                 /\ stack' = Below
                 /\ terminals' = terminals \ Own
                 /\ toHost' = IF Top.via = 0 THEN toHost
                              ELSE Append(toHost, ServiceResponse(Top.via, 0))
                 /\ outcomes' = ended
                 /\ UNCHANGED <<toEngine, hostState, state, reading, nextCall, served, asked, fault>>
              \/ /\ Top.via # 0 /\ process = "gone"
                 /\ Abort("pipe")
              \/ /\ Top.target = Stop /\ ExitConfirmed(result)
                 /\ state' = "exited" /\ stack' = <<>> /\ terminals' = {}
                 /\ outcomes' = ended
                 /\ UNCHANGED <<hostVars, reading, nextCall, served, asked, fault>>
              \/ Top.target = Stop /\ Abort("stop")

Poll ==
    /\ Pumping /\ ~MustCancel /\ ~GraceIsOver /\ ~Complete
    /\ reading' = TRUE
    /\ UNCHANGED <<hostVars, state, stack, terminals, nextCall, served, asked, history>>
-----------------------------------------------------------------------------
\* Handlers of a message m that Read has taken: what changes but toEngine,
\* the stack, and the end of the read.
ReadTerminal(m) ==
    IF m.id \in Active /\ ~\E t \in terminals : t.id = m.id
    THEN /\ terminals' = terminals \cup {[id |-> m.id, answer |-> m.answer]}
         /\ toEngine' = Tail(toEngine) /\ reading' = FALSE
         /\ UNCHANGED <<toHost, hostState, state, stack, nextCall, served, asked, history>>
    ELSE Abort("protocol")

ReadAcknowledgement(m) ==
    IF m.id = Top.id /\ Top.cancelSent /\ ~Top.acknowledged
    THEN /\ stack' = WithTop([Top EXCEPT !.acknowledged = TRUE])
         /\ toEngine' = Tail(toEngine) /\ reading' = FALSE
         /\ UNCHANGED <<toHost, hostState, state, terminals, nextCall, served, asked, history>>
    ELSE Abort("protocol")

\* A service request is answered with reply, or served by a nested call.
Serve(reply, granted, frames) ==
    IF process = "gone" THEN Abort("pipe")
    ELSE /\ toHost' = Append(toHost, reply)
         /\ toEngine' = Tail(toEngine) /\ reading' = FALSE
         /\ services' = granted
         /\ stack' = frames
         /\ nextCall' = IF Len(frames) > Len(stack) THEN nextCall + 2 ELSE nextCall
         /\ lastService' = Head(toEngine).id
         /\ UNCHANGED <<hostState, state, terminals, asked, history>>

\* Fault: an interrupted pump serves as before.
FaultyInterrupted == FALSE

\* Cancellation and deadlines forbid new device work, not its release.
Interrupted == Top.cancelSent \/ Top.due \/ asked

Known(token) == token \in DOMAIN services /\ services[token] # Released
Refuse(m) == Serve(ServiceResponse(m.id, 0), services, stack)

\* PythonRuntime::Service for one request that is neither refused nor cyclic:
\* a lease granted, refused or erased; an invocation of a component elsewhere,
\* or of one in this worker by a nested call.
ServiceHandler(m) ==
    IF m.operation = "resolve"
    THEN LET granted == Append(services, m.object)
         IN Serve(ServiceResponse(m.id, Len(granted)), granted, stack) \/ Refuse(m)
    ELSE IF ~Known(m.object) THEN Refuse(m)
    ELSE IF m.operation = "release"
    THEN Serve(ServiceResponse(m.id, 0), [services EXCEPT ![m.object] = Released], stack)
    ELSE IF services[m.object] \notin Instances
    THEN Serve(ServiceResponse(m.id, 0), services, stack)
    ELSE IF Len(stack) >= MaxDepth \/ nextCall > 2 * MaxCalls THEN Refuse(m)
    ELSE Serve(CallMessage(nextCall, m.id, services[m.object]), services,
               Append(stack, Frame(services[m.object], m.id, m.object)))

\* The ancestry is the tokens and operations of the invocations being served.
\* A second invocation of a token may name the same operation or another.
ReadService(m) ==
    IF m.id % 2 # 1 \/ m.id <= lastService \/ m.parent \notin Active THEN Abort("protocol")
    ELSE \/ /\ m.operation = "invoke" /\ \E i \in DOMAIN stack : stack[i].token = m.object
            /\ Abort("cycle")
         \/ IF m.operation # "release" /\ Interrupted THEN Refuse(m) ELSE ServiceHandler(m)

\* One Read of Pump: a message, nothing within its 10 ms, or a broken pipe.
Read ==
    /\ state = "ready" /\ reading
    /\ \/ /\ toEngine # <<>>
          /\ LET m == Head(toEngine)
             IN \/ m.kind = "response" /\ ReadTerminal(m)
                \/ m.kind = "cancel" /\ ReadAcknowledgement(m)
                \/ m.kind = "request" /\ ReadService(m)
       \/ /\ toEngine = <<>> /\ process # "gone"
          /\ reading' = FALSE
          /\ UNCHANGED <<hostVars, state, stack, terminals, nextCall, served, asked, history>>
       \/ toEngine = <<>> /\ process = "gone" /\ Abort("pipe")
-----------------------------------------------------------------------------
Pump == SendCancel \/ GiveUp \/ Return \/ Poll \/ Read

Next ==
    \/ Start
    \/ \E target \in Entry \cup {Stop} : Call(target)
    \/ Pump
    \/ TimePasses \/ CancellationRequested
    \/ HostNext /\ UNCHANGED supervisorVars

Spec == Init /\ [][Next]_vars

\* The owner thread runs and time passes; the worker need not do anything.
FairSpec ==
    /\ Spec
    /\ WF_vars(Pump) /\ WF_vars(TimePasses)
-----------------------------------------------------------------------------
Results == Answers \cup {Lost} \cup [status : {"interrupted"}, unsure : BOOLEAN]

Frames == [id : Nat, target : Instances \cup {Stop}, via : Nat, token : Nat,
           cancelSent : BOOLEAN, acknowledged : BOOLEAN, due : BOOLEAN, late : BOOLEAN]

\* Types of both sides, and the bounds 16 and 64 the two programs set themselves.
TypeOK ==
    /\ HostTypeOK
    /\ state \in {"created", "ready", "exited", "faulted"}
    /\ stack \in Seq(Frames) /\ Len(stack) <= MaxDepth
    /\ reading \in BOOLEAN /\ asked \in BOOLEAN
    /\ terminals \subseteq [id : Nat, answer : Answers]
    /\ nextCall \in Nat /\ lastService \in Nat
    /\ services \in Seq(Targets \cup {Released})
    /\ fault \in {"none", "start", "pipe", "grace", "stop", "protocol", "cycle"}
    /\ outcomes \subseteq [id : Nat, result : Results]

\* However cancellations, deadlines, answers and nested calls cross, neither
\* end ever rejects a message of the other: a worker is not lost to a race.
PeersAgree == fault # "protocol" /\ ~failure

\* Between two calls nothing of the last one is left: no message in either
\* direction, no stored answer, no running operation, no service lease.
IdleIsQuiet ==
    state = "ready" /\ stack = <<>> /\ process # "gone" =>
        /\ toHost = <<>> /\ toEngine = <<>> /\ terminals = {}
        /\ calls = {} /\ pending = {} /\ held = {}
        /\ \A token \in DOMAIN services : services[token] = Released

\* The host works only for calls the engine still waits for, so no operation
\* acts on the bench after its call has ended, whether answered or lost.
WorkIsAwaited == calls # {} => {c.id : c \in calls} \subseteq Active

\* Every call that ended did so once: lost, or with its own answer, which is
\* a success only if the operation succeeded uninterrupted, and is uncertain
\* exactly when the operation said so.
OutcomeIsTrue ==
    /\ \A o, p \in outcomes : o.id = p.id => o = p
    /\ \A o \in outcomes : o.id \notin Active
    /\ \A o \in outcomes : o.result # Lost =>
           \E a \in answers : /\ a.id = o.id
                              /\ a.answer.unsure = o.result.unsure
                              /\ o.result.status = "ok" => a.answer.status = "ok"

\* A worker reported as exited is gone, was never faulted, lost no call and
\* leaves no service lease behind: EndSession then has nothing to report.
ExitIsClean ==
    state = "exited" =>
        /\ process = "gone" /\ fault = "none"
        /\ \A o \in outcomes : o.result # Lost
        /\ \A token \in DOMAIN services : services[token] = Released

\* Once a cancellation is under way anywhere on the stack, no step grants a
\* lease and none dispatches a further call.
InterruptedStartsNothing ==
    [][(\E i \in DOMAIN stack : stack[i].cancelSent) /\ stack' # <<>> =>
          Len(services') = Len(services) /\ Len(stack') <= Len(stack)]_vars

\* Every call ends, whatever the worker does: blocked, silent or waiting for
\* a lock, it is outlived by the deadline and the grace.
CallsEnd == (stack # <<>>) ~> (stack = <<>>)

\* "Track call ancestry and reject cyclic service calls instead of deadlocking"
\* (docs/architecture/stage-d4-managed-execution.md:97): no operation waits for
\* the lock of an instance whose operation waits for it further up the stack.
CyclesAreRejected ==
    \A c \in calls : ~c.running =>
        ~\E i, j \in DOMAIN stack : /\ i < j /\ stack[j].id = c.id
                                    /\ stack[i].target = c.target
=============================================================================
