----------------------------- MODULE PythonHost -----------------------------
(***************************************************************************)
(* artest_host/worker.py: the process that runs the components of a Python *)
(* package for the engine, and the two directions of the pipe to it.       *)
(*                                                                         *)
(* One event loop accepts messages and runs one task per engine request.   *)
(* The operations of an instance exclude each other by a lock; an          *)
(* operation may ask the engine for services, several at a time, and ends  *)
(* once all are answered.                                                  *)
(***************************************************************************)
EXTENDS Naturals, Sequences, FiniteSets

CONSTANTS Instances,       \* the live component instances
          Targets,         \* the configured service instances, here or elsewhere
          MaxDepth,        \* bound on nested calls, 16 in both programs
          MaxCompleted,    \* bound on the remembered terminal calls, 64
          MaxRequests,     \* bound of the model on service requests but releases
          MaxAwaited       \* bound of the model on requests awaited by an operation

ASSUME MaxDepthAssumption == MaxDepth \in Nat \ {0}
ASSUME MaxCompletedAssumption == MaxCompleted \in Nat \ {0}

Stop == "stop"

ASSUME StopAssumption == Stop \notin Instances

VARIABLES
    toHost,        \* messages on the way to the process
    toEngine,      \* messages on the way to the engine
    process,       \* "up", "done" once the loop is to end, "gone"
    failure,       \* the host rejected a message: Worker.failure
    calls,         \* Worker.calls with the task of each: request, lock, cancel event
    completed,     \* Worker.completed, oldest first
    pending,       \* Worker.pending: service requests awaited
    held,          \* the service handles an operation has resolved and not released
    nextRequest,   \* Worker.next_request
    lastRequest,   \* Worker.last_request
    answers        \* history: the terminal answers sent since the engine's last own call

taskVars == <<calls, pending, held>>
hostState == <<process, failure, completed, taskVars, nextRequest, lastRequest, answers>>
hostVars == <<toHost, toEngine, hostState>>

Answers == {[status |-> "ok", unsure |-> FALSE]} \cup
           [status : {"failed"}, unsure : BOOLEAN]

\* Envelopes: even ids are the engine's calls, odd ids the host's requests.
CallMessage(id, parent, target) ==
    [kind |-> "request", id |-> id, parent |-> parent, target |-> target]
ServiceMessage(id, parent, operation, object) ==
    [kind |-> "request", id |-> id, parent |-> parent, operation |-> operation, object |-> object]
CancelMessage(id) == [kind |-> "cancel", id |-> id]
AnswerMessage(id, answer) == [kind |-> "response", id |-> id, answer |-> answer]
\* The token of a granted lease, or 0: what an invocation brings back does not
\* matter, since the operation may do anything then.
ServiceResponse(id, token) == [kind |-> "response", id |-> id, token |-> token]

InitHost ==
    /\ toHost = <<>> /\ toEngine = <<>>
    /\ process = "up" /\ failure = FALSE
    /\ calls = {} /\ completed = <<>> /\ pending = {} /\ held = {}
    /\ nextRequest = 3 /\ lastRequest = 0
    /\ answers = {}

\* What the process kept in memory is gone with it.
NoMemory ==
    /\ calls' = {} /\ pending' = {} /\ held' = {}
    /\ completed' = <<>> /\ nextRequest' = 3 /\ lastRequest' = 0
-----------------------------------------------------------------------------
\* fail: the rejection of a message ends the loop.
Fail == /\ failure' = TRUE
        /\ process' = "done"
        /\ UNCHANGED <<toEngine, completed, taskVars, lastRequest>>

AcceptRequest(m) ==
    IF /\ m.id % 2 = 0 /\ m.id > lastRequest
       /\ Cardinality(calls) < MaxDepth
       /\ m.parent # 0 => \E p \in pending : p.id = m.parent
    THEN /\ lastRequest' = m.id
         /\ calls' = calls \cup {[id |-> m.id, target |-> m.target,
                                  running |-> FALSE, cancelled |-> FALSE]}
         /\ UNCHANGED <<toEngine, process, failure, completed, pending, held>>
    ELSE Fail

\* Fault: only an active call can be cancelled.
FaultyAcceptCancel(m) ==
    IF \E c \in calls : c.id = m.id /\ ~c.cancelled
    THEN /\ calls' = {IF c.id = m.id THEN [c EXCEPT !.cancelled = TRUE] ELSE c : c \in calls}
         /\ toEngine' = Append(toEngine, CancelMessage(m.id))
         /\ UNCHANGED <<process, failure, completed, pending, held, lastRequest>>
    ELSE Fail

\* A cancellation finds its call active or among the remembered ones, once.
AcceptCancel(m) ==
    LET Active(c) == c.id = m.id /\ ~c.cancelled
        Remembered(i) == completed[i].id = m.id /\ ~completed[i].cancelled
    IN IF (\E c \in calls : Active(c)) \/ \E i \in DOMAIN completed : Remembered(i)
       THEN /\ calls' = {IF Active(c) THEN [c EXCEPT !.cancelled = TRUE] ELSE c : c \in calls}
            /\ completed' = [i \in DOMAIN completed |->
                   IF Remembered(i) THEN [completed[i] EXCEPT !.cancelled = TRUE] ELSE completed[i]]
            /\ toEngine' = Append(toEngine, CancelMessage(m.id))
            /\ UNCHANGED <<process, failure, pending, held, lastRequest>>
       ELSE Fail

\* A service's answer; a resolved service is the operation's to release.
AcceptResponse(m) ==
    IF \E p \in pending : p.id = m.id
    THEN LET asked == CHOOSE p \in pending : p.id = m.id
         IN /\ pending' = pending \ {asked}
            /\ held' = IF m.token = 0 THEN held
                       ELSE held \cup {[call |-> asked.call, token |-> m.token]}
            /\ UNCHANGED <<toEngine, process, failure, completed, calls, lastRequest>>
    ELSE Fail

\* accept, run by the loop for each message the control thread reads.
Accept ==
    /\ process # "gone"
    /\ toHost # <<>>
    /\ toHost' = Tail(toHost)
    /\ LET m == Head(toHost)
       IN \/ m.kind = "request" /\ AcceptRequest(m)
          \/ m.kind = "cancel" /\ AcceptCancel(m)
          \/ m.kind = "response" /\ AcceptResponse(m)
    /\ UNCHANGED <<nextRequest, answers>>
-----------------------------------------------------------------------------
\* dispatch takes the lock of the instance before it runs the operation.
Begin(c) ==
    /\ process # "gone"
    /\ ~c.running /\ c.target # Stop
    /\ ~\E other \in calls : other.running /\ other.target = c.target
    /\ calls' = (calls \ {c}) \cup {[c EXCEPT !.running = TRUE]}
    /\ UNCHANGED <<toHost, toEngine, process, failure, completed, pending, held,
                   nextRequest, lastRequest, answers>>

Awaited(c) == {p \in pending : p.call = c.id}

SendRequest(c, operation, object) ==
    /\ toEngine' = Append(toEngine, ServiceMessage(nextRequest, c.id, operation, object))
    /\ pending' = pending \cup {[id |-> nextRequest, call |-> c.id]}
    /\ nextRequest' = nextRequest + 2

\* service, through Context.instrument and its service object: a cancelled
\* operation neither resolves nor invokes; what it resolved it releases.
Ask(c) ==
    /\ process # "gone"
    /\ c.running /\ Cardinality(Awaited(c)) < MaxAwaited
    /\ \/ /\ ~c.cancelled /\ nextRequest <= 2 * MaxRequests + 1
          /\ \E target \in Targets : SendRequest(c, "resolve", target)
          /\ UNCHANGED held
       \/ /\ ~c.cancelled /\ nextRequest <= 2 * MaxRequests + 1
          /\ \E h \in held : h.call = c.id /\ SendRequest(c, "invoke", h.token)
          /\ UNCHANGED held
       \/ \E h \in held : /\ h.call = c.id
                          /\ SendRequest(c, "release", h.token)
                          /\ held' = held \ {h}
    /\ UNCHANGED <<toHost, process, failure, calls, completed, lastRequest, answers>>

Remember(c) ==
    LET longer == Append(completed, [id |-> c.id, cancelled |-> c.cancelled])
    IN IF Len(longer) > MaxCompleted THEN Tail(longer) ELSE longer

\* The end of dispatch: the answer is sent, the call leaves the active ones.
\* STOP is refused while another call lives, and ends the loop when it is not.
Reply(c) ==
    /\ process # "gone"
    /\ c.running \/ c.target = Stop
    /\ Awaited(c) = {}
    /\ \A h \in held : h.call # c.id
    /\ \E answer \in Answers :
           /\ c.target = Stop => ~answer.unsure /\ (calls # {c} => answer.status # "ok")
           /\ toEngine' = Append(toEngine, AnswerMessage(c.id, answer))
           /\ answers' = answers \cup {[id |-> c.id, answer |-> answer]}
           /\ process' = IF c.target = Stop /\ answer.status = "ok" THEN "done" ELSE process
    /\ calls' = calls \ {c}
    /\ completed' = Remember(c)
    /\ UNCHANGED <<toHost, failure, pending, held, nextRequest, lastRequest>>

\* The process ends, its loop done or by a crash: what it has sent can still be read.
ProcessEnds ==
    /\ process # "gone"
    /\ process' = "gone"
    /\ toHost' = <<>>
    /\ NoMemory
    /\ UNCHANGED <<toEngine, failure, answers>>

HostNext == Accept \/ ProcessEnds \/ \E c \in calls : Begin(c) \/ Ask(c) \/ Reply(c)

\* Fault: the channel is closed, the process left to itself.
FaultyKilled == /\ toHost' = <<>> /\ toEngine' = <<>>
                /\ UNCHANGED hostState

\* TerminateJobObject: the process and all traffic are gone.
Killed ==
    /\ process' = "gone"
    /\ toHost' = <<>> /\ toEngine' = <<>>
    /\ NoMemory
    /\ UNCHANGED <<failure, answers>>

HostTypeOK ==
    /\ process \in {"up", "done", "gone"}
    /\ failure \in BOOLEAN
    /\ calls \subseteq [id : Nat, target : Instances \cup {Stop}, running : BOOLEAN, cancelled : BOOLEAN]
    /\ Cardinality(calls) <= MaxDepth
    /\ completed \in Seq([id : Nat, cancelled : BOOLEAN])
    /\ Len(completed) <= MaxCompleted
    /\ pending \subseteq [id : Nat, call : Nat]
    /\ held \subseteq [call : Nat, token : Nat]
    /\ nextRequest \in Nat /\ lastRequest \in Nat
    /\ answers \subseteq [id : Nat, answer : Answers]
=============================================================================
