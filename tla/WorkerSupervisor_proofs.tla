----------------------- MODULE WorkerSupervisor_proofs -----------------------
(***************************************************************************)
(* Proofs about the worker supervisor and the Python host at the other end *)
(* of its pipe: for any components, any nesting, any number of calls, of   *)
(* service requests and of requests awaited together, and whatever is      *)
(* cancelled, timed out or lost on the way.                                *)
(*                                                                         *)
(* The invariant is TypeInv and Core: what every message on the way, every *)
(* frame of the supervisor, every operation of the host, every request     *)
(* awaited and every handle has to do with the others.  Each step is shown *)
(* to preserve it in a lemma of its own (...KeepsCore), those of the types *)
(* first.  Which calls the host still knows when a cancellation reaches it *)
(* is a second invariant, PeerInv, over the first.                         *)
(***************************************************************************)
EXTENDS WorkerSupervisor, TLAPS, SequenceTheorems, FiniteSetTheorems
-----------------------------------------------------------------------------
(* Sequences: what the queues and the stack do.                            *)

\* The empty sequence, of any elements.
LEMMA EmptyAt == \A S : <<>> \in Seq(S) /\ Len(<<>>) = 0
  OBVIOUS

\* Append keeps the elements in their places and adds one at the end.
LEMMA AppendAt ==
    ASSUME NEW S, NEW s \in Seq(S), NEW e \in S
    PROVE  /\ Append(s, e) \in Seq(S)
           /\ Len(Append(s, e)) = Len(s) + 1
           /\ \A i \in 1 .. Len(s) : Append(s, e)[i] = s[i]
           /\ Append(s, e)[Len(s) + 1] = e
  OBVIOUS

\* Tail takes the first element and moves the others one place forward.
LEMMA TailAt ==
    ASSUME NEW S, NEW s \in Seq(S), s # <<>>
    PROVE  /\ Tail(s) \in Seq(S)
           /\ Len(Tail(s)) = Len(s) - 1
           /\ Len(s) > 0
           /\ Head(s) = s[1] /\ s[1] \in S
           /\ \A i \in 1 .. Len(s) - 1 : Tail(s)[i] = s[i + 1]
  BY HeadTailProperties

\* What is left without the last element is in its place.
LEMMA FrontAt ==
    ASSUME NEW S, NEW s \in Seq(S), s # <<>>
    PROVE  /\ SubSeq(s, 1, Len(s) - 1) \in Seq(S)
           /\ Len(SubSeq(s, 1, Len(s) - 1)) = Len(s) - 1
           /\ Len(s) > 0
           /\ s[Len(s)] \in S
           /\ \A i \in 1 .. Len(s) - 1 : SubSeq(s, 1, Len(s) - 1)[i] = s[i]
<1>1. Len(s) \in Nat /\ Len(s) > 0
  BY EmptySeq
<1>2. \A i \in 1 .. Len(s) : s[i] \in S
  BY ElementOfSeq
<1>3. PICK n \in Nat : Len(s) = n + 1
  BY <1>1
<1>4. /\ SubSeq(s, 1, n) \in Seq(S)
      /\ Len(SubSeq(s, 1, n)) = IF 1 <= n THEN n - 1 + 1 ELSE 0
      /\ \A i \in 1 .. n - 1 + 1 : SubSeq(s, 1, n)[i] = s[1 + i - 1]
  BY <1>2, <1>3, SubSeqProperties
<1>5. Len(s) - 1 = n
  BY <1>3
<1>6. Len(SubSeq(s, 1, n)) = n /\ \A i \in 1 .. n : SubSeq(s, 1, n)[i] = s[i]
  BY <1>4
<1>7. QED
  BY <1>1, <1>2, <1>4, <1>5, <1>6

\* WithTop: the last element is replaced.
LEMMA ReplaceLastAt ==
    ASSUME NEW S, NEW s \in Seq(S), s # <<>>, NEW e \in S
    PROVE  /\ Append(SubSeq(s, 1, Len(s) - 1), e) \in Seq(S)
           /\ Len(Append(SubSeq(s, 1, Len(s) - 1), e)) = Len(s)
           /\ \A i \in 1 .. Len(s) - 1 : Append(SubSeq(s, 1, Len(s) - 1), e)[i] = s[i]
           /\ Append(SubSeq(s, 1, Len(s) - 1), e)[Len(s)] = e
<1> DEFINE f == SubSeq(s, 1, Len(s) - 1)
<1>1. Len(s) \in Nat /\ Len(s) > 0
  BY EmptySeq
<1>2. f \in Seq(S) /\ Len(f) = Len(s) - 1 /\ \A i \in 1 .. Len(s) - 1 : f[i] = s[i]
  BY FrontAt
<1> HIDE DEF f
<1>3. /\ Append(f, e) \in Seq(S) /\ Len(Append(f, e)) = Len(f) + 1
      /\ \A i \in 1 .. Len(f) : Append(f, e)[i] = f[i]
      /\ Append(f, e)[Len(f) + 1] = e
  BY <1>2, AppendAt
<1>4. QED
  BY <1>1, <1>2, <1>3 DEF f

\* The elements of a sequence are of its type; it is empty when its length is 0.
LEMMA NonEmptySeq ==
    ASSUME NEW S, NEW s \in Seq(S)
    PROVE  /\ Len(s) \in Nat
           /\ DOMAIN s = 1 .. Len(s)
           /\ s = <<>> <=> Len(s) = 0
           /\ \A i \in 1 .. Len(s) : s[i] \in S
  BY EmptySeq, ElementOfSeq
-----------------------------------------------------------------------------
(* Types.                                                                  *)

\* The worker process exists, whether or not its host still reads.
Alive == process # "gone"

\* What the supervisor sends, and what the host sends.
HostMessages ==
    [kind : {"request"}, id : Nat, parent : Nat, target : Instances \cup {Stop}] \cup
    [kind : {"cancel"}, id : Nat] \cup
    [kind : {"response"}, id : Nat, token : Nat]

EngineMessages ==
    [kind : {"request"}, id : Nat, parent : Nat, operation : {"resolve"}, object : Targets] \cup
    [kind : {"request"}, id : Nat, parent : Nat, operation : {"invoke", "release"}, object : Nat] \cup
    [kind : {"cancel"}, id : Nat] \cup
    [kind : {"response"}, id : Nat, answer : Answers]

\* An operation in the host, and the tombstone it leaves.
Tasks == [id : Nat, target : Instances \cup {Stop}, running : BOOLEAN, cancelled : BOOLEAN]

Memories == [id : Nat, cancelled : BOOLEAN]

\* TypeOK, with the messages on the way and the finiteness of the calls.
TypeInv ==
    /\ TypeOK
    /\ toHost \in Seq(HostMessages)
    /\ toEngine \in Seq(EngineMessages)
    /\ IsFiniteSet(calls)

\* The types of the host's own variables.
HostTypeInv ==
    /\ HostTypeOK /\ IsFiniteSet(calls)
    /\ toHost \in Seq(HostMessages)
    /\ toEngine \in Seq(EngineMessages)

\* A new supervisor and a host that is not started are typed.
LEMMA TypeInitially == Init => TypeInv
<1> SUFFICES ASSUME Init PROVE TypeInv
  OBVIOUS
<1>1. IsFiniteSet(calls) /\ Cardinality(calls) = 0
  BY FS_EmptySet DEF Init, InitHost
<1>2. HostTypeInv
  <2> USE DEF Init, InitHost
  <2>1. toHost \in Seq(HostMessages) /\ toEngine \in Seq(EngineMessages)
    BY EmptyAt
  <2>2. completed \in Seq([id : Nat, cancelled : BOOLEAN]) /\ Len(completed) <= MaxCompleted
    BY EmptyAt, MaxCompletedAssumption
  <2>3. Cardinality(calls) <= MaxDepth
    BY <1>1, MaxDepthAssumption
  <2>4. QED
    BY <1>1, <2>1, <2>2, <2>3 DEF HostTypeInv, HostTypeOK
<1>3. /\ stack \in Seq(Frames) /\ Len(stack) <= MaxDepth
      /\ services \in Seq(Targets \cup {Released})
  BY EmptyAt, MaxDepthAssumption DEF Init
<1>4. QED
  BY <1>2, <1>3 DEF Init, TypeInv, TypeOK, HostTypeInv

\* A remembered call is a tombstone, and the tombstones stay within their bound.
LEMMA RememberType ==
    ASSUME TypeInv, NEW c \in calls
    PROVE  Remember(c) \in Seq(Memories) /\ Len(Remember(c)) <= MaxCompleted
<1> DEFINE longer == Append(completed, [id |-> c.id, cancelled |-> c.cancelled])
<1>1. completed \in Seq(Memories) /\ Len(completed) <= MaxCompleted /\ MaxCompleted \in Nat
  BY MaxCompletedAssumption DEF TypeInv, TypeOK, HostTypeOK, Memories
<1>2. [id |-> c.id, cancelled |-> c.cancelled] \in Memories
  BY DEF TypeInv, TypeOK, HostTypeOK, Memories
<1>3. longer \in Seq(Memories) /\ Len(longer) = Len(completed) + 1 /\ Len(completed) \in Nat
  BY <1>1, <1>2, AppendAt
<1>4. longer # <<>>
  BY <1>3, EmptySeq
<1>5. Tail(longer) \in Seq(Memories) /\ Len(Tail(longer)) = Len(longer) - 1
  BY <1>3, <1>4, TailAt
<1> HIDE DEF longer
<1>6. Remember(c) = IF Len(longer) > MaxCompleted THEN Tail(longer) ELSE longer
  BY DEF Remember, longer
<1>7. QED
  BY <1>1, <1>3, <1>5, <1>6

\* A host that has lost its memory keeps no call.
LEMMA NoMemoryType == NoMemory => /\ calls' = {} /\ IsFiniteSet(calls') /\ Cardinality(calls') = 0
  BY FS_EmptySet DEF NoMemory

\* A host that is killed keeps its types: nothing is left in it.
LEMMA KilledType ==
    ASSUME TypeInv, Killed PROVE HostTypeInv'
<1>1. NoMemory
  BY DEF Killed
<1>2. /\ calls' = {} /\ pending' = {} /\ held' = {} /\ completed' = <<>>
      /\ nextRequest' = 3 /\ lastRequest' = 0 /\ process' = "gone"
      /\ toHost' = <<>> /\ toEngine' = <<>> /\ failure' = failure /\ answers' = answers
  BY DEF Killed, NoMemory
<1>3. QED
  BY <1>1, <1>2, NoMemoryType, MaxDepthAssumption, MaxCompletedAssumption
     DEF HostTypeInv, HostTypeOK, TypeInv, TypeOK

\* So does a supervisor that loses its worker, for whatever reason.
LEMMA AbortType ==
    ASSUME TypeInv, NEW why \in {"start", "pipe", "grace", "stop", "protocol", "cycle"}, Abort(why)
    PROVE  TypeInv'
<1>1. HostTypeInv'
  BY KilledType DEF Abort, AbortCalls
<1>2. Active \subseteq Nat
  <2>1. stack \in Seq(Frames)
    BY DEF TypeInv, TypeOK
  <2>2. \A k \in DOMAIN stack : stack[k] \in Frames
    BY <2>1, NonEmptySeq
  <2>3. QED
    BY <2>2 DEF Active, Frames
<1>3. outcomes' \subseteq [id : Nat, result : Results]
  <2>1. outcomes \subseteq [id : Nat, result : Results]
    BY DEF TypeInv, TypeOK
  <2>2. \A id \in Active : [id |-> id, result |-> Lost] \in [id : Nat, result : Results]
    BY <1>2 DEF Results
  <2>3. outcomes' = outcomes \cup {[id |-> id, result |-> Lost] : id \in Active}
    BY DEF Abort, AbortCalls
  <2>4. QED
    BY <2>1, <2>2, <2>3, Zenon
<1>4. stack' \in Seq(Frames) /\ Len(stack') <= MaxDepth
  BY EmptyAt, MaxDepthAssumption DEF Abort, AbortCalls
<1>5. TypeOK'
  BY <1>1, <1>3, <1>4 DEF Abort, AbortCalls, served, HostTypeInv, TypeOK, TypeInv
<1>6. QED
  BY <1>1, <1>5 DEF TypeInv, HostTypeInv

\* Replacing the innermost frame, or adding one.
LEMMA FrameTypes ==
    ASSUME TypeInv
    PROVE  /\ stack \in Seq(Frames) /\ Len(stack) \in Nat /\ DOMAIN stack = 1 .. Len(stack)
           /\ \A k \in 1 .. Len(stack) : stack[k] \in Frames
           /\ stack # <<>> => Len(stack) > 0 /\ Top \in Frames /\ Top = stack[Len(stack)]
           /\ Active = {stack[k].id : k \in 1 .. Len(stack)}
  BY NonEmptySeq DEF TypeInv, TypeOK, Top, Active
\* What is on the way: the places of each kind of message in the two queues.
Of(queue, kind) == {i \in 1 .. Len(queue) : queue[i].kind = kind}

\* Nothing runs once the process is gone, and it is gone once the worker is
\* faulted or has exited.
ControlInv ==
    /\ stack # <<>> => state = "ready"
    /\ reading => stack # <<>>
    /\ state = "faulted" <=> fault # "none"
    /\ fault # "protocol"
    /\ state \in {"faulted", "exited"} => ~Alive
    /\ ~Alive => toHost = <<>> /\ calls = {} /\ pending = {} /\ held = {}

\* The frames: in the order in which their requests were met, all but the
\* outermost serving one, and only the innermost cancelled.
StackInv ==
    /\ nextCall >= 2 /\ nextCall % 2 = 0
    /\ \A k \in 1 .. Len(stack) :
          /\ stack[k].id > 0 /\ stack[k].id < nextCall /\ stack[k].id % 2 = 0
          /\ stack[k].via = 0 <=> k = 1
          /\ stack[k].via <= lastService
          /\ stack[k].cancelSent => k = Len(stack)
          /\ stack[k].acknowledged => stack[k].cancelSent
          /\ stack[k].target = Stop => k = 1
    /\ \A j, k \in 1 .. Len(stack) :
          j < k => stack[j].id < stack[k].id /\ stack[j].via < stack[k].via

\* A frame's request is still awaited by the operation that made it, the
\* second one's by the operation of the first.
WaitInv ==
    Alive => \A k \in 2 .. Len(stack) :
        \E p \in pending : /\ p.id = stack[k].via
                           /\ k = 2 => p.call = stack[1].id

\* Stored answers are those of frames that are to return.
TerminalInv ==
    /\ \A t \in terminals : t.id \in Active /\ t \in answers
    /\ \A t, u \in terminals : t.id = u.id => t = u

\* OutcomeIsTrue, with the calls still to come, and no loss before a fault.
OutcomeInv ==
    /\ OutcomeIsTrue
    /\ \A o \in outcomes : o.id < nextCall
    /\ state # "faulted" => \A o \in outcomes : o.result # Lost

\* Answers on their way to the engine: of a frame that has no other answer.
AnswerOK(i) ==
    /\ toEngine[i].id \in Active
    /\ [id |-> toEngine[i].id, answer |-> toEngine[i].answer] \in answers
    /\ \A t \in terminals : t.id # toEngine[i].id
    /\ \A c \in calls : c.id # toEngine[i].id
    /\ \A j \in Of(toEngine, "response") : toEngine[j].id = toEngine[i].id => j = i
    /\ \A j \in Of(toHost, "request") : toHost[j].id # toEngine[i].id

AnswerInv == \A i \in Of(toEngine, "response") : AnswerOK(i)

\* Service requests on their way: new, in order, and each ahead of the answer
\* of the call that makes it.
RequestOK(i) ==
    /\ toEngine[i].id % 2 = 1 /\ toEngine[i].id > lastService
    /\ toEngine[i].parent \in Active
    /\ \A t \in terminals : t.id # toEngine[i].parent
    /\ \A j \in Of(toEngine, "response") : j < i => toEngine[j].id # toEngine[i].parent
    /\ \A j \in Of(toEngine, "request") : j < i => toEngine[j].id < toEngine[i].id
    /\ Alive => [id |-> toEngine[i].id, call |-> toEngine[i].parent] \in pending

RequestInv == \A i \in Of(toEngine, "request") : RequestOK(i)

\* One cancellation or its acknowledgement is on the way, that of the
\* innermost frame.
CancelInv ==
    /\ \A i \in Of(toEngine, "cancel") :
          /\ stack # <<>> /\ toEngine[i].id = Top.id
          /\ Top.cancelSent /\ ~Top.acknowledged
          /\ \A j \in Of(toEngine, "cancel") : j = i
          /\ Of(toHost, "cancel") = {}
    /\ \A i \in Of(toHost, "cancel") :
          /\ stack # <<>> /\ toHost[i].id = Top.id
          /\ Top.cancelSent /\ ~Top.acknowledged
          /\ \A j \in Of(toHost, "cancel") : j = i
          /\ \A j \in Of(toHost, "request") : j < i

\* Calls on their way to the host: of a frame, new to the host, in order.
CallOK(i) ==
    /\ \E k \in 1 .. Len(stack) : /\ stack[k].id = toHost[i].id
                                  /\ stack[k].target = toHost[i].target
                                  /\ stack[k].via = toHost[i].parent
    /\ toHost[i].id > lastRequest
    /\ \A t \in terminals : t.id # toHost[i].id
    /\ \A j \in Of(toHost, "request") : j < i => toHost[j].id < toHost[i].id

CallInv == lastRequest < nextCall /\ \A i \in Of(toHost, "request") : CallOK(i)

\* Answers on their way to the host: each to a request that it awaits and that
\* no frame serves any more.
ReplyOK(i) ==
    /\ \E p \in pending : p.id = toHost[i].id
    /\ toHost[i].id <= lastService
    /\ \A k \in 1 .. Len(stack) : stack[k].via # toHost[i].id
    /\ \A j \in Of(toHost, "response") : toHost[j].id = toHost[i].id => j = i

ReplyInv == \A i \in Of(toHost, "response") : ReplyOK(i)

\* The operations of the host: each of a frame that has no answer yet.
TaskInv ==
    /\ \A c \in calls :
          /\ \E k \in 1 .. Len(stack) : stack[k].id = c.id /\ stack[k].target = c.target
          /\ c.id <= lastRequest
          /\ \A t \in terminals : t.id # c.id
          /\ c.target = Stop => ~c.running
    /\ \A c, d \in calls : c.id = d.id => c = d

\* What an operation awaits or holds is an operation's.
PendingInv ==
    /\ nextRequest % 2 = 1
    /\ Alive => lastService < nextRequest
    /\ \A p \in pending : p.id < nextRequest /\ \E c \in calls : c.id = p.call
    /\ \A p, q \in pending : p.id = q.id => p = q
    /\ \A h \in held : \E c \in calls : c.id = h.call

\* A lease is on its way to the operation that asked for it, held by one, or
\* its release is on the way.
LeaseInv ==
    Alive => \A token \in 1 .. Len(services) : services[token] # Released =>
        \/ \E i \in Of(toHost, "response") : toHost[i].token = token
        \/ \E h \in held : h.token = token
        \/ \E i \in Of(toEngine, "request") :
              toEngine[i].operation = "release" /\ toEngine[i].object = token

\* STOP is called when nothing is left, and nothing starts beside it.
StopInv ==
    stack # <<>> /\ stack[1].target = Stop =>
        /\ Len(stack) = 1
        /\ Of(toEngine, "request") = {}
        /\ \A token \in 1 .. Len(services) : services[token] = Released

\* No lease outlives the exit of a worker.
ExitInv ==
    state = "exited" => \A token \in 1 .. Len(services) : services[token] = Released

Core ==
    /\ ControlInv /\ StackInv /\ WaitInv /\ TerminalInv /\ OutcomeInv
    /\ AnswerInv /\ RequestInv /\ CancelInv /\ CallInv /\ ReplyInv
    /\ TaskInv /\ PendingInv /\ LeaseInv /\ StopInv /\ ExitInv

SupervisorTypeOK ==
    /\ state \in {"created", "ready", "exited", "faulted"}
    /\ stack \in Seq(Frames) /\ Len(stack) <= MaxDepth
    /\ reading \in BOOLEAN /\ asked \in BOOLEAN
    /\ terminals \subseteq [id : Nat, answer : Answers]
    /\ nextCall \in Nat /\ lastService \in Nat
    /\ services \in Seq(Targets \cup {Released})
    /\ fault \in {"none", "start", "pipe", "grace", "stop", "protocol", "cycle"}
    /\ outcomes \subseteq [id : Nat, result : Results]

\* The type invariant is the host's part and the supervisor's.
LEMMA TypeParts == TypeInv <=> HostTypeInv /\ SupervisorTypeOK
  BY DEF TypeInv, TypeOK, HostTypeInv, SupervisorTypeOK

\* The host's steps keep its types.
LEMMA AcceptType ==
    ASSUME TypeInv, Accept PROVE HostTypeInv'
<1> DEFINE m == toHost[1]
<1>1. /\ toHost \in Seq(HostMessages) /\ toHost # <<>>
      /\ m = Head(toHost) /\ m \in HostMessages
      /\ toHost' = Tail(toHost) /\ toHost' \in Seq(HostMessages)
      /\ UNCHANGED <<nextRequest, answers>>
  BY TailAt DEF TypeInv, Accept
<1>2. HostTypeOK /\ IsFiniteSet(calls) /\ toEngine \in Seq(EngineMessages)
  BY DEF TypeInv, TypeOK
<1>3. Cardinality(calls) \in Nat
  BY <1>2, FS_CardinalityType
<1>4. CASE Fail
  BY <1>1, <1>2, <1>4 DEF Fail, taskVars, HostTypeOK, HostTypeInv
<1>5. ASSUME m.kind = "request", AcceptRequest(m), ~Fail PROVE HostTypeInv'
  <2> DEFINE c == [id |-> m.id, target |-> m.target, running |-> FALSE, cancelled |-> FALSE]
  <2>1. /\ Cardinality(calls) < MaxDepth /\ lastRequest' = m.id
        /\ calls' = calls \cup {c}
        /\ UNCHANGED <<toEngine, process, failure, completed, pending, held>>
    BY <1>5 DEF AcceptRequest
  <2>2. m.id \in Nat /\ m.target \in Instances \cup {Stop}
    BY <1>1, <1>5 DEF HostMessages
  <2>3. c \in Tasks
    BY <2>2 DEF Tasks
  <2> HIDE DEF m, c
  <2>4. IsFiniteSet(calls') /\ Cardinality(calls') <= MaxDepth
    <3>1. /\ IsFiniteSet(calls \cup {c})
          /\ Cardinality(calls \cup {c}) = IF c \in calls THEN Cardinality(calls) ELSE Cardinality(calls) + 1
      BY <1>2, FS_AddElement
    <3>2. MaxDepth \in Nat
      BY MaxDepthAssumption
    <3>3. QED
      BY <1>3, <2>1, <3>1, <3>2
  <2>5. QED
    BY <1>1, <1>2, <2>1, <2>2, <2>3, <2>4 DEF HostTypeOK, HostTypeInv, Tasks
<1>6. ASSUME m.kind = "cancel", AcceptCancel(m), ~Fail PROVE HostTypeInv'
  <2> DEFINE f == [c \in calls |-> IF c.id = m.id /\ ~c.cancelled
                                   THEN [c EXCEPT !.cancelled = TRUE] ELSE c]
             Remembered(i) == completed[i].id = m.id /\ ~completed[i].cancelled
  <2>1. /\ calls' = {f[c] : c \in calls}
        /\ completed' = [i \in DOMAIN completed |->
               IF Remembered(i) THEN [completed[i] EXCEPT !.cancelled = TRUE] ELSE completed[i]]
        /\ toEngine' = Append(toEngine, CancelMessage(m.id))
        /\ UNCHANGED <<process, failure, pending, held, lastRequest>>
    BY <1>6 DEF AcceptCancel
  <2>2. CancelMessage(m.id) \in EngineMessages
    BY <1>1, <1>6 DEF HostMessages, EngineMessages, CancelMessage
  <2>3. toEngine' \in Seq(EngineMessages)
    BY <1>2, <2>1, <2>2, AppendAt
  <2>4. f \in Surjection(calls, calls')
    BY <2>1 DEF Surjection
  <2>5. IsFiniteSet(calls') /\ Cardinality(calls') <= Cardinality(calls)
    BY <1>2, <2>4, FS_Surjection
  <2>6. calls \subseteq Tasks
    BY <1>2 DEF HostTypeOK, Tasks
  <2>7. calls' \subseteq Tasks
    BY <2>1, <2>6 DEF Tasks
  <2>8. completed \in Seq(Memories) /\ Len(completed) \in Nat /\ DOMAIN completed = 1 .. Len(completed)
        /\ \A i \in 1 .. Len(completed) : completed[i] \in Memories
    <3>1. completed \in Seq(Memories)
      BY <1>2 DEF HostTypeOK, Memories
    <3>2. QED
      BY <3>1, NonEmptySeq
  <2>9. completed' \in Seq(Memories) /\ Len(completed') = Len(completed)
    <3> DEFINE n == Len(completed)
    <3>1. \A i \in 1 .. n : (IF Remembered(i) THEN [completed[i] EXCEPT !.cancelled = TRUE]
                                            ELSE completed[i]) \in Memories
      BY <2>8 DEF Memories
    <3>2. completed' \in [1 .. n -> Memories]
      BY <2>1, <2>8, <3>1
    <3>3. QED
      BY <2>8, <3>2
  <2>10. Cardinality(calls') <= MaxDepth
    BY <1>2, <1>3, <2>5, FS_CardinalityType, MaxDepthAssumption DEF HostTypeOK
  <2>11. QED
    BY <1>1, <1>2, <2>1, <2>3, <2>5, <2>7, <2>9, <2>10 DEF HostTypeOK, HostTypeInv, Memories, Tasks
<1>7. ASSUME m.kind = "response", AcceptResponse(m), ~Fail PROVE HostTypeInv'
  <2>1. PICK asked0 \in pending :
             /\ pending' = pending \ {asked0}
             /\ held' = IF m.token = 0 THEN held
                        ELSE held \cup {[call |-> asked0.call, token |-> m.token]}
             /\ UNCHANGED <<toEngine, process, failure, completed, calls, lastRequest>>
    BY <1>7 DEF AcceptResponse
  <2>2. m.token \in Nat
    BY <1>1, <1>7 DEF HostMessages
  <2>3. QED
    <3>1. pending' \subseteq [id : Nat, call : Nat]
      BY <1>2, <2>1 DEF HostTypeOK
    <3>2. held' \subseteq [call : Nat, token : Nat]
      <4>1. asked0.call \in Nat
        BY <1>2, <2>1 DEF HostTypeOK
      <4>2. [call |-> asked0.call, token |-> m.token] \in [call : Nat, token : Nat]
        BY <2>2, <4>1
      <4>3. QED
        BY <1>2, <2>1, <4>2 DEF HostTypeOK
    <3>3. QED
      BY <1>1, <1>2, <2>1, <3>1, <3>2 DEF HostTypeOK, HostTypeInv
<1>8. QED
  BY <1>1, <1>4, <1>5, <1>6, <1>7 DEF Accept

\* Starting an operation keeps the host's types.
LEMMA BeginType ==
    ASSUME TypeInv, NEW c \in calls, Begin(c) PROVE HostTypeInv'
<1> DEFINE d == [c EXCEPT !.running = TRUE]
<1>1. /\ calls' = (calls \ {c}) \cup {d}
      /\ UNCHANGED <<toHost, toEngine, process, failure, completed, pending, held,
                     nextRequest, lastRequest, answers>>
  BY DEF Begin
<1>2. HostTypeInv /\ calls \subseteq Tasks
  BY TypeParts DEF HostTypeInv, HostTypeOK, Tasks
<1>3. d \in Tasks
  BY <1>2 DEF Tasks
<1> HIDE DEF d
<1>4. /\ IsFiniteSet(calls) /\ Cardinality(calls) \in Nat
      /\ Cardinality(calls) <= MaxDepth /\ MaxDepth \in Nat
  BY <1>2, FS_CardinalityType, MaxDepthAssumption DEF HostTypeInv, HostTypeOK
<1>5. /\ IsFiniteSet(calls \ {c})
      /\ Cardinality(calls \ {c}) = Cardinality(calls) - 1
  BY <1>4, FS_RemoveElement
<1>6. /\ IsFiniteSet((calls \ {c}) \cup {d})
      /\ \/ Cardinality((calls \ {c}) \cup {d}) = Cardinality(calls \ {c})
         \/ Cardinality((calls \ {c}) \cup {d}) = Cardinality(calls \ {c}) + 1
  BY <1>5, FS_AddElement
<1>7. IsFiniteSet(calls') /\ Cardinality(calls') <= MaxDepth
  BY <1>1, <1>4, <1>5, <1>6
<1>8. QED
  BY <1>1, <1>2, <1>3, <1>7 DEF HostTypeInv, HostTypeOK, Tasks

\* What asking does: one request of a running operation is sent, and a handle
\* is dropped when the request releases it.
LEMMA AskShape ==
    ASSUME TypeInv, NEW c \in calls, Ask(c)
    PROVE  /\ Alive /\ c.running
           /\ UNCHANGED <<toHost, process, failure, calls, completed, lastRequest, answers>>
           /\ nextRequest' = nextRequest + 2
           /\ pending' = pending \cup {[id |-> nextRequest, call |-> c.id]}
           /\ \E m \in EngineMessages :
                 /\ m.kind = "request" /\ m.id = nextRequest /\ m.parent = c.id
                 /\ toEngine' = Append(toEngine, m)
                 /\ \/ held' = held
                    \/ \E h \in held : /\ h.call = c.id /\ held' = held \ {h}
                                       /\ m.operation = "release" /\ m.object = h.token
<1>1. HostTypeInv
  BY TypeParts
<1>2. c.id \in Nat /\ nextRequest \in Nat /\ \A h \in held : h.token \in Nat
  BY <1>1 DEF HostTypeInv, HostTypeOK
<1>3. /\ Alive /\ c.running
      /\ UNCHANGED <<toHost, process, failure, calls, completed, lastRequest, answers>>
  BY DEF Ask, Alive
<1>4. PICK operation, object :
         /\ SendRequest(c, operation, object)
         /\ \/ operation = "resolve" /\ object \in Targets /\ held' = held
            \/ operation = "invoke" /\ object \in Nat /\ held' = held
            \/ \E h \in held : /\ h.call = c.id /\ held' = held \ {h}
                               /\ operation = "release" /\ object = h.token
  BY <1>2 DEF Ask
<1> DEFINE m == ServiceMessage(nextRequest, c.id, operation, object)
<1>5. /\ toEngine' = Append(toEngine, m)
      /\ pending' = pending \cup {[id |-> nextRequest, call |-> c.id]}
      /\ nextRequest' = nextRequest + 2
  BY <1>4 DEF SendRequest
<1>6. /\ m.kind = "request" /\ m.id = nextRequest /\ m.parent = c.id
      /\ m.operation = operation /\ m.object = object
  BY DEF ServiceMessage
<1>7. m \in EngineMessages
  BY <1>2, <1>4 DEF ServiceMessage, EngineMessages
<1>8. QED
  BY <1>3, <1>4, <1>5, <1>6, <1>7

\* Asking for a service keeps them.
LEMMA AskType ==
    ASSUME TypeInv, NEW c \in calls, Ask(c) PROVE HostTypeInv'
<1>1. HostTypeInv
  BY TypeParts
<1>2. toEngine' \in Seq(EngineMessages)
  <2>1. PICK m \in EngineMessages : toEngine' = Append(toEngine, m)
    BY AskShape
  <2>2. toEngine \in Seq(EngineMessages)
    BY <1>1 DEF HostTypeInv
  <2>3. QED
    BY <2>1, <2>2, AppendAt
<1>3. pending' \subseteq [id : Nat, call : Nat] /\ nextRequest' \in Nat
  BY <1>1, AskShape DEF HostTypeInv, HostTypeOK
<1>4. held' \subseteq [call : Nat, token : Nat]
  BY <1>1, AskShape DEF HostTypeInv, HostTypeOK
<1>5. UNCHANGED <<toHost, process, failure, calls, completed, lastRequest, answers>>
  BY AskShape
<1>6. QED
  BY <1>1, <1>2, <1>3, <1>4, <1>5 DEF HostTypeInv, HostTypeOK

\* Answering a call keeps them.
LEMMA ReplyType ==
    ASSUME TypeInv, NEW c \in calls, Reply(c) PROVE HostTypeInv'
<1>1. HostTypeInv /\ c.id \in Nat
  BY TypeParts DEF HostTypeInv, HostTypeOK
<1>2. PICK answer \in Answers :
           /\ toEngine' = Append(toEngine, AnswerMessage(c.id, answer))
           /\ answers' = answers \cup {[id |-> c.id, answer |-> answer]}
           /\ process' = IF c.target = Stop /\ answer.status = "ok" THEN "done" ELSE process
  BY DEF Reply
<1>3. /\ calls' = calls \ {c} /\ completed' = Remember(c)
      /\ UNCHANGED <<toHost, failure, pending, held, nextRequest, lastRequest>>
  BY DEF Reply
<1>4. AnswerMessage(c.id, answer) \in EngineMessages
  BY <1>1 DEF AnswerMessage, EngineMessages
<1>5. toEngine' \in Seq(EngineMessages)
  BY <1>1, <1>2, <1>4, AppendAt DEF HostTypeInv
<1>6. /\ IsFiniteSet(calls) /\ Cardinality(calls) \in Nat
      /\ Cardinality(calls) <= MaxDepth /\ MaxDepth \in Nat
  BY <1>1, FS_CardinalityType, MaxDepthAssumption DEF HostTypeInv, HostTypeOK
<1>7. IsFiniteSet(calls') /\ Cardinality(calls') <= MaxDepth
  BY <1>3, <1>6, FS_RemoveElement
<1>8. completed' \in Seq(Memories) /\ Len(completed') <= MaxCompleted
  BY <1>3, RememberType
<1>9. answers' \subseteq [id : Nat, answer : Answers]
  BY <1>1, <1>2 DEF HostTypeInv, HostTypeOK
<1>10. process' \in {"up", "done", "gone"}
  BY <1>1, <1>2 DEF HostTypeInv, HostTypeOK
<1>11. QED
  BY <1>1, <1>3, <1>5, <1>7, <1>8, <1>9, <1>10 DEF HostTypeInv, HostTypeOK, Memories

\* The end of the process keeps them.
LEMMA ProcessEndsType ==
    ASSUME TypeInv, ProcessEnds PROVE HostTypeInv'
<1>1. HostTypeInv
  BY TypeParts
<1>2. /\ process' = "gone" /\ toHost' = <<>> /\ NoMemory
      /\ UNCHANGED <<toEngine, failure, answers>>
  BY DEF ProcessEnds
<1>3. toHost' \in Seq(HostMessages) /\ completed' \in Seq([id : Nat, cancelled : BOOLEAN]) /\ Len(completed') = 0
  BY <1>2, EmptyAt DEF NoMemory
<1>4. QED
  BY <1>1, <1>2, <1>3, NoMemoryType, MaxDepthAssumption, MaxCompletedAssumption
     DEF HostTypeInv, HostTypeOK, NoMemory

\* Every step of the host keeps the type invariant.
LEMMA HostTypeStep ==
    ASSUME TypeInv, HostNext, UNCHANGED supervisorVars PROVE TypeInv'
<1>1. HostTypeInv'
  BY AcceptType, BeginType, AskType, ReplyType, ProcessEndsType DEF HostNext
<1>2. SupervisorTypeOK'
  BY TypeParts DEF SupervisorTypeOK, supervisorVars, served, history
<1>3. QED
  BY <1>1, <1>2 DEF TypeInv, TypeOK, HostTypeInv, SupervisorTypeOK
\* What serving a request does: it is answered at once, or a nested call is
\* made for it; only the answer to an uninterrupted resolve grants a lease.
Answered(m, token, granted) ==
    /\ toHost' = Append(toHost, ServiceResponse(m.id, token))
    /\ services' = granted
    /\ UNCHANGED <<stack, nextCall>>

Nested(m, target) ==
    /\ ~Interrupted /\ Len(stack) < MaxDepth /\ ~(nextCall > 2 * MaxCalls)
    /\ toHost' = Append(toHost, CallMessage(nextCall, m.id, target))
    /\ stack' = Append(stack, Frame(target, m.id, m.object))
    /\ nextCall' = nextCall + 2
    /\ services' = services

Served(m) ==
    /\ Alive
    /\ m.id % 2 = 1 /\ m.id > lastService /\ m.parent \in Active
    /\ toEngine' = Tail(toEngine) /\ reading' = FALSE /\ lastService' = m.id
    /\ UNCHANGED <<hostState, state, terminals, asked, history>>
    /\ \/ /\ m.operation = "release" => ~Known(m.object)
          /\ Answered(m, 0, services)
       \/ /\ m.operation = "resolve" /\ ~Interrupted
          /\ Answered(m, Len(services) + 1, Append(services, m.object))
       \/ /\ m.operation = "release" /\ m.object \in DOMAIN services
          /\ Answered(m, 0, [services EXCEPT ![m.object] = Released])
       \/ \E target \in Instances : m.operation = "invoke" /\ Nested(m, target)

\* Reading a request either serves it or loses the worker, and when that is for a
\* broken protocol the request itself is at fault.
LEMMA ServeShape ==
    ASSUME TypeInv, NEW m \in EngineMessages, m.kind = "request", toEngine # <<>>, m = Head(toEngine),
           ReadService(m)
    PROVE  \/ Served(m)
           \/ \E why \in {"pipe", "protocol", "cycle"} :
                 /\ Abort(why)
                 /\ why = "protocol" => m.id % 2 # 1 \/ m.id <= lastService \/ m.parent \notin Active
<1>1. CASE m.id % 2 # 1 \/ m.id <= lastService \/ m.parent \notin Active
  BY <1>1 DEF ReadService
<1>2. CASE Abort("cycle") \/ Abort("pipe")
  BY <1>2
<1>3. ASSUME ~(m.id % 2 # 1 \/ m.id <= lastService \/ m.parent \notin Active),
             ~Abort("cycle"), ~Abort("pipe")
      PROVE  Served(m)
  <2>1. /\ stack \in Seq(Frames) /\ Len(stack) \in Nat
        /\ services \in Seq(Targets \cup {Released})
    BY FrameTypes DEF TypeInv, TypeOK
  <2>2. m.id \in Nat /\ lastService \in Nat
    BY DEF EngineMessages, TypeInv, TypeOK
  <2>3. m.id % 2 = 1 /\ m.id > lastService /\ m.parent \in Active
    BY <1>3, <2>2
  <2>4. IF m.operation # "release" /\ Interrupted THEN Refuse(m) ELSE ServiceHandler(m)
    BY <1>3 DEF ReadService
  <2>5. ASSUME NEW reply, NEW granted, NEW frames, Serve(reply, granted, frames)
        PROVE  /\ Alive
               /\ toHost' = Append(toHost, reply)
               /\ toEngine' = Tail(toEngine) /\ reading' = FALSE /\ lastService' = m.id
               /\ services' = granted /\ stack' = frames
               /\ nextCall' = IF Len(frames) > Len(stack) THEN nextCall + 2 ELSE nextCall
               /\ UNCHANGED <<hostState, state, terminals, asked, history>>
    BY <1>3, <2>5 DEF Serve, Alive
  <2>6. ASSUME NEW reply, NEW granted, Serve(reply, granted, stack)
        PROVE  UNCHANGED <<stack, nextCall>>
    <3>1. ~(Len(stack) > Len(stack))
      BY <2>1
    <3>2. QED
      BY <1>3, <2>6, <3>1 DEF Serve
  <2>7. CASE Refuse(m) /\ (m.operation = "release" => ~Known(m.object))
    <3>1. Serve(ServiceResponse(m.id, 0), services, stack)
      BY <2>7 DEF Refuse
    <3>2. QED
      BY <2>3, <2>5, <2>6, <2>7, <3>1 DEF Served, Answered
  <2>8. CASE ServiceHandler(m) /\ ~Refuse(m) /\ m.operation # "release"
    <3>1. CASE m.operation = "resolve"
      <4>1. ~Interrupted
        BY <2>4, <2>8, <3>1
      <4>2. Serve(ServiceResponse(m.id, Len(Append(services, m.object))), Append(services, m.object), stack)
        BY <2>8, <3>1 DEF ServiceHandler
      <4>3. m.object \in Targets
        BY <3>1 DEF EngineMessages
      <4>4. Len(Append(services, m.object)) = Len(services) + 1
        BY <2>1, <4>3, AppendAt
      <4>5. QED
        BY <2>3, <2>5, <2>6, <3>1, <4>1, <4>2, <4>4 DEF Served, Answered
    <3>3. CASE m.operation = "invoke" /\ services[m.object] \notin Instances
      <4>1. Serve(ServiceResponse(m.id, 0), services, stack)
        BY <2>8, <3>3 DEF ServiceHandler
      <4>2. QED
        BY <2>3, <2>5, <2>6, <3>3, <4>1 DEF Served, Answered
    <3>4. CASE m.operation = "invoke" /\ services[m.object] \in Instances
      <4> DEFINE frames == Append(stack, Frame(services[m.object], m.id, m.object))
      <4>1. ~Interrupted
        BY <2>4, <2>8, <3>4
      <4>2. Serve(CallMessage(nextCall, m.id, services[m.object]), services, frames)
            /\ Len(stack) < MaxDepth /\ ~(nextCall > 2 * MaxCalls)
        BY <2>1, <2>8, <3>4, MaxDepthAssumption DEF ServiceHandler
      <4>3. Frame(services[m.object], m.id, m.object) \in Frames
        BY <2>2, <3>4 DEF Frame, Frames, EngineMessages, TypeInv, TypeOK
      <4>4. Len(frames) > Len(stack)
        BY <2>1, <4>3, AppendAt
      <4>5. nextCall' = nextCall + 2
        BY <2>5, <4>2, <4>4
      <4>6. Nested(m, services[m.object])
        BY <2>5, <4>1, <4>2, <4>5 DEF Nested
      <4>7. QED
        BY <2>3, <2>5, <3>4, <4>2, <4>6 DEF Served
    <3>5. QED
      BY <2>8, <3>1, <3>3, <3>4 DEF EngineMessages
  <2>9. CASE m.operation = "release" /\ Known(m.object)
    <3>1. Serve(ServiceResponse(m.id, 0), [services EXCEPT ![m.object] = Released], stack)
          /\ m.object \in DOMAIN services
      BY <2>4, <2>9 DEF ServiceHandler, Known
    <3>2. QED
      BY <2>3, <2>5, <2>6, <2>9, <3>1 DEF Served, Answered
  <2>10. CASE m.operation = "release" /\ ~Known(m.object)
    <3>1. Refuse(m)
      BY <2>4, <2>10 DEF ServiceHandler
    <3>2. QED
      BY <2>7, <2>10, <3>1
  <2>11. QED
    BY <2>4, <2>7, <2>8, <2>9, <2>10
<1>4. QED
  BY <1>1, <1>2, <1>3

\* A request that is served keeps the types, whether it is answered or calls again.
LEMMA ServedType ==
    ASSUME TypeInv, NEW m \in EngineMessages, m.kind = "request", toEngine # <<>>, Served(m)
    PROVE  TypeInv'
<1>1. HostTypeInv /\ SupervisorTypeOK
  BY TypeParts
<1>2. m.id \in Nat
  BY DEF EngineMessages
<1>3. UNCHANGED <<hostState, state, terminals, asked, history>> /\ reading' = FALSE /\ lastService' = m.id
  BY DEF Served
<1>4. toEngine' \in Seq(EngineMessages)
  BY <1>1, TailAt DEF Served, HostTypeInv
<1>5. services \in Seq(Targets \cup {Released}) /\ Len(services) \in Nat
      /\ DOMAIN services = 1 .. Len(services) /\ \A k \in 1 .. Len(services) : services[k] \in Targets \cup {Released}
  <2>1. services \in Seq(Targets \cup {Released})
    BY <1>1 DEF SupervisorTypeOK
  <2>2. QED
    BY <2>1, NonEmptySeq
<1>6. /\ toHost' \in Seq(HostMessages)
      /\ services' \in Seq(Targets \cup {Released})
      /\ stack' \in Seq(Frames) /\ Len(stack') <= MaxDepth
      /\ nextCall' \in Nat
  <2>1. ASSUME NEW token \in Nat, NEW granted \in Seq(Targets \cup {Released}), Answered(m, token, granted)
        PROVE  <1>6!:
    <3>1. ServiceResponse(m.id, token) \in HostMessages
      BY <1>2 DEF ServiceResponse, HostMessages
    <3>2. toHost' \in Seq(HostMessages)
      BY <1>1, <2>1, <3>1, AppendAt DEF Answered, HostTypeInv
    <3>3. QED
      BY <1>1, <2>1, <3>2 DEF Answered, SupervisorTypeOK
  <2>2. ASSUME NEW target \in Instances, Nested(m, target), m.operation = "invoke" PROVE <1>6!:
    <3>1. nextCall \in Nat /\ m.object \in Nat
      BY <1>1, <2>2 DEF SupervisorTypeOK, EngineMessages
    <3>2. CallMessage(nextCall, m.id, target) \in HostMessages
      BY <1>2, <3>1 DEF CallMessage, HostMessages
    <3>3. Frame(target, m.id, m.object) \in Frames
      BY <1>2, <3>1 DEF Frame, Frames
    <3>4. toHost' \in Seq(HostMessages)
      BY <1>1, <2>2, <3>2, AppendAt DEF Nested, HostTypeInv
    <3>5. stack' \in Seq(Frames) /\ Len(stack') = Len(stack) + 1 /\ Len(stack) \in Nat
      BY <2>2, <3>3, AppendAt, FrameTypes DEF Nested
    <3>6. QED
      BY <1>5, <2>2, <3>1, <3>4, <3>5, MaxDepthAssumption DEF Nested
  <2>3. ASSUME m.operation = "resolve" PROVE Append(services, m.object) \in Seq(Targets \cup {Released})
    <3>1. m.object \in Targets \cup {Released}
      BY <2>3 DEF EngineMessages
    <3>2. QED
      BY <1>5, <3>1, AppendAt
  <2>4. [services EXCEPT ![m.object] = Released] \in Seq(Targets \cup {Released})
    <3> DEFINE new == [services EXCEPT ![m.object] = Released]
    <3>1. new \in [1 .. Len(services) -> Targets \cup {Released}]
      BY <1>5
    <3>2. QED
      BY <1>5, <3>1
  <2>5. 0 \in Nat /\ Len(services) + 1 \in Nat
    BY <1>5
  <2>6. QED
    BY <1>5, <2>1, <2>2, <2>3, <2>4, <2>5 DEF Served
<1>7. HostTypeInv'
  BY <1>1, <1>3, <1>4, <1>6 DEF HostTypeInv, HostTypeOK, hostState, taskVars
<1>8. SupervisorTypeOK'
  BY <1>1, <1>2, <1>3, <1>6 DEF SupervisorTypeOK, history
<1>9. QED
  BY <1>7, <1>8 DEF TypeInv, TypeOK, HostTypeInv, SupervisorTypeOK

\* A call of the engine keeps the types.
LEMMA CallType ==
    ASSUME TypeInv, NEW target \in Instances \cup {Stop}, Call(target)
    PROVE  TypeInv'
<1>1. HostTypeInv /\ SupervisorTypeOK
  BY TypeParts
<1>2. nextCall \in Nat /\ nextCall' \in Nat /\ asked' \in BOOLEAN
  <2>1. nextCall \in Nat /\ nextCall' = nextCall + 2 /\ asked' = FALSE
    BY <1>1 DEF Call, SupervisorTypeOK
  <2>2. asked' \in BOOLEAN
    BY <2>1, Zenon
  <2>3. QED
    BY <2>1, <2>2
<1>3. CASE process = "gone"
  <2>1. /\ state' = "faulted" /\ fault' = "pipe"
        /\ outcomes' = outcomes \cup {[id |-> nextCall, result |-> Lost]}
        /\ Killed
        /\ UNCHANGED <<stack, reading, terminals, served>>
    BY <1>3 DEF Call
  <2>2. HostTypeInv'
    BY <2>1, KilledType
  <2>3. SupervisorTypeOK'
    BY <1>1, <1>2, <2>1 DEF SupervisorTypeOK, Results, served
  <2>4. QED
    BY <2>2, <2>3 DEF TypeInv, TypeOK, HostTypeInv, SupervisorTypeOK
<1>4. CASE process # "gone"
  <2>1. /\ stack' = <<Frame(target, 0, 0)>>
        /\ toHost' = Append(toHost, CallMessage(nextCall, 0, target))
        /\ outcomes' = {} /\ answers' = {}
        /\ UNCHANGED <<toEngine, process, failure, completed, taskVars, nextRequest, lastRequest>>
        /\ UNCHANGED <<state, reading, terminals, served, fault>>
    BY <1>4 DEF Call
  <2>2. CallMessage(nextCall, 0, target) \in HostMessages
    BY <1>2 DEF CallMessage, HostMessages
  <2>3. toHost' \in Seq(HostMessages)
    BY <1>1, <2>1, <2>2, AppendAt DEF HostTypeInv
  <2>4. Frame(target, 0, 0) \in Frames
    BY <1>2 DEF Frame, Frames
  <2>5. stack' \in Seq(Frames) /\ Len(stack') = 1
    BY <2>1, <2>4
  <2>6. HostTypeInv'
    BY <1>1, <2>1, <2>3 DEF HostTypeInv, HostTypeOK, taskVars
  <2>7. SupervisorTypeOK'
    BY <1>1, <1>2, <2>1, <2>5, MaxDepthAssumption DEF SupervisorTypeOK, served
  <2>8. QED
    BY <2>6, <2>7 DEF TypeInv, TypeOK, HostTypeInv, SupervisorTypeOK
<1>5. QED
  BY <1>3, <1>4

\* Changing the innermost frame in place.
LEMMA WithTopAt ==
    ASSUME TypeInv, stack # <<>>, NEW frame \in Frames
    PROVE  /\ WithTop(frame) \in Seq(Frames)
           /\ Len(WithTop(frame)) = Len(stack)
           /\ \A k \in 1 .. Len(stack) - 1 : WithTop(frame)[k] = stack[k]
           /\ WithTop(frame)[Len(stack)] = frame
<1>1. stack \in Seq(Frames)
  BY FrameTypes
<1>2. WithTop(frame) = Append(SubSeq(stack, 1, Len(stack) - 1), frame)
  BY DEF WithTop, Below
<1>3. QED
  BY <1>1, <1>2, ReplaceLastAt

\* The steps that only mark frames, or the reading: what they leave alone.
LEMMA FramesChange ==
    ASSUME TypeInv, stack' \in Seq(Frames), Len(stack') <= Len(stack),
           toHost' \in Seq(HostMessages), reading' \in BOOLEAN, asked' \in BOOLEAN,
           terminals' \subseteq [id : Nat, answer : Answers],
           toEngine' \in Seq(EngineMessages),
           outcomes' \subseteq [id : Nat, result : Results],
           state' \in {"created", "ready", "exited", "faulted"},
           UNCHANGED <<hostState, nextCall, served, fault>>
    PROVE  TypeInv'
<1>1. HostTypeInv /\ SupervisorTypeOK /\ Len(stack) \in Nat
  BY TypeParts, FrameTypes
<1>2. Len(stack') \in Nat
  BY NonEmptySeq
<1>3. Len(stack') <= MaxDepth
  BY <1>1, <1>2, MaxDepthAssumption DEF SupervisorTypeOK
<1>4. HostTypeInv' /\ SupervisorTypeOK'
  BY <1>1, <1>3 DEF HostTypeInv, HostTypeOK, SupervisorTypeOK, hostState, taskVars, served
<1>5. QED
  BY <1>4 DEF TypeInv, TypeOK, HostTypeInv, SupervisorTypeOK

\* Time that passes keeps the types.
LEMMA TimeType ==
    ASSUME TypeInv, TimePasses PROVE TypeInv'
<1>1. /\ stack \in Seq(Frames) /\ DOMAIN stack = 1 .. Len(stack) /\ Len(stack) \in Nat
      /\ \A k \in 1 .. Len(stack) : stack[k] \in Frames
  BY FrameTypes
<1>2. UNCHANGED <<hostVars, state, reading, terminals, nextCall, served, asked, history>>
  BY DEF TimePasses, DeadlinePasses, GracePasses
<1>3. stack' \in Seq(Frames) /\ Len(stack') <= Len(stack)
  <2>1. CASE DeadlinePasses
    <3>1. PICK i \in 1 .. Len(stack) :
               stack' = [j \in 1 .. Len(stack) |->
                            IF j >= i THEN [stack[j] EXCEPT !.due = TRUE] ELSE stack[j]]
      BY <1>1, <2>1 DEF DeadlinePasses
    <3>2. \A j \in 1 .. Len(stack) : [stack[j] EXCEPT !.due = TRUE] \in Frames
      BY <1>1 DEF Frames
    <3>3. stack' \in [1 .. Len(stack) -> Frames]
      BY <1>1, <3>1, <3>2
    <3>4. QED
      BY <1>1, <3>3
  <2>2. CASE GracePasses
    <3>1. stack # <<>> /\ stack' = WithTop([Top EXCEPT !.late = TRUE])
      BY <2>2 DEF GracePasses
    <3>2. [Top EXCEPT !.late = TRUE] \in Frames
      BY <3>1, FrameTypes DEF Frames
    <3>3. QED
      BY <1>1, <3>1, <3>2, WithTopAt
  <2>3. QED
    BY <2>1, <2>2 DEF TimePasses
<1>4. QED
  BY <1>2, <1>3, FramesChange DEF hostVars, history, TypeInv, TypeOK

\* Sending a cancellation keeps the types.
LEMMA SendCancelType ==
    ASSUME TypeInv, SendCancel PROVE TypeInv'
<1>1. CASE process = "gone"
  BY <1>1, AbortType DEF SendCancel
<1>2. CASE process # "gone"
  <2>1. /\ toHost' = Append(toHost, CancelMessage(Top.id))
        /\ stack' = WithTop([Top EXCEPT !.cancelSent = TRUE])
        /\ reading' = TRUE /\ stack # <<>>
        /\ UNCHANGED <<toEngine, hostState, state, terminals, nextCall, served, asked, history>>
    BY <1>2 DEF SendCancel, Pumping
  <2>2. [Top EXCEPT !.cancelSent = TRUE] \in Frames /\ Top.id \in Nat
    BY <2>1, FrameTypes DEF Frames
  <2>3. CancelMessage(Top.id) \in HostMessages
    BY <2>2 DEF CancelMessage, HostMessages
  <2>4. toHost' \in Seq(HostMessages)
    BY <2>1, <2>3, AppendAt DEF TypeInv
  <2>5. stack' \in Seq(Frames) /\ Len(stack') = Len(stack) /\ Len(stack) \in Nat
    BY <2>1, <2>2, WithTopAt, FrameTypes
  <2>6. QED
    BY <2>1, <2>4, <2>5, FramesChange DEF history, TypeInv, TypeOK
<1>3. QED
  BY <1>1, <1>2

\* What returning does to the stack: the innermost frame goes, with its answer.
LEMMA ReturnShape ==
    ASSUME TypeInv, Return
    PROVE  /\ Pumping /\ ~MustCancel /\ Complete
           /\ \E own \in Own : LET result == Classified(own.answer) IN
                 \/ /\ Top.target # Stop /\ (Top.via # 0 => Alive)
                    /\ stack' = Below /\ terminals' = terminals \ Own
                    /\ toHost' = IF Top.via = 0 THEN toHost
                                 ELSE Append(toHost, ServiceResponse(Top.via, 0))
                    /\ outcomes' = outcomes \cup {[id |-> Top.id, result |-> result]}
                    /\ UNCHANGED <<toEngine, hostState, state, reading, nextCall, served, asked, fault>>
                 \/ /\ Top.target = Stop /\ result.status = "ok" /\ ~Alive
                    /\ state' = "exited" /\ stack' = <<>> /\ terminals' = {}
                    /\ outcomes' = outcomes \cup {[id |-> Top.id, result |-> result]}
                    /\ UNCHANGED <<hostVars, reading, nextCall, served, asked, fault>>
                 \/ Abort("pipe") \/ Abort("stop")
  BY DEF Return, ExitConfirmed, Alive

\* A call that returns keeps the types.
LEMMA ReturnType ==
    ASSUME TypeInv, Return PROVE TypeInv'
<1> DEFINE ended(own) == outcomes \cup {[id |-> Top.id, result |-> Classified(own.answer)]}
<1>1. stack # <<>> /\ stack \in Seq(Frames) /\ Top \in Frames
      /\ Len(stack) \in Nat /\ Len(stack) > 0
  BY FrameTypes, ReturnShape DEF Pumping
<1>2. \A own \in Own : ended(own) \subseteq [id : Nat, result : Results]
  <2> SUFFICES ASSUME NEW own \in Own PROVE ended(own) \subseteq [id : Nat, result : Results]
    OBVIOUS
  <2>1. own.answer \in Answers
    BY DEF Own, TypeInv, TypeOK
  <2>2. own.answer.unsure \in BOOLEAN
    <3>1. CASE own.answer = [status |-> "ok", unsure |-> FALSE]
      BY <3>1
    <3>2. CASE own.answer \in [status : {"failed"}, unsure : BOOLEAN]
      BY <3>2
    <3>3. QED
      BY <2>1, <3>1, <3>2 DEF Answers
  <2>3. Classified(own.answer) \in Results
    BY <2>1, <2>2 DEF Classified, Results
  <2>4. QED
    BY <1>1, <2>3 DEF Frames, TypeInv, TypeOK
<1>3. Below \in Seq(Frames) /\ Len(Below) <= Len(stack)
  BY <1>1, FrontAt DEF Below
<1>4. Append(toHost, ServiceResponse(Top.via, 0)) \in Seq(HostMessages)
  <2>1. ServiceResponse(Top.via, 0) \in HostMessages
    BY <1>1 DEF ServiceResponse, HostMessages, Frames
  <2>2. QED
    BY <2>1, AppendAt DEF TypeInv
<1>5. PICK own \in Own :
      \/ /\ Top.target # Stop /\ (Top.via # 0 => Alive)
         /\ stack' = Below /\ terminals' = terminals \ Own
         /\ toHost' = IF Top.via = 0 THEN toHost
                      ELSE Append(toHost, ServiceResponse(Top.via, 0))
         /\ outcomes' = ended(own)
         /\ UNCHANGED <<toEngine, hostState, state, reading, nextCall, served, asked, fault>>
      \/ /\ state' = "exited" /\ stack' = <<>> /\ terminals' = {}
         /\ outcomes' = ended(own)
         /\ UNCHANGED <<hostVars, reading, nextCall, served, asked, fault>>
      \/ Abort("pipe") \/ Abort("stop")
  BY ReturnShape
<1>6. CASE Abort("pipe") \/ Abort("stop")
  BY <1>6, AbortType
<1> HIDE DEF ended
<1>7. CASE /\ stack' = Below /\ terminals' = terminals \ Own
           /\ toHost' = IF Top.via = 0 THEN toHost
                        ELSE Append(toHost, ServiceResponse(Top.via, 0))
           /\ outcomes' = ended(own)
           /\ UNCHANGED <<toEngine, hostState, state, reading, nextCall, served, asked, fault>>
  BY <1>2, <1>3, <1>4, <1>7, FramesChange DEF TypeInv, TypeOK
<1>8. CASE /\ state' = "exited" /\ stack' = <<>> /\ terminals' = {}
           /\ outcomes' = ended(own)
           /\ UNCHANGED <<hostVars, reading, nextCall, served, asked, fault>>
  <2>1. stack' \in Seq(Frames) /\ Len(stack') <= Len(stack)
    BY <1>1, <1>8, EmptyAt
  <2>2. QED
    BY <1>2, <1>8, <2>1, FramesChange DEF TypeInv, TypeOK, hostVars
<1>9. QED
  BY <1>5, <1>6, <1>7, <1>8

\* Reading a message of the host keeps the types.
LEMMA ReadType ==
    ASSUME TypeInv, ControlInv, Read PROVE TypeInv'
<1> DEFINE m == toEngine[1]
<1>1. toEngine \in Seq(EngineMessages) /\ stack # <<>>
  BY DEF TypeInv, Read, ControlInv
<1>2. CASE toEngine # <<>>
  <2>1. m = Head(toEngine) /\ m \in EngineMessages /\ Tail(toEngine) \in Seq(EngineMessages)
    BY <1>1, <1>2, TailAt
  <2>2. ASSUME m.kind = "response", ReadTerminal(m), ~Abort("protocol") PROVE TypeInv'
    <3>1. [id |-> m.id, answer |-> m.answer] \in [id : Nat, answer : Answers]
      BY <2>1, <2>2 DEF EngineMessages
    <3>2. /\ terminals' = terminals \cup {[id |-> m.id, answer |-> m.answer]}
          /\ toEngine' = Tail(toEngine) /\ reading' = FALSE
          /\ UNCHANGED <<toHost, hostState, state, stack, nextCall, served, asked, history>>
      BY <2>2 DEF ReadTerminal
    <3>3. stack' \in Seq(Frames) /\ Len(stack') <= Len(stack)
      BY <3>2, FrameTypes
    <3>4. QED
      BY <2>1, <3>1, <3>2, <3>3, FramesChange DEF TypeInv, TypeOK, history
  <2>3. ASSUME m.kind = "cancel", ReadAcknowledgement(m), ~Abort("protocol") PROVE TypeInv'
    <3>1. [Top EXCEPT !.acknowledged = TRUE] \in Frames
      BY <1>1, FrameTypes DEF Frames
    <3>2. /\ stack' = WithTop([Top EXCEPT !.acknowledged = TRUE])
          /\ toEngine' = Tail(toEngine) /\ reading' = FALSE
          /\ UNCHANGED <<toHost, hostState, state, terminals, nextCall, served, asked, history>>
      BY <2>3 DEF ReadAcknowledgement
    <3>3. stack' \in Seq(Frames) /\ Len(stack') <= Len(stack)
      BY <1>1, <3>1, <3>2, WithTopAt, FrameTypes
    <3>4. QED
      BY <2>1, <3>2, <3>3, FramesChange DEF TypeInv, TypeOK, history
  <2>4. CASE m.kind = "request" /\ ReadService(m)
    BY <1>2, <2>1, <2>4, ServeShape, ServedType, AbortType
  <2>5. QED
    BY <1>2, <2>1, <2>2, <2>3, <2>4, AbortType DEF Read
<1>3. CASE toEngine = <<>> /\ ~Abort("pipe")
  <2>1. /\ reading' = FALSE
        /\ UNCHANGED <<hostVars, state, stack, terminals, nextCall, served, asked, history>>
    BY <1>3 DEF Read
  <2>2. stack' \in Seq(Frames) /\ Len(stack') <= Len(stack)
    BY <2>1, FrameTypes
  <2>3. QED
    BY <2>1, <2>2, FramesChange DEF TypeInv, TypeOK, hostVars, history
<1>4. QED
  BY <1>2, <1>3, AbortType DEF Read

\* Every step keeps the types.
LEMMA TypeStep ==
    ASSUME TypeInv, ControlInv, [Next]_vars PROVE TypeInv'
<1>1. ASSUME state' \in {"created", "ready", "exited", "faulted"},
             reading' \in BOOLEAN, asked' \in BOOLEAN,
             UNCHANGED <<hostVars, stack, terminals, nextCall, served, history>>
      PROVE  TypeInv'
  <2>1. stack' \in Seq(Frames) /\ Len(stack') <= Len(stack)
    BY <1>1, FrameTypes
  <2>2. QED
    BY <1>1, <2>1, FramesChange DEF TypeInv, TypeOK, hostVars, history
<1>2. CASE Start
  BY <1>1, <1>2, AbortType DEF Start, TypeInv, TypeOK
<1>3. CASE \E target \in Entry \cup {Stop} : Call(target)
  BY <1>3, CallType, EntryAssumption
<1>4. CASE SendCancel \/ GiveUp \/ Return \/ Read
  BY <1>4, SendCancelType, AbortType, ReturnType, ReadType DEF GiveUp
<1>5. CASE Poll \/ CancellationRequested \/ UNCHANGED vars
  BY <1>1, <1>5 DEF Poll, CancellationRequested, TypeInv, TypeOK, vars, supervisorVars
<1>6. CASE TimePasses
  BY <1>6, TimeType
<1>7. CASE HostNext /\ UNCHANGED supervisorVars
  BY <1>7, HostTypeStep
<1>8. QED
  BY <1>2, <1>3, <1>4, <1>5, <1>6, <1>7 DEF Next, Pump
-----------------------------------------------------------------------------
(* The messages of a kind in a queue that grows or shrinks.                *)

\* An empty queue has no messages of any kind.
LEMMA OfEmpty == \A kind : Of(<<>>, kind) = {}
  BY EmptyAt DEF Of

\* A message sent is behind those on the way, which stay where they are.
LEMMA OfAppend ==
    ASSUME NEW S, NEW q \in Seq(S), NEW e \in S
    PROVE  /\ \A kind : Of(Append(q, e), kind) = Of(q, kind) \cup {i \in {Len(q) + 1} : e.kind = kind}
           /\ \A kind : \A i \in Of(q, kind) :
                 i \in Nat /\ 0 < i /\ i <= Len(q) /\ Append(q, e)[i] = q[i]
           /\ Append(q, e)[Len(q) + 1] = e /\ Len(q) \in Nat
<1>1. /\ Len(q) \in Nat /\ Len(Append(q, e)) = Len(q) + 1
      /\ \A i \in 1 .. Len(q) : Append(q, e)[i] = q[i]
      /\ Append(q, e)[Len(q) + 1] = e
  BY AppendAt, NonEmptySeq
<1>2. QED
  BY <1>1 DEF Of

\* When the first message is taken, those behind it move one place forward.
LEMMA OfTail ==
    ASSUME NEW S, NEW q \in Seq(S), q # <<>>
    PROVE  /\ \A kind : \A i \in Of(Tail(q), kind) :
                 /\ i \in Nat /\ 0 < i /\ i + 1 \in Of(q, kind) /\ Tail(q)[i] = q[i + 1]
           /\ \A kind : \A i \in Of(q, kind) :
                 /\ i \in Nat /\ 0 < i
                 /\ i # 1 => i - 1 \in Of(Tail(q), kind) /\ Tail(q)[i - 1] = q[i]
           /\ Head(q) = q[1] /\ q[1] \in S /\ 1 \in Of(q, q[1].kind)
<1>1. /\ Len(q) \in Nat /\ Len(q) > 0 /\ Len(Tail(q)) = Len(q) - 1
      /\ Head(q) = q[1] /\ q[1] \in S
      /\ \A i \in 1 .. Len(q) - 1 : Tail(q)[i] = q[i + 1]
  BY TailAt, NonEmptySeq
<1>2. ASSUME NEW kind, NEW i \in Of(Tail(q), kind)
      PROVE  i \in Nat /\ 0 < i /\ i + 1 \in Of(q, kind) /\ Tail(q)[i] = q[i + 1]
  BY <1>1 DEF Of
<1>3. ASSUME NEW kind, NEW i \in Of(q, kind)
      PROVE  /\ i \in Nat /\ 0 < i
             /\ i # 1 => i - 1 \in Of(Tail(q), kind) /\ Tail(q)[i - 1] = q[i]
  <2>1. i \in 1 .. Len(q) /\ q[i].kind = kind
    BY DEF Of
  <2>2. CASE i # 1
    <3>1. i - 1 \in 1 .. Len(q) - 1 /\ (i - 1) + 1 = i
      BY <1>1, <2>1, <2>2
    <3>2. Tail(q)[i - 1] = q[i]
      BY <1>1, <3>1
    <3>3. QED
      BY <1>1, <2>1, <3>1, <3>2 DEF Of
  <2>3. QED
    BY <1>1, <2>1, <2>2
<1>4. 1 \in Of(q, q[1].kind)
  BY <1>1 DEF Of
<1>5. QED
  BY <1>1, <1>2, <1>3, <1>4

\* The places of a typed queue.
LEMMA OfTyped ==
    ASSUME NEW S, NEW q \in Seq(S)
    PROVE  \A kind : \A i \in Of(q, kind) : i \in 1 .. Len(q) /\ q[i] \in S /\ q[i].kind = kind
  BY NonEmptySeq DEF Of
-----------------------------------------------------------------------------
(* The losses, and the steps that change little.                           *)

\* Nothing is under way at first.
LEMMA CoreInitially == Init => Core
<1> SUFFICES ASSUME Init PROVE Core
  OBVIOUS
<1> USE DEF Init, InitHost
<1>1. Active = {} /\ Len(stack) = 0 /\ Len(services) = 0
  BY EmptyAt DEF Active
<1>2. ControlInv /\ StackInv /\ WaitInv /\ TerminalInv /\ OutcomeInv
  BY <1>1 DEF ControlInv, StackInv, WaitInv, TerminalInv, OutcomeInv, OutcomeIsTrue, Alive
<1>3. AnswerInv /\ RequestInv /\ CancelInv /\ CallInv /\ ReplyInv
  BY <1>1, OfEmpty DEF AnswerInv, AnswerOK, RequestInv, RequestOK, CancelInv, CallInv, CallOK, ReplyInv, ReplyOK
<1>4. TaskInv /\ PendingInv /\ LeaseInv /\ StopInv /\ ExitInv
  BY <1>1 DEF TaskInv, PendingInv, LeaseInv, StopInv, ExitInv
<1>5. QED
  BY <1>2, <1>3, <1>4 DEF Core

\* Losing calls empties everything.
LEMMA LossKeepsCore ==
    ASSUME TypeInv, Core, NEW ids \in SUBSET Nat,
           \A id \in ids : id < nextCall' /\ \A o \in outcomes : o.id # id,
           nextCall' \in Nat, nextCall' >= nextCall, nextCall' % 2 = 0,
           state' = "faulted", fault' \notin {"none", "protocol"},
           \A o \in outcomes' : o \in outcomes \/ (o.id \in ids /\ o = [id |-> o.id, result |-> Lost]),
           stack' = <<>>, reading' = FALSE, terminals' = {}, Killed, UNCHANGED served
    PROVE  Core'
<1>1. /\ toHost' = <<>> /\ toEngine' = <<>> /\ calls' = {} /\ pending' = {} /\ held' = {}
      /\ process' = "gone" /\ nextRequest' = 3 /\ lastRequest' = 0 /\ answers' = answers
  BY DEF Killed, NoMemory
<1>2. Active' = {} /\ Len(stack') = 0
  BY EmptyAt DEF Active
<1>3. nextCall \in Nat /\ nextCall >= 2
  BY DEF TypeInv, TypeOK, Core, StackInv
<1>4. ControlInv' /\ StackInv' /\ WaitInv' /\ TerminalInv'
  <2>1. ControlInv'
    BY <1>1, <1>2 DEF ControlInv, Alive
  <2>2. StackInv'
    <3>1. nextCall' >= 2 /\ nextCall' % 2 = 0
      BY <1>3
    <3>2. 1 .. Len(stack') = {}
      BY <1>2
    <3>3. QED
      BY <3>1, <3>2 DEF StackInv
  <2>3. WaitInv' /\ TerminalInv'
    BY <1>1 DEF WaitInv, TerminalInv, Alive
  <2>4. QED
    BY <2>1, <2>2, <2>3
<1>5. OutcomeInv'
  <2>1. /\ OutcomeIsTrue /\ \A o \in outcomes : o.id < nextCall /\ o.id \in Nat
    BY DEF Core, OutcomeInv, TypeInv, TypeOK
  <2>3. \A o \in outcomes' : o.id < nextCall'
    BY <1>3, <2>1
  <2>4. \A o, p \in outcomes' : o.id = p.id => o = p
    BY <2>1 DEF OutcomeIsTrue
  <2>5. \A o \in outcomes' : o.result # Lost =>
           \E a \in answers' : /\ a.id = o.id
                               /\ a.answer.unsure = o.result.unsure
                               /\ o.result.status = "ok" => a.answer.status = "ok"
    BY <1>1, <2>1 DEF OutcomeIsTrue
  <2>6. \A o \in outcomes' : o.id \notin Active'
    BY <1>2
  <2>7. OutcomeIsTrue'
    BY <2>4, <2>5, <2>6 DEF OutcomeIsTrue, Lost
  <2>8. QED
    BY <2>3, <2>7 DEF OutcomeInv
<1>6. AnswerInv' /\ RequestInv' /\ CancelInv' /\ CallInv' /\ ReplyInv'
  BY <1>1, <1>2, <1>3, OfEmpty DEF AnswerInv, AnswerOK, RequestInv, RequestOK, CancelInv, CallInv, CallOK, ReplyInv, ReplyOK
<1>7. TaskInv' /\ PendingInv' /\ LeaseInv' /\ StopInv' /\ ExitInv'
  BY <1>1, <1>2 DEF TaskInv, PendingInv, LeaseInv, StopInv, ExitInv, Alive
<1>8. QED
  BY <1>4, <1>5, <1>6, <1>7 DEF Core

\* The outcomes of an abort are losses, one of each call that was active.
LEMMA LostOutcome ==
    ASSUME NEW ids, NEW o \in {[id |-> id, result |-> Lost] : id \in ids}
    PROVE  o.id \in ids /\ o = [id |-> o.id, result |-> Lost]
<1>1. PICK id \in ids : o = [id |-> id, result |-> Lost]
  BY Zenon
<1>2. o.id = id
  BY <1>1
<1>3. QED
  BY <1>1, <1>2

\* Losing the worker keeps the invariant: every active call has its outcome, and
\* the host forgets what it had.
LEMMA AbortKeepsCore ==
    ASSUME TypeInv, Core, NEW why \in {"start", "pipe", "grace", "stop", "cycle"}, Abort(why)
    PROVE  Core'
<1>1. Active \subseteq Nat /\ \A id \in Active : id < nextCall /\ \A o \in outcomes : o.id # id
  <2>1. Active = {stack[k].id : k \in 1 .. Len(stack)} /\ \A k \in 1 .. Len(stack) : stack[k] \in Frames
    BY FrameTypes
  <2>2. Active \subseteq Nat /\ \A id \in Active : id < nextCall
    BY <2>1 DEF Core, StackInv, Frames
  <2>3. QED
    BY <2>2 DEF Core, OutcomeInv, OutcomeIsTrue
<1>2. nextCall \in Nat /\ nextCall % 2 = 0
  BY DEF TypeInv, TypeOK, Core, StackInv
<1>3. /\ state' = "faulted" /\ fault' = why
      /\ outcomes' = outcomes \cup {[id |-> id, result |-> Lost] : id \in Active}
      /\ stack' = <<>> /\ reading' = FALSE /\ terminals' = {}
      /\ Killed
      /\ UNCHANGED <<nextCall, served, asked>>
  BY DEF Abort, AbortCalls
<1>4. /\ fault' \notin {"none", "protocol"}
      /\ nextCall' \in Nat /\ nextCall' >= nextCall /\ nextCall' % 2 = 0
      /\ \A id \in Active : id < nextCall' /\ \A o \in outcomes : o.id # id
      /\ UNCHANGED served
  <2>1. nextCall' = nextCall /\ fault' = why /\ UNCHANGED served
    BY <1>3
  <2>2. why \notin {"none", "protocol"}
    OBVIOUS
  <2>3. QED
    BY <1>1, <1>2, <2>1, <2>2
<1>5. \A o \in outcomes' : o \in outcomes \/ (o.id \in Active /\ o = [id |-> o.id, result |-> Lost])
  <2>1. ASSUME NEW o \in outcomes', o \notin outcomes
        PROVE  o.id \in Active /\ o = [id |-> o.id, result |-> Lost]
    <3>1. o \in {[id |-> id, result |-> Lost] : id \in Active}
      BY <1>3, <2>1, Zenon
    <3>2. QED
      BY <3>1, LostOutcome
  <2>2. QED
    BY <2>1, Zenon
<1>6. QED
  BY <1>1, <1>3, <1>4, <1>5, LossKeepsCore

\* Nothing the invariant speaks of changes but the worker's start and the reading.
LEMMA IdleKeepsCore ==
    ASSUME TypeInv, Core, UNCHANGED <<hostVars, stack, terminals, nextCall, served, history>>,
           \/ state' = state
           \/ state = "created" /\ state' = "ready",
           reading' => stack # <<>>
    PROVE  Core'
<1> USE DEF hostVars, hostState, taskVars, served, history
<1>1. Active' = Active /\ Top' = Top /\ Alive' = Alive
      /\ \A kind : Of(toHost, kind)' = Of(toHost, kind) /\ Of(toEngine, kind)' = Of(toEngine, kind)
  BY DEF Active, Top, Alive, Of
<1>2. ControlInv'
  BY <1>1 DEF Core, ControlInv, Alive
<1>3. StackInv' /\ WaitInv' /\ TerminalInv'
  BY <1>1 DEF Core, StackInv, WaitInv, TerminalInv
<1>4. OutcomeInv'
  BY <1>1 DEF Core, OutcomeInv, OutcomeIsTrue
<1>5. AnswerInv'
  BY <1>1 DEF Core, AnswerInv, AnswerOK
<1>6. RequestInv' /\ CancelInv'
  BY <1>1 DEF Core, RequestInv, RequestOK, CancelInv
<1>7. CallInv' /\ ReplyInv'
  BY <1>1 DEF Core, CallInv, CallOK, ReplyInv, ReplyOK
<1>8. TaskInv' /\ PendingInv'
  BY <1>1 DEF Core, TaskInv, PendingInv
<1>9. LeaseInv' /\ StopInv' /\ ExitInv'
  BY <1>1 DEF Core, LeaseInv, StopInv, ExitInv
<1>10. QED
  BY <1>2, <1>3, <1>4, <1>5, <1>6, <1>7, <1>8, <1>9 DEF Core
-----------------------------------------------------------------------------
(* The host's steps.                                                       *)

\* What the invariants read of the types.
LEMMA Typed ==
    ASSUME TypeInv
    PROVE  /\ toHost \in Seq(HostMessages) /\ toEngine \in Seq(EngineMessages)
           /\ \A kind : \A i \in Of(toHost, kind) : i \in Nat /\ toHost[i] \in HostMessages /\ toHost[i].id \in Nat /\ toHost[i].kind = kind
           /\ \A kind : \A i \in Of(toEngine, kind) : i \in Nat /\ toEngine[i] \in EngineMessages /\ toEngine[i].id \in Nat /\ toEngine[i].kind = kind
           /\ calls \subseteq Tasks /\ \A c \in calls : c.id \in Nat
           /\ pending \subseteq [id : Nat, call : Nat] /\ \A p \in pending : p.id \in Nat
           /\ held \subseteq [call : Nat, token : Nat]
           /\ nextRequest \in Nat /\ lastRequest \in Nat /\ nextCall \in Nat /\ lastService \in Nat
           /\ Len(stack) \in Nat /\ Len(services) \in Nat
           /\ \A k \in 1 .. Len(stack) : stack[k].id \in Nat /\ stack[k].via \in Nat
<1>1. toHost \in Seq(HostMessages) /\ toEngine \in Seq(EngineMessages)
  BY DEF TypeInv
<1>2. \A m \in HostMessages \cup EngineMessages : m.id \in Nat
  BY DEF HostMessages, EngineMessages
<1>3. \A kind : \A i \in Of(toHost, kind) : i \in Nat /\ toHost[i] \in HostMessages /\ toHost[i].id \in Nat /\ toHost[i].kind = kind
  BY <1>1, <1>2, NonEmptySeq DEF Of
<1>4. \A kind : \A i \in Of(toEngine, kind) : i \in Nat /\ toEngine[i] \in EngineMessages /\ toEngine[i].id \in Nat /\ toEngine[i].kind = kind
  BY <1>1, <1>2, NonEmptySeq DEF Of
<1>5. calls \subseteq Tasks /\ \A c \in calls : c.id \in Nat
  BY DEF TypeInv, TypeOK, HostTypeOK, Tasks
<1>6. /\ pending \subseteq [id : Nat, call : Nat] /\ \A p \in pending : p.id \in Nat
      /\ held \subseteq [call : Nat, token : Nat]
      /\ nextRequest \in Nat /\ lastRequest \in Nat /\ nextCall \in Nat /\ lastService \in Nat
  BY DEF TypeInv, TypeOK, HostTypeOK
<1>7. Len(services) \in Nat
  BY NonEmptySeq DEF TypeInv, TypeOK
<1>8. Len(stack) \in Nat /\ \A k \in 1 .. Len(stack) : stack[k].id \in Nat /\ stack[k].via \in Nat
  BY FrameTypes DEF Frames
<1>9. QED
  BY <1>1, <1>3, <1>4, <1>5, <1>6, <1>7, <1>8

\* What a step of the host leaves alone.
LEMMA HostFrame ==
    ASSUME Core, UNCHANGED supervisorVars
    PROVE  /\ UNCHANGED <<state, stack, reading, terminals, nextCall, lastService, services, asked, fault, outcomes>>
           /\ Active' = Active /\ Top' = Top
           /\ StackInv' /\ ExitInv'
  BY DEF supervisorVars, served, history, Active, Top, Core, StackInv, ExitInv

\* Starting an operation keeps it: the call was accepted and not yet running.
LEMMA BeginKeepsCore ==
    ASSUME TypeInv, Core, NEW c \in calls, Begin(c), UNCHANGED supervisorVars
    PROVE  Core'
<1> DEFINE d == [c EXCEPT !.running = TRUE]
<1>1. /\ calls' = (calls \ {c}) \cup {d} /\ c.target # Stop
      /\ UNCHANGED <<toHost, toEngine, process, failure, completed, pending, held,
                     nextRequest, lastRequest, answers>>
      /\ Alive /\ Alive'
  BY DEF Begin, Alive
<1>2. d.id = c.id /\ d.target = c.target
  BY Typed DEF Tasks
<1> HIDE DEF d
<1>3. /\ \A b \in calls : \E e \in calls' : e.id = b.id
      /\ \A e \in calls' : \E b \in calls : b.id = e.id
  BY <1>1, <1>2
<1>4. ControlInv'
  BY <1>1, HostFrame DEF Core, ControlInv, Alive
<1>5. WaitInv' /\ TerminalInv'
  BY <1>1, HostFrame DEF Core, WaitInv, TerminalInv
<1>6. OutcomeInv'
  BY <1>1, HostFrame DEF Core, OutcomeInv, OutcomeIsTrue, Lost
<1>7. AnswerInv'
  <2>1. \A i \in Of(toEngine, "response") : \A e \in calls' : e.id # toEngine[i].id
    <3>1. AnswerInv
      BY DEF Core
    <3>2. \A i \in Of(toEngine, "response") : \A b \in calls : b.id # toEngine[i].id
      BY <3>1 DEF AnswerInv, AnswerOK
    <3>3. QED
      BY <1>3, <3>2
  <2>2. QED
    BY <1>1, <2>1, HostFrame DEF Core, AnswerInv, AnswerOK
<1>8. RequestInv' /\ CancelInv'
  BY <1>1, HostFrame DEF Core, RequestInv, RequestOK, CancelInv
<1>9. CallInv' /\ ReplyInv'
  BY <1>1, HostFrame DEF Core, CallInv, CallOK, ReplyInv, ReplyOK
<1>10. TaskInv'
  BY <1>1, <1>2, HostFrame DEF Core, TaskInv, Stop
<1>11. PendingInv'
  BY <1>1, <1>3, HostFrame DEF Core, PendingInv
<1>12. LeaseInv' /\ StopInv'
  BY <1>1, HostFrame DEF Core, LeaseInv, StopInv, Released, Stop
<1>13. QED
  BY <1>4, <1>5, <1>6, <1>7, <1>8, <1>9, <1>10, <1>11, <1>12, HostFrame DEF Core

\* The end of the process keeps it: what was on the way is gone with it.
LEMMA ProcessEndsKeepsCore ==
    ASSUME TypeInv, Core, ProcessEnds, UNCHANGED supervisorVars
    PROVE  Core'
<1>1. /\ toHost' = <<>> /\ process' = "gone" /\ ~Alive'
      /\ calls' = {} /\ pending' = {} /\ held' = {} /\ lastRequest' = 0 /\ nextRequest' = 3
      /\ UNCHANGED <<toEngine, answers>>
  BY DEF ProcessEnds, NoMemory, Alive
<1>2. \A kind : Of(toHost', kind) = {}
  BY <1>1, OfEmpty
<1>3. ControlInv'
  BY <1>1, HostFrame DEF Core, ControlInv
<1>4. WaitInv' /\ TerminalInv'
  BY <1>1, HostFrame DEF Core, WaitInv, TerminalInv
<1>5. OutcomeInv'
  BY <1>1, HostFrame DEF Core, OutcomeInv, OutcomeIsTrue, Lost
<1>6. AnswerInv' /\ RequestInv' /\ CancelInv'
  <2>1. AnswerInv'
    BY <1>1, <1>2, HostFrame DEF Core, AnswerInv, AnswerOK
  <2>2. RequestInv'
    BY <1>1, HostFrame DEF Core, RequestInv, RequestOK
  <2>3. CancelInv'
    BY <1>1, <1>2, HostFrame DEF Core, CancelInv
  <2>4. QED
    BY <2>1, <2>2, <2>3
<1>7. CallInv' /\ ReplyInv'
  BY <1>1, <1>2, HostFrame, Typed DEF Core, StackInv, CallInv, CallOK, ReplyInv, ReplyOK
<1>8. TaskInv' /\ PendingInv'
  BY <1>1 DEF TaskInv, PendingInv
<1>9. LeaseInv' /\ StopInv'
  BY <1>1, HostFrame DEF Core, LeaseInv, StopInv, Released, Stop
<1>10. QED
  BY <1>3, <1>4, <1>5, <1>6, <1>7, <1>8, <1>9, HostFrame DEF Core

\* A message that has been taken from toHost.
LEMMA HostTakes ==
    ASSUME TypeInv, Accept
    PROVE  /\ toHost' = Tail(toHost) /\ Alive /\ UNCHANGED <<nextRequest, answers>>
           /\ toHost[1] \in HostMessages /\ toHost[1].id \in Nat /\ 1 \in Of(toHost, toHost[1].kind)
           /\ \A kind : \A i \in Of(toHost', kind) :
                 i \in Nat /\ 0 < i /\ i + 1 \in Of(toHost, kind) /\ toHost'[i] = toHost[i + 1]
           /\ \A kind : \A i \in Of(toHost, kind) :
                 /\ i \in Nat /\ 0 < i
                 /\ i # 1 => i - 1 \in Of(toHost', kind) /\ toHost'[i - 1] = toHost[i]
           /\ \/ toHost[1].kind = "request" /\ AcceptRequest(toHost[1])
              \/ toHost[1].kind = "cancel" /\ AcceptCancel(toHost[1])
              \/ toHost[1].kind = "response" /\ AcceptResponse(toHost[1])
<1>1. /\ toHost \in Seq(HostMessages) /\ toHost # <<>> /\ toHost' = Tail(toHost)
      /\ UNCHANGED <<nextRequest, answers>>
  BY DEF TypeInv, Accept
<1>2. /\ \A kind : \A i \in Of(Tail(toHost), kind) :
            /\ i \in Nat /\ 0 < i /\ i + 1 \in Of(toHost, kind) /\ Tail(toHost)[i] = toHost[i + 1]
      /\ \A kind : \A i \in Of(toHost, kind) :
            /\ i \in Nat /\ 0 < i
            /\ i # 1 => i - 1 \in Of(Tail(toHost), kind) /\ Tail(toHost)[i - 1] = toHost[i]
      /\ Head(toHost) = toHost[1] /\ toHost[1] \in HostMessages /\ 1 \in Of(toHost, toHost[1].kind)
  BY <1>1, OfTail
<1>3. toHost[1].id \in Nat
  BY <1>2 DEF HostMessages
<1>4. QED
  BY <1>1, <1>2, <1>3 DEF Accept, Alive

\* Taking a message, whatever becomes of it, only shortens the way.
LEMMA TakingKeepsWay ==
    ASSUME TypeInv, Core, Accept, UNCHANGED supervisorVars,
           lastRequest' = lastRequest
    PROVE  CallInv'
<1>1. /\ \A i \in Of(toHost', "request") :
            i \in Nat /\ i + 1 \in Of(toHost, "request") /\ toHost'[i] = toHost[i + 1]
  BY HostTakes
<1>2. CallInv
  BY DEF Core
<1>3. QED
  BY <1>1, <1>2, HostFrame DEF CallInv, CallOK

\* A host that fails on a cancellation goes no further, and nothing else changes.
LEMMA FailKeepsCore ==
    ASSUME TypeInv, Core, Accept, Fail, toHost[1].kind = "cancel", UNCHANGED supervisorVars
    PROVE  Core'
<1>1. /\ process' = "done" /\ Alive /\ Alive'
      /\ UNCHANGED <<toEngine, completed, calls, pending, held, lastRequest, nextRequest, answers>>
  BY HostTakes DEF Fail, taskVars, Alive
<1>2. /\ \A kind : \A i \in Of(toHost', kind) :
            i \in Nat /\ 0 < i /\ i + 1 \in Of(toHost, kind) /\ toHost'[i] = toHost[i + 1]
      /\ \A i \in Of(toHost, "response") : i \in Nat /\ i - 1 \in Of(toHost', "response") /\ toHost'[i - 1] = toHost[i]
  <2>1. \A i \in Of(toHost, "response") : i # 1
    BY Typed
  <2>2. QED
    BY <2>1, HostTakes
<1>3. ControlInv'
  BY <1>1, HostFrame DEF Core, ControlInv, Alive
<1>4. WaitInv' /\ TerminalInv'
  BY <1>1, HostFrame DEF Core, WaitInv, TerminalInv
<1>5. OutcomeInv'
  BY <1>1, HostFrame DEF Core, OutcomeInv, OutcomeIsTrue, Lost
<1>6. AnswerInv'
  BY <1>1, <1>2, HostFrame DEF Core, AnswerInv, AnswerOK
<1>7. RequestInv' /\ CancelInv'
  <2>1. RequestInv'
    BY <1>1, HostFrame DEF Core, RequestInv, RequestOK
  <2>2. \A i \in Of(toHost', "cancel") : i + 1 = 1
    BY <1>2, HostTakes, HostFrame DEF Core, CancelInv
  <2>3. Of(toHost', "cancel") = {}
    BY <1>2, <2>2
  <2>4. CancelInv'
    BY <1>1, <2>3, HostFrame DEF Core, CancelInv
  <2>5. QED
    BY <2>1, <2>4
<1>8. CallInv'
  BY <1>1, TakingKeepsWay
<1>9. ReplyInv'
  BY <1>1, <1>2, HostFrame DEF Core, ReplyInv, ReplyOK
<1>10. TaskInv' /\ PendingInv'
  BY <1>1, HostFrame DEF Core, TaskInv, PendingInv, Stop
<1>11. LeaseInv' /\ StopInv'
  BY <1>1, <1>2, HostFrame DEF Core, LeaseInv, StopInv, Released, Stop
<1>12. QED
  BY <1>3, <1>4, <1>5, <1>6, <1>7, <1>8, <1>9, <1>10, <1>11, HostFrame DEF Core

\* While a frame is not being worked on, the host has room for one more task.
LEMMA RoomForTask ==
    ASSUME TypeInv, Core, NEW k \in 1 .. Len(stack), \A c \in calls : c.id # stack[k].id
    PROVE  Cardinality(calls) < MaxDepth
<1> DEFINE Others == (1 .. Len(stack)) \ {k}
           f == [c \in calls |-> CHOOSE j \in Others : stack[j].id = c.id]
<1>1. Len(stack) \in Nat /\ Len(stack) <= MaxDepth /\ MaxDepth \in Nat
  BY Typed, MaxDepthAssumption DEF TypeInv, TypeOK
<1>2. IsFiniteSet(Others) /\ Cardinality(Others) = Len(stack) - 1
  <2>1. IsFiniteSet(1 .. Len(stack)) /\ Cardinality(1 .. Len(stack)) = Len(stack)
    <3>1. 1 \in Int /\ Len(stack) \in Int
      BY <1>1
    <3>2. /\ IsFiniteSet(1 .. Len(stack))
          /\ Cardinality(1 .. Len(stack)) = IF 1 > Len(stack) THEN 0 ELSE Len(stack) - 1 + 1
      BY <3>1, FS_Interval
    <3>3. Len(stack) >= 1
      BY <1>1
    <3>4. QED
      BY <1>1, <3>2, <3>3
  <2>2. QED
    BY <2>1, FS_RemoveElement
<1>3. \A c \in calls : \E j \in Others : stack[j].id = c.id
  BY DEF Core, TaskInv
<1>4. \A c \in calls : f[c] \in Others /\ stack[f[c]].id = c.id
  BY <1>3
<1>5. \A c, d \in calls : c.id = d.id => c = d
  BY DEF Core, TaskInv
<1>6. f \in [calls -> Others]
  BY <1>4
<1> HIDE DEF f
<1>7. IsFiniteSet(calls) /\ Cardinality(calls) \in Nat
  BY FS_CardinalityType DEF TypeInv
<1>8. ~(Cardinality(Others) < Cardinality(calls))
  <2> SUFFICES ASSUME Cardinality(Others) < Cardinality(calls) PROVE FALSE
    OBVIOUS
  <2>1. \E c, d \in calls : c # d /\ f[c] = f[d]
    BY <1>2, <1>6, <1>7, FS_PigeonHole
  <2>2. QED
    BY <1>4, <1>5, <2>1
<1>9. QED
  BY <1>1, <1>2, <1>7, <1>8

\* A call that arrives is always accepted.
LEMMA RequestIsAccepted ==
    ASSUME TypeInv, Core, Accept, toHost[1].kind = "request"
    PROVE  LET m == toHost[1] IN
           /\ lastRequest' = m.id
           /\ calls' = calls \cup {[id |-> m.id, target |-> m.target, running |-> FALSE, cancelled |-> FALSE]}
           /\ UNCHANGED <<toEngine, process, failure, completed, pending, held>>
<1> DEFINE m == toHost[1]
<1>1. /\ m \in HostMessages /\ m.id \in Nat /\ 1 \in Of(toHost, "request") /\ Alive
      /\ AcceptRequest(m)
  BY HostTakes
<1>2. PICK k \in 1 .. Len(stack) : stack[k].id = m.id /\ stack[k].via = m.parent
  BY <1>1 DEF Core, CallInv, CallOK
<1>3. m.id % 2 = 0 /\ m.id > lastRequest
  BY <1>1, <1>2 DEF Core, CallInv, CallOK, StackInv
<1>4. \A c \in calls : c.id # stack[k].id
  <2> SUFFICES ASSUME NEW c \in calls PROVE c.id # stack[k].id
    OBVIOUS
  <2>1. c.id <= lastRequest /\ c.id \in Nat /\ lastRequest \in Nat
    BY Typed DEF Core, TaskInv
  <2>2. m.id > lastRequest /\ m.id \in Nat /\ stack[k].id = m.id
    BY <1>1, <1>2, <1>3
  <2>3. QED
    BY <2>1, <2>2
<1>5. Cardinality(calls) < MaxDepth
  BY <1>4, RoomForTask
<1>6. m.parent # 0 => \E p \in pending : p.id = m.parent
  <2> SUFFICES ASSUME m.parent # 0 PROVE \E p \in pending : p.id = m.parent
    OBVIOUS
  <2>1. k # 1
    BY <1>2 DEF Core, StackInv
  <2>2. k \in 2 .. Len(stack)
    BY <2>1, Typed
  <2>3. QED
    BY <1>1, <1>2, <2>2 DEF Core, WaitInv
<1>7. QED
  BY <1>1, <1>3, <1>5, <1>6 DEF AcceptRequest

\* Accepting a request keeps it: there is room, the parent runs, the number is new.
LEMMA RequestKeepsCore ==
    ASSUME TypeInv, Core, Accept, toHost[1].kind = "request", UNCHANGED supervisorVars
    PROVE  Core'
<1> DEFINE m == toHost[1]
           new == [id |-> m.id, target |-> m.target, running |-> FALSE, cancelled |-> FALSE]
<1>1. /\ lastRequest' = m.id /\ calls' = calls \cup {new}
      /\ UNCHANGED <<toEngine, process, failure, completed, pending, held, nextRequest, answers>>
      /\ m.id \in Nat /\ 1 \in Of(toHost, "request") /\ Alive /\ Alive'
  BY RequestIsAccepted, HostTakes DEF Alive
<1>2. /\ \A i \in Of(toHost', "request") :
            i \in Nat /\ 0 < i /\ i + 1 \in Of(toHost, "request") /\ toHost'[i] = toHost[i + 1]
      /\ \A i \in Of(toHost', "cancel") :
            i \in Nat /\ 0 < i /\ i + 1 \in Of(toHost, "cancel") /\ toHost'[i] = toHost[i + 1]
      /\ \A i \in Of(toHost', "response") :
            i \in Nat /\ 0 < i /\ i + 1 \in Of(toHost, "response") /\ toHost'[i] = toHost[i + 1]
      /\ \A i \in Of(toHost, "response") : i \in Nat /\ i - 1 \in Of(toHost', "response") /\ toHost'[i - 1] = toHost[i]
  <2>1. \A i \in Of(toHost, "response") : i # 1
    BY Typed
  <2>2. QED
    BY <2>1, HostTakes
<1>3. PICK k \in 1 .. Len(stack) : stack[k].id = m.id /\ stack[k].target = m.target
  BY <1>1 DEF Core, CallInv, CallOK
<1>4. m.id > lastRequest /\ m.id < nextCall /\ \A t \in terminals : t.id # m.id
  BY <1>1, <1>3 DEF Core, CallInv, CallOK, StackInv
<1>5. new.id = m.id /\ new.target = m.target /\ new.running = FALSE
  OBVIOUS
<1> HIDE DEF new
<1>6. ControlInv'
  BY <1>1, HostFrame DEF Core, ControlInv, Alive
<1>7. WaitInv' /\ TerminalInv'
  BY <1>1, HostFrame DEF Core, WaitInv, TerminalInv
<1>8. OutcomeInv'
  BY <1>1, HostFrame DEF Core, OutcomeInv, OutcomeIsTrue, Lost
<1>9. AnswerInv'
  <2>1. AnswerInv
    BY DEF Core
  <2>2. \A i \in Of(toEngine, "response") : \A c \in calls' : c.id # toEngine[i].id
    <3> SUFFICES ASSUME NEW i \in Of(toEngine, "response"), NEW c \in calls' PROVE c.id # toEngine[i].id
      OBVIOUS
    <3>1. AnswerOK(i)
      BY <2>1 DEF AnswerInv
    <3>2. CASE c \in calls
      BY <3>1, <3>2 DEF AnswerOK
    <3>3. CASE c = new
      BY <1>1, <1>5, <3>1, <3>3 DEF AnswerOK
    <3>4. QED
      BY <1>1, <3>2, <3>3
  <2>3. \A i \in Of(toEngine, "response") : \A j \in Of(toHost', "request") : toHost'[j].id # toEngine[i].id
    <3>1. \A i \in Of(toEngine, "response") : \A j \in Of(toHost, "request") : toHost[j].id # toEngine[i].id
      BY <2>1 DEF AnswerInv, AnswerOK
    <3>2. QED
      BY <1>2, <3>1
  <2>4. QED
    BY <1>1, <2>1, <2>2, <2>3, HostFrame DEF AnswerInv, AnswerOK
<1>10. RequestInv'
  BY <1>1, HostFrame DEF Core, RequestInv, RequestOK
<1>11. CancelInv'
  BY <1>1, <1>2, HostFrame DEF Core, CancelInv
<1>12. CallInv'
  <2>1. CallInv
    BY DEF Core
  <2>2. \A i \in Of(toHost', "request") : toHost'[i].id > m.id
    BY <1>1, <1>2, <2>1 DEF CallInv, CallOK
  <2>3. QED
    <3>1. UNCHANGED <<stack, nextCall, terminals>>
      BY HostFrame
    <3>2. ASSUME NEW i \in Of(toHost', "request") PROVE CallOK(i)'
      <4>1. /\ i \in Nat /\ i + 1 \in Of(toHost, "request") /\ toHost'[i] = toHost[i + 1]
            /\ toHost'[i].id > m.id
        BY <1>2, <2>2
      <4>2. CallOK(i + 1)
        BY <2>1, <4>1 DEF CallInv
      <4>3. ASSUME NEW j \in Of(toHost', "request"), j < i PROVE toHost'[j].id < toHost'[i].id
        <5>1. j \in Nat /\ j + 1 \in Of(toHost, "request") /\ toHost'[j] = toHost[j + 1]
          BY <1>2
        <5>2. j + 1 < i + 1
          BY <4>1, <4>3, <5>1
        <5>3. QED
          BY <4>1, <4>2, <5>1, <5>2 DEF CallOK
      <4>4. QED
        BY <1>1, <3>1, <4>1, <4>2, <4>3 DEF CallOK
    <3>3. QED
      BY <1>1, <1>4, <3>1, <3>2 DEF CallInv
<1>13. ReplyInv'
  <2>1. ReplyInv
    BY DEF Core
  <2>2. \A i, j \in Of(toHost', "response") : toHost'[j].id = toHost'[i].id => j = i
    BY <1>2, <2>1 DEF ReplyInv, ReplyOK
  <2>3. QED
    <3> SUFFICES ASSUME NEW i \in Of(toHost', "response") PROVE ReplyOK(i)'
      BY DEF ReplyInv
    <3>1. i + 1 \in Of(toHost, "response") /\ toHost'[i] = toHost[i + 1]
      BY <1>2
    <3>2. ReplyOK(i + 1)
      BY <2>1, <3>1 DEF ReplyInv
    <3>3. UNCHANGED <<stack, lastService, pending>>
      BY <1>1, HostFrame
    <3>4. QED
      BY <2>2, <3>1, <3>2, <3>3 DEF ReplyOK
<1>14. TaskInv'
  <2>1. TaskInv
    BY DEF Core
  <2>2. \A c \in calls' : c.id <= m.id /\ \A t \in terminals : t.id # c.id
    BY <1>1, <1>4, <1>5, <2>1, Typed DEF TaskInv
  <2>3. \A c \in calls : c.id # m.id
    BY <1>4, <2>1, Typed DEF TaskInv
  <2>4. \A c, e \in calls' : c.id = e.id => c = e
    BY <1>1, <1>5, <2>1, <2>3 DEF TaskInv
  <2>5. \A c \in calls' : \E j \in 1 .. Len(stack) : stack[j].id = c.id /\ stack[j].target = c.target
    BY <1>1, <1>3, <1>5, <2>1 DEF TaskInv
  <2>6. \A c \in calls' : c.target = Stop => ~c.running
    BY <1>1, <1>5, <2>1 DEF TaskInv
  <2>7. QED
    BY <1>1, <2>2, <2>4, <2>5, <2>6, HostFrame DEF TaskInv, Stop
<1>15. PendingInv'
  BY <1>1, HostFrame DEF Core, PendingInv
<1>16. LeaseInv' /\ StopInv'
  <2>1. LeaseInv /\ StopInv
    BY DEF Core
  <2>2. LeaseInv'
    BY <1>1, <1>2, <2>1, HostFrame DEF LeaseInv, Released
  <2>3. StopInv'
    BY <1>1, <2>1, HostFrame DEF StopInv, Released, Stop
  <2>4. QED
    BY <2>2, <2>3
<1>17. QED
  BY <1>6, <1>7, <1>8, <1>9, <1>10, <1>11, <1>12, <1>13, <1>14, <1>15, <1>16, HostFrame DEF Core

\* An answer that arrives is always awaited.
LEMMA ResponseIsAwaited ==
    ASSUME TypeInv, Core, Accept, toHost[1].kind = "response"
    PROVE  LET m == toHost[1] IN
           \E p \in pending :
               /\ p.id = m.id
               /\ pending' = pending \ {p}
               /\ held' = IF m.token = 0 THEN held ELSE held \cup {[call |-> p.call, token |-> m.token]}
               /\ UNCHANGED <<toEngine, process, failure, completed, calls, lastRequest>>
<1> DEFINE m == toHost[1]
<1>1. 1 \in Of(toHost, "response") /\ AcceptResponse(m)
  BY HostTakes
<1>2. \E p \in pending : p.id = m.id
  BY <1>1 DEF Core, ReplyInv, ReplyOK
<1>3. QED
  BY <1>1, <1>2 DEF AcceptResponse

\* Taking the answer to a service request keeps it: the request is still pending.
LEMMA ResponseKeepsCore ==
    ASSUME TypeInv, Core, Accept, toHost[1].kind = "response", UNCHANGED supervisorVars
    PROVE  Core'
<1> DEFINE m == toHost[1]
<1>1. PICK p \in pending :
           /\ p.id = m.id
           /\ pending' = pending \ {p}
           /\ held' = IF m.token = 0 THEN held ELSE held \cup {[call |-> p.call, token |-> m.token]}
           /\ UNCHANGED <<toEngine, process, failure, completed, calls, lastRequest>>
  BY ResponseIsAwaited
<1>2. /\ UNCHANGED <<nextRequest, answers>> /\ Alive /\ Alive'
      /\ 1 \in Of(toHost, "response") /\ m.id \in Nat
      /\ \A kind : \A i \in Of(toHost', kind) :
            i \in Nat /\ 0 < i /\ i + 1 \in Of(toHost, kind) /\ toHost'[i] = toHost[i + 1]
      /\ \A kind : \A i \in Of(toHost, kind) :
            /\ i \in Nat /\ 0 < i
            /\ i # 1 => i - 1 \in Of(toHost', kind) /\ toHost'[i - 1] = toHost[i]
  BY <1>1, HostTakes DEF Alive
<1>3. \A q \in pending : q.id # m.id => q \in pending'
  BY <1>1
<1>4. \A k \in 1 .. Len(stack) : stack[k].via # m.id
  BY <1>2 DEF Core, ReplyInv, ReplyOK
<1>5. \A i \in Of(toEngine, "request") : toEngine[i].id # m.id
  <2>1. m.id <= lastService
    BY <1>2 DEF Core, ReplyInv, ReplyOK
  <2>2. \A i \in Of(toEngine, "request") : toEngine[i].id > lastService
    BY DEF Core, RequestInv, RequestOK
  <2>3. QED
    BY <1>2, <2>1, <2>2, Typed
<1>6. ControlInv'
  BY <1>1, <1>2, HostFrame DEF Core, ControlInv, Alive
<1>7. WaitInv'
  <2> SUFFICES ASSUME NEW k \in 2 .. Len(stack)
               PROVE  \E q \in pending' : q.id = stack[k].via /\ (k = 2 => q.call = stack[1].id)
    BY HostFrame DEF WaitInv
  <2>1. PICK q \in pending : q.id = stack[k].via /\ (k = 2 => q.call = stack[1].id)
    BY <1>2 DEF Core, WaitInv
  <2>2. k \in 1 .. Len(stack)
    BY Typed
  <2>3. QED
    BY <1>3, <1>4, <2>1, <2>2
<1>8. TerminalInv'
  BY <1>2, HostFrame DEF Core, TerminalInv
<1>9. OutcomeInv'
  BY <1>2, HostFrame DEF Core, OutcomeInv, OutcomeIsTrue, Lost
<1>10. AnswerInv'
  BY <1>1, <1>2, HostFrame DEF Core, AnswerInv, AnswerOK
<1>11. RequestInv'
  <2>1. \A i \in Of(toEngine, "request") : [id |-> toEngine[i].id, call |-> toEngine[i].parent] \in pending'
    BY <1>2, <1>3, <1>5 DEF Core, RequestInv, RequestOK
  <2>2. QED
    BY <1>1, <1>2, <2>1, HostFrame DEF Core, RequestInv, RequestOK
<1>12. CancelInv'
  BY <1>1, <1>2, HostFrame DEF Core, CancelInv
<1>13. CallInv'
  BY <1>1, TakingKeepsWay
<1>14. ReplyInv'
  <2>1. ReplyInv
    BY DEF Core
  <2>2. \A i \in Of(toHost', "response") : toHost'[i].id # m.id
    BY <1>2, <2>1 DEF ReplyInv, ReplyOK
  <2>3. \A i \in Of(toHost', "response") : \E q \in pending' : q.id = toHost'[i].id
    BY <1>2, <1>3, <2>1, <2>2 DEF ReplyInv, ReplyOK
  <2>4. \A i, j \in Of(toHost', "response") : toHost'[j].id = toHost'[i].id => j = i
    BY <1>2, <2>1 DEF ReplyInv, ReplyOK
  <2>5. ASSUME NEW i \in Of(toHost', "response") PROVE ReplyOK(i)'
    <3>1. ReplyOK(i + 1) /\ toHost'[i] = toHost[i + 1]
      BY <1>2, <2>1 DEF ReplyInv
    <3>2. QED
      BY <2>3, <2>4, <3>1, HostFrame DEF ReplyOK
  <2>6. QED
    BY <2>5 DEF ReplyInv
<1>15. TaskInv'
  BY <1>1, HostFrame DEF Core, TaskInv, Stop
<1>16. PendingInv'
  <2>1. PendingInv
    BY DEF Core
  <2>2. \E c \in calls : c.id = p.call
    BY <2>1 DEF PendingInv
  <2>3. \A h \in held' : h \in held \/ h.call = p.call
    BY <1>1
  <2>4. QED
    BY <1>1, <1>2, <2>1, <2>2, <2>3, HostFrame DEF PendingInv
<1>17. LeaseInv'
  <2> SUFFICES ASSUME NEW token \in 1 .. Len(services), services[token] # Released
               PROVE  \/ \E i \in Of(toHost', "response") : toHost'[i].token = token
                      \/ \E h \in held' : h.token = token
                      \/ \E i \in Of(toEngine, "request") :
                            toEngine[i].operation = "release" /\ toEngine[i].object = token
    BY <1>1, HostFrame DEF LeaseInv, Released
  <2>1. CASE \E i \in Of(toHost, "response") : toHost[i].token = token
    <3>1. PICK i \in Of(toHost, "response") : toHost[i].token = token
      BY <2>1
    <3>2. CASE i = 1
      <4>1. m.token = token /\ token # 0
        BY <3>1, <3>2
      <4>2. [call |-> p.call, token |-> m.token] \in held'
        BY <1>1, <4>1
      <4>3. QED
        BY <4>1, <4>2
    <3>3. CASE i # 1
      BY <1>2, <3>1, <3>3
    <3>4. QED
      BY <3>2, <3>3
  <2>2. CASE \E h \in held : h.token = token
    BY <1>1, <2>2
  <2>3. QED
    BY <1>2, <2>1, <2>2 DEF Core, LeaseInv
<1>18. StopInv'
  BY <1>1, HostFrame DEF Core, StopInv, Released, Stop
<1>19. QED
  BY <1>6, <1>7, <1>8, <1>9, <1>10, <1>11, <1>12, <1>13, <1>14, <1>15, <1>16, <1>17, <1>18, HostFrame DEF Core

\* A message that has been added to toEngine.
LEMMA EngineGets ==
    ASSUME TypeInv, NEW e \in EngineMessages, toEngine' = Append(toEngine, e)
    PROVE  /\ Len(toEngine) + 1 \in Nat
           /\ \A kind : e.kind # kind => Of(toEngine', kind) = Of(toEngine, kind)
           /\ \A kind : e.kind = kind => Of(toEngine', kind) = Of(toEngine, kind) \cup {Len(toEngine) + 1}
           /\ \A kind : \A i \in Of(toEngine, kind) :
                 i \in Nat /\ i < Len(toEngine) + 1 /\ toEngine'[i] = toEngine[i]
           /\ toEngine'[Len(toEngine) + 1] = e
<1>1. toEngine \in Seq(EngineMessages)
  BY DEF TypeInv
<1>2. /\ \A kind : Of(Append(toEngine, e), kind) = Of(toEngine, kind) \cup {i \in {Len(toEngine) + 1} : e.kind = kind}
      /\ \A kind : \A i \in Of(toEngine, kind) :
            i \in Nat /\ 0 < i /\ i <= Len(toEngine) /\ Append(toEngine, e)[i] = toEngine[i]
      /\ Append(toEngine, e)[Len(toEngine) + 1] = e /\ Len(toEngine) \in Nat
  BY <1>1, OfAppend
<1>3. \A kind : \A i \in Of(toEngine, kind) :
         i \in Nat /\ i < Len(toEngine) + 1 /\ toEngine'[i] = toEngine[i]
  BY <1>2
<1>4. ASSUME NEW kind, e.kind # kind
      PROVE  Of(toEngine', kind) = Of(toEngine, kind)
  BY <1>2, <1>4
<1>5. ASSUME NEW kind, e.kind = kind
      PROVE  Of(toEngine', kind) = Of(toEngine, kind) \cup {Len(toEngine) + 1}
  BY <1>2, <1>5
<1>6. Len(toEngine) + 1 \in Nat /\ toEngine'[Len(toEngine) + 1] = e
  BY <1>2
<1>7. QED
  BY <1>3, <1>4, <1>5, <1>6

\* A service request of a running call keeps it: a new odd number, a pending entry
\* and a message go together.
LEMMA AskKeepsCore ==
    ASSUME TypeInv, Core, NEW c \in calls, Ask(c), UNCHANGED supervisorVars
    PROVE  Core'
<1> DEFINE n == Len(toEngine) + 1
           new == [id |-> nextRequest, call |-> c.id]
<1>1. /\ Alive /\ Alive' /\ c.running
      /\ UNCHANGED <<toHost, process, failure, calls, completed, lastRequest, answers>>
      /\ nextRequest' = nextRequest + 2
      /\ pending' = pending \cup {new}
  BY AskShape DEF Alive
<1>2. PICK e \in EngineMessages :
           /\ e.kind = "request" /\ e.id = nextRequest /\ e.parent = c.id
           /\ toEngine' = Append(toEngine, e)
           /\ \/ held' = held
              \/ \E h \in held : /\ h.call = c.id /\ held' = held \ {h}
                                 /\ e.operation = "release" /\ e.object = h.token
  BY AskShape
<1>3. /\ n \in Nat
      /\ Of(toEngine', "response") = Of(toEngine, "response")
      /\ Of(toEngine', "cancel") = Of(toEngine, "cancel")
      /\ Of(toEngine', "request") = Of(toEngine, "request") \cup {n}
      /\ \A i \in Of(toEngine, "response") : i \in Nat /\ i < n /\ toEngine'[i] = toEngine[i]
      /\ \A i \in Of(toEngine, "cancel") : i \in Nat /\ i < n /\ toEngine'[i] = toEngine[i]
      /\ \A i \in Of(toEngine, "request") : i \in Nat /\ i < n /\ toEngine'[i] = toEngine[i]
      /\ toEngine'[n] = e
  BY <1>2, EngineGets
<1>4. new.id = nextRequest /\ new.call = c.id /\ c.id \in Nat
  BY Typed
<1> HIDE DEF n, new
<1>5. /\ nextRequest \in Nat /\ lastService < nextRequest /\ nextRequest % 2 = 1
      /\ lastService \in Nat /\ \A p \in pending : p.id < nextRequest
  BY <1>1, Typed DEF Core, PendingInv
<1>6. c.id \in Active /\ c.target # Stop /\ \A t \in terminals : t.id # c.id
  <2>1. PICK k \in 1 .. Len(stack) : stack[k].id = c.id
    BY DEF Core, TaskInv
  <2>2. c.id \in Active
    BY <2>1, FrameTypes
  <2>3. QED
    BY <1>1, <2>2 DEF Core, TaskInv
<1>7. ControlInv'
  BY <1>1, HostFrame DEF Core, ControlInv
<1>8. WaitInv'
  BY <1>1, HostFrame DEF Core, WaitInv
<1>9. TerminalInv'
  BY <1>1, HostFrame DEF Core, TerminalInv
<1>10. OutcomeInv'
  BY <1>1, HostFrame DEF Core, OutcomeInv, OutcomeIsTrue, Lost
<1>11. AnswerInv'
  <2> SUFFICES ASSUME NEW i \in Of(toEngine, "response") PROVE AnswerOK(i)'
    BY <1>3 DEF AnswerInv
  <2>1. AnswerOK(i) /\ toEngine'[i] = toEngine[i]
    BY <1>3 DEF Core, AnswerInv
  <2>2. \A j \in Of(toEngine', "response") : toEngine'[j].id = toEngine[i].id => j = i
    BY <1>3, <2>1 DEF AnswerOK
  <2>3. UNCHANGED terminals /\ Active' = Active
    BY HostFrame
  <2>4. QED
    BY <1>1, <2>1, <2>2, <2>3 DEF AnswerOK
<1>12. RequestInv'
  <2>1. RequestInv /\ AnswerInv
    BY DEF Core
  <2>2. \A j \in Of(toEngine, "request") : toEngine[j].id < nextRequest
    <3>1. \A j \in Of(toEngine, "request") : [id |-> toEngine[j].id, call |-> toEngine[j].parent] \in pending
      BY <1>1, <2>1 DEF RequestInv, RequestOK
    <3>2. QED
      BY <1>5, <3>1
  <2>3. \A j \in Of(toEngine, "response") : toEngine[j].id # c.id
    BY <2>1 DEF AnswerInv, AnswerOK
  <2>4. [id |-> e.id, call |-> e.parent] \in pending'
    BY <1>1, <1>2 DEF new
  <2>5. ASSUME NEW i \in Of(toEngine, "request") PROVE RequestOK(i)'
    <3>1. RequestOK(i)
      BY <2>1 DEF RequestInv
    <3>2. QED
      BY <1>1, <1>3, <3>1, HostFrame DEF RequestOK
  <2>6. ASSUME NEW i \in {n} PROVE RequestOK(i)'
    <3>1. \A j \in Of(toEngine', "response") : j < i => toEngine'[j].id # toEngine'[i].parent
      BY <1>2, <1>3, <2>3
    <3>2. \A j \in Of(toEngine', "request") : j < i => toEngine'[j].id < toEngine'[i].id
      <4> SUFFICES ASSUME NEW j \in Of(toEngine', "request"), j < i
                   PROVE  toEngine'[j].id < toEngine'[i].id
        OBVIOUS
      <4>1. i = n /\ j \in Of(toEngine, "request")
        BY <1>3
      <4>2. QED
        BY <1>2, <1>3, <2>2, <4>1
    <3>3. toEngine'[i].id % 2 = 1 /\ toEngine'[i].id > lastService
      BY <1>2, <1>3, <1>5
    <3>4. QED
      BY <1>2, <1>3, <1>6, <2>4, <3>1, <3>2, <3>3, HostFrame DEF RequestOK
  <2>7. QED
    BY <1>3, <2>5, <2>6 DEF RequestInv
<1>13. CancelInv'
  BY <1>1, <1>3, HostFrame DEF Core, CancelInv
<1>14. CallInv'
  BY <1>1, HostFrame DEF Core, CallInv, CallOK
<1>15. ReplyInv'
  BY <1>1, HostFrame DEF Core, ReplyInv, ReplyOK
<1>16. TaskInv'
  BY <1>1, HostFrame DEF Core, TaskInv, Stop
<1>17. PendingInv'
  <2>1. PendingInv
    BY DEF Core
  <2>2. /\ nextRequest' % 2 = 1 /\ lastService < nextRequest'
        /\ \A p \in pending' : p.id < nextRequest'
    <3>1. nextRequest' = nextRequest + 2
      BY <1>1
    <3>2. nextRequest' % 2 = 1 /\ lastService < nextRequest' /\ nextRequest < nextRequest'
      BY <1>5, <3>1
    <3>3. \A p \in pending : p.id < nextRequest'
      <4>1. \A p \in pending : p.id \in Nat /\ p.id < nextRequest
        BY <1>5, Typed
      <4>2. nextRequest \in Nat
        BY <1>5
      <4>3. QED
        BY <3>1, <4>1, <4>2
    <3>4. QED
      BY <1>1, <1>4, <3>2, <3>3
  <2>6. \A p \in pending' : \E d \in calls : d.id = p.call
    BY <1>1, <1>4, <2>1 DEF PendingInv
  <2>3. \A p, q \in pending' : p.id = q.id => p = q
    BY <1>1, <1>4, <1>5, <2>1, Typed DEF PendingInv
  <2>4. held' \subseteq held
    BY <1>2
  <2>5. QED
    BY <1>1, <2>1, <2>2, <2>3, <2>4, <2>6, HostFrame DEF PendingInv
<1>18. LeaseInv'
  <2> SUFFICES ASSUME NEW token \in 1 .. Len(services), services[token] # Released
               PROVE  \/ \E i \in Of(toHost, "response") : toHost[i].token = token
                      \/ \E h \in held' : h.token = token
                      \/ \E i \in Of(toEngine', "request") :
                            toEngine'[i].operation = "release" /\ toEngine'[i].object = token
    BY <1>1, HostFrame DEF LeaseInv, Released
  <2>1. CASE \E h \in held : h.token = token
    BY <1>2, <1>3, <2>1
  <2>2. CASE \E i \in Of(toEngine, "request") : toEngine[i].operation = "release" /\ toEngine[i].object = token
    BY <1>3, <2>2
  <2>3. QED
    BY <1>1, <2>1, <2>2 DEF Core, LeaseInv
<1>19. StopInv'
  <2>1. ~(stack # <<>> /\ stack[1].target = Stop)
    <3> SUFFICES ASSUME stack # <<>>, stack[1].target = Stop PROVE FALSE
      OBVIOUS
    <3>1. Len(stack) = 1
      BY DEF Core, StopInv
    <3>2. PICK k \in 1 .. Len(stack) : stack[k].target = c.target
      BY DEF Core, TaskInv
    <3>3. QED
      BY <1>6, <3>1, <3>2
  <2>2. QED
    BY <2>1, HostFrame DEF StopInv, Stop
<1>20. QED
  BY <1>7, <1>8, <1>9, <1>10, <1>11, <1>12, <1>13, <1>14, <1>15, <1>16, <1>17, <1>18, <1>19, HostFrame DEF Core

\* The answer to a call keeps it: the call leaves the host as its answer goes out.
LEMMA ReplyKeepsCore ==
    ASSUME TypeInv, Core, NEW c \in calls, Reply(c), UNCHANGED supervisorVars
    PROVE  Core'
<1> DEFINE n == Len(toEngine) + 1
<1>1. /\ Awaited(c) = {} /\ \A h \in held : h.call # c.id
      /\ calls' = calls \ {c}
      /\ UNCHANGED <<toHost, failure, pending, held, nextRequest, lastRequest>>
  BY DEF Reply
<1>2. PICK answer \in Answers :
           /\ toEngine' = Append(toEngine, AnswerMessage(c.id, answer))
           /\ answers' = answers \cup {[id |-> c.id, answer |-> answer]}
           /\ process' = IF c.target = Stop /\ answer.status = "ok" THEN "done" ELSE process
  BY DEF Reply
<1>3. Alive /\ Alive'
  BY <1>2 DEF Reply, Alive
<1> DEFINE e == AnswerMessage(c.id, answer)
<1>4. e \in EngineMessages /\ e.kind = "response" /\ e.id = c.id /\ e.answer = answer
  BY Typed DEF AnswerMessage, EngineMessages
<1> HIDE DEF e
<1>5. /\ n \in Nat
      /\ Of(toEngine', "request") = Of(toEngine, "request")
      /\ Of(toEngine', "cancel") = Of(toEngine, "cancel")
      /\ Of(toEngine', "response") = Of(toEngine, "response") \cup {n}
      /\ \A i \in Of(toEngine, "response") : i \in Nat /\ i < n /\ toEngine'[i] = toEngine[i]
      /\ \A i \in Of(toEngine, "cancel") : i \in Nat /\ i < n /\ toEngine'[i] = toEngine[i]
      /\ \A i \in Of(toEngine, "request") : i \in Nat /\ i < n /\ toEngine'[i] = toEngine[i]
      /\ toEngine'[n] = e
  <2>1. toEngine' = Append(toEngine, e)
    BY <1>2 DEF e
  <2>2. QED
    BY <1>4, <2>1, EngineGets
<1> HIDE DEF n
<1>6. c.id \in Active /\ c.id <= lastRequest /\ \A t \in terminals : t.id # c.id
  <2>1. PICK k \in 1 .. Len(stack) : stack[k].id = c.id
    BY DEF Core, TaskInv
  <2>2. c.id \in Active
    BY <2>1, FrameTypes
  <2>3. QED
    BY <2>2 DEF Core, TaskInv
<1>7. \A d \in calls' : d.id # c.id
  BY <1>1 DEF Core, TaskInv
<1>8. ControlInv'
  BY <1>1, <1>3, HostFrame DEF Core, ControlInv
<1>9. WaitInv'
  BY <1>1, <1>3, HostFrame DEF Core, WaitInv
<1>10. TerminalInv'
  BY <1>2, HostFrame DEF Core, TerminalInv
<1>11. OutcomeInv'
  BY <1>2, HostFrame DEF Core, OutcomeInv, OutcomeIsTrue, Lost
<1>12. AnswerInv'
  <2>1. AnswerInv
    BY DEF Core
  <2>2. \A j \in Of(toEngine, "response") : toEngine[j].id # c.id
    BY <2>1 DEF AnswerInv, AnswerOK
  <2>3. \A j \in Of(toHost, "request") : toHost[j].id # c.id
    BY <1>6, Typed DEF Core, CallInv, CallOK
  <2>4. ASSUME NEW i \in Of(toEngine, "response") PROVE AnswerOK(i)'
    <3>1. AnswerOK(i)
      BY <2>1 DEF AnswerInv
    <3>2. \A j \in Of(toEngine', "response") : toEngine'[j].id = toEngine'[i].id => j = i
      BY <1>4, <1>5, <2>2, <3>1 DEF AnswerOK
    <3>3. QED
      BY <1>1, <1>2, <1>5, <3>1, <3>2, HostFrame DEF AnswerOK
  <2>5. ASSUME NEW i \in {n} PROVE AnswerOK(i)'
    <3>1. \A j \in Of(toEngine', "response") : toEngine'[j].id = toEngine'[i].id => j = i
      BY <1>4, <1>5, <2>2
    <3>2. i = n /\ toEngine'[i].id = c.id /\ toEngine'[i].answer = answer
      BY <1>4, <1>5
    <3>3. [id |-> toEngine'[i].id, answer |-> toEngine'[i].answer] \in answers'
      BY <1>2, <3>2
    <3>4. /\ \A d \in calls' : d.id # toEngine'[i].id
          /\ \A j \in Of(toHost', "request") : toHost'[j].id # toEngine'[i].id
          /\ toEngine'[i].id \in Active /\ \A t \in terminals : t.id # toEngine'[i].id
      BY <1>1, <1>6, <1>7, <2>3, <3>2
    <3>5. QED
      BY <3>1, <3>3, <3>4, HostFrame DEF AnswerOK
  <2>6. QED
    BY <1>5, <2>4, <2>5 DEF AnswerInv
<1>13. RequestInv'
  <2> SUFFICES ASSUME NEW i \in Of(toEngine, "request") PROVE RequestOK(i)'
    BY <1>5 DEF RequestInv
  <2>1. RequestOK(i)
    BY DEF Core, RequestInv
  <2>2. \A j \in Of(toEngine', "response") : j < i => toEngine'[j].id # toEngine'[i].parent
    BY <1>5, <2>1 DEF RequestOK
  <2>3. QED
    BY <1>1, <1>3, <1>5, <2>1, <2>2, HostFrame DEF RequestOK
<1>14. CancelInv'
  BY <1>1, <1>5, HostFrame DEF Core, CancelInv
<1>15. CallInv' /\ ReplyInv'
  BY <1>1, HostFrame DEF Core, CallInv, CallOK, ReplyInv, ReplyOK
<1>16. TaskInv'
  BY <1>1, HostFrame DEF Core, TaskInv, Stop
<1>17. PendingInv'
  <2>1. PendingInv
    BY DEF Core
  <2>2. \A p \in pending : p.call # c.id
    BY <1>1 DEF Awaited
  <2>3. QED
    BY <1>1, <1>3, <2>1, <2>2, HostFrame DEF PendingInv
<1>18. LeaseInv'
  BY <1>1, <1>3, <1>5, HostFrame DEF Core, LeaseInv, Released
<1>19. StopInv'
  BY <1>5, HostFrame DEF Core, StopInv, Released, Stop
<1>20. QED
  BY <1>8, <1>9, <1>10, <1>11, <1>12, <1>13, <1>14, <1>15, <1>16, <1>17, <1>18, <1>19, HostFrame DEF Core

\* A cancellation that is not rejected marks a call or a remembered one, and
\* is acknowledged.
LEMMA CancelKeepsCore ==
    ASSUME TypeInv, Core, Accept, toHost[1].kind = "cancel", ~Fail, UNCHANGED supervisorVars
    PROVE  Core'
<1> DEFINE m == toHost[1]
           n == Len(toEngine) + 1
           mark(c) == IF c.id = m.id /\ ~c.cancelled THEN [c EXCEPT !.cancelled = TRUE] ELSE c
           e == CancelMessage(m.id)
<1>1. /\ calls' = {mark(c) : c \in calls}
      /\ toEngine' = Append(toEngine, e)
      /\ UNCHANGED <<process, failure, pending, held, lastRequest>>
  BY HostTakes DEF AcceptCancel
<1>2. /\ UNCHANGED <<nextRequest, answers>> /\ Alive /\ Alive'
      /\ m.id \in Nat /\ 1 \in Of(toHost, "cancel")
      /\ \A i \in Of(toHost', "request") :
            i \in Nat /\ 0 < i /\ i + 1 \in Of(toHost, "request") /\ toHost'[i] = toHost[i + 1]
      /\ \A i \in Of(toHost', "cancel") :
            i \in Nat /\ 0 < i /\ i + 1 \in Of(toHost, "cancel") /\ toHost'[i] = toHost[i + 1]
      /\ \A i \in Of(toHost', "response") :
            i \in Nat /\ 0 < i /\ i + 1 \in Of(toHost, "response") /\ toHost'[i] = toHost[i + 1]
      /\ \A i \in Of(toHost, "response") : i \in Nat /\ i - 1 \in Of(toHost', "response") /\ toHost'[i - 1] = toHost[i]
  <2>1. \A i \in Of(toHost, "response") : i # 1
    BY Typed
  <2>2. QED
    BY <1>1, <2>1, HostTakes DEF Alive
<1>3. \A c \in calls : mark(c).id = c.id /\ mark(c).target = c.target /\ mark(c).running = c.running
  BY Typed DEF Tasks
<1>4. e \in EngineMessages /\ e.kind = "cancel" /\ e.id = m.id
  BY <1>2 DEF CancelMessage, EngineMessages
<1> HIDE DEF mark, e
<1>5. /\ \A c \in calls' : \E b \in calls : /\ b.id = c.id /\ b.target = c.target
                                            /\ b.running = c.running /\ c = mark(b)
      /\ \A b \in calls : \E c \in calls' : c.id = b.id
  BY <1>1, <1>3
<1>6. /\ n \in Nat
      /\ Of(toEngine', "request") = Of(toEngine, "request")
      /\ Of(toEngine', "response") = Of(toEngine, "response")
      /\ Of(toEngine', "cancel") = Of(toEngine, "cancel") \cup {n}
      /\ \A i \in Of(toEngine, "response") : i \in Nat /\ i < n /\ toEngine'[i] = toEngine[i]
      /\ \A i \in Of(toEngine, "cancel") : i \in Nat /\ i < n /\ toEngine'[i] = toEngine[i]
      /\ \A i \in Of(toEngine, "request") : i \in Nat /\ i < n /\ toEngine'[i] = toEngine[i]
      /\ toEngine'[n] = e
  BY <1>1, <1>4, EngineGets
<1> HIDE DEF n
<1>7. ControlInv'
  BY <1>1, <1>2, HostFrame DEF Core, ControlInv
<1>8. WaitInv' /\ TerminalInv'
  BY <1>1, <1>2, HostFrame DEF Core, WaitInv, TerminalInv
<1>9. OutcomeInv'
  BY <1>2, HostFrame DEF Core, OutcomeInv, OutcomeIsTrue, Lost
<1>10. AnswerInv'
  <2> SUFFICES ASSUME NEW i \in Of(toEngine, "response") PROVE AnswerOK(i)'
    BY <1>6 DEF AnswerInv
  <2>1. AnswerOK(i)
    BY DEF Core, AnswerInv
  <2>2. \A c \in calls' : c.id # toEngine[i].id
    BY <1>5, <2>1 DEF AnswerOK
  <2>3. \A j \in Of(toHost', "request") : toHost'[j].id # toEngine[i].id
    BY <1>2, <2>1 DEF AnswerOK
  <2>4. QED
    BY <1>2, <1>6, <2>1, <2>2, <2>3, HostFrame DEF AnswerOK
<1>11. RequestInv'
  <2> SUFFICES ASSUME NEW i \in Of(toEngine, "request") PROVE RequestOK(i)'
    BY <1>6 DEF RequestInv
  <2>1. RequestOK(i)
    BY DEF Core, RequestInv
  <2>2. QED
    BY <1>1, <1>2, <1>6, <2>1, HostFrame DEF RequestOK
<1>12. CancelInv'
  <2>1. /\ stack # <<>> /\ m.id = Top.id
        /\ Top.cancelSent /\ ~Top.acknowledged
        /\ \A j \in Of(toHost, "cancel") : j = 1
        /\ Of(toEngine, "cancel") = {}
    BY <1>2 DEF Core, CancelInv
  <2>2. Of(toHost', "cancel") = {}
    <3>1. \A i \in Of(toHost', "cancel") : i + 1 = 1 /\ 0 < i /\ i \in Nat
      BY <1>2, <2>1
    <3>2. QED
      BY <3>1
  <2>3. Of(toEngine', "cancel") = {n} /\ toEngine'[n].id = m.id
    BY <1>4, <1>6, <2>1
  <2>4. QED
    BY <2>1, <2>2, <2>3, HostFrame DEF CancelInv
<1>13. CallInv'
  BY <1>1, TakingKeepsWay
<1>14. ReplyInv'
  <2> SUFFICES ASSUME NEW i \in Of(toHost', "response") PROVE ReplyOK(i)'
    BY DEF ReplyInv
  <2>1. ReplyOK(i + 1) /\ toHost'[i] = toHost[i + 1] /\ i \in Nat
    BY <1>2 DEF Core, ReplyInv
  <2>2. \A j \in Of(toHost', "response") : toHost'[j].id = toHost'[i].id => j = i
    <3> SUFFICES ASSUME NEW j \in Of(toHost', "response"), toHost'[j].id = toHost'[i].id PROVE j = i
      OBVIOUS
    <3>1. j \in Nat /\ j + 1 \in Of(toHost, "response") /\ toHost'[j] = toHost[j + 1]
      BY <1>2
    <3>2. j + 1 = i + 1
      BY <2>1, <3>1 DEF ReplyOK
    <3>3. QED
      BY <2>1, <3>1, <3>2
  <2>3. QED
    BY <1>1, <2>1, <2>2, HostFrame DEF ReplyOK
<1>15. TaskInv'
  <2>1. TaskInv
    BY DEF Core
  <2>2. \A c, d \in calls' : c.id = d.id => c = d
    BY <1>5, <2>1 DEF TaskInv
  <2>3. ASSUME NEW c \in calls'
        PROVE  /\ \E k \in 1 .. Len(stack) : stack[k].id = c.id /\ stack[k].target = c.target
               /\ c.id <= lastRequest
               /\ \A t \in terminals : t.id # c.id
               /\ c.target = Stop => ~c.running
    <3>1. PICK b \in calls : b.id = c.id /\ b.target = c.target /\ b.running = c.running
      BY <1>5
    <3>2. QED
      BY <2>1, <3>1 DEF TaskInv
  <2>4. QED
    BY <1>1, <2>2, <2>3, HostFrame DEF TaskInv, Stop
<1>16. PendingInv'
  <2>1. PendingInv
    BY DEF Core
  <2>2. \A id : (\E b \in calls : b.id = id) => \E c \in calls' : c.id = id
    BY <1>5
  <2>3. QED
    BY <1>1, <1>2, <2>1, <2>2, HostFrame DEF PendingInv
<1>17. LeaseInv'
  <2> SUFFICES ASSUME NEW token \in 1 .. Len(services), services[token] # Released
               PROVE  \/ \E i \in Of(toHost', "response") : toHost'[i].token = token
                      \/ \E h \in held : h.token = token
                      \/ \E i \in Of(toEngine', "request") :
                            toEngine'[i].operation = "release" /\ toEngine'[i].object = token
    BY <1>1, HostFrame DEF LeaseInv, Released
  <2>1. CASE \E i \in Of(toHost, "response") : toHost[i].token = token
    BY <1>2, <2>1
  <2>2. CASE \E i \in Of(toEngine, "request") : toEngine[i].operation = "release" /\ toEngine[i].object = token
    BY <1>6, <2>2
  <2>3. QED
    BY <1>2, <2>1, <2>2 DEF Core, LeaseInv
<1>18. StopInv'
  BY <1>6, HostFrame DEF Core, StopInv, Released, Stop
<1>19. QED
  BY <1>7, <1>8, <1>9, <1>10, <1>11, <1>12, <1>13, <1>14, <1>15, <1>16, <1>17, <1>18, HostFrame DEF Core

\* Every step of the host keeps the invariant.
LEMMA HostKeepsCore ==
    ASSUME TypeInv, Core, HostNext, UNCHANGED supervisorVars
    PROVE  Core'
<1>1. CASE Accept
  BY <1>1, HostTakes, RequestKeepsCore, ResponseKeepsCore, FailKeepsCore, CancelKeepsCore
<1>2. CASE ProcessEnds
  BY <1>2, ProcessEndsKeepsCore
<1>3. CASE \E c \in calls : Begin(c) \/ Ask(c) \/ Reply(c)
  BY <1>3, BeginKeepsCore, AskKeepsCore, ReplyKeepsCore
<1>4. QED
  BY <1>1, <1>2, <1>3 DEF HostNext
-----------------------------------------------------------------------------
(* The supervisor's steps that mark a frame.                               *)

\* A message that has been added to toHost.
LEMMA HostGets ==
    ASSUME TypeInv, NEW e \in HostMessages, toHost' = Append(toHost, e)
    PROVE  /\ Len(toHost) + 1 \in Nat
           /\ \A kind : e.kind # kind => Of(toHost', kind) = Of(toHost, kind)
           /\ \A kind : e.kind = kind => Of(toHost', kind) = Of(toHost, kind) \cup {Len(toHost) + 1}
           /\ \A kind : \A i \in Of(toHost, kind) :
                 i \in Nat /\ i < Len(toHost) + 1 /\ toHost'[i] = toHost[i]
           /\ toHost'[Len(toHost) + 1] = e
<1>1. toHost \in Seq(HostMessages)
  BY DEF TypeInv
<1>2. /\ \A kind : Of(Append(toHost, e), kind) = Of(toHost, kind) \cup {i \in {Len(toHost) + 1} : e.kind = kind}
      /\ \A kind : \A i \in Of(toHost, kind) :
            i \in Nat /\ 0 < i /\ i <= Len(toHost) /\ Append(toHost, e)[i] = toHost[i]
      /\ Append(toHost, e)[Len(toHost) + 1] = e /\ Len(toHost) \in Nat
  BY <1>1, OfAppend
<1>3. \A kind : \A i \in Of(toHost, kind) :
         i \in Nat /\ i < Len(toHost) + 1 /\ toHost'[i] = toHost[i]
  BY <1>2
<1>4. ASSUME NEW kind, e.kind # kind
      PROVE  Of(toHost', kind) = Of(toHost, kind)
  BY <1>2, <1>4
<1>5. ASSUME NEW kind, e.kind = kind
      PROVE  Of(toHost', kind) = Of(toHost, kind) \cup {Len(toHost) + 1}
  BY <1>2, <1>5
<1>6. Len(toHost) + 1 \in Nat /\ toHost'[Len(toHost) + 1] = e
  BY <1>2
<1>7. QED
  BY <1>3, <1>4, <1>5, <1>6

\* A message that has been taken from toEngine.
LEMMA EngineTakes ==
    ASSUME TypeInv, toEngine # <<>>, toEngine' = Tail(toEngine)
    PROVE  /\ toEngine[1] \in EngineMessages /\ toEngine[1].id \in Nat
           /\ Head(toEngine) = toEngine[1] /\ 1 \in Of(toEngine, toEngine[1].kind)
           /\ \A kind : \A i \in Of(toEngine', kind) :
                 i \in Nat /\ 0 < i /\ i + 1 \in Of(toEngine, kind) /\ toEngine'[i] = toEngine[i + 1]
           /\ \A kind : \A i \in Of(toEngine, kind) :
                 /\ i \in Nat /\ 0 < i
                 /\ i # 1 => i - 1 \in Of(toEngine', kind) /\ toEngine'[i - 1] = toEngine[i]
<1>1. toEngine \in Seq(EngineMessages)
  BY DEF TypeInv
<1>2. /\ \A kind : \A i \in Of(Tail(toEngine), kind) :
            /\ i \in Nat /\ 0 < i /\ i + 1 \in Of(toEngine, kind) /\ Tail(toEngine)[i] = toEngine[i + 1]
      /\ \A kind : \A i \in Of(toEngine, kind) :
            /\ i \in Nat /\ 0 < i
            /\ i # 1 => i - 1 \in Of(Tail(toEngine), kind) /\ Tail(toEngine)[i - 1] = toEngine[i]
      /\ Head(toEngine) = toEngine[1] /\ toEngine[1] \in EngineMessages
      /\ 1 \in Of(toEngine, toEngine[1].kind)
  BY <1>1, OfTail
<1>3. toEngine[1].id \in Nat
  BY <1>2 DEF EngineMessages
<1>4. QED
  BY <1>2, <1>3

\* The frames keep what they are, whatever is marked on them.
Marked ==
    /\ stack' \in Seq(Frames) /\ Len(stack') = Len(stack)
    /\ \A k \in 1 .. Len(stack) :
          /\ stack'[k].id = stack[k].id /\ stack'[k].via = stack[k].via
          /\ stack'[k].target = stack[k].target

\* What a marking leaves true, when the process and its tasks stay as they are.
LEMMA MarkedFrame ==
    ASSUME TypeInv, Core, Marked,
           UNCHANGED <<process, calls, pending, held, nextRequest, lastRequest, answers,
                       state, nextCall, lastService, services, fault>>
    PROVE  /\ Active' = Active /\ Alive' = Alive
           /\ (stack' = <<>> <=> stack = <<>>)
           /\ WaitInv' /\ PendingInv' /\ ExitInv'
           /\ (terminals' = terminals => TerminalInv' /\ TaskInv')
           /\ (outcomes' = outcomes => OutcomeInv')
           /\ (toEngine' = toEngine => StopInv')
<1>1. /\ stack \in Seq(Frames) /\ Len(stack) \in Nat
      /\ Active = {stack[k].id : k \in 1 .. Len(stack)}
  BY FrameTypes
<1>2. DOMAIN stack' = 1 .. Len(stack) /\ (stack' = <<>> <=> stack = <<>>)
  <2>1. DOMAIN stack' = 1 .. Len(stack') /\ (stack' = <<>> <=> Len(stack') = 0)
    BY NonEmptySeq DEF Marked
  <2>2. stack = <<>> <=> Len(stack) = 0
    BY <1>1, NonEmptySeq
  <2>3. QED
    BY <2>1, <2>2 DEF Marked
<1>3. Active' = Active
  BY <1>1, <1>2 DEF Active, Marked
<1>4. Alive' = Alive
  BY DEF Alive
<1>5. WaitInv'
  <2> SUFFICES ASSUME Alive, NEW k \in 2 .. Len(stack)
               PROVE  \E p \in pending : p.id = stack'[k].via /\ (k = 2 => p.call = stack'[1].id)
    BY <1>4 DEF WaitInv, Marked
  <2>1. k \in 1 .. Len(stack) /\ 1 \in 1 .. Len(stack)
    BY <1>1
  <2>2. QED
    BY <2>1 DEF Core, WaitInv, Marked
<1>6. PendingInv' /\ ExitInv'
  BY <1>4 DEF Core, PendingInv, ExitInv, Released
<1>7. ASSUME terminals' = terminals PROVE TerminalInv' /\ TaskInv'
  <2>1. TerminalInv'
    BY <1>3, <1>7 DEF Core, TerminalInv
  <2>2. \A c \in calls : \E k \in 1 .. Len(stack) : stack'[k].id = c.id /\ stack'[k].target = c.target
    BY DEF Core, TaskInv, Marked
  <2>3. TaskInv'
    BY <1>7, <2>2 DEF Core, TaskInv, Marked, Stop
  <2>4. QED
    BY <2>1, <2>3
<1>8. ASSUME outcomes' = outcomes PROVE OutcomeInv'
  BY <1>3, <1>8 DEF Core, OutcomeInv, OutcomeIsTrue, Lost
<1>9. ASSUME toEngine' = toEngine PROVE StopInv'
  <2> SUFFICES ASSUME stack' # <<>>, stack'[1].target = Stop
               PROVE  /\ Len(stack') = 1
                      /\ Of(toEngine, "request") = {}
                      /\ \A token \in 1 .. Len(services) : services[token] = Released
    BY <1>9 DEF StopInv, Stop, Released
  <2>1. stack # <<>> /\ stack[1].target = Stop /\ Len(stack') = Len(stack)
    BY <1>1, <1>2, EmptySeq DEF Marked
  <2>2. QED
    BY <2>1 DEF Core, StopInv
<1>10. QED
  <2>1. terminals' = terminals => TerminalInv' /\ TaskInv'
    BY <1>7
  <2>2. outcomes' = outcomes => OutcomeInv'
    BY <1>8
  <2>3. toEngine' = toEngine => StopInv'
    BY <1>9
  <2>4. QED
    BY <1>2, <1>3, <1>4, <1>5, <1>6, <2>1, <2>2, <2>3

\* The order of the frames, and who is cancelled among them.
LEMMA MarkedStack ==
    ASSUME TypeInv, Core, Marked, UNCHANGED <<nextCall, lastService>>,
           \A k \in 1 .. Len(stack) : /\ stack'[k].cancelSent => k = Len(stack)
                                      /\ stack'[k].acknowledged => stack'[k].cancelSent
    PROVE  StackInv'
<1>1. /\ nextCall >= 2 /\ nextCall % 2 = 0
      /\ \A k \in 1 .. Len(stack) :
            /\ stack[k].id > 0 /\ stack[k].id < nextCall /\ stack[k].id % 2 = 0
            /\ (stack[k].via = 0 <=> k = 1)
            /\ stack[k].via <= lastService
            /\ (stack[k].target = Stop => k = 1)
      /\ \A j, k \in 1 .. Len(stack) :
            j < k => stack[j].id < stack[k].id /\ stack[j].via < stack[k].via
  BY DEF Core, StackInv
<1>2. \A k \in 1 .. Len(stack) :
            /\ stack'[k].id > 0 /\ stack'[k].id < nextCall' /\ stack'[k].id % 2 = 0
            /\ (stack'[k].via = 0 <=> k = 1)
            /\ stack'[k].via <= lastService'
            /\ (stack'[k].target = Stop => k = 1)
  BY <1>1 DEF Marked
<1>3. \A j, k \in 1 .. Len(stack) :
            j < k => stack'[j].id < stack'[k].id /\ stack'[j].via < stack'[k].via
  BY <1>1 DEF Marked
<1>4. Len(stack') = Len(stack)
  BY DEF Marked
<1>5. QED
  BY <1>1, <1>2, <1>3, <1>4 DEF StackInv, Stop

\* What is on the way stays right, but for the cancellations.
LEMMA MarkedWay ==
    ASSUME TypeInv, Core, Marked,
           UNCHANGED <<toEngine, terminals, process, calls, pending, held, nextRequest, lastRequest,
                       answers, state, nextCall, lastService, services, fault>>,
           Of(toHost', "request") = Of(toHost, "request"),
           Of(toHost', "response") = Of(toHost, "response"),
           \A i \in Of(toHost, "request") : toHost'[i] = toHost[i],
           \A i \in Of(toHost, "response") : toHost'[i] = toHost[i]
    PROVE  AnswerInv' /\ RequestInv' /\ CallInv' /\ ReplyInv' /\ LeaseInv'
<1>1. Active' = Active /\ Alive' = Alive /\ Len(stack') = Len(stack)
  BY MarkedFrame DEF Marked
<1>2. /\ Of(toEngine', "request") = Of(toEngine, "request")
      /\ Of(toEngine', "response") = Of(toEngine, "response")
  BY DEF Of
<1>3. AnswerInv'
  BY <1>1, <1>2 DEF Core, AnswerInv, AnswerOK
<1>4. RequestInv'
  BY <1>1, <1>2 DEF Core, RequestInv, RequestOK
<1>5. CallInv'
  <2> SUFFICES ASSUME NEW i \in Of(toHost, "request") PROVE CallOK(i)'
    BY DEF Core, CallInv
  <2>1. CallOK(i)
    BY DEF Core, CallInv
  <2>2. PICK k \in 1 .. Len(stack) : /\ stack[k].id = toHost[i].id
                                     /\ stack[k].target = toHost[i].target
                                     /\ stack[k].via = toHost[i].parent
    BY <2>1 DEF CallOK
  <2>3. \E l \in 1 .. Len(stack') : /\ stack'[l].id = toHost'[i].id
                                    /\ stack'[l].target = toHost'[i].target
                                    /\ stack'[l].via = toHost'[i].parent
    BY <1>1, <2>2 DEF Marked
  <2>4. QED
    BY <2>1, <2>3 DEF CallOK
<1>6. ReplyInv'
  <2> SUFFICES ASSUME NEW i \in Of(toHost, "response") PROVE ReplyOK(i)'
    BY DEF ReplyInv
  <2>1. ReplyOK(i)
    BY DEF Core, ReplyInv
  <2>2. \A k \in 1 .. Len(stack') : stack'[k].via # toHost'[i].id
    BY <1>1, <2>1 DEF ReplyOK, Marked
  <2>3. QED
    BY <2>1, <2>2 DEF ReplyOK
<1>7. LeaseInv'
  BY <1>1, <1>2 DEF Core, LeaseInv, Released
<1>8. QED
  BY <1>3, <1>4, <1>5, <1>6, <1>7

\* Time marks frames as due or late.
LEMMA TimeKeepsCore ==
    ASSUME TypeInv, Core, TimePasses
    PROVE  Core'
<1>1. /\ stack \in Seq(Frames) /\ DOMAIN stack = 1 .. Len(stack) /\ Len(stack) \in Nat
      /\ \A k \in 1 .. Len(stack) : stack[k] \in Frames
  BY FrameTypes
<1>2. UNCHANGED <<hostVars, state, reading, terminals, nextCall, served, asked, history>>
  BY DEF TimePasses, DeadlinePasses, GracePasses
<1>3. /\ stack # <<>> /\ Marked
      /\ \A k \in 1 .. Len(stack) : /\ stack'[k].cancelSent = stack[k].cancelSent
                                    /\ stack'[k].acknowledged = stack[k].acknowledged
  <2>1. CASE DeadlinePasses
    <3>1. PICK i \in 1 .. Len(stack) :
               stack' = [j \in 1 .. Len(stack) |->
                            IF j >= i THEN [stack[j] EXCEPT !.due = TRUE] ELSE stack[j]]
      BY <1>1, <2>1 DEF DeadlinePasses
    <3>2. \A j \in 1 .. Len(stack) : [stack[j] EXCEPT !.due = TRUE] \in Frames
      BY <1>1 DEF Frames
    <3>3. stack' \in [1 .. Len(stack) -> Frames]
      BY <1>1, <3>1, <3>2
    <3>4. stack' \in Seq(Frames) /\ Len(stack') = Len(stack) /\ stack # <<>>
      BY <1>1, <3>3, EmptySeq
    <3>5. \A k \in 1 .. Len(stack) :
             /\ stack'[k].id = stack[k].id /\ stack'[k].via = stack[k].via
             /\ stack'[k].target = stack[k].target
             /\ stack'[k].cancelSent = stack[k].cancelSent
             /\ stack'[k].acknowledged = stack[k].acknowledged
      BY <1>1, <3>1 DEF Frames
    <3>6. QED
      BY <3>4, <3>5 DEF Marked
  <2>2. CASE GracePasses
    <3> DEFINE frame == [Top EXCEPT !.late = TRUE]
    <3>1. stack # <<>> /\ stack' = WithTop(frame) /\ Top \in Frames /\ Top = stack[Len(stack)]
      BY <2>2, FrameTypes DEF GracePasses
    <3>2. /\ frame \in Frames
          /\ frame.id = Top.id /\ frame.via = Top.via /\ frame.target = Top.target
          /\ frame.cancelSent = Top.cancelSent /\ frame.acknowledged = Top.acknowledged
      BY <3>1 DEF Frames
    <3> HIDE DEF frame
    <3>3. /\ stack' \in Seq(Frames) /\ Len(stack') = Len(stack)
          /\ \A k \in 1 .. Len(stack) - 1 : stack'[k] = stack[k]
          /\ stack'[Len(stack)] = frame
      BY <3>1, <3>2, WithTopAt
    <3>4. \A k \in 1 .. Len(stack) : k = Len(stack) \/ k \in 1 .. Len(stack) - 1
      <4>1. Len(stack) \in Nat
        BY <1>1
      <4>2. QED
        BY <4>1
    <3>5. QED
      BY <3>1, <3>2, <3>3, <3>4 DEF Marked
  <2>3. QED
    BY <2>1, <2>2 DEF TimePasses
<1>4. UNCHANGED <<process, calls, pending, held, nextRequest, lastRequest, answers,
                  state, nextCall, lastService, services, fault, outcomes,
                  toHost, toEngine, terminals, reading>>
  BY <1>2 DEF hostVars, hostState, taskVars, served, history
<1>5. /\ Active' = Active /\ Alive' = Alive /\ stack' # <<>>
      /\ WaitInv' /\ PendingInv' /\ ExitInv' /\ TerminalInv' /\ TaskInv' /\ OutcomeInv' /\ StopInv'
  BY <1>3, <1>4, MarkedFrame
<1>6. AnswerInv' /\ RequestInv' /\ CallInv' /\ ReplyInv' /\ LeaseInv'
  <2>1. Of(toHost', "request") = Of(toHost, "request") /\ Of(toHost', "response") = Of(toHost, "response")
    BY <1>4 DEF Of
  <2>2. QED
    BY <1>3, <1>4, <2>1, MarkedWay
<1>7. StackInv'
  BY <1>3, <1>4, MarkedStack DEF Core, StackInv
<1>8. ControlInv'
  BY <1>3, <1>4, <1>5 DEF Core, ControlInv
<1>9. CancelInv'
  <2>1. Top'.id = Top.id /\ Top'.cancelSent = Top.cancelSent /\ Top'.acknowledged = Top.acknowledged
    <3>1. Len(stack) \in 1 .. Len(stack) /\ Len(stack') = Len(stack)
      BY <1>1, <1>3, EmptySeq DEF Marked
    <3>2. QED
      BY <1>3, <3>1 DEF Top, Marked
  <2>2. /\ Of(toHost', "cancel") = Of(toHost, "cancel") /\ Of(toHost', "request") = Of(toHost, "request")
        /\ Of(toEngine', "cancel") = Of(toEngine, "cancel")
    BY <1>4 DEF Of
  <2>3. QED
    BY <1>4, <1>5, <2>1, <2>2 DEF Core, CancelInv
<1>10. QED
  BY <1>5, <1>6, <1>7, <1>8, <1>9 DEF Core

\* No cancellation is on its way for a frame that has sent none.
LEMMA NoCancel ==
    ASSUME TypeInv, Core, stack = <<>> \/ ~Top.cancelSent \/ Top.acknowledged
    PROVE  Of(toHost, "cancel") = {} /\ Of(toEngine, "cancel") = {}
  BY DEF Core, CancelInv

\* A cancellation is sent for the innermost frame, once.
LEMMA SendCancelKeepsCore ==
    ASSUME TypeInv, Core, SendCancel
    PROVE  Core'
<1>1. CASE ~Alive
  BY <1>1, AbortKeepsCore DEF SendCancel, Alive
<1>2. CASE Alive
  <2> DEFINE e == CancelMessage(Top.id)
             n == Len(toHost) + 1
             frame == [Top EXCEPT !.cancelSent = TRUE]
  <2>1. /\ toHost' = Append(toHost, e) /\ stack' = WithTop(frame)
        /\ reading' = TRUE /\ stack # <<>> /\ ~Top.cancelSent
        /\ UNCHANGED <<toEngine, hostState, state, terminals, nextCall, served, asked, history>>
    BY <1>2 DEF SendCancel, Pumping, MustCancel, Alive
  <2>2. Top \in Frames /\ Top = stack[Len(stack)] /\ Len(stack) \in Nat /\ Len(stack) > 0
    BY <2>1, FrameTypes
  <2>3. /\ frame \in Frames
        /\ frame.id = Top.id /\ frame.via = Top.via /\ frame.target = Top.target
        /\ frame.cancelSent /\ frame.acknowledged = Top.acknowledged
    BY <2>2 DEF Frames
  <2>4. e \in HostMessages /\ e.kind = "cancel" /\ e.id = Top.id
    BY <2>2 DEF CancelMessage, HostMessages, Frames
  <2> HIDE DEF frame, e
  <2>5. /\ n \in Nat
        /\ Of(toHost', "request") = Of(toHost, "request")
        /\ Of(toHost', "response") = Of(toHost, "response")
        /\ Of(toHost', "cancel") = Of(toHost, "cancel") \cup {n}
        /\ \A i \in Of(toHost, "request") : i < n /\ toHost'[i] = toHost[i]
        /\ \A i \in Of(toHost, "response") : toHost'[i] = toHost[i]
        /\ toHost'[n] = e
    BY <2>1, <2>4, HostGets
  <2> HIDE DEF n
  <2>6. Of(toHost, "cancel") = {} /\ Of(toEngine, "cancel") = {}
    BY <2>1, NoCancel
  <2>7. /\ stack' \in Seq(Frames) /\ Len(stack') = Len(stack)
        /\ \A k \in 1 .. Len(stack) - 1 : stack'[k] = stack[k]
        /\ stack'[Len(stack)] = frame
    BY <2>1, <2>3, WithTopAt
  <2>8. \A k \in 1 .. Len(stack) : k = Len(stack) \/ k \in 1 .. Len(stack) - 1
    BY <2>2
  <2>9. Marked
    BY <2>2, <2>3, <2>7, <2>8 DEF Marked
  <2>10. UNCHANGED <<process, calls, pending, held, nextRequest, lastRequest, answers,
                     state, nextCall, lastService, services, fault, outcomes, toEngine, terminals>>
    BY <2>1 DEF hostState, taskVars, served, history
  <2>11. /\ Alive' = Alive /\ stack' # <<>>
         /\ WaitInv' /\ PendingInv' /\ ExitInv' /\ TerminalInv' /\ TaskInv' /\ OutcomeInv' /\ StopInv'
    BY <2>1, <2>9, <2>10, MarkedFrame
  <2>12. AnswerInv' /\ RequestInv' /\ CallInv' /\ ReplyInv' /\ LeaseInv'
    BY <2>5, <2>9, <2>10, MarkedWay
  <2>13. StackInv'
    <3>1. \A k \in 1 .. Len(stack) : /\ stack'[k].cancelSent => k = Len(stack)
                                     /\ stack'[k].acknowledged => stack'[k].cancelSent
      BY <2>2, <2>3, <2>7, <2>8 DEF Core, StackInv
    <3>2. QED
      BY <2>9, <2>10, <3>1, MarkedStack
  <2>14. ControlInv'
    BY <1>2, <2>1, <2>10, <2>11 DEF Core, ControlInv
  <2>15. CancelInv'
    <3>1. Top' = frame /\ Top.acknowledged = FALSE
      <4>1. Top' = frame
        BY <2>7 DEF Top
      <4>2. Len(stack) \in 1 .. Len(stack)
        BY <2>2
      <4>3. Top.acknowledged => Top.cancelSent
        BY <2>2, <4>2 DEF Core, StackInv
      <4>4. QED
        BY <2>1, <2>2, <4>1, <4>3 DEF Frames
    <3>2. Of(toHost', "cancel") = {n} /\ Of(toEngine', "cancel") = {}
      BY <2>5, <2>6, <2>10 DEF Of
    <3>3. QED
      BY <2>3, <2>4, <2>5, <2>11, <3>1, <3>2 DEF CancelInv
  <2>16. QED
    BY <2>11, <2>12, <2>13, <2>14, <2>15 DEF Core
<1>3. QED
  BY <1>1, <1>2
-----------------------------------------------------------------------------
(* What the supervisor reads.                                              *)

\* An answer or an acknowledgement is taken; an answer is stored.
LEMMA EngineTaken ==
    ASSUME TypeInv, Core, Marked, toEngine # <<>>, toEngine' = Tail(toEngine),
           toEngine[1].kind # "request",
           UNCHANGED <<toHost, process, calls, pending, held, nextRequest, lastRequest, answers,
                       state, nextCall, lastService, services, fault, outcomes>>,
           \/ terminals' = terminals
           \/ /\ toEngine[1].kind = "response"
              /\ terminals' = terminals \cup {[id |-> toEngine[1].id, answer |-> toEngine[1].answer]}
    PROVE  /\ AnswerInv' /\ RequestInv' /\ StopInv' /\ CallInv' /\ ReplyInv' /\ LeaseInv'
           /\ TerminalInv' /\ TaskInv'
<1> DEFINE new == [id |-> toEngine[1].id, answer |-> toEngine[1].answer]
<1>1. /\ Active' = Active /\ Alive' = Alive /\ Len(stack') = Len(stack)
      /\ (stack' = <<>> <=> stack = <<>>)
  BY MarkedFrame DEF Marked
<1>2. /\ toEngine[1].id \in Nat /\ 1 \in Of(toEngine, toEngine[1].kind)
      /\ \A i \in Of(toEngine', "request") :
            i \in Nat /\ 0 < i /\ i + 1 \in Of(toEngine, "request") /\ toEngine'[i] = toEngine[i + 1]
      /\ \A i \in Of(toEngine', "response") :
            i \in Nat /\ 0 < i /\ i + 1 \in Of(toEngine, "response") /\ toEngine'[i] = toEngine[i + 1]
  BY EngineTakes
<1>3. \A i \in Of(toEngine, "request") : i \in Nat /\ i - 1 \in Of(toEngine', "request") /\ toEngine'[i - 1] = toEngine[i]
  <2>1. \A i \in Of(toEngine, "request") : i # 1
    BY Typed
  <2>2. QED
    BY <2>1, EngineTakes
<1>4. new.id = toEngine[1].id
  OBVIOUS
<1>5. \/ terminals' = terminals
      \/ /\ AnswerOK(1) /\ terminals' = terminals \cup {new}
         /\ 1 \in Of(toEngine, "response")
  BY <1>2 DEF Core, AnswerInv
<1>6. terminals \subseteq terminals' /\ \A t \in terminals' : t \in terminals \/ t = new
  BY <1>5
<1>7. terminals' # terminals => new \in answers
  BY <1>5 DEF AnswerOK
<1> HIDE DEF new
<1>8. \A t \in terminals' :
         \/ t \in terminals
         \/ t = new /\ t.id = toEngine[1].id /\ AnswerOK(1) /\ 1 \in Of(toEngine, "response")
  BY <1>4, <1>5
<1>9. AnswerInv'
  <2> SUFFICES ASSUME NEW i \in Of(toEngine', "response") PROVE AnswerOK(i)'
    BY DEF AnswerInv
  <2>1. /\ AnswerOK(i + 1) /\ toEngine'[i] = toEngine[i + 1] /\ i \in Nat /\ 0 < i
        /\ i + 1 \in Of(toEngine, "response")
    BY <1>2 DEF Core, AnswerInv
  <2>2. \A t \in terminals' : t.id # toEngine'[i].id
    <3> SUFFICES ASSUME NEW t \in terminals', t.id = toEngine'[i].id PROVE FALSE
      OBVIOUS
    <3>1. CASE t \in terminals
      BY <2>1, <3>1 DEF AnswerOK
    <3>2. CASE t.id = toEngine[1].id /\ AnswerOK(1)
      <4>1. i + 1 = 1
        BY <2>1, <3>2 DEF AnswerOK
      <4>2. QED
        BY <2>1, <4>1
    <3>3. QED
      BY <1>8, <3>1, <3>2
  <2>3. \A j \in Of(toEngine', "response") : toEngine'[j].id = toEngine'[i].id => j = i
    <3> SUFFICES ASSUME NEW j \in Of(toEngine', "response"), toEngine'[j].id = toEngine'[i].id PROVE j = i
      OBVIOUS
    <3>1. j \in Nat /\ j + 1 \in Of(toEngine, "response") /\ toEngine'[j] = toEngine[j + 1]
      BY <1>2
    <3>2. j + 1 = i + 1
      BY <2>1, <3>1 DEF AnswerOK
    <3>3. QED
      BY <2>1, <3>1, <3>2
  <2>4. Of(toHost', "request") = Of(toHost, "request")
    BY DEF Of
  <2>5. QED
    BY <1>1, <2>1, <2>2, <2>3, <2>4 DEF AnswerOK
<1>10. RequestInv'
  <2> SUFFICES ASSUME NEW i \in Of(toEngine', "request") PROVE RequestOK(i)'
    BY DEF RequestInv
  <2>1. /\ RequestOK(i + 1) /\ toEngine'[i] = toEngine[i + 1] /\ i \in Nat /\ 0 < i
        /\ i + 1 \in Of(toEngine, "request")
    BY <1>2 DEF Core, RequestInv
  <2>2. \A t \in terminals' : t.id # toEngine'[i].parent
    <3> SUFFICES ASSUME NEW t \in terminals', t.id = toEngine'[i].parent PROVE FALSE
      OBVIOUS
    <3>1. CASE t \in terminals
      BY <2>1, <3>1 DEF RequestOK
    <3>2. CASE t.id = toEngine[1].id /\ 1 \in Of(toEngine, "response")
      <4>1. 1 < i + 1
        BY <2>1
      <4>2. QED
        BY <2>1, <3>2, <4>1 DEF RequestOK
    <3>3. QED
      BY <1>8, <3>1, <3>2
  <2>3. \A j \in Of(toEngine', "response") : j < i => toEngine'[j].id # toEngine'[i].parent
    <3> SUFFICES ASSUME NEW j \in Of(toEngine', "response"), j < i PROVE toEngine'[j].id # toEngine'[i].parent
      OBVIOUS
    <3>1. j \in Nat /\ j + 1 \in Of(toEngine, "response") /\ toEngine'[j] = toEngine[j + 1]
      BY <1>2
    <3>2. j + 1 < i + 1
      BY <2>1, <3>1
    <3>3. QED
      BY <2>1, <3>1, <3>2 DEF RequestOK
  <2>4. \A j \in Of(toEngine', "request") : j < i => toEngine'[j].id < toEngine'[i].id
    <3> SUFFICES ASSUME NEW j \in Of(toEngine', "request"), j < i PROVE toEngine'[j].id < toEngine'[i].id
      OBVIOUS
    <3>1. j \in Nat /\ j + 1 \in Of(toEngine, "request") /\ toEngine'[j] = toEngine[j + 1]
      BY <1>2
    <3>2. j + 1 < i + 1
      BY <2>1, <3>1
    <3>3. QED
      BY <2>1, <3>1, <3>2 DEF RequestOK
  <2>5. QED
    BY <1>1, <2>1, <2>2, <2>3, <2>4 DEF RequestOK
<1>11. StopInv'
  <2> SUFFICES ASSUME stack # <<>>, stack'[1].target = Stop
               PROVE  /\ Len(stack') = 1
                      /\ Of(toEngine', "request") = {}
                      /\ \A token \in 1 .. Len(services) : services[token] = Released
    BY <1>1 DEF StopInv, Stop, Released
  <2>1. stack[1].target = Stop
    BY FrameTypes DEF Marked
  <2>2. Of(toEngine, "request") = {} /\ Len(stack) = 1 /\ \A token \in 1 .. Len(services) : services[token] = Released
    BY <2>1 DEF Core, StopInv
  <2>3. Of(toEngine', "request") = {}
    BY <1>2, <2>2
  <2>4. QED
    BY <1>1, <2>2, <2>3
<1>12. CallInv'
  <2>1. Of(toHost', "request") = Of(toHost, "request")
    BY DEF Of
  <2> SUFFICES ASSUME NEW i \in Of(toHost, "request") PROVE CallOK(i)'
    BY <2>1 DEF Core, CallInv
  <2>2. CallOK(i)
    BY DEF Core, CallInv
  <2>3. PICK k \in 1 .. Len(stack) : /\ stack[k].id = toHost[i].id
                                     /\ stack[k].target = toHost[i].target
                                     /\ stack[k].via = toHost[i].parent
    BY <2>2 DEF CallOK
  <2>4. \E l \in 1 .. Len(stack') : /\ stack'[l].id = toHost'[i].id
                                    /\ stack'[l].target = toHost'[i].target
                                    /\ stack'[l].via = toHost'[i].parent
    BY <1>1, <2>3 DEF Marked
  <2>5. \A t \in terminals' : t.id # toHost[i].id
    BY <1>8, <2>2 DEF CallOK, AnswerOK
  <2>6. QED
    BY <2>1, <2>2, <2>4, <2>5 DEF CallOK
<1>13. ReplyInv'
  <2>1. Of(toHost', "response") = Of(toHost, "response")
    BY DEF Of
  <2> SUFFICES ASSUME NEW i \in Of(toHost, "response") PROVE ReplyOK(i)'
    BY <2>1 DEF ReplyInv
  <2>2. ReplyOK(i)
    BY DEF Core, ReplyInv
  <2>3. \A k \in 1 .. Len(stack') : stack'[k].via # toHost'[i].id
    BY <1>1, <2>2 DEF ReplyOK, Marked
  <2>4. QED
    BY <2>1, <2>2, <2>3 DEF ReplyOK
<1>14. LeaseInv'
  <2>1. Alive' = Alive /\ services' = services /\ held' = held /\ toHost' = toHost
    BY <1>1 DEF Alive
  <2> SUFFICES ASSUME Alive', NEW token \in 1 .. Len(services'), services'[token] # Released
               PROVE  \/ \E i \in Of(toHost', "response") : toHost'[i].token = token
                      \/ \E h \in held' : h.token = token
                      \/ \E i \in Of(toEngine', "request") :
                            toEngine'[i].operation = "release" /\ toEngine'[i].object = token
    BY DEF LeaseInv, Released
  <2>2. CASE \E i \in Of(toEngine, "request") : toEngine[i].operation = "release" /\ toEngine[i].object = token
    BY <1>3, <2>2
  <2>3. QED
    BY <2>1, <2>2 DEF Core, LeaseInv
<1>15. TerminalInv'
  <2>1. TerminalInv /\ (terminals' # terminals => AnswerOK(1))
    BY <1>5 DEF Core
  <2>2. \A t \in terminals' : t.id \in Active' /\ t \in answers'
    BY <1>1, <1>6, <1>7, <1>8, <2>1 DEF TerminalInv, AnswerOK
  <2>3. \A t, u \in terminals' : t.id = u.id => t = u
    BY <1>8, <2>1 DEF TerminalInv, AnswerOK
  <2>4. QED
    BY <2>2, <2>3 DEF TerminalInv
<1>16. TaskInv'
  <2>1. \A c \in calls : \E k \in 1 .. Len(stack') : stack'[k].id = c.id /\ stack'[k].target = c.target
    BY <1>1 DEF Core, TaskInv, Marked
  <2>2. \A c \in calls : \A t \in terminals' : t.id # c.id
    BY <1>8 DEF Core, TaskInv, AnswerOK
  <2>3. QED
    BY <2>1, <2>2 DEF Core, TaskInv, Stop
<1>17. QED
  BY <1>9, <1>10, <1>11, <1>12, <1>13, <1>14, <1>15, <1>16

\* A stack that does not change is marked as it was.
LEMMA StackMarksItself == TypeInv => (stack' = stack => Marked)
  BY FrameTypes DEF Marked

\* An answer read is always of a frame that has none: it is stored.
LEMMA TerminalKeepsCore ==
    ASSUME TypeInv, Core, Read, toEngine # <<>>, toEngine[1].kind = "response"
    PROVE  Core'
<1> DEFINE m == toEngine[1]
<1>1. ReadTerminal(m) /\ 1 \in Of(toEngine, "response") /\ state = "ready"
  <2>1. Head(toEngine) = m /\ 1 \in Of(toEngine, "response")
    BY TailAt, OfTail DEF TypeInv
  <2>2. QED
    BY <2>1 DEF Read
<1>2. AnswerOK(1)
  BY <1>1 DEF Core, AnswerInv
<1>3. /\ terminals' = terminals \cup {[id |-> m.id, answer |-> m.answer]}
      /\ toEngine' = Tail(toEngine) /\ reading' = FALSE
      /\ UNCHANGED <<toHost, hostState, state, stack, nextCall, served, asked, history>>
  BY <1>1, <1>2 DEF ReadTerminal, AnswerOK
<1>4. UNCHANGED <<toHost, process, calls, pending, held, nextRequest, lastRequest, answers,
                  state, nextCall, lastService, services, fault, outcomes>>
  BY <1>3 DEF hostState, taskVars, served, history
<1>5. Marked
  BY <1>3, StackMarksItself
<1>6. /\ AnswerInv' /\ RequestInv' /\ StopInv' /\ CallInv' /\ ReplyInv' /\ LeaseInv'
      /\ TerminalInv' /\ TaskInv'
  BY <1>3, <1>4, <1>5, EngineTaken
<1>7. Alive' = Alive /\ WaitInv' /\ PendingInv' /\ ExitInv' /\ OutcomeInv'
  BY <1>4, <1>5, MarkedFrame
<1>8. ControlInv'
  BY <1>3, <1>4, <1>7 DEF Core, ControlInv
<1>9. StackInv'
  BY <1>3, <1>4 DEF Core, StackInv, Stop
<1>10. CancelInv'
  <2>1. Of(toHost', "cancel") = Of(toHost, "cancel") /\ Of(toHost', "request") = Of(toHost, "request") /\ Top' = Top
    BY <1>3 DEF Of, Top
  <2>2. \A i \in Of(toEngine', "cancel") :
            i \in Nat /\ i + 1 \in Of(toEngine, "cancel") /\ toEngine'[i] = toEngine[i + 1]
    BY <1>3, EngineTakes
  <2>3. CancelInv
    BY DEF Core
  <2>4. \A i \in Of(toEngine', "cancel") :
            /\ stack # <<>> /\ toEngine'[i].id = Top.id
            /\ Top.cancelSent /\ ~Top.acknowledged
            /\ Of(toHost, "cancel") = {}
    BY <2>2, <2>3 DEF CancelInv
  <2>5. ASSUME NEW i \in Of(toEngine', "cancel"), NEW j \in Of(toEngine', "cancel") PROVE j = i
    <3>1. i \in Nat /\ j \in Nat /\ i + 1 = j + 1
      BY <2>2, <2>3 DEF CancelInv
    <3>2. QED
      BY <3>1
  <2>6. QED
    BY <1>3, <2>1, <2>3, <2>4, <2>5 DEF CancelInv
<1>11. QED
  BY <1>6, <1>7, <1>8, <1>9, <1>10 DEF Core

\* An acknowledgement read is always that of the innermost frame.
LEMMA AcknowledgementKeepsCore ==
    ASSUME TypeInv, Core, Read, toEngine # <<>>, toEngine[1].kind = "cancel"
    PROVE  Core'
<1> DEFINE m == toEngine[1]
           frame == [Top EXCEPT !.acknowledged = TRUE]
<1>1. ReadAcknowledgement(m) /\ 1 \in Of(toEngine, "cancel") /\ state = "ready"
  <2>1. Head(toEngine) = m /\ 1 \in Of(toEngine, "cancel")
    BY TailAt, OfTail DEF TypeInv
  <2>2. QED
    BY <2>1 DEF Read
<1>2. /\ stack # <<>> /\ m.id = Top.id /\ Top.cancelSent /\ ~Top.acknowledged
      /\ \A j \in Of(toEngine, "cancel") : j = 1
      /\ Of(toHost, "cancel") = {}
  BY <1>1 DEF Core, CancelInv
<1>3. /\ stack' = WithTop(frame)
      /\ toEngine' = Tail(toEngine) /\ reading' = FALSE
      /\ UNCHANGED <<toHost, hostState, state, terminals, nextCall, served, asked, history>>
  BY <1>1, <1>2 DEF ReadAcknowledgement
<1>4. UNCHANGED <<toHost, process, calls, pending, held, nextRequest, lastRequest, answers,
                  state, nextCall, lastService, services, fault, outcomes, terminals>>
  BY <1>3 DEF hostState, taskVars, served, history
<1>5. Top \in Frames /\ Top = stack[Len(stack)] /\ Len(stack) \in Nat /\ Len(stack) > 0
  BY <1>2, FrameTypes
<1>6. /\ frame \in Frames
      /\ frame.id = Top.id /\ frame.via = Top.via /\ frame.target = Top.target
      /\ frame.cancelSent = Top.cancelSent
  BY <1>5 DEF Frames
<1> HIDE DEF frame
<1>7. /\ stack' \in Seq(Frames) /\ Len(stack') = Len(stack)
      /\ \A k \in 1 .. Len(stack) - 1 : stack'[k] = stack[k]
      /\ stack'[Len(stack)] = frame
  BY <1>2, <1>3, <1>6, WithTopAt
<1>8. \A k \in 1 .. Len(stack) : k = Len(stack) \/ k \in 1 .. Len(stack) - 1
  BY <1>5
<1>9. Marked
  BY <1>5, <1>6, <1>7, <1>8 DEF Marked
<1>10. /\ AnswerInv' /\ RequestInv' /\ StopInv' /\ CallInv' /\ ReplyInv' /\ LeaseInv'
       /\ TerminalInv' /\ TaskInv'
  <2>1. toEngine[1].kind # "request"
    OBVIOUS
  <2>2. QED
    BY <1>3, <1>4, <1>9, <2>1, EngineTaken
<1>11. Alive' = Alive /\ stack' # <<>> /\ WaitInv' /\ PendingInv' /\ ExitInv' /\ OutcomeInv'
  BY <1>2, <1>4, <1>9, MarkedFrame
<1>12. ControlInv'
  BY <1>1, <1>3, <1>4, <1>11 DEF Core, ControlInv
<1>13. StackInv'
  <2>1. \A k \in 1 .. Len(stack) : /\ stack'[k].cancelSent => k = Len(stack)
                                   /\ stack'[k].acknowledged => stack'[k].cancelSent
    BY <1>2, <1>5, <1>6, <1>7, <1>8 DEF Core, StackInv
  <2>2. QED
    BY <1>4, <1>9, <2>1, MarkedStack
<1>14. CancelInv'
  <2>1. Of(toHost', "cancel") = {}
    BY <1>2, <1>4 DEF Of
  <2>2. Of(toEngine', "cancel") = {}
    <3>1. \A i \in Of(toEngine', "cancel") : i \in Nat /\ 0 < i /\ i + 1 = 1
      BY <1>2, <1>3, EngineTakes
    <3>2. QED
      BY <3>1
  <2>3. QED
    BY <2>1, <2>2 DEF CancelInv
<1>15. QED
  BY <1>10, <1>11, <1>12, <1>13, <1>14 DEF Core
-----------------------------------------------------------------------------
(* Serving a request.                                                      *)

\* A request read is new, of a frame that waits, and awaited by the host.
LEMMA RequestRead ==
    ASSUME TypeInv, Core, toEngine # <<>>, toEngine[1].kind = "request"
    PROVE  /\ Head(toEngine) = toEngine[1] /\ toEngine[1] \in EngineMessages
           /\ RequestOK(1) /\ 1 \in Of(toEngine, "request")
           /\ stack # <<>> /\ stack[1].target # Stop
           /\ \A i \in Of(toEngine, "request") : i # 1 => toEngine[1].id < toEngine[i].id
<1>1. Head(toEngine) = toEngine[1] /\ toEngine[1] \in EngineMessages /\ 1 \in Of(toEngine, "request")
  BY OfTail DEF TypeInv
<1>2. RequestOK(1)
  BY <1>1 DEF Core, RequestInv
<1>3. stack # <<>>
  <2>1. DOMAIN stack # {}
    BY <1>2 DEF RequestOK, Active
  <2>2. QED
    BY <2>1, EmptySeq
<1>4. stack[1].target # Stop
  BY <1>1, <1>3 DEF Core, StopInv
<1>5. ASSUME NEW i \in Of(toEngine, "request"), i # 1 PROVE toEngine[1].id < toEngine[i].id
  <2>1. RequestOK(i)
    BY DEF Core, RequestInv
  <2>2. 1 < i
    BY <1>5 DEF Of
  <2>3. QED
    BY <1>1, <2>1, <2>2 DEF RequestOK
<1>6. QED
  BY <1>1, <1>2, <1>3, <1>4, <1>5

\* What serving leaves right, whether it answers or makes a nested call.
LEMMA ServedFrame ==
    ASSUME TypeInv, Core, toEngine # <<>>, toEngine[1].kind = "request", Served(toEngine[1]),
           state = "ready",
           stack' # <<>>, stack'[1].target = stack[1].target,
           nextCall' \in Nat, nextCall' >= nextCall,
           Active' = Active \/ Active' = Active \cup {nextCall},
           \A i \in Of(toHost', "request") :
              \/ i \in Of(toHost, "request") /\ toHost'[i] = toHost[i]
              \/ toHost'[i].id = nextCall
    PROVE  /\ ControlInv' /\ TerminalInv' /\ OutcomeInv' /\ AnswerInv' /\ RequestInv'
           /\ PendingInv' /\ StopInv' /\ ExitInv'
<1> DEFINE m == toEngine[1]
<1>1. /\ toEngine' = Tail(toEngine) /\ reading' = FALSE /\ lastService' = m.id
      /\ Alive
      /\ UNCHANGED <<process, calls, pending, held, nextRequest, lastRequest, answers,
                     state, terminals, fault, outcomes>>
  BY DEF Served, hostState, taskVars, history
<1>2. Alive' = Alive
  BY <1>1 DEF Alive
<1>3. /\ \A i \in Of(toEngine', "request") :
            i \in Nat /\ 0 < i /\ i + 1 \in Of(toEngine, "request") /\ toEngine'[i] = toEngine[i + 1]
      /\ \A i \in Of(toEngine', "response") :
            i \in Nat /\ 0 < i /\ i + 1 \in Of(toEngine, "response") /\ toEngine'[i] = toEngine[i + 1]
  BY <1>1, EngineTakes
<1>4. \A id \in Active : id \in Nat /\ id < nextCall
  <2>1. Active = {stack[k].id : k \in 1 .. Len(stack)} /\ \A k \in 1 .. Len(stack) : stack[k].id \in Nat
    BY FrameTypes, Typed
  <2>2. QED
    BY <2>1 DEF Core, StackInv
<1>5. ControlInv'
  BY <1>1, <1>2 DEF Core, ControlInv
<1>6. TerminalInv'
  BY <1>1 DEF Core, TerminalInv
<1>7. OutcomeInv'
  <2>1. OutcomeInv /\ \A o \in outcomes : o.id \in Nat /\ o.id < nextCall
    BY DEF Core, OutcomeInv, TypeInv, TypeOK
  <2>2. \A o \in outcomes : o.id \notin Active' /\ o.id < nextCall'
    <3>1. \A o \in outcomes : o.id \notin Active /\ o.id # nextCall
      BY <2>1, Typed DEF OutcomeInv, OutcomeIsTrue
    <3>2. \A o \in outcomes : o.id < nextCall'
      BY <2>1, Typed
    <3>3. QED
      BY <3>1, <3>2
  <2>3. OutcomeIsTrue'
    BY <1>1, <2>1, <2>2 DEF OutcomeInv, OutcomeIsTrue, Lost
  <2>4. QED
    BY <1>1, <2>1, <2>2, <2>3 DEF OutcomeInv, Lost
<1>8. AnswerInv'
  <2> SUFFICES ASSUME NEW i \in Of(toEngine', "response") PROVE AnswerOK(i)'
    BY DEF AnswerInv
  <2>1. AnswerOK(i + 1) /\ toEngine'[i] = toEngine[i + 1] /\ i \in Nat
    BY <1>3 DEF Core, AnswerInv
  <2>2. \A j \in Of(toEngine', "response") : toEngine'[j].id = toEngine'[i].id => j = i
    <3> SUFFICES ASSUME NEW j \in Of(toEngine', "response"), toEngine'[j].id = toEngine'[i].id PROVE j = i
      OBVIOUS
    <3>1. j \in Nat /\ j + 1 \in Of(toEngine, "response") /\ toEngine'[j] = toEngine[j + 1]
      BY <1>3
    <3>2. j + 1 = i + 1
      BY <2>1, <3>1 DEF AnswerOK
    <3>3. QED
      BY <2>1, <3>1, <3>2
  <2>3. \A j \in Of(toHost', "request") : toHost'[j].id # toEngine'[i].id
    <3>1. toEngine[i + 1].id # nextCall
      BY <1>4, <2>1, Typed DEF AnswerOK
    <3>2. QED
      BY <2>1, <3>1 DEF AnswerOK
  <2>4. QED
    BY <1>1, <2>1, <2>2, <2>3 DEF AnswerOK
<1>9. RequestInv'
  <2> SUFFICES ASSUME NEW i \in Of(toEngine', "request") PROVE RequestOK(i)'
    BY DEF RequestInv
  <2>1. /\ RequestOK(i + 1) /\ toEngine'[i] = toEngine[i + 1] /\ i \in Nat /\ 0 < i
        /\ i + 1 \in Of(toEngine, "request")
    BY <1>3 DEF Core, RequestInv
  <2>2. toEngine'[i].id > lastService'
    <3>1. i + 1 # 1 /\ toEngine[i + 1].id \in Nat /\ m.id \in Nat
      BY <2>1, RequestRead, Typed
    <3>2. m.id < toEngine[i + 1].id
      BY <2>1, <3>1, RequestRead
    <3>3. QED
      BY <1>1, <2>1, <3>1, <3>2
  <2>3. \A j \in Of(toEngine', "response") : j < i => toEngine'[j].id # toEngine'[i].parent
    <3> SUFFICES ASSUME NEW j \in Of(toEngine', "response"), j < i PROVE toEngine'[j].id # toEngine'[i].parent
      OBVIOUS
    <3>1. j \in Nat /\ j + 1 \in Of(toEngine, "response") /\ toEngine'[j] = toEngine[j + 1]
      BY <1>3
    <3>2. j + 1 < i + 1
      BY <2>1, <3>1
    <3>3. QED
      BY <2>1, <3>1, <3>2 DEF RequestOK
  <2>4. \A j \in Of(toEngine', "request") : j < i => toEngine'[j].id < toEngine'[i].id
    <3> SUFFICES ASSUME NEW j \in Of(toEngine', "request"), j < i PROVE toEngine'[j].id < toEngine'[i].id
      OBVIOUS
    <3>1. j \in Nat /\ j + 1 \in Of(toEngine, "request") /\ toEngine'[j] = toEngine[j + 1]
      BY <1>3
    <3>2. j + 1 < i + 1
      BY <2>1, <3>1
    <3>3. QED
      BY <2>1, <3>1, <3>2 DEF RequestOK
  <2>5. QED
    BY <1>1, <1>2, <2>1, <2>2, <2>3, <2>4 DEF RequestOK
<1>10. PendingInv'
  <2>1. PendingInv /\ [id |-> m.id, call |-> m.parent] \in pending
    BY <1>1, RequestRead DEF Core, RequestOK
  <2>2. m.id < nextRequest
    BY <2>1 DEF PendingInv
  <2>3. QED
    BY <1>1, <2>1, <2>2 DEF PendingInv
<1>11. StopInv'
  BY RequestRead DEF StopInv, Stop
<1>12. ExitInv'
  BY <1>1 DEF ExitInv
<1>13. QED
  BY <1>5, <1>6, <1>7, <1>8, <1>9, <1>10, <1>11, <1>12

\* The cancellations of the innermost frame, when it stays the innermost.
LEMMA SameTopCancels ==
    ASSUME TypeInv, Core, toEngine # <<>>, toEngine' = Tail(toEngine), stack' = stack,
           Of(toHost', "cancel") = Of(toHost, "cancel"), Of(toHost', "request") = Of(toHost, "request"),
           \A i \in Of(toHost, "cancel") : toHost'[i] = toHost[i]
    PROVE  CancelInv'
<1>1. Top' = Top
  BY DEF Top
<1>2. \A i \in Of(toEngine', "cancel") :
         i \in Nat /\ i + 1 \in Of(toEngine, "cancel") /\ toEngine'[i] = toEngine[i + 1]
  BY EngineTakes
<1>3. CancelInv
  BY DEF Core
<1>4. \A i \in Of(toEngine', "cancel") :
          /\ stack # <<>> /\ toEngine'[i].id = Top.id
          /\ Top.cancelSent /\ ~Top.acknowledged
          /\ Of(toHost, "cancel") = {}
  <2> SUFFICES ASSUME NEW i \in Of(toEngine', "cancel")
               PROVE  /\ stack # <<>> /\ toEngine'[i].id = Top.id
                      /\ Top.cancelSent /\ ~Top.acknowledged
                      /\ Of(toHost, "cancel") = {}
    OBVIOUS
  <2>1. i + 1 \in Of(toEngine, "cancel") /\ toEngine'[i] = toEngine[i + 1]
    BY <1>2
  <2>2. QED
    BY <1>3, <2>1 DEF CancelInv
<1>5. ASSUME NEW i \in Of(toEngine', "cancel"), NEW j \in Of(toEngine', "cancel") PROVE j = i
  <2>1. i \in Nat /\ j \in Nat /\ i + 1 = j + 1
    BY <1>2, <1>3 DEF CancelInv
  <2>2. QED
    BY <2>1
<1>6. QED
  BY <1>1, <1>3, <1>4, <1>5 DEF CancelInv

\* A request answered at once: the reply meets one that waits for it, and a
\* lease granted travels with it.
LEMMA AnsweredKeepsCore ==
    ASSUME TypeInv, Core, state = "ready", toEngine # <<>>, toEngine[1].kind = "request", Served(toEngine[1]),
           NEW token \in Nat, NEW granted, Answered(toEngine[1], token, granted),
           \/ granted = services /\ (toEngine[1].operation = "release" => ~Known(toEngine[1].object))
           \/ /\ toEngine[1].operation = "resolve" /\ token = Len(services) + 1
              /\ granted = Append(services, toEngine[1].object)
           \/ /\ toEngine[1].operation = "release" /\ toEngine[1].object \in DOMAIN services
              /\ granted = [services EXCEPT ![toEngine[1].object] = Released]
    PROVE  Core'
<1> DEFINE m == toEngine[1]
           e == ServiceResponse(m.id, token)
           n == Len(toHost) + 1
<1>1. /\ toEngine' = Tail(toEngine) /\ lastService' = m.id /\ Alive
      /\ toHost' = Append(toHost, e) /\ services' = granted
      /\ UNCHANGED <<stack, nextCall, process, calls, pending, held, nextRequest, lastRequest, terminals>>
  BY DEF Served, Answered, hostState, taskVars
<1>2. m \in EngineMessages /\ m.id \in Nat /\ RequestOK(1) /\ 1 \in Of(toEngine, "request")
  BY <1>1, RequestRead, EngineTakes
<1>3. e \in HostMessages /\ e.kind = "response" /\ e.id = m.id /\ e.token = token
  BY <1>2 DEF ServiceResponse, HostMessages
<1> HIDE DEF e
<1>4. /\ n \in Nat
      /\ Of(toHost', "request") = Of(toHost, "request")
      /\ Of(toHost', "cancel") = Of(toHost, "cancel")
      /\ Of(toHost', "response") = Of(toHost, "response") \cup {n}
      /\ \A i \in Of(toHost, "request") : toHost'[i] = toHost[i]
      /\ \A i \in Of(toHost, "cancel") : toHost'[i] = toHost[i]
      /\ \A i \in Of(toHost, "response") : toHost'[i] = toHost[i] /\ i \in Nat /\ i < n
      /\ toHost'[n] = e
  <2>1. /\ n \in Nat
        /\ \A kind : e.kind # kind => Of(toHost', kind) = Of(toHost, kind)
        /\ \A kind : e.kind = kind => Of(toHost', kind) = Of(toHost, kind) \cup {n}
        /\ \A kind : \A i \in Of(toHost, kind) : i \in Nat /\ i < n /\ toHost'[i] = toHost[i]
        /\ toHost'[n] = e
    BY <1>1, <1>3, HostGets
  <2> HIDE DEF n
  <2>2. QED
    BY <1>3, <2>1
<1> HIDE DEF n
<1>5. Active' = Active /\ Alive' = Alive /\ Top' = Top
  BY <1>1 DEF Active, Alive, Top
<1>6. /\ ControlInv' /\ TerminalInv' /\ OutcomeInv' /\ AnswerInv' /\ RequestInv'
      /\ PendingInv' /\ StopInv' /\ ExitInv'
  <2>1. stack' # <<>> /\ stack'[1].target = stack[1].target /\ nextCall' \in Nat /\ nextCall' >= nextCall
    BY <1>1, RequestRead, Typed
  <2>2. QED
    BY <1>4, <1>5, <2>1, ServedFrame
<1>7. lastService \in Nat /\ lastService < m.id
  BY <1>2, Typed DEF RequestOK
<1>8. StackInv'
  <2>1. \A k \in 1 .. Len(stack) : stack[k].via <= m.id
    <3> SUFFICES ASSUME NEW k \in 1 .. Len(stack) PROVE stack[k].via <= m.id
      OBVIOUS
    <3>1. stack[k].via <= lastService /\ stack[k].via \in Nat
      BY Typed DEF Core, StackInv
    <3>2. QED
      BY <1>2, <1>7, <3>1
  <2>2. QED
    BY <1>1, <2>1 DEF Core, StackInv, Stop
<1>9. WaitInv' /\ TaskInv'
  BY <1>1, <1>5 DEF Core, WaitInv, TaskInv, Stop
<1>10. CancelInv'
  BY <1>1, <1>4, SameTopCancels
<1>11. CallInv'
  <2> SUFFICES ASSUME NEW i \in Of(toHost, "request") PROVE CallOK(i)'
    BY <1>1, <1>4 DEF Core, CallInv
  <2>1. CallOK(i)
    BY DEF Core, CallInv
  <2>2. QED
    BY <1>1, <1>4, <2>1 DEF CallOK
<1>12. ReplyInv'
  <2>1. ReplyInv /\ StackInv
    BY DEF Core
  <2>2. \A i \in Of(toHost, "response") : toHost[i].id \in Nat /\ toHost[i].id < m.id
    <3> SUFFICES ASSUME NEW i \in Of(toHost, "response") PROVE toHost[i].id \in Nat /\ toHost[i].id < m.id
      OBVIOUS
    <3>1. toHost[i].id \in Nat /\ toHost[i].id <= lastService
      BY <2>1, Typed DEF ReplyInv, ReplyOK
    <3>2. QED
      BY <1>2, <1>7, <3>1
  <2>3. \A k \in 1 .. Len(stack) : stack[k].via < m.id
    <3> SUFFICES ASSUME NEW k \in 1 .. Len(stack) PROVE stack[k].via < m.id
      OBVIOUS
    <3>1. stack[k].via <= lastService /\ stack[k].via \in Nat
      BY <2>1, Typed DEF StackInv
    <3>2. QED
      BY <1>2, <1>7, <3>1
  <2>4. ASSUME NEW i \in Of(toHost, "response") PROVE ReplyOK(i)'
    <3>1. ReplyOK(i) /\ toHost'[i] = toHost[i]
      BY <1>4, <2>1 DEF ReplyInv
    <3>2. toHost[i].id <= lastService'
      BY <1>1, <1>2, <2>2
    <3>3. \A j \in Of(toHost', "response") : toHost'[j].id = toHost[i].id => j = i
      <4>1. toHost[i].id # m.id
        BY <1>2, <2>2
      <4>2. QED
        BY <1>3, <1>4, <3>1, <4>1 DEF ReplyOK
    <3>4. QED
      BY <1>1, <3>1, <3>2, <3>3 DEF ReplyOK
  <2>5. ASSUME NEW i \in {n} PROVE ReplyOK(i)'
    <3>1. toHost'[i].id = m.id /\ i = n
      BY <1>3, <1>4
    <3>2. [id |-> m.id, call |-> m.parent] \in pending'
      BY <1>1, <1>2 DEF RequestOK
    <3>3. \E p \in pending' : p.id = m.id
      BY <3>2
    <3>4. \A k \in 1 .. Len(stack) : stack[k].via # m.id
      BY <1>2, <2>3, Typed
    <3>5. \A j \in Of(toHost', "response") : toHost'[j].id = m.id => j = n
      <4>1. \A j \in Of(toHost, "response") : toHost[j].id # m.id
        BY <1>2, <2>2
      <4>2. QED
        BY <1>4, <4>1
    <3>6. m.id <= lastService'
      BY <1>1, <1>2
    <3>7. QED
      BY <1>1, <3>1, <3>3, <3>4, <3>5, <3>6 DEF ReplyOK
  <2>6. QED
    BY <1>4, <2>4, <2>5 DEF ReplyInv
<1>13. LeaseInv'
  <2>1. /\ services \in Seq(Targets \cup {Released})
        /\ Len(services) \in Nat /\ DOMAIN services = 1 .. Len(services)
    <3>1. services \in Seq(Targets \cup {Released})
      BY DEF TypeInv, TypeOK
    <3>2. QED
      BY <3>1, NonEmptySeq
  <2>2. ASSUME NEW t \in 1 .. Len(services), services[t] # Released,
               ~(m.operation = "release" /\ m.object = t)
        PROVE  \/ \E i \in Of(toHost', "response") : toHost'[i].token = t
               \/ \E h \in held' : h.token = t
               \/ \E i \in Of(toEngine', "request") :
                     toEngine'[i].operation = "release" /\ toEngine'[i].object = t
    <3>1. CASE \E i \in Of(toHost, "response") : toHost[i].token = t
      BY <1>4, <3>1
    <3>2. CASE \E h \in held : h.token = t
      BY <1>1, <3>2
    <3>3. CASE \E i \in Of(toEngine, "request") : toEngine[i].operation = "release" /\ toEngine[i].object = t
      <4>1. PICK i \in Of(toEngine, "request") : toEngine[i].operation = "release" /\ toEngine[i].object = t
        BY <3>3
      <4>2. i # 1
        BY <2>2, <4>1
      <4>3. i - 1 \in Of(toEngine', "request") /\ toEngine'[i - 1] = toEngine[i]
        BY <1>1, <4>2, EngineTakes
      <4>4. QED
        BY <4>1, <4>3
    <3>4. QED
      BY <1>1, <2>2, <3>1, <3>2, <3>3 DEF Core, LeaseInv
  <2>3. CASE granted = services /\ (m.operation = "release" => ~Known(m.object))
    <3> SUFFICES ASSUME NEW t \in 1 .. Len(services), services[t] # Released
                 PROVE  \/ \E i \in Of(toHost', "response") : toHost'[i].token = t
                        \/ \E h \in held' : h.token = t
                        \/ \E i \in Of(toEngine', "request") :
                              toEngine'[i].operation = "release" /\ toEngine'[i].object = t
      BY <1>1, <2>3 DEF LeaseInv, Released
    <3>1. ~(m.operation = "release" /\ m.object = t)
      BY <2>1, <2>3 DEF Known
    <3>2. QED
      BY <2>2, <3>1
  <2>4. CASE m.operation = "resolve" /\ token = Len(services) + 1 /\ granted = Append(services, m.object)
    <3> DEFINE kept(t) == \/ \E i \in Of(toHost', "response") : toHost'[i].token = t
                          \/ \E h \in held' : h.token = t
                          \/ \E i \in Of(toEngine', "request") :
                                toEngine'[i].operation = "release" /\ toEngine'[i].object = t
    <3>1. m.object \in Targets \cup {Released}
      BY <1>2, <2>4 DEF EngineMessages
    <3>2. /\ Len(granted) = Len(services) + 1
          /\ \A t \in 1 .. Len(services) : granted[t] = services[t]
      BY <2>1, <2>4, <3>1, AppendAt
    <3>3. ASSUME NEW t \in 1 .. Len(services), services[t] # Released PROVE kept(t)
      BY <2>2, <2>4, <3>3
    <3>4. kept(token)
      BY <1>3, <1>4
    <3> HIDE DEF kept
    <3>5. ASSUME NEW t \in 1 .. Len(granted), granted[t] # Released PROVE kept(t)
      <4>1. CASE t = token
        BY <3>4, <4>1
      <4>2. CASE t # token
        <5>1. t \in 1 .. Len(services)
          BY <2>1, <2>4, <3>2, <4>2
        <5>2. QED
          BY <3>2, <3>3, <3>5, <5>1
      <4>3. QED
        BY <4>1, <4>2
    <3>6. QED
      BY <1>1, <3>5 DEF LeaseInv, Released, kept
  <2>5. CASE m.operation = "release" /\ m.object \in DOMAIN services /\ granted = [services EXCEPT ![m.object] = Released]
    <3>1. /\ Len([services EXCEPT ![m.object] = Released]) = Len(services)
          /\ \A t \in 1 .. Len(services) :
                [services EXCEPT ![m.object] = Released][t] = IF t = m.object THEN Released ELSE services[t]
      <4>1. m.object \in 1 .. Len(services) /\ Released \in Targets \cup {Released}
        BY <2>1, <2>5
      <4>2. QED
        BY <2>1, <4>1, ExceptSeq
    <3>2. /\ Len(granted) = Len(services)
          /\ \A t \in 1 .. Len(services) : granted[t] = IF t = m.object THEN Released ELSE services[t]
      BY <2>5, <3>1
    <3> SUFFICES ASSUME NEW t \in 1 .. Len(services), granted[t] # Released
                 PROVE  \/ \E i \in Of(toHost', "response") : toHost'[i].token = t
                        \/ \E h \in held' : h.token = t
                        \/ \E i \in Of(toEngine', "request") :
                              toEngine'[i].operation = "release" /\ toEngine'[i].object = t
      BY <1>1, <3>2 DEF LeaseInv, Released
    <3>3. t # m.object /\ services[t] # Released
      BY <3>2
    <3>4. QED
      BY <2>2, <3>3
  <2>6. QED
    BY <2>3, <2>4, <2>5
<1>14. QED
  BY <1>6, <1>8, <1>9, <1>10, <1>11, <1>12, <1>13 DEF Core

\* A nested call: a frame more, for a request that is still awaited.
LEMMA NestedKeepsCore ==
    ASSUME TypeInv, Core, state = "ready", toEngine # <<>>, toEngine[1].kind = "request", Served(toEngine[1]),
           toEngine[1].operation = "invoke", NEW target \in Instances, Nested(toEngine[1], target)
    PROVE  Core'
<1> DEFINE m == toEngine[1]
           e == CallMessage(nextCall, m.id, target)
           frame == Frame(target, m.id, m.object)
           n == Len(toHost) + 1
           l == Len(stack) + 1
<1>1. /\ toEngine' = Tail(toEngine) /\ lastService' = m.id /\ Alive
      /\ toHost' = Append(toHost, e) /\ stack' = Append(stack, frame) /\ nextCall' = nextCall + 2
      /\ ~Interrupted
      /\ UNCHANGED <<process, services, calls, pending, held, nextRequest, lastRequest, terminals>>
  BY DEF Served, Nested, hostState, taskVars
<1>2. /\ m \in EngineMessages /\ m.id \in Nat /\ m.id % 2 = 1 /\ m.id > lastService /\ m.parent \in Active
      /\ m.object \in Nat
      /\ (Alive => [id |-> m.id, call |-> m.parent] \in pending)
      /\ 1 \in Of(toEngine, "request")
  <2>1. m \in EngineMessages /\ m.id \in Nat
    BY <1>1, EngineTakes
  <2>2. m.object \in Nat
    BY <2>1 DEF EngineMessages
  <2>3. QED
    BY <2>1, <2>2, RequestRead DEF RequestOK
<1>3. nextCall \in Nat /\ lastService \in Nat /\ lastRequest \in Nat /\ nextCall >= 2 /\ nextCall % 2 = 0
  BY Typed DEF Core, StackInv
<1>4. /\ e \in HostMessages /\ e.kind = "request" /\ e.id = nextCall /\ e.parent = m.id /\ e.target = target
  BY <1>2, <1>3 DEF CallMessage, HostMessages
<1>5. /\ frame \in Frames
      /\ frame.id = nextCall /\ frame.target = target /\ frame.via = m.id
      /\ frame.cancelSent = FALSE /\ frame.acknowledged = FALSE
  BY <1>2, <1>3 DEF Frame, Frames
<1> HIDE DEF e, frame
<1>6. /\ n \in Nat
      /\ Of(toHost', "response") = Of(toHost, "response")
      /\ Of(toHost', "cancel") = Of(toHost, "cancel")
      /\ Of(toHost', "request") = Of(toHost, "request") \cup {n}
      /\ \A i \in Of(toHost, "request") : toHost'[i] = toHost[i] /\ i \in Nat /\ i < n
      /\ \A i \in Of(toHost, "response") : toHost'[i] = toHost[i]
      /\ toHost'[n] = e
  BY <1>1, <1>4, HostGets
<1> HIDE DEF n
<1>7. /\ stack \in Seq(Frames) /\ Len(stack) \in Nat /\ Len(stack) > 0 /\ stack # <<>>
      /\ Top = stack[Len(stack)]
      /\ Active = {stack[k].id : k \in 1 .. Len(stack)}
      /\ \A k \in 1 .. Len(stack) : stack[k].id \in Nat /\ stack[k].via \in Nat
  BY RequestRead, FrameTypes, Typed
<1>8. /\ stack' \in Seq(Frames) /\ Len(stack') = l /\ l \in Nat
      /\ \A k \in 1 .. Len(stack) : stack'[k] = stack[k]
      /\ stack'[l] = frame
      /\ \A k \in 1 .. l : k \in 1 .. Len(stack) \/ k = l
      /\ \A k \in 1 .. Len(stack) : k < l /\ k \in 1 .. l
      /\ 1 \in 1 .. Len(stack) /\ l \in 1 .. l /\ l # 1
  BY <1>1, <1>5, <1>7, AppendAt
<1>9. stack' # <<>> /\ Active' = Active \cup {nextCall}
  <2>1. stack' # <<>> /\ DOMAIN stack' = 1 .. l
    BY <1>8, NonEmptySeq
  <2>2. Active' = {stack'[k].id : k \in 1 .. l}
    BY <2>1 DEF Active
  <2>3. QED
    BY <1>5, <1>7, <1>8, <2>1, <2>2
<1> HIDE DEF l
<1>10. Alive' = Alive
  BY <1>1 DEF Alive
<1>11. /\ ControlInv' /\ TerminalInv' /\ OutcomeInv' /\ AnswerInv' /\ RequestInv'
       /\ PendingInv' /\ StopInv' /\ ExitInv'
  <2>1. stack'[1].target = stack[1].target /\ nextCall' \in Nat /\ nextCall' >= nextCall
    BY <1>1, <1>3, <1>8
  <2>2. \A i \in Of(toHost', "request") :
           \/ i \in Of(toHost, "request") /\ toHost'[i] = toHost[i]
           \/ toHost'[i].id = nextCall
    BY <1>4, <1>6
  <2>3. QED
    BY <1>9, <2>1, <2>2, ServedFrame
<1>12. \A k \in 1 .. Len(stack) : ~stack[k].cancelSent
  BY <1>1, <1>7 DEF Interrupted, Core, StackInv
<1>13. \A k \in 1 .. Len(stack) : stack[k].id < nextCall /\ stack[k].via < m.id
  <2> SUFFICES ASSUME NEW k \in 1 .. Len(stack) PROVE stack[k].id < nextCall /\ stack[k].via < m.id
    OBVIOUS
  <2>1. stack[k].id < nextCall /\ stack[k].via <= lastService /\ stack[k].via \in Nat
    BY <1>7 DEF Core, StackInv
  <2>2. m.id > lastService /\ m.id \in Nat /\ lastService \in Nat
    BY <1>2, <1>3
  <2>3. QED
    BY <2>1, <2>2
<1>14. StackInv'
  <2>1. nextCall' >= 2 /\ nextCall' % 2 = 0
    <3>1. nextCall' = nextCall + 2
      BY <1>1
    <3>2. QED
      BY <1>3, <3>1
  <2>2. ASSUME NEW k \in 1 .. Len(stack)
        PROVE  /\ stack'[k].id > 0 /\ stack'[k].id < nextCall' /\ stack'[k].id % 2 = 0
               /\ (stack'[k].via = 0 <=> k = 1)
               /\ stack'[k].via <= lastService'
               /\ ~stack'[k].cancelSent /\ ~stack'[k].acknowledged
               /\ (stack'[k].target = Stop => k = 1)
    <3>1. /\ stack[k].id > 0 /\ stack[k].id % 2 = 0
          /\ (stack[k].via = 0 <=> k = 1)
          /\ (stack[k].acknowledged => stack[k].cancelSent)
          /\ (stack[k].target = Stop => k = 1)
      BY DEF Core, StackInv
    <3>2. stack[k].id < nextCall' /\ stack[k].via <= lastService'
      <4>1. /\ stack[k].id < nextCall /\ stack[k].via < m.id
            /\ stack[k].id \in Nat /\ stack[k].via \in Nat
        BY <1>7, <1>13
      <4>2. nextCall' = nextCall + 2 /\ lastService' = m.id /\ nextCall \in Nat /\ m.id \in Nat
        BY <1>1, <1>2, <1>3
      <4>3. QED
        BY <4>1, <4>2
    <3>3. QED
      BY <1>8, <1>12, <3>1, <3>2
  <2>3. /\ stack'[l].id > 0 /\ stack'[l].id < nextCall' /\ stack'[l].id % 2 = 0
        /\ (stack'[l].via = 0 <=> l = 1)
        /\ stack'[l].via <= lastService'
        /\ ~stack'[l].cancelSent /\ ~stack'[l].acknowledged
        /\ stack'[l].target # Stop
    <3>1. m.id # 0
      BY <1>2
    <3>2. target # Stop
      BY StopAssumption
    <3>3. QED
      BY <1>1, <1>2, <1>3, <1>5, <1>8, <3>1, <3>2
  <2>4. \A j, k \in 1 .. l : j < k => stack'[j].id < stack'[k].id /\ stack'[j].via < stack'[k].via
    <3> SUFFICES ASSUME NEW j \in 1 .. l, NEW k \in 1 .. l, j < k
                 PROVE  stack'[j].id < stack'[k].id /\ stack'[j].via < stack'[k].via
      OBVIOUS
    <3>1. j \in 1 .. Len(stack)
      BY <1>8 DEF l
    <3>2. CASE k = l
      BY <1>5, <1>8, <1>13, <3>1, <3>2
    <3>3. CASE k \in 1 .. Len(stack)
      <4>1. stack[j].id < stack[k].id /\ stack[j].via < stack[k].via
        BY <3>1, <3>3 DEF Core, StackInv
      <4>2. QED
        BY <1>8, <3>1, <3>3, <4>1
    <3>4. QED
      BY <1>8, <3>2, <3>3
  <2>5. \A k \in 1 .. l :
          /\ stack'[k].id > 0 /\ stack'[k].id < nextCall' /\ stack'[k].id % 2 = 0
          /\ (stack'[k].via = 0 <=> k = 1)
          /\ stack'[k].via <= lastService'
          /\ ~stack'[k].cancelSent /\ ~stack'[k].acknowledged
          /\ (stack'[k].target = Stop => k = 1)
    BY <1>8, <2>2, <2>3
  <2>6. QED
    BY <1>8, <2>1, <2>4, <2>5 DEF StackInv, Stop
<1>15. WaitInv'
  <2> SUFFICES ASSUME NEW k \in 2 .. l
               PROVE  \E p \in pending : p.id = stack'[k].via /\ (k = 2 => p.call = stack'[1].id)
    BY <1>1, <1>8 DEF WaitInv
  <2>1. CASE k \in 1 .. Len(stack)
    <3>1. k \in 2 .. Len(stack)
      BY <1>7, <2>1
    <3>2. \E p \in pending : p.id = stack[k].via /\ (k = 2 => p.call = stack[1].id)
      BY <1>1, <3>1 DEF Core, WaitInv
    <3>3. QED
      BY <1>8, <2>1, <3>2
  <2>2. CASE k = l
    <3>1. [id |-> m.id, call |-> m.parent] \in pending
      BY <1>1, <1>2
    <3>2. l = 2 => m.parent = stack[1].id
      <4>1. l = 2 => Len(stack) = 1
        <5>1. PICK k0 \in Nat : k0 = Len(stack)
          BY <1>7
        <5>2. l = k0 + 1
          BY <5>1 DEF l
        <5>3. k0 + 1 = 2 => k0 = 1
          BY <5>1
        <5>4. QED
          BY <5>1, <5>2, <5>3
      <4>2. PICK j \in 1 .. Len(stack) : m.parent = stack[j].id
        BY <1>2, <1>7
      <4>3. Len(stack) = 1 => j = 1
        BY <4>2
      <4>4. QED
        BY <4>1, <4>2, <4>3
    <3>3. QED
      BY <1>5, <1>8, <2>2, <3>1, <3>2
  <2>3. k \in 1 .. l
    BY <1>8
  <2>4. QED
    BY <1>8, <2>1, <2>2, <2>3
<1>16. CancelInv'
  <2>1. Of(toHost, "cancel") = {} /\ Of(toEngine, "cancel") = {}
    BY <1>1, NoCancel DEF Interrupted
  <2>2. Of(toEngine', "cancel") = {}
    BY <1>1, <2>1, EngineTakes
  <2>3. QED
    BY <1>6, <2>1, <2>2 DEF CancelInv
<1>17. CallInv'
  <2>1. lastRequest < nextCall
    BY DEF Core, CallInv
  <2>2. \A t \in terminals : t.id # nextCall
    <3>1. \A t \in terminals : t.id \in Active
      BY DEF Core, TerminalInv
    <3>2. \A id \in Active : id # nextCall
      BY <1>3, <1>7, <1>13
    <3>3. QED
      BY <3>1, <3>2
  <2>3. ASSUME NEW i \in Of(toHost, "request") PROVE CallOK(i) /\ toHost[i].id < nextCall
    <3>1. CallOK(i)
      BY DEF Core, CallInv
    <3>2. toHost[i].id < nextCall
      BY <1>13, <3>1 DEF CallOK
    <3>3. QED
      BY <3>1, <3>2
  <2>4. ASSUME NEW i \in Of(toHost, "request") PROVE CallOK(i)'
    <3>1. CallOK(i) /\ toHost'[i] = toHost[i] /\ i < n /\ i \in Nat
      BY <1>6, <2>3
    <3>2. \E k \in 1 .. Len(stack') : /\ stack'[k].id = toHost[i].id
                                      /\ stack'[k].target = toHost[i].target
                                      /\ stack'[k].via = toHost[i].parent
      BY <1>8, <3>1 DEF CallOK
    <3>3. \A j \in Of(toHost', "request") : j < i => toHost'[j].id < toHost[i].id
      <4>1. ~(n < i)
        BY <1>6, <3>1
      <4>2. QED
        BY <1>6, <3>1, <4>1 DEF CallOK
    <3>4. QED
      BY <1>1, <3>1, <3>2, <3>3 DEF CallOK
  <2>5. ASSUME NEW i \in {n} PROVE CallOK(i)'
    <3>1. i = n /\ toHost'[i] = e
      BY <1>6
    <3>2. \E k \in 1 .. Len(stack') : /\ stack'[k].id = toHost'[i].id
                                      /\ stack'[k].target = toHost'[i].target
                                      /\ stack'[k].via = toHost'[i].parent
      BY <1>4, <1>5, <1>8, <3>1
    <3>3. \A j \in Of(toHost', "request") : j < i => toHost'[j].id < toHost'[i].id
      <4> SUFFICES ASSUME NEW j \in Of(toHost', "request"), j < i PROVE toHost'[j].id < toHost'[i].id
        OBVIOUS
      <4>1. j \in Of(toHost, "request")
        BY <1>6, <3>1
      <4>2. QED
        BY <1>4, <1>6, <2>3, <3>1, <4>1
    <3>4. toHost'[i].id > lastRequest'
      BY <1>1, <1>3, <1>4, <2>1, <3>1
    <3>5. QED
      BY <1>1, <1>4, <2>2, <3>1, <3>2, <3>3, <3>4 DEF CallOK
  <2>6. lastRequest' < nextCall'
    BY <1>1, <1>3, <2>1
  <2>7. QED
    BY <1>6, <2>4, <2>5, <2>6 DEF CallInv
<1>18. ReplyInv'
  <2> SUFFICES ASSUME NEW i \in Of(toHost, "response") PROVE ReplyOK(i)'
    BY <1>6 DEF ReplyInv
  <2>1. ReplyOK(i) /\ toHost'[i] = toHost[i]
    BY <1>6 DEF Core, ReplyInv
  <2>2. toHost[i].id \in Nat /\ toHost[i].id < m.id
    <3>1. toHost[i].id \in Nat /\ toHost[i].id <= lastService
      BY <2>1, Typed DEF ReplyOK
    <3>2. QED
      BY <1>2, <1>3, <3>1
  <2>3. \A k \in 1 .. Len(stack') : stack'[k].via # toHost[i].id
    <3>1. \A k \in 1 .. Len(stack) : stack'[k].via # toHost[i].id
      BY <1>8, <2>1 DEF ReplyOK
    <3>2. stack'[l].via # toHost[i].id
      BY <1>2, <1>5, <1>8, <2>2
    <3>3. QED
      BY <1>8, <3>1, <3>2
  <2>4. toHost[i].id <= lastService'
    BY <1>1, <1>2, <2>2
  <2>5. QED
    BY <1>1, <1>6, <2>1, <2>3, <2>4 DEF ReplyOK
<1>19. TaskInv'
  <2>1. \A c \in calls : \E k \in 1 .. Len(stack') : stack'[k].id = c.id /\ stack'[k].target = c.target
    BY <1>8 DEF Core, TaskInv
  <2>2. QED
    BY <1>1, <2>1 DEF Core, TaskInv, Stop
<1>20. LeaseInv'
  <2> SUFFICES ASSUME NEW token \in 1 .. Len(services), services[token] # Released
               PROVE  \/ \E i \in Of(toHost', "response") : toHost'[i].token = token
                      \/ \E h \in held' : h.token = token
                      \/ \E i \in Of(toEngine', "request") :
                            toEngine'[i].operation = "release" /\ toEngine'[i].object = token
    BY <1>1 DEF LeaseInv, Released
  <2>1. CASE \E i \in Of(toHost, "response") : toHost[i].token = token
    BY <1>6, <2>1
  <2>2. CASE \E i \in Of(toEngine, "request") : toEngine[i].operation = "release" /\ toEngine[i].object = token
    <3>1. PICK i \in Of(toEngine, "request") : toEngine[i].operation = "release" /\ toEngine[i].object = token
      BY <2>2
    <3>2. i # 1
      BY <3>1
    <3>3. i - 1 \in Of(toEngine', "request") /\ toEngine'[i - 1] = toEngine[i]
      BY <1>1, <3>2, EngineTakes
    <3>4. QED
      BY <3>1, <3>3
  <2>3. QED
    BY <1>1, <2>1, <2>2 DEF Core, LeaseInv
<1>21. QED
  BY <1>11, <1>14, <1>15, <1>16, <1>17, <1>18, <1>19, <1>20 DEF Core

\* Whatever is read, the supervisor accepts.
LEMMA ReadKeepsCore ==
    ASSUME TypeInv, Core, Read
    PROVE  Core'
<1>1. CASE toEngine # <<>> /\ toEngine[1].kind = "request"
  <2> DEFINE m == toEngine[1]
  <2>1. m = Head(toEngine) /\ m \in EngineMessages /\ RequestOK(1)
    BY <1>1, RequestRead
  <2>2. ReadService(m) /\ state = "ready"
    BY <1>1, <2>1 DEF Read
  <2>3. ~(m.id % 2 # 1 \/ m.id <= lastService \/ m.parent \notin Active)
    <3>1. m.id \in Nat /\ lastService \in Nat
      BY <1>1, RequestRead, Typed
    <3>2. QED
      BY <2>1, <3>1 DEF RequestOK
  <2>4. Served(m) \/ \E why \in {"pipe", "cycle"} : Abort(why)
    BY <1>1, <2>1, <2>2, <2>3, ServeShape
  <2>5. CASE \E why \in {"pipe", "cycle"} : Abort(why)
    BY <2>5, AbortKeepsCore
  <2>6. CASE Served(m)
    <3>1. 0 \in Nat /\ Len(services) + 1 \in Nat
      BY Typed
    <3>2. CASE \E target \in Instances : m.operation = "invoke" /\ Nested(m, target)
      BY <1>1, <2>2, <2>6, <3>2, NestedKeepsCore
    <3>3. CASE (m.operation = "release" => ~Known(m.object)) /\ Answered(m, 0, services)
      BY <1>1, <2>2, <2>6, <3>1, <3>3, AnsweredKeepsCore
    <3>4. CASE m.operation = "resolve" /\ Answered(m, Len(services) + 1, Append(services, m.object))
      BY <1>1, <2>2, <2>6, <3>1, <3>4, AnsweredKeepsCore
    <3>5. CASE /\ m.operation = "release" /\ m.object \in DOMAIN services
               /\ Answered(m, 0, [services EXCEPT ![m.object] = Released])
      BY <1>1, <2>2, <2>6, <3>1, <3>5, AnsweredKeepsCore
    <3>6. QED
      BY <2>6, <3>2, <3>3, <3>4, <3>5 DEF Served
  <2>7. QED
    BY <2>4, <2>5, <2>6
<1>2. CASE toEngine # <<>> /\ toEngine[1].kind # "request"
  <2>1. toEngine[1].kind \in {"cancel", "response"}
    <3>1. toEngine[1] \in EngineMessages
      BY <1>2, TailAt DEF TypeInv
    <3>2. QED
      BY <1>2, <3>1 DEF EngineMessages
  <2>2. QED
    BY <1>2, <2>1, TerminalKeepsCore, AcknowledgementKeepsCore
<1>3. CASE toEngine = <<>>
  <2>1. CASE Abort("pipe")
    BY <2>1, AbortKeepsCore
  <2>2. CASE ~Abort("pipe")
    <3>1. reading' = FALSE /\ UNCHANGED <<hostVars, state, stack, terminals, nextCall, served, asked, history>>
      BY <1>3, <2>2 DEF Read
    <3>2. QED
      BY <3>1, IdleKeepsCore
  <2>3. QED
    BY <2>1, <2>2
<1>4. QED
  BY <1>1, <1>2, <1>3
-----------------------------------------------------------------------------
(* Returning: nothing of a call is left when its answer and its            *)
(* acknowledgement are in.                                                 *)

Over(id) ==
    /\ \A c \in calls : c.id # id
    /\ \A p \in pending : p.call # id
    /\ \A h \in held : h.call # id
    /\ \A i \in Of(toHost, "request") : toHost[i].id # id
    /\ \A i \in Of(toEngine, "request") : toEngine[i].parent # id
    /\ \A i \in Of(toEngine, "response") : toEngine[i].id # id
    /\ Of(toHost, "cancel") = {} /\ Of(toEngine, "cancel") = {}

\* A call that is complete has left nothing behind: no message of it is on the way
\* and the host has forgotten it.
LEMMA NothingLeft ==
    ASSUME TypeInv, Core, stack # <<>>, Complete
    PROVE  Over(Top.id)
<1>1. PICK own \in terminals : own.id = Top.id
  BY DEF Complete, Own
<1>2. own \in answers /\ \A c \in calls : c.id # Top.id
  BY <1>1 DEF Core, TerminalInv, TaskInv
<1>3. /\ \A p \in pending : p.call # Top.id
      /\ \A h \in held : h.call # Top.id
  BY <1>2 DEF Core, PendingInv
<1>4. \A i \in Of(toHost, "request") : toHost[i].id # Top.id
  BY <1>1 DEF Core, CallInv, CallOK
<1>5. \A i \in Of(toEngine, "request") : toEngine[i].parent # Top.id
  BY <1>1 DEF Core, RequestInv, RequestOK
<1>6. \A i \in Of(toEngine, "response") : toEngine[i].id # Top.id
  BY <1>1 DEF Core, AnswerInv, AnswerOK
<1>7. Of(toHost, "cancel") = {} /\ Of(toEngine, "cancel") = {}
  BY NoCancel DEF Complete
<1>8. QED
  BY <1>1, <1>2, <1>3, <1>4, <1>5, <1>6, <1>7 DEF Over

\* The outcome recorded is the call's own answer, or its interruption.
LEMMA EndedOutcome ==
    ASSUME TypeInv, Core, stack # <<>>, NEW own \in Own,
           outcomes' = outcomes \cup {[id |-> Top.id, result |-> Classified(own.answer)]},
           Top.id \notin Active', Active' \subseteq Active,
           state' # "faulted", state # "faulted", UNCHANGED <<answers, nextCall>>
    PROVE  OutcomeInv'
<1> DEFINE new == [id |-> Top.id, result |-> Classified(own.answer)]
<1>1. /\ own \in terminals /\ own.id = Top.id /\ own \in answers /\ own.answer \in Answers
  BY DEF Own, Core, TerminalInv, TypeInv, TypeOK
<1>2. /\ Classified(own.answer).unsure = own.answer.unsure
      /\ Classified(own.answer).status \in {"ok", "failed", "interrupted"}
      /\ Classified(own.answer).status = "ok" => own.answer.status = "ok"
  BY <1>1 DEF Classified, Answers
<1>3. /\ new.id = Top.id /\ new.result = Classified(own.answer)
      /\ new.result # Lost
  <2>1. new.id = Top.id /\ new.result = Classified(own.answer)
    OBVIOUS
  <2>2. Lost.status = "lost"
    BY DEF Lost
  <2>3. QED
    BY <1>2, <2>1, <2>2
<1> HIDE DEF new
<1>4. /\ OutcomeInv /\ Top \in Frames /\ Top = stack[Len(stack)] /\ Len(stack) \in 1 .. Len(stack)
      /\ Top.id \in Active
  <2>1. Top \in Frames /\ Top = stack[Len(stack)] /\ Len(stack) \in Nat /\ Len(stack) > 0
    BY FrameTypes
  <2>2. Len(stack) \in 1 .. Len(stack)
    BY <2>1
  <2>3. QED
    BY <2>1, <2>2, FrameTypes DEF Core
<1>5. \A o \in outcomes : o.id # Top.id
  BY <1>4 DEF OutcomeInv, OutcomeIsTrue
<1>6. Top.id < nextCall
  BY <1>4 DEF Core, StackInv
<1>7. \A o \in outcomes' : o \in outcomes \/ o = new
  BY DEF new
<1>8. \A o, p \in outcomes' : o.id = p.id => o = p
  BY <1>3, <1>4, <1>5, <1>7 DEF OutcomeInv, OutcomeIsTrue
<1>9. \A o \in outcomes' : o.id \notin Active' /\ o.id < nextCall /\ o.result # Lost
  BY <1>3, <1>4, <1>6, <1>7 DEF OutcomeInv, OutcomeIsTrue
<1>10. \A o \in outcomes' : \E a \in answers : /\ a.id = o.id
                                               /\ a.answer.unsure = o.result.unsure
                                               /\ o.result.status = "ok" => a.answer.status = "ok"
  <2>1. ASSUME NEW o \in outcomes
        PROVE  \E a \in answers : /\ a.id = o.id
                                  /\ a.answer.unsure = o.result.unsure
                                  /\ o.result.status = "ok" => a.answer.status = "ok"
    BY <1>4 DEF OutcomeInv, OutcomeIsTrue
  <2>2. /\ own.id = new.id /\ own.answer.unsure = new.result.unsure
        /\ new.result.status = "ok" => own.answer.status = "ok"
    BY <1>1, <1>2, <1>3
  <2>3. QED
    BY <1>1, <1>7, <2>1, <2>2
<1>11. QED
  BY <1>8, <1>9, <1>10 DEF OutcomeInv, OutcomeIsTrue, Lost

\* Pump returns to the handler below it, or to the engine.
LEMMA PopKeepsCore ==
    ASSUME TypeInv, Core, Pumping, Complete, NEW own \in Own,
           Top.via # 0 => Alive,
           stack' = Below, terminals' = terminals \ Own,
           toHost' = IF Top.via = 0 THEN toHost ELSE Append(toHost, ServiceResponse(Top.via, 0)),
           outcomes' = outcomes \cup {[id |-> Top.id, result |-> Classified(own.answer)]},
           UNCHANGED <<toEngine, hostState, state, reading, nextCall, served, asked, fault>>
    PROVE  Core'
<1> DEFINE l == Len(stack) - 1
           n == Len(toHost) + 1
<1>1. /\ UNCHANGED <<toEngine, process, calls, pending, held, nextRequest, lastRequest, answers,
                     state, reading, nextCall, lastService, services, fault>>
      /\ state = "ready" /\ ~reading /\ stack # <<>>
  BY DEF Pumping, hostState, taskVars, served
<1>2. /\ stack \in Seq(Frames) /\ Len(stack) \in Nat /\ Len(stack) > 0
      /\ Top \in Frames /\ Top = stack[Len(stack)]
      /\ Active = {stack[k].id : k \in 1 .. Len(stack)}
      /\ \A k \in 1 .. Len(stack) : stack[k].id \in Nat /\ stack[k].via \in Nat
  BY <1>1, FrameTypes, Typed
<1>3. /\ stack' \in Seq(Frames) /\ Len(stack') = l /\ l \in Nat
      /\ \A k \in 1 .. l : stack'[k] = stack[k]
      /\ \A k \in 1 .. Len(stack) : k = Len(stack) \/ k \in 1 .. l
      /\ \A k \in 1 .. l : k < Len(stack) /\ k \in 1 .. Len(stack)
      /\ Len(stack) \in 1 .. Len(stack)
  BY <1>1, <1>2, FrontAt DEF Below
<1> HIDE DEF l
<1>4. StackInv
  BY DEF Core
<1>5. \A k \in 1 .. l : /\ stack[k].id < Top.id /\ stack[k].via < Top.via
                        /\ stack[k].id # Top.id /\ stack[k].via # Top.via
                        /\ ~stack[k].cancelSent
  <2> SUFFICES ASSUME NEW k \in 1 .. l
               PROVE  /\ stack[k].id < Top.id /\ stack[k].via < Top.via
                      /\ stack[k].id # Top.id /\ stack[k].via # Top.via
                      /\ ~stack[k].cancelSent
    OBVIOUS
  <2>1. k \in 1 .. Len(stack) /\ k < Len(stack) /\ k # Len(stack)
    BY <1>2, <1>3
  <2>2. stack[k].id < Top.id /\ stack[k].via < Top.via /\ ~stack[k].cancelSent
    BY <1>2, <1>3, <1>4, <2>1 DEF StackInv
  <2>3. QED
    BY <1>2, <1>3, <2>1, <2>2
<1>6. /\ Active' = Active \ {Top.id}
      /\ \A k \in 1 .. Len(stack) : stack[k].id # Top.id => k \in 1 .. l
  <2>1. DOMAIN stack' = 1 .. l
    BY <1>3, NonEmptySeq
  <2>2. Active' = {stack'[k].id : k \in 1 .. l}
    BY <2>1 DEF Active
  <2>3. \A k \in 1 .. Len(stack) : stack[k].id # Top.id => k \in 1 .. l
    BY <1>2, <1>3
  <2>4. \A id \in Active' : id \in Active /\ id # Top.id
    BY <1>2, <1>3, <1>5, <2>2
  <2>5. \A id \in Active : id # Top.id => id \in Active'
    BY <1>2, <1>3, <2>2, <2>3
  <2>6. QED
    BY <2>3, <2>4, <2>5
<1>7. Alive' = Alive
  BY <1>1 DEF Alive
<1>8. Over(Top.id)
  BY <1>1, NothingLeft
<1>9. ControlInv'
  <2>1. stack' # <<>> => state' = "ready"
    BY <1>1
  <2>2. ~Alive' => toHost' = <<>>
    BY <1>7 DEF Core, ControlInv
  <2>3. QED
    BY <1>1, <1>7, <2>1, <2>2 DEF Core, ControlInv
<1>10. StackInv'
  <2>1. \A k \in 1 .. l :
          /\ stack'[k].id > 0 /\ stack'[k].id < nextCall' /\ stack'[k].id % 2 = 0
          /\ (stack'[k].via = 0 <=> k = 1)
          /\ stack'[k].via <= lastService'
          /\ ~stack'[k].cancelSent /\ ~stack'[k].acknowledged
          /\ (stack'[k].target = Stop => k = 1)
    BY <1>1, <1>3, <1>4, <1>5 DEF StackInv
  <2>2. \A j, k \in 1 .. l : j < k => stack'[j].id < stack'[k].id /\ stack'[j].via < stack'[k].via
    BY <1>3, <1>4 DEF StackInv
  <2>3. QED
    BY <1>1, <1>3, <1>4, <2>1, <2>2 DEF StackInv, Stop
<1>11. WaitInv'
  <2> SUFFICES ASSUME Alive, NEW k \in 2 .. l
               PROVE  \E p \in pending : p.id = stack'[k].via /\ (k = 2 => p.call = stack'[1].id)
    BY <1>1, <1>3, <1>7 DEF WaitInv
  <2>1. k \in 2 .. Len(stack) /\ k \in 1 .. l /\ 1 \in 1 .. l
    BY <1>2, <1>3 DEF l
  <2>2. \E p \in pending : p.id = stack[k].via /\ (k = 2 => p.call = stack[1].id)
    BY <2>1 DEF Core, WaitInv
  <2>3. QED
    BY <1>3, <2>1, <2>2
<1>12. TerminalInv'
  <2>1. \A t \in terminals' : t \in terminals /\ t.id # Top.id
    BY DEF Own
  <2>2. QED
    BY <1>1, <1>6, <2>1 DEF Core, TerminalInv
<1>13. OutcomeInv'
  BY <1>1, <1>6, EndedOutcome
<1>14. AnswerInv'
  <2>1. AnswerInv
    BY DEF Core
  <2>2. Of(toEngine', "response") = Of(toEngine, "response")
    BY <1>1 DEF Of
  <2>3. Of(toHost', "request") = Of(toHost, "request") /\ \A i \in Of(toHost, "request") : toHost'[i] = toHost[i]
    <3>1. ServiceResponse(Top.via, 0) \in HostMessages /\ ServiceResponse(Top.via, 0).kind = "response"
      BY <1>2 DEF ServiceResponse, HostMessages, Frames
    <3>2. CASE toHost' = toHost
      BY <3>2 DEF Of
    <3>3. CASE toHost' = Append(toHost, ServiceResponse(Top.via, 0))
      BY <3>1, <3>3, HostGets
    <3>4. QED
      BY <3>2, <3>3
  <2>4. QED
    <3> SUFFICES ASSUME NEW i \in Of(toEngine, "response") PROVE AnswerOK(i)'
      BY <2>2 DEF AnswerInv
    <3>1. AnswerOK(i) /\ toEngine'[i] = toEngine[i]
      BY <1>1, <2>1 DEF AnswerInv
    <3>2. toEngine[i].id \in Active'
      BY <1>6, <1>8, <3>1 DEF AnswerOK, Over
    <3>3. \A t \in terminals' : t.id # toEngine[i].id
      BY <3>1 DEF AnswerOK, Own
    <3>4. \A j \in Of(toHost', "request") : toHost'[j].id # toEngine[i].id
      BY <2>3, <3>1 DEF AnswerOK
    <3>5. \A j \in Of(toEngine', "response") : toEngine'[j].id = toEngine[i].id => j = i
      BY <1>1, <2>2, <3>1 DEF AnswerOK
    <3>6. QED
      BY <1>1, <3>1, <3>2, <3>3, <3>4, <3>5 DEF AnswerOK
<1>15. RequestInv'
  <2>1. RequestInv
    BY DEF Core
  <2>2. Of(toEngine', "request") = Of(toEngine, "request") /\ Of(toEngine', "response") = Of(toEngine, "response")
    BY <1>1 DEF Of
  <2>3. QED
    BY <1>1, <1>6, <1>7, <1>8, <2>1, <2>2 DEF RequestInv, RequestOK, Over
<1>16. /\ Of(toHost', "request") = Of(toHost, "request")
       /\ Of(toHost', "cancel") = Of(toHost, "cancel")
       /\ \A i \in Of(toHost, "request") : toHost'[i] = toHost[i]
       /\ \A i \in Of(toHost, "response") : i \in Of(toHost', "response") /\ toHost'[i] = toHost[i]
       /\ \A i \in Of(toHost', "response") :
             \/ i \in Of(toHost, "response") /\ toHost'[i] = toHost[i]
             \/ i = n /\ Top.via # 0 /\ toHost'[i].id = Top.via
  <2>1. /\ ServiceResponse(Top.via, 0) \in HostMessages /\ ServiceResponse(Top.via, 0).kind = "response"
        /\ ServiceResponse(Top.via, 0).id = Top.via
    BY <1>2 DEF ServiceResponse, HostMessages, Frames
  <2>2. CASE Top.via = 0
    BY <2>2 DEF Of
  <2>3. CASE Top.via # 0
    <3> DEFINE e == ServiceResponse(Top.via, 0)
    <3>1. e \in HostMessages /\ e.kind = "response" /\ e.id = Top.via /\ toHost' = Append(toHost, e)
      BY <2>1, <2>3
    <3> HIDE DEF e
    <3>2. /\ Of(toHost', "request") = Of(toHost, "request")
          /\ Of(toHost', "cancel") = Of(toHost, "cancel")
          /\ Of(toHost', "response") = Of(toHost, "response") \cup {n}
          /\ \A i \in Of(toHost, "request") : toHost'[i] = toHost[i]
          /\ \A i \in Of(toHost, "response") : toHost'[i] = toHost[i]
          /\ toHost'[n] = e
      BY <3>1, HostGets
    <3>3. QED
      BY <2>3, <3>1, <3>2
  <2>4. QED
    BY <2>2, <2>3
<1> HIDE DEF n
<1>17. CancelInv'
  <2>1. Of(toEngine', "cancel") = {}
    BY <1>1, <1>8 DEF Of, Over
  <2>2. QED
    BY <1>8, <1>16, <2>1 DEF CancelInv, Over
<1>18. CallInv'
  <2> SUFFICES ASSUME NEW i \in Of(toHost, "request") PROVE CallOK(i)'
    BY <1>1, <1>16 DEF Core, CallInv
  <2>1. CallOK(i) /\ toHost[i].id # Top.id /\ toHost'[i] = toHost[i]
    BY <1>8, <1>16 DEF Core, CallInv, Over
  <2>2. PICK k \in 1 .. Len(stack) : /\ stack[k].id = toHost[i].id
                                     /\ stack[k].target = toHost[i].target
                                     /\ stack[k].via = toHost[i].parent
    BY <2>1 DEF CallOK
  <2>3. k \in 1 .. l
    BY <1>6, <2>1, <2>2
  <2>4. \E j \in 1 .. Len(stack') : /\ stack'[j].id = toHost'[i].id
                                    /\ stack'[j].target = toHost'[i].target
                                    /\ stack'[j].via = toHost'[i].parent
    BY <1>3, <2>1, <2>2, <2>3
  <2>5. \A t \in terminals' : t.id # toHost'[i].id
    BY <2>1 DEF CallOK
  <2>6. QED
    BY <1>1, <1>16, <2>1, <2>4, <2>5 DEF CallOK
<1>19. ReplyInv'
  <2>1. ReplyInv
    BY DEF Core
  <2>2. \A j \in Of(toHost, "response") : toHost[j].id # Top.via
    BY <1>2, <1>3, <2>1 DEF ReplyInv, ReplyOK
  <2>3. ASSUME NEW i \in Of(toHost, "response") PROVE ReplyOK(i)'
    <3>1. ReplyOK(i) /\ toHost'[i] = toHost[i] /\ toHost[i].id # Top.via
      BY <1>16, <2>1, <2>2 DEF ReplyInv
    <3>2. \A k \in 1 .. Len(stack') : stack'[k].via # toHost[i].id
      BY <1>3, <3>1 DEF ReplyOK
    <3>3. \A j \in Of(toHost', "response") : toHost'[j].id = toHost[i].id => j = i
      BY <1>16, <3>1 DEF ReplyOK
    <3>4. QED
      BY <1>1, <3>1, <3>2, <3>3 DEF ReplyOK
  <2>4. ASSUME NEW i \in Of(toHost', "response"), i = n, Top.via # 0, toHost'[i].id = Top.via PROVE ReplyOK(i)'
    <3>1. \E p \in pending : p.id = Top.via
      <4>1. Alive /\ Len(stack) # 1
        BY <1>2, <1>3, <1>4, <2>4 DEF StackInv
      <4>2. Len(stack) \in 2 .. Len(stack)
        <5>1. PICK k0 \in Nat : k0 = Len(stack) /\ k0 > 0
          BY <1>2
        <5>2. k0 # 1 => k0 \in 2 .. k0
          BY <5>1
        <5>3. QED
          BY <4>1, <5>1, <5>2
      <4>3. QED
        BY <1>2, <4>1, <4>2 DEF Core, WaitInv
    <3>2. Top.via <= lastService
      BY <1>2, <1>3, <1>4 DEF StackInv
    <3>3. \A k \in 1 .. Len(stack') : stack'[k].via # Top.via
      BY <1>3, <1>5
    <3>4. \A j \in Of(toHost', "response") : toHost'[j].id = Top.via => j = i
      BY <1>16, <2>2, <2>4
    <3>5. QED
      BY <1>1, <2>4, <3>1, <3>2, <3>3, <3>4 DEF ReplyOK
  <2>5. QED
    BY <1>16, <2>3, <2>4 DEF ReplyInv
<1>20. TaskInv'
  <2>1. \A c \in calls : \E k \in 1 .. Len(stack') : stack'[k].id = c.id /\ stack'[k].target = c.target
    <3> SUFFICES ASSUME NEW c \in calls
                 PROVE  \E k \in 1 .. Len(stack') : stack'[k].id = c.id /\ stack'[k].target = c.target
      OBVIOUS
    <3>1. PICK k \in 1 .. Len(stack) : stack[k].id = c.id /\ stack[k].target = c.target
      BY DEF Core, TaskInv
    <3>2. k \in 1 .. l
      BY <1>6, <1>8, <3>1 DEF Over
    <3>3. QED
      BY <1>3, <3>1, <3>2
  <2>2. QED
    BY <1>1, <2>1 DEF Core, TaskInv, Stop
<1>21. PendingInv' /\ ExitInv'
  BY <1>1, <1>7 DEF Core, PendingInv, ExitInv, Released
<1>22. LeaseInv'
  <2>1. Of(toEngine', "request") = Of(toEngine, "request")
    BY <1>1 DEF Of
  <2> SUFFICES ASSUME Alive, NEW token \in 1 .. Len(services), services[token] # Released
               PROVE  \/ \E i \in Of(toHost', "response") : toHost'[i].token = token
                      \/ \E h \in held : h.token = token
                      \/ \E i \in Of(toEngine, "request") :
                            toEngine[i].operation = "release" /\ toEngine[i].object = token
    BY <1>1, <1>7, <2>1 DEF LeaseInv, Released
  <2>2. CASE \E i \in Of(toHost, "response") : toHost[i].token = token
    BY <1>16, <2>2
  <2>3. QED
    BY <2>2 DEF Core, LeaseInv
<1>23. StopInv'
  <2> SUFFICES ASSUME stack' # <<>>, stack'[1].target = Stop PROVE FALSE
    BY DEF StopInv, Stop
  <2>1. l # 0
    BY <1>3, NonEmptySeq
  <2>2. 1 \in 1 .. l /\ Len(stack) # 1
    BY <1>2, <1>3, <2>1 DEF l
  <2>3. stack[1].target = Stop
    BY <1>3, <2>2
  <2>4. QED
    BY <1>1, <2>2, <2>3 DEF Core, StopInv
<1>24. QED
  BY <1>9, <1>10, <1>11, <1>12, <1>13, <1>14, <1>15, <1>17, <1>18, <1>19, <1>20, <1>21, <1>22, <1>23 DEF Core

\* A STOP confirmed by the exit of the process leaves nothing.
LEMMA ExitKeepsCore ==
    ASSUME TypeInv, Core, Pumping, Complete, NEW own \in Own, Top.target = Stop, ~Alive,
           state' = "exited", stack' = <<>>, terminals' = {},
           outcomes' = outcomes \cup {[id |-> Top.id, result |-> Classified(own.answer)]},
           UNCHANGED <<hostVars, reading, nextCall, served, asked, fault>>
    PROVE  Core'
<1>1. /\ UNCHANGED <<toHost, toEngine, process, calls, pending, held, nextRequest, lastRequest, answers,
                     reading, nextCall, lastService, services, fault>>
      /\ state = "ready" /\ ~reading /\ stack # <<>>
      /\ toHost = <<>> /\ calls = {} /\ pending = {} /\ held = {}
  BY DEF Pumping, hostVars, hostState, taskVars, served, Core, ControlInv
<1>2. /\ Len(stack) \in 1 .. Len(stack) /\ Top = stack[Len(stack)]
      /\ Active = {stack[k].id : k \in 1 .. Len(stack)}
  <2>1. Len(stack) \in Nat /\ Len(stack) > 0
    BY <1>1, FrameTypes
  <2>2. QED
    BY <1>1, <2>1, FrameTypes
<1>3. /\ Len(stack) = 1 /\ Of(toEngine, "request") = {} /\ Top = stack[1]
      /\ \A token \in 1 .. Len(services) : services[token] = Released
  <2>1. Len(stack) = 1
    BY <1>2 DEF Core, StackInv
  <2>2. QED
    BY <1>1, <1>2, <2>1 DEF Core, StopInv
<1>4. Over(Top.id)
  BY <1>1, NothingLeft
<1>5. Of(toEngine, "response") = {}
  <2>1. Active = {Top.id}
    BY <1>2, <1>3
  <2>2. QED
    BY <1>4, <2>1 DEF Core, AnswerInv, AnswerOK, Over
<1>6. Active' = {} /\ Len(stack') = 0
  BY EmptyAt DEF Active
<1>7. /\ Of(toEngine', "request") = {} /\ Of(toEngine', "response") = {} /\ Of(toEngine', "cancel") = {}
      /\ \A kind : Of(toHost', kind) = {}
  <2>1. /\ Of(toEngine', "request") = {} /\ Of(toEngine', "response") = {} /\ Of(toEngine', "cancel") = {}
    BY <1>1, <1>3, <1>4, <1>5 DEF Of, Over
  <2>2. QED
    BY <1>1, <2>1, OfEmpty
<1>8. ControlInv'
  BY <1>1 DEF Core, ControlInv, Alive
<1>9. StackInv'
  <2>1. 1 .. Len(stack') = {}
    BY <1>6
  <2>2. QED
    BY <1>1, <2>1 DEF Core, StackInv
<1>10. WaitInv' /\ TerminalInv'
  BY <1>1 DEF WaitInv, TerminalInv, Alive
<1>11. OutcomeInv'
  BY <1>1, <1>6, EndedOutcome
<1>12. AnswerInv' /\ RequestInv' /\ CancelInv'
  BY <1>7 DEF AnswerInv, RequestInv, CancelInv
<1>13. CallInv' /\ ReplyInv'
  BY <1>1, <1>7 DEF Core, CallInv, ReplyInv
<1>14. TaskInv' /\ PendingInv'
  BY <1>1 DEF Core, TaskInv, PendingInv, Alive
<1>15. LeaseInv' /\ StopInv' /\ ExitInv'
  BY <1>1, <1>3 DEF LeaseInv, StopInv, ExitInv, Alive, Released
<1>16. QED
  BY <1>8, <1>9, <1>10, <1>11, <1>12, <1>13, <1>14, <1>15 DEF Core

\* A call that returns keeps the invariant, whichever way it returns.
LEMMA ReturnKeepsCore ==
    ASSUME TypeInv, Core, Return
    PROVE  Core'
<1>1. CASE Abort("pipe") \/ Abort("stop")
  BY <1>1, AbortKeepsCore
<1>2. CASE ~(Abort("pipe") \/ Abort("stop"))
  BY <1>2, ReturnShape, PopKeepsCore, ExitKeepsCore
<1>3. QED
  BY <1>1, <1>2
-----------------------------------------------------------------------------
(* Calling: nothing is left of the calls before.                           *)

\* With no call on the stack nothing is under way between the two peers.
LEMMA Quiet ==
    ASSUME TypeInv, Core, stack = <<>>
    PROVE  /\ calls = {} /\ pending = {} /\ held = {} /\ terminals = {}
           /\ toHost = <<>> /\ toEngine = <<>>
           /\ Active = {} /\ ~reading
           /\ Alive => \A token \in 1 .. Len(services) : services[token] = Released
<1>1. 1 .. Len(stack) = {} /\ Active = {}
  BY EmptyAt, FrameTypes
<1>2. terminals = {}
  BY <1>1 DEF Core, TerminalInv
<1>3. calls = {}
  BY <1>1 DEF Core, TaskInv
<1>4. pending = {} /\ held = {}
  BY <1>3 DEF Core, PendingInv
<1>5. Of(toHost, "request") = {} /\ Of(toHost, "response") = {}
  BY <1>1, <1>4 DEF Core, CallInv, CallOK, ReplyInv, ReplyOK
<1>6. Of(toEngine, "request") = {} /\ Of(toEngine, "response") = {}
  BY <1>1 DEF Core, AnswerInv, AnswerOK, RequestInv, RequestOK
<1>7. Of(toHost, "cancel") = {} /\ Of(toEngine, "cancel") = {}
  BY NoCancel
<1>8. toHost = <<>>
  <2> SUFFICES ASSUME toHost # <<>> PROVE FALSE
    OBVIOUS
  <2>1. toHost[1] \in HostMessages /\ 1 \in Of(toHost, toHost[1].kind)
    BY OfTail DEF TypeInv
  <2>2. toHost[1].kind \in {"request", "response", "cancel"}
    BY <2>1 DEF HostMessages
  <2>3. QED
    BY <1>5, <1>7, <2>1, <2>2
<1>9. toEngine = <<>>
  <2> SUFFICES ASSUME toEngine # <<>> PROVE FALSE
    OBVIOUS
  <2>1. toEngine[1] \in EngineMessages /\ 1 \in Of(toEngine, toEngine[1].kind)
    BY OfTail DEF TypeInv
  <2>2. toEngine[1].kind \in {"request", "response", "cancel"}
    BY <2>1 DEF EngineMessages
  <2>3. QED
    BY <1>6, <1>7, <2>1, <2>2
<1>10. ~reading
  BY DEF Core, ControlInv
<1>11. ASSUME Alive PROVE \A token \in 1 .. Len(services) : services[token] = Released
  BY <1>4, <1>5, <1>6, <1>11 DEF Core, LeaseInv
<1>12. QED
  BY <1>1, <1>2, <1>3, <1>4, <1>8, <1>9, <1>10, <1>11

\* A call made from there keeps the invariant.
LEMMA CallKeepsCore ==
    ASSUME TypeInv, Core, NEW target \in Instances \cup {Stop}, Call(target)
    PROVE  Core'
<1>1. /\ state = "ready" /\ stack = <<>> /\ nextCall' = nextCall + 2
      /\ nextCall \in Nat /\ nextCall >= 2 /\ nextCall % 2 = 0 /\ lastRequest \in Nat
  BY Typed DEF Call, Core, StackInv
<1>2. /\ calls = {} /\ pending = {} /\ held = {} /\ terminals = {}
      /\ toHost = <<>> /\ toEngine = <<>> /\ Active = {} /\ ~reading
  BY <1>1, Quiet
<1>3. nextCall' \in Nat /\ nextCall' >= nextCall /\ nextCall' % 2 = 0 /\ nextCall < nextCall'
  BY <1>1
<1>4. CASE ~Alive
  <2>1. /\ state' = "faulted" /\ fault' = "pipe"
        /\ outcomes' = outcomes \cup {[id |-> nextCall, result |-> Lost]}
        /\ Killed
        /\ UNCHANGED <<stack, reading, terminals, served>>
    BY <1>4 DEF Call, Alive
  <2>2. \A o \in outcomes : o.id # nextCall
    <3>1. \A o \in outcomes : o.id \in Nat /\ o.id < nextCall
      BY DEF Core, OutcomeInv, TypeInv, TypeOK
    <3>2. QED
      BY <1>1, <3>1
  <2>3. \A o \in outcomes' : o \in outcomes \/ (o.id \in {nextCall} /\ o = [id |-> o.id, result |-> Lost])
    BY <2>1
  <2>4. stack' = <<>> /\ reading' = FALSE /\ terminals' = {}
    BY <1>1, <1>2, <2>1 DEF TypeInv, TypeOK
  <2>5. {nextCall} \in SUBSET Nat /\ \A id \in {nextCall} : id < nextCall' /\ \A o \in outcomes : o.id # id
    BY <1>1, <1>3, <2>2
  <2>6. fault' \notin {"none", "protocol"}
    BY <2>1
  <2>7. QED
    BY <1>3, <2>1, <2>3, <2>4, <2>5, <2>6, LossKeepsCore
<1>5. CASE Alive
  <2> DEFINE frame == Frame(target, 0, 0)
             e == CallMessage(nextCall, 0, target)
  <2>1. /\ stack' = <<frame>>
        /\ toHost' = Append(toHost, e)
        /\ outcomes' = {} /\ answers' = {}
        /\ UNCHANGED <<toEngine, process, calls, pending, held, nextRequest, lastRequest>>
        /\ UNCHANGED <<state, reading, terminals, lastService, services, fault>>
    BY <1>5 DEF Call, Alive, taskVars, served
  <2>2. /\ frame.id = nextCall /\ frame.target = target /\ frame.via = 0
        /\ frame.cancelSent = FALSE /\ frame.acknowledged = FALSE
    BY DEF Frame
  <2>3. /\ e \in HostMessages /\ e.kind = "request"
        /\ e.id = nextCall /\ e.parent = 0 /\ e.target = target
    BY <1>1 DEF CallMessage, HostMessages
  <2> HIDE DEF frame, e
  <2>4. /\ Len(stack') = 1 /\ stack'[1] = frame /\ stack' # <<>> /\ 1 .. Len(stack') = {1}
    BY <2>1
  <2>5. /\ Of(toHost', "request") = {1} /\ toHost'[1] = e
        /\ Of(toHost', "cancel") = {} /\ Of(toHost', "response") = {}
    <3>1. Len(toHost) = 0
      BY <1>2, EmptyAt
    <3>2. \A kind : Of(toHost, kind) = {}
      BY <1>2, OfEmpty
    <3>3. QED
      BY <2>1, <2>3, <3>1, <3>2, HostGets
  <2>6. \A kind : Of(toEngine', kind) = {}
    BY <1>2, <2>1, OfEmpty
  <2>7. Alive' = Alive /\ \A token \in 1 .. Len(services) : services[token] = Released
    BY <1>1, <1>5, <2>1, Quiet DEF Alive
  <2>8. ControlInv'
    BY <1>1, <1>5, <2>1, <2>4, <2>7 DEF Core, ControlInv
  <2>9. StackInv'
    <3>1. lastService \in Nat
      BY Typed
    <3>2. /\ stack'[1].id > 0 /\ stack'[1].id < nextCall' /\ stack'[1].id % 2 = 0
          /\ stack'[1].via = 0 /\ stack'[1].via <= lastService'
          /\ ~stack'[1].cancelSent /\ ~stack'[1].acknowledged
      BY <1>1, <1>3, <2>1, <2>2, <2>4, <3>1
    <3>3. nextCall' >= 2
      BY <1>1
    <3>4. \A j, k \in 1 .. Len(stack') : ~(j < k)
      BY <2>4
    <3>5. QED
      BY <1>3, <2>4, <3>2, <3>3, <3>4 DEF StackInv, Stop
  <2>10. WaitInv'
    BY <2>4 DEF WaitInv
  <2>11. TerminalInv' /\ OutcomeInv'
    BY <1>2, <2>1 DEF TerminalInv, OutcomeInv, OutcomeIsTrue
  <2>12. AnswerInv' /\ RequestInv' /\ CancelInv' /\ ReplyInv'
    BY <2>5, <2>6 DEF AnswerInv, RequestInv, CancelInv, ReplyInv
  <2>13. CallInv'
    <3>1. lastRequest < nextCall
      BY DEF Core, CallInv
    <3>2. lastRequest' < nextCall'
      BY <1>1, <1>3, <2>1, <3>1
    <3>3. ASSUME NEW i \in {1} PROVE CallOK(i)'
      <4>1. \E k \in 1 .. Len(stack') : /\ stack'[k].id = toHost'[i].id
                                        /\ stack'[k].target = toHost'[i].target
                                        /\ stack'[k].via = toHost'[i].parent
        BY <2>2, <2>3, <2>4, <2>5
      <4>2. toHost'[i].id > lastRequest'
        BY <1>1, <2>1, <2>3, <2>5, <3>1
      <4>3. \A t \in terminals' : t.id # toHost'[i].id
        BY <1>2, <2>1
      <4>4. \A j \in Of(toHost', "request") : ~(j < i)
        BY <2>5
      <4>5. QED
        BY <4>1, <4>2, <4>3, <4>4 DEF CallOK
    <3>4. QED
      BY <2>5, <3>2, <3>3 DEF CallInv
  <2>14. TaskInv' /\ PendingInv'
    BY <1>2, <2>1, <2>7 DEF Core, TaskInv, PendingInv
  <2>15. LeaseInv' /\ StopInv' /\ ExitInv'
    BY <2>1, <2>4, <2>6, <2>7 DEF LeaseInv, StopInv, ExitInv, Released, Stop
  <2>16. QED
    BY <2>8, <2>9, <2>10, <2>11, <2>12, <2>13, <2>14, <2>15 DEF Core
<1>6. QED
  BY <1>4, <1>5

\* Every step keeps the invariant.
LEMMA CoreStep ==
    ASSUME TypeInv, Core, [Next]_vars
    PROVE  Core'
<1>1. CASE Start
  <2>1. CASE Abort("start")
    BY <2>1, AbortKeepsCore
  <2>2. CASE ~Abort("start")
    <3>1. /\ state = "created" /\ state' = "ready"
          /\ UNCHANGED <<hostVars, stack, reading, terminals, nextCall, served, asked, history>>
      BY <1>1, <2>2 DEF Start
    <3>2. reading' => stack # <<>>
      BY <3>1 DEF Core, ControlInv
    <3>3. QED
      BY <3>1, <3>2, IdleKeepsCore
  <2>3. QED
    BY <2>1, <2>2
<1>2. CASE \E target \in Entry \cup {Stop} : Call(target)
  BY <1>2, CallKeepsCore, EntryAssumption
<1>3. CASE SendCancel \/ Return \/ Read
  BY <1>3, SendCancelKeepsCore, ReturnKeepsCore, ReadKeepsCore
<1>4. CASE GiveUp
  BY <1>4, AbortKeepsCore DEF GiveUp
<1>5. CASE Poll
  <2>1. /\ stack # <<>>
        /\ UNCHANGED <<hostVars, state, stack, terminals, nextCall, served, asked, history>>
    BY <1>5 DEF Poll, Pumping
  <2>2. QED
    BY <2>1, IdleKeepsCore
<1>6. CASE TimePasses
  BY <1>6, TimeKeepsCore
<1>7. CASE CancellationRequested \/ UNCHANGED vars
  <2>1. UNCHANGED <<hostVars, state, stack, reading, terminals, nextCall, served, history>>
    BY <1>7 DEF CancellationRequested, vars, supervisorVars
  <2>2. reading' => stack # <<>>
    BY <2>1 DEF Core, ControlInv
  <2>3. QED
    BY <2>1, <2>2, IdleKeepsCore
<1>8. CASE HostNext /\ UNCHANGED supervisorVars
  BY <1>8, HostKeepsCore
<1>9. QED
  BY <1>1, <1>2, <1>3, <1>4, <1>5, <1>6, <1>7, <1>8 DEF Next, Pump
-----------------------------------------------------------------------------
(* The theorems.                                                           *)

\* Types and relations together are inductive.
IInv == TypeInv /\ Core

\* The invariant holds of every behaviour.
LEMMA InvariantHolds == Spec => []IInv
<1>1. Init => IInv
  BY TypeInitially, CoreInitially DEF IInv
<1>2. IInv /\ [Next]_vars => IInv'
  <2> SUFFICES ASSUME TypeInv, Core, [Next]_vars PROVE TypeInv' /\ Core'
    BY DEF IInv
  <2>1. Core'
    BY CoreStep
  <2>2. TypeInv'
    BY TypeStep DEF Core
  <2>3. QED
    BY <2>1, <2>2
<1>3. QED
  BY <1>1, <1>2, PTL DEF Spec

\* The types of both sides, and their bounds: no more than MaxDepth calls nest
\* or run, and no more than MaxCompleted are remembered, whatever is called,
\* asked, cancelled, timed out or lost (WorkerSupervisor.cpp Pump, worker.py
\* accept and dispatch).
THEOREM TypeCorrect == Spec => []TypeOK
<1>1. IInv => TypeOK
  BY DEF IInv, TypeInv
<1>2. QED
  BY <1>1, InvariantHolds, PTL

\* When Call or Stop returns and the worker is still usable, nothing of the
\* call is left on either side: no message, no stored answer, no operation, no
\* request awaited, no handle held, no lease.
THEOREM QuietWhenIdle == Spec => []IdleIsQuiet
<1>1. IInv => IdleIsQuiet
  <2> SUFFICES ASSUME TypeInv, Core, stack = <<>>, Alive PROVE IdleIsQuiet
    BY DEF IInv, IdleIsQuiet, Alive
  <2>1. DOMAIN services = 1 .. Len(services)
    <3>1. services \in Seq(Targets \cup {Released})
      BY DEF TypeInv, TypeOK
    <3>2. QED
      BY <3>1, NonEmptySeq
  <2>2. QED
    BY <2>1, Quiet DEF IdleIsQuiet
<1>2. QED
  BY <1>1, InvariantHolds, PTL

\* No operation runs, or waits to run, in the worker unless a Pump waits for
\* it: what ended, answered or lost, no longer acts.
THEOREM WorkAwaited == Spec => []WorkIsAwaited
<1>1. IInv => WorkIsAwaited
  <2> SUFFICES ASSUME TypeInv, Core, NEW c \in calls PROVE c.id \in Active
    BY DEF IInv, WorkIsAwaited
  <2>1. PICK k \in 1 .. Len(stack) : stack[k].id = c.id
    BY DEF Core, TaskInv
  <2>2. QED
    BY <2>1, FrameTypes
<1>2. QED
  BY <1>1, InvariantHolds, PTL

\* However its answer crosses a cancellation, a deadline, a nested call or the
\* loss of the worker, a call ends once and with what the operation reported.
THEOREM OutcomesTrue == Spec => []OutcomeIsTrue
<1>1. IInv => OutcomeIsTrue
  BY DEF IInv, Core, OutcomeInv
<1>2. QED
  BY <1>1, InvariantHolds, PTL

\* Stop reports a clean exit only of a process that is gone, of a worker that
\* lost no call and holds no lease.
THEOREM ExitsCleanly == Spec => []ExitIsClean
<1>1. IInv => ExitIsClean
  <2> SUFFICES ASSUME TypeInv, Core, state = "exited" PROVE ExitIsClean
    BY DEF IInv, ExitIsClean
  <2>1. DOMAIN services = 1 .. Len(services)
    <3>1. services \in Seq(Targets \cup {Released})
      BY DEF TypeInv, TypeOK
    <3>2. QED
      BY <3>1, NonEmptySeq
  <2>2. process = "gone" /\ fault = "none"
    BY DEF Core, ControlInv, Alive
  <2>3. \A o \in outcomes : o.result # Lost
    BY DEF Core, OutcomeInv
  <2>4. \A token \in DOMAIN services : services[token] = Released
    BY <2>1 DEF Core, ExitInv
  <2>5. QED
    BY <2>2, <2>3, <2>4 DEF ExitIsClean
<1>2. QED
  BY <1>1, InvariantHolds, PTL

\* The supervisor never loses a worker by rejecting a message it sent: every
\* answer, acknowledgement and request that Pump reads is one it accepts.
THEOREM SupervisorRejectsNothing == Spec => [](fault # "protocol")
<1>1. IInv => fault # "protocol"
  BY DEF IInv, Core, ControlInv
<1>2. QED
  BY <1>1, InvariantHolds, PTL

\* The host rejects neither a call nor the answer to a request, so it ends
\* itself over nothing but a cancellation it does not know (worker.py accept).
THEOREM HostRejectsOnlyCancellations ==
    Spec => [][failure' # failure => toHost # <<>> /\ toHost[1].kind = "cancel"]_vars
<1>1. ASSUME IInv, [Next]_vars
      PROVE  failure' # failure => toHost # <<>> /\ toHost[1].kind = "cancel"
  <2> SUFFICES ASSUME failure' # failure PROVE toHost # <<>> /\ toHost[1].kind = "cancel"
    OBVIOUS
  <2>1. TypeInv /\ Core
    BY <1>1 DEF IInv
  <2>2. ASSUME NEW ids, NEW why, AbortCalls(ids, why) PROVE FALSE
    BY <2>2 DEF AbortCalls, Killed
  <2>3. ~Start /\ ~TimePasses /\ ~CancellationRequested /\ ~UNCHANGED vars
    BY <2>2 DEF Start, Abort, TimePasses, DeadlinePasses, GracePasses, CancellationRequested,
                vars, hostVars, hostState
  <2>4. ~\E target \in Entry \cup {Stop} : Call(target)
    BY DEF Call, Killed
  <2>5. ~SendCancel /\ ~GiveUp /\ ~Return /\ ~Poll
    BY <2>2 DEF SendCancel, GiveUp, Return, Poll, Abort, hostVars, hostState
  <2>6. ~Read
    <3> SUFFICES ASSUME Read PROVE FALSE
      OBVIOUS
    <3>1. ASSUME NEW reply, NEW granted, NEW frames, Serve(reply, granted, frames) PROVE FALSE
      BY <2>2, <3>1 DEF Serve, Abort, hostState
    <3>2. ASSUME NEW m, ReadService(m) PROVE FALSE
      BY <2>2, <3>1, <3>2 DEF ReadService, ServiceHandler, Refuse, Abort
    <3>3. ASSUME NEW m, ReadTerminal(m) \/ ReadAcknowledgement(m) PROVE FALSE
      BY <2>2, <3>3 DEF ReadTerminal, ReadAcknowledgement, Abort, hostState
    <3>4. QED
      BY <2>2, <3>2, <3>3 DEF Read, Abort, hostVars, hostState
  <2>7. HostNext
    BY <1>1, <2>3, <2>4, <2>5, <2>6 DEF Next, Pump
  <2>8. ~ProcessEnds /\ ~\E c \in calls : Begin(c) \/ Ask(c) \/ Reply(c)
    BY DEF ProcessEnds, Begin, Ask, Reply
  <2>9. Accept
    BY <2>7, <2>8 DEF HostNext
  <2>10. CASE toHost[1].kind = "request"
    BY <2>1, <2>9, <2>10, RequestIsAccepted
  <2>11. CASE toHost[1].kind = "response"
    BY <2>1, <2>9, <2>11, ResponseIsAwaited
  <2>12. QED
    BY <2>1, <2>9, <2>10, <2>11, HostTakes DEF Accept
<1>2. QED
  BY <1>1, InvariantHolds, PTL DEF Spec

\* While a cancellation is under way no step grants a lease and none makes a
\* further call, whichever of them was already on its way.
THEOREM NothingStartsInterrupted == Spec => InterruptedStartsNothing
<1>1. ASSUME IInv, [Next]_vars
      PROVE  (\E i \in DOMAIN stack : stack[i].cancelSent) /\ stack' # <<>> =>
                 Len(services') = Len(services) /\ Len(stack') <= Len(stack)
  <2> SUFFICES ASSUME NEW i \in DOMAIN stack, stack[i].cancelSent, stack' # <<>>
               PROVE  Len(services') = Len(services) /\ Len(stack') <= Len(stack)
    OBVIOUS
  <2>1. TypeInv /\ Core
    BY <1>1 DEF IInv
  <2>2. /\ stack # <<>> /\ Len(stack) \in Nat /\ DOMAIN stack = 1 .. Len(stack)
        /\ Top = stack[Len(stack)]
    BY <2>1, FrameTypes
  <2>3. Top.cancelSent
    BY <2>1, <2>2 DEF Core, StackInv
  <2>4. ASSUME UNCHANGED <<stack, services>>
        PROVE  Len(services') = Len(services) /\ Len(stack') <= Len(stack)
    BY <2>2, <2>4
  <2>5. ASSUME NEW ids, NEW why, AbortCalls(ids, why) PROVE FALSE
    BY <2>5 DEF AbortCalls
  <2>6. CASE Start
    BY <2>4, <2>5, <2>6 DEF Start, Abort, served
  <2>7. CASE \E target \in Entry \cup {Stop} : Call(target)
    BY <2>2, <2>7 DEF Call
  <2>8. CASE TimePasses
    <3>1. services' = services
      BY <2>8 DEF TimePasses, DeadlinePasses, GracePasses, served
    <3>2. Len(stack') <= Len(stack)
      <4>1. CASE GracePasses
        <5>1. [Top EXCEPT !.late = TRUE] \in Frames
          BY <2>1, <2>2, FrameTypes DEF Frames
        <5>2. QED
          BY <2>1, <2>2, <4>1, <5>1, WithTopAt DEF GracePasses
      <4>2. CASE DeadlinePasses
        <5>1. PICK j \in 1 .. Len(stack) :
                   stack' = [l \in 1 .. Len(stack) |->
                                IF l >= j THEN [stack[l] EXCEPT !.due = TRUE] ELSE stack[l]]
          BY <2>2, <4>2 DEF DeadlinePasses
        <5>2. DOMAIN stack' = 1 .. Len(stack)
          BY <5>1
        <5>3. stack' \in Seq(Frames)
          BY <1>1, TypeStep, <2>1 DEF Core, TypeInv, TypeOK
        <5>4. DOMAIN stack' = 1 .. Len(stack') /\ Len(stack') \in Nat
          BY <5>3, NonEmptySeq
        <5>5. QED
          BY <2>2, <5>2, <5>4
      <4>3. QED
        BY <2>8, <4>1, <4>2 DEF TimePasses
    <3>3. QED
      BY <3>1, <3>2
  <2>9. CASE Poll \/ CancellationRequested \/ UNCHANGED vars \/ (HostNext /\ UNCHANGED supervisorVars)
    BY <2>4, <2>9 DEF Poll, CancellationRequested, vars, supervisorVars, served
  <2>10. CASE GiveUp
    BY <2>5, <2>10 DEF GiveUp, Abort
  <2>11. CASE SendCancel
    BY <2>3, <2>11 DEF SendCancel, MustCancel
  <2>12. CASE Return
    <3>1. stack' = Below /\ services' = services
      BY <2>5, <2>12 DEF Return, Abort, served
    <3>2. Len(stack') <= Len(stack)
      <4>1. stack \in Seq(Frames)
        BY <2>1, FrameTypes
      <4>2. Len(Below) = Len(stack) - 1
        BY <2>2, <4>1, FrontAt DEF Below
      <4>3. QED
        BY <2>2, <3>1, <4>2
    <3>3. QED
      BY <3>1, <3>2
  <2>13. CASE Read
    <3>1. CASE toEngine # <<>> /\ toEngine[1].kind = "request"
      <4> DEFINE m == toEngine[1]
      <4>1. m = Head(toEngine) /\ m \in EngineMessages
        BY <2>1, <3>1, RequestRead
      <4>2. Served(m)
        BY <2>1, <2>5, <2>13, <3>1, <4>1, ServeShape DEF Read, Abort
      <4>3. Interrupted
        BY <2>3 DEF Interrupted
      <4>4. services \in Seq(Targets \cup {Released})
        BY <2>1 DEF TypeInv, TypeOK
      <4>5. CASE Answered(m, 0, services)
        BY <2>4, <4>5 DEF Answered
      <4>6. CASE m.object \in DOMAIN services /\ Answered(m, 0, [services EXCEPT ![m.object] = Released])
        <5>1. m.object \in 1 .. Len(services) /\ Released \in Targets \cup {Released}
          BY <4>4, <4>6, NonEmptySeq
        <5>2. Len([services EXCEPT ![m.object] = Released]) = Len(services)
          BY <4>4, <5>1, ExceptSeq
        <5>3. QED
          BY <2>2, <4>6, <5>2 DEF Answered
      <4>7. QED
        BY <4>2, <4>3, <4>5, <4>6 DEF Served, Nested
    <3>2. CASE toEngine # <<>> /\ toEngine[1].kind # "request"
      <4>1. Head(toEngine) = toEngine[1]
        BY <2>1, <3>2, OfTail DEF TypeInv
      <4>2. ASSUME NEW m, ReadTerminal(m)
            PROVE  Len(services') = Len(services) /\ Len(stack') <= Len(stack)
        BY <2>4, <2>5, <4>2 DEF ReadTerminal, Abort, served
      <4>3. ASSUME NEW m, ReadAcknowledgement(m)
            PROVE  Len(services') = Len(services) /\ Len(stack') <= Len(stack)
        <5>1. [Top EXCEPT !.acknowledged = TRUE] \in Frames
          BY <2>1, <2>2, FrameTypes DEF Frames
        <5>2. stack' = WithTop([Top EXCEPT !.acknowledged = TRUE]) /\ services' = services
          BY <2>5, <4>3 DEF ReadAcknowledgement, Abort, served
        <5>3. QED
          BY <2>1, <2>2, <5>1, <5>2, WithTopAt
      <4>4. QED
        BY <2>13, <3>2, <4>1, <4>2, <4>3 DEF Read
    <3>3. CASE toEngine = <<>>
      BY <2>4, <2>5, <2>13, <3>3 DEF Read, Abort, served
    <3>4. QED
      BY <3>1, <3>2, <3>3
  <2>14. QED
    BY <1>1, <2>6, <2>7, <2>8, <2>9, <2>10, <2>11, <2>12, <2>13 DEF Next, Pump
<1>2. QED
  BY <1>1, InvariantHolds, PTL DEF Spec, InterruptedStartsNothing
-----------------------------------------------------------------------------
(* The cancellations, which the host accepts if it still knows their call. *)

\* The remembered calls: each once, none running; and a call is marked as
\* cancelled only by the cancellation its frame has sent.
MemoryInv ==
    /\ \A n \in 1 .. Len(completed) :
          /\ completed[n].id > 0 /\ completed[n].id % 2 = 0 /\ completed[n].id <= lastRequest
          /\ \A c \in calls : c.id # completed[n].id
          /\ completed[n].cancelled =>
                \A k \in 1 .. Len(stack) : stack[k].id = completed[n].id => stack[k].cancelSent
          /\ \A i \in Of(toHost, "cancel") : completed[n].id = toHost[i].id => ~completed[n].cancelled
    /\ \A m, n \in 1 .. Len(completed) : completed[m].id = completed[n].id => m = n
    /\ \A c \in calls : c.cancelled =>
          /\ \A k \in 1 .. Len(stack) : stack[k].id = c.id => stack[k].cancelSent
          /\ \A i \in Of(toHost, "cancel") : c.id # toHost[i].id

\* The call of a frame is on its way to the host, running or waiting there, or
\* remembered, with nothing remembered after it but calls nested in the first.
Located(k) ==
    \/ \E i \in Of(toHost, "request") : toHost[i].id = stack[k].id
    \/ \E c \in calls : c.id = stack[k].id
    \/ \E n \in 1 .. Len(completed) :
          /\ completed[n].id = stack[k].id
          /\ \A m \in n + 1 .. Len(completed) : completed[m].id > stack[1].id

\* No call that is awaited is unknown to a host that is there.
Found == Alive => \A k \in 1 .. Len(stack) : Located(k)

PeerInv == MemoryInv /\ Found /\ ~failure

\* Of the call the engine waits for, no more than MaxCompleted calls were made
\* in turn: each of them may end, and leave its tombstone, while an earlier one
\* is answered and waits to become the top of the stack again.
FewCalls == stack # <<>> => nextCall <= stack[1].id + 2 * MaxCompleted + 2

\* The tombstones are records of calls, no more than the bound.
LEMMA CompletedTyped ==
    ASSUME TypeInv
    PROVE  /\ completed \in Seq(Memories) /\ Len(completed) \in Nat /\ Len(completed) <= MaxCompleted
           /\ MaxCompleted \in Nat /\ MaxCompleted > 0
           /\ \A n \in 1 .. Len(completed) : completed[n] \in Memories /\ completed[n].id \in Nat
<1>1. completed \in Seq(Memories) /\ Len(completed) <= MaxCompleted
  BY DEF TypeInv, TypeOK, HostTypeOK, Memories
<1>2. \A m \in Memories : m.id \in Nat
  BY DEF Memories
<1>3. Len(completed) \in Nat /\ \A n \in 1 .. Len(completed) : completed[n] \in Memories
  BY <1>1, NonEmptySeq
<1>4. QED
  BY <1>1, <1>2, <1>3, MaxCompletedAssumption

\* A host that is gone remembers nothing, and no cancellation reaches it.
LEMMA ForgetKeepsPeers ==
    ASSUME PeerInv, NoMemory, process' = "gone", failure' = failure
    PROVE  PeerInv'
<1>1. calls' = {} /\ completed' = <<>> /\ ~Alive'
  BY DEF NoMemory, Alive
<1>2. Len(completed') = 0
  BY <1>1, EmptyAt
<1>3. 1 .. Len(completed') = {}
  BY <1>2
<1>4. MemoryInv'
  BY <1>1, <1>3 DEF MemoryInv
<1>5. QED
  BY <1>1, <1>4 DEF PeerInv, Found

\* So it is when the supervisor loses it.
LEMMA AbortKeepsPeers ==
    ASSUME PeerInv, NEW ids, NEW why, AbortCalls(ids, why)
    PROVE  PeerInv'
  BY ForgetKeepsPeers DEF AbortCalls, Killed

\* A remembered or running call is not one that is still to be made.
LEMMA HostKnowsOldCalls ==
    ASSUME TypeInv, Core, PeerInv
    PROVE  /\ \A n \in 1 .. Len(completed) : completed[n].id < nextCall
           /\ \A c \in calls : c.id < nextCall
<1>1. lastRequest < nextCall
  BY DEF Core, CallInv
<1>2. \A n \in 1 .. Len(completed) : completed[n].id <= lastRequest /\ completed[n].id \in Nat
  BY CompletedTyped DEF PeerInv, MemoryInv
<1>3. \A c \in calls : c.id <= lastRequest /\ c.id \in Nat
  BY Typed DEF Core, TaskInv
<1>4. QED
  BY <1>1, <1>2, <1>3, Typed

\* The steps that leave the host's calls and memory alone: frames go, are
\* marked, or come with the request for their call; a cancellation is sent for
\* a frame that has sent none.
LEMMA SendingKeepsPeers ==
    ASSUME TypeInv, Core, PeerInv, Alive' = Alive,
           UNCHANGED <<calls, completed, lastRequest, failure>>,
           \A k \in 1 .. Len(stack') :
              \/ \E j \in 1 .. Len(stack) : /\ stack[j].id = stack'[k].id
                                            /\ stack[j].cancelSent => stack'[k].cancelSent
              \/ /\ stack'[k].id = nextCall
                 /\ \E i \in Of(toHost', "request") : toHost'[i].id = stack'[k].id,
           \A i \in Of(toHost', "cancel") :
              \/ i \in Of(toHost, "cancel") /\ toHost'[i] = toHost[i]
              \/ stack # <<>> /\ toHost'[i].id = Top.id /\ ~Top.cancelSent,
           \A i \in Of(toHost, "request") : i \in Of(toHost', "request") /\ toHost'[i] = toHost[i],
           stack # <<>> /\ stack' # <<>> => stack'[1].id = stack[1].id
    PROVE  PeerInv'
<1>1. MemoryInv /\ Found /\ ~failure'
  BY DEF PeerInv
<1>2. \A n \in 1 .. Len(completed) : completed[n].id # nextCall
  BY HostKnowsOldCalls, CompletedTyped, Typed
<1>3. \A c \in calls : c.id # nextCall
  BY HostKnowsOldCalls, Typed
<1>4. stack # <<>> => Top = stack[Len(stack)] /\ Len(stack) \in 1 .. Len(stack)
  <2> SUFFICES ASSUME stack # <<>> PROVE Top = stack[Len(stack)] /\ Len(stack) \in 1 .. Len(stack)
    OBVIOUS
  <2>1. Top = stack[Len(stack)] /\ Len(stack) > 0 /\ Len(stack) \in Nat
    BY FrameTypes
  <2>2. QED
    BY <2>1
<1>5. ASSUME NEW id, NEW marked \in BOOLEAN, id # nextCall,
             marked => \A k \in 1 .. Len(stack) : stack[k].id = id => stack[k].cancelSent,
             \A i \in Of(toHost, "cancel") : id = toHost[i].id => ~marked
      PROVE  /\ marked => \A k \in 1 .. Len(stack') : stack'[k].id = id => stack'[k].cancelSent
             /\ \A i \in Of(toHost', "cancel") : id = toHost'[i].id => ~marked
  <2>1. ASSUME marked, NEW k \in 1 .. Len(stack'), stack'[k].id = id PROVE stack'[k].cancelSent
    BY <1>5, <2>1
  <2>2. ASSUME NEW i \in Of(toHost', "cancel"), id = toHost'[i].id, marked PROVE FALSE
    <3>1. CASE i \in Of(toHost, "cancel") /\ toHost'[i] = toHost[i]
      BY <1>5, <2>2, <3>1
    <3>2. CASE stack # <<>> /\ toHost'[i].id = Top.id /\ ~Top.cancelSent
      BY <1>4, <1>5, <2>2, <3>2
    <3>3. QED
      BY <3>1, <3>2
  <2>3. QED
    BY <2>1, <2>2
<1>6. MemoryInv'
  <2>1. ASSUME NEW n \in 1 .. Len(completed)
        PROVE  /\ completed[n].cancelled =>
                     \A k \in 1 .. Len(stack') : stack'[k].id = completed[n].id => stack'[k].cancelSent
               /\ \A i \in Of(toHost', "cancel") : completed[n].id = toHost'[i].id => ~completed[n].cancelled
    <3>1. completed[n].cancelled \in BOOLEAN
      BY CompletedTyped DEF Memories
    <3>2. /\ completed[n].cancelled =>
                \A k \in 1 .. Len(stack) : stack[k].id = completed[n].id => stack[k].cancelSent
          /\ \A i \in Of(toHost, "cancel") : completed[n].id = toHost[i].id => ~completed[n].cancelled
      BY <1>1 DEF MemoryInv
    <3>3. QED
      BY <1>2, <1>5, <3>1, <3>2
  <2>2. ASSUME NEW c \in calls, c.cancelled
        PROVE  /\ \A k \in 1 .. Len(stack') : stack'[k].id = c.id => stack'[k].cancelSent
               /\ \A i \in Of(toHost', "cancel") : c.id # toHost'[i].id
    <3>1. /\ \A k \in 1 .. Len(stack) : stack[k].id = c.id => stack[k].cancelSent
          /\ \A i \in Of(toHost, "cancel") : c.id # toHost[i].id
      BY <1>1, <2>2 DEF MemoryInv
    <3>2. TRUE \in BOOLEAN
      OBVIOUS
    <3>3. QED
      BY <1>3, <1>5, <3>1, <3>2
  <2>3. QED
    BY <1>1, <2>1, <2>2 DEF MemoryInv
<1>7. Found'
  <2> SUFFICES ASSUME Alive, NEW k \in 1 .. Len(stack') PROVE Located(k)'
    BY DEF Found
  <2>1. CASE \E i \in Of(toHost', "request") : toHost'[i].id = stack'[k].id
    BY <2>1 DEF Located
  <2>2. CASE \E j \in 1 .. Len(stack) : stack[j].id = stack'[k].id
    <3>1. PICK j \in 1 .. Len(stack) : stack[j].id = stack'[k].id
      BY <2>2
    <3>2. Located(j)
      BY <1>1 DEF Found
    <3>3. stack # <<>> /\ stack' # <<>>
      BY EmptyAt
    <3>4. stack'[1].id = stack[1].id
      BY <3>3
    <3>5. QED
      BY <3>1, <3>2, <3>4 DEF Located
  <2>3. QED
    BY <2>1, <2>2
<1>8. QED
  BY <1>1, <1>6, <1>7 DEF PeerInv

\* The host finds the call of every cancellation that reaches it.
LEMMA CancellationIsKnown ==
    ASSUME TypeInv, Core, PeerInv, Accept, toHost[1].kind = "cancel"
    PROVE  LET m == toHost[1] IN
           /\ calls' = {IF c.id = m.id /\ ~c.cancelled THEN [c EXCEPT !.cancelled = TRUE] ELSE c : c \in calls}
           /\ completed' = [i \in DOMAIN completed |->
                  IF completed[i].id = m.id /\ ~completed[i].cancelled
                  THEN [completed[i] EXCEPT !.cancelled = TRUE] ELSE completed[i]]
           /\ UNCHANGED <<process, failure, lastRequest>>
<1> DEFINE m == toHost[1]
<1>1. AcceptCancel(m) /\ Alive /\ 1 \in Of(toHost, "cancel")
  BY HostTakes
<1>2. /\ stack # <<>> /\ m.id = Top.id /\ \A j \in Of(toHost, "request") : j < 1
  BY <1>1 DEF Core, CancelInv
<1>3. Len(stack) \in 1 .. Len(stack) /\ Top = stack[Len(stack)]
  <2>1. Top = stack[Len(stack)] /\ Len(stack) > 0 /\ Len(stack) \in Nat
    BY <1>2, FrameTypes
  <2>2. QED
    BY <2>1
<1>4. Located(Len(stack))
  BY <1>1, <1>3 DEF PeerInv, Found
<1>5. ~\E i \in Of(toHost, "request") : toHost[i].id = m.id
  <2>1. \A i \in Of(toHost, "request") : FALSE
    BY <1>2 DEF Of
  <2>2. QED
    BY <2>1
<1>6. CASE \E c \in calls : c.id = m.id
  <2>1. \E c \in calls : c.id = m.id /\ ~c.cancelled
    BY <1>1, <1>6 DEF PeerInv, MemoryInv
  <2>2. QED
    BY <1>1, <2>1 DEF AcceptCancel
<1>7. CASE \E n \in 1 .. Len(completed) : completed[n].id = m.id
  <2>1. \E n \in 1 .. Len(completed) : completed[n].id = m.id /\ ~completed[n].cancelled
    BY <1>1, <1>7 DEF PeerInv, MemoryInv
  <2>2. DOMAIN completed = 1 .. Len(completed)
    BY CompletedTyped, NonEmptySeq
  <2>3. QED
    BY <1>1, <2>1, <2>2 DEF AcceptCancel
<1>8. QED
  BY <1>2, <1>3, <1>4, <1>5, <1>6, <1>7 DEF Located
-----------------------------------------------------------------------------
(* The host's steps keep the memory of the calls.                          *)

\* Two frames with one id are one frame.
LEMMA FramesDiffer ==
    ASSUME TypeInv, Core
    PROVE  \A j, k \in 1 .. Len(stack) : stack[j].id = stack[k].id => j = k
<1> SUFFICES ASSUME NEW j \in 1 .. Len(stack), NEW k \in 1 .. Len(stack), stack[j].id = stack[k].id
             PROVE  j = k
  OBVIOUS
<1>1. (j < k => stack[j].id < stack[k].id) /\ (k < j => stack[k].id < stack[j].id)
  BY DEF Core, StackInv
<1>2. stack[j].id \in Nat /\ stack[k].id \in Nat
  BY Typed
<1>3. QED
  BY <1>1, <1>2

\* Taking a call or a response: the calls known only become more.
LEMMA TakingKeepsPeers ==
    ASSUME TypeInv, Core, PeerInv, Accept, toHost[1].kind # "cancel", UNCHANGED supervisorVars,
           failure' = failure, completed' = completed, calls \subseteq calls',
           lastRequest' \in Nat, lastRequest <= lastRequest',
           \A c \in calls' : c \in calls \/ (c.id > lastRequest /\ c.id \in Nat /\ ~c.cancelled),
           toHost[1].kind = "request" => \E c \in calls' : c.id = toHost[1].id,
           Alive' = Alive
    PROVE  PeerInv'
<1>1. stack' = stack
  BY DEF supervisorVars
<1>2. /\ \A i \in Of(toHost', "cancel") :
            i \in Nat /\ i + 1 \in Of(toHost, "cancel") /\ toHost'[i] = toHost[i + 1]
      /\ \A i \in Of(toHost, "request") :
            i # 1 => i - 1 \in Of(toHost', "request") /\ toHost'[i - 1] = toHost[i]
      /\ \A i \in Of(toHost, "request") : toHost[i].kind = "request"
  BY HostTakes, Typed
<1>3. MemoryInv /\ Found /\ ~failure
  BY DEF PeerInv
<1>4. \A n \in 1 .. Len(completed) : completed[n].id <= lastRequest /\ completed[n].id \in Nat
  BY <1>3, CompletedTyped DEF MemoryInv
<1>5. \A n \in 1 .. Len(completed) : \A c \in calls' : c.id # completed[n].id
  <2> SUFFICES ASSUME NEW n \in 1 .. Len(completed), NEW c \in calls' PROVE c.id # completed[n].id
    OBVIOUS
  <2>1. CASE c \in calls
    BY <1>3, <2>1 DEF MemoryInv
  <2>2. CASE c.id > lastRequest /\ c.id \in Nat
    <3>1. completed[n].id <= lastRequest /\ completed[n].id \in Nat /\ lastRequest \in Nat
      BY <1>4, Typed
    <3>2. QED
      BY <2>2, <3>1
  <2>3. QED
    BY <2>1, <2>2
<1>6. MemoryInv'
  <2>1. ASSUME NEW n \in 1 .. Len(completed)
        PROVE  /\ completed[n].id > 0 /\ completed[n].id % 2 = 0 /\ completed[n].id <= lastRequest'
               /\ completed[n].cancelled =>
                     \A k \in 1 .. Len(stack) : stack[k].id = completed[n].id => stack[k].cancelSent
    <3>1. /\ completed[n].id > 0 /\ completed[n].id % 2 = 0
          /\ completed[n].cancelled =>
                \A k \in 1 .. Len(stack) : stack[k].id = completed[n].id => stack[k].cancelSent
      BY <1>3 DEF MemoryInv
    <3>2. completed[n].id <= lastRequest /\ completed[n].id \in Nat /\ lastRequest \in Nat
      BY <1>4, Typed
    <3>3. completed[n].id <= lastRequest'
      BY <3>2
    <3>4. QED
      BY <3>1, <3>3
  <2>2. ASSUME NEW n \in 1 .. Len(completed), NEW i \in Of(toHost', "cancel"), completed[n].id = toHost'[i].id
        PROVE  ~completed[n].cancelled
    BY <1>2, <1>3, <2>2 DEF MemoryInv
  <2>3. ASSUME NEW c \in calls', c.cancelled
        PROVE  /\ c \in calls
               /\ \A k \in 1 .. Len(stack) : stack[k].id = c.id => stack[k].cancelSent
    BY <1>3, <2>3 DEF MemoryInv
  <2>4. ASSUME NEW c \in calls', c.cancelled, NEW i \in Of(toHost', "cancel") PROVE c.id # toHost'[i].id
    BY <1>2, <1>3, <2>3, <2>4 DEF MemoryInv
  <2>5. \A m, n \in 1 .. Len(completed) : completed[m].id = completed[n].id => m = n
    BY <1>3 DEF MemoryInv
  <2>6. QED
    BY <1>1, <1>5, <2>1, <2>2, <2>3, <2>4, <2>5 DEF MemoryInv
<1>7. Found'
  <2> SUFFICES ASSUME Alive, NEW k \in 1 .. Len(stack) PROVE Located(k)'
    BY <1>1 DEF Found
  <2>1. Located(k)
    BY <1>3 DEF Found
  <2>2. CASE \E i \in Of(toHost, "request") : toHost[i].id = stack[k].id
    <3>1. PICK i \in Of(toHost, "request") : toHost[i].id = stack[k].id
      BY <2>2
    <3>2. CASE i = 1
      BY <1>1, <1>2, <3>1, <3>2 DEF Located
    <3>3. CASE i # 1
      BY <1>1, <1>2, <3>1, <3>3 DEF Located
    <3>4. QED
      BY <3>2, <3>3
  <2>3. CASE \E c \in calls : c.id = stack[k].id
    BY <1>1, <2>3 DEF Located
  <2>4. QED
    BY <1>1, <2>1, <2>2, <2>3 DEF Located
<1>8. QED
  BY <1>3, <1>6, <1>7 DEF PeerInv

\* Taking a cancellation: its call, the innermost frame's, is marked.
LEMMA CancelKeepsPeers ==
    ASSUME TypeInv, Core, PeerInv, Accept, toHost[1].kind = "cancel", UNCHANGED supervisorVars
    PROVE  PeerInv'
<1> DEFINE id0 == toHost[1].id
           mark(c) == IF c.id = id0 /\ ~c.cancelled THEN [c EXCEPT !.cancelled = TRUE] ELSE c
<1>1. /\ calls' = {mark(c) : c \in calls}
      /\ completed' = [i \in DOMAIN completed |->
             IF completed[i].id = id0 /\ ~completed[i].cancelled
             THEN [completed[i] EXCEPT !.cancelled = TRUE] ELSE completed[i]]
      /\ UNCHANGED <<process, failure, lastRequest>>
  BY CancellationIsKnown
<1>2. stack' = stack /\ Alive' = Alive
  BY <1>1 DEF supervisorVars, Alive
<1>3. MemoryInv /\ Found /\ ~failure
  BY DEF PeerInv
<1>4. 1 \in Of(toHost, "cancel") /\ id0 \in Nat
  BY HostTakes
<1>5. /\ stack # <<>> /\ id0 = Top.id /\ Top.cancelSent
      /\ \A j \in Of(toHost, "cancel") : j = 1
  BY <1>4 DEF Core, CancelInv
<1>6. \A k \in 1 .. Len(stack) : stack[k].id = id0 => stack[k].cancelSent
  <2>1. Top = stack[Len(stack)] /\ Len(stack) > 0 /\ Len(stack) \in Nat
    BY <1>5, FrameTypes
  <2>2. Len(stack) \in 1 .. Len(stack)
    BY <2>1
  <2>3. QED
    BY <1>5, <2>1, <2>2, FramesDiffer
<1>7. Of(toHost', "cancel") = {}
  <2>1. \A i \in Of(toHost', "cancel") : i \in Nat /\ 0 < i /\ i + 1 \in Of(toHost, "cancel")
    BY HostTakes
  <2>2. \A i \in Of(toHost', "cancel") : FALSE
    BY <1>5, <2>1
  <2>3. QED
    BY <2>2
<1>8. DOMAIN completed = 1 .. Len(completed) /\ Len(completed) \in Nat
      /\ \A n \in 1 .. Len(completed) : completed[n] \in Memories
  BY CompletedTyped, NonEmptySeq
<1>9. Len(completed') = Len(completed)
  <2>1. completed' \in [1 .. Len(completed) -> Memories]
    BY <1>1, <1>8 DEF Memories
  <2>2. QED
    BY <1>8, <2>1
<1>10. \A n \in 1 .. Len(completed) :
          /\ completed'[n].id = completed[n].id
          /\ completed'[n].cancelled => completed[n].cancelled \/ completed[n].id = id0
  BY <1>1, <1>8 DEF Memories
<1>11. \A c \in calls : mark(c).id = c.id /\ (mark(c).cancelled => c.cancelled \/ c.id = id0)
  BY Typed DEF Tasks
<1> HIDE DEF mark, id0
<1>12. MemoryInv'
  <2>1. ASSUME NEW n \in 1 .. Len(completed)
        PROVE  /\ completed'[n].id > 0 /\ completed'[n].id % 2 = 0 /\ completed'[n].id <= lastRequest'
               /\ \A c \in calls' : c.id # completed'[n].id
    BY <1>1, <1>3, <1>10, <1>11 DEF MemoryInv
  <2>2. ASSUME NEW n \in 1 .. Len(completed), completed'[n].cancelled,
               NEW k \in 1 .. Len(stack), stack[k].id = completed'[n].id
        PROVE  stack[k].cancelSent
    BY <1>3, <1>6, <1>10, <2>2 DEF MemoryInv
  <2>3. \A m, n \in 1 .. Len(completed) : completed'[m].id = completed'[n].id => m = n
    BY <1>3, <1>10 DEF MemoryInv
  <2>4. ASSUME NEW c \in calls', c.cancelled, NEW k \in 1 .. Len(stack), stack[k].id = c.id
        PROVE  stack[k].cancelSent
    <3>1. PICK d \in calls : c = mark(d)
      BY <1>1
    <3>2. c.id = d.id /\ (d.cancelled \/ d.id = id0)
      BY <1>11, <2>4, <3>1
    <3>3. QED
      BY <1>3, <1>6, <2>4, <3>2 DEF MemoryInv
  <2>5. QED
    BY <1>2, <1>7, <1>9, <2>1, <2>2, <2>3, <2>4 DEF MemoryInv
<1>13. Found'
  <2> SUFFICES ASSUME Alive, NEW k \in 1 .. Len(stack) PROVE Located(k)'
    BY <1>2 DEF Found
  <2>1. Located(k)
    BY <1>3 DEF Found
  <2>2. CASE \E i \in Of(toHost, "request") : toHost[i].id = stack[k].id
    <3>1. PICK i \in Of(toHost, "request") : toHost[i].id = stack[k].id
      BY <2>2
    <3>2. i # 1
      BY <1>4 DEF Of
    <3>3. i - 1 \in Of(toHost', "request") /\ toHost'[i - 1] = toHost[i]
      BY <3>2, HostTakes
    <3>4. QED
      BY <1>2, <3>1, <3>3 DEF Located
  <2>3. CASE \E c \in calls : c.id = stack[k].id
    <3>1. PICK c \in calls : c.id = stack[k].id
      BY <2>3
    <3>2. mark(c) \in calls' /\ mark(c).id = stack[k].id
      BY <1>1, <1>11, <3>1
    <3>3. QED
      BY <1>2, <3>2 DEF Located
  <2>4. CASE \E n \in 1 .. Len(completed) :
                /\ completed[n].id = stack[k].id
                /\ \A m \in n + 1 .. Len(completed) : completed[m].id > stack[1].id
    <3>1. PICK n \in 1 .. Len(completed) :
                /\ completed[n].id = stack[k].id
                /\ \A m \in n + 1 .. Len(completed) : completed[m].id > stack[1].id
      BY <2>4
    <3>2. \A m \in n + 1 .. Len(completed) : m \in 1 .. Len(completed)
      BY <1>8
    <3>3. completed'[n].id = stack[k].id /\ \A m \in n + 1 .. Len(completed) : completed'[m].id > stack[1].id
      BY <1>10, <3>1, <3>2
    <3>4. QED
      BY <1>2, <1>9, <3>3 DEF Located
  <2>5. QED
    BY <2>1, <2>2, <2>3, <2>4 DEF Located
<1>14. QED
  BY <1>1, <1>3, <1>12, <1>13 DEF PeerInv

\* Taking a message keeps the memory: the message leaves the way and, if it is a
\* request, its call is known from here on.
LEMMA AcceptKeepsPeers ==
    ASSUME TypeInv, Core, PeerInv, Accept, UNCHANGED supervisorVars
    PROVE  PeerInv'
<1> DEFINE m == toHost[1]
<1>1. CASE m.kind = "request"
  <2> DEFINE new == [id |-> m.id, target |-> m.target, running |-> FALSE, cancelled |-> FALSE]
  <2>1. /\ lastRequest' = m.id /\ calls' = calls \cup {new}
        /\ UNCHANGED <<toEngine, process, failure, completed, pending, held>>
    BY <1>1, RequestIsAccepted
  <2>2. m.id \in Nat /\ 1 \in Of(toHost, "request")
    BY <1>1, HostTakes
  <2>3. m.id > lastRequest
    BY <2>2 DEF Core, CallInv, CallOK
  <2>4. new.id = m.id /\ ~new.cancelled
    OBVIOUS
  <2> HIDE DEF new
  <2>5. lastRequest' \in Nat /\ lastRequest <= lastRequest'
    BY <2>1, <2>2, <2>3, Typed
  <2>6. \A c \in calls' : c \in calls \/ (c.id > lastRequest /\ c.id \in Nat /\ ~c.cancelled)
    BY <2>1, <2>2, <2>3, <2>4
  <2>7. \E c \in calls' : c.id = m.id
    BY <2>1, <2>4
  <2>8. calls \subseteq calls' /\ Alive' = Alive
    BY <2>1 DEF Alive
  <2>9. QED
    BY <1>1, <2>1, <2>5, <2>6, <2>7, <2>8, TakingKeepsPeers
<1>2. CASE m.kind = "response"
  <2>1. UNCHANGED <<process, failure, completed, calls, lastRequest>>
    BY <1>2, ResponseIsAwaited
  <2>2. lastRequest' \in Nat /\ lastRequest <= lastRequest' /\ Alive' = Alive
    BY <2>1, Typed DEF Alive
  <2>3. QED
    BY <1>2, <2>1, <2>2, TakingKeepsPeers
<1>3. CASE m.kind = "cancel"
  BY <1>3, CancelKeepsPeers
<1>4. QED
  BY <1>1, <1>2, <1>3, HostTakes

\* dispatch takes the lock: the call stays what it is.
LEMMA BeginKeepsPeers ==
    ASSUME TypeInv, Core, PeerInv, NEW c \in calls, Begin(c), UNCHANGED supervisorVars
    PROVE  PeerInv'
<1> DEFINE d == [c EXCEPT !.running = TRUE]
<1>1. /\ calls' = (calls \ {c}) \cup {d}
      /\ UNCHANGED <<toHost, process, failure, completed, lastRequest>>
  BY DEF Begin
<1>2. d.id = c.id /\ d.cancelled = c.cancelled
  BY Typed DEF Tasks
<1> HIDE DEF d
<1>3. stack' = stack /\ Alive' = Alive
  BY <1>1 DEF supervisorVars, Alive
<1>4. MemoryInv /\ Found /\ ~failure
  BY DEF PeerInv
<1>5. \A b \in calls' : \E a \in calls : a.id = b.id /\ a.cancelled = b.cancelled
  BY <1>1, <1>2
<1>6. \A a \in calls : \E b \in calls' : b.id = a.id
  BY <1>1, <1>2
<1>7. MemoryInv'
  <2>1. \A n \in 1 .. Len(completed) : \A b \in calls' : b.id # completed[n].id
    BY <1>4, <1>5 DEF MemoryInv
  <2>2. \A b \in calls' : b.cancelled =>
          /\ \A k \in 1 .. Len(stack) : stack[k].id = b.id => stack[k].cancelSent
          /\ \A i \in Of(toHost, "cancel") : b.id # toHost[i].id
    BY <1>4, <1>5 DEF MemoryInv
  <2>3. QED
    BY <1>1, <1>3, <1>4, <2>1, <2>2 DEF MemoryInv
<1>8. Found'
  <2> SUFFICES ASSUME Alive, NEW k \in 1 .. Len(stack) PROVE Located(k)'
    BY <1>3 DEF Found
  <2>1. Located(k)
    BY <1>4 DEF Found
  <2>2. QED
    BY <1>1, <1>3, <1>6, <2>1 DEF Located
<1>9. QED
  BY <1>1, <1>4, <1>7, <1>8 DEF PeerInv
-----------------------------------------------------------------------------
(* The end of a call: it is remembered, and what is forgotten for it is    *)
(* none that a frame still waits for.                                      *)

\* The memory after a call: one longer, or shifted by one when it was full.
LEMMA RememberAt ==
    ASSUME TypeInv, NEW c \in calls
    PROVE  \E d \in {0, 1} :
              /\ d = 1 => Len(completed) = MaxCompleted
              /\ Len(Remember(c)) = Len(completed) + 1 - d
              /\ \A i \in 1 .. Len(completed) - d : Remember(c)[i] = completed[i + d]
              /\ Remember(c)[Len(completed) + 1 - d] = [id |-> c.id, cancelled |-> c.cancelled]
<1> DEFINE new == [id |-> c.id, cancelled |-> c.cancelled]
           longer == Append(completed, new)
<1>1. completed \in Seq(Memories) /\ Len(completed) \in Nat /\ Len(completed) <= MaxCompleted
      /\ MaxCompleted \in Nat /\ MaxCompleted > 0
  BY CompletedTyped
<1>2. new \in Memories
  BY Typed DEF Memories, Tasks
<1> HIDE DEF new
<1>3. /\ longer \in Seq(Memories) /\ Len(longer) = Len(completed) + 1
      /\ \A i \in 1 .. Len(completed) : longer[i] = completed[i]
      /\ longer[Len(completed) + 1] = new
  BY <1>1, <1>2, AppendAt
<1>4. longer # <<>>
  BY <1>1, <1>3, EmptySeq
<1>5. /\ Len(Tail(longer)) = Len(longer) - 1
      /\ \A i \in 1 .. Len(longer) - 1 : Tail(longer)[i] = longer[i + 1]
  BY <1>3, <1>4, TailAt
<1>6. Remember(c) = IF Len(longer) > MaxCompleted THEN Tail(longer) ELSE longer
  BY DEF Remember, new
<1> HIDE DEF longer
<1>7. CASE Len(longer) > MaxCompleted
  <2>1. Remember(c) = Tail(longer) /\ Len(completed) = MaxCompleted
    BY <1>1, <1>3, <1>6, <1>7
  <2>2. Len(Remember(c)) = Len(completed) + 1 - 1
    BY <1>1, <1>3, <1>5, <2>1
  <2>3. ASSUME NEW i \in 1 .. Len(completed) - 1 PROVE Remember(c)[i] = completed[i + 1]
    <3>1. i \in 1 .. Len(longer) - 1 /\ i + 1 \in 1 .. Len(completed)
      BY <1>1, <1>3
    <3>2. QED
      BY <1>3, <1>5, <2>1, <3>1
  <2>4. Remember(c)[Len(completed) + 1 - 1] = new
    <3>1. Len(completed) \in 1 .. Len(longer) - 1 /\ Len(completed) + 1 - 1 = Len(completed)
      BY <1>1, <1>3, <2>1
    <3>2. QED
      BY <1>3, <1>5, <2>1, <3>1
  <2>5. QED
    BY <2>1, <2>2, <2>3, <2>4 DEF new
<1>8. CASE ~(Len(longer) > MaxCompleted)
  <2>1. Remember(c) = longer /\ Len(completed) + 1 - 0 = Len(completed) + 1
    BY <1>1, <1>6, <1>8
  <2>2. \A i \in 1 .. Len(completed) - 0 : i \in 1 .. Len(completed) /\ i + 0 = i
    BY <1>1
  <2>3. QED
    BY <1>3, <2>1, <2>2 DEF new
<1>9. QED
  BY <1>7, <1>8

\* A nested call waits for the engine's own: it neither ends nor has ended.
LEMMA RootWaits ==
    ASSUME TypeInv, Core, Alive, Len(stack) > 1
    PROVE  /\ \E p \in pending : p.call = stack[1].id
           /\ \E c \in calls : c.id = stack[1].id
<1>1. 2 \in 2 .. Len(stack)
  BY Typed
<1>2. PICK p \in pending : p.call = stack[1].id
  BY <1>1 DEF Core, WaitInv
<1>3. \E c \in calls : c.id = stack[1].id
  BY <1>2 DEF Core, PendingInv
<1>4. QED
  BY <1>2, <1>3

\* Numbers of calls: no more than n even ones lie between root and root + 2n.
LEMMA EvenIds ==
    ASSUME NEW n \in Nat, NEW root \in Nat, root % 2 = 0,
           NEW ids \in [1 .. n + 1 -> Nat],
           \A m \in 1 .. n + 1 : ids[m] % 2 = 0 /\ root < ids[m] /\ ids[m] < root + 2 * n + 2
    PROVE  \E l, m \in 1 .. n + 1 : l # m /\ ids[l] = ids[m]
<1> DEFINE S == 1 .. n + 1
           T == 1 .. n
           f == [m \in S |-> (ids[m] - root) \div 2]
<1>1. \A m \in S : (ids[m] - root) \div 2 \in T /\ ids[m] = root + 2 * ((ids[m] - root) \div 2)
  <2> SUFFICES ASSUME NEW m \in S
               PROVE  (ids[m] - root) \div 2 \in T /\ ids[m] = root + 2 * ((ids[m] - root) \div 2)
    OBVIOUS
  <2>1. PICK id \in Nat : id = ids[m]
    OBVIOUS
  <2>2. id % 2 = 0 /\ root < id /\ id < root + 2 * n + 2
    BY <2>1
  <2>3. (id - root) \div 2 \in 1 .. n /\ id = root + 2 * ((id - root) \div 2)
    BY <2>2
  <2>4. QED
    BY <2>1, <2>3
<1>2. f \in [S -> T]
  BY <1>1
<1>3. IsFiniteSet(S) /\ Cardinality(S) = n + 1
  BY FS_Interval
<1>4. IsFiniteSet(T) /\ Cardinality(T) = n
  <2>1. 1 \in Int /\ n \in Int
    OBVIOUS
  <2>2. IsFiniteSet(1 .. n) /\ Cardinality(1 .. n) = IF 1 > n THEN 0 ELSE n - 1 + 1
    BY <2>1, FS_Interval
  <2>3. (IF 1 > n THEN 0 ELSE n - 1 + 1) = n
    OBVIOUS
  <2>4. QED
    BY <2>2, <2>3
<1>5. Cardinality(T) < Cardinality(S)
  BY <1>3, <1>4
<1> HIDE DEF f, S, T
<1>6. PICK l \in S, m \in S : l # m /\ f[l] = f[m]
  BY <1>2, <1>3, <1>4, <1>5, FS_PigeonHole
<1>7. ids[l] = ids[m]
  <2>1. (ids[l] - root) \div 2 = (ids[m] - root) \div 2
    BY <1>6 DEF f
  <2>2. QED
    BY <1>1, <1>6, <2>1
<1>8. QED
  BY <1>6, <1>7 DEF S

\* What is forgotten when the memory is full is not remembered after the
\* engine's own call, unless that call has made more than MaxCompleted others.
LEMMA NotEvicted ==
    ASSUME TypeInv, Core, PeerInv, FewCalls, stack # <<>>, Len(completed) = MaxCompleted,
           NEW c \in calls, c.id > stack[1].id,
           \A n \in 1 .. Len(completed) : completed[n].id > stack[1].id
    PROVE  FALSE
<1>1. /\ Len(completed) \in Nat /\ \A n \in 1 .. Len(completed) : completed[n].id \in Nat
  BY CompletedTyped
<1>2. MemoryInv
  BY DEF PeerInv
<1>3. 1 \in 1 .. Len(stack)
  <2>1. Len(stack) > 0 /\ Len(stack) \in Nat
    BY FrameTypes
  <2>2. QED
    BY <2>1
<1> DEFINE N == Len(completed)
           root == stack[1].id
           ids == [m \in 1 .. N + 1 |-> IF m = N + 1 THEN c.id ELSE completed[m].id]
<1>4. root \in Nat /\ root % 2 = 0 /\ c.id \in Nat /\ nextCall \in Nat
  BY <1>3, Typed DEF Core, StackInv
<1>5. c.id < nextCall /\ \A n \in 1 .. N : completed[n].id < nextCall
  BY HostKnowsOldCalls
<1>6. c.id % 2 = 0
  <2>1. PICK k \in 1 .. Len(stack) : stack[k].id = c.id
    BY DEF Core, TaskInv
  <2>2. QED
    BY <2>1 DEF Core, StackInv
<1>7. nextCall <= root + 2 * N + 2
  BY DEF FewCalls
<1> HIDE DEF N, root
<1>8. \A m \in 1 .. N + 1 : m = N + 1 \/ m \in 1 .. N
  BY <1>1 DEF N
<1>9. \A m \in 1 .. N + 1 : ids[m] \in Nat /\ ids[m] % 2 = 0 /\ root < ids[m] /\ ids[m] < nextCall
  <2> SUFFICES ASSUME NEW m \in 1 .. N + 1
               PROVE  ids[m] \in Nat /\ ids[m] % 2 = 0 /\ root < ids[m] /\ ids[m] < nextCall
    OBVIOUS
  <2>1. CASE m = N + 1
    BY <1>4, <1>5, <1>6, <2>1 DEF root
  <2>2. CASE m # N + 1
    <3>1. m \in 1 .. N /\ ids[m] = completed[m].id
      BY <1>8, <2>2
    <3>2. completed[m].id % 2 = 0 /\ completed[m].id > root /\ completed[m].id \in Nat
      BY <1>1, <1>2, <3>1 DEF MemoryInv, N, root
    <3>3. QED
      BY <1>4, <1>5, <3>1, <3>2
  <2>3. QED
    BY <2>1, <2>2
<1>10. ids \in [1 .. N + 1 -> Nat]
  BY <1>9
<1>11. \A m \in 1 .. N + 1 : ids[m] < root + 2 * N + 2
  <2> SUFFICES ASSUME NEW m \in 1 .. N + 1 PROVE ids[m] < root + 2 * N + 2
    OBVIOUS
  <2>1. PICK id \in Nat : id = ids[m]
    BY <1>9
  <2>2. id < nextCall
    BY <1>9, <2>1
  <2>3. N \in Nat
    BY <1>1 DEF N
  <2>4. id < root + 2 * N + 2
    <3>1. root \in Nat /\ nextCall \in Nat
      BY <1>4
    <3>2. PICK twice \in Nat : twice = 2 * N
      BY <2>3
    <3>3. nextCall <= root + twice + 2
      BY <1>7, <3>2
    <3>4. id < root + twice + 2
      BY <2>1, <2>2, <3>1, <3>2, <3>3
    <3>5. QED
      BY <3>2, <3>4
  <2>5. QED
    BY <2>1, <2>4
<1>12. N \in Nat
  BY <1>1 DEF N
<1> HIDE DEF ids
<1>13. PICK l \in 1 .. N + 1, m \in 1 .. N + 1 : l # m /\ ids[l] = ids[m]
  <2>1. root \in Nat /\ root % 2 = 0
    BY <1>4
  <2>2. \A j \in 1 .. N + 1 : ids[j] % 2 = 0 /\ root < ids[j] /\ ids[j] < root + 2 * N + 2
    BY <1>9, <1>11
  <2>3. \E i, j \in 1 .. N + 1 : i # j /\ ids[i] = ids[j]
    BY <1>10, <1>12, <2>1, <2>2, EvenIds
  <2>4. QED
    BY <2>3
<1>14. \A n \in 1 .. N : completed[n].id # c.id
  BY <1>2 DEF MemoryInv, N
<1>15. \A n \in 1 .. N : ids[n] = completed[n].id
  <2>1. \A n \in 1 .. N : n # N + 1 /\ n \in 1 .. N + 1
    BY <1>12
  <2>2. QED
    BY <2>1 DEF ids
<1>16. ids[N + 1] = c.id
  <2>1. N + 1 \in 1 .. N + 1
    BY <1>12
  <2>2. QED
    BY <2>1 DEF ids
<1>17. CASE l = N + 1
  BY <1>8, <1>13, <1>14, <1>15, <1>16, <1>17
<1>18. CASE m = N + 1
  BY <1>8, <1>13, <1>14, <1>15, <1>16, <1>18
<1>19. CASE l # N + 1 /\ m # N + 1
  <2>1. l \in 1 .. N /\ m \in 1 .. N
    BY <1>8, <1>13, <1>19
  <2>2. completed[l].id = completed[m].id
    BY <1>13, <1>15, <2>1
  <2>3. QED
    BY <1>2, <1>13, <2>1, <2>2 DEF MemoryInv, N
<1>20. QED
  BY <1>17, <1>18, <1>19

\* The end of a call keeps the memory in order and every frame's call known.
LEMMA ReplyKeepsPeers ==
    ASSUME TypeInv, Core, PeerInv, FewCalls, NEW c \in calls, Reply(c), UNCHANGED supervisorVars
    PROVE  PeerInv'
<1>1. /\ Awaited(c) = {} /\ calls' = calls \ {c} /\ completed' = Remember(c)
      /\ UNCHANGED <<toHost, failure, pending, lastRequest>> /\ Alive
  BY DEF Reply, Alive
<1>2. stack' = stack
  BY DEF supervisorVars
<1>3. MemoryInv /\ Found /\ ~failure
  BY DEF PeerInv
<1> DEFINE L == Len(completed)
           new == [id |-> c.id, cancelled |-> c.cancelled]
<1>4. PICK d \in {0, 1} :
              /\ d = 1 => L = MaxCompleted
              /\ Len(completed') = L + 1 - d
              /\ \A i \in 1 .. L - d : completed'[i] = completed[i + d]
              /\ completed'[L + 1 - d] = new
  BY <1>1, RememberAt
<1>5. L \in Nat /\ \A n \in 1 .. L : completed[n].id \in Nat
  BY CompletedTyped
<1>6. new.id = c.id /\ new.cancelled = c.cancelled /\ c.id \in Nat
  BY Typed
<1> HIDE DEF L, new
<1> DEFINE N == L + 1 - d
<1>7. \A n \in 1 .. N : \/ n = N /\ completed'[n] = new
                        \/ n \in 1 .. L - d /\ n + d \in 1 .. L /\ completed'[n] = completed[n + d]
  <2> SUFFICES ASSUME NEW n \in 1 .. N, n # N
               PROVE  n \in 1 .. L - d /\ n + d \in 1 .. L /\ completed'[n] = completed[n + d]
    BY <1>4
  <2>1. n \in 1 .. L - d /\ n + d \in 1 .. L
    BY <1>5
  <2>2. QED
    BY <1>4, <2>1
<1>8. N \in Nat /\ Len(completed') = N
  BY <1>4, <1>5
<1>9. PICK j \in 1 .. Len(stack) : stack[j].id = c.id
  BY DEF Core, TaskInv
<1>10. c.id > 0 /\ c.id % 2 = 0 /\ c.id <= lastRequest
  BY <1>9 DEF Core, StackInv, TaskInv
<1>11. \A b \in calls' : b \in calls /\ b.id # c.id
  BY <1>1 DEF Core, TaskInv
<1>12. \A n \in 1 .. L : completed[n].id # c.id
  BY <1>3 DEF MemoryInv, L
<1>13. MemoryInv'
  <2>1. ASSUME NEW n \in 1 .. N
        PROVE  /\ completed'[n].id > 0 /\ completed'[n].id % 2 = 0 /\ completed'[n].id <= lastRequest
               /\ \A b \in calls' : b.id # completed'[n].id
               /\ completed'[n].cancelled =>
                     \A k \in 1 .. Len(stack) : stack[k].id = completed'[n].id => stack[k].cancelSent
               /\ \A i \in Of(toHost, "cancel") : completed'[n].id = toHost[i].id => ~completed'[n].cancelled
    <3>1. CASE completed'[n] = new
      BY <1>3, <1>6, <1>10, <1>11, <3>1 DEF MemoryInv
    <3>2. CASE n + d \in 1 .. L /\ completed'[n] = completed[n + d]
      BY <1>3, <1>11, <3>2 DEF MemoryInv, L
    <3>3. QED
      BY <1>7, <3>1, <3>2
  <2>2. ASSUME NEW m \in 1 .. N, NEW n \in 1 .. N, completed'[m].id = completed'[n].id PROVE m = n
    <3>1. CASE m = N \/ n = N
      <4>1. \A i \in 1 .. N : completed'[i].id = c.id => i = N
        BY <1>6, <1>7, <1>12
      <4>2. completed'[N].id = c.id
        BY <1>4, <1>6
      <4>3. QED
        BY <2>2, <3>1, <4>1, <4>2
    <3>2. CASE m # N /\ n # N
      <4>1. /\ m + d \in 1 .. L /\ completed'[m] = completed[m + d]
            /\ n + d \in 1 .. L /\ completed'[n] = completed[n + d]
        BY <1>7, <3>2
      <4>2. m + d = n + d
        BY <1>3, <2>2, <4>1 DEF MemoryInv, L
      <4>3. QED
        BY <4>2
    <3>3. QED
      BY <3>1, <3>2
  <2>3. ASSUME NEW b \in calls', b.cancelled
        PROVE  /\ \A k \in 1 .. Len(stack) : stack[k].id = b.id => stack[k].cancelSent
               /\ \A i \in Of(toHost, "cancel") : b.id # toHost[i].id
    BY <1>3, <1>11, <2>3 DEF MemoryInv
  <2> HIDE DEF N
  <2>4. QED
    BY <1>1, <1>2, <1>8, <2>1, <2>2, <2>3 DEF MemoryInv
<1>14. Found'
  <2> SUFFICES ASSUME NEW k \in 1 .. Len(stack) PROVE Located(k)'
    BY <1>2 DEF Found
  <2>1. Located(k)
    BY <1>1, <1>3 DEF Found
  <2>2. CASE \E i \in Of(toHost, "request") : toHost[i].id = stack[k].id
    BY <1>1, <1>2, <2>2 DEF Located
  <2>3. CASE \E b \in calls : b.id = stack[k].id
    <3>1. PICK b \in calls : b.id = stack[k].id
      BY <2>3
    <3>2. CASE b # c
      BY <1>1, <1>2, <3>1, <3>2 DEF Located
    <3>3. CASE b = c
      <4>1. N \in 1 .. Len(completed') /\ completed'[N].id = stack[k].id
        <5>1. N \in 1 .. N
          <6>1. N > 0
            BY <1>4, <1>5, CompletedTyped
          <6>2. QED
            BY <1>8, <6>1
        <5>2. QED
          BY <1>4, <1>6, <1>8, <3>1, <3>3, <5>1
      <4>2. N + 1 .. Len(completed') = {}
        BY <1>8
      <4>3. QED
        BY <1>2, <4>1, <4>2 DEF Located
    <3>4. QED
      BY <3>2, <3>3
  <2>4. CASE \E n \in 1 .. L : /\ completed[n].id = stack[k].id
                               /\ \A m \in n + 1 .. L : completed[m].id > stack[1].id
    <3>1. PICK n \in 1 .. L : /\ completed[n].id = stack[k].id
                              /\ \A m \in n + 1 .. L : completed[m].id > stack[1].id
      BY <2>4
    <3>2. j # k
      BY <1>9, <1>12, <3>1
    <3>3. Len(stack) > 1
      BY <3>2, Typed
    <3>4. (\E p \in pending : p.call = stack[1].id) /\ \E b \in calls : b.id = stack[1].id
      BY <1>1, <3>3, RootWaits
    <3>5. j # 1
      BY <1>1, <1>9, <3>4 DEF Awaited
    <3>6. k # 1
      BY <1>3, <3>1, <3>4 DEF MemoryInv, L
    <3>7. c.id > stack[1].id /\ completed[n].id > stack[1].id
      <4>1. 1 < j /\ 1 < k /\ 1 \in 1 .. Len(stack)
        BY <3>5, <3>6
      <4>2. stack[1].id < stack[j].id /\ stack[1].id < stack[k].id
        BY <4>1 DEF Core, StackInv
      <4>3. /\ stack[1].id \in Nat /\ stack[j].id \in Nat /\ stack[k].id \in Nat
        BY <4>1, Typed
      <4>4. QED
        BY <1>9, <3>1, <4>2, <4>3
    <3>8. n - d >= 1
      <4> SUFFICES ASSUME ~(n - d >= 1) PROVE FALSE
        OBVIOUS
      <4>1. n = 1 /\ d = 1
        BY <1>5
      <4>2. L = MaxCompleted
        BY <1>4, <4>1
      <4>3. \A i \in 1 .. L : i = n \/ i \in n + 1 .. L
        BY <1>5, <4>1
      <4>4. \A i \in 1 .. L : completed[i].id > stack[1].id
        BY <3>1, <3>7, <4>3
      <4>5. stack # <<>>
        BY EmptyAt
      <4>6. QED
        BY <3>7, <4>2, <4>4, <4>5, NotEvicted DEF L
    <3>9. n - d \in 1 .. N /\ n - d \in 1 .. L - d /\ n - d + d = n
      BY <1>5, <3>8
    <3>10. completed'[n - d].id = stack[k].id
      BY <1>4, <3>1, <3>9
    <3>11. ASSUME NEW m \in (n - d) + 1 .. N PROVE completed'[m].id > stack[1].id
      <4>1. m \in 1 .. N
        BY <1>5, <3>8
      <4>2. CASE completed'[m] = new
        BY <1>6, <3>7, <4>2
      <4>3. CASE m + d \in 1 .. L /\ completed'[m] = completed[m + d]
        <5>1. m + d \in n + 1 .. L
          BY <1>5, <3>8, <4>3
        <5>2. QED
          BY <3>1, <4>3, <5>1
      <4>4. QED
        BY <1>7, <4>1, <4>2, <4>3
    <3> HIDE DEF N
    <3>12. QED
      BY <1>2, <1>8, <3>9, <3>10, <3>11 DEF Located
  <2>5. QED
    BY <2>1, <2>2, <2>3, <2>4 DEF Located, L
<1>15. QED
  BY <1>1, <1>3, <1>13, <1>14 DEF PeerInv
-----------------------------------------------------------------------------
(* The supervisor's steps keep it too.                                     *)

\* Nothing, or no cancellation, has been put on the way to the host.
NoNewCancel ==
    \/ toHost' = toHost
    \/ \E e \in HostMessages : e.kind # "cancel" /\ toHost' = Append(toHost, e)

\* A step that sends no cancellation leaves those on the way as they are.
LEMMA WayWithoutCancel ==
    ASSUME TypeInv, NoNewCancel
    PROVE  /\ \A i \in Of(toHost', "cancel") : i \in Of(toHost, "cancel") /\ toHost'[i] = toHost[i]
           /\ \A i \in Of(toHost, "request") : i \in Of(toHost', "request") /\ toHost'[i] = toHost[i]
<1>1. CASE toHost' = toHost
  BY <1>1
<1>2. CASE \E e \in HostMessages : e.kind # "cancel" /\ toHost' = Append(toHost, e)
  <2>1. PICK e \in HostMessages : e.kind # "cancel" /\ toHost' = Append(toHost, e)
    BY <1>2
  <2>2. Of(toHost', "cancel") = Of(toHost, "cancel")
    BY <2>1, HostGets
  <2>3. Of(toHost, "request") \subseteq Of(toHost', "request")
    <3>1. CASE e.kind = "request"
      BY <2>1, <3>1, HostGets
    <3>2. CASE e.kind # "request"
      BY <2>1, <3>2, HostGets
    <3>3. QED
      BY <3>1, <3>2
  <2>4. /\ \A i \in Of(toHost, "cancel") : toHost'[i] = toHost[i]
        /\ \A i \in Of(toHost, "request") : toHost'[i] = toHost[i]
    BY <2>1, HostGets
  <2>5. QED
    BY <2>2, <2>3, <2>4
<1>3. QED
  BY <1>1, <1>2 DEF NoNewCancel

\* The steps that drop frames from the top, or mark none as cancelled.
LEMMA StayingKeepsPeers ==
    ASSUME TypeInv, Core, PeerInv, NoNewCancel, Len(stack') \in Nat, Len(stack') <= Len(stack),
           \A k \in 1 .. Len(stack') : /\ stack'[k].id = stack[k].id
                                       /\ stack[k].cancelSent => stack'[k].cancelSent,
           stack' # <<>> => Len(stack') > 0,
           UNCHANGED <<process, calls, completed, lastRequest, failure>>
    PROVE  PeerInv'
<1>1. Alive' = Alive
  BY DEF Alive
<1>2. /\ \A i \in Of(toHost', "cancel") : i \in Of(toHost, "cancel") /\ toHost'[i] = toHost[i]
      /\ \A i \in Of(toHost, "request") : i \in Of(toHost', "request") /\ toHost'[i] = toHost[i]
  BY WayWithoutCancel
<1>3. \A k \in 1 .. Len(stack') : k \in 1 .. Len(stack)
  BY Typed
<1>4. \A k \in 1 .. Len(stack') :
         \E j \in 1 .. Len(stack) : stack[j].id = stack'[k].id /\ (stack[j].cancelSent => stack'[k].cancelSent)
  BY <1>3
<1>5. stack # <<>> /\ stack' # <<>> => stack'[1].id = stack[1].id
  <2> SUFFICES ASSUME stack' # <<>> PROVE stack'[1].id = stack[1].id
    OBVIOUS
  <2>1. 1 \in 1 .. Len(stack')
    OBVIOUS
  <2>2. QED
    BY <2>1
<1>6. QED
  BY <1>1, <1>2, <1>4, <1>5, SendingKeepsPeers

\* A call is made, from outside or for a service request.
LEMMA CallingKeepsPeers ==
    ASSUME TypeInv, Core, PeerInv, NEW e \in HostMessages, e.kind = "request", e.id = nextCall,
           toHost' = Append(toHost, e), NEW frame \in Frames, frame.id = nextCall,
           stack' = Append(stack, frame),
           UNCHANGED <<process, calls, completed, lastRequest, failure>>
    PROVE  PeerInv'
<1>1. Alive' = Alive
  BY DEF Alive
<1>2. /\ \A i \in Of(toHost', "cancel") : i \in Of(toHost, "cancel") /\ toHost'[i] = toHost[i]
      /\ \A i \in Of(toHost, "request") : i \in Of(toHost', "request") /\ toHost'[i] = toHost[i]
  BY WayWithoutCancel DEF NoNewCancel
<1>3. Len(toHost) + 1 \in Of(toHost', "request") /\ toHost'[Len(toHost) + 1] = e
  BY HostGets
<1>4. stack \in Seq(Frames) /\ Len(stack) \in Nat
  BY FrameTypes
<1>5. /\ Len(stack') = Len(stack) + 1 /\ stack'[Len(stack) + 1] = frame
      /\ \A k \in 1 .. Len(stack) : stack'[k] = stack[k]
  BY <1>4, AppendAt
<1>6. \A k \in 1 .. Len(stack') :
              \/ \E j \in 1 .. Len(stack) : /\ stack[j].id = stack'[k].id
                                            /\ stack[j].cancelSent => stack'[k].cancelSent
              \/ /\ stack'[k].id = nextCall
                 /\ \E i \in Of(toHost', "request") : toHost'[i].id = stack'[k].id
  <2> SUFFICES ASSUME NEW k \in 1 .. Len(stack')
               PROVE  \/ \E j \in 1 .. Len(stack) : /\ stack[j].id = stack'[k].id
                                                    /\ stack[j].cancelSent => stack'[k].cancelSent
                      \/ /\ stack'[k].id = nextCall
                         /\ \E i \in Of(toHost', "request") : toHost'[i].id = stack'[k].id
    OBVIOUS
  <2>1. k \in 1 .. Len(stack) \/ k = Len(stack) + 1
    BY <1>4, <1>5
  <2>2. CASE k \in 1 .. Len(stack)
    BY <1>5, <2>2
  <2>3. CASE k = Len(stack) + 1
    BY <1>3, <1>5, <2>3
  <2>4. QED
    BY <2>1, <2>2, <2>3
<1>7. stack # <<>> /\ stack' # <<>> => stack'[1].id = stack[1].id
  <2> SUFFICES ASSUME stack # <<>> PROVE stack'[1].id = stack[1].id
    OBVIOUS
  <2>1. Len(stack) > 0
    BY FrameTypes
  <2>2. 1 \in 1 .. Len(stack)
    BY <1>4, <2>1
  <2>3. QED
    BY <1>5, <2>2
<1>8. QED
  BY <1>1, <1>2, <1>6, <1>7, SendingKeepsPeers

\* A call of the engine keeps the memory: its number is new.
LEMMA CallKeepsPeers ==
    ASSUME TypeInv, Core, PeerInv, NEW target \in Instances \cup {Stop}, Call(target)
    PROVE  PeerInv'
<1>1. CASE ~Alive
  BY <1>1, ForgetKeepsPeers DEF Call, Alive, Killed
<1>2. CASE Alive
  <2>1. /\ stack' = <<Frame(target, 0, 0)>>
        /\ toHost' = Append(toHost, CallMessage(nextCall, 0, target))
        /\ UNCHANGED <<process, calls, completed, lastRequest, failure>>
        /\ stack = <<>>
    BY <1>2 DEF Call, Alive, taskVars
  <2>2. /\ CallMessage(nextCall, 0, target) \in HostMessages
        /\ CallMessage(nextCall, 0, target).kind = "request"
        /\ CallMessage(nextCall, 0, target).id = nextCall
    BY Typed DEF CallMessage, HostMessages
  <2>3. Frame(target, 0, 0) \in Frames /\ Frame(target, 0, 0).id = nextCall
    BY Typed DEF Frame, Frames
  <2>4. stack' = Append(stack, Frame(target, 0, 0))
    BY <2>1
  <2>5. QED
    BY <2>1, <2>2, <2>3, <2>4, CallingKeepsPeers
<1>3. QED
  BY <1>1, <1>2

\* Time that passes keeps it: it marks frames, and sends nothing.
LEMMA TimeKeepsPeers ==
    ASSUME TypeInv, Core, PeerInv, TimePasses
    PROVE  PeerInv'
<1>1. /\ stack \in Seq(Frames) /\ DOMAIN stack = 1 .. Len(stack) /\ Len(stack) \in Nat
      /\ \A k \in 1 .. Len(stack) : stack[k] \in Frames
  BY FrameTypes
<1>2. UNCHANGED <<toHost, process, calls, completed, lastRequest, failure>>
  BY DEF TimePasses, DeadlinePasses, GracePasses, hostVars, hostState, taskVars
<1>3. /\ Len(stack') = Len(stack)
      /\ \A k \in 1 .. Len(stack) : /\ stack'[k].id = stack[k].id
                                    /\ stack[k].cancelSent => stack'[k].cancelSent
  <2>1. CASE DeadlinePasses
    <3>1. PICK i \in 1 .. Len(stack) :
               stack' = [j \in 1 .. Len(stack) |->
                            IF j >= i THEN [stack[j] EXCEPT !.due = TRUE] ELSE stack[j]]
      BY <1>1, <2>1 DEF DeadlinePasses
    <3>2. \A j \in 1 .. Len(stack) : /\ [stack[j] EXCEPT !.due = TRUE] \in Frames
                                     /\ [stack[j] EXCEPT !.due = TRUE].id = stack[j].id
                                     /\ [stack[j] EXCEPT !.due = TRUE].cancelSent = stack[j].cancelSent
      BY <1>1 DEF Frames
    <3>3. stack' \in [1 .. Len(stack) -> Frames]
      BY <1>1, <3>1, <3>2
    <3>4. Len(stack') = Len(stack)
      BY <1>1, <3>3
    <3>5. QED
      BY <3>1, <3>2, <3>4
  <2>2. CASE GracePasses
    <3> DEFINE frame == [Top EXCEPT !.late = TRUE]
    <3>1. stack # <<>> /\ stack' = WithTop(frame)
      BY <2>2 DEF GracePasses
    <3>2. /\ frame \in Frames /\ frame.id = Top.id /\ frame.cancelSent = Top.cancelSent
          /\ Top = stack[Len(stack)]
      BY <3>1, FrameTypes DEF Frames
    <3> HIDE DEF frame
    <3>3. /\ Len(stack') = Len(stack) /\ stack'[Len(stack)] = frame
          /\ \A k \in 1 .. Len(stack) - 1 : stack'[k] = stack[k]
      BY <3>1, <3>2, WithTopAt
    <3>4. \A k \in 1 .. Len(stack) : k = Len(stack) \/ k \in 1 .. Len(stack) - 1
      <4>1. PICK n \in Nat : n = Len(stack)
        BY <1>1
      <4>2. \A k \in 1 .. n : k = n \/ k \in 1 .. n - 1
        OBVIOUS
      <4>3. QED
        BY <4>1, <4>2
    <3>5. QED
      BY <3>2, <3>3, <3>4
  <2>3. QED
    BY <2>1, <2>2 DEF TimePasses
<1>4. stack' # <<>> => Len(stack') > 0
  <2>1. CASE stack = <<>>
    BY <2>1 DEF TimePasses, DeadlinePasses, GracePasses
  <2>2. CASE stack # <<>>
    BY <1>3, <2>2, FrameTypes
  <2>3. QED
    BY <2>1, <2>2
<1>5. QED
  BY <1>1, <1>2, <1>3, <1>4, StayingKeepsPeers DEF NoNewCancel

\* The only step that puts a cancellation on the way, of a frame without one.
LEMMA SendCancelKeepsPeers ==
    ASSUME TypeInv, Core, PeerInv, SendCancel
    PROVE  PeerInv'
<1>1. CASE ~Alive
  BY <1>1, AbortKeepsPeers DEF SendCancel, Alive, Abort
<1>2. CASE Alive
  <2> DEFINE e == CancelMessage(Top.id)
             frame == [Top EXCEPT !.cancelSent = TRUE]
  <2>1. /\ toHost' = Append(toHost, e) /\ stack' = WithTop(frame)
        /\ stack # <<>> /\ ~Top.cancelSent
        /\ UNCHANGED <<process, calls, completed, lastRequest, failure>>
    BY <1>2 DEF SendCancel, Pumping, MustCancel, Alive, hostState, taskVars
  <2>2. Top \in Frames /\ Top = stack[Len(stack)] /\ Len(stack) \in Nat /\ Len(stack) > 0
    BY <2>1, FrameTypes
  <2>3. frame \in Frames /\ frame.id = Top.id /\ frame.cancelSent
    BY <2>2 DEF Frames
  <2>4. e \in HostMessages /\ e.kind = "cancel" /\ e.id = Top.id
    BY <2>2 DEF CancelMessage, HostMessages, Frames
  <2> HIDE DEF frame, e
  <2>5. /\ Len(stack') = Len(stack) /\ stack'[Len(stack)] = frame
        /\ \A k \in 1 .. Len(stack) - 1 : stack'[k] = stack[k]
    BY <2>1, <2>3, WithTopAt
  <2>6. \A k \in 1 .. Len(stack') :
           \E j \in 1 .. Len(stack) : stack[j].id = stack'[k].id /\ (stack[j].cancelSent => stack'[k].cancelSent)
    <3> SUFFICES ASSUME NEW k \in 1 .. Len(stack)
                 PROVE  stack[k].id = stack'[k].id /\ (stack[k].cancelSent => stack'[k].cancelSent)
      BY <2>5
    <3>1. k = Len(stack) \/ k \in 1 .. Len(stack) - 1
      BY <2>2
    <3>2. QED
      BY <2>2, <2>3, <2>5, <3>1
  <2>7. stack'[1].id = stack[1].id
    <3>1. 1 = Len(stack) \/ 1 \in 1 .. Len(stack) - 1
      <4>1. PICK n \in Nat : n = Len(stack) /\ n > 0
        BY <2>2
      <4>2. 1 = n \/ 1 \in 1 .. n - 1
        BY <4>1
      <4>3. QED
        BY <4>1, <4>2
    <3>2. QED
      BY <2>2, <2>3, <2>5, <3>1
  <2>8. \A i \in Of(toHost', "cancel") :
           \/ i \in Of(toHost, "cancel") /\ toHost'[i] = toHost[i]
           \/ toHost'[i].id = Top.id
    <3>1. Of(toHost', "cancel") = Of(toHost, "cancel") \cup {Len(toHost) + 1}
      BY <2>1, <2>4, HostGets
    <3>2. /\ \A i \in Of(toHost, "cancel") : toHost'[i] = toHost[i]
          /\ toHost'[Len(toHost) + 1] = e
      BY <2>1, <2>4, HostGets
    <3>3. QED
      BY <2>4, <3>1, <3>2
  <2>9. \A i \in Of(toHost, "request") : i \in Of(toHost', "request") /\ toHost'[i] = toHost[i]
    <3>1. Of(toHost', "request") = Of(toHost, "request")
      BY <2>1, <2>4, HostGets
    <3>2. \A i \in Of(toHost, "request") : toHost'[i] = toHost[i]
      BY <2>1, <2>4, HostGets
    <3>3. QED
      BY <3>1, <3>2
  <2>10. Alive' = Alive
    BY <2>1 DEF Alive
  <2>11. QED
    BY <2>1, <2>6, <2>7, <2>8, <2>9, <2>10, SendingKeepsPeers
<1>3. QED
  BY <1>1, <1>2

\* A call that returns keeps it: there is one frame less to be known.
LEMMA ReturnKeepsPeers ==
    ASSUME TypeInv, Core, PeerInv, Return
    PROVE  PeerInv'
<1>1. stack # <<>> /\ stack \in Seq(Frames) /\ Top \in Frames /\ Len(stack) \in Nat
  BY FrameTypes, ReturnShape DEF Pumping
<1>2. CASE Abort("pipe") \/ Abort("stop")
  BY <1>2, AbortKeepsPeers DEF Abort
<1>3. CASE /\ stack' = Below
           /\ toHost' = IF Top.via = 0 THEN toHost ELSE Append(toHost, ServiceResponse(Top.via, 0))
           /\ UNCHANGED hostState
  <2>1. /\ ServiceResponse(Top.via, 0) \in HostMessages
        /\ ServiceResponse(Top.via, 0).kind # "cancel"
    BY <1>1 DEF ServiceResponse, HostMessages, Frames
  <2>2. NoNewCancel
    BY <1>3, <2>1 DEF NoNewCancel
  <2>3. /\ Below \in Seq(Frames) /\ Len(Below) = Len(stack) - 1
        /\ \A k \in 1 .. Len(stack) - 1 : Below[k] = stack[k]
    BY <1>1, FrontAt DEF Below
  <2>4. Len(Below) \in Nat /\ (Below # <<>> => Len(Below) > 0)
    BY <2>3, EmptySeq
  <2>5. QED
    BY <1>1, <1>3, <2>2, <2>3, <2>4, StayingKeepsPeers DEF hostState, taskVars
<1>4. CASE stack' = <<>> /\ UNCHANGED hostVars
  <2>1. Len(stack') = 0 /\ 1 .. Len(stack') = {}
    BY <1>4, EmptyAt
  <2>2. QED
    BY <1>1, <1>4, <2>1, StayingKeepsPeers DEF NoNewCancel, hostVars, hostState, taskVars
<1>5. QED
  BY <1>2, <1>3, <1>4, ReturnShape

\* Reading a message of the host keeps it, whatever the message makes the
\* supervisor do.
LEMMA ReadKeepsPeers ==
    ASSUME TypeInv, Core, PeerInv, Read
    PROVE  PeerInv'
<1> DEFINE m == toEngine[1]
<1>1. stack \in Seq(Frames) /\ Len(stack) \in Nat /\ (stack # <<>> => Len(stack) > 0)
  BY FrameTypes
<1>2. ASSUME stack' = stack, NoNewCancel, UNCHANGED hostState PROVE PeerInv'
  BY <1>1, <1>2, StayingKeepsPeers DEF hostState, taskVars
<1>3. CASE Abort("protocol") \/ Abort("pipe") \/ Abort("cycle")
  BY <1>3, AbortKeepsPeers DEF Abort
<1>4. CASE toEngine = <<>> /\ ~Abort("pipe")
  <2>1. UNCHANGED <<hostVars, stack>>
    BY <1>4 DEF Read
  <2>2. QED
    BY <1>2, <2>1 DEF NoNewCancel, hostVars
<1>5. ASSUME toEngine # <<>>, ~Abort("protocol"), ~Abort("pipe"), ~Abort("cycle") PROVE PeerInv'
  <2>1. m = Head(toEngine) /\ m \in EngineMessages
    BY <1>5, TailAt DEF TypeInv
  <2>2. CASE m.kind = "response" /\ ReadTerminal(m)
    <3>1. UNCHANGED <<toHost, hostState, stack>>
      BY <1>5, <2>2 DEF ReadTerminal
    <3>2. QED
      BY <1>2, <3>1 DEF NoNewCancel
  <2>3. CASE m.kind = "cancel" /\ ReadAcknowledgement(m)
    <3> DEFINE frame == [Top EXCEPT !.acknowledged = TRUE]
    <3>1. stack # <<>>
      BY DEF Read, Core, ControlInv
    <3>2. stack' = WithTop(frame) /\ UNCHANGED <<toHost, hostState>>
      BY <1>5, <2>3 DEF ReadAcknowledgement
    <3>3. /\ frame \in Frames /\ frame.id = Top.id /\ frame.cancelSent = Top.cancelSent
          /\ Top = stack[Len(stack)]
      BY <3>1, FrameTypes DEF Frames
    <3> HIDE DEF frame
    <3>4. /\ Len(stack') = Len(stack) /\ stack'[Len(stack)] = frame
          /\ \A k \in 1 .. Len(stack) - 1 : stack'[k] = stack[k]
      BY <3>1, <3>2, <3>3, WithTopAt
    <3>5. \A k \in 1 .. Len(stack) : k = Len(stack) \/ k \in 1 .. Len(stack) - 1
      BY <1>1
    <3>6. \A k \in 1 .. Len(stack) : /\ stack'[k].id = stack[k].id
                                     /\ stack[k].cancelSent => stack'[k].cancelSent
      BY <3>3, <3>4, <3>5
    <3>7. QED
      BY <1>1, <3>1, <3>2, <3>4, <3>6, StayingKeepsPeers DEF NoNewCancel, hostState, taskVars
  <2>4. CASE m.kind = "request" /\ ReadService(m)
    <3>1. Served(m)
      BY <1>5, <2>1, <2>4, ServeShape
    <3>2. UNCHANGED hostState /\ m.id \in Nat
      BY <2>1, <3>1 DEF Served, EngineMessages
    <3>3. ASSUME NEW token \in Nat, NEW granted, Answered(m, token, granted) PROVE PeerInv'
      <4>1. /\ ServiceResponse(m.id, token) \in HostMessages
            /\ ServiceResponse(m.id, token).kind # "cancel"
        BY <3>2 DEF ServiceResponse, HostMessages
      <4>2. NoNewCancel /\ stack' = stack
        BY <3>3, <4>1 DEF Answered, NoNewCancel
      <4>3. QED
        BY <1>2, <3>2, <4>2
    <3>4. ASSUME NEW target \in Instances, m.operation = "invoke", Nested(m, target) PROVE PeerInv'
      <4> DEFINE e == CallMessage(nextCall, m.id, target)
                 frame == Frame(target, m.id, m.object)
      <4>1. e \in HostMessages /\ e.kind = "request" /\ e.id = nextCall
        BY <3>2, Typed DEF CallMessage, HostMessages
      <4>2. frame \in Frames /\ frame.id = nextCall
        BY <2>1, <2>4, <3>2, <3>4, Typed DEF Frame, Frames, EngineMessages
      <4>3. toHost' = Append(toHost, e) /\ stack' = Append(stack, frame)
        BY <3>4 DEF Nested
      <4> HIDE DEF e, frame
      <4>4. QED
        BY <3>2, <4>1, <4>2, <4>3, CallingKeepsPeers DEF hostState, taskVars
    <3>5. 0 \in Nat /\ Len(services) + 1 \in Nat
      BY Typed
    <3>6. QED
      BY <3>1, <3>3, <3>4, <3>5 DEF Served
  <2>5. QED
    BY <1>5, <2>1, <2>2, <2>3, <2>4 DEF Read
<1>6. QED
  BY <1>3, <1>4, <1>5

\* Every step keeps the memory in order and the frames' calls known.
LEMMA PeerStep ==
    ASSUME TypeInv, Core, PeerInv, FewCalls, [Next]_vars
    PROVE  PeerInv'
<1>1. Len(stack) \in Nat /\ (stack # <<>> => Len(stack) > 0)
  BY FrameTypes
<1>2. ASSUME UNCHANGED <<hostVars, stack>> PROVE PeerInv'
  BY <1>1, <1>2, StayingKeepsPeers DEF NoNewCancel, hostVars, hostState, taskVars
<1>3. CASE Start
  BY <1>2, <1>3, AbortKeepsPeers DEF Start, Abort
<1>4. CASE \E target \in Entry \cup {Stop} : Call(target)
  BY <1>4, CallKeepsPeers, EntryAssumption
<1>5. CASE SendCancel \/ Return \/ Read
  BY <1>5, SendCancelKeepsPeers, ReturnKeepsPeers, ReadKeepsPeers
<1>6. CASE GiveUp
  BY <1>6, AbortKeepsPeers DEF GiveUp, Abort
<1>7. CASE Poll \/ CancellationRequested \/ UNCHANGED vars
  BY <1>2, <1>7 DEF Poll, CancellationRequested, vars, supervisorVars
<1>8. CASE TimePasses
  BY <1>8, TimeKeepsPeers
<1>9. CASE HostNext /\ UNCHANGED supervisorVars
  <2>1. CASE Accept
    BY <1>9, <2>1, AcceptKeepsPeers
  <2>2. CASE ProcessEnds
    BY <2>2, ForgetKeepsPeers DEF ProcessEnds
  <2>3. ASSUME NEW c \in calls, Begin(c) PROVE PeerInv'
    BY <1>9, <2>3, BeginKeepsPeers
  <2>4. ASSUME NEW c \in calls, Ask(c) PROVE PeerInv'
    <3>1. UNCHANGED <<toHost, process, failure, calls, completed, lastRequest>> /\ stack' = stack
      BY <1>9, <2>4 DEF Ask, supervisorVars
    <3>2. QED
      BY <1>1, <3>1, StayingKeepsPeers DEF NoNewCancel
  <2>5. ASSUME NEW c \in calls, Reply(c) PROVE PeerInv'
    BY <1>9, <2>5, ReplyKeepsPeers
  <2>6. QED
    BY <1>9, <2>1, <2>2, <2>3, <2>4, <2>5 DEF HostNext
<1>10. QED
  BY <1>3, <1>4, <1>5, <1>6, <1>7, <1>8, <1>9 DEF Next, Pump

\* However cancellations, deadlines, answers and nested calls cross, neither
\* end rejects a message of the other (worker.py accept and Pump's checks), in
\* every behaviour in which no call of the engine's own makes, all levels
\* together, more nested calls than the host has tombstones.
THEOREM PeersAgreeOnFewCalls == Spec /\ []FewCalls => []PeersAgree
<1>1. Init => PeerInv
  <2> SUFFICES ASSUME Init PROVE PeerInv
    OBVIOUS
  <2>1. /\ completed = <<>> /\ stack = <<>> /\ calls = {} /\ failure = FALSE
    BY DEF Init, InitHost
  <2>2. 1 .. Len(completed) = {} /\ 1 .. Len(stack) = {}
    BY <2>1, EmptyAt
  <2>3. QED
    BY <2>1, <2>2 DEF PeerInv, MemoryInv, Found
<1>2. IInv /\ FewCalls /\ PeerInv /\ [Next]_vars => PeerInv'
  BY PeerStep DEF IInv
<1>3. IInv /\ PeerInv => PeersAgree
  BY DEF IInv, Core, ControlInv, PeerInv, PeersAgree
<1>4. QED
  BY <1>1, <1>2, <1>3, InvariantHolds, PTL DEF Spec
=============================================================================
