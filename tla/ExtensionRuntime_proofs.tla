----------------------- MODULE ExtensionRuntime_proofs -----------------------
(***************************************************************************)
(* Proofs about ExtensionRuntime and the EventHub it publishes through:    *)
(* for any number of drivers, attempts, subscriptions and events, and any  *)
(* depth of calls.                                                         *)
(***************************************************************************)
EXTENDS ExtensionRuntime, TLAPS, SequenceTheorems
-----------------------------------------------------------------------------
(* The inductive invariant.                                                *)

\* What a subscriber has got is behind the event at hand while it is still to
\* be called with it, and whoever is owed the event has it or will be called.
Behind(s) == \A i \in 1 .. Len(received[s]) : received[s][i] < events

Increasing(s) ==
    \A i, j \in 1 .. Len(received[s]) : i < j => received[s][i] < received[s][j]

Has(s) == \E i \in 1 .. Len(received[s]) : received[s][i] = events

HubInv ==
    /\ publisher # "idle" => events > 0
    /\ publisher # "calling" => copy = {}
    /\ \A s \in Subscriptions :
          /\ Increasing(s)
          /\ \A i \in 1 .. Len(received[s]) : received[s][i] <= events
          /\ publisher = "locking" \/ s \in copy => Behind(s)
    /\ publisher = "locking" => owed \subseteq subscribers
    /\ publisher = "calling" => \A s \in owed : s \in copy \/ Has(s)

\* The scope of an open root is lost exactly when an effect beneath it was.
ScopeInv ==
    /\ stack = << >> => effects = "none" /\ answer.unsure = lostHere
    /\ stack # << >> => at \in Working /\ effects = (IF lostHere THEN "lost" ELSE "clean")
    /\ answer.ok => ~answer.unsure

\* After a loss the session is on its way to the cleanup, or about to learn it.
LostInv ==
    lost => \/ at \in {"abandon", "unbind", "shutdown", "ended"} \cup Cleanup
            \/ at \in {"initializing", "validating", "executing"} /\ lostHere

\* The components and services at every place of the session's thread.
Placed ==
    /\ components = IF at \in {"create", "validate", "validating", "execute", "executing", "unbind"}
                    THEN 1 .. turn - 1 ELSE 1 .. turn
    /\ services = IF at \in {"shutdown", "ended"} THEN 1 .. turn ELSE 1 .. turn - 1

TurnInv ==
    /\ at = "create" => turn \in 1 .. NumDrivers + 1
    /\ at \in {"initialize", "initializing", "abandon"} \cup Cleanup => turn \in Driver
    /\ at \in {"validate", "validating", "execute", "executing", "unbind"} => turn = NumDrivers + 1
    /\ at = "shutdown" => turn \in 0 .. NumDrivers
    /\ at = "ended" => turn = 0
    /\ at = "execute" => attempts < MaxAttempts
    /\ at \in Cleanup => turn \in told \/ Dead(turn)

\* The two halves of TypeOK that are about the runtime.
ThreadTypeOK ==
    /\ kind \in [Component -> Kind]
    /\ at \in Location
    /\ turn \in 0 .. NumDrivers + 1
    /\ attempts \in 0 .. MaxAttempts
    /\ components \subseteq Driver
    /\ services \subseteq components
    /\ worker \in {"up", "down"}

CallTypeOK ==
    /\ stack \in Seq(Component)
    /\ effects \in {"none", "clean", "lost"}
    /\ answer \in [ok : BOOLEAN, unsure : BOOLEAN]
    /\ lostHere \in BOOLEAN /\ lost \in BOOLEAN
    /\ told \subseteq Driver

RuntimeInv == ThreadTypeOK /\ CallTypeOK /\ ScopeInv /\ LostInv /\ Placed /\ TurnInv

IInv == HubTypeOK /\ HubInv /\ RuntimeInv
-----------------------------------------------------------------------------
(* The event hub.                                                          *)

HubStep == HostStep \/ PublisherStep \/ Publish \/ UNCHANGED hubVars

\* The hub starts in its invariant.
LEMMA HubInitially == HubInit => HubTypeOK /\ HubInv
BY MaxEventsAssumption DEF HubInit, HubTypeOK, HubInv, Increasing, Behind, Has

\* Every step of the hub, and of a thread that publishes, keeps it.
LEMMA HubPreserved ==
    ASSUME HubTypeOK, HubInv, HubStep
    PROVE  HubTypeOK' /\ HubInv'
<1> USE MaxEventsAssumption DEF HubTypeOK, HubInv, Increasing, Behind, Has
<1>1. ASSUME NEW s \in Subscriptions, Subscribe(s) \/ Unsubscribe(s)
      PROVE  HubTypeOK' /\ HubInv'
  <2>1. /\ owed' \subseteq owed /\ (publisher = "locking" => owed' \subseteq subscribers')
        /\ UNCHANGED <<events, publisher, copy, callback, received>>
    BY <1>1 DEF Subscribe, Unsubscribe
  <2>2. HubTypeOK'
    BY <1>1 DEF Subscribe, Unsubscribe
  <2>3. HubInv'
    BY <2>1
  <2> QED BY <2>2, <2>3
<1>2. CASE Publish
  BY <1>2 DEF Publish
<1>3. CASE CopySubscribers
  <2>1. HubTypeOK'
    BY <1>3 DEF CopySubscribers
  <2>2. HubInv'
    BY <1>3 DEF CopySubscribers
  <2> QED BY <2>1, <2>2
<1>4. ASSUME NEW s \in Subscriptions, BeginCallback(s)
      PROVE  HubTypeOK' /\ HubInv'
  <2>1. PICK n \in Nat : n = Len(received[s])
    OBVIOUS
  <2>2. received' = [received EXCEPT ![s] = Append(@, events)]
    BY <1>4 DEF BeginCallback
  <2>3. /\ Len(received'[s]) = n + 1
        /\ received'[s][n + 1] = events
        /\ \A i \in 1 .. n : received'[s][i] = received[s][i]
    BY <2>1, <2>2
  <2>4. \A t \in Subscriptions \ {s} : received'[t] = received[t]
    BY <2>2
  <2>5. events \in 1 .. MaxEvents
    BY <1>4 DEF BeginCallback
  <2>6. HubTypeOK'
    BY <1>4, <2>2, <2>5 DEF BeginCallback
  <2>7. HubInv'
    BY <1>4, <2>1, <2>2, <2>3, <2>4 DEF BeginCallback
  <2> QED BY <2>6, <2>7
<1>5. CASE EndCallback
  BY <1>5 DEF EndCallback
<1>6. CASE PublishReturns
  BY <1>6 DEF PublishReturns
<1>7. CASE UNCHANGED hubVars
  BY <1>7 DEF hubVars
<1> QED
  BY <1>1, <1>2, <1>3, <1>4, <1>5, <1>6, <1>7 DEF HubStep, HostStep, PublisherStep
-----------------------------------------------------------------------------
(* The runtime.                                                            *)

\* A session starts in the invariant of the runtime.
LEMMA RuntimeInitially == Init => RuntimeInv
<1> SUFFICES ASSUME Init PROVE RuntimeInv
  OBVIOUS
<1> USE RuntimeAssumption DEF Init
<1>1. ThreadTypeOK
  BY DEF ThreadTypeOK, Location, Working
<1>2. CallTypeOK
  <2>1. stack \in Seq(Component)
    OBVIOUS
  <2>2. answer \in [ok : BOOLEAN, unsure : BOOLEAN]
    OBVIOUS
  <2> QED BY <2>1, <2>2 DEF CallTypeOK
<1>3. ScopeInv /\ LostInv
  BY DEF ScopeInv, LostInv
<1>4. Placed /\ TurnInv
  BY DEF Placed, TurnInv, Cleanup
<1> QED BY <1>1, <1>2, <1>3, <1>4 DEF RuntimeInv

\* A root invocation leaves the scope it found closed either open and clean or
\* closed with the answer of a dead worker.
LEMMA RootPreserved ==
    ASSUME NEW c \in Component, NEW location \in Working,
           CallTypeOK, ScopeInv, stack = << >>, BeginRoot(c, location),
           location \in Cleanup => c \in Driver
    PROVE  /\ CallTypeOK' /\ ScopeInv'
           /\ location \in Cleanup => c \in told' \/ Dead(c)
           /\ location \notin Cleanup => lost' = (lost \/ Dead(c))
           /\ location \in Cleanup => lost' = lost
           /\ at' = location /\ lostHere' = Dead(c)
<1>1. CASE Dead(c)
  <2>1. /\ at' = location /\ lostHere' = TRUE /\ stack' = << >> /\ effects' = "none"
        /\ answer' = [ok |-> FALSE, unsure |-> TRUE] /\ told' = told
        /\ lost' = (lost \/ location \notin Cleanup)
    BY <1>1 DEF BeginRoot, Entered, ScopeInv
  <2>2. CallTypeOK'
    BY <2>1 DEF CallTypeOK
  <2>3. ScopeInv'
    BY <2>1 DEF ScopeInv
  <2> QED BY <1>1, <2>1, <2>2, <2>3 DEF CallTypeOK
<1>2. CASE ~Dead(c)
  <2>1. /\ at' = location /\ lostHere' = FALSE /\ stack' = <<c>> /\ effects' = "clean"
        /\ answer' = answer /\ lost' = lost
        /\ told' = IF location \in Cleanup THEN told \cup {c} ELSE told
    BY <1>2 DEF BeginRoot, Entered, FreshScope
  <2>2. CallTypeOK'
    <3>1. stack' \in Seq(Component)
      BY <2>1
    <3>2. told' \subseteq Driver
      BY <2>1 DEF CallTypeOK
    <3> QED BY <2>1, <3>1, <3>2 DEF CallTypeOK
  <2>3. stack' # << >>
    BY <2>1
  <2>4. answer'.ok => ~answer'.unsure
    BY <2>1 DEF ScopeInv
  <2>5. ScopeInv'
    <3>1. stack' # << >> => at' \in Working /\ effects' = (IF lostHere' THEN "lost" ELSE "clean")
      BY <2>1
    <3>2. stack' = << >> => effects' = "none" /\ answer'.unsure = lostHere'
      BY <2>3
    <3> QED BY <2>4, <3>1, <3>2 DEF ScopeInv
  <2> QED BY <1>2, <2>1, <2>2, <2>5 DEF Dead, IsPython, CallTypeOK
<1> QED BY <1>1, <1>2

\* Validate and execute are entered only while nothing is lost.
LEMMA InvokeCommandPreserved ==
    ASSUME RuntimeInv, InvokeCommand
    PROVE  RuntimeInv'
<1> USE DEF RuntimeInv
<1>1. /\ stack = << >> /\ Command \in Component
      /\ UNCHANGED <<kind, turn, components, services, worker>>
  BY RuntimeAssumption DEF InvokeCommand, Between, Command, Component
<1>2. CASE at = "validate"
  <2>1. BeginRoot(Command, "validating") /\ attempts' = attempts
    BY <1>2 DEF InvokeCommand
  <2>2. "validating" \in Working /\ "validating" \notin Cleanup /\ "validating" \in Location
    BY DEF Working, Cleanup, Location
  <2>3. /\ CallTypeOK' /\ ScopeInv' /\ at' = "validating"
        /\ lostHere' = Dead(Command) /\ lost' = (lost \/ Dead(Command))
    BY <1>1, <2>1, <2>2, RootPreserved
  <2>4. ~lost
    BY <1>2 DEF LostInv, Cleanup
  <2>5. ThreadTypeOK'
    BY <1>1, <1>2, <2>1, <2>2, <2>3, RuntimeAssumption DEF ThreadTypeOK, TurnInv
  <2>6. LostInv'
    BY <2>3, <2>4 DEF LostInv
  <2>7. Placed' /\ TurnInv'
    BY <1>1, <1>2, <2>3 DEF Placed, TurnInv, Cleanup
  <2> QED BY <2>3, <2>5, <2>6, <2>7
<1>3. CASE at = "execute"
  <2>1. BeginRoot(Command, "executing") /\ attempts' = attempts + 1
    BY <1>3 DEF InvokeCommand
  <2>2. "executing" \in Working /\ "executing" \notin Cleanup /\ "executing" \in Location
    BY DEF Working, Cleanup, Location
  <2>3. /\ CallTypeOK' /\ ScopeInv' /\ at' = "executing"
        /\ lostHere' = Dead(Command) /\ lost' = (lost \/ Dead(Command))
    BY <1>1, <2>1, <2>2, RootPreserved
  <2>4. ~lost
    BY <1>3 DEF LostInv, Cleanup
  <2>5. ThreadTypeOK'
    BY <1>1, <1>3, <2>1, <2>2, <2>3, RuntimeAssumption DEF ThreadTypeOK, TurnInv
  <2>6. LostInv'
    BY <2>3, <2>4 DEF LostInv
  <2>7. Placed' /\ TurnInv'
    BY <1>1, <1>3, <2>3 DEF Placed, TurnInv, Cleanup
  <2> QED BY <2>3, <2>5, <2>6, <2>7
<1> QED BY <1>2, <1>3 DEF InvokeCommand

\* The driver at hand is initialized, or told to shut down and then unreachable.
LEMMA InvokeDriverPreserved ==
    ASSUME RuntimeInv, InvokeDriver
    PROVE  RuntimeInv'
<1> USE DEF RuntimeInv
<1>1. /\ stack = << >>
      /\ at \in {"initialize", "abandon"} => turn \in Driver
      /\ UNCHANGED <<kind, turn, attempts, components, worker>>
  BY DEF InvokeDriver, Between, TurnInv
<1>2. Driver \subseteq Component
  BY RuntimeAssumption DEF Driver, Component
<1>3. CASE at = "initialize"
  <2>1. BeginRoot(turn, "initializing") /\ services' = services /\ turn \in Driver
    BY <1>1, <1>3 DEF InvokeDriver, ThreadTypeOK
  <2>2. "initializing" \in Working /\ "initializing" \notin Cleanup /\ "initializing" \in Location
    BY DEF Working, Cleanup, Location
  <2>3. /\ CallTypeOK' /\ ScopeInv' /\ at' = "initializing" /\ lostHere' = Dead(turn)
        /\ lost' = (lost \/ Dead(turn))
    BY <1>1, <1>2, <2>1, <2>2, RootPreserved
  <2>4. ThreadTypeOK'
    BY <1>1, <2>1, <2>2, <2>3 DEF ThreadTypeOK
  <2>5. LostInv'
    BY <1>3, <2>2, <2>3 DEF LostInv, Cleanup
  <2>6. Placed'
    BY <1>1, <1>3, <2>1, <2>3 DEF Placed, Driver
  <2>7. TurnInv'
    BY <1>1, <1>3, <2>1, <2>2, <2>3 DEF TurnInv, Cleanup, Dead, IsPython
  <2> QED BY <2>3, <2>4, <2>5, <2>6, <2>7
<1>4. CASE at = "abandon"
  <2>1. BeginRoot(turn, "abandoning") /\ services' = services /\ turn \in Driver
    BY <1>1, <1>4 DEF InvokeDriver, ThreadTypeOK
  <2>2. "abandoning" \in Working /\ "abandoning" \in Cleanup /\ "abandoning" \in Location
    BY DEF Working, Cleanup, Location
  <2>3. /\ CallTypeOK' /\ ScopeInv' /\ at' = "abandoning" /\ lostHere' = Dead(turn)
        /\ lost' = lost /\ (turn \in told' \/ Dead(turn))
    BY <1>1, <1>2, <2>1, <2>2, RootPreserved
  <2>4. ThreadTypeOK'
    BY <1>1, <2>1, <2>2, <2>3 DEF ThreadTypeOK
  <2>5. LostInv'
    BY <1>4, <2>2, <2>3 DEF LostInv, Cleanup
  <2>6. Placed'
    BY <1>1, <1>4, <2>1, <2>3 DEF Placed, Driver
  <2>7. TurnInv'
    BY <1>1, <1>4, <2>1, <2>2, <2>3 DEF TurnInv, Cleanup, Dead, IsPython
  <2> QED BY <2>3, <2>4, <2>5, <2>6, <2>7
<1>5. CASE at = "shutdown"
  <2>1. BeginRoot(turn, "shuttingDown") /\ services' = services \ {turn} /\ turn \in Driver
    BY <1>1, <1>5 DEF InvokeDriver, ThreadTypeOK
  <2>2. "shuttingDown" \in Working /\ "shuttingDown" \in Cleanup /\ "shuttingDown" \in Location
    BY DEF Working, Cleanup, Location
  <2>3. /\ CallTypeOK' /\ ScopeInv' /\ at' = "shuttingDown" /\ lostHere' = Dead(turn)
        /\ lost' = lost /\ (turn \in told' \/ Dead(turn))
    BY <1>1, <1>2, <2>1, <2>2, RootPreserved
  <2>4. ThreadTypeOK'
    BY <1>1, <2>1, <2>2, <2>3 DEF ThreadTypeOK
  <2>5. LostInv'
    BY <1>5, <2>2, <2>3 DEF LostInv, Cleanup
  <2>6. Placed'
    BY <1>1, <1>5, <2>1, <2>3 DEF Placed, Driver
  <2>7. TurnInv'
    BY <1>1, <1>5, <2>1, <2>2, <2>3 DEF TurnInv, Cleanup, Dead, IsPython
  <2> QED BY <2>3, <2>4, <2>5, <2>6, <2>7
<1> QED BY <1>3, <1>4, <1>5 DEF InvokeDriver

\* A call that returns to its caller leaves the stack one component shorter.
LEMMA ReturnShortens ==
    ASSUME stack \in Seq(Component), ReturnToCaller
    PROVE  /\ Len(stack) \in Nat /\ Len(stack) > 1
           /\ stack' \in Seq(Component)
           /\ Len(stack') = Len(stack) - 1
<1>1. Len(stack) > 1 /\ stack' = SubSeq(stack, 1, Len(stack) - 1)
  BY DEF ReturnToCaller
<1>2. Len(stack) \in Nat /\ \A i \in 1 .. Len(stack) : stack[i] \in Component
  OBVIOUS
<1>3. Len(stack) - 1 \in Int /\ \A i \in 1 .. Len(stack) - 1 : stack[i] \in Component
  BY <1>2
<1>4. /\ SubSeq(stack, 1, Len(stack) - 1) \in Seq(Component)
      /\ Len(SubSeq(stack, 1, Len(stack) - 1))
           = IF 1 <= Len(stack) - 1 THEN (Len(stack) - 1) - 1 + 1 ELSE 0
  BY <1>3, SubSeqProperties
<1> QED
  BY <1>1, <1>2, <1>4

\* Every step keeps the invariant of the runtime.
LEMMA RuntimePreserved ==
    ASSUME RuntimeInv, [Next]_vars
    PROVE  RuntimeInv'
<1> USE RuntimeAssumption
    DEF RuntimeInv, ThreadTypeOK, CallTypeOK, ScopeInv, LostInv, Placed, TurnInv, Location, Working,
        Cleanup, Driver, Component, Command, Kind, control, history, Dead, IsPython, Between,
        Inside, Quiet
<1>1. CASE ReturnToCaller
  <2>1. /\ stack # << >> /\ Len(stack) > 1
        /\ stack' = SubSeq(stack, 1, Len(stack) - 1)
        /\ UNCHANGED <<kind, at, turn, attempts, components, services, worker, answer>>
    BY <1>1 DEF ReturnToCaller
  <2>2. Len(stack') > 0 /\ stack' \in Seq(Component)
    BY <1>1, ReturnShortens
  <2>3. stack' # << >>
    <3>1. SUFFICES ASSUME stack' = << >> PROVE FALSE
      OBVIOUS
    <3>2. Len(stack') = 0
      BY <3>1, Zenon, EmptySeq
    <3> QED BY <2>2, <3>2
  <2>4. PICK unsure \in BOOLEAN :
            /\ effects' = IF unsure THEN "lost" ELSE effects
            /\ lostHere' = (lostHere \/ unsure)
            /\ lost' = (lost \/ (unsure /\ at \notin Cleanup))
            /\ told' = told
    BY <1>1 DEF ReturnToCaller, Recorded, Witnessed, Reports
  <2>5. ThreadTypeOK' /\ CallTypeOK'
    BY <2>1, <2>2, <2>4
  <2>6. ScopeInv'
    BY <2>1, <2>3, <2>4
  <2>7. LostInv'
    BY <2>1, <2>4
  <2>8. Placed' /\ TurnInv'
    BY <2>1, <2>4
  <2> QED BY <2>5, <2>6, <2>7, <2>8
<1>2. CASE ReturnToSession
  BY <1>2 DEF ReturnToSession, Reports, Recorded, Witnessed, Top
<1>3. CASE Log
  BY <1>3 DEF Log, runtimeVars
<1>4. CASE WorkerDies
  BY <1>4 DEF WorkerDies
<1>5. CASE CreateDriver
  <2>1. ThreadTypeOK'
    BY <1>5 DEF CreateDriver
  <2>2. CallTypeOK' /\ ScopeInv' /\ LostInv'
    BY <1>5 DEF CreateDriver
  <2>3. Placed' /\ TurnInv'
    BY <1>5 DEF CreateDriver
  <2> QED BY <2>1, <2>2, <2>3
<1>6. CASE InvokeDriver
  BY <1>6, InvokeDriverPreserved DEF InvokeDriver
<1>7. CASE RegisterService
  BY <1>7 DEF RegisterService
<1>8. CASE InitializeFailed
  BY <1>8 DEF InitializeFailed
<1>9. CASE DropDriver
  BY <1>9 DEF DropDriver
<1>10. CASE BindCommand
  BY <1>10 DEF BindCommand
<1>11. CASE InvokeCommand
  BY <1>11, InvokeCommandPreserved DEF InvokeCommand
<1>12. CASE Continue
  BY <1>12 DEF Continue
<1>13. CASE Stop
  BY <1>13 DEF Stop
<1>14. CASE ClearCommands
  BY <1>14 DEF ClearCommands
<1>15. CASE EndSession
  BY <1>15 DEF EndSession
<1>16. CASE NewSession
  <2>1. ThreadTypeOK'
    BY <1>16 DEF NewSession
  <2>2. CallTypeOK'
    BY <1>16 DEF NewSession
  <2>3. ScopeInv' /\ LostInv'
    BY <1>16 DEF NewSession
  <2>4. Placed' /\ TurnInv'
    BY <1>16 DEF NewSession
  <2> QED BY <2>1, <2>2, <2>3, <2>4
<1>17. ASSUME NEW d \in Driver, Call(d) PROVE RuntimeInv'
  <2>1. /\ stack # << >> /\ effects # "lost" /\ stack' = Append(stack, d)
        /\ UNCHANGED <<kind, control, components, services, worker, effects, answer, history>>
    BY <1>17 DEF Call, Entered
  <2>2. stack' \in Seq(Component) /\ stack' # << >>
    BY <2>1
  <2>3. ThreadTypeOK' /\ CallTypeOK'
    BY <2>1, <2>2
  <2>4. ScopeInv' /\ LostInv'
    BY <2>1, <2>2
  <2>5. Placed' /\ TurnInv'
    BY <2>1
  <2> QED BY <2>3, <2>4, <2>5
<1>18. ASSUME NEW d \in Driver, CallDead(d) PROVE RuntimeInv'
  BY <1>18 DEF CallDead, Callable, Witnessed
<1>19. CASE UNCHANGED runtimeVars
  BY <1>19 DEF runtimeVars
<1> QED
  BY <1>1, <1>2, <1>3, <1>4, <1>5, <1>6, <1>7, <1>8, <1>9, <1>10, <1>11, <1>12, <1>13, <1>14,
     <1>15, <1>16, <1>17, <1>18, <1>19
  DEF Next, Extension, Session, vars
-----------------------------------------------------------------------------
(* The invariant, and what follows from it.                                *)

\* Seen from the hub, every step is one of its own or leaves it alone.
LEMMA NextIsHubStep == [Next]_vars => HubStep
<1> SUFFICES ASSUME [Next]_vars PROVE HubStep
  OBVIOUS
<1> USE DEF HubStep
<1>1. CASE Extension
  <2>1. CASE Log
    BY <2>1 DEF Log
  <2>2. CASE WorkerDies
    BY <2>2 DEF WorkerDies, hubVars
  <2>3. CASE \E d \in Driver : Call(d) \/ CallDead(d)
    BY <2>3 DEF Call, CallDead, Inside, Quiet
  <2>4. CASE ReturnToCaller \/ ReturnToSession
    BY <2>4 DEF ReturnToCaller, ReturnToSession, Inside, Quiet
  <2> QED BY <1>1, <2>1, <2>2, <2>3, <2>4 DEF Extension
<1>2. CASE Session
  BY <1>2 DEF Session, CreateDriver, InvokeDriver, RegisterService, InitializeFailed, DropDriver,
       BindCommand, InvokeCommand, Continue, Stop, ClearCommands, EndSession, NewSession, Between,
       Quiet
<1>3. CASE HostStep \/ PublisherStep
  BY <1>3
<1>4. CASE UNCHANGED vars
  BY <1>4 DEF vars, hubVars
<1> QED BY <1>1, <1>2, <1>3, <1>4 DEF Next

\* The two invariants hold of every state of every session.
THEOREM Invariance == Spec => []IInv
<1>1. Init => IInv
  BY HubInitially, RuntimeInitially DEF Init, IInv
<1>2. IInv /\ [Next]_vars => IInv'
  BY NextIsHubStep, HubPreserved, RuntimePreserved DEF IInv
<1> QED BY <1>1, <1>2, PTL DEF Spec

\* The variables of the runtime and of the hub keep their types.
THEOREM TypeCorrect == Spec => []TypeOK
<1>1. IInv => TypeOK
  BY DEF IInv, RuntimeInv, ThreadTypeOK, CallTypeOK, TypeOK
<1> QED BY <1>1, Invariance, PTL

\* A root invocation reports an unconfirmed effect exactly when one was lost
\* beneath it, whatever the components between make of it.
THEOREM RootReportsLoss == Spec => []LossReachesRoot
<1>1. IInv => LossReachesRoot
  BY DEF IInv, RuntimeInv, ScopeInv, LossReachesRoot
<1> QED BY <1>1, Invariance, PTL

\* A step that enters a component is a service call or a root invocation.
LEMMA EntryStep ==
    ASSUME IInv, Next, Len(stack') > Len(stack)
    PROVE  \/ \E d \in Driver : Call(d)
           \/ InvokeDriver /\ stack = << >>
           \/ InvokeCommand /\ stack = << >>
<1>0. stack \in Seq(Component)
  BY DEF IInv, RuntimeInv, CallTypeOK
<1>1. ~ReturnToCaller
  <2>1. SUFFICES ASSUME ReturnToCaller PROVE FALSE
    OBVIOUS
  <2>2. Len(stack') = Len(stack) - 1 /\ Len(stack) \in Nat
    BY <1>0, <2>1, ReturnShortens
  <2> QED BY <2>2
<1>2. ~ReturnToSession
  <2>1. SUFFICES ASSUME ReturnToSession PROVE FALSE
    OBVIOUS
  <2>2. Len(stack') = 0
    BY <2>1, EmptySeq DEF ReturnToSession
  <2> QED BY <1>0, <2>2
<1>3. stack' # stack
  BY <1>0
<1>4. Extension => \E d \in Driver : Call(d)
  BY <1>1, <1>2, <1>3 DEF Extension, CallDead, Log, WorkerDies, runtimeVars
<1>5. Session => (InvokeDriver \/ InvokeCommand) /\ stack = << >>
  BY <1>3 DEF Session, CreateDriver, InvokeDriver, RegisterService, InitializeFailed, DropDriver,
       BindCommand, InvokeCommand, Continue, Stop, ClearCommands, EndSession, NewSession, Between
<1>6. ~UNCHANGED runtimeVars
  BY <1>3 DEF runtimeVars
<1> QED BY <1>4, <1>5, <1>6 DEF Next

\* After an effect is lost, components are entered for their shutdown only.
THEOREM NoWorkAfterLoss == Spec => NothingAfterLoss
<1>1. ASSUME IInv, Next, Len(stack') > Len(stack)
      PROVE  /\ stack # << >> => ~lostHere
             /\ lost => at' \in Cleanup
  <2> USE <1>1 DEF IInv, RuntimeInv
  <2>1. ASSUME NEW d \in Driver, Call(d)
        PROVE  ~lostHere /\ (lost => at' \in Cleanup)
    <3>1. stack # << >> /\ effects # "lost" /\ at' = at
      BY <2>1 DEF Call, Inside, Entered, control
    <3>2. ~lostHere /\ at \in Working
      BY <3>1 DEF ScopeInv
    <3>3. lost => at \in Cleanup
      BY <3>2 DEF LostInv, Working
    <3> QED BY <3>1, <3>2, <3>3
  <2>2. ASSUME InvokeDriver, lost
        PROVE  at' \in Cleanup
    BY <2>2 DEF InvokeDriver, BeginRoot, LostInv, Cleanup
  <2>3. ASSUME InvokeCommand, lost
        PROVE  FALSE
    BY <2>3 DEF InvokeCommand, LostInv, Cleanup
  <2> QED BY <2>1, <2>2, <2>3, EntryStep
<1>2. IInv /\ [Next]_vars => [Len(stack') > Len(stack) =>
                                 /\ stack # << >> => ~lostHere
                                 /\ lost => at' \in Cleanup]_vars
  BY <1>1
<1> QED BY <1>2, Invariance, PTL DEF Spec, NothingAfterLoss

\* No driver is dropped before it was told to shut down, and a session leaves
\* no component and no service behind.
THEOREM DriversAreShutDown == Spec => ShutdownReachesDriver
<1>1. ASSUME IInv, Next
      PROVE  /\ \A d \in components \ components' : d \in told \/ Dead(d)
             /\ at' = "ended" => components = {} /\ services = {}
  <2> USE <1>1 DEF IInv, RuntimeInv
  <2>1. CASE DropDriver
    BY <2>1 DEF DropDriver, TurnInv, ThreadTypeOK
  <2>2. CASE EndSession
    BY <2>2 DEF EndSession, Placed, ThreadTypeOK
  <2>3. CASE Extension
    <3>1. components' = components /\ at' = at
      BY <2>3 DEF Extension, Call, CallDead, ReturnToCaller, ReturnToSession, Log, WorkerDies,
           runtimeVars, control
    <3> QED BY <3>1 DEF Placed, TurnInv, ThreadTypeOK
  <2>4. CASE UNCHANGED runtimeVars
    BY <2>4 DEF runtimeVars, control, Placed, TurnInv, ThreadTypeOK
  <2>5. CASE Session /\ ~DropDriver /\ ~EndSession
    <3>1. components \subseteq components' /\ at' # "ended"
      BY <2>5 DEF Session, CreateDriver, InvokeDriver, RegisterService, InitializeFailed,
           BindCommand, InvokeCommand, Continue, Stop, ClearCommands, NewSession, BeginRoot
    <3> QED BY <3>1
  <2> QED BY <2>1, <2>2, <2>3, <2>4, <2>5 DEF Next
<1>2. IInv /\ [Next]_vars => [/\ \A d \in components \ components' : d \in told \/ Dead(d)
                              /\ at' = "ended" => components = {} /\ services = {}]_vars
  BY <1>1
<1> QED BY <1>2, Invariance, PTL DEF Spec, ShutdownReachesDriver

\* Every subscriber sees the events in order and none of them twice.
THEOREM EventsInOrder == Spec => []OrderedOnce
<1>1. IInv => OrderedOnce
  BY DEF IInv, HubInv, Increasing, OrderedOnce
<1> QED BY <1>1, Invariance, PTL

\* Publish returns only when whoever was subscribed all along has the event.
THEOREM EventsReachSubscribers == Spec => NobodyMissed
<1>1. ASSUME IInv, HubStep, publisher = "calling", publisher' = "idle"
      PROVE  \A s \in owed : \E i \in 1 .. Len(received[s]) : received[s][i] = events
  <2>1. PublishReturns
    BY <1>1 DEF HubStep, HostStep, PublisherStep, Subscribe, Unsubscribe, Publish,
         CopySubscribers, BeginCallback, EndCallback, hubVars
  <2> QED BY <1>1, <2>1 DEF PublishReturns, IInv, HubInv, Has
<1>2. IInv /\ [Next]_vars => [publisher = "calling" /\ publisher' = "idle" =>
          \A s \in owed : \E i \in 1 .. Len(received[s]) : received[s][i] = events]_hubVars
  BY <1>1, NextIsHubStep
<1> QED BY <1>2, Invariance, PTL DEF Spec, NobodyMissed
=============================================================================
