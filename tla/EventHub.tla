------------------------------ MODULE EventHub ------------------------------
(***************************************************************************)
(* EventHub: one publishing thread, a session's worker, and host threads   *)
(* that subscribe and unsubscribe.  Publish copies the subscribers under   *)
(* the hub's mutex and calls them after it has released it.                *)
(*                                                                         *)
(* A subscription is named by its identifier, which is never reused.       *)
(***************************************************************************)
EXTENDS Integers, Sequences

CONSTANTS Subscriptions,   \* identifiers the hub may hand out
          MaxEvents        \* bound on the events published

ASSUME MaxEventsAssumption == MaxEvents \in Nat

VARIABLES
    subscribers,   \* m_subscribers
    gone,          \* subscriptions whose Unsubscribe has returned
    events,        \* events given to Publish so far; an event is its number
    publisher,     \* where Publish stands
    copy,          \* the local copy, less the subscribers called already
    callback,      \* the subscriptions whose callback is running: at most one
    received,      \* history: the events each subscriber was called with
    owed           \* history: subscribed since the current Publish began

hubVars == <<subscribers, gone, events, publisher, copy, callback, received, owed>>

HubInit ==
    /\ subscribers = {}
    /\ gone = {}
    /\ events = 0
    /\ publisher = "idle"
    /\ copy = {}
    /\ callback = {}
    /\ received = [s \in Subscriptions |-> << >>]
    /\ owed = {}
-----------------------------------------------------------------------------
Subscribe(s) ==
    /\ s \notin subscribers \cup gone
    /\ subscribers' = subscribers \cup {s}
    /\ UNCHANGED <<gone, events, publisher, copy, callback, received, owed>>

\* Unsubscribe only erases the entry; it does not wait for a Publish.
Unsubscribe(s) ==
    /\ s \in subscribers
    /\ subscribers' = subscribers \ {s}
    /\ gone' = gone \cup {s}
    /\ owed' = owed \ {s}
    /\ UNCHANGED <<events, publisher, copy, callback, received>>

\* Publish is entered.  An event whose text cannot be serialized is dropped:
\* the exception ends Publish before anybody is called.
Publish ==
    /\ publisher = "idle"
    /\ events < MaxEvents
    /\ events' = events + 1
    /\ \/ publisher' = "locking" /\ owed' = subscribers
       \/ UNCHANGED <<publisher, owed>>
    /\ UNCHANGED <<subscribers, gone, copy, callback, received>>

\* The subscribers are copied under the mutex.
CopySubscribers ==
    /\ publisher = "locking"
    /\ publisher' = "calling"
    /\ copy' = subscribers
    /\ UNCHANGED <<subscribers, gone, events, callback, received, owed>>

\* Fault: the subscriber stays in the list of the ones to call.
FaultyBeginCallback(s) ==
    /\ publisher = "calling"
    /\ callback = {}
    /\ s \in copy
    /\ callback' = {s}
    /\ received' = [received EXCEPT ![s] = Append(@, events)]
    /\ UNCHANGED <<subscribers, gone, events, publisher, copy, owed>>

\* The next subscriber of the copy is called, without the mutex.
BeginCallback(s) ==
    /\ publisher = "calling"
    /\ callback = {}
    /\ s \in copy
    /\ copy' = copy \ {s}
    /\ callback' = {s}
    /\ received' = [received EXCEPT ![s] = Append(@, events)]
    /\ UNCHANGED <<subscribers, gone, events, publisher, owed>>

EndCallback ==
    /\ callback # {}
    /\ callback' = {}
    /\ UNCHANGED <<subscribers, gone, events, publisher, copy, received, owed>>

\* Fault: Publish gives up after the first subscriber.
FaultyPublishReturns ==
    /\ publisher = "calling"
    /\ callback = {}
    /\ publisher' = "idle"
    /\ copy' = {}
    /\ UNCHANGED <<subscribers, gone, events, callback, received, owed>>

PublishReturns ==
    /\ publisher = "calling"
    /\ callback = {}
    /\ copy = {}
    /\ publisher' = "idle"
    /\ UNCHANGED <<subscribers, gone, events, copy, callback, received, owed>>

PublisherStep ==
    \/ CopySubscribers
    \/ \E s \in Subscriptions : BeginCallback(s)
    \/ EndCallback
    \/ PublishReturns

HostStep == \E s \in Subscriptions : Subscribe(s) \/ Unsubscribe(s)
-----------------------------------------------------------------------------
HubTypeOK ==
    /\ subscribers \subseteq Subscriptions
    /\ gone \subseteq Subscriptions
    /\ events \in 0 .. MaxEvents
    /\ publisher \in {"idle", "locking", "calling"}
    /\ copy \subseteq Subscriptions
    /\ callback \subseteq Subscriptions
    /\ \A s, t \in callback : s = t
    /\ received \in [Subscriptions -> Seq(1 .. MaxEvents)]
    /\ owed \subseteq Subscriptions

\* A subscriber sees every event at most once and in the order published,
\* however subscriptions come and go while Publish runs.
OrderedOnce ==
    \A s \in Subscriptions :
        \A i, j \in 1 .. Len(received[s]) : i < j => received[s][i] < received[s][j]

\* When Publish is done with an event, whoever was subscribed all along has it.
NobodyMissed ==
    [][publisher = "calling" /\ publisher' = "idle" =>
          \A s \in owed : \E i \in 1 .. Len(received[s]) : received[s][i] = events]_hubVars

=============================================================================
