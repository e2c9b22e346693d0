------------------------- MODULE InstrumentManager -------------------------
(***************************************************************************)
(* InstrumentManager: the instruments of one session, initialized in the   *)
(* order of their identifiers and shut down in the reverse order, together *)
(* with the adapter that drives one instrument through its extension       *)
(* (ExtensionInstrumentAdapter).  Only the session's worker calls it.      *)
(*                                                                         *)
(* An instrument is named by its rank in m_instruments, a std::map.        *)
(***************************************************************************)
EXTENDS Integers, Sequences

CONSTANT NumInstruments

ASSUME NumInstrumentsAssumption == NumInstruments \in Nat

Instrument == 1 .. NumInstruments

VARIABLES
    manager,         \* which call the manager is in, or how the last one ended
    initialized,     \* InstrumentEntry::initialized
    initOrder,       \* m_initializationOrder
    cursor,          \* the loop variable of InitializeAll and of ShutdownAll
    cleanupFailed,   \* a diagnostic came out of ShutdownAll or of finishRuntime
    driver           \* external: what the driver of an instrument was last told

managerVars == <<manager, initialized, initOrder, cursor, cleanupFailed, driver>>

ManagerCall == {"loaded", "initializing", "unwinding", "ready", "failed", "shutting", "closed"}

\* "absent": never initialized; "up": initialize succeeded; "down": shutdown called.
DriverState == {"absent", "up", "down"}

ManagerInit ==
    /\ manager = "loaded"
    /\ initialized = [i \in Instrument |-> FALSE]
    /\ initOrder = << >>
    /\ cursor = 0
    /\ cleanupFailed = FALSE
    /\ driver = [i \in Instrument |-> "absent"]
-----------------------------------------------------------------------------
\* InitializeAll is entered.
InitializeAll ==
    /\ manager = "loaded"
    /\ manager' = "initializing"
    /\ initOrder' = << >>
    /\ cursor' = 1
    /\ UNCHANGED <<initialized, cleanupFailed, driver>>

\* The adapter created the component, its initialize succeeded and the
\* service is registered.
InstrumentInitialized ==
    /\ manager = "initializing"
    /\ cursor <= NumInstruments
    /\ initialized' = [initialized EXCEPT ![cursor] = TRUE]
    /\ initOrder' = Append(initOrder, cursor)
    /\ driver' = [driver EXCEPT ![cursor] = "up"]
    /\ cursor' = cursor + 1
    /\ UNCHANGED <<manager, cleanupFailed>>

\* The adapter fails.  When the component exists, its initialize may have
\* taken resources: the adapter calls shutdown before it reports the failure.
InstrumentInitFails ==
    /\ manager = "initializing"
    /\ cursor <= NumInstruments
    /\ \/ UNCHANGED driver
       \/ driver' = [driver EXCEPT ![cursor] = "down"]
    /\ manager' = "unwinding"
    /\ cursor' = Len(initOrder)
    /\ UNCHANGED <<initialized, initOrder, cleanupFailed>>

AllInitialized ==
    /\ manager = "initializing"
    /\ cursor > NumInstruments
    /\ manager' = "ready"
    /\ UNCHANGED <<initialized, initOrder, cursor, cleanupFailed, driver>>

\* ShutdownAll is entered by the session, after the run.
ShutdownAll ==
    /\ manager \in {"loaded", "ready", "failed"}
    /\ manager' = "shutting"
    /\ cursor' = Len(initOrder)
    /\ UNCHANGED <<initialized, initOrder, cleanupFailed, driver>>

\* Fault: the initialization order is walked forwards.
FaultyShutdownTarget == initOrder[Len(initOrder) + 1 - cursor]

\* The instrument the reverse loop of ShutdownAll stands at.
ShutdownTarget == initOrder[cursor]

\* One turn of the loop: the driver is told to shut down, and whether it
\* succeeds, reports a failure or throws, the loop goes on.  A failure while
\* InitializeAll unwinds is appended to an initialization that failed already.
ShutdownInstrument ==
    /\ manager \in {"unwinding", "shutting"}
    /\ cursor > 0
    /\ IF initialized[ShutdownTarget]
       THEN /\ driver' = [driver EXCEPT ![ShutdownTarget] = "down"]
            /\ initialized' = [initialized EXCEPT ![ShutdownTarget] = FALSE]
            /\ \E failed \in BOOLEAN :
                  cleanupFailed' = (cleanupFailed \/ (failed /\ manager = "shutting"))
       ELSE UNCHANGED <<driver, initialized, cleanupFailed>>
    /\ cursor' = cursor - 1
    /\ UNCHANGED <<manager, initOrder>>

\* Fault: the loop does not end while a shutdown stands as failed.
FaultyAllShutDown ==
    /\ manager \in {"unwinding", "shutting"}
    /\ cursor = 0
    /\ ~cleanupFailed
    /\ manager' = IF manager = "unwinding" THEN "failed" ELSE "closed"
    /\ initOrder' = << >>
    /\ UNCHANGED <<initialized, cursor, cleanupFailed, driver>>

\* The loop is done; m_initializationOrder is cleared.
AllShutDown ==
    /\ manager \in {"unwinding", "shutting"}
    /\ cursor = 0
    /\ manager' = IF manager = "unwinding" THEN "failed" ELSE "closed"
    /\ initOrder' = << >>
    /\ UNCHANGED <<initialized, cursor, cleanupFailed, driver>>

InitializeStep == InstrumentInitialized \/ InstrumentInitFails \/ AllInitialized

ShutdownStep == ShutdownInstrument \/ AllShutDown
-----------------------------------------------------------------------------
ManagerTypeOK ==
    /\ manager \in ManagerCall
    /\ initialized \in [Instrument -> BOOLEAN]
    /\ initOrder \in Seq(Instrument)
    /\ cursor \in 0 .. NumInstruments + 1
    /\ cleanupFailed \in BOOLEAN
    /\ driver \in [Instrument -> DriverState]
=============================================================================
