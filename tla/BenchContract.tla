--------------------------- MODULE BenchContract ---------------------------
(***************************************************************************)
(* What an execution session promises about the bench it drives, whatever  *)
(* fails inside it: commands act only while every instrument is up;        *)
(* instruments come up in order and go down in the reverse order; after an *)
(* effect that could not be confirmed nothing acts any more; and the       *)
(* session does not end with an instrument still up.                       *)
(***************************************************************************)
EXTENDS Integers

CONSTANT Instruments        \* numbered in power-up order

VARIABLES
    mode,       \* the life of the bench
    up,         \* the instruments that are up
    acting,     \* a command is acting on the bench
    lost        \* an effect could not be confirmed

benchVars == <<mode, up, acting, lost>>

Modes == {"idle", "preparing", "serving", "closing", "closed"}

Init ==
    /\ mode = "idle"
    /\ up = {}
    /\ acting = FALSE
    /\ lost = FALSE

Open == mode = "idle" /\ mode' = "preparing" /\ UNCHANGED <<up, acting, lost>>

\* The session could not even be started.
Refuse == mode = "idle" /\ mode' = "closed" /\ UNCHANGED <<up, acting, lost>>

PowerOn(i) ==
    /\ mode = "preparing"
    /\ up = {j \in Instruments : j < i}
    /\ up' = up \cup {i}
    /\ UNCHANGED <<mode, acting, lost>>

Serve ==
    /\ mode = "preparing"
    /\ up = Instruments
    /\ mode' = "serving"
    /\ UNCHANGED <<up, acting, lost>>

Act ==
    /\ mode = "serving"
    /\ ~acting
    /\ acting' = TRUE
    /\ UNCHANGED <<mode, up, lost>>

Rest ==
    /\ acting
    /\ acting' = FALSE
    /\ \/ UNCHANGED <<mode, lost>>
       \/ mode' = "closing" /\ lost' = TRUE
    /\ UNCHANGED up

GiveUp ==
    /\ mode \in {"preparing", "serving"}
    /\ ~acting
    /\ mode' = "closing"
    /\ UNCHANGED <<up, acting, lost>>

PowerOff(i) ==
    /\ mode = "closing"
    /\ \A j \in up : j <= i
    /\ up' = up \ {i}
    /\ UNCHANGED <<mode, acting, lost>>

Close ==
    /\ mode = "closing"
    /\ up = {}
    /\ mode' = "closed"
    /\ UNCHANGED <<up, acting, lost>>

Next ==
    \/ Open \/ Refuse \/ Serve \/ Act \/ Rest \/ GiveUp \/ Close
    \/ \E i \in Instruments : PowerOn(i)
    \/ \E i \in up : PowerOff(i)

Spec == Init /\ [][Next]_benchVars
-----------------------------------------------------------------------------
BenchTypeOK ==
    /\ mode \in Modes
    /\ up \subseteq Instruments
    /\ acting \in BOOLEAN
    /\ lost \in BOOLEAN

\* Nothing acts on a bench that is not fully up.
ActsOnPoweredBench == acting => mode = "serving" /\ up = Instruments

\* A closed bench is dark.
ClosedIsDark == mode = "closed" => up = {} /\ ~acting

\* Nothing acts any more after an effect was lost.
LossIsFinal == [][lost => ~acting']_benchVars

\* The instruments that are up are always the first ones: whatever fails on
\* the way up or down, no instrument is up without the ones before it.
PoweredInOrder == \A i, j \in Instruments : i \in up /\ j < i => j \in up
=============================================================================
