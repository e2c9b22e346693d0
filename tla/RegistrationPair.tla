--------------------------- MODULE RegistrationPair ---------------------------
(***************************************************************************)
(* Two installation profiles under one root.  Each has its own catalog,    *)
(* configuration folder, journal and cursor; installations.json and its    *)
(* lock are shared, and a journal keeps the bytes that file had.           *)
(***************************************************************************)
EXTENDS Integers

CONSTANTS First, Second, Revisions, Python, MaxTokens, MaxFaults

ASSUME ProfileAssumption == First # Second

VARIABLES
    catalog1, candidate1, backup1, config1, journal1, cursor1, archive1, pc1, caller1, token1,
    catalog2, candidate2, backup2, config2, journal2, cursor2, archive2, pc2, caller2, token2,
    selection, lock, faults

own1 == <<catalog1, candidate1, backup1, config1, journal1, cursor1, archive1, pc1, caller1,
          token1>>
own2 == <<catalog2, candidate2, backup2, config2, journal2, cursor2, archive2, pc2, caller2,
          token2>>
vars == <<own1, own2, selection, lock, faults>>

P1 == INSTANCE RegistrationTransaction WITH
        Targets <- {First, Second}, Self <- First, catalog <- catalog1,
        candidate <- candidate1, backup <- backup1, config <- config1, journal <- journal1,
        cursor <- cursor1, archive <- archive1, pc <- pc1, caller <- caller1, token <- token1

P2 == INSTANCE RegistrationTransaction WITH
        Targets <- {First, Second}, Self <- Second, catalog <- catalog2,
        candidate <- candidate2, backup <- backup2, config <- config2, journal <- journal2,
        cursor <- cursor2, archive <- archive2, pc <- pc2, caller <- caller2, token <- token2

\* What each instance assumes of the constants they share.
ASSUME PythonAssumption == Python \subseteq Revisions
ASSUME BoundAssumption == MaxTokens \in Nat /\ MaxFaults \in Nat
ASSUME RevisionAssumption == Revisions \cap {P1!Absent, P1!Foreign, P1!NoReceipt} = {}
ASSUME TargetAssumption == P1!Absent \notin {First, Second}

Init == P1!Init /\ P2!Init

FirstActs == P1!Next /\ UNCHANGED own2

SecondActs == P2!Next /\ UNCHANGED own1

Next == FirstActs \/ SecondActs

Spec == Init /\ [][Next]_vars

-----------------------------------------------------------------------------
\* A profile that was integrated stays in installations.json: no rollback of
\* the other profile writes back bytes from before that commit.
CommittedProfileKept ==
    /\ (\E t \in P1!Tokens : archive1[t] = "committed") => First \in selection.known
    /\ (\E t \in P2!Tokens : archive2[t] = "committed") => Second \in selection.known

-----------------------------------------------------------------------------
\* An interrupted transaction can be resumed by the next attempt: the guide
\* says so of every rename and restoration.
ResumesAfterOther == P1!Recoverable
=============================================================================
