------------------------ MODULE RegistrationPair_proofs ------------------------
(***************************************************************************)
(* Two profiles that publish and recover under one installations.json, for *)
(* any number of transactions, crashes and failed steps of each: a profile *)
(* that was integrated stays listed.                                       *)
(*                                                                         *)
(* The argument is one of rely and guarantee, made for one profile in      *)
(* RegistrationTransaction_proofs: its transaction keeps StaysListed and   *)
(* does not change whether another profile is listed (OthersStayListed);   *)
(* and a profile keeps StaysListed beside whoever does not change whether  *)
(* it is listed (StaysListedBeside).  It is instantiated here for each     *)
(* profile and composed.                                                   *)
(***************************************************************************)
EXTENDS RegistrationPair, TLAPS

-----------------------------------------------------------------------------
(***************************************************************************)
(* The results about one transaction, for each of the two.                 *)
(***************************************************************************)

T1 == INSTANCE RegistrationTransaction_proofs WITH
        Targets <- {First, Second}, Self <- First, catalog <- catalog1,
        candidate <- candidate1, backup <- backup1, config <- config1, journal <- journal1,
        cursor <- cursor1, archive <- archive1, pc <- pc1, caller <- caller1, token <- token1

T2 == INSTANCE RegistrationTransaction_proofs WITH
        Targets <- {First, Second}, Self <- Second, catalog <- catalog2,
        candidate <- candidate2, backup <- backup2, config <- config2, journal <- journal2,
        cursor <- cursor2, archive <- archive2, pc <- pc2, caller <- caller2, token <- token2

\* What is known of one transaction is known of the first profile's: the two
\* instances have the same definitions.
LEMMA Same1 == (P1!Init <=> T1!Init) /\ (P1!Next <=> T1!Next)
BY ZenonT(60) DEF
    P1!Init, T1!Init, P1!Next, T1!Next, P1!Integrate, T1!Integrate, P1!Step, T1!Step,
    P1!Recover, T1!Recover, P1!Publish, T1!Publish, P1!CallOff, T1!CallOff, P1!StepFails,
    T1!StepFails, P1!Crash, T1!Crash, P1!Throw, T1!Throw, P1!Leave, T1!Leave, P1!Goto, T1!Goto,
    P1!At, T1!At, P1!Requirement, T1!Requirement, P1!RecoverAccepts, T1!RecoverAccepts,
    P1!JournalValid, T1!JournalValid, P1!FilesKnown, T1!FilesKnown, P1!StateKnown,
    T1!StateKnown, P1!MappingKnown, T1!MappingKnown, P1!SelectionKnown, T1!SelectionKnown,
    P1!FilesAre, T1!FilesAre, P1!TreesOwned, T1!TreesOwned, P1!HadCatalog, T1!HadCatalog,
    P1!TopologyKnown, T1!TopologyKnown, P1!StepPossible, T1!StepPossible, P1!PackageOwned,
    T1!PackageOwned, P1!RecoverReturns, T1!RecoverReturns, P1!NothingPending, T1!NothingPending,
    P1!CloseOrphan, T1!CloseOrphan, P1!ArchiveCommitted, T1!ArchiveCommitted, P1!WasPromoted,
    T1!WasPromoted, P1!FirstStep, T1!FirstStep, P1!BeginRollback, T1!BeginRollback,
    P1!ResumeRollback, T1!ResumeRollback, P1!Unpromote, T1!Unpromote, P1!Restore, T1!Restore,
    P1!Advance, T1!Advance, P1!TreesBack, T1!TreesBack, P1!PutConfig, T1!PutConfig,
    P1!PutSelection, T1!PutSelection, P1!ArchiveRolledBack, T1!ArchiveRolledBack,
    P1!CloseCursor, T1!CloseCursor, P1!CopyCandidate, T1!CopyCandidate, P1!Published,
    T1!Published, P1!OnDisk, T1!OnDisk, P1!SaveJournal, T1!SaveJournal, P1!EnterPhase,
    T1!EnterPhase, P1!BackUp, T1!BackUp, P1!Promote, T1!Promote, P1!Commit, T1!Commit, P1!disk,
    T1!disk, P1!trees, T1!trees, P1!RecoverSteps, T1!RecoverSteps, P1!NoJournal, T1!NoJournal,
    P1!Blank, T1!Blank, P1!NoSelection, T1!NoSelection, P1!NoReceipt, T1!NoReceipt, P1!NoCursor,
    T1!NoCursor, P1!Candidate, T1!Candidate, P1!Pending, T1!Pending, P1!Backup, T1!Backup,
    P1!Absent, T1!Absent, P1!Foreign, T1!Foreign, P1!Tokens, T1!Tokens

\* The first profile begins, and goes on, listed if it was integrated.
LEMMA Keeps1 ==
    /\ P1!Init => T1!StaysListed
    /\ T1!StaysListed /\ P1!Next => T1!StaysListed'
<1> USE PythonAssumption, BoundAssumption, RevisionAssumption, TargetAssumption
    DEF P1!Absent, P1!Foreign, P1!NoReceipt, T1!Absent, T1!Foreign, T1!NoReceipt
<1>1. T1!Init => T1!StaysListed
  BY T1!StaysListedInit
<1>2. T1!StaysListed /\ T1!Next => T1!StaysListed'
  BY T1!StaysListedStep
<1> QED
  BY <1>1, <1>2, Same1

\* The first profile's steps leave the other one as it is in the list.
LEMMA Guarantee1 ==
    T1!StaysListed /\ P1!Next => (Second \in selection'.known <=> Second \in selection.known)
<1> USE PythonAssumption, BoundAssumption, RevisionAssumption, TargetAssumption
    DEF P1!Absent, P1!Foreign, P1!NoReceipt, T1!Absent, T1!Foreign, T1!NoReceipt
<1>1. T1!StaysListed /\ T1!Next =>
        \A o : o # First => (o \in selection'.known <=> o \in selection.known)
  BY T1!OthersStayListed
<1> QED
  BY <1>1, Same1, ProfileAssumption

\* The first profile keeps what it knows beside such steps of the other.
LEMMA Relies1 ==
    /\ T1!StaysListed
    /\ UNCHANGED own1
    /\ First \in selection'.known <=> First \in selection.known
    => T1!StaysListed'
<1> USE PythonAssumption, BoundAssumption, RevisionAssumption, TargetAssumption
    DEF P1!Absent, P1!Foreign, P1!NoReceipt, T1!Absent, T1!Foreign, T1!NoReceipt
<1>1. /\ T1!StaysListed
      /\ UNCHANGED <<journal1, cursor1, archive1, pc1>>
      /\ First \in selection'.known <=> First \in selection.known
      => T1!StaysListed'
  BY T1!StaysListedBeside
<1> QED
  BY <1>1 DEF own1

\* What is known of one transaction is known of the second profile's: the two
\* instances have the same definitions.
LEMMA Same2 == (P2!Init <=> T2!Init) /\ (P2!Next <=> T2!Next)
BY ZenonT(60) DEF
    P2!Init, T2!Init, P2!Next, T2!Next, P2!Integrate, T2!Integrate, P2!Step, T2!Step,
    P2!Recover, T2!Recover, P2!Publish, T2!Publish, P2!CallOff, T2!CallOff, P2!StepFails,
    T2!StepFails, P2!Crash, T2!Crash, P2!Throw, T2!Throw, P2!Leave, T2!Leave, P2!Goto, T2!Goto,
    P2!At, T2!At, P2!Requirement, T2!Requirement, P2!RecoverAccepts, T2!RecoverAccepts,
    P2!JournalValid, T2!JournalValid, P2!FilesKnown, T2!FilesKnown, P2!StateKnown,
    T2!StateKnown, P2!MappingKnown, T2!MappingKnown, P2!SelectionKnown, T2!SelectionKnown,
    P2!FilesAre, T2!FilesAre, P2!TreesOwned, T2!TreesOwned, P2!HadCatalog, T2!HadCatalog,
    P2!TopologyKnown, T2!TopologyKnown, P2!StepPossible, T2!StepPossible, P2!PackageOwned,
    T2!PackageOwned, P2!RecoverReturns, T2!RecoverReturns, P2!NothingPending, T2!NothingPending,
    P2!CloseOrphan, T2!CloseOrphan, P2!ArchiveCommitted, T2!ArchiveCommitted, P2!WasPromoted,
    T2!WasPromoted, P2!FirstStep, T2!FirstStep, P2!BeginRollback, T2!BeginRollback,
    P2!ResumeRollback, T2!ResumeRollback, P2!Unpromote, T2!Unpromote, P2!Restore, T2!Restore,
    P2!Advance, T2!Advance, P2!TreesBack, T2!TreesBack, P2!PutConfig, T2!PutConfig,
    P2!PutSelection, T2!PutSelection, P2!ArchiveRolledBack, T2!ArchiveRolledBack,
    P2!CloseCursor, T2!CloseCursor, P2!CopyCandidate, T2!CopyCandidate, P2!Published,
    T2!Published, P2!OnDisk, T2!OnDisk, P2!SaveJournal, T2!SaveJournal, P2!EnterPhase,
    T2!EnterPhase, P2!BackUp, T2!BackUp, P2!Promote, T2!Promote, P2!Commit, T2!Commit, P2!disk,
    T2!disk, P2!trees, T2!trees, P2!RecoverSteps, T2!RecoverSteps, P2!NoJournal, T2!NoJournal,
    P2!Blank, T2!Blank, P2!NoSelection, T2!NoSelection, P2!NoReceipt, T2!NoReceipt, P2!NoCursor,
    T2!NoCursor, P2!Candidate, T2!Candidate, P2!Pending, T2!Pending, P2!Backup, T2!Backup,
    P2!Absent, T2!Absent, P2!Foreign, T2!Foreign, P2!Tokens, T2!Tokens

\* The second profile begins, and goes on, listed if it was integrated.
LEMMA Keeps2 ==
    /\ P2!Init => T2!StaysListed
    /\ T2!StaysListed /\ P2!Next => T2!StaysListed'
<1> USE PythonAssumption, BoundAssumption, RevisionAssumption, TargetAssumption
    DEF P1!Absent, P1!Foreign, P1!NoReceipt, T2!Absent, T2!Foreign, T2!NoReceipt
<1>1. T2!Init => T2!StaysListed
  BY T2!StaysListedInit
<1>2. T2!StaysListed /\ T2!Next => T2!StaysListed'
  BY T2!StaysListedStep
<1> QED
  BY <1>1, <1>2, Same2

\* The second profile's steps leave the other one as it is in the list.
LEMMA Guarantee2 ==
    T2!StaysListed /\ P2!Next => (First \in selection'.known <=> First \in selection.known)
<1> USE PythonAssumption, BoundAssumption, RevisionAssumption, TargetAssumption
    DEF P1!Absent, P1!Foreign, P1!NoReceipt, T2!Absent, T2!Foreign, T2!NoReceipt
<1>1. T2!StaysListed /\ T2!Next =>
        \A o : o # Second => (o \in selection'.known <=> o \in selection.known)
  BY T2!OthersStayListed
<1> QED
  BY <1>1, Same2, ProfileAssumption

\* The second profile keeps what it knows beside such steps of the other.
LEMMA Relies2 ==
    /\ T2!StaysListed
    /\ UNCHANGED own2
    /\ Second \in selection'.known <=> Second \in selection.known
    => T2!StaysListed'
<1> USE PythonAssumption, BoundAssumption, RevisionAssumption, TargetAssumption
    DEF P1!Absent, P1!Foreign, P1!NoReceipt, T2!Absent, T2!Foreign, T2!NoReceipt
<1>1. /\ T2!StaysListed
      /\ UNCHANGED <<journal2, cursor2, archive2, pc2>>
      /\ Second \in selection'.known <=> Second \in selection.known
      => T2!StaysListed'
  BY T2!StaysListedBeside
<1> QED
  BY <1>1 DEF own2

-----------------------------------------------------------------------------
(***************************************************************************)
(* Both profiles together.                                                 *)
(***************************************************************************)

PairInv == T1!StaysListed /\ T2!StaysListed

\* Every step of either profile keeps both listed if they were integrated.
LEMMA PairStep == PairInv /\ [Next]_vars => PairInv'
<1> SUFFICES ASSUME PairInv, [Next]_vars PROVE PairInv'
  OBVIOUS
<1>1. CASE FirstActs
  BY <1>1, Keeps1, Guarantee1, Relies2 DEF FirstActs, PairInv
<1>2. CASE SecondActs
  BY <1>2, Keeps2, Guarantee2, Relies1 DEF SecondActs, PairInv
<1>3. CASE UNCHANGED vars
  BY <1>3, Relies1, Relies2 DEF vars, PairInv
<1> QED
  BY <1>1, <1>2, <1>3 DEF Next

\* A profile of which a transaction was committed stays in installations.json:
\* no rollback of the other profile writes back bytes from before that commit,
\* because checkRecord accepts no bytes but those of its own journal, and they
\* agree about the other profile (RegistrationStore.cpp:166-183, 229-279).
THEOREM IntegratedProfilesStayListed == Spec => []CommittedProfileKept
<1>1. Init => PairInv
  BY Keeps1, Keeps2 DEF Init, PairInv
<1>2. PairInv => CommittedProfileKept
  BY DEF PairInv, CommittedProfileKept, T1!StaysListed, T1!Integrated, T1!Listed, T1!Tokens,
         T2!StaysListed, T2!Integrated, T2!Listed, T2!Tokens, P1!Tokens, P2!Tokens
<1> QED
  BY <1>1, <1>2, PairStep, PTL DEF Spec
=============================================================================
