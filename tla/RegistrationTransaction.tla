----------------------- MODULE RegistrationTransaction -----------------------
(***************************************************************************)
(* Publication of a package into one installation profile (ARTestDev's     *)
(* Integrate): Registration::Transaction and the driver that calls it.     *)
(*                                                                         *)
(* One action per durable step: a rename, an atomic file replacement.      *)
(* Between any two of them the process may die, or the step may fail and   *)
(* the exception lead to recover().  What survives is on disk: the catalog *)
(* tree, the candidate and backup trees of every transaction, the two      *)
(* configuration files, the installations file all profiles share, the     *)
(* journal, the recovery cursor and the archived journals.                 *)
(***************************************************************************)
EXTENDS Integers, FiniteSets

CONSTANTS Targets,     \* names of installation profiles under one root
          Self,        \* the profile of this transaction
          Revisions,   \* package revisions offered for integration
          Python,      \* those of a Python project: they carry a receipt
          MaxTokens,   \* bound on the transactions staged
          MaxFaults    \* bound on the crashes and failed steps

ASSUME SelfAssumption == Self \in Targets
ASSUME PythonAssumption == Python \subseteq Revisions
ASSUME BoundAssumption == MaxTokens \in Nat /\ MaxFaults \in Nat

Absent == "absent"
Foreign == "foreign"         \* a catalog with packages of other owners only
NoReceipt == "no receipt"    \* a mapping file without this extension

ASSUME RevisionAssumption == Revisions \cap {Absent, Foreign, NoReceipt} = {}
ASSUME TargetAssumption == Absent \notin Targets

Tokens == 1 .. MaxTokens
Tree == Revisions \cup {Absent, Foreign}

\* installations.json: the profiles it lists and the selected one.
Selection == [known : SUBSET Targets, selected : Targets \cup {Absent}]
NoSelection == [known |-> {}, selected |-> Absent]

\* registrations.json and python-environments.json of the profile.
Config == [state : Revisions \cup {Absent},
           mapping : Revisions \cup {Absent, NoReceipt}]

\* What a journal remembers of each side of the publication.
Snapshot == [catalog : Tree, config : Config, selection : Selection]
Blank == [catalog |-> Absent, config |-> [state |-> Absent, mapping |-> Absent],
          selection |-> NoSelection]

Phase == {"none", "prepared", "backingUp", "promoting", "writingState",
          "writingProfile", "committed"}

Journal == [token : 0 .. MaxTokens, phase : Phase, previous : Snapshot, next : Snapshot]
NoJournal == [token |-> 0, phase |-> "none", previous |-> Blank, next |-> Blank]

\* The cursor names its journal by hash: by token and phase here.
Cursor == [token : 0 .. MaxTokens, phase : Phase,
           step : {"none", "unpromote", "restore", "files", "done"}]
NoCursor == [token |-> 0, phase |-> "none", step |-> "none"]

VARIABLES
    catalog,     \* the published catalog tree
    candidate,   \* .artest-candidate.<token>
    backup,      \* .artest-backup.<token>
    config,      \* the two files of the configuration folder
    selection,   \* installations.json, shared by the profiles of the root
    journal,     \* .artest-register-transaction.json
    cursor,      \* the same with .recovery
    archive,     \* phase of each archived journal: .committed or .rolled-back
    lock,        \* selectionLock_: the profile whose process holds it
    pc,          \* the step that process is about to take
    caller,      \* who called recover(): integrate, its catch block, commit
    token,       \* the last token drawn
    faults       \* crashes and failed steps so far

trees == <<catalog, candidate, backup>>
disk == <<trees, config, selection, journal, cursor, archive>>
control == <<lock, pc, caller>>
vars == <<disk, control, token, faults>>

RecoverSteps == {"recover", "rollback", "unpromoted", "restored", "restoreState",
                 "restoreMapping", "restoreSelection", "filesRestored", "archive", "archived"}

PublishSteps == {"stage", "staged", "prepared", "backingUp", "backedUp", "promoting",
                 "promoted", "writeState", "writeMapping", "installed", "writeSelection",
                 "selected"}

TypeOK ==
    /\ catalog \in Tree
    /\ candidate \in [Tokens -> Tree]
    /\ backup \in [Tokens -> Tree]
    /\ config \in Config
    /\ selection \in Selection
    /\ journal \in Journal
    /\ cursor \in Cursor
    /\ archive \in [Tokens -> Phase]
    /\ lock \in Targets \cup {Absent}
    /\ pc \in {"idle"} \cup RecoverSteps \cup PublishSteps
    /\ caller \in {"integrate", "catch", "commit"}
    /\ token \in 0 .. MaxTokens
    /\ faults \in 0 .. MaxFaults

Init ==
    /\ catalog \in {Absent, Foreign}
    /\ candidate = [t \in Tokens |-> Absent]
    /\ backup = [t \in Tokens |-> Absent]
    /\ config = Blank.config
    /\ selection \in {NoSelection} \cup
                     {[known |-> {o}, selected |-> o] : o \in Targets \ {Self}}
    /\ journal = NoJournal
    /\ cursor = NoCursor
    /\ archive = [t \in Tokens |-> "none"]
    /\ lock = Absent
    /\ pc = "idle"
    /\ caller = "integrate"
    /\ token = 0
    /\ faults = 0

-----------------------------------------------------------------------------
(***************************************************************************)
(* What the code requires of the disk before it goes on.                    *)
(***************************************************************************)

Pending == journal.phase # "none"
Candidate == IF Pending THEN candidate[journal.token] ELSE Absent
Backup == IF Pending THEN backup[journal.token] ELSE Absent
HadCatalog == journal.previous.catalog # Absent

\* Fault: installations.json is not compared with what the journal recorded.
FaultySelectionKnown == TRUE

\* checkRecord: a file is as it was or as the transaction writes it.
StateKnown == config.state \in {journal.previous.config.state, journal.next.config.state}
MappingKnown ==
    config.mapping \in {journal.previous.config.mapping, journal.next.config.mapping}
SelectionKnown == selection \in {journal.previous.selection, journal.next.selection}
FilesKnown == StateKnown /\ MappingKnown /\ SelectionKnown

FilesAre(side) == config = side.config /\ selection = side.selection

\* The trees a transaction owns hold what its journal recorded.
TreesOwned ==
    /\ Candidate \in {Absent, journal.next.catalog}
    /\ Backup # Absent => HadCatalog /\ Backup = journal.previous.catalog

\* Which of the three trees may exist in each phase: "next" and "old" are
\* equalities of inventories, which a repeated revision makes both true.
TopologyKnown ==
    LET A == catalog # Absent
        B == Backup # Absent
        C == Candidate # Absent
        old == A /\ HadCatalog /\ catalog = journal.previous.catalog
        next == A /\ catalog = journal.next.catalog
    IN \/ journal.phase = "prepared" /\ C /\ ~B /\ (IF HadCatalog THEN old ELSE ~A)
       \/ /\ journal.phase = "backingUp"
          /\ C
          /\ IF HadCatalog THEN (old /\ ~B) \/ (~A /\ B) ELSE ~A /\ ~B
       \/ journal.phase = "promoting" /\ C # next /\ HadCatalog = B /\ (A => next)
       \/ journal.phase \in {"writingState", "writingProfile"} /\ ~C /\ next /\ HadCatalog = B
       \/ /\ journal.phase = "committed"
          /\ ~C /\ next /\ (B => HadCatalog)
          /\ FilesAre(journal.next)

JournalValid == FilesKnown /\ TreesOwned /\ TopologyKnown

\* recover() goes past its first checks.
RecoverAccepts ==
    CASE ~Pending /\ cursor = NoCursor -> TRUE
      [] ~Pending /\ cursor # NoCursor ->
            /\ cursor.step = "done"
            /\ archive[cursor.token] = cursor.phase
            /\ cursor.phase # "committed"
      [] Pending /\ cursor = NoCursor -> JournalValid
      [] OTHER -> /\ cursor.token = journal.token
                  /\ cursor.phase = journal.phase
                  /\ FilesKnown
                  /\ TreesOwned

\* The step the cursor names can be taken, or was taken before a crash.
StepPossible ==
    CASE cursor.step = "unpromote" ->
            IF catalog # Absent THEN Candidate = Absent /\ catalog = journal.next.catalog
                                ELSE Candidate = journal.next.catalog
      [] cursor.step = "restore" ->
            IF ~HadCatalog THEN catalog = Absent
            ELSE IF Backup # Absent THEN catalog = Absent
            ELSE catalog = journal.previous.catalog
      [] OTHER ->
            Backup = Absent /\ catalog = journal.previous.catalog

\* stage: the active package is the one the registration state records.
PackageOwned ==
    IF catalog \in Revisions THEN config.state = catalog ELSE config.state = Absent

\* Every require() of the step the process is about to take.
Requirement ==
    CASE pc = "recover" -> RecoverAccepts
      [] pc = "rollback" -> StepPossible
      [] pc \in {"restoreState", "writeState"} -> StateKnown
      [] pc \in {"restoreMapping", "writeMapping"} -> MappingKnown
      [] pc \in {"restoreSelection", "writeSelection"} -> SelectionKnown
      [] pc = "archive" -> FilesAre(journal.previous)
      [] pc = "stage" -> PackageOwned
      [] pc \in {"prepared", "installed"} -> JournalValid
      [] pc = "backingUp" -> HadCatalog => Backup = Absent
      [] pc = "promoting" -> catalog = Absent
      [] OTHER -> TRUE

-----------------------------------------------------------------------------
(***************************************************************************)
(* Control: the calls of recover(), its return, and an exception.           *)
(***************************************************************************)

At(step) == pc = step /\ Requirement
Goto(step) == pc' = step /\ UNCHANGED <<lock, caller>>
Leave == pc' = "idle" /\ lock' = Absent /\ UNCHANGED caller

RecoverReturns == IF caller = "integrate" THEN Goto("stage") ELSE Leave

\* Fault: integrate's catch block does not recover.
FaultyThrow == Leave

\* An exception ends recover() in the catch block or in commit(); anywhere
\* else integrate catches it and calls recover().
Throw ==
    IF pc \in RecoverSteps /\ caller \in {"catch", "commit"}
    THEN Leave
    ELSE pc' = "recover" /\ caller' = "catch" /\ UNCHANGED lock

\* integrate: the transaction takes the locks and recovers first.
Integrate ==
    /\ pc = "idle"
    /\ lock = Absent
    /\ lock' = Self
    /\ pc' = "recover"
    /\ caller' = "integrate"
    /\ UNCHANGED <<disk, token, faults>>

-----------------------------------------------------------------------------
(***************************************************************************)
(* recover().                                                               *)
(***************************************************************************)

NothingPending ==
    /\ At("recover")
    /\ ~Pending /\ cursor = NoCursor
    /\ RecoverReturns
    /\ UNCHANGED <<disk, token, faults>>

\* The journal was archived, its cursor was not.
CloseOrphan ==
    /\ At("recover")
    /\ ~Pending /\ cursor # NoCursor
    /\ cursor' = NoCursor
    /\ RecoverReturns
    /\ UNCHANGED <<trees, config, selection, journal, archive, token, faults>>

\* Fault: the backup of a committed transaction is cleaned up.
FaultyArchiveCommitted ==
    /\ At("recover")
    /\ journal.phase = "committed" /\ cursor = NoCursor
    /\ archive' = [archive EXCEPT ![journal.token] = "committed"]
    /\ backup' = [backup EXCEPT ![journal.token] = Absent]
    /\ journal' = NoJournal
    /\ RecoverReturns
    /\ UNCHANGED <<catalog, candidate, config, selection, cursor, token, faults>>

ArchiveCommitted ==
    /\ At("recover")
    /\ journal.phase = "committed" /\ cursor = NoCursor
    /\ archive' = [archive EXCEPT ![journal.token] = "committed"]
    /\ journal' = NoJournal
    /\ RecoverReturns
    /\ UNCHANGED <<trees, config, selection, cursor, token, faults>>

WasPromoted ==
    \/ journal.phase \in {"writingState", "writingProfile"}
    \/ journal.phase = "promoting" /\ catalog # Absent /\ Candidate = Absent

\* Phase and topology decide what there is to undo.
FirstStep == IF WasPromoted THEN "unpromote" ELSE "restore"

BeginRollback ==
    /\ At("recover")
    /\ journal.phase \notin {"none", "committed"} /\ cursor = NoCursor
    /\ cursor' = [token |-> journal.token, phase |-> journal.phase, step |-> FirstStep]
    /\ Goto("rollback")
    /\ UNCHANGED <<trees, config, selection, journal, archive, token, faults>>

ResumeRollback ==
    /\ At("recover")
    /\ Pending /\ cursor # NoCursor
    /\ Goto("rollback")
    /\ UNCHANGED <<disk, token, faults>>

Unpromote ==
    /\ At("rollback")
    /\ cursor.step = "unpromote"
    /\ IF catalog = Absent THEN UNCHANGED trees
       ELSE /\ candidate' = [candidate EXCEPT ![journal.token] = catalog]
            /\ catalog' = Absent
            /\ UNCHANGED backup
    /\ Goto("unpromoted")
    /\ UNCHANGED <<config, selection, journal, cursor, archive, token, faults>>

Restore ==
    /\ At("rollback")
    /\ cursor.step = "restore"
    /\ IF Backup = Absent THEN UNCHANGED trees
       ELSE /\ catalog' = Backup
            /\ backup' = [backup EXCEPT ![journal.token] = Absent]
            /\ UNCHANGED candidate
    /\ Goto("restored")
    /\ UNCHANGED <<config, selection, journal, cursor, archive, token, faults>>

Advance(from, step, to) ==
    /\ At(from)
    /\ cursor' = [cursor EXCEPT !.step = step]
    /\ Goto(to)
    /\ UNCHANGED <<trees, config, selection, journal, archive, token, faults>>

\* The topology check of a rollback whose trees are back.
TreesBack ==
    /\ At("rollback")
    /\ cursor.step \in {"files", "done"}
    /\ Goto(IF cursor.step = "files" THEN "restoreState" ELSE "archive")
    /\ UNCHANGED <<disk, token, faults>>

\* Fault: registrations.json is written forward whichever side is asked for.
FaultyPutConfig(step, field, side, to) ==
    /\ At(step)
    /\ config' = [config EXCEPT ![field] = journal.next.config[field]]
    /\ Goto(to)
    /\ UNCHANGED <<trees, selection, journal, cursor, archive, token, faults>>

\* putRecord on registrations.json or python-environments.json, on the way
\* back (previous) or forward (next).
PutConfig(step, field, side, to) ==
    /\ At(step)
    /\ config' = [config EXCEPT ![field] = side.config[field]]
    /\ Goto(to)
    /\ UNCHANGED <<trees, selection, journal, cursor, archive, token, faults>>

PutSelection(step, side, to) ==
    /\ At(step)
    /\ selection' = side.selection
    /\ Goto(to)
    /\ UNCHANGED <<trees, config, journal, cursor, archive, token, faults>>

ArchiveRolledBack ==
    /\ At("archive")
    /\ archive' = [archive EXCEPT ![journal.token] = journal.phase]
    /\ journal' = NoJournal
    /\ Goto("archived")
    /\ UNCHANGED <<trees, config, selection, cursor, token, faults>>

CloseCursor ==
    /\ At("archived")
    /\ cursor' = NoCursor
    /\ RecoverReturns
    /\ UNCHANGED <<trees, config, selection, journal, archive, token, faults>>

Recover ==
    \/ NothingPending \/ CloseOrphan \/ ArchiveCommitted
    \/ BeginRollback \/ ResumeRollback
    \/ Unpromote \/ Advance("unpromoted", "restore", "rollback")
    \/ Restore \/ Advance("restored", "files", "rollback")
    \/ TreesBack
    \/ PutConfig("restoreState", "state", journal.previous, "restoreMapping")
    \/ PutConfig("restoreMapping", "mapping", journal.previous, "restoreSelection")
    \/ PutSelection("restoreSelection", journal.previous, "filesRestored")
    \/ Advance("filesRestored", "done", "archive")
    \/ ArchiveRolledBack \/ CloseCursor

-----------------------------------------------------------------------------
(***************************************************************************)
(* stage(), promote() and commit().                                         *)
(***************************************************************************)

\* The catalog is copied, the package replaced in the copy.  A crash here
\* leaves a candidate nobody refers to.
CopyCandidate(r) ==
    /\ At("stage")
    /\ token < MaxTokens
    /\ token' = token + 1
    /\ candidate' = [candidate EXCEPT ![token'] = r]
    /\ Goto("staged")
    /\ UNCHANGED <<catalog, backup, config, selection, journal, cursor, archive, faults>>

\* Fault: a C++ revision leaves the association of the Python one it replaces.
FaultyPublished(before, r) ==
    [catalog |-> r,
     config |-> [state |-> r, mapping |-> IF r \in Python THEN r ELSE before.config.mapping],
     selection |-> [known |-> before.selection.known \cup {Self}, selected |-> Self]]

\* What the candidate of revision r publishes over what is there.
Published(before, r) ==
    [catalog |-> r,
     config |-> [state |-> r, mapping |-> IF r \in Python THEN r ELSE NoReceipt],
     selection |-> [known |-> before.selection.known \cup {Self}, selected |-> Self]]

OnDisk == [catalog |-> catalog, config |-> config, selection |-> selection]

SaveJournal ==
    /\ At("staged")
    /\ journal' = [token |-> token, phase |-> "prepared", previous |-> OnDisk,
                   next |-> Published(OnDisk, candidate[token])]
    /\ Goto("prepared")
    /\ UNCHANGED <<trees, config, selection, cursor, archive, token, faults>>

EnterPhase(from, phase, to) ==
    /\ At(from)
    /\ journal' = [journal EXCEPT !.phase = phase]
    /\ Goto(to)
    /\ UNCHANGED <<trees, config, selection, cursor, archive, token, faults>>

BackUp ==
    /\ At("backingUp")
    /\ catalog' = Absent
    /\ backup' = [backup EXCEPT ![journal.token] = catalog]
    /\ Goto("backedUp")
    /\ UNCHANGED <<candidate, config, selection, journal, cursor, archive, token, faults>>

Promote ==
    /\ At("promoting")
    /\ catalog' = Candidate
    /\ candidate' = [candidate EXCEPT ![journal.token] = Absent]
    /\ Goto("promoted")
    /\ UNCHANGED <<backup, config, selection, journal, cursor, archive, token, faults>>

\* commit(): once the phase is durable, recover() archives the journal; what
\* fails from here on is reported beside the success.
Commit ==
    /\ At("selected")
    /\ journal' = [journal EXCEPT !.phase = "committed"]
    /\ pc' = "recover"
    /\ caller' = "commit"
    /\ UNCHANGED <<trees, config, selection, cursor, archive, lock, token, faults>>

Publish ==
    \/ \E r \in Revisions : CopyCandidate(r)
    \/ SaveJournal
    \/ EnterPhase("prepared", "backingUp", "backingUp")
    \/ BackUp
    \/ EnterPhase("backedUp", "promoting", "promoting")
    \/ Promote
    \/ EnterPhase("promoted", "writingState", "writeState")
    \/ PutConfig("writeState", "state", journal.next, "writeMapping")
    \/ PutConfig("writeMapping", "mapping", journal.next, "installed")
    \/ EnterPhase("installed", "writingProfile", "writeSelection")
    \/ PutSelection("writeSelection", journal.next, "selected")
    \/ Commit

-----------------------------------------------------------------------------
(***************************************************************************)
(* What goes wrong.                                                         *)
(***************************************************************************)

\* An exception leaves a step: a require() does not hold, or integrate gives
\* up because preparation, discovery or a checkpoint says no.
CallOff ==
    /\ pc # "idle"
    /\ ~Requirement \/ pc \in {"stage", "prepared", "installed"}
    /\ Throw
    /\ UNCHANGED <<disk, token, faults>>

\* A step fails without effect (permissions, a busy file) ...
StepFails ==
    /\ pc # "idle"
    /\ faults < MaxFaults
    /\ faults' = faults + 1
    /\ Throw
    /\ UNCHANGED <<disk, token>>

\* ... or the process is killed; the system closes its lock handles.
Crash ==
    /\ pc # "idle"
    /\ faults < MaxFaults
    /\ faults' = faults + 1
    /\ Leave
    /\ UNCHANGED <<disk, token>>

Step == Recover \/ Publish \/ CallOff

Next == Integrate \/ Step \/ StepFails \/ Crash

Spec == Init /\ [][Next]_vars

\* A process that runs goes on with its next step.
FairSpec == Spec /\ WF_vars(Step)

-----------------------------------------------------------------------------
(***************************************************************************)
(* Properties.                                                              *)
(***************************************************************************)

\* Whatever this tool itself left on disk, at whatever step it died, the next
\* recover() accepts it and can take the step its cursor names: recovery is
\* never left to an inspection by hand.
Recoverable == RecoverAccepts /\ (Pending /\ cursor # NoCursor => StepPossible)

\* No require() of a publication or of a recovery fails in a process that
\* alone writes these files: the refusals are for the files of others.
NeverRefused == pc # "idle" => Requirement

\* No tree is deleted: each step leaves every catalog content in at least as
\* many places as it found it (rollback renames, it does not remove).
Places(v) ==
    Cardinality({t \in Tokens : candidate[t] = v}) + Cardinality({t \in Tokens : backup[t] = v})
        + (IF catalog = v THEN 1 ELSE 0)

TreesOnlyMove == [][\A v \in Tree \ {Absent} : Places(v)' >= Places(v)]_vars

\* A journal that reached "committed" is archived as committed and never
\* rolled back, and a rolled-back one never turns committed.
CommittedStays ==
    [][\A t \in Tokens :
          /\ archive[t] # "none" => archive'[t] = archive[t]
          /\ journal.token = t /\ journal.phase = "committed" =>
                (journal' = journal \/ archive'[t] = "committed")]_vars

\* An attempt that meets no crash and no failed step leaves nothing pending,
\* whatever earlier attempts left.
AttemptSettles ==
    \A n \in 0 .. MaxFaults :
        (pc # "idle" /\ faults = n) ~> (faults > n \/ (~Pending /\ cursor = NoCursor))

\* What readers of the installation may rely on: the snapshot of before until
\* the journal is committed, then the new one, with nothing in between.
Registered == IF journal.phase \in {"none", "committed"} THEN OnDisk ELSE journal.previous

Atomic == INSTANCE AtomicRegistration WITH published <- Registered

\* Catalog, registration state, mapping and selection change together or not
\* at all, at the step that makes the phase "committed" durable.
AtomicSpec == Atomic!Spec
=============================================================================
