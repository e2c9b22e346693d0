-------------------- MODULE RegistrationTransaction_proofs --------------------
(***************************************************************************)
(* For every set of profiles and revisions and any number of transactions, *)
(* crashes and failed steps: recovery is never refused, a publication is   *)
(* atomic, and no tree is deleted.                                         *)
(* The last section is about a profile beside others under the same root,  *)
(* for RegistrationPair_proofs.                                            *)
(***************************************************************************)
EXTENDS RegistrationTransaction, FiniteSetTheorems, TLAPS

-----------------------------------------------------------------------------
(***************************************************************************)
(* The inductive invariant.                                                *)
(***************************************************************************)

P == journal.previous
N == journal.next
Cand == candidate[journal.token]
Back == backup[journal.token]

\* A snapshot whose registration state names the package its catalog holds.
Sound(s) == IF s.catalog \in Revisions THEN s.config.state = s.catalog
                                       ELSE s.config.state = Absent

\* The directories of tokens not drawn yet do not exist.
FreshTokens ==
    \A t \in Tokens : t > token =>
        candidate[t] = Absent /\ backup[t] = Absent /\ archive[t] = "none"

\* A pending journal is of a token drawn and not archived, and what it is
\* about to publish is its candidate over what was there.
JournalSound ==
    IF Pending
    THEN /\ journal.token \in 1 .. token
         /\ archive[journal.token] = "none"
         /\ Sound(P)
         /\ N.catalog \in Revisions
         /\ N = Published(P, N.catalog)
    ELSE journal = NoJournal /\ Sound(OnDisk)

\* A tree that is being renamed from one place to another.
TwoPlaces(one, other, tree) ==
    (one = tree /\ other = Absent) \/ (one = Absent /\ other = tree)

TreesUp == Cand = Absent /\ catalog = N.catalog /\ Back = P.catalog

\* Where the trees and the files stand while the journal moves forward.
Forward ==
    \/ /\ journal.phase = "prepared"
       /\ Cand = N.catalog /\ catalog = P.catalog /\ Back = Absent
       /\ FilesAre(P)
    \/ /\ journal.phase = "backingUp"
       /\ Cand = N.catalog
       /\ TwoPlaces(catalog, Back, P.catalog)
       /\ FilesAre(P)
    \/ /\ journal.phase = "promoting"
       /\ Back = P.catalog
       /\ TwoPlaces(Cand, catalog, N.catalog)
       /\ FilesAre(P)
    \/ /\ journal.phase = "writingState"
       /\ TreesUp /\ StateKnown /\ MappingKnown /\ selection = P.selection
    \/ /\ journal.phase = "writingProfile"
       /\ TreesUp /\ config = N.config /\ SelectionKnown
    \/ /\ journal.phase = "committed"
       /\ TreesUp /\ FilesAre(N)

\* ... and while a cursor leads back.
Backward ==
    /\ cursor.token = journal.token
    /\ cursor.phase = journal.phase
    /\ journal.phase # "committed"
    /\ FilesKnown
    /\ \/ /\ cursor.step = "unpromote"
          /\ Back = P.catalog
          /\ TwoPlaces(Cand, catalog, N.catalog)
       \/ /\ cursor.step = "restore"
          /\ Cand = N.catalog
          /\ TwoPlaces(catalog, Back, P.catalog)
       \/ /\ cursor.step = "files"
          /\ Cand = N.catalog /\ catalog = P.catalog /\ Back = Absent
       \/ /\ cursor.step = "done"
          /\ Cand = N.catalog /\ catalog = P.catalog /\ Back = Absent
          /\ FilesAre(P)

CursorSound ==
    IF Pending
    THEN IF cursor = NoCursor THEN Forward ELSE Backward
    ELSE cursor # NoCursor =>
            /\ cursor.step = "done"
            /\ cursor.token \in Tokens
            /\ cursor.phase \notin {"none", "committed"}
            /\ archive[cursor.token] = cursor.phase

\* What a running process knows of the disk at each of its steps.
PublishKnows ==
    /\ pc = "stage" => ~Pending /\ cursor = NoCursor
    /\ pc = "staged" =>
          /\ ~Pending /\ cursor = NoCursor
          /\ token \in Tokens
          /\ candidate[token] \in Revisions
          /\ backup[token] = Absent /\ archive[token] = "none"
    /\ pc \in PublishSteps \ {"stage", "staged"} => Pending /\ cursor = NoCursor
    /\ pc = "prepared" => journal.phase = "prepared"
    /\ pc \in {"backingUp", "backedUp"} => journal.phase = "backingUp"
    /\ pc = "backingUp" => catalog = P.catalog /\ Back = Absent
    /\ pc = "backedUp" => catalog = Absent /\ Back = P.catalog
    /\ pc \in {"promoting", "promoted"} => journal.phase = "promoting"
    /\ pc = "promoting" => catalog = Absent /\ Cand = N.catalog
    /\ pc = "promoted" => TreesUp
    /\ pc \in {"writeState", "writeMapping", "installed"} => journal.phase = "writingState"
    /\ pc = "writeMapping" => config.state = N.config.state
    /\ pc = "installed" => config = N.config
    /\ pc \in {"writeSelection", "selected"} => journal.phase = "writingProfile"
    /\ pc = "selected" => selection = N.selection

RecoverKnows ==
    /\ pc \in RecoverSteps \ {"recover", "archived"} => Pending /\ cursor # NoCursor
    /\ pc = "unpromoted" => cursor.step = "unpromote" /\ catalog = Absent /\ Cand = N.catalog
    /\ pc = "restored" => cursor.step = "restore" /\ catalog = P.catalog /\ Back = Absent
    /\ pc \in {"restoreState", "restoreMapping", "restoreSelection", "filesRestored"} =>
          cursor.step = "files"
    /\ pc = "restoreMapping" => config.state = P.config.state
    /\ pc \in {"restoreSelection", "filesRestored"} => config = P.config
    /\ pc = "filesRestored" => selection = P.selection
    /\ pc = "archive" => cursor.step = "done"
    /\ pc = "archived" => ~Pending

IInv ==
    /\ FreshTokens
    /\ JournalSound
    /\ CursorSound
    /\ PublishKnows
    /\ RecoverKnows

-----------------------------------------------------------------------------
(***************************************************************************)
(* Types.                                                                   *)
(***************************************************************************)

\* An exception leads to a step of the process, or out of it.
LEMMA ThrowType ==
    ASSUME TypeOK, Throw
    PROVE  /\ lock' \in Targets \cup {Absent}
           /\ pc' \in {"idle"} \cup RecoverSteps \cup PublishSteps
           /\ caller' \in {"integrate", "catch", "commit"}
BY DEF TypeOK, Throw, Leave, RecoverSteps

\* So does the return of recover().
LEMMA ReturnType ==
    ASSUME TypeOK, RecoverReturns
    PROVE  /\ lock' \in Targets \cup {Absent}
           /\ pc' \in {"idle"} \cup RecoverSteps \cup PublishSteps
           /\ caller' \in {"integrate", "catch", "commit"}
BY DEF TypeOK, RecoverReturns, Goto, Leave, PublishSteps

\* What a missing file is read as has the type of the file.
LEMMA BlankTyped == Blank \in Snapshot /\ NoJournal \in Journal /\ NoCursor \in Cursor
BY BoundAssumption, SMT DEF Blank, Snapshot, NoJournal, Journal, NoCursor, Cursor, Config, Selection,
   NoSelection, Tree, Phase

\* A configuration is its two files.
LEMMA ConfigEqual ==
    ASSUME NEW c \in Config, NEW d \in Config, c.state = d.state, c.mapping = d.mapping
    PROVE  c = d
BY DEF Config

\* What is on disk and what is published over it are snapshots.
LEMMA SnapshotTyped ==
    ASSUME TypeOK
    PROVE  /\ OnDisk \in Snapshot
           /\ \A r \in Revisions : Published(OnDisk, r) \in Snapshot
<1>1. OnDisk \in Snapshot
  BY DEF TypeOK, OnDisk, Snapshot
<1>2. ASSUME NEW r \in Revisions
      PROVE  Published(OnDisk, r) \in Snapshot
  BY <1>1, SelfAssumption, SMT DEF TypeOK, OnDisk, Published, Snapshot, Config, Selection, Tree
<1> QED
  BY <1>1, <1>2

\* A pending journal names a transaction whose trees exist.
LEMMA PendingToken ==
    ASSUME TypeOK, JournalSound, Pending
    PROVE  /\ journal.token \in Tokens
           /\ Candidate = Cand /\ Backup = Back
           /\ Cand \in Tree /\ Back \in Tree
           /\ N.catalog \in Revisions /\ N.catalog # Absent
BY RevisionAssumption, BoundAssumption
   DEF TypeOK, JournalSound, Tokens, Candidate, Backup, Cand, Back, Journal

\* Every step stays in the types; staging is typed because what is staged is
\* a revision.
LEMMA TypeStep ==
    ASSUME TypeOK, JournalSound, PublishKnows, RecoverKnows, [Next]_vars
    PROVE  TypeOK'
<1> USE BoundAssumption DEF TypeOK, Goto, At
<1> DEFINE ControlTyped ==
        /\ lock \in Targets \cup {Absent}
        /\ pc \in {"idle"} \cup RecoverSteps \cup PublishSteps
        /\ caller \in {"integrate", "catch", "commit"}
<1> HIDE DEF ControlTyped
<1>1. CASE Integrate
  BY <1>1, SelfAssumption DEF Integrate, disk, trees, RecoverSteps
<1>2. ASSUME RecoverReturns PROVE ControlTyped'
  BY <1>2, ReturnType DEF ControlTyped
<1>3. ASSUME Throw PROVE ControlTyped'
  BY <1>3, ThrowType DEF ControlTyped
<1>4. CASE NothingPending
  BY <1>4, <1>2 DEF NothingPending, ControlTyped, disk, trees
<1>5. CASE CloseOrphan
  BY <1>5, <1>2, BlankTyped DEF CloseOrphan, ControlTyped, trees
<1>6. CASE ArchiveCommitted
  BY <1>6, <1>2, BlankTyped DEF ArchiveCommitted, ControlTyped, trees, Journal, Phase
<1>7. CASE BeginRollback
  <2>1. FirstStep \in {"none", "unpromote", "restore", "files", "done"}
    BY DEF FirstStep
  <2> QED
    BY <1>7, <2>1 DEF BeginRollback, trees, Cursor, Journal, RecoverSteps
<1>8. CASE ResumeRollback
  BY <1>8 DEF ResumeRollback, disk, trees, RecoverSteps
<1>9. CASE Unpromote
  BY <1>9, PendingToken DEF Unpromote, trees, RecoverSteps, Tree, RecoverKnows
<1>10. CASE Restore
  BY <1>10, PendingToken DEF Restore, trees, RecoverSteps, Tree, RecoverKnows
<1>11. ASSUME NEW from \in RecoverSteps, NEW step \in {"restore", "files", "done"},
              NEW to \in RecoverSteps, Advance(from, step, to)
       PROVE  TypeOK'
  BY <1>11 DEF Advance, trees, Cursor
<1>12. CASE TreesBack
  BY <1>12 DEF TreesBack, disk, trees, RecoverSteps
<1>13. ASSUME NEW from, NEW field \in {"state", "mapping"}, NEW side \in Snapshot,
              NEW to \in RecoverSteps \cup PublishSteps, PutConfig(from, field, side, to)
       PROVE  TypeOK'
  <2>1. config' \in Config
    BY <1>13 DEF PutConfig, Snapshot, Config
  <2> QED
    BY <1>13, <2>1 DEF PutConfig, trees
<1>14. ASSUME NEW from, NEW side \in Snapshot,
              NEW to \in RecoverSteps \cup PublishSteps, PutSelection(from, side, to)
       PROVE  TypeOK'
  BY <1>14 DEF PutSelection, trees, Snapshot
<1>15. CASE ArchiveRolledBack
  BY <1>15, BlankTyped DEF ArchiveRolledBack, trees, Journal, RecoverSteps
<1>16. CASE CloseCursor
  BY <1>16, <1>2, BlankTyped DEF CloseCursor, ControlTyped, trees
<1>17. ASSUME NEW r \in Revisions, CopyCandidate(r)
       PROVE  TypeOK'
  <2>1. token + 1 \in 0 .. MaxTokens
    BY <1>17 DEF CopyCandidate
  <2> QED
    BY <1>17, <2>1 DEF CopyCandidate, PublishSteps, Tree, Tokens
<1>18. CASE SaveJournal
  <2>1. candidate[token] \in Revisions
    BY <1>18 DEF SaveJournal, PublishKnows
  <2>2. journal' \in Journal
    BY <1>18, <2>1, SnapshotTyped DEF SaveJournal, Journal, Phase
  <2> QED
    BY <1>18, <2>2 DEF SaveJournal, trees, PublishSteps
<1>19. ASSUME NEW from, NEW phase \in Phase, NEW to \in PublishSteps,
              EnterPhase(from, phase, to)
       PROVE  TypeOK'
  <2>1. journal' \in Journal
    BY <1>19 DEF EnterPhase, Journal
  <2> QED
    BY <1>19, <2>1 DEF EnterPhase, trees
<1>20. CASE BackUp
  BY <1>20 DEF BackUp, PublishSteps, Tree
<1>21. CASE Promote
  BY <1>21, PendingToken DEF Promote, PublishSteps, PublishKnows, Tree
<1>22. CASE Commit
  <2>1. journal' \in Journal
    BY <1>22 DEF Commit, Journal, Phase
  <2> QED
    BY <1>22, <2>1 DEF Commit, trees, RecoverSteps
<1>23. CASE CallOff
  BY <1>23, <1>3 DEF CallOff, ControlTyped, disk, trees
<1>24. CASE StepFails
  BY <1>24, <1>3 DEF StepFails, ControlTyped, disk, trees
<1>25. CASE Crash
  BY <1>25 DEF Crash, Leave, disk, trees
<1>26. CASE UNCHANGED vars
  BY <1>26 DEF vars, disk, trees, control
<1>27. journal.previous \in Snapshot /\ journal.next \in Snapshot
  BY DEF Journal
<1>28. CASE Recover
  BY <1>28, <1>4, <1>5, <1>6, <1>7, <1>8, <1>9, <1>10, <1>11, <1>12, <1>13, <1>14, <1>15,
     <1>16, <1>27 DEF Recover, RecoverSteps
<1>29. CASE Publish
  BY <1>29, <1>13, <1>14, <1>17, <1>18, <1>19, <1>20, <1>21, <1>22, <1>27
     DEF Publish, PublishSteps, Phase
<1> QED
  BY <1>1, <1>23, <1>24, <1>25, <1>26, <1>28, <1>29 DEF Next, Step

-----------------------------------------------------------------------------
(***************************************************************************)
(* The invariant is inductive.                                              *)
(***************************************************************************)

\* A profile never integrated, and nothing pending.
LEMMA InitInv == Init => TypeOK /\ IInv
<1> SUFFICES ASSUME Init PROVE TypeOK /\ IInv
  OBVIOUS
<1>1. TypeOK
  BY BlankTyped, BoundAssumption DEF Init, TypeOK, Snapshot, Tree, Selection, NoSelection, Phase
<1>2. IInv
  BY RevisionAssumption, BoundAssumption
     DEF Init, IInv, FreshTokens, JournalSound, CursorSound, PublishKnows, RecoverKnows, Pending,
         NoJournal, NoCursor, OnDisk, Sound, PublishSteps, RecoverSteps, Blank, NoSelection, Tokens
<1> QED
  BY <1>1, <1>2

\* A process that stops or goes back to recover() knows nothing: what it knew
\* is no part of what the disk holds.
LEMMA ForgetStep ==
    ASSUME TypeOK, IInv, UNCHANGED <<disk, token>>, pc' \in {"idle", "recover"}
    PROVE  IInv'
BY DEF TypeOK, IInv, FreshTokens, JournalSound, CursorSound, PublishKnows, RecoverKnows, Pending,
       disk, trees, OnDisk, Sound, PublishSteps, RecoverSteps, Forward, Backward, Cand, Back, P, N,
       TreesUp, FilesAre, StateKnown, MappingKnown, SelectionKnown, FilesKnown

\* recover() returns to stage() or to nobody, with nothing pending.
LEMMA SettledStep ==
    ASSUME TypeOK, IInv, RecoverReturns, UNCHANGED <<trees, config, selection, token>>,
           journal' = NoJournal, cursor' = NoCursor,
           Sound(OnDisk),
           \A t \in Tokens : t > token => archive'[t] = "none"
    PROVE  IInv'
BY DEF TypeOK, IInv, FreshTokens, JournalSound, CursorSound, PublishKnows, RecoverKnows, Pending,
       trees, OnDisk, Sound, PublishSteps, RecoverSteps, RecoverReturns, Goto, Leave, NoJournal

\* Each step of recover() leads from one place of the invariant to another.
LEMMA RecoverStep ==
    ASSUME TypeOK, TypeOK', IInv, Recover
    PROVE  IInv'
<1> USE DEF IInv, At, Goto
<1>1. CASE NothingPending
  BY <1>1, SettledStep DEF NothingPending, JournalSound, disk, trees, FreshTokens
<1>2. CASE CloseOrphan
  BY <1>2, SettledStep DEF CloseOrphan, JournalSound, FreshTokens
<1>3. CASE ArchiveCommitted
  <2>1. Pending
    BY <1>3 DEF ArchiveCommitted, Pending
  <2>2. journal.token \in 1 .. token /\ Sound(OnDisk)
    BY <1>3, <2>1, RevisionAssumption
       DEF ArchiveCommitted, JournalSound, CursorSound, Forward, TreesUp, FilesAre, N, P,
           Published, OnDisk, Sound
  <2>3. \A t \in Tokens : t > token => archive'[t] = "none"
    BY <1>3, <2>2 DEF ArchiveCommitted, FreshTokens, TypeOK, Tokens
  <2> QED
    BY <1>3, <2>2, <2>3, SettledStep DEF ArchiveCommitted
<1>4. CASE BeginRollback
  <2>1. Pending /\ Pending' /\ cursor' # NoCursor /\ cursor = NoCursor
    BY <1>4 DEF BeginRollback, Pending, FirstStep, NoCursor
  <2>2. Forward
    BY <2>1 DEF CursorSound
  <2>3. Backward'
    BY <1>4, <2>1, <2>2, PendingToken
       DEF BeginRollback, Forward, Backward, FirstStep, WasPromoted, TwoPlaces, TreesUp, trees,
           FilesAre, FilesKnown, StateKnown, MappingKnown, SelectionKnown, Cand, Back, P, N
  <2> QED
    BY <1>4, <2>1, <2>3
       DEF BeginRollback, trees, FreshTokens, JournalSound, CursorSound, PublishKnows, RecoverKnows,
           PublishSteps, RecoverSteps, P, N, Cand, Back
<1>5. CASE ResumeRollback
  BY <1>5 DEF ResumeRollback, disk, trees, FreshTokens, JournalSound, CursorSound, PublishKnows,
          RecoverKnows, PublishSteps, RecoverSteps, P, N, Cand, Back, Backward, Forward, OnDisk,
          Pending, FilesAre, FilesKnown, StateKnown, MappingKnown, SelectionKnown
<1> USE DEF PublishKnows, RecoverKnows, PublishSteps, RecoverSteps
<1>6. CASE Unpromote
  <2>1. Pending /\ cursor # NoCursor /\ Pending' /\ journal' = journal /\ cursor' = cursor
    BY <1>6 DEF Unpromote, Pending
  <2>2. Backward /\ journal.token \in Tokens /\ journal.token <= token
    BY <2>1, PendingToken DEF CursorSound, JournalSound, TypeOK, Journal
  <2>3. Backward' /\ catalog' = Absent /\ Cand' = N.catalog
    BY <1>6, <2>1, <2>2, PendingToken
       DEF Unpromote, Backward, TwoPlaces, trees, Cand, Back, P, N, TypeOK,
           FilesKnown, StateKnown, MappingKnown, SelectionKnown, FilesAre
  <2>4. FreshTokens' /\ JournalSound'
    BY <1>6, <2>1, <2>2 DEF Unpromote, trees, FreshTokens, JournalSound, P, N, TypeOK
  <2> QED
    BY <1>6, <2>1, <2>3, <2>4 DEF Unpromote, CursorSound, N, Cand
<1>7. CASE Restore
  <2>1. Pending /\ cursor # NoCursor /\ Pending' /\ journal' = journal /\ cursor' = cursor
    BY <1>7 DEF Restore, Pending
  <2>2. Backward /\ journal.token \in Tokens /\ journal.token <= token
    BY <2>1, PendingToken DEF CursorSound, JournalSound, TypeOK, Journal
  <2>3. Backward' /\ catalog' = P.catalog /\ Back' = Absent
    BY <1>7, <2>1, <2>2, PendingToken
       DEF Restore, Backward, TwoPlaces, trees, Cand, Back, P, N, TypeOK,
           FilesKnown, StateKnown, MappingKnown, SelectionKnown, FilesAre
  <2>4. FreshTokens' /\ JournalSound'
    BY <1>7, <2>1, <2>2 DEF Restore, trees, FreshTokens, JournalSound, P, N, TypeOK
  <2> QED
    BY <1>7, <2>1, <2>3, <2>4 DEF Restore, CursorSound, P, Back
<1>8. ASSUME NEW from \in {"unpromoted", "restored", "filesRestored"},
             NEW step \in {"restore", "files", "done"},
             NEW to \in {"rollback", "archive"},
             Advance(from, step, to),
             to = "archive" => step = "done",
             \/ from = "unpromoted" /\ step = "restore"
             \/ from = "restored" /\ step = "files"
             \/ from = "filesRestored" /\ step = "done"
      PROVE  IInv'
  <2>1. Pending /\ cursor # NoCursor /\ Pending' /\ journal' = journal
    BY <1>8 DEF Advance, Pending
  <2>2. Backward
    BY <2>1 DEF CursorSound
  <2>3. cursor' = [cursor EXCEPT !.step = step] /\ cursor'.step = step
    BY <1>8 DEF Advance, TypeOK, Cursor
  <2>4. cursor'.token = cursor.token /\ cursor'.phase = cursor.phase /\ cursor' # NoCursor
    BY <2>3 DEF TypeOK, Cursor, NoCursor
  <2>5. Backward'
    BY <1>8, <2>1, <2>2, <2>3, <2>4, PendingToken
       DEF Advance, Backward, TwoPlaces, trees, Cand, Back, P, N,
           FilesKnown, StateKnown, MappingKnown, SelectionKnown, FilesAre
  <2>6. FreshTokens' /\ JournalSound'
    BY <1>8, <2>1 DEF Advance, trees, FreshTokens, JournalSound, P, N
  <2> QED
    BY <1>8, <2>1, <2>3, <2>4, <2>5, <2>6 DEF Advance, CursorSound
<1>9. CASE TreesBack
  BY <1>9 DEF TreesBack, disk, trees, FreshTokens, JournalSound, CursorSound,
          P, N, Cand, Back, Backward, Forward, OnDisk, TreesUp,
          Pending, FilesAre, FilesKnown, StateKnown, MappingKnown, SelectionKnown
<1>10. CASE PutConfig("restoreState", "state", journal.previous, "restoreMapping")
  <2>1. Pending /\ cursor # NoCursor /\ Pending' /\ UNCHANGED <<journal, cursor>>
    BY <1>10 DEF PutConfig, Pending
  <2>2. Backward /\ cursor.step = "files"
    BY <1>10, <2>1 DEF CursorSound, PutConfig
  <2>3. config' = [config EXCEPT !["state"] = P.config.state]
    BY <1>10 DEF PutConfig, P
  <2>4. config'.state = P.config.state /\ config'.mapping = config.mapping
    BY <2>3 DEF TypeOK, Config
  <2>5. Backward'
    BY <1>10, <2>1, <2>2, <2>4
       DEF PutConfig, Backward, trees, Cand, Back, P, N,
           FilesKnown, StateKnown, MappingKnown, SelectionKnown
  <2>6. FreshTokens' /\ JournalSound'
    BY <1>10, <2>1 DEF PutConfig, trees, FreshTokens, JournalSound, P, N
  <2> QED
    BY <1>10, <2>1, <2>2, <2>4, <2>5, <2>6 DEF PutConfig, CursorSound, P
<1>11. CASE PutConfig("restoreMapping", "mapping", journal.previous, "restoreSelection")
  <2>1. Pending /\ cursor # NoCursor /\ Pending' /\ UNCHANGED <<journal, cursor>>
    BY <1>11 DEF PutConfig, Pending
  <2>2. Backward /\ cursor.step = "files" /\ config.state = P.config.state
    BY <1>11, <2>1 DEF CursorSound, PutConfig
  <2>3. config' = [config EXCEPT !["mapping"] = P.config.mapping]
    BY <1>11 DEF PutConfig, P
  <2>4. config' = P.config
    <3>1. config \in Config /\ P.config \in Config
      BY DEF TypeOK, P, Journal, Snapshot
    <3>2. config' \in Config /\ config'.state = P.config.state
                             /\ config'.mapping = P.config.mapping
      BY <2>2, <2>3, <3>1 DEF Config, TypeOK
    <3> QED
      BY <3>1, <3>2, ConfigEqual
  <2>5. Backward'
    BY <1>11, <2>1, <2>2, <2>4
       DEF PutConfig, Backward, trees, Cand, Back, P, N,
           FilesKnown, StateKnown, MappingKnown, SelectionKnown
  <2>6. FreshTokens' /\ JournalSound'
    BY <1>11, <2>1 DEF PutConfig, trees, FreshTokens, JournalSound, P, N
  <2> QED
    BY <1>11, <2>1, <2>2, <2>4, <2>5, <2>6 DEF PutConfig, CursorSound, P
<1>12. CASE PutSelection("restoreSelection", journal.previous, "filesRestored")
  <2>1. Pending /\ cursor # NoCursor /\ Pending' /\ UNCHANGED <<journal, cursor>>
    BY <1>12 DEF PutSelection, Pending
  <2>2. Backward /\ cursor.step = "files" /\ config = P.config
    BY <1>12, <2>1 DEF CursorSound, PutSelection
  <2>3. Backward'
    BY <1>12, <2>1, <2>2
       DEF PutSelection, Backward, trees, Cand, Back, P, N,
           FilesKnown, StateKnown, MappingKnown, SelectionKnown
  <2>4. FreshTokens' /\ JournalSound'
    BY <1>12, <2>1 DEF PutSelection, trees, FreshTokens, JournalSound, P, N
  <2> QED
    BY <1>12, <2>1, <2>2, <2>3, <2>4 DEF PutSelection, CursorSound, P
<1>13. CASE ArchiveRolledBack
  <2>1. Pending /\ cursor # NoCursor /\ journal' = NoJournal /\ ~Pending'
    BY <1>13 DEF ArchiveRolledBack, Pending, NoJournal
  <2>2. Backward /\ cursor.step = "done" /\ journal.token \in 1 .. token
    BY <1>13, <2>1 DEF CursorSound, ArchiveRolledBack, JournalSound
  <2>3. Sound(OnDisk)
    BY <2>1, <2>2 DEF JournalSound, Backward, FilesAre, Sound, OnDisk, P
  <2>4. journal.token \in Tokens
    BY <2>1, PendingToken
  <2>5. FreshTokens'
    BY <1>13, <2>2, <2>4 DEF ArchiveRolledBack, trees, FreshTokens, TypeOK, Tokens
  <2>6. archive'[cursor.token] = cursor.phase
    BY <1>13, <2>2, <2>4 DEF ArchiveRolledBack, Backward, TypeOK
  <2>7. cursor.phase \notin {"none", "committed"}
    BY <2>1, <2>2 DEF Backward, Pending
  <2> QED
    BY <1>13, <2>1, <2>2, <2>3, <2>4, <2>5, <2>6, <2>7
       DEF ArchiveRolledBack, trees, CursorSound, JournalSound, OnDisk, Sound, Backward
<1>14. CASE CloseCursor
  BY <1>14, SettledStep DEF CloseCursor, JournalSound, FreshTokens
<1> QED
  BY <1>1, <1>2, <1>3, <1>4, <1>5, <1>6, <1>7, <1>8, <1>9, <1>10, <1>11, <1>12, <1>13, <1>14
     DEF Recover

\* ... and so does each step of stage(), promote() and commit().
LEMMA PublishStep ==
    ASSUME TypeOK, TypeOK', IInv, Publish
    PROVE  IInv'
<1> USE DEF IInv, At, Goto, PublishKnows, RecoverKnows, PublishSteps, RecoverSteps
<1>1. ASSUME NEW r \in Revisions, CopyCandidate(r)
      PROVE  IInv'
  <2>1. token' = token + 1 /\ token' \in Tokens /\ token' \in Nat /\ token \in Nat
    BY <1>1, BoundAssumption DEF CopyCandidate, TypeOK, Tokens
  <2>2. /\ candidate'[token'] = r
        /\ \A t \in Tokens : t # token' => candidate'[t] = candidate[t]
    BY <1>1, <2>1 DEF CopyCandidate, TypeOK
  <2>3. FreshTokens'
    BY <1>1, <2>1, <2>2 DEF CopyCandidate, FreshTokens, Tokens
  <2>4. backup'[token'] = Absent /\ archive'[token'] = "none"
    BY <1>1, <2>1 DEF CopyCandidate, FreshTokens
  <2> QED
    BY <1>1, <2>1, <2>2, <2>3, <2>4
       DEF CopyCandidate, JournalSound, CursorSound, Pending, OnDisk, Sound
<1>2. CASE SaveJournal
  <2> DEFINE r == candidate[token]
  <2>1. ~Pending /\ cursor = NoCursor /\ cursor' = NoCursor /\ r \in Revisions /\ token \in Tokens
    BY <1>2 DEF SaveJournal
  <2>2. /\ journal'.token = token /\ journal'.phase = "prepared"
        /\ P' = OnDisk /\ N' = Published(OnDisk, r)
    BY <1>2 DEF SaveJournal, P, N
  <2>3. N.catalog' = r /\ Pending'
    BY <2>2 DEF Published, Pending
  <2>4. JournalSound'
    BY <1>2, <2>1, <2>2, <2>3 DEF SaveJournal, JournalSound, TypeOK, Tokens, trees
  <2>5. Forward'
    BY <1>2, <2>1, <2>2, <2>3 DEF SaveJournal, Forward, trees, Cand, Back, FilesAre, OnDisk
  <2> QED
    BY <1>2, <2>1, <2>2, <2>3, <2>4, <2>5
       DEF SaveJournal, FreshTokens, CursorSound, trees
<1>3. ASSUME NEW from \in PublishSteps, NEW phase \in Phase, NEW to \in PublishSteps,
             EnterPhase(from, phase, to),
             \/ from = "prepared" /\ phase = "backingUp" /\ to = "backingUp"
             \/ from = "backedUp" /\ phase = "promoting" /\ to = "promoting"
             \/ from = "promoted" /\ phase = "writingState" /\ to = "writeState"
             \/ from = "installed" /\ phase = "writingProfile" /\ to = "writeSelection"
      PROVE  IInv'
  <2>1. Pending /\ cursor = NoCursor /\ cursor' = NoCursor /\ UNCHANGED <<trees, config, selection, archive, token>>
    BY <1>3 DEF EnterPhase
  <2>2. /\ journal'.token = journal.token /\ journal'.phase = phase
        /\ P' = P /\ N' = N
    BY <1>3 DEF EnterPhase, P, N, TypeOK, Journal
  <2>3. JournalSound' /\ FreshTokens' /\ Pending'
    BY <1>3, <2>1, <2>2 DEF JournalSound, FreshTokens, Pending, trees
  <2>4. Forward
    BY <2>1 DEF CursorSound
  <2>5. Forward'
    BY <1>3, <2>1, <2>2, <2>4, PendingToken
       DEF EnterPhase, Forward, TwoPlaces, TreesUp, trees, Cand, Back, FilesAre, StateKnown,
           MappingKnown, SelectionKnown, P, N
  <2> QED
    BY <1>3, <2>1, <2>2, <2>3, <2>4, <2>5, PendingToken
       DEF EnterPhase, CursorSound, Forward, TreesUp, TwoPlaces, trees, Cand, Back
<1>4. CASE BackUp
  <2>1. /\ Pending /\ Pending' /\ cursor = NoCursor /\ cursor' = NoCursor /\ journal' = journal
        /\ journal.token \in Tokens /\ journal.token <= token /\ UNCHANGED <<config, selection, archive, token>>
    BY <1>4, PendingToken DEF BackUp, Pending, JournalSound, TypeOK, Journal
  <2>2. catalog' = Absent /\ Back' = P.catalog /\ UNCHANGED candidate
    BY <1>4, <2>1 DEF BackUp, Back, TypeOK
  <2>3. Forward'
    BY <1>4, <2>1, <2>2 DEF Forward, CursorSound, BackUp, TwoPlaces, Cand, P, N, FilesAre
  <2>4. FreshTokens' /\ JournalSound'
    BY <1>4, <2>1 DEF BackUp, FreshTokens, JournalSound, P, N, TypeOK
  <2> QED
    BY <1>4, <2>1, <2>2, <2>3, <2>4 DEF BackUp, CursorSound, P
<1>5. CASE Promote
  <2>1. /\ Pending /\ Pending' /\ cursor = NoCursor /\ cursor' = NoCursor /\ journal' = journal
        /\ journal.token \in Tokens /\ journal.token <= token /\ UNCHANGED <<config, selection, archive, token>>
    BY <1>5, PendingToken DEF Promote, Pending, JournalSound, TypeOK, Journal
  <2>2. catalog' = N.catalog /\ Cand' = Absent /\ UNCHANGED backup
    BY <1>5, <2>1, PendingToken DEF Promote, Cand, TypeOK
  <2>3. Forward'
    BY <1>5, <2>1, <2>2 DEF Forward, CursorSound, Promote, TwoPlaces, Back, P, N, FilesAre
  <2>4. Back = P.catalog
    BY <1>5, <2>1 DEF Promote, CursorSound, Forward
  <2>5. FreshTokens' /\ JournalSound'
    BY <1>5, <2>1 DEF Promote, FreshTokens, JournalSound, P, N, TypeOK
  <2> QED
    BY <1>5, <2>1, <2>2, <2>3, <2>4, <2>5 DEF Promote, CursorSound, P, N, Back, TreesUp
<1>6. ASSUME NEW from, NEW field \in {"state", "mapping"}, NEW to \in PublishSteps,
             PutConfig(from, field, journal.next, to),
             \/ from = "writeState" /\ field = "state" /\ to = "writeMapping"
             \/ from = "writeMapping" /\ field = "mapping" /\ to = "installed"
      PROVE  IInv'
  <2>1. /\ Pending /\ Pending' /\ cursor = NoCursor /\ cursor' = NoCursor /\ journal' = journal
        /\ UNCHANGED <<trees, selection, archive, token>> /\ journal.phase = "writingState"
    BY <1>6 DEF PutConfig, Pending
  <2>2. TreesUp /\ StateKnown /\ MappingKnown /\ selection = P.selection
    BY <2>1 DEF CursorSound, Forward
  <2>3. config' = [config EXCEPT ![field] = N.config[field]]
    BY <1>6 DEF PutConfig, N
  <2>4. config \in Config /\ config' \in Config /\ N.config \in Config
    BY DEF TypeOK, N, Journal, Snapshot
  <2>5. StateKnown' /\ MappingKnown'
    BY <1>6, <2>1, <2>2, <2>3, <2>4 DEF StateKnown, MappingKnown, Config, N
  <2>6. to = "writeMapping" => config'.state = N.config.state
    BY <1>6, <2>3, <2>4 DEF Config
  <2>7. to = "installed" => config'.state = N.config.state /\ config'.mapping = N.config.mapping
    BY <1>6, <2>3, <2>4 DEF Config, PutConfig
  <2>8. to = "installed" => config' = N.config
    BY <2>4, <2>7, ConfigEqual
  <2>9. FreshTokens' /\ JournalSound'
    BY <2>1 DEF FreshTokens, JournalSound, P, N, trees
  <2>10. Forward'
    BY <2>1, <2>2, <2>5 DEF Forward, TreesUp, trees, Cand, Back, P, N
  <2> QED
    BY <1>6, <2>1, <2>6, <2>8, <2>9, <2>10 DEF PutConfig, CursorSound, N
<1>7. CASE PutSelection("writeSelection", journal.next, "selected")
  <2>1. /\ Pending /\ Pending' /\ cursor = NoCursor /\ cursor' = NoCursor /\ journal' = journal
        /\ UNCHANGED <<trees, config, archive, token>> /\ journal.phase = "writingProfile"
    BY <1>7 DEF PutSelection, Pending
  <2>2. Forward' /\ selection' = N.selection
    BY <1>7, <2>1 DEF Forward, CursorSound, PutSelection, TreesUp, SelectionKnown, trees, Cand,
                      Back, P, N
  <2>3. FreshTokens' /\ JournalSound'
    BY <2>1 DEF FreshTokens, JournalSound, P, N, trees
  <2> QED
    BY <1>7, <2>1, <2>2, <2>3 DEF PutSelection, CursorSound, N
<1>8. CASE Commit
  <2>1. /\ Pending /\ cursor = NoCursor /\ cursor' = NoCursor
        /\ UNCHANGED <<trees, config, selection, archive, token>> /\ journal.phase = "writingProfile"
    BY <1>8 DEF Commit
  <2>2. /\ journal'.token = journal.token /\ journal'.phase = "committed"
        /\ P' = P /\ N' = N
    BY <1>8 DEF Commit, P, N, TypeOK, Journal
  <2>3. JournalSound' /\ FreshTokens' /\ Pending'
    BY <1>8, <2>1, <2>2 DEF JournalSound, FreshTokens, Pending, trees
  <2>4. Forward'
    BY <1>8, <2>1, <2>2 DEF Commit, Forward, CursorSound, TreesUp, trees, Cand, Back, FilesAre
  <2> QED
    BY <1>8, <2>1, <2>2, <2>3, <2>4 DEF Commit, CursorSound
<1> QED
  BY <1>1, <1>2, <1>3, <1>4, <1>5, <1>6, <1>7, <1>8 DEF Publish, Phase

\* Every step preserves the invariant, those that go wrong included.
LEMMA InvStep ==
    ASSUME TypeOK, IInv, [Next]_vars
    PROVE  TypeOK' /\ IInv'
<1>1. TypeOK'
  BY TypeStep DEF IInv
<1>2. CASE Recover
  BY <1>1, <1>2, RecoverStep
<1>3. CASE Publish
  BY <1>1, <1>3, PublishStep
<1>4. CASE Integrate \/ CallOff \/ StepFails \/ Crash
  BY <1>1, <1>4, ForgetStep DEF Integrate, CallOff, StepFails, Crash, Throw, Leave
<1>5. CASE UNCHANGED vars
  <2>1. UNCHANGED <<catalog, candidate, backup, config, selection, journal, cursor, archive, pc, token>>
    BY <1>5 DEF vars, disk, control, trees
  <2>2. FreshTokens' /\ JournalSound'
    BY <2>1 DEF IInv, FreshTokens, JournalSound, Pending, OnDisk, Sound, P, N
  <2>3. CursorSound'
    BY <2>1 DEF IInv, CursorSound, Pending, Forward, Backward, Cand, Back, P, N, TreesUp, FilesAre,
                TwoPlaces, StateKnown, MappingKnown, SelectionKnown, FilesKnown
  <2>4. PublishKnows' /\ RecoverKnows'
    BY <2>1 DEF IInv, PublishKnows, RecoverKnows, Pending, Cand, Back, P, N, TreesUp
  <2> QED
    BY <1>1, <2>2, <2>3, <2>4 DEF IInv
<1> QED
  BY <1>1, <1>2, <1>3, <1>4, <1>5 DEF Next, Step

\* The journal, the cursor, the trees and the files agree at every step.
THEOREM Inductive == Spec => [](TypeOK /\ IInv)
<1>1. Init => TypeOK /\ IInv
  BY InitInv
<1>2. TypeOK /\ IInv /\ [Next]_vars => (TypeOK /\ IInv)'
  BY InvStep
<1> QED
  BY <1>1, <1>2, PTL DEF Spec

-----------------------------------------------------------------------------
(***************************************************************************)
(* What follows from it.                                                    *)
(***************************************************************************)

\* Every reachable state is in the types: no tree, file or journal holds what
\* the code never writes (RegistrationStore.cpp, all of Transaction).
THEOREM TypeCorrect == Spec => []TypeOK
<1>1. TypeOK /\ IInv => TypeOK
  OBVIOUS
<1> QED
  BY <1>1, Inductive, PTL

\* The topology table of validateJournal() covers every place where a
\* publication can have been interrupted.
LEMMA TopologyHolds ==
    ASSUME TypeOK, IInv, Pending, cursor = NoCursor
    PROVE  JournalValid
<1>1. /\ Forward /\ Candidate = Cand /\ Backup = Back
      /\ N.catalog # Absent /\ N.config = Published(P, N.catalog).config
      /\ P.catalog # Absent <=> HadCatalog
  BY PendingToken DEF IInv, CursorSound, JournalSound, HadCatalog, P, Published
<1>2. FilesKnown
  BY <1>1 DEF Forward, FilesAre, FilesKnown, StateKnown, MappingKnown, SelectionKnown, P, N
<1>3. TreesOwned
  BY <1>1 DEF Forward, TreesOwned, TwoPlaces, TreesUp, P, N
<1>4. TopologyKnown
  BY <1>1 DEF Forward, TopologyKnown, TwoPlaces, TreesUp, HadCatalog, P, N
<1> QED
  BY <1>2, <1>3, <1>4 DEF JournalValid

\* recover() goes past its checks, with a cursor and without one.
LEMMA AcceptsHolds ==
    ASSUME TypeOK, IInv
    PROVE  RecoverAccepts /\ (Pending /\ cursor # NoCursor => StepPossible)
<1>1. CASE ~Pending
  BY <1>1 DEF RecoverAccepts, IInv, CursorSound
<1>2. CASE Pending /\ cursor = NoCursor
  BY <1>2, TopologyHolds DEF RecoverAccepts
<1>3. CASE Pending /\ cursor # NoCursor
  <2>1. /\ Backward /\ Candidate = Cand /\ Backup = Back /\ N.catalog # Absent
        /\ HadCatalog <=> P.catalog # Absent
    BY <1>3, PendingToken DEF IInv, CursorSound, HadCatalog, P
  <2>2. TreesOwned
    BY <2>1 DEF Backward, TreesOwned, TwoPlaces, P, N
  <2>3. StepPossible
    BY <2>1 DEF Backward, StepPossible, TwoPlaces, HadCatalog, P, N
  <2> QED
    BY <1>3, <2>1, <2>2, <2>3 DEF RecoverAccepts, Backward
<1> QED
  BY <1>1, <1>2, <1>3

\* Whatever the tool itself left on disk, at whatever step it died, the next
\* recover() accepts it and can take the step its cursor names.
THEOREM RecoveryAccepted == Spec => []Recoverable
<1>1. TypeOK /\ IInv => Recoverable
  BY AcceptsHolds DEF Recoverable
<1> QED
  BY <1>1, Inductive, PTL

\* No require() of a publication or of a recovery fails while this profile's
\* transactions are the only writers.
THEOREM NothingRefused == Spec => []NeverRefused
<1>1. ASSUME TypeOK, IInv, pc # "idle" PROVE Requirement
  <2> USE DEF IInv, PublishKnows, RecoverKnows, PublishSteps, RecoverSteps
  <2>1. CASE pc = "recover"
    BY <2>1, AcceptsHolds, <1>1 DEF Requirement
  <2>2. CASE pc = "rollback"
    BY <2>2, AcceptsHolds, <1>1 DEF Requirement
  <2>3. CASE pc \in {"restoreState", "restoreMapping", "restoreSelection", "archive"}
    <3>1. Backward
      BY <1>1, <2>3 DEF CursorSound
    <3> QED
      BY <1>1, <2>3, <3>1 DEF Requirement, Backward, FilesKnown, P, N
  <2>4. CASE pc \in {"writeState", "writeMapping", "writeSelection"}
    <3>1. Forward
      BY <1>1, <2>4 DEF CursorSound
    <3> QED
      BY <1>1, <2>4, <3>1 DEF Requirement, Forward
  <2>5. CASE pc = "stage"
    BY <1>1, <2>5 DEF Requirement, PackageOwned, JournalSound, Sound, OnDisk
  <2>6. CASE pc \in {"prepared", "installed"}
    BY <1>1, <2>6, TopologyHolds DEF Requirement
  <2>7. CASE pc \in {"backingUp", "promoting"}
    BY <1>1, <2>7, PendingToken DEF Requirement
  <2> QED
    BY <2>1, <2>2, <2>3, <2>4, <2>5, <2>6, <2>7 DEF Requirement
<1>2. TypeOK /\ IInv => NeverRefused
  BY <1>1 DEF NeverRefused
<1> QED
  BY <1>2, Inductive, PTL

-----------------------------------------------------------------------------
(***************************************************************************)
(* The publication is atomic.                                               *)
(***************************************************************************)

\* What readers rely on changes only at the step that commits, and then to the
\* whole new snapshot.
LEMMA AtomicStep ==
    ASSUME TypeOK, IInv, TypeOK', IInv', [Next]_vars
    PROVE  [Atomic!Next]_Registered
<1> USE DEF IInv
<1>1. CASE Commit
  <2>1. /\ pc = "selected" /\ journal.phase = "writingProfile"
        /\ Pending /\ cursor = NoCursor
    BY <1>1 DEF Commit, At, PublishKnows, PublishSteps
  <2>2. TreesUp /\ config = N.config /\ selection = N.selection
    BY <2>1 DEF CursorSound, Forward, PublishKnows, PublishSteps
  <2>3. N.catalog \in Revisions /\ N = Published(P, N.catalog)
    BY <2>1 DEF JournalSound
  <2>4. Registered = P
    BY <2>1 DEF Registered, P
  <2>5. Registered' = OnDisk'
    BY <1>1 DEF Commit, Registered, TypeOK, Journal
  <2>6. OnDisk' = OnDisk
    BY <1>1 DEF Commit, OnDisk, trees
  <2>7. OnDisk = [catalog |-> N.catalog, config |-> N.config, selection |-> N.selection]
    BY <2>2 DEF OnDisk, TreesUp
  <2>8. OnDisk = Published(P, N.catalog)
    BY <2>3, <2>7 DEF Published
  <2>9. Atomic!Integrated(N.catalog)
    BY <2>3, <2>4, <2>5, <2>6, <2>8
       DEF Atomic!Integrated, Atomic!Receipt, Published, NoReceipt
  <2> QED
    BY <2>3, <2>9 DEF Atomic!Next
<1>2. CASE SaveJournal
  <2>1. Registered = OnDisk
    BY <1>2 DEF SaveJournal, At, PublishKnows, Registered, Pending
  <2>2. Registered' = OnDisk
    BY <1>2 DEF SaveJournal, Registered
  <2> QED
    BY <2>1, <2>2
<1>3. CASE ArchiveRolledBack
  <2>1. Pending /\ cursor # NoCursor /\ cursor.step = "done"
    BY <1>3 DEF ArchiveRolledBack, At, RecoverKnows, RecoverSteps
  <2>2. /\ journal.phase \notin {"none", "committed"}
        /\ catalog = P.catalog /\ config = P.config /\ selection = P.selection
    BY <2>1 DEF CursorSound, Backward, Pending, FilesAre
  <2>3. OnDisk = [catalog |-> P.catalog, config |-> P.config, selection |-> P.selection]
    BY <2>2 DEF OnDisk
  <2>4. P \in Snapshot
    BY DEF TypeOK, Journal, P
  <2>5. OnDisk = P
    BY <2>3, <2>4 DEF Snapshot
  <2>6. Registered = P /\ Registered' = OnDisk
    BY <1>3, <2>2 DEF Registered, ArchiveRolledBack, NoJournal, OnDisk, trees, P
  <2> QED
    BY <2>5, <2>6
<1>4. CASE ArchiveCommitted
  BY <1>4 DEF ArchiveCommitted, Registered, OnDisk, trees, NoJournal
<1>5. ASSUME NEW from, NEW phase \in Phase \ {"none", "committed"}, NEW to,
             from \in PublishSteps \ {"stage", "staged"}, EnterPhase(from, phase, to)
      PROVE  UNCHANGED Registered
  <2>1. journal.phase \notin {"none", "committed"}
    BY <1>5 DEF EnterPhase, At, PublishKnows, PublishSteps, Pending, CursorSound
  <2>2. journal'.phase = phase /\ P' = P
    BY <1>5 DEF EnterPhase, TypeOK, Journal, P
  <2> QED
    BY <1>5, <2>1, <2>2 DEF Registered, P
<1>6. ASSUME journal' = journal, journal.phase \notin {"none", "committed"}
      PROVE  UNCHANGED Registered
  BY <1>6 DEF Registered
<1>7. ASSUME journal' = journal, UNCHANGED <<catalog, config, selection>>
      PROVE  UNCHANGED Registered
  BY <1>7 DEF Registered, OnDisk
<1>8. CASE Recover
  <2>1. CASE BeginRollback \/ ResumeRollback \/ TreesBack \/ CloseOrphan \/ CloseCursor
             \/ NothingPending
    BY <1>7, <2>1 DEF BeginRollback, ResumeRollback, TreesBack, CloseOrphan, CloseCursor,
                      NothingPending, disk, trees
  <2>2. ASSUME Unpromote \/ Restore
               \/ PutConfig("restoreState", "state", journal.previous, "restoreMapping")
               \/ PutConfig("restoreMapping", "mapping", journal.previous, "restoreSelection")
               \/ PutSelection("restoreSelection", journal.previous, "filesRestored")
        PROVE  UNCHANGED Registered
    <3>1. Pending /\ cursor # NoCursor /\ journal' = journal
      BY <2>2 DEF Unpromote, Restore, PutConfig, PutSelection, At, RecoverKnows, RecoverSteps
    <3> QED
      BY <1>6, <3>1 DEF CursorSound, Backward, Pending
  <2>3. ASSUME NEW from, NEW step, NEW to, Advance(from, step, to)
        PROVE  UNCHANGED Registered
    BY <1>7, <2>3 DEF Advance, trees
  <2> QED
    BY <1>3, <1>4, <1>8, <2>1, <2>2, <2>3 DEF Recover
<1>9. CASE Publish
  <2>1. ASSUME NEW r \in Revisions, CopyCandidate(r)
        PROVE  UNCHANGED Registered
    BY <1>7, <2>1 DEF CopyCandidate
  <2>2. ASSUME BackUp \/ Promote
               \/ PutConfig("writeState", "state", journal.next, "writeMapping")
               \/ PutConfig("writeMapping", "mapping", journal.next, "installed")
               \/ PutSelection("writeSelection", journal.next, "selected")
        PROVE  UNCHANGED Registered
    BY <1>6, <2>2 DEF BackUp, Promote, PutConfig, PutSelection, At, PublishKnows
  <2> QED
    BY <1>1, <1>2, <1>5, <1>9, <2>1, <2>2 DEF Publish, Phase, PublishSteps
<1>10. CASE Integrate \/ CallOff \/ StepFails \/ Crash
  BY <1>7, <1>10 DEF Integrate, CallOff, StepFails, Crash, disk, trees
<1>11. CASE UNCHANGED vars
  BY <1>7, <1>11 DEF vars, disk, trees
<1> QED
  BY <1>8, <1>9, <1>10, <1>11 DEF Next, Step

\* Catalog, registration state, Python association and selection change
\* together or not at all: the transaction implements the atomic
\* registration (RegistrationStore.cpp, Transaction, under integrate()).
THEOREM RefinesAtomicRegistration == Spec => AtomicSpec
<1>1. Init => Atomic!Init
  BY DEF Init, Atomic!Init, Atomic!Nothing, Registered, OnDisk, NoJournal, Blank, Absent, Foreign
<1>2. TypeOK /\ IInv /\ (TypeOK /\ IInv)' /\ [Next]_vars => [Atomic!Next]_Registered
  BY AtomicStep
<1> QED
  BY <1>1, <1>2, Inductive, PTL DEF Spec, AtomicSpec, Atomic!Spec

\* What one token's archived journal and committed phase may become.
SettledFor(t) ==
    /\ archive[t] # "none" => archive'[t] = archive[t]
    /\ journal.token = t /\ journal.phase = "committed" =>
          (journal' = journal \/ archive'[t] = "committed")

\* A journal that reached "committed" is archived as committed and never
\* rolled back; no archived journal is ever renamed.
THEOREM CommitIsFinal == Spec => CommittedStays
<1>1. ASSUME TypeOK, IInv, [Next]_vars, NEW t \in Tokens
      PROVE  SettledFor(t)
  <2> USE DEF SettledFor, IInv
  <2>1. CASE ArchiveCommitted
    <3>1. archive[journal.token] = "none" /\ journal.token \in Tokens
      BY <1>1, <2>1, PendingToken DEF ArchiveCommitted, Pending, JournalSound
    <3> QED
      BY <1>1, <2>1, <3>1 DEF ArchiveCommitted, TypeOK
  <2>2. CASE ArchiveRolledBack
    <3>1. Pending /\ cursor # NoCursor
      BY <1>1, <2>2 DEF ArchiveRolledBack, At, RecoverKnows, RecoverSteps
    <3>2. archive[journal.token] = "none" /\ journal.token \in Tokens
      BY <1>1, <3>1, PendingToken DEF JournalSound
    <3>3. journal.phase # "committed"
      BY <1>1, <3>1 DEF CursorSound, Backward
    <3> QED
      BY <1>1, <2>2, <3>2, <3>3 DEF ArchiveRolledBack, TypeOK
  <2>3. CASE Recover /\ ~ArchiveCommitted /\ ~ArchiveRolledBack
    BY <1>1, <2>3 DEF Recover, NothingPending, CloseOrphan, BeginRollback, ResumeRollback, Unpromote,
         Advance, Restore, TreesBack, PutConfig, PutSelection, CloseCursor, disk
  <2>4. ASSUME NEW from \in PublishSteps \ {"stage", "staged"}, NEW phase, NEW to,
               EnterPhase(from, phase, to)
        PROVE  SettledFor(t)
    BY <1>1, <2>4 DEF EnterPhase, At, PublishKnows, PublishSteps
  <2>5. CASE SaveJournal
    BY <1>1, <2>5 DEF SaveJournal, At, PublishKnows, Pending
  <2>6. CASE Commit
    BY <1>1, <2>6 DEF Commit, At, PublishKnows
  <2>7. CASE Publish
    <3>1. ASSUME journal' = journal, archive' = archive
          PROVE  SettledFor(t)
      BY <3>1
    <3> QED
      BY <2>4, <2>5, <2>6, <2>7, <3>1 DEF Publish, CopyCandidate, BackUp, Promote, PutConfig,
           PutSelection, PublishSteps
  <2>8. CASE Integrate \/ CallOff \/ StepFails \/ Crash
    BY <1>1, <2>8 DEF Integrate, CallOff, StepFails, Crash, disk
  <2>9. CASE UNCHANGED vars
    BY <1>1, <2>9 DEF vars, disk
  <2> QED
    BY <1>1, <2>1, <2>2, <2>3, <2>7, <2>8, <2>9 DEF Next, Step
<1>2. ASSUME TypeOK, IInv, [Next]_vars
      PROVE  [\A t \in Tokens : SettledFor(t)]_vars
  BY <1>1, <1>2
<1>3. TypeOK /\ IInv /\ [Next]_vars => [\A t \in Tokens : SettledFor(t)]_vars
  BY <1>2
<1> QED
  BY <1>3, Inductive, PTL DEF Spec, CommittedStays, SettledFor

-----------------------------------------------------------------------------
(***************************************************************************)
(* No tree is deleted.                                                     *)
(***************************************************************************)

\* In how many places of one kind a tree stands.
Held(place, v) == Cardinality({t \in Tokens : place[t] = v})

\* It is a number: there are finitely many tokens.
LEMMA HeldIsCount ==
    ASSUME NEW place, NEW v
    PROVE  Held(place, v) \in Nat
<1> DEFINE there == {t \in Tokens : place[t] = v}
<1>1. IsFiniteSet(Tokens)
  BY BoundAssumption, FS_Interval DEF Tokens
<1>2. there \in SUBSET Tokens
  OBVIOUS
<1> HIDE DEF there
<1>3. Cardinality(there) \in Nat
  BY <1>1, <1>2, FS_Subset, FS_CardinalityType
<1> QED
  BY <1>3 DEF Held, there

\* Of the places of one kind, the one of token t is written.
Writes(place, after, t, w) == \A s \in Tokens : after[s] = IF s = t THEN w ELSE place[s]

\* Writing one place moves the count by what it held and what it holds.
LEMMA HeldChange ==
    ASSUME NEW place, NEW after, NEW t \in Tokens, NEW w, NEW v, Writes(place, after, t, w)
    PROVE  Held(after, v) + (IF place[t] = v THEN 1 ELSE 0)
             = Held(place, v) + (IF w = v THEN 1 ELSE 0)
<1> DEFINE was == {s \in Tokens : place[s] = v}
           is == {s \in Tokens : after[s] = v}
           others == {s \in Tokens : s # t /\ place[s] = v}
<1>1. IsFiniteSet(Tokens)
  BY BoundAssumption, FS_Interval DEF Tokens
<1>2. others \in SUBSET Tokens /\ t \notin others
  OBVIOUS
<1>3. was = IF place[t] = v THEN others \cup {t} ELSE others
  OBVIOUS
<1>4. is = IF w = v THEN others \cup {t} ELSE others
  BY DEF Writes
<1> HIDE DEF was, is, others
<1>5. IsFiniteSet(others)
  BY <1>1, <1>2, FS_Subset
<1>6. Cardinality(others) \in Nat
  BY <1>5, FS_CardinalityType
<1>7. Cardinality(others \cup {t}) = Cardinality(others) + 1
  BY <1>2, <1>5, FS_AddElement
<1>8. Cardinality(was) = Cardinality(others) + (IF place[t] = v THEN 1 ELSE 0)
  BY <1>3, <1>6, <1>7
<1>9. Cardinality(is) = Cardinality(others) + (IF w = v THEN 1 ELSE 0)
  BY <1>4, <1>6, <1>7
<1>10. Held(place, v) = Cardinality(was) /\ Held(after, v) = Cardinality(is)
  BY DEF Held, was, is
<1> QED
  BY <1>6, <1>8, <1>9, <1>10

\* A tree put into an empty place is there once more than before,
LEMMA FillsEmpty ==
    ASSUME NEW place, NEW after, NEW t \in Tokens, NEW w, NEW v, Writes(place, after, t, w),
           place[t] = Absent, v # Absent
    PROVE  Held(after, v) = Held(place, v) + (IF w = v THEN 1 ELSE 0)
<1>1. Held(after, v) + (IF place[t] = v THEN 1 ELSE 0) = Held(place, v) + (IF w = v THEN 1 ELSE 0)
  BY HeldChange
<1>2. place[t] # v /\ Held(after, v) \in Nat
  BY HeldIsCount
<1> QED
  BY <1>1, <1>2

\* and one taken away is there once less.
LEMMA EmptiesFull ==
    ASSUME NEW place, NEW after, NEW t \in Tokens, NEW v, Writes(place, after, t, Absent),
           v # Absent
    PROVE  Held(after, v) + (IF place[t] = v THEN 1 ELSE 0) = Held(place, v)
<1>1. Held(after, v) + (IF place[t] = v THEN 1 ELSE 0)
        = Held(place, v) + (IF Absent = v THEN 1 ELSE 0)
  BY HeldChange
<1>2. Held(place, v) \in Nat
  BY HeldIsCount
<1> QED
  BY <1>1, <1>2

\* No tree is in fewer places after the step.
PlacesKept == \A v \in Tree \ {Absent} : Places(v)' >= Places(v)

\* The counts a step may change, and that they are numbers.
LEMMA PlacesCounted ==
    ASSUME NEW v
    PROVE  /\ Places(v) = Held(candidate, v) + Held(backup, v) + (IF catalog = v THEN 1 ELSE 0)
           /\ Places(v)' = Held(candidate', v) + Held(backup', v) + (IF catalog' = v THEN 1 ELSE 0)
           /\ Held(candidate, v) \in Nat /\ Held(backup, v) \in Nat
           /\ Held(candidate', v) \in Nat /\ Held(backup', v) \in Nat
BY HeldIsCount DEF Places, Held

\* A step that leaves the trees alone leaves the counts alone.
LEMMA TreesStandStill ==
    ASSUME UNCHANGED trees
    PROVE  PlacesKept
<1> SUFFICES ASSUME NEW v \in Tree \ {Absent} PROVE Places(v)' >= Places(v)
  BY DEF PlacesKept
<1> QED
  BY PlacesCounted DEF trees

\* A rename into a place that is empty, or a copy into one, loses nothing:
\* unpromote, restore, staging, backing up and promoting.
LEMMA MoveKeepsPlaces ==
    ASSUME TypeOK, IInv, Unpromote \/ Restore \/ (\E r \in Revisions : CopyCandidate(r))
                            \/ BackUp \/ Promote
    PROVE  PlacesKept
<1> SUFFICES ASSUME NEW v \in Tree \ {Absent} PROVE Places(v)' >= Places(v)
  BY DEF PlacesKept
<1> USE DEF IInv
<1>1. candidate \in [Tokens -> Tree] /\ backup \in [Tokens -> Tree]
  BY DEF TypeOK
<1>2. CASE Unpromote
  <2>1. Pending /\ cursor # NoCursor
    BY <1>2 DEF Unpromote, At, RecoverKnows, RecoverSteps
  <2>2. journal.token \in Tokens
    BY <2>1, PendingToken
  <2>3. catalog # Absent => Cand = Absent
    BY <1>2, <2>1 DEF Unpromote, CursorSound, Backward, TwoPlaces
  <2>4. CASE catalog = Absent
    BY <1>2, <2>4, TreesStandStill DEF Unpromote, PlacesKept
  <2>5. CASE catalog # Absent
    <3>1. Held(candidate', v) = Held(candidate, v) + (IF catalog = v THEN 1 ELSE 0)
      <4>1. Writes(candidate, candidate', journal.token, catalog)
        BY <1>1, <1>2, <2>5 DEF Unpromote, Writes
      <4> QED
        BY <2>2, <2>3, <2>5, <4>1, FillsEmpty DEF Cand
    <3>2. backup' = backup /\ catalog' = Absent
      BY <1>2, <2>5 DEF Unpromote
    <3> QED
      BY <3>1, <3>2, PlacesCounted
  <2> QED
    BY <2>4, <2>5
<1>3. CASE Restore
  <2>1. Pending /\ cursor # NoCursor
    BY <1>3 DEF Restore, At, RecoverKnows, RecoverSteps
  <2>2. journal.token \in Tokens /\ Backup = Back
    BY <2>1, PendingToken
  <2>3. Back # Absent => catalog = Absent
    BY <1>3, <2>1 DEF Restore, CursorSound, Backward, TwoPlaces
  <2>4. CASE Backup = Absent
    BY <1>3, <2>4, TreesStandStill DEF Restore, PlacesKept
  <2>5. CASE Backup # Absent
    <3>1. Held(backup', v) + (IF Back = v THEN 1 ELSE 0) = Held(backup, v)
      <4>1. Writes(backup, backup', journal.token, Absent)
        BY <1>1, <1>3, <2>5 DEF Restore, Writes
      <4> QED
        BY <2>2, <4>1, EmptiesFull DEF Back
    <3>2. candidate' = candidate /\ catalog' = Back /\ catalog = Absent
      BY <1>3, <2>2, <2>3, <2>5 DEF Restore
    <3> QED
      BY <3>1, <3>2, PlacesCounted
  <2> QED
    BY <2>4, <2>5
<1>4. ASSUME NEW r \in Revisions, CopyCandidate(r)
      PROVE  Places(v)' >= Places(v)
  <2>1. token + 1 \in Tokens /\ token + 1 > token
    BY <1>4, BoundAssumption DEF CopyCandidate, TypeOK, Tokens
  <2>2. candidate[token + 1] = Absent
    BY <2>1 DEF FreshTokens
  <2>3. Held(candidate', v) = Held(candidate, v) + (IF r = v THEN 1 ELSE 0)
    <3>1. Writes(candidate, candidate', token + 1, r)
      BY <1>1, <1>4 DEF CopyCandidate, Writes
    <3> QED
      BY <2>1, <2>2, <3>1, FillsEmpty
  <2>4. backup' = backup /\ catalog' = catalog
    BY <1>4 DEF CopyCandidate
  <2> QED
    BY <2>3, <2>4, PlacesCounted
<1>5. CASE BackUp
  <2>1. Pending /\ Back = Absent
    BY <1>5 DEF BackUp, At, PublishKnows, PublishSteps
  <2>2. journal.token \in Tokens
    BY <2>1, PendingToken
  <2>3. Held(backup', v) = Held(backup, v) + (IF catalog = v THEN 1 ELSE 0)
    <3>1. Writes(backup, backup', journal.token, catalog)
      BY <1>1, <1>5 DEF BackUp, Writes
    <3> QED
      BY <2>1, <2>2, <3>1, FillsEmpty DEF Back
  <2>4. candidate' = candidate /\ catalog' = Absent
    BY <1>5 DEF BackUp
  <2> QED
    BY <2>3, <2>4, PlacesCounted
<1>6. CASE Promote
  <2>1. Pending /\ catalog = Absent
    BY <1>6 DEF Promote, At, PublishKnows, PublishSteps
  <2>2. journal.token \in Tokens /\ Candidate = Cand
    BY <2>1, PendingToken
  <2>3. Held(candidate', v) + (IF Cand = v THEN 1 ELSE 0) = Held(candidate, v)
    <3>1. Writes(candidate, candidate', journal.token, Absent)
      BY <1>1, <1>6 DEF Promote, Writes
    <3> QED
      BY <2>2, <3>1, EmptiesFull DEF Cand
  <2>4. backup' = backup /\ catalog' = Cand
    BY <1>6, <2>2 DEF Promote
  <2> QED
    BY <2>1, <2>3, <2>4, PlacesCounted
<1> QED
  BY <1>2, <1>3, <1>4, <1>5, <1>6

\* Publication and rollback rename trees and copy new ones; at whatever step
\* they are cut off, no catalog content has been deleted.
THEOREM NothingDeleted == Spec => TreesOnlyMove
<1>1. ASSUME TypeOK, IInv, Next
      PROVE  PlacesKept
  <2>1. CASE Unpromote \/ Restore \/ (\E r \in Revisions : CopyCandidate(r)) \/ BackUp \/ Promote
    BY <1>1, <2>1, MoveKeepsPlaces
  <2>2. CASE Recover /\ ~Unpromote /\ ~Restore
    BY <2>2, TreesStandStill DEF Recover, NothingPending, CloseOrphan, ArchiveCommitted,
         BeginRollback, ResumeRollback, Advance, TreesBack, PutConfig, PutSelection,
         ArchiveRolledBack, CloseCursor, disk
  <2>3. CASE Publish /\ ~(\E r \in Revisions : CopyCandidate(r)) /\ ~BackUp /\ ~Promote
    BY <2>3, TreesStandStill DEF Publish, SaveJournal, EnterPhase, PutConfig, PutSelection, Commit
  <2>4. CASE Integrate \/ CallOff \/ StepFails \/ Crash
    BY <2>4, TreesStandStill DEF Integrate, CallOff, StepFails, Crash, disk
  <2> QED
    BY <1>1, <2>1, <2>2, <2>3, <2>4 DEF Next, Step
<1>2. TypeOK /\ IInv /\ [Next]_vars => [PlacesKept]_vars
  BY <1>1
<1> QED
  BY <1>2, Inductive, PTL DEF Spec, TreesOnlyMove, PlacesKept

-----------------------------------------------------------------------------
(***************************************************************************)
(* Beside the transactions of other profiles, which write the same         *)
(* installations.json: what of the invariant needs no more of them than    *)
(* that they leave this profile listed if it is, and what this profile's   *)
(* transaction guarantees to them in return.  Stated as implications, for  *)
(* the proofs about several profiles to cite.                              *)
(***************************************************************************)

\* The profile is in installations.json.
Listed == Self \in selection.known

\* A profile of which some transaction was committed.
Integrated == \E t \in Tokens : archive[t] = "committed"

\* The journal, the cursor and the archive have the fields the code gives them.
FilesFormed ==
    /\ archive = [t \in Tokens |-> archive[t]]
    /\ journal = [token |-> journal.token, phase |-> journal.phase, previous |-> P, next |-> N]
    /\ cursor = [token |-> cursor.token, phase |-> cursor.phase, step |-> cursor.step]

\* An integrated profile is listed, and so it is in the bytes a rollback would
\* write back: the one a journal was made over, and the one it leads to.
StaysListed ==
    /\ FilesFormed
    /\ Integrated => Listed /\ (Pending => Self \in P.selection.known)
    /\ Pending => N.selection.known = P.selection.known \cup {Self}
    /\ journal.phase = "committed" => Listed
    /\ cursor.phase # "committed"
    /\ pc = "selected" => Listed
    /\ pc \in PublishSteps \ {"stage", "staged"} => Pending
    /\ pc \in RecoverSteps \ {"recover", "archived"} => Pending /\ journal.phase # "committed"

\* A profile never integrated.
LEMMA StaysListedInit == Init => StaysListed
BY DEF Init, StaysListed, FilesFormed, Integrated, Pending, NoJournal, NoCursor, PublishSteps, RecoverSteps, P, N

\* An exception leads where nothing more is known.
LEMMA ThrowForgets == Throw \/ Leave => pc' \in {"idle", "recover"}
BY DEF Throw, Leave

\* Each step of recover() leaves the profile listed if it has to be.
LEMMA RecoverStaysListed == StaysListed /\ Recover => StaysListed'
<1> SUFFICES ASSUME StaysListed, Recover PROVE StaysListed'
  OBVIOUS
<1> USE DEF StaysListed, FilesFormed, Integrated, Listed, Pending, P, N, Goto
<1>1. ASSUME RecoverReturns PROVE pc' \in {"idle", "stage"}
  BY <1>1 DEF RecoverReturns, Leave
<1>2. CASE NothingPending
  BY <1>2, <1>1 DEF NothingPending, At, disk, PublishSteps, RecoverSteps
<1>3. CASE CloseOrphan
  BY <1>3, <1>1 DEF CloseOrphan, At, NoCursor, PublishSteps, RecoverSteps
<1>4. CASE ArchiveCommitted
  BY <1>4, <1>1 DEF ArchiveCommitted, At, NoJournal, PublishSteps, RecoverSteps
<1>5. CASE BeginRollback
  BY <1>5 DEF BeginRollback, At, PublishSteps
<1>6. CASE ResumeRollback
  <2>1. journal.phase = cursor.phase
    BY <1>6 DEF ResumeRollback, At, Requirement, RecoverAccepts
  <2> QED
    BY <1>6, <2>1 DEF ResumeRollback, disk, PublishSteps
<1>7. CASE Unpromote \/ Restore \/ TreesBack
  BY <1>7 DEF Unpromote, Restore, TreesBack, At, disk, PublishSteps, RecoverSteps
<1>8. ASSUME NEW from \in RecoverSteps \ {"recover", "archived"}, NEW step,
             NEW to \in RecoverSteps \ {"recover"}, Advance(from, step, to)
      PROVE  StaysListed'
  BY <1>8 DEF Advance, At, PublishSteps, RecoverSteps
<1>9. ASSUME NEW from \in RecoverSteps \ {"recover", "archived"}, NEW field, NEW side,
             NEW to \in RecoverSteps \ {"recover"}, PutConfig(from, field, side, to)
      PROVE  StaysListed'
  BY <1>9 DEF PutConfig, At, PublishSteps, RecoverSteps
<1>10. CASE PutSelection("restoreSelection", P, "filesRestored")
  BY <1>10 DEF PutSelection, At, PublishSteps, RecoverSteps
<1>11. CASE ArchiveRolledBack
  BY <1>11 DEF ArchiveRolledBack, At, NoJournal, PublishSteps, RecoverSteps
<1>12. CASE CloseCursor
  BY <1>12, <1>1 DEF CloseCursor, At, NoCursor, PublishSteps, RecoverSteps
<1> QED
  BY <1>2, <1>3, <1>4, <1>5, <1>6, <1>7, <1>8, <1>9, <1>10, <1>11, <1>12 DEF Recover, RecoverSteps

\* So does each step of a publication.
LEMMA PublishStaysListed == StaysListed /\ Publish => StaysListed'
<1> SUFFICES ASSUME StaysListed, Publish PROVE StaysListed'
  OBVIOUS
<1> USE DEF StaysListed, FilesFormed, Integrated, Listed, Pending, P, N, Goto, At
<1>1. ASSUME NEW r \in Revisions, CopyCandidate(r) PROVE StaysListed'
  BY <1>1 DEF CopyCandidate, PublishSteps, RecoverSteps
<1>2. CASE SaveJournal
  BY <1>2 DEF SaveJournal, OnDisk, Published, PublishSteps, RecoverSteps
<1>3. ASSUME NEW from \in PublishSteps \ {"stage", "staged"}, NEW phase \in Phase \ {"none", "committed"},
             NEW to \in PublishSteps \ {"stage", "staged", "selected"}, EnterPhase(from, phase, to)
      PROVE  StaysListed'
  BY <1>3 DEF EnterPhase, PublishSteps, RecoverSteps
<1>4. CASE BackUp \/ Promote
  BY <1>4 DEF BackUp, Promote, PublishSteps, RecoverSteps
<1>5. ASSUME NEW from \in PublishSteps \ {"stage", "staged"}, NEW field, NEW side,
             NEW to \in PublishSteps \ {"stage", "staged", "selected"}, PutConfig(from, field, side, to)
      PROVE  StaysListed'
  BY <1>5 DEF PutConfig, PublishSteps, RecoverSteps
<1>6. CASE PutSelection("writeSelection", N, "selected")
  BY <1>6 DEF PutSelection, PublishSteps, RecoverSteps
<1>7. CASE Commit
  BY <1>7 DEF Commit, PublishSteps, RecoverSteps
<1> QED
  BY <1>1, <1>2, <1>3, <1>4, <1>5, <1>6, <1>7 DEF Publish, PublishSteps, Phase

\* And so does whatever goes wrong.
LEMMA StaysListedStep == StaysListed /\ Next => StaysListed'
<1> SUFFICES ASSUME StaysListed, Next PROVE StaysListed'
  OBVIOUS
<1>1. CASE Recover
  BY <1>1, RecoverStaysListed
<1>2. CASE Publish
  BY <1>2, PublishStaysListed
<1>3. CASE Integrate \/ CallOff \/ StepFails \/ Crash
  <2>1. UNCHANGED disk /\ pc' \in {"idle", "recover"}
    BY <1>3, ThrowForgets DEF Integrate, CallOff, StepFails, Crash
  <2> QED
    BY <2>1 DEF disk, StaysListed, FilesFormed, Integrated, Listed, Pending, P, N, PublishSteps, RecoverSteps
<1> QED
  BY <1>1, <1>2, <1>3 DEF Next, Step

\* A transaction adds its own profile to installations.json or takes it out
\* again: no step of it changes whether another profile is listed.
LEMMA OthersStayListed ==
    StaysListed /\ Next =>
        \A o : o # Self => (o \in selection'.known <=> o \in selection.known)
<1> SUFFICES ASSUME StaysListed, Next, NEW o, o # Self
             PROVE  o \in selection'.known <=> o \in selection.known
  OBVIOUS
<1>1. ASSUME NEW from \in {"restoreSelection", "writeSelection"}, NEW side \in {P, N}, NEW to,
             PutSelection(from, side, to)
      PROVE  o \in selection'.known <=> o \in selection.known
  <2>1. selection \in {P.selection, N.selection} /\ selection' \in {P.selection, N.selection}
    BY <1>1 DEF PutSelection, At, Requirement, SelectionKnown, P, N
  <2>2. Pending
    BY <1>1 DEF PutSelection, At, StaysListed, PublishSteps, RecoverSteps
  <2> QED
    BY <2>1, <2>2 DEF StaysListed
<1>2. CASE UNCHANGED selection
  BY <1>2
<1> QED
  BY <1>1, <1>2
  DEF Next, Step, Integrate, CallOff, StepFails, Crash, disk, Recover, Publish, NothingPending,
      CloseOrphan, ArchiveCommitted, BeginRollback, ResumeRollback, Unpromote, Advance, Restore,
      TreesBack, PutConfig, ArchiveRolledBack, CloseCursor, CopyCandidate, SaveJournal, EnterPhase,
      BackUp, Promote, Commit, P, N

\* Whoever leaves this profile listed if it is leaves the rest to itself.
LEMMA StaysListedBeside ==
    /\ StaysListed
    /\ UNCHANGED <<journal, cursor, archive, pc>>
    /\ Self \in selection'.known <=> Self \in selection.known
    => StaysListed'
BY DEF StaysListed, FilesFormed, Integrated, Listed, Pending, P, N
=============================================================================
