----------------------- MODULE NativePublication_proofs -----------------------
(***************************************************************************)
(* For every set of input states and any number of builds, crashes and     *)
(* failures: no operation goes on while processes of another may write;    *)
(* recovery accepts whatever disk the last process left; and the output is *)
(* replaced whole, at one rename, by a build of the inputs it names.       *)
(* The invariant says where the trees are in each phase of the journal,    *)
(* which directories may be there, and what the step of the process tells  *)
(* of both.                                                                *)
(***************************************************************************)
EXTENDS NativePublication, TLAPS

-----------------------------------------------------------------------------
(* The child and its job.                                                  *)

\* Every value of a job is in its type.
LEMMA ChildTypes ==
    ASSUME ChildTypeOK, [Next]_vars
    PROVE  ChildTypeOK'
<1> USE DEF ChildTypeOK, Status, NoJob
<1>1. ASSUME UNCHANGED childVars PROVE ChildTypeOK'
  BY <1>1 DEF childVars
<1>2. ASSUME ForgetChild PROVE ChildTypeOK'
  BY <1>2 DEF ForgetChild
<1>3. ASSUME NEW telemetry \in BOOLEAN, StartChild(telemetry) PROVE ChildTypeOK'
  BY <1>3 DEF StartChild
<1>4. CASE SupervisorActs
  <2> PICK overflow, late, overdue \in BOOLEAN : Tick(overflow, late, overdue)
    BY <1>4 DEF SupervisorActs, SupervisorTurn
  <2> DEFINE Jobs == [busy : BOOLEAN, telemetry : BOOLEAN, stopping : BOOLEAN,
                      reported : BOOLEAN, status : Status]
  <2>1. ASSUME NEW j \in Jobs, NEW reason \in Status PROVE Stopped(j, reason) \in Jobs
    BY DEF Stopped
  <2>2. ASSUME NEW j \in Jobs PROVE Settled(j) \in Jobs
    BY DEF Settled
  <2>3. ASSUME NEW j \in Jobs PROVE Stopping(j, late) \in Jobs
    BY <2>1 DEF Stopping
  <2>4. ASSUME NEW j \in Jobs PROVE Reported(j, overdue) \in Jobs
    BY DEF Reported
  <2>5. job' \in Jobs
    BY <2>1, <2>2, <2>3, <2>4 DEF Tick
  <2> QED BY <2>5 DEF Tick
<1>5. CASE ProcessesAct
  BY <1>5 DEF ProcessesAct, ChildSteps, Spawn, RootExits, FamilyExits, TerminatedDies
<1>6. CASE Crash
  BY <1>6, <1>2 DEF Crash, Abandon
<1>7. CASE Begins
  BY <1>7, <1>1 DEF Begins, StartBuild, StartCheck, StartClean, Start
<1>8. CASE OrphansDie \/ Edit \/ UNCHANGED vars
  BY <1>8, <1>1 DEF OrphansDie, Edit, vars
<1>9. CASE Step
  <2>1. CASE Recover
    BY <2>1, <1>1 DEF Recover, NothingToRecover, KeepStaged, BeginRollback, ResumeRollback,
      RestoreBackup, RetireCandidate, RolledBack, RollForward, BeginCleanup, RetireBackup,
      Completed, SealWork, RetireJournal, Goto
  <2>2. CASE Prune
    BY <2>2, <1>1 DEF Prune, BeginRetirement, DeleteFiles, RemoveDirectory, CloseRetirement,
      RetirementEnds, Goto
  <2>3. ASSUME NEW step, Launch(step) PROVE ChildTypeOK'
    BY <2>3, <1>3 DEF Launch
  <2>4. ASSUME NEW step, Collect(step) PROVE ChildTypeOK'
    BY <2>4, <1>2 DEF Collect, Abandon
  <2>5. CASE Build
    BY <2>5, <1>1, <2>3, <2>4 DEF Build, Begin, OpenJournal, Reuse, PruneThen, Increment, Reset,
      Reopen, FirstBuild, Compile, Compiled, Generate, Generated, Assemble, Evaluate, Hashed, Goto
  <2>6. CASE Publish
    BY <2>6, <1>1 DEF Publish, KeepInputs, SealCache, Stage, ToCandidate, BackUp, Promote,
      EnterPhase, Goto
  <2>7. CASE CheckOutput
    BY <2>7, <1>1, <2>3, <2>4 DEF CheckOutput, Check, OpenJournal, Inspected, CloseJournal,
      PruneThen, RunTarget, TargetRan, SealLogs, Validated, Goto
  <2>8. CASE Clean
    BY <2>8, <1>1 DEF Clean
  <2>9. CASE Throws
    BY <2>9, <1>2 DEF Throws, Abandon
  <2>10. CASE Guard
    BY <2>10, <1>1 DEF Guard, Disclaim, RetainFailure, FinishCheck, FinishValidation, DropJournal,
      CloseJournal, PruneThen, Goto
  <2> QED BY <1>9, <2>1, <2>2, <2>5, <2>6, <2>7, <2>8, <2>9, <2>10 DEF Step
<1> QED BY <1>4, <1>5, <1>6, <1>7, <1>8, <1>9 DEF Next

-----------------------------------------------------------------------------
(* Who may write.                                                          *)

\* Where an operation waits for a child ...
Waiting == {"evaluating", "compiling", "generating", "targeting", "reevaluating"}

\* ... and where it is about to, or has just done so: the journal tells.
Marked == Waiting \cup {"evaluate", "compare", "compile", "generate", "reevaluate"}

\* Journals that no recovery resolves, since children may be alive.
Blocking == {"building", "checking", "validating"}

WriterInv ==
    /\ job.busy => pc \in Waiting
    /\ ~job.busy => ~TreeAlive
    /\ pc \in Marked => journal.phase \in Blocking
    /\ orphans => pc \in {"idle", "recover"} /\ guarded = FALSE /\ journal.phase \in Blocking
    /\ pc = "idle" => guarded = FALSE
    /\ next \in {"none", "begin", "check", "clean", "reopen", "end"}

\* Nothing runs at first.
LEMMA WriterInit == Init => ChildTypeOK /\ WriterInv
  BY DEF Init, ChildInit, ChildTypeOK, Status, NoJob, WriterInv, TreeAlive, Waiting, Marked

\* A step that leaves the child alone and starts no waiting keeps all of it,
\* if the journal stays marked where it has to.
LEMMA QuietStep ==
    ASSUME WriterInv, UNCHANGED childVars, UNCHANGED orphans,
           ~job.busy, ~orphans,
           pc' \notin Waiting,
           pc' \in Marked => journal'.phase \in Blocking,
           pc' = "idle" => guarded' = FALSE,
           next' \in {"none", "begin", "check", "clean", "reopen", "end"}
    PROVE  WriterInv'
  BY DEF WriterInv, childVars, TreeAlive

\* Who may write is settled by the journal before a child starts.
LEMMA WriterStep ==
    ASSUME ChildTypeOK, WriterInv, [Next]_vars
    PROVE  WriterInv'
<1>1. CASE UNCHANGED vars
  BY <1>1 DEF vars, disk, control, environment, childVars, WriterInv, TreeAlive, trees
<1>2. CASE Begins
  BY <1>2 DEF Begins, StartBuild, StartCheck, StartClean, Start, WriterInv, disk, environment,
    childVars, TreeAlive, Waiting, Marked, Blocking
<1>3. CASE SupervisorActs
  <2>1. /\ UNCHANGED <<root, family, pc, next, guarded, journal, orphans>>
        /\ job.busy
    BY <1>3 DEF SupervisorActs, SupervisorTurn, Tick, disk, control, environment
  <2>2. ~job'.busy => TreeGone
    BY <1>3 DEF SupervisorActs, SupervisorTurn, Tick, Stopped, Stopping, Reported, ChildTypeOK
  <2> QED BY <2>1, <2>2 DEF WriterInv, TreeGone, TreeAlive
<1>4. CASE ProcessesAct
  BY <1>4 DEF ProcessesAct, ChildSteps, Spawn, RootExits, FamilyExits, TerminatedDies, WriterInv,
    TreeAlive, disk, control, environment, ChildTypeOK
<1>5. CASE Crash
  BY <1>5 DEF Crash, Abandon, ForgetChild, NoJob, Leave, WriterInv, TreeAlive, Waiting, Marked,
    Blocking, ChildTypeOK
<1>6. CASE OrphansDie \/ Edit
  BY <1>6 DEF OrphansDie, Edit, WriterInv, TreeAlive, disk, control, childVars
<1>7. CASE Throws
  BY <1>7 DEF Throws, Throw, Abandon, ForgetChild, NoJob, Leave, WriterInv, TreeAlive, Waiting,
    Marked, Blocking, ChildTypeOK
<1>8. CASE Recover
  BY <1>8, QuietStep DEF Recover, NothingToRecover, KeepStaged, BeginRollback, ResumeRollback,
    RestoreBackup, RetireCandidate, RolledBack, RollForward, BeginCleanup, RetireBackup,
    Completed, SealWork, RetireJournal, Goto, At, WriterInv, Marked, Waiting, Blocking,
    RecoverAccepts, Promotable, environment
<1>9. CASE Prune
  BY <1>9, QuietStep DEF Prune, BeginRetirement, DeleteFiles, RemoveDirectory, CloseRetirement,
      RetirementEnds, Goto, At, WriterInv, Marked, Waiting, control, environment, Leave
<1>10. CASE Publish
  BY <1>10, QuietStep DEF Publish, KeepInputs, SealCache, Stage, ToCandidate, BackUp, Promote,
      EnterPhase, Goto, At, WriterInv, Marked, Waiting, environment
<1>11. CASE Clean
  BY <1>11, QuietStep DEF Clean, At, WriterInv, Marked, Waiting, environment
<1>12. CASE Guard
  BY <1>12, QuietStep DEF Guard, Disclaim, RetainFailure, FinishCheck, FinishValidation,
    DropJournal, CloseJournal, PruneThen, Goto, At, WriterInv, Marked, Waiting, environment
<1>13. ASSUME NEW step \in Waiting, Launch(step), pc \in Marked, ~orphans, UNCHANGED journal
       PROVE  WriterInv'
  BY <1>13 DEF Launch, StartChild, NoJob, WriterInv, TreeAlive, Marked, Waiting, environment
<1>14. ASSUME NEW step, Collect(step), pc \in Marked, ~job.busy, ~orphans, UNCHANGED journal,
              step \notin Waiting \cup {"idle"}
       PROVE  WriterInv'
  BY <1>14 DEF Collect, Abandon, ForgetChild, NoJob, WriterInv, TreeAlive, Marked
<1>15. CASE Build
  <2> USE DEF At, WriterInv, Marked, Waiting
  <2>1. CASE Begin
    BY <2>1, QuietStep DEF Begin, OpenJournal, NoJournal, Blocking, environment
  <2>2. CASE Reuse \/ Increment \/ Reset \/ FirstBuild \/ Assemble
    BY <2>2, QuietStep DEF Reuse, PruneThen, Increment, Reset, FirstBuild, Assemble, Goto, disk,
      environment
  <2>3. CASE Reopen
    BY <2>3, QuietStep DEF Reopen, NoJournal, Blocking, Goto, environment
  <2>4. CASE Compile
    BY <2>4, <1>13 DEF Compile
  <2>5. CASE Compiled
    BY <2>5, <1>14 DEF Compiled
  <2>6. CASE Generate
    BY <2>6, <1>13, QuietStep DEF Generate, Goto, disk, environment
  <2>7. CASE Generated
    BY <2>7, <1>14 DEF Generated, disk
  <2>8. CASE \/ Evaluate("evaluate", "evaluating", "evaluation")
             \/ Evaluate("reevaluate", "reevaluating", "reevaluation")
    BY <2>8, <1>13 DEF Evaluate
  <2>9. CASE Hashed("evaluating", "compare", "evaluation")
    BY <2>9, <1>14 DEF Hashed
  <2>10. CASE Hashed("reevaluating", IF operation = "build" THEN "assemble" ELSE "sealLogs",
                     "reevaluation")
    BY <2>10, <1>14 DEF Hashed
  <2> QED BY <1>15, <2>1, <2>2, <2>3, <2>4, <2>5, <2>6, <2>7, <2>8, <2>9, <2>10 DEF Build
<1>16. CASE CheckOutput
  <2> USE DEF At, WriterInv, Marked, Waiting
  <2>1. CASE Check
    BY <2>1, QuietStep DEF Check, OpenJournal, NoJournal, Blocking, environment
  <2>2. CASE RunTarget
    BY <2>2, <1>13 DEF RunTarget
  <2>3. CASE TargetRan
    BY <2>3, <1>14 DEF TargetRan, disk
  <2>4. CASE Inspected \/ SealLogs \/ Validated
    BY <2>4, QuietStep DEF Inspected, CloseJournal, PruneThen, SealLogs, Validated, Goto,
      environment
  <2> QED BY <1>16, <2>1, <2>2, <2>3, <2>4 DEF CheckOutput
<1> QED BY <1>1, <1>2, <1>3, <1>4, <1>5, <1>6, <1>7, <1>8, <1>9, <1>10, <1>11, <1>12, <1>15,
           <1>16 DEF Next, Step

\* NativeOutputs.cpp:151 and :621: "Keep the project lock and process
\* supervisor alive until actual settlement", and a killed supervisor leaves a
\* journal that stops the next operation before it touches anything.
THEOREM OneWriterAtATime == Spec => []OneWriter
<1>1. ChildTypeOK /\ WriterInv => OneWriter
  BY DEF ChildTypeOK, WriterInv, OneWriter, Waiting
<1>2. ChildTypeOK /\ WriterInv /\ [Next]_vars => (ChildTypeOK /\ WriterInv)'
  BY ChildTypes, WriterStep
<1> QED BY <1>1, <1>2, WriterInit, PTL DEF Spec

-----------------------------------------------------------------------------
(* What is on disk, whatever step the last process got to.                 *)

N == journal.next
P == journal.prior

Publishing == {"staged", "ready", "backed-up", "rolling-back", "rolled-back",
               "promoted", "retiring-backup", "completed"}

\* A tree that is renamed from one place to another.
TwoPlaces(one, other, tree) ==
    (one = tree /\ other = NoTree) \/ (one = NoTree /\ other = tree)

NothingRetired == kept["retired-candidate"] = NoTree /\ kept["retired-backup"] = NoTree
NothingKept == kept["assembled"] = NoTree /\ NothingRetired

\* A tree fit to be published over another.
Succeeds(tree, old) ==
    /\ Exists(tree)
    /\ tree.objects = tree.inputs
    /\ old.revision < tree.revision /\ tree.revision <= revision

\* Where the trees are in each phase.
Topology ==
    /\ journal.phase \notin Publishing => candidate = NoTree /\ backup = NoTree
    /\ journal.phase \in Publishing => Succeeds(N, P) /\ (journal.previous <=> Exists(P))
    /\ journal.phase = "staged" =>
          /\ current = P /\ backup = NoTree
          /\ TwoPlaces(candidate, kept["assembled"], N) /\ NothingRetired
    /\ journal.phase = "ready" =>
          candidate = N /\ TwoPlaces(current, backup, P) /\ NothingRetired
    /\ journal.phase = "backed-up" =>
          backup = P /\ TwoPlaces(candidate, current, N) /\ NothingRetired
    /\ journal.phase \in {"rolling-back", "rolled-back"} =>
          /\ TwoPlaces(current, backup, P)
          /\ TwoPlaces(candidate, kept["retired-candidate"], N)
          /\ kept["retired-backup"] = NoTree
    /\ journal.phase \in {"promoted", "retiring-backup", "completed"} =>
          /\ current = N /\ candidate = NoTree
          /\ kept["retired-candidate"] = NoTree
          /\ TwoPlaces(backup, kept["retired-backup"], P)
    /\ current.revision <= revision

\* Which directories can be there.
Directories ==
    /\ journal.phase # "none" => retirement = "none"
    /\ \A d \in Directory : directory[d] = "partial" => retirement = d
    /\ journal.phase = "none" =>
          directory["work"] # "unsealed" /\ directory["validation"] # "unsealed"
    /\ journal.phase \in {"checking", "validating"} => directory["work"] = "absent"
    /\ journal.phase \notin {"none", "validating"} => directory["validation"] = "absent"
    /\ directory["work"] \in {"absent", "partial"} => NothingKept

\* inputs.json never names other inputs than those of the objects, except
\* behind the journal of a build.
CacheTrue == cache.inputs # Unknown => cache.objects = cache.inputs

CacheInv ==
    /\ journal.phase # "building" => CacheTrue
    /\ directory["intermediates"] \in {"absent", "partial"} =>
          cache.inputs = Unknown /\ cache.objects = Unknown

DiskInv == Topology /\ Directories /\ CacheInv

-----------------------------------------------------------------------------
(* Where the process of an operation is.                                   *)

PhaseOf(op) == IF op = "build" THEN "building"
               ELSE IF op = "inspect" THEN "checking" ELSE "validating"

Checked == {"build", "inspect", "validate"}

\* Before the first child that leaves something in the work directory.
Fresh == {"begin", "check", "clean", "evaluate", "evaluating", "compare", "reset", "reopen",
          "compile"}

AfterHash == {"compare", "compile", "compiling", "generate", "generating", "reevaluate",
              "reevaluating", "assemble", "keepInputs", "targeting"}

\* A full build without its journal, and a build's second look at its inputs.
Resetting == pc = "reopen" \/ (pc = "reset" /\ next = "reopen")
SecondLook == pc \in {"reevaluate", "reevaluating"} /\ operation = "build"

\* The operation and the journal it has opened.
Place ==
    /\ next = "begin" => operation = "build"
    /\ next = "check" => operation \in {"inspect", "validate"}
    /\ pc = "begin" => operation = "build"
    /\ pc = "check" => operation \in {"inspect", "validate"}
    /\ pc \in {"prune", "begin", "check", "clean", "reset", "reopen"} => journal.phase = "none"
    /\ pc \in {"evaluate", "evaluating", "compare", "reevaluate", "reevaluating"} =>
          operation \in Checked /\ journal.phase = PhaseOf(operation)
    /\ pc \in {"compile", "compiling", "generate", "generating", "assemble", "keepInputs",
               "sealCache", "stage"} => operation = "build" /\ journal.phase = "building"
    /\ pc \in {"reevaluate", "reevaluating"} => operation # "inspect"
    /\ pc \in {"targeting", "sealLogs", "close"} =>
          operation = "validate" /\ journal.phase = "validating"
    /\ Resetting => operation = "build"
    /\ guarded => operation \in Checked /\ journal.phase \in {"none", PhaseOf(operation)}
    /\ pc \in {"guard", "retain", "dropJournal"} =>
          operation \in Checked /\ journal.phase \in {"none", PhaseOf(operation)}
    /\ pc = "retain" => operation = "build"
    /\ pc \in {"recover", "restore", "retireCandidate", "rolledBack", "cleanUp", "retireBackup",
               "completed", "sealWork", "retireJournal", "prune"} => next # "reopen"
    /\ pc \in {"idle", "recover", "restore", "retireCandidate", "rolledBack", "cleanUp",
               "retireBackup", "completed", "sealWork", "retireJournal", "keepInputs", "sealCache",
               "stage", "toCandidate", "ready", "backUp", "backedUp", "promote", "promoted"} =>
          guarded = FALSE

\* What the steps of a build have established.
Building ==
    /\ pc \in Fresh => directory["work"] = "absent"
    /\ pc \in {"begin", "check", "clean", "reset", "reopen"} => directory["validation"] = "absent"
    /\ pc \in {"begin", "check", "clean", "reopen"} => retirement = "none"
    /\ pc \in {"compiling", "generate", "generating", "reevaluate", "reevaluating", "assemble"} =>
          NothingKept
    /\ journal.phase = "building" \/ Resetting =>
          current.revision < revision
    /\ journal.phase = "building" => (journal.previous <=> Exists(current))
    /\ pc \in AfterHash \/ Resetting => seen = sources
    /\ seen \in {Unknown, sources}
    /\ pc \in {"evaluate", "evaluating", "compare", "compile", "compiling", "sealCache", "stage"} =>
          CacheTrue
    /\ pc = "reopen" => directory["intermediates"] = "absent"
    /\ pc \in {"compile", "compiling"} => cache.objects = cache.inputs
    /\ \/ pc \in {"compiling", "generate", "generating", "assemble", "keepInputs", "sealCache"}
       \/ SecondLook
       =>
          directory["intermediates"] = "unsealed" /\ directory["work"] = "unsealed"
    /\ pc \in {"generate", "generating", "assemble", "keepInputs"} \/ SecondLook =>
          cache.objects = sources
    /\ pc \in {"retain", "dropJournal"} /\ operation = "build" => cache.inputs = Unknown
    /\ pc = "dropJournal" => directory["work"] # "unsealed" /\ directory["validation"] # "unsealed"
    /\ pc = "close" => directory["validation"] # "unsealed"

\* ... and those of a publication and of a recovery.
Moving ==
    /\ pc \in {"keepInputs", "sealCache", "stage"} =>
          Succeeds(kept["assembled"], current) /\ NothingRetired
    /\ pc = "toCandidate" => journal.phase = "staged" /\ candidate = NoTree
    /\ pc = "ready" => journal.phase = "staged" /\ candidate = N
    /\ pc = "backUp" => journal.phase = "ready" /\ backup = NoTree /\ current = P
    /\ pc = "backedUp" => journal.phase = "ready" /\ current = NoTree /\ backup = P
    /\ pc = "promote" => journal.phase = "backed-up" /\ candidate = N
    /\ pc = "promoted" => journal.phase = "backed-up" /\ candidate = NoTree
    /\ pc \in {"restore", "retireCandidate", "rolledBack"} =>
          journal.phase \in {"rolling-back", "rolled-back"}
    /\ pc \in {"retireCandidate", "rolledBack", "sealWork", "retireJournal", "completed"} =>
          backup = NoTree
    /\ pc \in {"rolledBack", "sealWork", "retireJournal"} => candidate = NoTree
    /\ pc = "cleanUp" => journal.phase = "promoted"
    /\ pc \in {"retireBackup", "completed"} => journal.phase = "retiring-backup"
    /\ pc = "sealWork" => journal.phase \in {"rolled-back", "completed"}
    /\ pc = "retireJournal" =>
          /\ journal.phase \in {"staged", "rolled-back", "completed"}
          /\ directory["work"] # "unsealed"

PublicationInv == DiskInv /\ Place /\ Building /\ Moving

-----------------------------------------------------------------------------
(* Types.                                                                  *)

\* The types of the disk and of the process.
Types ==
    /\ DiskTypeOK
    /\ guarded \in BOOLEAN /\ rebuild \in BOOLEAN
    /\ seen \in Versions \cup {Unknown}
    /\ revision \in Nat

\* What an absent tree and an absent journal read as.
LEMMA Nothing == NoTree \in Tree /\ NoJournal \in Journal /\ NoJournal.phase = "none"
<1>1. NoTree \in Tree
  BY DEF NoTree, Tree
<1> QED BY <1>1 DEF NoJournal, Journal, Phase

\* What a new transaction writes.
LEMMA OpeningJournal ==
    ASSUME NEW phase \in Phase, NEW previous \in BOOLEAN
    PROVE  [NoJournal EXCEPT !.phase = phase, !.previous = previous] \in Journal
  BY Nothing DEF Journal

\* No record has been written yet.
LEMMA TypesInit == Init => Types
<1> SUFFICES ASSUME Init PROVE Types
  OBVIOUS
<1>1. kept \in [{"assembled", "retired-candidate", "retired-backup"} -> Tree]
  BY Nothing DEF Init
<1>2. directory \in [Directory -> DirectoryState]
  BY DEF Init, DirectoryState
<1> QED BY <1>1, <1>2, Nothing DEF Init, Types, DiskTypeOK

\* A step of the process that leaves its disk alone.
LEMMA DiskAlone ==
    ASSUME Types, UNCHANGED disk, sources' \in Versions, guarded' \in BOOLEAN,
           rebuild' \in BOOLEAN, seen' \in Versions \cup {Unknown}, revision' \in Nat
    PROVE  Types'
  BY DEF Types, DiskTypeOK, disk, trees

\* Every step writes records of their types.
LEMMA TypesStep ==
    ASSUME Types, [Next]_vars
    PROVE  Types'
<1> USE DEF Types
<1>1. CASE UNCHANGED vars
  BY <1>1, DiskAlone DEF vars, control, environment, DiskTypeOK
<1>2. CASE Begins
  BY <1>2, DiskAlone DEF Begins, StartBuild, StartCheck, StartClean, Start, environment, DiskTypeOK
<1>3. CASE SupervisorActs \/ ProcessesAct \/ OrphansDie \/ Edit
  BY <1>3, DiskAlone DEF SupervisorActs, ProcessesAct, OrphansDie, Edit, control, environment,
    DiskTypeOK
<1>4. CASE Crash \/ Throws
  BY <1>4 DEF Crash, Throws, Throw, Leave, Compromised, DiskTypeOK, trees
<1>5. CASE Recover
  <2> USE <1>5 DEF Recover, Goto, DiskTypeOK, environment, disk, trees
  <2>1. CASE NothingToRecover \/ ResumeRollback
    BY <2>1 DEF NothingToRecover, ResumeRollback
  <2>2. CASE KeepStaged \/ SealWork
    BY <2>2 DEF KeepStaged, SealWork, Seal, Directory, Scratch, DirectoryState
  <2>3. CASE BeginRollback \/ RolledBack \/ RollForward \/ BeginCleanup \/ Completed
    BY <2>3 DEF BeginRollback, RolledBack, RollForward, BeginCleanup, Completed, SetPhase, Journal,
      Phase
  <2>4. CASE RestoreBackup
    BY <2>4 DEF RestoreBackup, NoTree, Tree
  <2>5. CASE RetireCandidate \/ RetireBackup
    BY <2>5 DEF RetireCandidate, RetireBackup, Make, NoTree, Tree, Directory, Scratch,
      DirectoryState
  <2>6. CASE RetireJournal
    BY <2>6 DEF RetireJournal, NoJournal, Journal, Phase, NoTree, Tree
  <2> QED BY <2>1, <2>2, <2>3, <2>4, <2>5, <2>6
<1>6. CASE Prune
  <2> USE <1>6 DEF DiskTypeOK, environment, control, disk, trees
  <2>1. CASE BeginRetirement
    BY <2>1 DEF BeginRetirement, Retirable, Directory
  <2>2. CASE DeleteFiles
    <3>1. kept' \in [{"assembled", "retired-candidate", "retired-backup"} -> Tree]
      BY <2>2, Nothing DEF DeleteFiles
    <3>2. directory' \in [Directory -> DirectoryState]
      BY <2>2 DEF DeleteFiles, DirectoryState
    <3> QED BY <2>2, <3>1, <3>2 DEF DeleteFiles
  <2>3. CASE RemoveDirectory \/ CloseRetirement
    BY <2>3 DEF RemoveDirectory, CloseRetirement, DirectoryState
  <2>4. CASE RetirementEnds
    BY <2>4 DEF RetirementEnds, Goto, Leave
  <2> QED BY <2>1, <2>2, <2>3, <2>4 DEF Prune
<1>7. CASE Publish
  <2> USE <1>7 DEF Publish, Goto, DiskTypeOK, environment, disk, trees
  <2>1. CASE KeepInputs \/ SealCache
    BY <2>1 DEF KeepInputs, SealCache, Seal, Directory, Scratch, DirectoryState
  <2>2. CASE Stage \/ EnterPhase
    BY <2>2 DEF Stage, EnterPhase, SetPhase, Journal, Phase
  <2>3. CASE ToCandidate \/ BackUp \/ Promote
    BY <2>3 DEF ToCandidate, BackUp, Promote, NoTree, Tree
  <2> QED BY <2>1, <2>2, <2>3
<1>8. ASSUME NEW phase \in Phase, OpenJournal(phase), revision' \in Nat PROVE Types'
  BY <1>8, OpeningJournal DEF OpenJournal, DiskTypeOK, environment, trees, Exists
<1>9. ASSUME CloseJournal PROVE Types'
  BY <1>9, Nothing DEF CloseJournal, PruneThen, DiskTypeOK, environment, trees
<1>10. CASE Build
  <2> USE <1>10 DEF Build, Goto, DiskTypeOK, environment, disk, trees
  <2>1. CASE Begin
    BY <2>1, <1>8 DEF Begin, Phase
  <2>2. CASE Reuse \/ Reset \/ Reopen
    BY <2>2, Nothing, OpeningJournal DEF Reuse, Reset, Reopen, PruneThen, Phase, Exists
  <2>3. CASE Increment \/ Compile
    BY <2>3 DEF Increment, Compile, Launch, Directory, Scratch, DirectoryState
  <2>4. CASE FirstBuild \/ Compiled \/ Generate \/ Generated
    BY <2>4 DEF FirstBuild, Compiled, Generate, Generated, Launch, Collect
  <2>5. CASE Assemble
    <3>1. [revision |-> revision, inputs |-> seen, objects |-> cache.objects] \in Tree
      BY DEF Tree
    <3> QED BY <2>5, <3>1 DEF Assemble
  <2>6. ASSUME NEW step, NEW after, NEW d \in Directory, Evaluate(step, after, d) PROVE Types'
    BY <2>6 DEF Evaluate, Make, Launch, DirectoryState
  <2>7. ASSUME NEW step, NEW after, NEW d \in Directory, Hashed(step, after, d) PROVE Types'
    BY <2>7 DEF Hashed, Seal, Collect, DirectoryState
  <2> QED BY <2>1, <2>2, <2>3, <2>4, <2>5, <2>6, <2>7 DEF Directory, Scratch
<1>11. CASE CheckOutput
  <2> USE <1>11 DEF CheckOutput, Goto, DiskTypeOK, environment, disk, trees
  <2>1. CASE Check
    BY <2>1, <1>8 DEF Check, Phase
  <2>2. CASE Inspected \/ Validated
    BY <2>2, <1>9 DEF Inspected, Validated
  <2>3. CASE RunTarget \/ TargetRan \/ SealLogs
    BY <2>3 DEF RunTarget, TargetRan, SealLogs, Make, Seal, Launch, Collect, Directory, Scratch,
      DirectoryState
  <2> QED BY <2>1, <2>2, <2>3
<1>12. CASE Clean
  BY <1>12, DiskAlone DEF Clean, environment, DiskTypeOK
<1>13. CASE Guard
  <2>1. CASE Disclaim \/ RetainFailure \/ FinishCheck \/ FinishValidation
    BY <2>1 DEF Disclaim, RetainFailure, FinishCheck, FinishValidation, Sealed, Goto, DiskTypeOK,
      environment, disk, trees, Directory, Scratch, DirectoryState
  <2>2. CASE DropJournal
    BY <2>2, <1>9 DEF DropJournal
  <2> QED BY <1>13, <2>1, <2>2 DEF Guard
<1> QED BY <1>1, <1>2, <1>3, <1>4, <1>5, <1>6, <1>7, <1>10, <1>11, <1>12, <1>13 DEF Next, Step

-----------------------------------------------------------------------------
(* Every step keeps the disk recoverable.                                  *)

\* Nothing has been built yet.
LEMMA PublicationInit == Init => PublicationInv
<1> SUFFICES ASSUME Init PROVE PublicationInv
  OBVIOUS
<1> USE DEF Init, NoJournal
<1>1. DiskInv
  BY DEF DiskInv, Topology, Directories, CacheInv, CacheTrue, Publishing, NothingKept,
    NothingRetired, Directory, Scratch, NoTree
<1>2. Place
  BY DEF Place, Resetting
<1>3. Building
  BY DEF Building, Fresh, AfterHash, Resetting, SecondLook
<1>4. Moving
  BY DEF Moving
<1> QED BY <1>1, <1>2, <1>3, <1>4 DEF PublicationInv

\* What the job, its processes and their timers do does not touch the disk.
LEMMA NothingMoves ==
    ASSUME PublicationInv, UNCHANGED <<disk, control, sources>>
    PROVE  PublicationInv'
<1> USE DEF disk, control, trees, PublicationInv
<1>1. DiskInv'
  BY DEF DiskInv, Topology, Directories, CacheInv, CacheTrue, NothingKept, NothingRetired, Succeeds,
    TwoPlaces, N, P, Exists
<1>2. Place' /\ Building'
  BY DEF Place, Resetting, Building, NothingKept, NothingRetired, CacheTrue, SecondLook, Exists
<1>3. Moving'
  BY DEF Moving, Succeeds, N, P, NothingRetired, Exists
<1> QED BY <1>1, <1>2, <1>3

\* A recovery may be interrupted and taken up again after any of its steps.
LEMMA RecoverKeeps ==
    ASSUME Types, PublicationInv, Recover
    PROVE  PublicationInv'
<1> USE DEF PublicationInv, DiskInv, Topology, Directories, CacheInv, CacheTrue, Place, Building,
  Moving, Succeeds, TwoPlaces, NothingKept, NothingRetired, N, P, Exists, Publishing, PhaseOf,
  Checked, Fresh, AfterHash, Resetting, SecondLook, Goto, At, SetPhase, environment, disk, trees,
  Types, DiskTypeOK
<1>1. CASE NothingToRecover
  BY <1>1 DEF NothingToRecover
<1>2. CASE KeepStaged
  BY <1>2 DEF KeepStaged, Seal, Directory, Scratch
<1>3. CASE BeginRollback
  BY <1>3 DEF BeginRollback, RecoverAccepts, OwnersKnown, StagedKnown, Undoable, Promotable, Journal
<1>4. CASE ResumeRollback
  BY <1>4 DEF ResumeRollback
<1>5. CASE RestoreBackup
  BY <1>5 DEF RestoreBackup, Journal, Tree
<1>6. CASE RetireCandidate
  BY <1>6 DEF RetireCandidate, Make, Directory, Scratch
<1>7. CASE RolledBack
  BY <1>7 DEF RolledBack, Journal
<1>8. CASE RollForward
  BY <1>8 DEF RollForward, OwnersKnown, Promotable, CleanupKnown, Journal
<1>9. CASE BeginCleanup
  BY <1>9 DEF BeginCleanup, Journal
<1>10. CASE RetireBackup
  BY <1>10 DEF RetireBackup, Make, Directory, Scratch
<1>11. CASE Completed
  BY <1>11 DEF Completed, Journal
<1>12. CASE SealWork
  BY <1>12 DEF SealWork, Seal, Directory, Scratch
<1>13. CASE RetireJournal
  BY <1>13 DEF RetireJournal, NoJournal
<1> QED BY <1>1, <1>2, <1>3, <1>4, <1>5, <1>6, <1>7, <1>8, <1>9, <1>10, <1>11, <1>12,
           <1>13 DEF Recover

\* Scratch goes under an intent, and takes what it holds with it.
LEMMA PruneKeeps ==
    ASSUME Types, WriterInv, PublicationInv, Prune
    PROVE  PublicationInv'
<1> USE DEF PublicationInv, DiskInv, Topology, Directories, CacheInv, CacheTrue, Place, Building,
  Moving, Succeeds, TwoPlaces, NothingKept, NothingRetired, N, P, Exists, Publishing, PhaseOf,
  Checked, Fresh, AfterHash, Resetting, SecondLook, Goto, At, SetPhase, environment, disk, trees,
  Types, DiskTypeOK
<1>1. CASE BeginRetirement
  BY <1>1 DEF BeginRetirement, Directory, Scratch, DirectoryState, Retirable, control
<1>2. CASE DeleteFiles
  BY <1>2 DEF DeleteFiles, Directory, Scratch, DirectoryState, NoTree, control
<1>3. CASE RemoveDirectory
  BY <1>3 DEF RemoveDirectory, Directory, Scratch, DirectoryState, control
<1>4. CASE CloseRetirement
  BY <1>4 DEF CloseRetirement, Directory, Scratch, DirectoryState, control
<1>5. CASE RetirementEnds
  BY <1>5 DEF RetirementEnds, Directory, Scratch, DirectoryState, Retirable, Leave, WriterInv,
    NoTree
<1> QED BY <1>1, <1>2, <1>3, <1>4, <1>5 DEF Prune

\* Each rename of a publication is covered by the phase recorded before it.
LEMMA PublishKeeps ==
    ASSUME Types, WriterInv, PublicationInv, Publish
    PROVE  PublicationInv'
<1> USE DEF PublicationInv, DiskInv, Topology, Directories, CacheInv, CacheTrue, Place, Building,
  Moving, Succeeds, TwoPlaces, NothingKept, NothingRetired, N, P, Exists, Publishing, PhaseOf,
  Checked, Fresh, AfterHash, Resetting, SecondLook, Goto, At, SetPhase, environment, disk, trees,
  Types, DiskTypeOK
<1>1. CASE KeepInputs
  BY <1>1 DEF KeepInputs
<1>2. CASE SealCache
  BY <1>2 DEF SealCache, Seal, Directory, Scratch, DirectoryState
<1>3. CASE Stage
  BY <1>3 DEF Stage, Journal
<1>4. CASE ToCandidate
  BY <1>4 DEF ToCandidate, Journal
<1>5. CASE BackUp
  BY <1>5 DEF BackUp, Journal, Tree, NoTree
<1>6. CASE Promote
  BY <1>6 DEF Promote, Journal, Tree
<1>7. CASE EnterPhase
  BY <1>7 DEF EnterPhase, Journal
<1> QED BY <1>1, <1>2, <1>3, <1>4, <1>5, <1>6, <1>7 DEF Publish

\* An inspection or validation leaves the trees alone.
LEMMA CheckKeeps ==
    ASSUME Types, WriterInv, PublicationInv, CheckOutput
    PROVE  PublicationInv'
<1> USE DEF PublicationInv, DiskInv, Topology, Directories, CacheInv, CacheTrue, Place, Building,
  Moving, Succeeds, TwoPlaces, NothingKept, NothingRetired, N, P, Exists, Publishing, PhaseOf,
  Checked, Fresh, AfterHash, Resetting, SecondLook, Goto, At, SetPhase, environment, disk, trees,
  Types, DiskTypeOK
<1>1. CASE Check
  BY <1>1 DEF Check, OpenJournal, NoJournal, NoTree
<1>2. CASE Inspected
  BY <1>2 DEF Inspected, CloseJournal, PruneThen, NoJournal
<1>3. CASE RunTarget
  BY <1>3 DEF RunTarget, Launch, Make, Directory, Scratch, DirectoryState
<1>4. CASE TargetRan
  BY <1>4 DEF TargetRan, Collect
<1>5. CASE SealLogs
  BY <1>5 DEF SealLogs, Seal, Directory, Scratch, DirectoryState
<1>6. CASE Validated
  BY <1>6 DEF Validated, CloseJournal, PruneThen, NoJournal
<1> QED BY <1>1, <1>2, <1>3, <1>4, <1>5, <1>6 DEF CheckOutput

\* A build assembles from what it compiled, behind its journal.
LEMMA BuildKeeps ==
    ASSUME Types, WriterInv, PublicationInv, Build
    PROVE  PublicationInv'
<1> USE DEF PublicationInv, DiskInv, Topology, Directories, CacheInv, CacheTrue, Place, Building,
  Moving, Succeeds, TwoPlaces, NothingKept, NothingRetired, N, P, Exists, Publishing, PhaseOf,
  Checked, Fresh, AfterHash, Resetting, SecondLook, Goto, At, SetPhase, environment, disk, trees,
  Types, DiskTypeOK
<1>1. CASE Begin
  <2>1. current.revision < revision' /\ current.revision <= revision'
    BY <1>1 DEF Begin, Tree
  <2>2. journal'.phase = "building" /\ (journal'.previous <=> Exists(current))
    BY <1>1 DEF Begin, OpenJournal, NoJournal
  <2>3. DiskInv'
    BY <1>1, <2>1, <2>2 DEF Begin, OpenJournal
  <2>4. Place'
    BY <1>1, <2>2 DEF Begin, OpenJournal
  <2>5. Building'
    BY <1>1, <2>1, <2>2 DEF Begin, OpenJournal
  <2>6. Moving'
    BY <1>1, <2>2 DEF Begin, OpenJournal
  <2> QED BY <2>3, <2>4, <2>5, <2>6
<1>2. CASE Reuse
  BY <1>2 DEF Reuse, PruneThen, NoJournal
<1>3. CASE Increment
  BY <1>3 DEF Increment, Directory, Scratch, DirectoryState
<1>4. CASE Reset
  BY <1>4 DEF Reset, NoJournal
<1>5. CASE Reopen
  BY <1>5 DEF Reopen, NoJournal, NoTree
<1>6. CASE FirstBuild
  BY <1>6 DEF FirstBuild, Directory, Scratch, DirectoryState
<1>7. CASE Compile
  BY <1>7 DEF Compile, Launch, Directory, Scratch, DirectoryState
<1>8. CASE Compiled
  BY <1>8 DEF Compiled, Collect
<1>9. CASE Generate
  BY <1>9 DEF Generate, Launch
<1>10. CASE Generated
  BY <1>10 DEF Generated, Collect
<1>11. CASE Assemble
  <2>1. kept'["assembled"] = [revision |-> revision, inputs |-> seen, objects |-> cache.objects]
    BY <1>11 DEF Assemble
  <2>2. cache.objects = seen /\ current.revision < revision
    BY <1>11 DEF Assemble
  <2>3. Succeeds(kept["assembled"], current)'
    <3> DEFINE new == [revision |-> revision, inputs |-> seen, objects |-> cache.objects]
    <3>1. new.revision = revision /\ new.inputs = seen /\ new.objects = seen /\ NoTree.revision = 0
      BY <2>2 DEF NoTree
    <3>2. current' = current /\ revision' = revision /\ current.revision \in Nat
      BY <1>11 DEF Assemble, Tree
    <3> HIDE DEF new
    <3>3. new # NoTree
      BY <3>1, <3>2, <2>2
    <3> QED BY <2>1, <2>2, <3>1, <3>2, <3>3 DEF new
  <2>4. NothingRetired'
    BY <1>11 DEF Assemble
  <2>5. DiskInv'
    BY <1>11 DEF Assemble
  <2>6. Place' /\ Building'
    BY <1>11 DEF Assemble
  <2>7. Moving'
    BY <1>11, <2>3, <2>4 DEF Assemble
  <2> QED BY <2>5, <2>6, <2>7
<1>12. CASE Evaluate("evaluate", "evaluating", "evaluation")
  BY <1>12, Nothing DEF Evaluate, Launch, Make, Directory, Scratch, DirectoryState
<1>13. CASE Evaluate("reevaluate", "reevaluating", "reevaluation")
  BY <1>13, Nothing DEF Evaluate, Launch, Make, Directory, Scratch, DirectoryState
<1>14. CASE Hashed("evaluating", "compare", "evaluation")
  BY <1>14, Nothing DEF Hashed, Collect, Seal, Directory, Scratch, DirectoryState
<1>15. CASE Hashed("reevaluating", IF operation = "build" THEN "assemble" ELSE "sealLogs",
                   "reevaluation")
  BY <1>15, Nothing DEF Hashed, Collect, Seal, Directory, Scratch, DirectoryState
<1> QED BY <1>1, <1>2, <1>3, <1>4, <1>5, <1>6, <1>7, <1>8, <1>9, <1>10, <1>11, <1>12,
           <1>13, <1>14, <1>15 DEF Build

\* A failed operation closes its journal over sealed scratch only.
LEMMA GuardKeeps ==
    ASSUME Types, WriterInv, PublicationInv, Guard
    PROVE  PublicationInv'
<1> USE DEF PublicationInv, DiskInv, Topology, Directories, CacheInv, CacheTrue, Place, Building,
  Moving, Succeeds, TwoPlaces, NothingKept, NothingRetired, N, P, Exists, Publishing, PhaseOf,
  Checked, Fresh, AfterHash, Resetting, SecondLook, Goto, At, SetPhase, environment, disk, trees,
  Types, DiskTypeOK
<1>1. CASE Disclaim
  BY <1>1 DEF Disclaim, Directory, Scratch, DirectoryState
<1>2. CASE RetainFailure
  BY <1>2 DEF RetainFailure, Sealed, Directory, Scratch, DirectoryState
<1>3. CASE FinishCheck
  BY <1>3 DEF FinishCheck
<1>4. CASE FinishValidation
  BY <1>4 DEF FinishValidation, Sealed, Directory, Scratch, DirectoryState
<1>5. CASE DropJournal
  BY <1>5 DEF DropJournal, CloseJournal, PruneThen, NoJournal
<1> QED BY <1>1, <1>2, <1>3, <1>4, <1>5 DEF Guard

\* A crash or exception at any step leaves a disk that the phase describes.
LEMMA OthersKeep ==
    ASSUME Types, WriterInv, PublicationInv, Begins \/ Clean \/ Throws \/ Crash \/ Edit
    PROVE  PublicationInv'
<1> USE DEF PublicationInv, DiskInv, Topology, Directories, CacheInv, CacheTrue, Place, Building,
  Moving, Succeeds, TwoPlaces, NothingKept, NothingRetired, N, P, Exists, Publishing, PhaseOf,
  Checked, Fresh, AfterHash, Resetting, SecondLook, Goto, At, SetPhase, environment, disk, trees,
  Types, DiskTypeOK
<1>1. CASE Begins
  BY <1>1 DEF Begins, StartBuild, StartCheck, StartClean, Start
<1>2. CASE Clean
  BY <1>2 DEF Clean
<1>3. CASE Throws
  BY <1>3 DEF Throws, Throw, Leave, Compromised, Abandon, WriterInv
<1>4. CASE Crash
  BY <1>4 DEF Crash, Leave, Compromised, Abandon, WriterInv
<1>5. CASE Edit
  BY <1>5, VersionAssumption DEF Edit, control
<1> QED BY <1>1, <1>2, <1>3, <1>4, <1>5 DEF Begins

\* All steps together.
LEMMA PublicationStep ==
    ASSUME Types, WriterInv, PublicationInv, [Next]_vars
    PROVE  PublicationInv'
<1>1. CASE SupervisorActs \/ ProcessesAct \/ OrphansDie \/ UNCHANGED vars
  BY <1>1, NothingMoves DEF SupervisorActs, ProcessesAct, OrphansDie, environment, vars
<1> QED BY <1>1, RecoverKeeps, PruneKeeps, BuildKeeps, PublishKeeps, CheckKeeps, GuardKeeps,
           OthersKeep DEF Next, Step

-----------------------------------------------------------------------------
(* The theorems.                                                           *)

Inv == ChildTypeOK /\ Types /\ WriterInv /\ PublicationInv

\* The inductive invariant of a project's disk, its process and its children.
THEOREM Invariance == Spec => []Inv
<1>1. Init => Inv
  BY WriterInit, TypesInit, PublicationInit DEF Inv
<1>2. Inv /\ [Next]_vars => Inv'
  BY ChildTypes, TypesStep, WriterStep, PublicationStep DEF Inv
<1> QED BY <1>1, <1>2, PTL DEF Spec

\* The records on disk and the supervisor's job are always of their types.
THEOREM TypeCorrect == Spec => [](ChildTypeOK /\ DiskTypeOK)
<1>1. Inv => ChildTypeOK /\ DiskTypeOK
  BY DEF Inv, Types
<1> QED BY <1>1, Invariance, PTL

\* recover (NativeOutputs.cpp:479) accepts what any publication leaves behind,
\* wherever it was killed or threw, and no scratch stays without an owner.
THEOREM RecoveryAccepted == Spec => []PublicationRecovers
<1>1. ASSUME Inv PROVE PublicationRecovers
  <2> USE <1>1 DEF Inv, PublicationInv, DiskInv, Types, DiskTypeOK
  <2>1. ASSUME journal.phase \notin Blocking, journal.phase # "none" PROVE RecoverAccepts
    <3>1. journal.phase \in Publishing
      BY <2>1 DEF Journal, Phase, Publishing, Blocking
    <3>2. OwnersKnown
      BY <3>1 DEF Topology, Succeeds, OwnersKnown, N, P
    <3> USE DEF Exists, Matches, Retired, N, P, TwoPlaces, NothingRetired, Succeeds, Topology
    <3>3. journal.phase = "staged" => StagedKnown
      BY <3>1 DEF StagedKnown
    <3>4. journal.phase \in {"ready", "backed-up"} => Undoable \/ Promotable
      BY <3>1 DEF Undoable, Promotable
    <3>5. journal.phase \in {"rolling-back", "rolled-back"} => RollbackKnown
      BY <3>1 DEF RollbackKnown
    <3>6. journal.phase \in {"promoted", "retiring-backup", "completed"} => CleanupKnown
      BY <3>1 DEF CleanupKnown
    <3> QED BY <3>1, <3>2, <3>3, <3>4, <3>5, <3>6 DEF RecoverAccepts, Publishing
  <2>2. journal.phase = "none" => RecoverAccepts
    BY DEF RecoverAccepts, Topology, Publishing, Exists
  <2>3. ASSUME journal.phase = "none", NEW d \in {"work", "validation"}
        PROVE  \/ directory[d] \in {"absent", "sealed"}
               \/ directory[d] = "partial" /\ retirement = d
    BY <2>3 DEF Directories, Directory, Scratch, DirectoryState
  <2> QED BY <2>1, <2>2, <2>3 DEF PublicationRecovers, Blocking
<1> QED BY <1>1, Invariance, PTL

-----------------------------------------------------------------------------
(* The output is atomic.                                                   *)

\* Outside a publication the output is current.
LEMMA PublishedIsCurrent ==
    ASSUME Inv, journal.phase \notin Publishing
    PROVE  Published = current
  BY DEF Inv, PublicationInv, DiskInv, Topology, Published, Exists

\* A journal that opens or closes outside a publication shows nobody anything.
LEMMA OutsidePublication ==
    ASSUME Inv, Inv', UNCHANGED current, journal.phase \notin Publishing,
           journal'.phase \notin Publishing
    PROVE  UNCHANGED Published
<1>1. Published = current
  BY PublishedIsCurrent
<1>2. Published' = current'
  BY DEF Inv, PublicationInv, DiskInv, Topology, Published, Exists
<1> QED BY <1>1, <1>2

\* Recovery restores or keeps what was published, and never decides anew.
LEMMA RecoverRestores ==
    ASSUME Inv, Recover
    PROVE  UNCHANGED Published
<1> USE DEF Inv, PublicationInv, DiskInv, Types, DiskTypeOK, Topology, Moving, Succeeds,
  TwoPlaces, N, P, Exists, Publishing, Published, Forward, At, SetPhase, disk, trees, Journal
<1>1. CASE NothingToRecover \/ KeepStaged \/ ResumeRollback \/ SealWork
  BY <1>1 DEF NothingToRecover, KeepStaged, ResumeRollback, SealWork
<1>2. CASE BeginRollback \/ RolledBack
  BY <1>2 DEF BeginRollback, RolledBack
<1>3. CASE RestoreBackup \/ RetireCandidate
  BY <1>3 DEF RestoreBackup, RetireCandidate
<1>4. CASE RollForward \/ BeginCleanup \/ Completed
  BY <1>4 DEF RollForward, BeginCleanup, Completed, Promotable
<1>5. CASE RetireBackup
  BY <1>5 DEF RetireBackup
<1>6. CASE RetireJournal
  BY <1>6 DEF RetireJournal, NoJournal
<1> QED BY <1>1, <1>2, <1>3, <1>4, <1>5, <1>6 DEF Recover

\* Of the steps of a publication only one rename shows.
LEMMA PublishReplaces ==
    ASSUME Inv, Publish
    PROVE  A!Next \/ UNCHANGED Published
<1> USE DEF Inv, PublicationInv, DiskInv, Place, Types, DiskTypeOK, Topology, Moving, Succeeds,
  TwoPlaces, N, P, Exists, Publishing, Published, Forward, At, SetPhase, trees, Journal
<1>1. CASE KeepInputs \/ SealCache \/ ToCandidate
  BY <1>1 DEF KeepInputs, SealCache, ToCandidate
<1>2. CASE Stage
  BY <1>2 DEF Stage
<1>3. CASE BackUp
  BY <1>3 DEF BackUp
<1>4. CASE EnterPhase
  BY <1>4 DEF EnterPhase
<1>5. CASE Promote
  <2>1. Published = P
    BY <1>5 DEF Promote
  <2>2. Published' = N
    BY <1>5 DEF Promote
  <2>3. N.revision > P.revision /\ N.objects = N.inputs
    BY <1>5 DEF Promote, Tree
  <2> QED BY <2>1, <2>2, <2>3 DEF A!Next, A!Replace
<1> QED BY <1>1, <1>2, <1>3, <1>4, <1>5 DEF Publish

\* Every step is a replacement of the output or does not show.
LEMMA StepRefines ==
    ASSUME Inv, Inv', [Next]_vars
    PROVE  A!Next \/ UNCHANGED Published
<1>1. ASSUME UNCHANGED <<journal, current, candidate, backup>> PROVE UNCHANGED Published
  BY <1>1 DEF Published, Forward, Exists
<1>2. CASE \/ SupervisorActs \/ ProcessesAct \/ OrphansDie \/ Edit \/ Begins \/ Crash \/ Throws
           \/ Clean \/ Prune \/ UNCHANGED vars
  BY <1>2, <1>1 DEF SupervisorActs, ProcessesAct, OrphansDie, Edit, Begins, StartBuild, StartCheck,
    StartClean, Start, Crash, Throws, Clean, Prune, BeginRetirement, DeleteFiles, RemoveDirectory,
    CloseRetirement, RetirementEnds, vars, disk, trees
<1>3. pc \in {"begin", "reopen", "check", "compare", "close", "dropJournal"} =>
         journal.phase \notin Publishing
  BY DEF Inv, PublicationInv, Place, PhaseOf, Checked, Publishing
<1>4. journal'.phase \in Blocking \cup {"none"} => journal'.phase \notin Publishing
  BY DEF Blocking, Publishing
<1>5. ASSUME CloseJournal, pc \in {"compare", "close", "dropJournal"} PROVE UNCHANGED Published
  BY <1>5, <1>3, <1>4, OutsidePublication DEF CloseJournal, NoJournal, trees
<1>6. CASE Build
  <2>1. CASE Begin \/ Reopen
    BY <2>1, <1>3, <1>4, OutsidePublication DEF Begin, Reopen, OpenJournal, NoJournal, Blocking, At,
      trees
  <2>2. CASE Reuse \/ Reset
    BY <2>2, <1>3, <1>4, OutsidePublication DEF Reuse, Reset, NoJournal, At, trees
  <2>3. CASE Increment \/ FirstBuild \/ Compile \/ Compiled \/ Generate \/ Generated \/ Assemble
    BY <2>3, <1>1 DEF Increment, FirstBuild, Compile, Compiled, Generate, Generated, Assemble,
      disk, trees
  <2>4. ASSUME NEW step, NEW after, NEW d, Evaluate(step, after, d) \/ Hashed(step, after, d)
        PROVE  UNCHANGED Published
    BY <2>4, <1>1 DEF Evaluate, Hashed, trees
  <2> QED BY <1>6, <2>1, <2>2, <2>3, <2>4 DEF Build
<1>7. CASE CheckOutput
  <2>1. CASE Check
    BY <2>1, <1>3, <1>4, OutsidePublication DEF Check, OpenJournal, NoJournal, Blocking, At, trees
  <2>2. CASE Inspected \/ Validated
    BY <2>2, <1>5 DEF Inspected, Validated, At
  <2>3. CASE RunTarget \/ TargetRan \/ SealLogs
    BY <2>3, <1>1 DEF RunTarget, TargetRan, SealLogs, disk, trees
  <2> QED BY <1>7, <2>1, <2>2, <2>3 DEF CheckOutput
<1>8. CASE Guard
  <2>1. CASE Disclaim \/ RetainFailure \/ FinishCheck \/ FinishValidation
    BY <2>1, <1>1 DEF Disclaim, RetainFailure, FinishCheck, FinishValidation, disk, trees
  <2>2. CASE DropJournal
    BY <2>2, <1>5 DEF DropJournal, At
  <2> QED BY <1>8, <2>1, <2>2 DEF Guard
<1> QED BY <1>2, <1>6, <1>7, <1>8, RecoverRestores, PublishReplaces DEF Next, Step

\* What a reader finds, or would after recovery, is always the whole output of
\* one build, of the inputs it names, and is replaced at one rename by that of
\* a later build: NativePublication implements AtomicOutput.
THEOREM OutputIsAtomic == Spec => KeepsOutput
<1>1. Init => A!Init
  BY DEF Init, A!Init, Published, Exists, NoTree, NoJournal
<1>2. Inv /\ Inv' /\ [Next]_vars => [A!Next]_Published
  BY StepRefines
<1> QED BY <1>1, <1>2, Invariance, PTL DEF Spec, KeepsOutput, A!Spec
=============================================================================
