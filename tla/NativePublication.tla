-------------------------- MODULE NativePublication --------------------------
(***************************************************************************)
(* The output of a native project (ARTestDev's NativeOutputs and           *)
(* NativeRetention): Build, Inspect, Validate and Clean of one project and *)
(* configuration, each a process that holds operation.lock.                *)
(*                                                                         *)
(* One action per durable step: a rename, a file replacement, a marker.    *)
(* Between any two of them the process may die, and with it the supervisor *)
(* of a compiler that goes on for a moment; or the step throws, and the    *)
(* scope guards of the operation clean up.  What survives is on disk: the  *)
(* trees, the scratch directories with their seals, the transaction        *)
(* journal and the retirement journal.                                     *)
(***************************************************************************)
EXTENDS TreeProcess, FiniteSets

CONSTANTS Versions,    \* states the project's inputs can be in
          MaxBuilds    \* bound on the builds begun

ASSUME MaxBuildsAssumption == MaxBuilds \in Nat

Unknown == "unknown"
Mixed == "mixed"     \* objects of an interrupted or failed compilation

ASSUME VersionAssumption == Versions \cap {Unknown, Mixed} = {}

\* An output tree by its ownership record: the build that assembled it, the
\* inputs it was compiled from by its own account, and those it really was.
Tree == [revision : Nat, inputs : Versions \cup {Unknown},
         objects : Versions \cup {Unknown, Mixed}]
NoTree == [revision |-> 0, inputs |-> Unknown, objects |-> Unknown]

Phase == {"none", "building", "checking", "validating", "staged", "ready", "backed-up",
          "rolling-back", "rolled-back", "promoted", "retiring-backup", "completed"}

\* transaction.json; next and prior are candidateOwner and previousOwner.
Journal == [phase : Phase, previous : BOOLEAN, next : Tree, prior : Tree]
NoJournal == [phase |-> "none", previous |-> FALSE, next |-> NoTree, prior |-> NoTree]

\* Directories with a scratch.json once they are sealed.  A partial one has
\* lost files to a retirement.
Scratch == {"evaluation", "reevaluation", "validation", "work"}
Directory == Scratch \cup {"intermediates"}
DirectoryState == {"absent", "unsealed", "sealed", "partial"}

VARIABLES
    journal,       \* transaction.json
    retirement,    \* retirement.json: the directory it names
    current, candidate, backup,   \* the output trees of the state directory
    kept,          \* the trees inside the work directory
    directory,     \* the scratch directories and intermediates
    cache,         \* intermediates: [inputs : of inputs.json, objects]
    sources,       \* the project's inputs as they are now
    \* The process of the operation.
    operation,     \* what holds operation.lock
    pc,            \* the step it is about to take
    next,          \* where it goes on after prune
    guarded,       \* its scope guard would still act
    rebuild,       \* the build was asked to reuse nothing
    seen,          \* the inputs it has hashed and keeps write-locked
    revision,      \* the last revision drawn
    orphans        \* processes of a dead supervisor that are still alive

trees == <<current, candidate, backup, kept>>
disk == <<journal, retirement, trees, directory, cache>>
control == <<operation, pc, next, guarded, rebuild, seen, revision>>
environment == <<sources, orphans>>
vars == <<disk, control, environment, childVars>>

Init ==
    /\ journal = NoJournal /\ retirement = "none"
    /\ current = NoTree /\ candidate = NoTree /\ backup = NoTree
    /\ kept = [name \in {"assembled", "retired-candidate", "retired-backup"} |-> NoTree]
    /\ directory = [d \in Directory |-> "absent"]
    /\ cache = [inputs |-> Unknown, objects |-> Unknown]
    /\ sources \in Versions
    /\ operation = "none" /\ pc = "idle" /\ next = "none"
    /\ guarded = FALSE /\ rebuild = FALSE /\ seen = Unknown /\ revision = 0
    /\ orphans = FALSE
    /\ ChildInit

-----------------------------------------------------------------------------
Exists(tree) == tree # NoTree

At(step) == pc = step /\ ~job.busy

Goto(step) ==
    /\ pc' = step
    /\ UNCHANGED <<operation, next, guarded, rebuild, seen, revision, environment, childVars>>

\* run: a child is started, and waited for at the next step.
Launch(step) ==
    /\ StartChild(step = "compiling")
    /\ pc' = step
    /\ UNCHANGED <<operation, next, guarded, rebuild, seen, revision, environment>>

\* The TreeProcess is gone and with it the job's handle: what is left in the
\* job dies, but a moment later.
Abandon == ForgetChild /\ orphans' = (orphans \/ TreeAlive)

\* run has returned.
Collect(step) ==
    /\ RunSucceeded
    /\ Abandon
    /\ pc' = step
    /\ UNCHANGED <<operation, next, guarded, rebuild, revision, sources>>

\* Prune, then go on: at the end of recover and after an operation's work.
PruneThen(step) ==
    /\ pc' = "prune" /\ next' = step
    /\ UNCHANGED <<operation, guarded, rebuild, seen, revision, environment, childVars>>

\* The operation returns or throws to its caller: locks and handles are gone.
Leave ==
    /\ operation' = "none" /\ pc' = "idle" /\ next' = "none"
    /\ guarded' = FALSE /\ rebuild' = FALSE /\ seen' = Unknown
    /\ UNCHANGED revision

\* An exception: the scope guard acts once, if there is one by now.
Throw ==
    IF guarded
    THEN /\ pc' = "guard" /\ guarded' = FALSE
         /\ UNCHANGED <<operation, next, rebuild, seen, revision>>
    ELSE Leave

SetPhase(phase) == journal' = [journal EXCEPT !.phase = phase]

Seal(d) == directory' = [directory EXCEPT ![d] = "sealed"]
Make(d) == directory' = [directory EXCEPT ![d] = IF @ = "absent" THEN "unsealed" ELSE @]

-----------------------------------------------------------------------------
(* recover: what it finds, and what it does about it.                      *)

Retired(name) == Exists(kept[name])

Matches(tree, owner) == Exists(tree) => tree = owner

OwnersKnown == Exists(journal.next) /\ (journal.previous => Exists(journal.prior))

\* Staged and not renamed yet: only the journal has to go.
StagedKnown ==
    /\ ~Exists(backup) /\ (Exists(current) <=> journal.previous)
    /\ Exists(candidate) # Retired("assembled")
    /\ Matches(current, journal.prior)
    /\ Retired("assembled") => /\ kept["assembled"] = journal.next
                               /\ ~Retired("retired-candidate") /\ ~Retired("retired-backup")

\* The candidate is whole, and the output before it lies in one place.
Undoable ==
    /\ Exists(candidate)
    /\ \/ (Exists(current) <=> journal.previous) /\ ~Exists(backup)
       \/ journal.previous /\ ~Exists(current) /\ Exists(backup)
    /\ candidate = journal.next
    /\ Matches(current, journal.prior) /\ Matches(backup, journal.prior)
    /\ ~Retired("retired-candidate") /\ ~Retired("retired-backup")

\* The last rename happened and was not recorded.
Promotable ==
    /\ journal.phase = "backed-up"
    /\ Exists(current) /\ ~Exists(candidate)
    /\ Exists(backup) <=> journal.previous
    /\ current = journal.next /\ Matches(backup, journal.prior)

RollbackKnown ==
    /\ ~Retired("retired-backup")
    /\ IF journal.previous THEN Exists(current) # Exists(backup)
       ELSE ~Exists(current) /\ ~Exists(backup)
    /\ Exists(candidate) # Retired("retired-candidate")
    /\ Matches(current, journal.prior) /\ Matches(backup, journal.prior)
    /\ Matches(candidate, journal.next) /\ Matches(kept["retired-candidate"], journal.next)

CleanupKnown ==
    /\ current = journal.next /\ ~Exists(candidate) /\ ~Retired("retired-candidate")
    /\ IF journal.previous THEN Exists(backup) # Retired("retired-backup")
       ELSE ~Exists(backup) /\ ~Retired("retired-backup")
    /\ Matches(backup, journal.prior) /\ Matches(kept["retired-backup"], journal.prior)

\* No require() of recover refuses what is on disk.
RecoverAccepts ==
    IF journal.phase = "none" THEN ~Exists(candidate) /\ ~Exists(backup)
    ELSE /\ OwnersKnown
         /\ \/ journal.phase = "staged" /\ StagedKnown
            \/ journal.phase \in {"ready", "backed-up"} /\ (Undoable \/ Promotable)
            \/ journal.phase \in {"rolling-back", "rolled-back"} /\ RollbackKnown
            \/ journal.phase \in {"promoted", "retiring-backup", "completed"} /\ CleanupKnown

NothingToRecover ==
    /\ At("recover")
    /\ journal.phase = "none" /\ RecoverAccepts
    /\ Goto("prune")
    /\ UNCHANGED disk

KeepStaged ==
    /\ At("recover") /\ RecoverAccepts
    /\ journal.phase = "staged" /\ ~Exists(candidate)
    /\ Seal("work")
    /\ Goto("retireJournal")
    /\ UNCHANGED <<journal, retirement, trees, cache>>

\* Fault: the intent to roll back is not recorded before the renames.
FaultyBeginRollback ==
    /\ At("recover") /\ RecoverAccepts
    /\ journal.phase \in {"staged", "ready", "backed-up"} /\ Exists(candidate)
    /\ Goto("restore")
    /\ UNCHANGED disk

\* The intent is there before either rename.
BeginRollback ==
    /\ At("recover") /\ RecoverAccepts
    /\ journal.phase \in {"staged", "ready", "backed-up"} /\ Exists(candidate)
    /\ SetPhase("rolling-back")
    /\ Goto("restore")
    /\ UNCHANGED <<retirement, trees, directory, cache>>

ResumeRollback ==
    /\ At("recover") /\ RecoverAccepts
    /\ journal.phase \in {"rolling-back", "rolled-back"}
    /\ Goto("restore")
    /\ UNCHANGED disk

RestoreBackup ==
    /\ At("restore")
    /\ \/ ~Exists(backup) /\ UNCHANGED <<current, backup>>
       \/ Exists(backup) /\ current' = backup /\ backup' = NoTree
    /\ Goto("retireCandidate")
    /\ UNCHANGED <<journal, retirement, candidate, kept, directory, cache>>

RetireCandidate ==
    /\ At("retireCandidate")
    /\ \/ ~Exists(candidate) /\ UNCHANGED <<candidate, kept, directory>>
       \/ /\ Exists(candidate)
          /\ Make("work")
          /\ kept' = [kept EXCEPT !["retired-candidate"] = candidate]
          /\ candidate' = NoTree
    /\ Goto("rolledBack")
    /\ UNCHANGED <<journal, retirement, current, backup, cache>>

RolledBack ==
    /\ At("rolledBack")
    /\ SetPhase("rolled-back")
    /\ Goto("sealWork")
    /\ UNCHANGED <<retirement, trees, directory, cache>>

RollForward ==
    /\ At("recover") /\ OwnersKnown /\ Promotable /\ CleanupKnown
    /\ SetPhase("promoted")
    /\ Goto("cleanUp")
    /\ UNCHANGED <<retirement, trees, directory, cache>>

BeginCleanup ==
    /\ \/ At("cleanUp")
       \/ /\ At("recover") /\ RecoverAccepts
          /\ journal.phase \in {"promoted", "retiring-backup", "completed"}
    /\ SetPhase("retiring-backup")
    /\ Goto("retireBackup")
    /\ UNCHANGED <<retirement, trees, directory, cache>>

RetireBackup ==
    /\ At("retireBackup")
    /\ \/ ~Exists(backup) /\ UNCHANGED <<backup, kept, directory>>
       \/ /\ Exists(backup)
          /\ Make("work")
          /\ kept' = [kept EXCEPT !["retired-backup"] = backup]
          /\ backup' = NoTree
    /\ Goto("completed")
    /\ UNCHANGED <<journal, retirement, current, candidate, cache>>

Completed ==
    /\ At("completed")
    /\ SetPhase("completed")
    /\ Goto("sealWork")
    /\ UNCHANGED <<retirement, trees, directory, cache>>

\* The work directory becomes scratch that prune may retire.
SealWork ==
    /\ At("sealWork")
    /\ \/ directory["work"] = "absent" /\ UNCHANGED directory
       \/ /\ directory["work"] # "absent"
          /\ Matches(kept["assembled"], journal.next)
          /\ Matches(kept["retired-candidate"], journal.next)
          /\ Matches(kept["retired-backup"], journal.prior)
          /\ Seal("work")
    /\ Goto("retireJournal")
    /\ UNCHANGED <<journal, retirement, trees, cache>>

RetireJournal ==
    /\ At("retireJournal")
    /\ journal' = NoJournal
    /\ Goto("prune")
    /\ UNCHANGED <<retirement, trees, directory, cache>>

Recover ==
    \/ NothingToRecover \/ KeepStaged \/ BeginRollback \/ ResumeRollback \/ RestoreBackup
    \/ RetireCandidate \/ RolledBack \/ RollForward \/ BeginCleanup \/ RetireBackup
    \/ Completed \/ SealWork \/ RetireJournal

-----------------------------------------------------------------------------
(* prune and retireScratch: sealed scratch is deleted under an intent that  *)
(* outlives the process.                                                   *)

\* What this retirement is about: prune takes all scratch, the others the
\* intermediates.
Retirable == IF pc = "prune" THEN Scratch ELSE {"intermediates"}

BeginRetirement ==
    /\ At("prune") \/ At("reset")
    /\ retirement = "none" /\ journal.phase = "none"
    /\ \E d \in Retirable : directory[d] = "sealed" /\ retirement' = d
    /\ UNCHANGED <<journal, trees, directory, cache, control, environment, childVars>>

\* Files go one by one: the directory is no more what its seal says, and only
\* the intent can tell what may still be deleted.
DeleteFiles ==
    /\ At("prune") \/ At("reset")
    /\ retirement # "none" /\ journal.phase = "none"
    /\ directory[retirement] = "sealed"
    /\ directory' = [directory EXCEPT ![retirement] = "partial"]
    /\ IF retirement = "work"
       THEN kept' = [name \in DOMAIN kept |-> NoTree] ELSE UNCHANGED kept
    /\ IF retirement = "intermediates"
       THEN cache' = [inputs |-> Unknown, objects |-> Unknown] ELSE UNCHANGED cache
    /\ UNCHANGED <<journal, retirement, current, candidate, backup, control, environment, childVars>>

RemoveDirectory ==
    /\ At("prune") \/ At("reset")
    /\ retirement # "none" /\ journal.phase = "none"
    /\ directory[retirement] = "partial"
    /\ directory' = [directory EXCEPT ![retirement] = "absent"]
    /\ UNCHANGED <<journal, retirement, trees, cache, control, environment, childVars>>

CloseRetirement ==
    /\ At("prune") \/ At("reset")
    /\ retirement # "none" /\ journal.phase = "none"
    /\ directory[retirement] = "absent"
    /\ retirement' = "none"
    /\ UNCHANGED <<journal, trees, directory, cache, control, environment, childVars>>

\* Nothing is left to retire.  Scratch without a seal is never touched: with
\* some of it the only way on is the exception.
RetirementEnds ==
    /\ At("prune") \/ At("reset")
    /\ retirement = "none"
    /\ \A d \in Retirable : directory[d] = "absent"
    /\ IF next = "end" THEN Leave /\ UNCHANGED <<environment, childVars>> ELSE Goto(next)
    /\ UNCHANGED disk

Prune == BeginRetirement \/ DeleteFiles \/ RemoveDirectory \/ CloseRetirement \/ RetirementEnds

-----------------------------------------------------------------------------
(* Build, Inspect, Validate and Clean.                                     *)

Start(op, step, after) ==
    /\ pc = "idle"
    /\ operation' = op /\ pc' = step /\ next' = after
    /\ UNCHANGED <<disk, guarded, seen, revision, environment, childVars>>

StartBuild ==
    /\ revision < MaxBuilds
    /\ Start("build", "recover", "begin")
    /\ rebuild' \in BOOLEAN

\* Everything but a build leaves an interrupted publication alone.
StartCheck ==
    /\ journal.phase = "none"
    /\ \E op \in {"inspect", "validate"} : Start(op, "prune", "check")
    /\ UNCHANGED rebuild

StartClean ==
    /\ journal.phase = "none" /\ retirement = "none"
    /\ Start("clean", "prune", "clean")
    /\ UNCHANGED rebuild

\* The journal is there before the first child runs.
OpenJournal(phase) ==
    /\ journal' = [NoJournal EXCEPT !.phase = phase, !.previous = Exists(current)]
    /\ pc' = "evaluate" /\ guarded' = TRUE
    /\ UNCHANGED <<retirement, trees, directory, cache, operation, next, rebuild, seen,
                   environment, childVars>>

Begin ==
    /\ At("begin")
    /\ directory["intermediates"] \in {"absent", "sealed"}
    /\ OpenJournal("building")
    /\ revision' = revision + 1

Check ==
    /\ At("check")
    /\ Exists(current)
    /\ OpenJournal(IF operation = "inspect" THEN "checking" ELSE "validating")
    /\ UNCHANGED revision

Clean ==
    /\ At("clean")
    /\ pc' = "reset" /\ next' = "end"
    /\ UNCHANGED <<disk, operation, guarded, rebuild, seen, revision, environment, childVars>>

\* inputs: MSBuild evaluates the project in a directory of its own.
Evaluate(step, after, d) ==
    /\ At(step)
    /\ Make(d)
    /\ Launch(after)
    /\ UNCHANGED <<journal, retirement, trees, cache>>

\* Then every input is hashed, and its handle kept: from here to the end of
\* the operation nobody writes it.
Hashed(step, after, d) ==
    /\ At(step) /\ Collect(after)
    /\ Seal(d)
    /\ seen' = sources
    /\ UNCHANGED <<journal, retirement, trees, cache>>

Reusable ==
    ~rebuild /\ Exists(current) /\ current.inputs = seen /\ cache.inputs = seen

Reuse ==
    /\ At("compare") /\ operation = "build"
    /\ Reusable
    /\ journal' = NoJournal
    /\ PruneThen("end")
    /\ UNCHANGED <<retirement, trees, directory, cache>>

\* Only sources differ: the objects made from others of them are removed.
Increment ==
    /\ At("compare") /\ operation = "build"
    /\ ~Reusable /\ ~rebuild /\ cache.inputs # Unknown
    /\ directory' = [directory EXCEPT !["intermediates"] = "unsealed"]
    /\ Goto("compile")
    /\ UNCHANGED <<journal, retirement, trees, cache>>

\* A full build starts from empty intermediates; without a child, and with
\* current untouched, the journal may be away for that long.
Reset ==
    /\ At("compare") /\ operation = "build"
    /\ ~Reusable /\ directory["intermediates"] # "absent"
    /\ journal' = NoJournal
    /\ pc' = "reset" /\ next' = "reopen"
    /\ UNCHANGED <<retirement, trees, directory, cache, operation, guarded, rebuild, seen,
                   revision, environment, childVars>>

Reopen ==
    /\ At("reopen")
    /\ journal' = [NoJournal EXCEPT !.phase = "building", !.previous = Exists(current)]
    /\ Goto("compile")
    /\ UNCHANGED <<retirement, trees, directory, cache>>

\* The first build of all has no intermediates to reset.
FirstBuild ==
    /\ At("compare") /\ operation = "build"
    /\ ~Reusable /\ directory["intermediates"] = "absent"
    /\ Goto("compile")
    /\ UNCHANGED disk

Compile ==
    /\ At("compile")
    /\ directory' = [directory EXCEPT !["intermediates"] = "unsealed", !["work"] = "unsealed"]
    /\ Launch("compiling")
    /\ UNCHANGED <<journal, retirement, trees, cache>>

\* What an incremental compilation yields is of the inputs only if the
\* objects it found were those its inputs.json named.
Compiled ==
    /\ At("compiling") /\ Collect("generate")
    /\ cache' = [cache EXCEPT !.objects = IF cache.objects = cache.inputs THEN sources ELSE Mixed]
    /\ UNCHANGED <<journal, retirement, trees, directory, seen>>

Generate ==
    /\ At("generate")
    /\ Goto("reevaluate") \/ Launch("generating")
    /\ UNCHANGED disk

Generated ==
    /\ At("generating") /\ Collect("reevaluate")
    /\ UNCHANGED <<disk, seen>>

Assemble ==
    /\ At("assemble")
    /\ kept' = [kept EXCEPT !["assembled"] =
                   [revision |-> revision, inputs |-> seen, objects |-> cache.objects]]
    /\ guarded' = FALSE /\ pc' = "keepInputs"
    /\ UNCHANGED <<journal, retirement, current, candidate, backup, directory, cache,
                   operation, next, rebuild, seen, revision, environment, childVars>>

KeepInputs ==
    /\ At("keepInputs")
    /\ cache' = [cache EXCEPT !.inputs = seen]
    /\ Goto("sealCache")
    /\ UNCHANGED <<journal, retirement, trees, directory>>

SealCache ==
    /\ At("sealCache")
    /\ Seal("intermediates")
    /\ Goto("stage")
    /\ UNCHANGED <<journal, retirement, trees, cache>>

\* promote: a journal for every rename.
Stage ==
    /\ At("stage")
    /\ journal' = [phase |-> "staged", previous |-> journal.previous,
                   next |-> kept["assembled"], prior |-> current]
    /\ Goto("toCandidate")
    /\ UNCHANGED <<retirement, trees, directory, cache>>

ToCandidate ==
    /\ At("toCandidate")
    /\ candidate' = kept["assembled"] /\ kept' = [kept EXCEPT !["assembled"] = NoTree]
    /\ Goto("ready")
    /\ UNCHANGED <<journal, retirement, current, backup, directory, cache>>

BackUp ==
    /\ At("backUp")
    /\ \/ ~Exists(current) /\ UNCHANGED <<current, backup>>
       \/ Exists(current) /\ backup' = current /\ current' = NoTree
    /\ Goto("backedUp")
    /\ UNCHANGED <<journal, retirement, candidate, kept, directory, cache>>

Promote ==
    /\ At("promote")
    /\ current' = candidate /\ candidate' = NoTree
    /\ Goto("promoted")
    /\ UNCHANGED <<journal, retirement, backup, kept, directory, cache>>

EnterPhase ==
    /\ \/ At("ready") /\ SetPhase("ready") /\ Goto("backUp")
       \/ At("backedUp") /\ SetPhase("backed-up") /\ Goto("promote")
       \/ /\ At("promoted") /\ SetPhase("promoted")
          /\ pc' = "recover" /\ next' = "end"
          /\ UNCHANGED <<operation, guarded, rebuild, seen, revision, environment, childVars>>
    /\ UNCHANGED <<retirement, trees, directory, cache>>

Publish ==
    \/ KeepInputs \/ SealCache \/ Stage \/ ToCandidate \/ BackUp \/ Promote \/ EnterPhase

\* Inspect and Validate: current has to be of the inputs just hashed.
CloseJournal ==
    /\ journal' = NoJournal
    /\ PruneThen("end")
    /\ UNCHANGED <<retirement, trees, directory, cache>>

Inspected ==
    /\ At("compare") /\ operation = "inspect"
    /\ current.inputs = seen
    /\ CloseJournal

\* The engine of the target installation runs on the package.
RunTarget ==
    /\ At("compare") /\ operation = "validate"
    /\ current.inputs = seen
    /\ Make("validation")
    /\ Launch("targeting")
    /\ UNCHANGED <<journal, retirement, trees, cache>>

TargetRan ==
    /\ At("targeting") /\ Collect("reevaluate")
    /\ UNCHANGED <<disk, seen>>

SealLogs ==
    /\ At("sealLogs")
    /\ Seal("validation")
    /\ Goto("close")
    /\ UNCHANGED <<journal, retirement, trees, cache>>

Validated == At("close") /\ CloseJournal

-----------------------------------------------------------------------------
(* What goes wrong.                                                        *)

\* The child may have left anything where it worked.
Compromised == [cache EXCEPT !.objects = IF pc = "compiling" THEN Mixed ELSE @]

\* Any step may throw in place of its effect: a file is busy, a child failed
\* or could not be started, a require() does not hold.  The scope guard may
\* fail like everything else, and then leaves things as they are; it does
\* nothing at all while a retirement is open.
Throws ==
    /\ pc # "idle" /\ ~job.busy
    /\ Throw
    /\ Abandon
    /\ cache' = Compromised
    /\ UNCHANGED <<journal, retirement, trees, directory, sources>>

\* Fault: a failed build leaves inputs.json to the next one.
FaultyDisclaim ==
    /\ At("guard") /\ operation = "build" /\ retirement = "none"
    /\ Goto("retain")
    /\ UNCHANGED disk

\* A failed build keeps its intermediates for the next one, but not the claim
\* of what they were made from.
Disclaim ==
    /\ At("guard") /\ operation = "build" /\ retirement = "none"
    /\ \/ cache.inputs = Unknown /\ UNCHANGED <<cache, directory>>
       \/ /\ cache.inputs # Unknown
          /\ cache' = [cache EXCEPT !.inputs = Unknown]
          /\ directory' = [directory EXCEPT !["intermediates"] = "unsealed"]
    /\ Goto("retain")
    /\ UNCHANGED <<journal, retirement, trees>>

Sealed(ds) ==
    [d \in Directory |-> IF d \in ds /\ directory[d] # "absent" THEN "sealed" ELSE directory[d]]

RetainFailure ==
    /\ At("retain")
    /\ directory' = Sealed({"intermediates", "work"})
    /\ Goto("dropJournal")
    /\ UNCHANGED <<journal, retirement, trees, cache>>

FinishCheck ==
    /\ At("guard") /\ operation = "inspect"
    /\ Goto("dropJournal")
    /\ UNCHANGED disk

FinishValidation ==
    /\ At("guard") /\ operation = "validate" /\ retirement = "none"
    /\ directory' = Sealed({"validation"})
    /\ Goto("dropJournal")
    /\ UNCHANGED <<journal, retirement, trees, cache>>

DropJournal == At("dropJournal") /\ CloseJournal

Guard == Disclaim \/ RetainFailure \/ FinishCheck \/ FinishValidation \/ DropJournal

\* The process is killed, as NativeService does to cancel it: its job handle
\* closes, and what it supervised dies a moment later.
Crash ==
    /\ pc # "idle"
    /\ Leave
    /\ cache' = Compromised
    /\ Abandon
    /\ UNCHANGED <<journal, retirement, trees, directory, sources>>

OrphansDie ==
    /\ orphans
    /\ orphans' = FALSE
    /\ UNCHANGED <<disk, sources, control, childVars>>

\* Somebody edits the project.
Edit ==
    /\ seen = Unknown
    /\ sources' \in Versions \ {sources}
    /\ UNCHANGED <<disk, control, orphans, childVars>>

-----------------------------------------------------------------------------
Begins == StartBuild \/ StartCheck \/ StartClean

Build ==
    \/ Begin \/ Reuse \/ Increment \/ Reset \/ Reopen \/ FirstBuild \/ Compile \/ Compiled
    \/ Generate \/ Generated \/ Assemble
    \/ Evaluate("evaluate", "evaluating", "evaluation")
    \/ Hashed("evaluating", "compare", "evaluation")
    \/ Evaluate("reevaluate", "reevaluating", "reevaluation")
    \/ Hashed("reevaluating", IF operation = "build" THEN "assemble" ELSE "sealLogs", "reevaluation")

CheckOutput ==
    \/ Check \/ Inspected \/ RunTarget \/ TargetRan \/ SealLogs \/ Validated

Step == Recover \/ Prune \/ Build \/ Publish \/ CheckOutput \/ Clean \/ Throws \/ Guard

SupervisorActs == SupervisorTurn /\ UNCHANGED <<disk, control, environment>>

ProcessesAct == ChildSteps /\ UNCHANGED <<disk, control, environment>>

Next == Begins \/ Step \/ SupervisorActs \/ ProcessesAct \/ Crash \/ OrphansDie \/ Edit

Spec == Init /\ [][Next]_vars

\* The process of an operation goes on, the supervisor's timer fires until
\* every limit has passed, and a terminated job dies some time.
FairSpec ==
    /\ Spec
    /\ WF_vars(Step)
    /\ WF_vars(LateTick /\ UNCHANGED <<disk, control, environment>>)
    /\ WF_vars(TerminatedDies /\ UNCHANGED <<disk, control, environment>>)

-----------------------------------------------------------------------------
(* Properties.                                                             *)

DiskTypeOK ==
    /\ journal \in Journal
    /\ retirement \in Directory \cup {"none"}
    /\ current \in Tree /\ candidate \in Tree /\ backup \in Tree
    /\ kept \in [{"assembled", "retired-candidate", "retired-backup"} -> Tree]
    /\ directory \in [Directory -> DirectoryState]
    /\ cache \in [inputs : Versions \cup {Unknown}, objects : Versions \cup {Unknown, Mixed}]
    /\ sources \in Versions

\* Whatever a publication left on disk, at whatever step it was killed or
\* threw, recover accepts it; and once no journal is left, all scratch that
\* could hold an output is under a seal or an open retirement, so that the
\* next prune can take it.
PublicationRecovers ==
    /\ journal.phase \notin {"building", "checking", "validating"} => RecoverAccepts
    /\ journal.phase = "none" =>
          \A d \in {"work", "validation"} :
              \/ directory[d] \in {"absent", "sealed"}
              \/ directory[d] = "partial" /\ retirement = d

\* While a child of an operation or anything it started is alive, that
\* operation waits for it; and no operation gets past its first look at the
\* disk while processes of an operation that was killed may still write.
OneWriter ==
    /\ TreeAlive => pc \in {"evaluating", "compiling", "generating", "targeting", "reevaluating"}
    /\ orphans => pc \in {"idle", "recover"}

\* What a reader finds as the output, or will once recovery is done.
Forward ==
    \/ journal.phase \in {"promoted", "retiring-backup", "completed"}
    \/ journal.phase = "backed-up" /\ ~Exists(candidate) /\ Exists(current)

Published == IF ~Forward /\ Exists(backup) THEN backup ELSE current

A == INSTANCE AtomicOutput WITH output <- Published

\* The output changes only at the one rename of a build's candidate, and only
\* to a later build's tree that is of the inputs it names: reused, failed and
\* interrupted compilations included.
KeepsOutput == A!Spec

\* An operation that holds the lock lets go of it, also with a child that
\* never ends, dies late or floods its output.
OperationEnds == (pc # "idle") ~> (pc = "idle")

\* NativeOutputs.cpp:70: "Input busy or inaccessible; retry after editing":
\* after an operation that failed without being killed, the next one is not
\* refused for what the failed one left behind.
FailureIsRetriable ==
    pc = "idle" /\ journal.phase = "none" /\ retirement = "none" =>
        \A d \in Scratch : directory[d] # "unsealed"
=============================================================================
