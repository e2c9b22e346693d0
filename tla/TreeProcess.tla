----------------------------- MODULE TreeProcess -----------------------------
(***************************************************************************)
(* TreeProcess: one child process with everything it starts, contained in  *)
(* a Windows job, and Native::run, which waits until that job is settled.  *)
(*                                                                         *)
(* The supervisor looks at the job in the turns of a timer; the processes  *)
(* come and go between any two of them.  Time is what a turn finds:        *)
(* whether the child's time is over, and whether the job was given its two *)
(* seconds to die.  The commit handshake is off, as in every native        *)
(* operation.                                                              *)
(***************************************************************************)
EXTENDS Naturals

VARIABLES
    root,      \* the child: its exit code once it has one
    family,    \* what else the job contains: user's processes, or only vctip.exe
    job        \* native_, compilerTelemetry_, stoppingNow_, reported_ and result_.status

childVars == <<root, family, job>>

Status == {"Success", "Failed", "Timeout", "OutputLimit", "StartFailed",
           "TerminationUnconfirmed"}

NoJob == [busy |-> FALSE, telemetry |-> FALSE, stopping |-> FALSE, reported |-> FALSE,
          status |-> "Failed"]

ChildInit == root = "none" /\ family = "none" /\ job = NoJob

\* The TreeProcess is destroyed: nobody watches its job any more.
ForgetChild == root' = "none" /\ family' = "none" /\ job' = NoJob

TreeAlive == root = "running" \/ family # "none"

-----------------------------------------------------------------------------
(* The supervisor.                                                         *)

\* Creation, containment and start are one: a child that cannot be put into
\* the job is killed while suspended and has done nothing.
StartChild(telemetry) ==
    /\ ~job.busy
    /\ \/ /\ root' = "running"
          /\ job' = [NoJob EXCEPT !.busy = TRUE, !.telemetry = telemetry]
       \/ /\ root' = "none"
          /\ job' = [NoJob EXCEPT !.status = "StartFailed"]
    /\ family' = "none"

\* stop: the first reason stands, except over the benign one, and terminates
\* the job once.
Stopped(j, reason) ==
    IF ~j.stopping THEN [j EXCEPT !.stopping = TRUE, !.status = reason]
    ELSE IF j.status = "Success" THEN [j EXCEPT !.status = reason]
    ELSE j

\* Fault: the end of the root is taken for the end of the job.
FaultyTreeGone == root # "running"

\* ActiveProcesses = 0 and the root's handle signalled.
TreeGone == ~TreeAlive

\* Only where the caller permitted it: with a child that runs the compiler.
OnlyTelemetryRemains == job.telemetry /\ root = "ok" /\ family = "telemetry"

\* The job is settled: the handles are closed, the result is final.
Settled(j) ==
    [j EXCEPT !.busy = FALSE,
              !.status = IF j.stopping THEN j.status
                         ELSE IF root = "ok" THEN "Success" ELSE "Failed"]

\* Fault: a child that is still running is never too late.
FaultyStopping(j, late) ==
    IF j.stopping \/ root = "running" THEN j
    ELSE IF ~late /\ OnlyTelemetryRemains THEN Stopped(j, "Success")
    ELSE Stopped(j, "Failed")

\* Why a job that nobody stopped yet is stopped in this turn, if it is.
Stopping(j, late) ==
    IF j.stopping \/ (root = "running" /\ ~late) THEN j
    ELSE IF root = "running" THEN Stopped(j, "Timeout")
    ELSE IF ~late /\ OnlyTelemetryRemains THEN Stopped(j, "Success")
    ELSE Stopped(j, "Failed")

\* A job that does not die in time is reported and goes on being watched.
Reported(j, overdue) ==
    IF overdue /\ ~j.reported
    THEN [j EXCEPT !.reported = TRUE, !.status = "TerminationUnconfirmed"]
    ELSE j

\* tick: drain the output, then look at the job.
Tick(overflow, late, overdue) ==
    /\ job.busy
    /\ overdue => job.stopping
    /\ LET drained == IF overflow THEN Stopped(job, "OutputLimit") ELSE job
       IN  job' = IF TreeGone THEN Settled(drained)
                  ELSE Reported(Stopping(drained, late), overdue)
    /\ UNCHANGED <<root, family>>

\* run returns the output of a child that was never reported and ended well;
\* otherwise it throws.  It does neither before the job is settled.
RunSucceeded == ~job.reported /\ job.status = "Success" /\ root = "ok"

-----------------------------------------------------------------------------
(* The processes of the job.                                               *)

Spawn ==
    /\ root = "running" /\ ~job.stopping
    /\ \/ family = "none" /\ family' = "telemetry"
       \/ family' = "user"
    /\ UNCHANGED <<root, job>>

RootExits ==
    /\ root = "running"
    /\ root' \in {"ok", "failed"}
    /\ UNCHANGED <<family, job>>

FamilyExits ==
    /\ \/ family # "none" /\ family' = "none"
       \/ family = "user" /\ family' = "telemetry"
    /\ UNCHANGED <<root, job>>

\* TerminateJobObject takes effect.
TerminatedDies ==
    /\ job.stopping /\ TreeAlive
    /\ root' = IF root = "running" THEN "failed" ELSE root
    /\ family' = "none"
    /\ UNCHANGED job

ChildSteps == Spawn \/ RootExits \/ FamilyExits \/ TerminatedDies

\* The timer goes on firing and every limit is reached some time.
LateTick == Tick(FALSE, TRUE, job.stopping)

SupervisorTurn == \E overflow, late, overdue \in BOOLEAN : Tick(overflow, late, overdue)

ChildTypeOK ==
    /\ root \in {"none", "running", "ok", "failed"}
    /\ family \in {"none", "telemetry", "user"}
    /\ job \in [busy : BOOLEAN, telemetry : BOOLEAN, stopping : BOOLEAN, reported : BOOLEAN,
                status : Status]
=============================================================================
