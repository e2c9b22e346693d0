----------------------------- MODULE EngineApi -----------------------------
(***************************************************************************)
(* The C API of ARTestEngine as several host threads use it: an engine     *)
(* context with its component catalog, compiled plans, and session handles *)
(* whose workers activate the catalog before they run.                     *)
(*                                                                         *)
(* EngineContext::mutex is held only for the critical sections that are    *)
(* single actions here.  A session's mutex is held across a whole wait.    *)
(* A worker is a thread named by its session; what it does once its        *)
(* runtime is prepared is module ExecutionSession's.                       *)
(***************************************************************************)
EXTENDS Integers

CONSTANTS Hosts,         \* threads of the host
          Sessions,      \* slots for session handles
          MaxRevision,   \* bound on the catalog preparations
          MaxCatalog     \* bound on the contents the package directory takes

ASSUME MaxRevisionAssumption == MaxRevision \in Nat \ {0}
ASSUME MaxCatalogAssumption == MaxCatalog \in Nat

Nobody == "nobody"

ASSUME ThreadAssumption == Hosts \cap Sessions = {} /\ Nobody \notin Hosts \cup Sessions

Threads == Hosts \cup Sessions

\* What the package directory holds, told apart by its fingerprint; 0 is an
\* empty directory.
Catalog == 0 .. MaxCatalog

\* A compiled plan: the revision it carries and the catalog its names were
\* resolved in.
Plan == [revision : 0 .. MaxRevision, catalog : Catalog]

VARIABLES
    disk,        \* external: what the package directory holds
    revision,    \* EngineContext::revision
    prepared,    \* EngineContext::prepared, as a fingerprint, and catalog
    active,      \* EngineContext::active
    loading,     \* EngineContext::loading
    registered,  \* the packages whose components the registries create
    lease,       \* the session whose runLease has not expired
    plans,       \* the compiled plans the host holds
    handle,      \* the life of each session handle
    plan,        \* the plan a session was started with
    hasResult,   \* ARTestSessionOpaque::result has a value
    holder,      \* owner of ARTestSessionOpaque::mutex
    at,          \* where each thread stands
    call         \* arguments of the call a host thread is in

catalogVars == <<disk, revision, prepared, active, loading, registered>>
sessionVars == <<lease, handle, plan, hasResult, holder>>
vars == <<catalogVars, sessionVars, plans, at, call>>

Activation == {"activate", "refresh", "registered", "rejected"}

HostLocation == Activation \cup {"idle", "launch", "lock", "waiting", "destroy"}

WorkerLocation == Activation \cup {"none", "running", "ending", "finished"}

NoCall == [session |-> Nobody, bounded |-> FALSE, overdue |-> FALSE]

NoPlan == [revision |-> 0, catalog |-> 0]

\* An engine is created without packages, or with the default directory's.
Init ==
    /\ disk \in Catalog
    /\ \/ revision = 0 /\ prepared = 0
       \/ revision = 1 /\ prepared = disk
    /\ active = FALSE
    /\ loading = FALSE
    /\ registered = 0
    /\ lease = Nobody
    /\ plans = {}
    /\ handle = [s \in Sessions |-> "free"]
    /\ plan = [s \in Sessions |-> NoPlan]
    /\ hasResult = [s \in Sessions |-> FALSE]
    /\ holder = [s \in Sessions |-> Nobody]
    /\ at = [t \in Threads |-> IF t \in Hosts THEN "idle" ELSE "none"]
    /\ call = [h \in Hosts |-> NoCall]

Goto(t, location) == at' = [at EXCEPT ![t] = location]
-----------------------------------------------------------------------------
(* The catalog.                                                            *)

\* Somebody installs or removes a package.
ChangeDisk ==
    /\ disk' \in Catalog
    /\ UNCHANGED <<revision, prepared, active, loading, registered, sessionVars, plans, at, call>>

\* Fault: a catalog being loaded is not locked.
FaultyPreparable == ~active /\ lease = Nobody

\* The catalog may change only while no code was loaded from it and no session
\* handle exists.
Preparable == ~active /\ ~loading /\ lease = Nobody

\* Prepare: the directory is scanned and, when it is valid, becomes the
\* catalog plans are compiled against; revision is the bound's.
Prepare ==
    /\ Preparable
    /\ revision < MaxRevision
    /\ prepared' = disk
    /\ revision' = revision + 1
    /\ UNCHANGED <<disk, active, loading, registered>>

PrepareCatalog(h) ==
    /\ at[h] = "idle"
    /\ Prepare
    /\ UNCHANGED <<sessionVars, plans, at, call>>

\* RefreshCatalog: Prepare, then Activate by the host's own thread.
RefreshCatalog(h) ==
    /\ at[h] = "idle"
    /\ Prepare
    /\ Goto(h, "activate")
    /\ UNCHANGED <<sessionVars, plans, call>>

\* Where a thread goes when Activate failed: a call returns the failure, a
\* worker still has its cleanup to do.
Failed(t) == IF t \in Hosts THEN "idle" ELSE "ending"

\* ... and when it succeeded: a worker goes on to load the instrument
\* definitions, which may fail.
Succeeded(t) == IF t \in Hosts THEN {"idle"} ELSE {"running", "ending"}

\* Activate, first critical section.
BeginActivate(t) ==
    /\ at[t] = "activate"
    /\ \/ /\ active \/ prepared = 0
          /\ \E next \in Succeeded(t) : Goto(t, next)
          /\ UNCHANGED loading
       \/ /\ ~active /\ prepared # 0
          /\ loading
          /\ Goto(t, Failed(t))
          /\ UNCHANGED loading
       \/ /\ ~active /\ prepared # 0
          /\ ~loading
          /\ loading' = TRUE
          /\ Goto(t, "refresh")
    /\ UNCHANGED <<disk, revision, prepared, active, registered, sessionVars, plans, call>>

\* Fault: the packages found now are loaded, whatever was prepared.
FaultyUnchanged == TRUE

\* The rescan finds the prepared fingerprint.
Unchanged == disk = prepared

\* ExtensionRuntime::Refresh: rescan, compare the fingerprint, load the
\* modules, commit both registries at once.  Any of it may fail, and then
\* nothing is registered.  Files replaced between the rescan and the load are
\* not modelled.
Refresh(t) ==
    /\ at[t] = "refresh"
    /\ \/ Unchanged /\ registered' = disk /\ Goto(t, "registered")
       \/ UNCHANGED registered /\ Goto(t, "rejected")
    /\ UNCHANGED <<disk, revision, prepared, active, loading, sessionVars, plans, call>>

\* Fault: a failed activation leaves loading set.
FaultyEndActivate(t) ==
    /\ at[t] \in {"registered", "rejected"}
    /\ loading' = (at[t] = "rejected")
    /\ active' = (at[t] = "registered")
    /\ \E next \in IF at[t] = "registered" THEN Succeeded(t) ELSE {Failed(t)} : Goto(t, next)
    /\ UNCHANGED <<disk, revision, prepared, registered, sessionVars, plans, call>>

\* Activate, second critical section, or its handler of an exception of Refresh.
\* CatalogSnapshot, which follows a Refresh that succeeded, writes what Prepare
\* has written of the same scan and is taken to return.
EndActivate(t) ==
    /\ at[t] \in {"registered", "rejected"}
    /\ loading' = FALSE
    /\ active' = (at[t] = "registered")
    /\ \E next \in IF at[t] = "registered" THEN Succeeded(t) ELSE {Failed(t)} : Goto(t, next)
    /\ UNCHANGED <<disk, revision, prepared, registered, sessionVars, plans, call>>
-----------------------------------------------------------------------------
(* Plans.                                                                  *)

\* CompilePlan, when the plan is valid in the catalog.
CompilePlan(h) ==
    /\ at[h] = "idle"
    /\ plans' = plans \cup {[revision |-> revision, catalog |-> prepared]}
    /\ UNCHANGED <<catalogVars, sessionVars, at, call>>

DestroyCompiledPlan(h) ==
    /\ at[h] = "idle"
    /\ \E p \in plans : plans' = plans \ {p}
    /\ UNCHANGED <<catalogVars, sessionVars, at, call>>
-----------------------------------------------------------------------------
(* Sessions.                                                               *)

\* Fault: a plan compiled before the last preparation is accepted.
FaultyStartable(p) == lease = Nobody

\* The plan is not stale and no other session handle exists.
Startable(p) == p.revision = revision /\ lease = Nobody

\* StartSession, its critical section: the lease is taken.
StartSession(h, s) ==
    /\ at[h] = "idle"
    /\ handle[s] = "free"
    /\ \E p \in plans : Startable(p) /\ plan' = [plan EXCEPT ![s] = p]
    /\ lease' = s
    /\ handle' = [handle EXCEPT ![s] = "launching"]
    /\ call' = [call EXCEPT ![h] = [NoCall EXCEPT !.session = s]]
    /\ Goto(h, "launch")
    /\ UNCHANGED <<catalogVars, hasResult, holder, plans>>

\* The worker is launched, or the launch fails and the half-made session goes
\* away with its lease.
LaunchSession(h) ==
    LET s == call[h].session IN
    /\ at[h] = "launch"
    /\ \/ /\ at' = [at EXCEPT ![h] = "idle", ![s] = "activate"]
          /\ handle' = [handle EXCEPT ![s] = "open"]
          /\ UNCHANGED <<lease, plan>>
       \/ /\ Goto(h, "idle")
          /\ handle' = [handle EXCEPT ![s] = "free"]
          /\ plan' = [plan EXCEPT ![s] = NoPlan]
          /\ lease' = Nobody
    /\ call' = [call EXCEPT ![h] = NoCall]
    /\ UNCHANGED <<catalogVars, hasResult, holder, plans>>

\* Fault: a worker whose preparation failed never finishes.
FaultyWorkerEnds(s) ==
    /\ at[s] = "running"
    /\ Goto(s, "finished")
    /\ UNCHANGED <<catalogVars, sessionVars, plans, call>>

\* The worker is through with its run and its cleanup.
WorkerEnds(s) ==
    /\ at[s] \in {"running", "ending"}
    /\ Goto(s, "finished")
    /\ UNCHANGED <<catalogVars, sessionVars, plans, call>>

\* WaitSession is called, with a timeout or without.
WaitSession(h, s) ==
    /\ at[h] = "idle"
    /\ handle[s] = "open"
    /\ \E bounded \in BOOLEAN :
          call' = [call EXCEPT ![h] = [session |-> s, bounded |-> bounded, overdue |-> FALSE]]
    /\ Goto(h, "lock")
    /\ UNCHANGED <<catalogVars, sessionVars, plans>>

\* The timeout of a call elapses while it is still at the session's mutex.
Elapse(h) ==
    /\ at[h] = "lock"
    /\ call[h].bounded /\ ~call[h].overdue
    /\ call' = [call EXCEPT ![h].overdue = TRUE]
    /\ UNCHANGED <<catalogVars, sessionVars, plans, at>>

Return(h) ==
    /\ Goto(h, "idle")
    /\ call' = [call EXCEPT ![h] = NoCall]

\* The session's mutex is taken; a result kept earlier is the answer.
LockSession(h) ==
    LET s == call[h].session IN
    /\ at[h] = "lock"
    /\ holder[s] = Nobody
    /\ \/ hasResult[s] /\ Return(h) /\ UNCHANGED holder
       \/ /\ ~hasResult[s]
          /\ holder' = [holder EXCEPT ![s] = h]
          /\ Goto(h, "waiting")
          /\ UNCHANGED call
    /\ UNCHANGED <<catalogVars, lease, handle, plan, hasResult, plans>>

\* The wait ends: the worker is finished and its result is kept, or the time
\* of a bounded wait is up.
EndWait(h) ==
    LET s == call[h].session IN
    /\ at[h] = "waiting"
    /\ \/ at[s] = "finished" /\ hasResult' = [hasResult EXCEPT ![s] = TRUE]
       \/ call[h].bounded /\ UNCHANGED hasResult
    /\ holder' = [holder EXCEPT ![s] = Nobody]
    /\ Return(h)
    /\ UNCHANGED <<catalogVars, lease, handle, plan, plans>>

\* Fault: the lease goes first, the worker is joined afterwards.
FaultyDestroySession(h, s) ==
    /\ at[h] = "idle"
    /\ handle[s] = "open"
    /\ \A g \in Hosts : call[g].session # s
    /\ handle' = [handle EXCEPT ![s] = "closing"]
    /\ lease' = Nobody
    /\ call' = [call EXCEPT ![h] = [NoCall EXCEPT !.session = s]]
    /\ Goto(h, "destroy")
    /\ UNCHANGED <<catalogVars, plan, hasResult, holder, plans>>

\* DestroySession: the destructor cancels the run and joins the worker.  A host
\* does not destroy a handle another of its threads is using.
DestroySession(h, s) ==
    /\ at[h] = "idle"
    /\ handle[s] = "open"
    /\ \A g \in Hosts : call[g].session # s
    /\ handle' = [handle EXCEPT ![s] = "closing"]
    /\ call' = [call EXCEPT ![h] = [NoCall EXCEPT !.session = s]]
    /\ Goto(h, "destroy")
    /\ UNCHANGED <<catalogVars, lease, plan, hasResult, holder, plans>>

\* The worker is joined, then the members go, runLease last.
EndDestroy(h) ==
    LET s == call[h].session IN
    /\ at[h] = "destroy"
    /\ at[s] = "finished"
    /\ at' = [at EXCEPT ![h] = "idle", ![s] = "none"]
    /\ handle' = [handle EXCEPT ![s] = "free"]
    /\ plan' = [plan EXCEPT ![s] = NoPlan]
    /\ hasResult' = [hasResult EXCEPT ![s] = FALSE]
    /\ lease' = Nobody
    /\ call' = [call EXCEPT ![h] = NoCall]
    /\ UNCHANGED <<catalogVars, holder, plans>>
-----------------------------------------------------------------------------
\* What a thread does on its own once it is inside a call.
ActivateStep(t) == BeginActivate(t) \/ Refresh(t) \/ EndActivate(t)

WorkerStep(s) == ActivateStep(s) \/ WorkerEnds(s)

CallStep(h) ==
    \/ ActivateStep(h)
    \/ LaunchSession(h)
    \/ LockSession(h)
    \/ EndWait(h)
    \/ EndDestroy(h)

HostCalls(h) ==
    \/ PrepareCatalog(h)
    \/ RefreshCatalog(h)
    \/ CompilePlan(h)
    \/ DestroyCompiledPlan(h)
    \/ \E s \in Sessions : StartSession(h, s) \/ WaitSession(h, s) \/ DestroySession(h, s)

Next ==
    \/ ChangeDisk
    \/ \E h \in Hosts : HostCalls(h) \/ CallStep(h) \/ Elapse(h)
    \/ \E s \in Sessions : WorkerStep(s)

Spec == Init /\ [][Next]_vars

\* Threads are scheduled: a worker goes on, and so does a call that is not
\* blocked.  No host has to make another call.
FairSpec ==
    /\ Spec
    /\ \A h \in Hosts : WF_vars(CallStep(h))
    /\ \A s \in Sessions : WF_vars(WorkerStep(s))
-----------------------------------------------------------------------------
TypeOK ==
    /\ disk \in Catalog
    /\ revision \in 0 .. MaxRevision
    /\ prepared \in Catalog
    /\ active \in BOOLEAN
    /\ loading \in BOOLEAN
    /\ registered \in Catalog
    /\ lease \in Sessions \cup {Nobody}
    /\ plans \subseteq Plan
    /\ handle \in [Sessions -> {"free", "launching", "open", "closing"}]
    /\ plan \in [Sessions -> Plan]
    /\ hasResult \in [Sessions -> BOOLEAN]
    /\ holder \in [Sessions -> Hosts \cup {Nobody}]
    /\ at \in [Threads -> HostLocation \cup WorkerLocation]
    /\ \A h \in Hosts : at[h] \in HostLocation
    /\ \A s \in Sessions : at[s] \in WorkerLocation
    /\ call \in [Hosts -> [session : Sessions \cup {Nobody}, bounded : BOOLEAN, overdue : BOOLEAN]]

\* While a session's worker lives, and until its handle is destroyed, the
\* lease is that session's: no two workers share the registries, and no
\* preparation comes between (EngineSessionApi.cpp:59, EngineHandles.h:27).
LeaseCoversWorker ==
    \A s \in Sessions : at[s] # "none" \/ handle[s] # "free" => lease = s

\* A session runs against the very packages its plan was compiled against,
\* although the engine lock is released between the compilation, the start,
\* and the activation by the worker or by another host thread.
ExecutesWhatWasCompiled ==
    \A s \in Sessions : at[s] = "running" =>
        plan[s].revision = revision /\ registered = plan[s].catalog

\* What the registries create comes from the catalog plans are compiled
\* against now: components of packages that were replaced never linger.
RegisteredIsPrepared == registered # 0 => registered = prepared

\* loading is the lock of one activation: it is set exactly while one thread,
\* host or worker, is inside the runtime's Refresh.
OneActivation ==
    /\ loading <=> \E t \in Threads : at[t] \in {"refresh", "registered", "rejected"}
    /\ \A t, u \in Threads :
          at[t] \in {"refresh", "registered", "rejected"} /\ at[u] \in {"refresh", "registered", "rejected"} => t = u

\* Destroying a session that is still running returns.
DestroyReturns == \A h \in Hosts : (at[h] = "destroy") ~> (at[h] = "idle")

=============================================================================
