-------------------------- MODULE EngineApi_proofs --------------------------
(***************************************************************************)
(* Theorems about EngineApi, for any host threads, session handles,        *)
(* preparations and packages: the lease covers the worker, a session runs  *)
(* against the packages its plan was compiled against, and one thread at a *)
(* time activates the catalog.                                             *)
(***************************************************************************)
EXTENDS EngineApi, TLAPS

Loading == {"refresh", "registered", "rejected"}

\* A host thread inside a call on a handle finds it as the call left it, and
\* nobody else starts or destroys that handle.
CallInv ==
    \A h \in Hosts :
        /\ at[h] \in Activation \cup {"idle"} => call[h].session = Nobody
        /\ at[h] = "launch" => call[h].session \in Sessions /\ handle[call[h].session] = "launching"
        /\ at[h] \in {"lock", "waiting"} =>
              call[h].session \in Sessions /\ handle[call[h].session] = "open"
        /\ at[h] = "destroy" => call[h].session \in Sessions /\ handle[call[h].session] = "closing"
        /\ \A g \in Hosts : /\ at[g] \in {"launch", "destroy"} /\ at[h] \in {"launch", "destroy"}
                            /\ call[g].session = call[h].session
                            => g = h

\* A handle exists from the taking of the lease to its release, its worker
\* from the launch to the join.
HandleInv ==
    \A s \in Sessions :
        /\ handle[s] # "free" <=> lease = s
        /\ at[s] # "none" <=> handle[s] \in {"open", "closing"}

\* loading is held by the thread that activates; what is registered is what
\* was prepared, from the activation that succeeds on.
ActivationInv ==
    /\ \A t \in Threads : at[t] \in Loading => loading
    /\ loading => \E t \in Threads : at[t] \in Loading
    /\ \A t, u \in Threads : at[t] \in Loading /\ at[u] \in Loading => t = u
    /\ loading => ~active
    /\ \A t \in Threads : at[t] = "registered" => registered = prepared
    /\ \A t \in Threads : at[t] \in {"refresh", "rejected"} => registered = 0
    /\ active => registered = prepared
    /\ ~active /\ ~loading => registered = 0

\* A plan of the current revision was compiled against the prepared catalog,
\* and only such a plan is behind a handle.
PlanInv ==
    /\ \A p \in plans : p.revision <= revision /\ (p.revision = revision => p.catalog = prepared)
    /\ \A s \in Sessions : handle[s] # "free" => plan[s].revision = revision /\ plan[s].catalog = prepared
    /\ \A s \in Sessions : at[s] = "running" => active \/ prepared = 0

\* The inductive invariant: each part needs the others in some step.
IInv == CallInv /\ HandleInv /\ ActivationInv /\ PlanInv
-----------------------------------------------------------------------------
\* Where the threads may stand.
AtOK ==
    /\ at \in [Threads -> HostLocation \cup WorkerLocation]
    /\ \A h \in Hosts : at[h] \in HostLocation
    /\ \A s \in Sessions : at[s] \in WorkerLocation

\* The engine begins with its variables of their types.
LEMMA TypeInit == Init => TypeOK
<1> SUFFICES ASSUME Init PROVE TypeOK
  OBVIOUS
<1> USE MaxRevisionAssumption, MaxCatalogAssumption, ThreadAssumption DEF Init
<1>1. AtOK
  BY DEF AtOK, Threads, HostLocation, WorkerLocation
<1>2. NoPlan \in Plan
  BY DEF NoPlan, Plan, Catalog
<1>3. NoCall \in [session : Sessions \cup {Nobody}, bounded : BOOLEAN, overdue : BOOLEAN]
  BY DEF NoCall
<1>4. revision \in 0 .. MaxRevision /\ prepared \in Catalog /\ registered \in Catalog
  BY DEF Catalog
<1> QED
  BY <1>1, <1>2, <1>3, <1>4 DEF TypeOK, AtOK

\* A thread that moves to a place of its kind.
LEMMA MoveType ==
    ASSUME AtOK, NEW t \in Threads, NEW l,
           t \in Hosts => l \in HostLocation, t \in Sessions => l \in WorkerLocation,
           at' = [at EXCEPT ![t] = l]
    PROVE  AtOK'
<1>1. l \in HostLocation \cup WorkerLocation
  BY DEF Threads
<1> QED
  BY <1>1 DEF AtOK

\* A launch keeps its session's plan and the lease, or gives both up.
LEMMA LaunchType ==
    ASSUME TypeOK, NEW h \in Hosts, LaunchSession(h)
    PROVE  plan' \in [Sessions -> Plan] /\ lease' \in Sessions \cup {Nobody}
<1> DEFINE s == call[h].session
<1>1. \/ plan' = plan /\ lease' = lease
      \/ plan' = [plan EXCEPT ![s] = NoPlan] /\ lease' = Nobody
  BY DEF LaunchSession
<1>2. NoPlan \in Plan
  BY MaxRevisionAssumption, MaxCatalogAssumption DEF NoPlan, Plan, Catalog
<1>3. plan \in [Sessions -> Plan] /\ lease \in Sessions \cup {Nobody}
  BY DEF TypeOK
<1> HIDE DEF s
<1> QED
  BY <1>1, <1>2, <1>3

\* No action takes a variable out of its type.
LEMMA TypeStep == TypeOK /\ [Next]_vars => TypeOK'
<1> SUFFICES ASSUME TypeOK, [Next]_vars PROVE TypeOK'
  OBVIOUS
<1> USE MaxRevisionAssumption, MaxCatalogAssumption, ThreadAssumption
        DEF Catalog, Plan, Threads, HostLocation, WorkerLocation, Activation, NoCall, NoPlan,
            catalogVars, sessionVars, Goto, Return
<1>1. CASE ChangeDisk
  BY <1>1 DEF TypeOK, ChangeDisk
<1>2. ASSUME NEW h \in Hosts, PrepareCatalog(h) PROVE TypeOK'
  BY <1>2 DEF TypeOK, PrepareCatalog, Prepare
<1>3. ASSUME NEW h \in Hosts, RefreshCatalog(h) PROVE TypeOK'
  BY <1>3 DEF TypeOK, RefreshCatalog, Prepare
<1>4. ASSUME NEW t \in Threads, BeginActivate(t) PROVE TypeOK'
  <2>1. PICK l \in {"idle", "running", "ending", "refresh"} :
            /\ at' = [at EXCEPT ![t] = l]
            /\ t \in Hosts => l \in {"idle", "refresh"}
            /\ t \in Sessions => l \in {"running", "ending", "refresh"}
    BY <1>4 DEF BeginActivate, Failed, Succeeded
  <2>2. AtOK'
    BY <2>1, MoveType DEF TypeOK, AtOK
  <2> QED
    BY <1>4, <2>2 DEF TypeOK, AtOK, BeginActivate
<1>5. ASSUME NEW t \in Threads, Refresh(t) PROVE TypeOK'
  <2>1. PICK l \in {"registered", "rejected"} : at' = [at EXCEPT ![t] = l]
    BY <1>5 DEF Refresh
  <2>2. AtOK'
    BY <2>1, MoveType DEF TypeOK, AtOK
  <2> QED
    BY <1>5, <2>2 DEF TypeOK, AtOK, Refresh
<1>6. ASSUME NEW t \in Threads, EndActivate(t) PROVE TypeOK'
  <2>1. PICK l \in {"idle", "running", "ending"} :
            /\ at' = [at EXCEPT ![t] = l]
            /\ t \in Hosts => l = "idle"
            /\ t \in Sessions => l \in {"running", "ending"}
    BY <1>6 DEF EndActivate, Failed, Succeeded
  <2>2. AtOK'
    BY <2>1, MoveType DEF TypeOK, AtOK
  <2> QED
    BY <1>6, <2>2 DEF TypeOK, AtOK, EndActivate
<1>7. ASSUME NEW h \in Hosts, CompilePlan(h) PROVE TypeOK'
  BY <1>7 DEF TypeOK, CompilePlan
<1>8. ASSUME NEW h \in Hosts, DestroyCompiledPlan(h) PROVE TypeOK'
  BY <1>8 DEF TypeOK, DestroyCompiledPlan
<1>9. ASSUME NEW h \in Hosts, NEW s \in Sessions, StartSession(h, s) PROVE TypeOK'
  BY <1>9 DEF TypeOK, StartSession
<1>10. ASSUME NEW h \in Hosts, LaunchSession(h) PROVE TypeOK'
  <2> DEFINE s == call[h].session
  <2>1. s \in Sessions \cup {Nobody}
    BY DEF TypeOK
  <2>2. AtOK'
    <3>1. \/ at' = [at EXCEPT ![h] = "idle"]
          \/ at' = [at EXCEPT ![h] = "idle", ![s] = "activate"]
      BY <1>10 DEF LaunchSession
    <3>2. AtOK
      BY DEF TypeOK, AtOK
    <3> HIDE DEF s
    <3>3. CASE at' = [at EXCEPT ![h] = "idle"]
      BY <3>2, <3>3, MoveType
    <3>4. CASE at' = [at EXCEPT ![h] = "idle", ![s] = "activate"]
      <4>1. CASE s = Nobody
        BY <3>2, <3>4, <4>1 DEF AtOK
      <4>2. CASE s \in Sessions
        BY <3>2, <3>4, <4>2 DEF AtOK
      <4> QED
        BY <2>1, <4>1, <4>2
    <3> QED
      BY <3>1, <3>3, <3>4
  <2>3. handle' \in [Sessions -> {"free", "launching", "open", "closing"}]
    BY <1>10 DEF TypeOK, LaunchSession
  <2>5. plan' \in [Sessions -> Plan] /\ lease' \in Sessions \cup {Nobody}
    BY <1>10, LaunchType
  <2>6. NoCall \in [session : Sessions \cup {Nobody}, bounded : BOOLEAN, overdue : BOOLEAN]
    OBVIOUS
  <2>7. call' \in [Hosts -> [session : Sessions \cup {Nobody}, bounded : BOOLEAN, overdue : BOOLEAN]]
    BY <1>10, <2>6 DEF TypeOK, LaunchSession
  <2> QED
    BY <1>10, <2>2, <2>3, <2>5, <2>7 DEF TypeOK, AtOK, LaunchSession
<1>11. ASSUME NEW s \in Sessions, WorkerEnds(s) PROVE TypeOK'
  BY <1>11 DEF TypeOK, WorkerEnds
<1>12. ASSUME NEW h \in Hosts, NEW s \in Sessions, WaitSession(h, s) PROVE TypeOK'
  BY <1>12 DEF TypeOK, WaitSession
<1>13. ASSUME NEW h \in Hosts, Elapse(h) PROVE TypeOK'
  <2>1. call[h] \in [session : Sessions \cup {Nobody}, bounded : BOOLEAN, overdue : BOOLEAN]
    BY DEF TypeOK
  <2>2. [call[h] EXCEPT !.overdue = TRUE] \in [session : Sessions \cup {Nobody}, bounded : BOOLEAN, overdue : BOOLEAN]
    BY <2>1
  <2>3. call' \in [Hosts -> [session : Sessions \cup {Nobody}, bounded : BOOLEAN, overdue : BOOLEAN]]
    BY <1>13, <2>2 DEF Elapse, TypeOK
  <2> QED
    BY <1>13, <2>3 DEF TypeOK, Elapse
<1>14. ASSUME NEW h \in Hosts, LockSession(h) PROVE TypeOK'
  <2>1. PICK l \in {"idle", "waiting"} : at' = [at EXCEPT ![h] = l]
    BY <1>14 DEF LockSession
  <2>2. AtOK'
    BY <2>1, MoveType DEF TypeOK, AtOK
  <2>3. NoCall \in [session : Sessions \cup {Nobody}, bounded : BOOLEAN, overdue : BOOLEAN]
    OBVIOUS
  <2>4. call' \in [Hosts -> [session : Sessions \cup {Nobody}, bounded : BOOLEAN, overdue : BOOLEAN]]
    <3>1. call' = [call EXCEPT ![h] = NoCall] \/ call' = call
      BY <1>14, Zenon DEF LockSession
    <3>2. call \in [Hosts -> [session : Sessions \cup {Nobody}, bounded : BOOLEAN, overdue : BOOLEAN]]
      BY DEF TypeOK
    <3>3. [call EXCEPT ![h] = NoCall]
            \in [Hosts -> [session : Sessions \cup {Nobody}, bounded : BOOLEAN, overdue : BOOLEAN]]
      BY <2>3, <3>2
    <3> QED
      BY <3>1, <3>2, <3>3
  <2>5. holder' \in [Sessions -> Hosts \cup {Nobody}]
    BY <1>14 DEF TypeOK, LockSession
  <2> QED
    BY <1>14, <2>2, <2>4, <2>5 DEF TypeOK, AtOK, LockSession
<1>15. ASSUME NEW h \in Hosts, EndWait(h) PROVE TypeOK'
  BY <1>15 DEF TypeOK, EndWait
<1>16. ASSUME NEW h \in Hosts, NEW s \in Sessions, DestroySession(h, s) PROVE TypeOK'
  BY <1>16 DEF TypeOK, DestroySession
<1>17. ASSUME NEW h \in Hosts, EndDestroy(h) PROVE TypeOK'
  <2>1. AtOK'
    BY <1>17 DEF EndDestroy, TypeOK, AtOK
  <2>2. NoPlan \in Plan /\ NoCall \in [session : Sessions \cup {Nobody}, bounded : BOOLEAN, overdue : BOOLEAN]
    OBVIOUS
  <2> QED
    BY <1>17, <2>1, <2>2 DEF TypeOK, AtOK, EndDestroy
<1>18. CASE UNCHANGED vars
  BY <1>18 DEF TypeOK, vars
<1> QED
  BY <1>1, <1>2, <1>3, <1>4, <1>5, <1>6, <1>7, <1>8, <1>9, <1>10, <1>11, <1>12, <1>13, <1>14,
     <1>15, <1>16, <1>17, <1>18
  DEF Next, HostCalls, CallStep, WorkerStep, ActivateStep

\* The engine's state stays of its type in every behaviour of the host.
THEOREM TypeCorrect == Spec => []TypeOK
BY TypeInit, TypeStep, PTL DEF Spec
\* What a step of the engine keeps.
LEMMA InvStep == TypeOK /\ TypeOK' /\ IInv /\ [Next]_vars => IInv'
<1> SUFFICES ASSUME TypeOK, TypeOK', IInv, [Next]_vars PROVE IInv'
  OBVIOUS
<1> USE ThreadAssumption DEF Threads, Loading, Activation, catalogVars, sessionVars, Goto, Return, NoCall, NoPlan
<1>1. ASSUME ChangeDisk PROVE IInv'
  <2>1. CallInv'
    BY <1>1 DEF ChangeDisk, CallInv, IInv, TypeOK
  <2>2. HandleInv'
    BY <1>1 DEF ChangeDisk, HandleInv, IInv, TypeOK
  <2>3. ActivationInv'
    BY <1>1 DEF ChangeDisk, ActivationInv, IInv, TypeOK
  <2>4. PlanInv'
    BY <1>1 DEF ChangeDisk, PlanInv, IInv, TypeOK
  <2> QED
    BY <2>1, <2>2, <2>3, <2>4 DEF IInv
<1>2. ASSUME NEW h \in Hosts, PrepareCatalog(h) PROVE IInv'
  <2>1. CallInv'
    BY <1>2 DEF PrepareCatalog, Prepare, Preparable, CallInv, IInv, TypeOK
  <2>2. HandleInv'
    BY <1>2 DEF PrepareCatalog, Prepare, Preparable, HandleInv, IInv, TypeOK
  <2>3. ActivationInv'
    BY <1>2 DEF PrepareCatalog, Prepare, Preparable, ActivationInv, IInv, TypeOK
  <2>4. PlanInv'
    BY <1>2 DEF PrepareCatalog, Prepare, Preparable, PlanInv, HandleInv, Plan, IInv, TypeOK
  <2> QED
    BY <2>1, <2>2, <2>3, <2>4 DEF IInv
<1>3. ASSUME NEW h \in Hosts, RefreshCatalog(h) PROVE IInv'
  <2>1. CallInv'
    BY <1>3 DEF RefreshCatalog, Prepare, Preparable, CallInv, IInv, TypeOK
  <2>2. HandleInv'
    BY <1>3 DEF RefreshCatalog, Prepare, Preparable, HandleInv, IInv, TypeOK
  <2>3. ActivationInv'
    BY <1>3 DEF RefreshCatalog, Prepare, Preparable, ActivationInv, IInv, TypeOK
  <2>4. PlanInv'
    BY <1>3 DEF RefreshCatalog, Prepare, Preparable, PlanInv, HandleInv, Plan, IInv, TypeOK
  <2> QED
    BY <2>1, <2>2, <2>3, <2>4 DEF IInv
<1>4. ASSUME NEW t \in Threads, BeginActivate(t) PROVE IInv'
  <2>1. CallInv'
    BY <1>4 DEF BeginActivate, Failed, Succeeded, CallInv, IInv, TypeOK
  <2>2. HandleInv'
    BY <1>4 DEF BeginActivate, Failed, Succeeded, HandleInv, IInv, TypeOK
  <2>3. ActivationInv'
    BY <1>4 DEF BeginActivate, Failed, Succeeded, ActivationInv, IInv, TypeOK
  <2>4. PlanInv'
    BY <1>4 DEF BeginActivate, Failed, Succeeded, PlanInv, IInv, TypeOK
  <2> QED
    BY <2>1, <2>2, <2>3, <2>4 DEF IInv
<1>5. ASSUME NEW t \in Threads, Refresh(t) PROVE IInv'
  <2>1. CallInv'
    BY <1>5 DEF Refresh, Unchanged, CallInv, IInv, TypeOK
  <2>2. HandleInv'
    BY <1>5 DEF Refresh, Unchanged, HandleInv, IInv, TypeOK
  <2>3. ActivationInv'
    BY <1>5 DEF Refresh, Unchanged, ActivationInv, IInv, TypeOK
  <2>4. PlanInv'
    BY <1>5 DEF Refresh, Unchanged, PlanInv, IInv, TypeOK
  <2> QED
    BY <2>1, <2>2, <2>3, <2>4 DEF IInv
<1>6. ASSUME NEW t \in Threads, EndActivate(t) PROVE IInv'
  <2>1. CallInv'
    BY <1>6 DEF EndActivate, Failed, Succeeded, CallInv, IInv, TypeOK
  <2>2. HandleInv'
    BY <1>6 DEF EndActivate, Failed, Succeeded, HandleInv, IInv, TypeOK
  <2>3. ActivationInv'
    BY <1>6 DEF EndActivate, Failed, Succeeded, ActivationInv, IInv, TypeOK
  <2>4. PlanInv'
    BY <1>6 DEF EndActivate, Failed, Succeeded, PlanInv, ActivationInv, IInv, TypeOK
  <2> QED
    BY <2>1, <2>2, <2>3, <2>4 DEF IInv
<1>7. ASSUME NEW h \in Hosts, CompilePlan(h) PROVE IInv'
  <2>1. CallInv'
    BY <1>7 DEF CompilePlan, CallInv, IInv, TypeOK
  <2>2. HandleInv'
    BY <1>7 DEF CompilePlan, HandleInv, IInv, TypeOK
  <2>3. ActivationInv'
    BY <1>7 DEF CompilePlan, ActivationInv, IInv, TypeOK
  <2>4. PlanInv'
    BY <1>7 DEF CompilePlan, PlanInv, IInv, TypeOK
  <2> QED
    BY <2>1, <2>2, <2>3, <2>4 DEF IInv
<1>8. ASSUME NEW h \in Hosts, DestroyCompiledPlan(h) PROVE IInv'
  <2>1. CallInv'
    BY <1>8 DEF DestroyCompiledPlan, CallInv, IInv, TypeOK
  <2>2. HandleInv'
    BY <1>8 DEF DestroyCompiledPlan, HandleInv, IInv, TypeOK
  <2>3. ActivationInv'
    BY <1>8 DEF DestroyCompiledPlan, ActivationInv, IInv, TypeOK
  <2>4. PlanInv'
    BY <1>8 DEF DestroyCompiledPlan, PlanInv, IInv, TypeOK
  <2> QED
    BY <2>1, <2>2, <2>3, <2>4 DEF IInv
<1>9. ASSUME NEW h \in Hosts, NEW s \in Sessions, StartSession(h, s) PROVE IInv'
  <2>1. CallInv'
    BY <1>9 DEF StartSession, Startable, CallInv, IInv, TypeOK
  <2>2. HandleInv'
    BY <1>9 DEF StartSession, Startable, HandleInv, IInv, TypeOK
  <2>3. ActivationInv'
    BY <1>9 DEF StartSession, Startable, ActivationInv, IInv, TypeOK
  <2>4. PlanInv'
    BY <1>9 DEF StartSession, Startable, PlanInv, IInv, TypeOK
  <2> QED
    BY <2>1, <2>2, <2>3, <2>4 DEF IInv
<1>10. ASSUME NEW h \in Hosts, LaunchSession(h) PROVE IInv'
  <2> DEFINE s == call[h].session
  <2>1. s \in Sessions /\ handle[s] = "launching" /\ at[h] = "launch"
    BY <1>10 DEF LaunchSession, CallInv, IInv
  <2>2. /\ call' = [call EXCEPT ![h] = NoCall]
        /\ UNCHANGED <<catalogVars, hasResult, holder, plans>>
        /\ \/ /\ at' = [at EXCEPT ![h] = "idle", ![s] = "activate"]
              /\ handle' = [handle EXCEPT ![s] = "open"]
              /\ UNCHANGED <<lease, plan>>
           \/ /\ at' = [at EXCEPT ![h] = "idle"]
              /\ handle' = [handle EXCEPT ![s] = "free"]
              /\ plan' = [plan EXCEPT ![s] = NoPlan]
              /\ lease' = Nobody
    BY <1>10 DEF LaunchSession
  <2>3. at[s] = "none"
    BY <2>1 DEF HandleInv, IInv
  <2>4. CallInv'
    BY <1>10 DEF LaunchSession, CallInv, IInv, TypeOK
  <2> HIDE DEF s
  <2>5. HandleInv'
    BY <2>1, <2>2 DEF HandleInv, IInv, TypeOK
  <2>6. ActivationInv'
    <3>1. at \in [Threads -> HostLocation \cup WorkerLocation]
      BY DEF TypeOK
    <3>2. ASSUME NEW t \in Threads
          PROVE  /\ at[t] \in Loading => at'[t] = at[t]
                 /\ at'[t] \in Loading => at'[t] = at[t]
      <4>1. CASE t = h
        BY <2>1, <2>2, <3>1, <4>1
      <4>2. CASE t = s
        BY <2>2, <2>3, <3>1, <4>2
      <4>3. CASE t # h /\ t # s
        BY <2>2, <3>1, <4>3
      <4> QED
        BY <4>1, <4>2, <4>3
    <3>3. UNCHANGED <<prepared, active, loading, registered>>
      BY <2>2
    <3> HIDE DEF Loading
    <3>4. (\E t \in Threads : at[t] \in Loading) => \E t \in Threads : at'[t] \in Loading
      BY <3>2
    <3>5. \A t \in Threads : /\ at'[t] = "registered" => at[t] = "registered"
                             /\ at'[t] \in {"refresh", "rejected"} => at[t] \in {"refresh", "rejected"}
      BY <3>2 DEF Loading
    <3>6. ActivationInv
      BY DEF IInv
    <3>7. \A t, u \in Threads : at'[t] \in Loading /\ at'[u] \in Loading => t = u
      BY <3>2, <3>6 DEF ActivationInv
    <3>8. /\ \A t \in Threads : at'[t] \in Loading => loading'
          /\ loading' => \E t \in Threads : at'[t] \in Loading
      BY <3>2, <3>3, <3>4, <3>6 DEF ActivationInv
    <3>9. /\ \A t \in Threads : at'[t] = "registered" => registered' = prepared'
          /\ \A t \in Threads : at'[t] \in {"refresh", "rejected"} => registered' = 0
      BY <3>3, <3>5, <3>6 DEF ActivationInv
    <3>10. /\ loading' => ~active'
           /\ active' => registered' = prepared'
           /\ ~active' /\ ~loading' => registered' = 0
      BY <3>3, <3>6 DEF ActivationInv
    <3> QED
      BY <3>7, <3>8, <3>9, <3>10 DEF ActivationInv
  <2>7. PlanInv'
    <3>1. \A p \in plans' : p.revision <= revision' /\ (p.revision = revision' => p.catalog = prepared')
      BY <2>2 DEF PlanInv, IInv
    <3>2. \A u \in Sessions : handle'[u] # "free" => handle[u] # "free" /\ plan'[u] = plan[u]
      BY <2>1, <2>2 DEF TypeOK
    <3>3. \A u \in Sessions : at'[u] = "running" => at[u] = "running"
      BY <2>1, <2>2 DEF TypeOK
    <3> QED
      BY <2>2, <3>1, <3>2, <3>3 DEF PlanInv, IInv
  <2> QED
    BY <2>4, <2>5, <2>6, <2>7 DEF IInv
<1>11. ASSUME NEW s \in Sessions, WorkerEnds(s) PROVE IInv'
  <2>1. CallInv'
    BY <1>11 DEF WorkerEnds, CallInv, IInv, TypeOK
  <2>2. HandleInv'
    BY <1>11 DEF WorkerEnds, HandleInv, IInv, TypeOK
  <2>3. ActivationInv'
    BY <1>11 DEF WorkerEnds, ActivationInv, IInv, TypeOK
  <2>4. PlanInv'
    BY <1>11 DEF WorkerEnds, PlanInv, IInv, TypeOK
  <2> QED
    BY <2>1, <2>2, <2>3, <2>4 DEF IInv
<1>12. ASSUME NEW h \in Hosts, NEW s \in Sessions, WaitSession(h, s) PROVE IInv'
  <2>1. CallInv'
    BY <1>12 DEF WaitSession, CallInv, IInv, TypeOK
  <2>2. HandleInv'
    BY <1>12 DEF WaitSession, HandleInv, IInv, TypeOK
  <2>3. ActivationInv'
    BY <1>12 DEF WaitSession, ActivationInv, IInv, TypeOK
  <2>4. PlanInv'
    BY <1>12 DEF WaitSession, PlanInv, IInv, TypeOK
  <2> QED
    BY <2>1, <2>2, <2>3, <2>4 DEF IInv
<1>13. ASSUME NEW h \in Hosts, Elapse(h) PROVE IInv'
  <2>1. CallInv'
    BY <1>13 DEF Elapse, CallInv, IInv, TypeOK
  <2>2. HandleInv'
    BY <1>13 DEF Elapse, HandleInv, IInv, TypeOK
  <2>3. ActivationInv'
    BY <1>13 DEF Elapse, ActivationInv, IInv, TypeOK
  <2>4. PlanInv'
    BY <1>13 DEF Elapse, PlanInv, IInv, TypeOK
  <2> QED
    BY <2>1, <2>2, <2>3, <2>4 DEF IInv
<1>14. ASSUME NEW h \in Hosts, LockSession(h) PROVE IInv'
  <2>1. CallInv'
    BY <1>14 DEF LockSession, CallInv, IInv, TypeOK
  <2>2. HandleInv'
    BY <1>14 DEF LockSession, HandleInv, IInv, TypeOK
  <2>3. ActivationInv'
    BY <1>14 DEF LockSession, ActivationInv, IInv, TypeOK
  <2>4. PlanInv'
    BY <1>14 DEF LockSession, PlanInv, IInv, TypeOK
  <2> QED
    BY <2>1, <2>2, <2>3, <2>4 DEF IInv
<1>15. ASSUME NEW h \in Hosts, EndWait(h) PROVE IInv'
  <2>1. CallInv'
    BY <1>15 DEF EndWait, CallInv, IInv, TypeOK
  <2>2. HandleInv'
    BY <1>15 DEF EndWait, HandleInv, IInv, TypeOK
  <2>3. ActivationInv'
    BY <1>15 DEF EndWait, ActivationInv, IInv, TypeOK
  <2>4. PlanInv'
    BY <1>15 DEF EndWait, PlanInv, IInv, TypeOK
  <2> QED
    BY <2>1, <2>2, <2>3, <2>4 DEF IInv
<1>16. ASSUME NEW h \in Hosts, NEW s \in Sessions, DestroySession(h, s) PROVE IInv'
  <2>1. CallInv'
    BY <1>16 DEF DestroySession, CallInv, IInv, TypeOK
  <2>2. HandleInv'
    BY <1>16 DEF DestroySession, HandleInv, IInv, TypeOK
  <2>3. ActivationInv'
    BY <1>16 DEF DestroySession, ActivationInv, IInv, TypeOK
  <2>4. PlanInv'
    BY <1>16 DEF DestroySession, PlanInv, IInv, TypeOK
  <2> QED
    BY <2>1, <2>2, <2>3, <2>4 DEF IInv
<1>17. ASSUME NEW h \in Hosts, EndDestroy(h) PROVE IInv'
  <2>1. CallInv'
    BY <1>17 DEF EndDestroy, CallInv, IInv, TypeOK
  <2>2. HandleInv'
    BY <1>17 DEF EndDestroy, HandleInv, IInv, TypeOK
  <2>3. ActivationInv'
    BY <1>17 DEF EndDestroy, ActivationInv, IInv, TypeOK
  <2>4. PlanInv'
    BY <1>17 DEF EndDestroy, PlanInv, IInv, TypeOK
  <2> QED
    BY <2>1, <2>2, <2>3, <2>4 DEF IInv
<1>18. CASE UNCHANGED vars
  BY <1>18 DEF vars, IInv, CallInv, HandleInv, ActivationInv, PlanInv
<1> QED
  BY <1>1, <1>2, <1>3, <1>4, <1>5, <1>6, <1>7, <1>8, <1>9, <1>10, <1>11, <1>12, <1>13, <1>14, <1>15, <1>16, <1>17, <1>18
  DEF Next, HostCalls, CallStep, WorkerStep, ActivateStep

\* An engine begins without handles, calls and activations.
LEMMA InvInit == Init => IInv
<1> SUFFICES ASSUME Init PROVE IInv
  OBVIOUS
<1>1. \A h \in Hosts : at[h] = "idle" /\ call[h].session = Nobody
  BY DEF Init, Threads, NoCall
<1>2. \A s \in Sessions : at[s] = "none" /\ handle[s] = "free" /\ lease # s
  BY ThreadAssumption DEF Init, Threads
<1>3. CallInv
  BY <1>1 DEF CallInv, Activation
<1>4. HandleInv
  BY <1>2 DEF HandleInv
<1>5. ActivationInv
  BY <1>1, <1>2 DEF Init, ActivationInv, Threads, Loading
<1>6. PlanInv
  BY <1>2 DEF Init, PlanInv
<1> QED
  BY <1>3, <1>4, <1>5, <1>6 DEF IInv

\* The invariant holds from the creation of the engine on.
LEMMA Invariant == Spec => [](TypeOK /\ IInv)
BY TypeInit, TypeStep, InvInit, InvStep, PTL DEF Spec
-----------------------------------------------------------------------------
\* A handle whose worker lives, or that is not yet destroyed, has the lease
\* (EngineHandles.h:27): a worker exists only under a handle, and a handle
\* from the taking of the lease to its release.
THEOREM LeaseHeld == Spec => []LeaseCoversWorker
<1>1. IInv => LeaseCoversWorker
  BY DEF IInv, HandleInv, LeaseCoversWorker
<1> QED
  BY <1>1, Invariant, PTL

\* A running session's packages are those its plan was compiled against: the
\* plan was of the current revision when the lease was taken, and from then on
\* no preparation can come (EngineSessionApi.cpp:59).
THEOREM RunsWhatWasCompiled == Spec => []ExecutesWhatWasCompiled
<1>1. ASSUME TypeOK, IInv PROVE ExecutesWhatWasCompiled
  <2> SUFFICES ASSUME NEW s \in Sessions, at[s] = "running"
               PROVE  plan[s].revision = revision /\ registered = plan[s].catalog
    BY DEF ExecutesWhatWasCompiled
  <2>1. handle[s] # "free"
    BY <1>1 DEF IInv, HandleInv
  <2>2. plan[s].revision = revision /\ plan[s].catalog = prepared
    BY <1>1, <2>1 DEF IInv, PlanInv
  <2>3. active \/ prepared = 0
    BY <1>1 DEF IInv, PlanInv
  <2>4. registered = prepared
    BY <1>1, <2>3 DEF IInv, ActivationInv, TypeOK, Loading
  <2> QED
    BY <2>2, <2>4
<1> QED
  BY <1>1, Invariant, PTL

\* What the registries create comes from the catalog that is prepared: a
\* preparation needs an engine that loaded nothing, and an activation that
\* fails registers nothing.
THEOREM NothingLingers == Spec => []RegisteredIsPrepared
<1>1. TypeOK /\ IInv => RegisteredIsPrepared
  BY DEF IInv, ActivationInv, RegisteredIsPrepared, TypeOK, Loading
<1> QED
  BY <1>1, Invariant, PTL

\* One thread at a time is inside the runtime's Refresh, and loading says so.
THEOREM ActivatesAlone == Spec => []OneActivation
<1>1. TypeOK /\ IInv => OneActivation
  BY DEF IInv, ActivationInv, OneActivation, TypeOK, Loading
<1> QED
  BY <1>1, Invariant, PTL
=============================================================================
