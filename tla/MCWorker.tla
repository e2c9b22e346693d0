------------------------------ MODULE MCWorker ------------------------------
(***************************************************************************)
(* A command and a driver in one package, and a device driven elsewhere;   *)
(* an operation may await two service requests at a time.                  *)
(***************************************************************************)
EXTENDS WorkerSupervisor
=============================================================================
