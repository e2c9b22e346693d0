---------------------------- MODULE MCRegistration ----------------------------
(***************************************************************************)
(* One profile beside another one's selection; a C++ and a Python          *)
(* revision; two transactions, so that one follows a commit or a rollback. *)
(***************************************************************************)
EXTENDS RegistrationTransaction
=============================================================================
