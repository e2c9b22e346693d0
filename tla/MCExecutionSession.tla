------------------------ MODULE MCExecutionSession ------------------------
(***************************************************************************)
(* ExecutionSession on a small bench: two instruments, two steps with      *)
(* every policy of up to two attempts, every failure of every call.        *)
(***************************************************************************)
EXTENDS ExecutionSession
=============================================================================
