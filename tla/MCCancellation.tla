--------------------------- MODULE MCCancellation ---------------------------
(***************************************************************************)
(* Two waiters on one source, waits and timeouts of up to two ticks, each  *)
(* begun at time zero or one; the canceller acts at any moment or never.   *)
(***************************************************************************)
EXTENDS Cancellation
=============================================================================
