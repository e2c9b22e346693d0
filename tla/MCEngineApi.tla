----------------------------- MODULE MCEngineApi -----------------------------
(***************************************************************************)
(* Two host threads, two session handles, and a package directory that     *)
(* changes under an engine prepared a few times.                           *)
(***************************************************************************)
EXTENDS EngineApi
=============================================================================
