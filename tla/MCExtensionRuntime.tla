------------------------ MODULE MCExtensionRuntime ------------------------
(***************************************************************************)
(* Two drivers and a command of every kind, calls three deep, and two      *)
(* subscriptions during two logged lines.                                  *)
(***************************************************************************)
EXTENDS ExtensionRuntime, TLC

Symmetry == Permutations(Subscriptions)
=============================================================================
