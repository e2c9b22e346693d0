------------------------- MODULE MCNativePublication -------------------------
(***************************************************************************)
(* Builds, inspections, validations and cleans of one project whose inputs *)
(* change between two states.                                              *)
(***************************************************************************)
EXTENDS NativePublication
=============================================================================
