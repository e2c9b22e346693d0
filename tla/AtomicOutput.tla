---------------------------- MODULE AtomicOutput ----------------------------
(***************************************************************************)
(* What a native project promises about its output: the package a reader   *)
(* finds, or a recovery would restore, is that of one completed build,     *)
(* made from the very inputs its record names; a later build replaces it   *)
(* at one moment and nothing else does.                                    *)
(***************************************************************************)
EXTENDS Integers

VARIABLE output   \* [revision, inputs, objects]; revision 0 before any build

Init == output.revision = 0

Replace(new) ==
    /\ new.revision > output.revision
    /\ new.objects = new.inputs
    /\ output' = new

Next == Replace(output')

Spec == Init /\ [][Next]_output
=============================================================================
