-------------------------- MODULE MCRegistrationPair --------------------------
(***************************************************************************)
(* One revision and two transactions for each of the two profiles.  The    *)
(* second has packages of other owners, the first may be new: the opposite *)
(* case is the same with the profiles exchanged.                           *)
(***************************************************************************)
EXTENDS RegistrationPair

MCInit == Init /\ catalog2 = P2!Foreign
=============================================================================
