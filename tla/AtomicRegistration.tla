-------------------------- MODULE AtomicRegistration --------------------------
(***************************************************************************)
(* What Integrate promises: the catalog of a profile, its registration     *)
(* state, its Python association and its place in the shared selection are *)
(* those of before, or all of them those of the new revision.              *)
(***************************************************************************)
CONSTANTS Targets, Self, Revisions, Python

VARIABLE published   \* [catalog, config, selection]

Nothing == "absent"

Receipt(r) == IF r \in Python THEN r ELSE "no receipt"

Init ==
    /\ published.catalog \in {Nothing, "foreign"}
    /\ published.config = [state |-> Nothing, mapping |-> Nothing]

Integrated(r) ==
    published' = [catalog |-> r,
                  config |-> [state |-> r, mapping |-> Receipt(r)],
                  selection |-> [known |-> published.selection.known \cup {Self},
                                 selected |-> Self]]

Next == \E r \in Revisions : Integrated(r)

Spec == Init /\ [][Next]_published
=============================================================================
