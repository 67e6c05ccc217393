-------------------------- MODULE MCCompositeKeeper --------------------------
(* Small instances of the composer with a keeper that resolves composites.  *)
EXTENDS CompositeKeeper

MCTwoEvents == {1, 4}
MCTwoComposites == {2, 5}
MCAllOps == {"And", "Or", "Not", "Before", "Within"}

(* Both events exist before the first composite and are not contested: to   *)
(* the composer a contest is one more way of being open.  The first         *)
(* composite joins or compares the events, the second is any over the       *)
(* first, alone or with the second event.                                   *)
Nested ==
    /\ \A e \in EventIds : phase'[e] # "Contested"
    /\ composite' # composite => \A e \in EventIds : phase[e] # "None"
    /\ Exists(2)' => composite'[2].op \in {"And", "Before"} /\ composite'[2].operands = <<1, 4>>
    /\ Exists(5)' => /\ Exists(2)
                     /\ composite'[5].operands \in {<<2>>, <<2, 4>>, <<4, 2>>}
=============================================================================
