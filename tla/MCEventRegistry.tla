-------------------------- MODULE MCEventRegistry --------------------------
(* Instances of EventRegistry for TLC, under any dispute manager. *)
EXTENDS EventRegistry, TLC

(* A version 1 event that needs two resolvers, a version 2 event that opens *)
(* only one instant after its creation and has no dispute window, one whose *)
(* dispute window overflows, and the two kinds createEvent refuses.         *)
SpecOf(v, q, open, deadline, window) ==
    [specVersion |-> v, quorumThreshold |-> q, openTimestamp |-> open,
     observationDeadline |-> deadline, disputeWindow |-> window]

MCSpecs == {SpecOf(1, 2, -1, 1, 1), SpecOf(2, 1, 1, 2, 0), SpecOf(2, 2, 0, 1, 4),
            SpecOf(1, 0, 0, 1, 1), SpecOf(2, 2, 1, 1, 1)}
MCOccurredAt == {0, 2}

(* One event with three resolvers, or two events created together or apart  *)
(* with two, who keep their authorization: quorums, split payloads, late    *)
(* observers.                                                               *)
Involved == authorized \cup {r \in Resolvers : \E e \in EventIds : HasSubmitted(e, r)}
OneEventOrTwoResolvers ==
    \/ \E e \in EventIds : status'[e] = "None"
    \/ Cardinality(Involved') <= 2 /\ authorized \subseteq authorized'

RegSymmetry == Permutations(EventIds) \cup Permutations(Resolvers)
=============================================================================
