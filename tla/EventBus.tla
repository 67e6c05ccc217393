------------------------------ MODULE EventBus ------------------------------
(***************************************************************************)
(* contracts/EventBus.sol: the one contract applications read outcomes     *)
(* from, for events and composites alike.  It keeps no state: its three    *)
(* views are functions of the registry's and the composer's.               *)
(***************************************************************************)
EXTENDS EventComposer

IsFinalized(id) == id \in EventIds /\ phase[id] = "Decided"

IsResolved(id)  == id \in CompositeIds /\ cached[id] \in {"True", "False"}

IsAvailable(id) == IsFinalized(id) \/ IsResolved(id)

(* readOutcome; it reverts for an id that is not available.                 *)
ReadOutcome(id) == IF IsFinalized(id) THEN Verdict(TRUE \in answer[id]) ELSE cached[id]

(* What getAvailability reads for an id that is no event of the registry:   *)
(* the composer's getStatus, which is Unresolved for an id it has not seen. *)
CompositeAvailability(id) ==
    CASE id \in CompositeIds /\ cached[id] \in {"True", "False"} -> "Available"
      [] id \in CompositeIds /\ cached[id] = "Voided" -> "Voided"
      [] OTHER -> "Pending"

Availability_Dispute(id) ==  \* mutant: an event in dispute reads as dead
    IF id \in EventIds /\ phase[id] # "None"
    THEN CASE phase[id] = "Decided" -> "Available"
           [] phase[id] \in {"Void", "Contested"} -> "Voided"
           [] OTHER -> "Pending"
    ELSE CompositeAvailability(id)

Availability(id) ==
    IF id \in EventIds /\ phase[id] # "None"
    THEN CASE phase[id] = "Decided" -> "Available"
           [] phase[id] = "Void" -> "Voided"
           [] OTHER -> "Pending"
    ELSE CompositeAvailability(id)

-----------------------------------------------------------------------------
(* The three views agree for every id: what is available can be read and is *)
(* an answer, and nothing else can be.                                      *)
BusConsistent ==
    \A id \in Ids :
        /\ IsAvailable(id) <=> Availability(id) = "Available"
        /\ IsAvailable(id) => ReadOutcome(id) \in {"True", "False"}

(* What an application that asks getAvailability and readOutcome sees.      *)
View == [id \in Ids |-> IF Availability(id) = "Available" THEN ReadOutcome(id) ELSE Availability(id)]

Feed == INSTANCE OutcomeFeed WITH view <- View

(* An application that reads the bus sees every id settle at most once, to  *)
(* something that never changes afterwards.                                 *)
ImplementsFeed == Feed!Spec
=============================================================================
