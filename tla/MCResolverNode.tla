--------------------------- MODULE MCResolverNode ---------------------------
(* A small instance of ResolverNode for TLC. *)
EXTENDS ResolverNode, TLC

SpecOf(v, q, open, deadline, window) ==
    [specVersion |-> v, quorumThreshold |-> q, openTimestamp |-> open,
     observationDeadline |-> deadline, disputeWindow |-> window]

CONSTANT e1
OneEvent  == {e1}
Indexed   == <<e1>>
PairSpecs == {SpecOf(1, 2, 0, 1, 1)}

(* Tier 1 draws one of the two resolvers, Tier 2 seats both.                *)
Committees  == <<1, 2>>
UnitWindows == <<1, 1>>

(* The deployment is set up before the first event, the others leave their  *)
(* credits where they are, and both resolvers observe FALSE, so that what   *)
(* is missing is an observation; only the node may vote TRUE.  In Tier 2,   *)
(* where the duties do again what they did in Tier 1, nothing fails and no  *)
(* other keeper is faster.                                                  *)
Focus ==
    /\ authorized' # authorized \/ managerSet' # managerSet =>
          \A e \in EventIds : status[e] = "None"
    /\ \A a \in Accounts \ {Node} : pendingWithdrawals'[a] >= pendingWithdrawals[a]
    /\ \A e \in EventIds, r \in Resolvers \ {Node} :
          /\ ~observation'[e][r].outcome
          /\ \A t \in TierNums : tiers'[e][t].votes[r] # "VotedTrue"
    /\ job'.fn = "submitObservation" => ~job'.payload.outcome
    /\ \A e \in EventIds : cases[e].tier = 2 =>
          /\ failures' = failures
          /\ status'[e] # status[e] \/ tiers'[e][2].drawn # tiers[e][2].drawn => job # NoJob
=============================================================================
