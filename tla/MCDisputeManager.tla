------------------------- MODULE MCDisputeManager -------------------------
(* Instances of DisputeManager for TLC. *)
EXTENDS DisputeManager, TLC

SpecOf(v, q, open, deadline, window) ==
    [specVersion |-> v, quorumThreshold |-> q, openTimestamp |-> open,
     observationDeadline |-> deadline, disputeWindow |-> window]

(* Two resolvers must agree within one instant, then one instant to object. *)
PairSpecs == {SpecOf(1, 2, 0, 1, 1)}

(* The first observation is the proposal, so the ladder starts at once.     *)
SoloSpecs == {SpecOf(1, 1, 0, 1, 1)}

(* The owner changes the pool only when the manager is the next to read it; *)
(* while resolvers observe, MCEventRegistry changes it.                     *)
OwnerActs ==
    authorized' # authorized =>
        \A e \in EventIds :
            \/ status[e] = "None"
            \/ Seeding(e)
            \/ TierTimedOut(e, 1)
            \/ status[e] = "ProposedOutcome" /\ WindowOpen(e)
            \/ status[e] = "ObservationsSubmitted" /\ DeadlinePassed(e)

(* In the runs that explore seeding: the pool changes only before an event  *)
(* exists and while a committee is seeded, and credits are withdrawn last.  *)
SeedingOnly ==
    /\ authorized' # authorized =>
          \A e \in EventIds : status[e] = "None" \/ Seeding(e)
    /\ (\E a \in Accounts : pendingWithdrawals'[a] < pendingWithdrawals[a]) =>
          \A e \in EventIds : ~cases[e].exists \/ cases[e].resolved

(* The resolvers are authorized before anything else happens.               *)
PoolFixed == authorized' # authorized => \A e \in EventIds : status[e] = "None"

(* The deployment is set up before the first event, who disputes did not    *)
(* observe, and credits are withdrawn while some event is in dispute.       *)
SharedFunds ==
    /\ PoolFixed
    /\ (\E e \in EventIds : status'[e] # "None") => managerSet
    /\ \A e \in EventIds, r \in Disputers : observation'[e][r] = NoPayload
    /\ (\E a \in Accounts : pendingWithdrawals'[a] < pendingWithdrawals[a]) =>
          \E e \in EventIds : status[e] = "Disputed"

(* Committee sizes for Tier 1 and Tier 2. *)
WholePool       == <<3, 3>>
MixedCommittees == <<2, 3>>
PairCommittees  == <<2, 2>>
SoleMembers     == <<1, 1>>
UnitWindows     == <<1, 1>>

(* Observed at once or not at all, then one instant to object.              *)
QuickSpecs == {SpecOf(1, 1, -1, 0, 1)}

ResolverSymmetry == Permutations(Resolvers)
EventSymmetry    == Permutations(EventIds)
=============================================================================
