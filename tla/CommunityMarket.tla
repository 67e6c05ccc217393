--------------------------- MODULE CommunityMarket ---------------------------
(***************************************************************************)
(* derivatives/CommunityMarket.sol: pools that the creator resolves, under *)
(* a deadline and a window in which players with more than a third of the  *)
(* pool can void the result.  No event of the registry is involved.        *)
(***************************************************************************)
EXTENDS Clock, FiniteSetsExt

CONSTANTS
    PoolIds,        \* bound: the markets users create
    Players,        \* who create and stake
    Outcomes,       \* the outcomes of a market, 0 to nOutcomes - 1
    PlayAmounts,    \* what they stake at once
    Times,          \* the times they choose: pairs of closesAt and resolveBy
    Window,         \* objectionWindow
    MaxStake        \* bound: what players try to stake in one market

ASSUME CommunityAssumption ==
    /\ IsFiniteSet(PoolIds) /\ IsFiniteSet(Players) /\ IsFiniteSet(Outcomes)
    /\ PlayAmounts \subseteq Nat \ {0}
    /\ \A p \in Times : p[1] \in Nat /\ p[2] \in Nat
    /\ Window \in Nat \ {0}
    /\ MaxStake \in Nat

VARIABLES
    pool,           \* _markets
    staked,         \* _stakes: staked[m][p][o]
    objected,       \* objected[m]: who objected
    paid,           \* claimed: paid[m] is who claimed
    poolHeld        \* collateral.balanceOf(communityMarket)

poolVars == <<pool, staked, objected, paid, poolHeld, now>>

NoPool == [creator |-> "nobody", closesAt |-> 0, resolveBy |-> 0, status |-> "Open", outcome |-> 0,
           proposedAt |-> 0, objectedStake |-> 0]
NoStakes == [p \in Players |-> [o \in Outcomes |-> 0]]

CommunityInit == /\ pool = [m \in PoolIds |-> NoPool]
                 /\ staked = [m \in PoolIds |-> NoStakes]
                 /\ objected = [m \in PoolIds |-> {}]
                 /\ paid = [m \in PoolIds |-> {}]
                 /\ poolHeld = 0

Created(m)     == pool[m].creator # "nobody"
StakedBy(m, p) == SumFunction(staked[m][p])
PoolOf(m, o)   == SumFunction([p \in Players |-> staked[m][p][o]])
TotalPool(m)   == SumFunction([p \in Players |-> StakedBy(m, p)])

CreatePool(m, p, closesAt, resolveBy) ==
    /\ ~Created(m)
    /\ now < closesAt /\ closesAt < resolveBy
    /\ pool' = [pool EXCEPT ![m] = [NoPool EXCEPT !.creator = p, !.closesAt = closesAt,
                                                  !.resolveBy = resolveBy]]
    /\ UNCHANGED <<staked, objected, paid, poolHeld, now>>

StakingOpen_Any(m) == pool[m].status = "Open" \/ pool[m].status = "Proposed"  \* mutant
StakingOpen(m) == pool[m].status = "Open" /\ now < pool[m].closesAt

Stake(m, p, o, amount) ==
    /\ Created(m)
    /\ StakingOpen(m)
    /\ TotalPool(m) + amount <= MaxStake
    /\ staked' = [staked EXCEPT ![m][p][o] = @ + amount]
    /\ poolHeld' = poolHeld + amount
    /\ UNCHANGED <<pool, objected, paid, now>>

ProposeOutcome(m, o) ==
    /\ Created(m)
    /\ pool[m].status = "Open"
    /\ pool[m].closesAt <= now /\ now <= pool[m].resolveBy
    /\ pool' = [pool EXCEPT ![m].status = "Proposed", ![m].outcome = o, ![m].proposedAt = now]
    /\ UNCHANGED <<staked, objected, paid, poolHeld, now>>

WindowOver(m) == pool[m].proposedAt + Window <= now

ObjectToResult(m, p) ==
    LET against == pool[m].objectedStake + StakedBy(m, p) IN
    /\ pool[m].status = "Proposed"
    /\ ~WindowOver(m)
    /\ StakedBy(m, p) > 0
    /\ p \notin objected[m]
    /\ objected' = [objected EXCEPT ![m] = @ \cup {p}]
    /\ pool' = [pool EXCEPT ![m].objectedStake = against,
                            ![m].status = IF against * 3 > TotalPool(m) THEN "Voided" ELSE "Proposed"]
    /\ UNCHANGED <<staked, paid, poolHeld, now>>

FinalizePool(m) ==
    /\ pool[m].status = "Proposed"
    /\ WindowOver(m)
    /\ pool' = [pool EXCEPT ![m].status = IF PoolOf(m, pool[m].outcome) = 0 THEN "Voided" ELSE "Resolved"]
    /\ UNCHANGED <<staked, objected, paid, poolHeld, now>>

VoidUnresolved_Staked(m) ==  \* mutant: refused while there is nothing to refund
    /\ Created(m)
    /\ pool[m].status = "Open"
    /\ pool[m].resolveBy < now
    /\ TotalPool(m) > 0
    /\ pool' = [pool EXCEPT ![m].status = "Voided"]
    /\ UNCHANGED <<staked, objected, paid, poolHeld, now>>

VoidUnresolved(m) ==
    /\ Created(m)
    /\ pool[m].status = "Open"
    /\ pool[m].resolveBy < now
    /\ pool' = [pool EXCEPT ![m].status = "Voided"]
    /\ UNCHANGED <<staked, objected, paid, poolHeld, now>>

(* cancel, by the creator.                                                  *)
Cancel(m) ==
    /\ Created(m)
    /\ pool[m].status \in {"Open", "Proposed"}
    /\ pool' = [pool EXCEPT ![m].status = "Voided"]
    /\ UNCHANGED <<staked, objected, paid, poolHeld, now>>

(* payoutOf: the stake back, or a share of the whole pool.                  *)
PoolPayout(m, p) ==
    LET o == pool[m].outcome IN
    CASE p \in paid[m] -> 0
      [] p \notin paid[m] /\ pool[m].status = "Voided" -> StakedBy(m, p)
      [] p \notin paid[m] /\ pool[m].status = "Resolved" /\ staked[m][p][o] > 0 ->
            (staked[m][p][o] * TotalPool(m)) \div PoolOf(m, o)
      [] OTHER -> 0

ClaimPool_Again(m, p) ==  \* mutant: who claimed is not recorded
    /\ PoolPayout(m, p) > 0
    /\ poolHeld' = poolHeld - PoolPayout(m, p)
    /\ UNCHANGED <<pool, staked, objected, paid, now>>

ClaimPool(m, p) ==
    /\ PoolPayout(m, p) > 0
    /\ paid' = [paid EXCEPT ![m] = @ \cup {p}]
    /\ poolHeld' = poolHeld - PoolPayout(m, p)
    /\ UNCHANGED <<pool, staked, objected, now>>

(* What anybody can do about a market without its creator.                  *)
CloseStep(m) == FinalizePool(m) \/ VoidUnresolved(m)

CommunityStep ==
    \E m \in PoolIds :
        \/ \E p \in Players, times \in Times : CreatePool(m, p, times[1], times[2])
        \/ \E p \in Players, o \in Outcomes, amount \in PlayAmounts : Stake(m, p, o, amount)
        \/ \E o \in Outcomes : ProposeOutcome(m, o)
        \/ \E p \in Players : ObjectToResult(m, p) \/ ClaimPool(m, p)
        \/ CloseStep(m)
        \/ Cancel(m)

-----------------------------------------------------------------------------
Final == {"Resolved", "Voided"}

(* One balance pays every market: it covers the stakes of those that are    *)
(* not final and each payout not claimed yet of the others, with roundings. *)
PoolOwed(m) == IF pool[m].status \in Final
               THEN SumFunction([p \in Players |-> PoolPayout(m, p)])
               ELSE TotalPool(m)

PoolsSolvent == poolHeld >= SumFunction([m \in PoolIds |-> PoolOwed(m)])

(* A result stands only if those who objected hold at most a third of the   *)
(* whole pool and somebody backed it; what they hold cannot change under an *)
(* objection that was counted.                                              *)
ResultsAccepted ==
    \A m \in PoolIds :
        LET against == SumFunction([p \in objected[m] |-> StakedBy(m, p)]) IN
        /\ pool[m].objectedStake = against
        /\ pool[m].status = "Resolved" => against * 3 <= TotalPool(m) /\ PoolOf(m, pool[m].outcome) > 0

(* CommunityMarket.sol:19: a creator "can't hold the pool hostage": every   *)
(* market becomes final whatever its creator does or fails to do.           *)
EveryPoolEnds == \A m \in PoolIds : Created(m) ~> pool[m].status \in Final
=============================================================================
