------------------------- MODULE DistributionMarket -------------------------
(***************************************************************************)
(* derivatives/DistributionMarket.sol: shares of N ranges, sold and bought *)
(* back by an LMSR market maker at prices that follow from the shares that *)
(* are out, and paid when the N-1 boundary events are decided.             *)
(*                                                                         *)
(* Amounts are whole units of collateral.  Weight[x] is exp(-x / b), times *)
(* Weight[0], for the liquidity b: all the contract takes from its library *)
(* of exponentials and logarithms.                                         *)
(***************************************************************************)
EXTENDS TreasuryVault, Clock

CONSTANTS
    DistIds,        \* bound: the markets users create
    Ladders,        \* the lists of boundaries they give
    DistTraders,
    BuyAmounts,     \* what traders spend at once
    SellAmounts,    \* the shares they sell at once
    TradeFeeBps,    \* tradeFeeBps
    Weight,
    DistCloseTimes, \* the closing times users choose
    MaxTrades       \* bound: the trades of a market

DistBPS == 10000

ASSUME DistAssumption ==
    /\ IsFiniteSet(DistIds) /\ IsFiniteSet(DistTraders)
    /\ Ladders \subseteq Seq(Ids) \ {<<>>}
    /\ \A ladder \in Ladders : \A i, j \in DOMAIN ladder : ladder[i] = ladder[j] => i = j
    /\ BuyAmounts \cup SellAmounts \subseteq Nat \ {0}
    /\ TradeFeeBps \in 0..500
    /\ Cardinality(DOMAIN Weight) \in Nat \ {0}
    /\ Weight \in [0..(Cardinality(DOMAIN Weight) - 1) -> Nat]
    /\ \A x, y \in DOMAIN Weight : x <= y => Weight[y] <= Weight[x]

VARIABLES
    dist,           \* _markets, _boundaries and _q
    shares,         \* shares[m][t][k]
    redeemed,       \* redeemed[m]: who redeemed
    distHeld        \* collateral.balanceOf(distributionMarket)

distVars == <<dist, shares, redeemed, distHeld>>

NoDist == [created |-> FALSE, ids |-> <<>>, closesAt |-> 0, status |-> "Open", winning |-> 0,
           q |-> <<>>, reserve |-> 0, fees |-> 0, trades |-> 0]
Buckets(ids) == 0..Len(ids)
Empty(ids)   == [k \in Buckets(ids) |-> 0]

DistInit == /\ dist = [m \in DistIds |-> NoDist]
            /\ shares = [m \in DistIds |-> [t \in DistTraders |-> <<>>]]
            /\ redeemed = [m \in DistIds |-> {}]
            /\ distHeld = 0

-----------------------------------------------------------------------------
(* c is at least the cost of having q out: the sum of exp((q[k] - c) / b)   *)
(* over the buckets is at most 1.                                           *)
Share(x) == IF x \in DOMAIN Weight THEN Weight[x] ELSE 0
Covers(c, q) == /\ \A k \in DOMAIN q : q[k] <= c
                /\ SumFunction([k \in DOMAIN q |-> Share(c - q[k])]) <= Weight[0]

(* _cost, rounded up to units.                                              *)
Cost(q) == LET top == Max({q[k] : k \in DOMAIN q})
           IN  CHOOSE c \in top..(top + Cardinality(DOMAIN Weight)) :
                   Covers(c, q) /\ (c = top \/ ~Covers(c - 1, q))

Plus(q, k, n) == [q EXCEPT ![k] = @ + n]

(* _sharesForCost: as many as the cost with net on top covers.  The cost is *)
(* known more exactly than to a unit, so it may be one less; so may the     *)
(* proceeds of a sale (_proceedsForShares).                                 *)
SharesForCost(q, k, net) ==
    LET big  == Cost(q) + net
        most == CHOOSE n \in 0..(big - q[k]) :
                    Covers(big, Plus(q, k, n)) /\ ~Covers(big, Plus(q, k, n + 1))
    IN  {most - 1, most}

ProceedsForShares(q, k, n) ==
    LET drop == Cost(q) - Cost(Plus(q, k, -n)) IN {drop - 1, drop}

(* createMarket: the creator pays the subsidy, the cost of no shares.       *)
CreateDist(m, ids, closesAt) ==
    LET subsidy == Cost(Empty(ids)) + 1 IN
    /\ ~dist[m].created
    /\ closesAt > now
    /\ \A i \in DOMAIN ids : view[ids[i]] = "Pending"
    /\ dist' = [dist EXCEPT ![m] = [NoDist EXCEPT !.created = TRUE, !.ids = ids, !.closesAt = closesAt,
                                                  !.q = Empty(ids), !.reserve = subsidy]]
    /\ shares' = [shares EXCEPT ![m] = [t \in DistTraders |-> Empty(ids)]]
    /\ distHeld' = distHeld + subsidy
    /\ UNCHANGED <<vars, now, redeemed>>

Tradable(m) == /\ dist[m].created
               /\ dist[m].status = "Open"
               /\ now < dist[m].closesAt
               /\ \A i \in DOMAIN dist[m].ids : view[dist[m].ids[i]] = "Pending"
               /\ dist[m].trades < MaxTrades

TradeFee(amount) == (amount * TradeFeeBps) \div DistBPS

Buy(m, t, k, amount) ==
    LET net == amount - TradeFee(amount) IN
    /\ Tradable(m)
    /\ k \in DOMAIN dist[m].q
    /\ \E n \in SharesForCost(dist[m].q, k, net) :
          /\ n > 0
          /\ dist[m].reserve + net >= Cost(Plus(dist[m].q, k, n))
          /\ dist' = [dist EXCEPT ![m].q = Plus(@, k, n), ![m].reserve = @ + net,
                                  ![m].fees = @ + TradeFee(amount), ![m].trades = @ + 1]
          /\ shares' = [shares EXCEPT ![m][t] = Plus(@, k, n)]
    /\ distHeld' = distHeld + amount
    /\ UNCHANGED <<vars, now, redeemed>>

Sell(m, t, k, n) ==
    /\ Tradable(m)
    /\ k \in DOMAIN dist[m].q
    /\ n \in 1..shares[m][t][k]
    /\ \E gross \in ProceedsForShares(dist[m].q, k, n) :
          /\ gross - TradeFee(gross) > 0
          /\ dist[m].reserve - gross >= Cost(Plus(dist[m].q, k, -n))
          /\ dist' = [dist EXCEPT ![m].q = Plus(@, k, -n), ![m].reserve = @ - gross,
                                  ![m].fees = @ + TradeFee(gross), ![m].trades = @ + 1]
          /\ distHeld' = distHeld - (gross - TradeFee(gross))
    /\ shares' = [shares EXCEPT ![m][t] = Plus(@, k, -n)]
    /\ UNCHANGED <<vars, now, redeemed>>

-----------------------------------------------------------------------------
Trues(ids) == {i \in DOMAIN ids : view[ids[i]] = "True"}

Inconsistent_VoidOnly(ids) == \E i \in DOMAIN ids : view[ids[i]] = "Voided"  \* mutant
(* The boundaries say nothing: one is void, or one is true above a false.   *)
Inconsistent(ids) ==
    \E i \in DOMAIN ids :
        \/ view[ids[i]] = "Voided"
        \/ view[ids[i]] = "True" /\ \E j \in 1..(i - 1) : view[ids[j]] = "False"

Total(q) == SumFunction(q)
VoidLiability(q) == (Total(q) + Cardinality(DOMAIN q) - 1) \div Cardinality(DOMAIN q)

(* settle, by anyone: fees to the vault, what is not owed to the creator.   *)
SettleDist(m) ==
    LET d    == dist[m]
        void == Inconsistent(d.ids)
        liability == IF void THEN VoidLiability(d.q) ELSE d.q[Cardinality(Trues(d.ids))]
    IN  /\ d.created /\ d.status = "Open"
        /\ \A i \in DOMAIN d.ids : view[d.ids[i]] # "Pending"
        /\ d.reserve >= liability
        /\ dist' = [dist EXCEPT ![m].status = IF void THEN "Voided" ELSE "Settled",
                                ![m].winning = IF void THEN 0 ELSE Cardinality(Trues(d.ids)),
                                ![m].fees = 0, ![m].reserve = liability]
        /\ distHeld' = distHeld - d.fees - (d.reserve - liability)
        /\ \/ d.fees = 0 /\ UNCHANGED vars
           \/ d.fees > 0 /\ DepositFees(d.ids, d.fees) /\ UNCHANGED income
        /\ UNCHANGED <<now, shares, redeemed>>

DistPayout_Ceil(m, t) ==  \* mutant: every void share is rounded up
    CASE dist[m].status = "Open"    -> 0
      [] dist[m].status = "Settled" -> shares[m][t][dist[m].winning]
      [] dist[m].status = "Voided"  -> VoidLiability(shares[m][t])
(* payoutOf: the shares of the winning range, or 1/N for any share.         *)
DistPayout(m, t) ==
    CASE dist[m].status = "Open"    -> 0
      [] dist[m].status = "Settled" -> shares[m][t][dist[m].winning]
      [] dist[m].status = "Voided"  -> Total(shares[m][t]) \div Cardinality(DOMAIN dist[m].q)

Redeem(m, t) ==
    /\ t \notin redeemed[m]
    /\ DistPayout(m, t) > 0
    /\ redeemed' = [redeemed EXCEPT ![m] = @ \cup {t}]
    /\ dist' = [dist EXCEPT ![m].reserve = @ - DistPayout(m, t)]
    /\ distHeld' = distHeld - DistPayout(m, t)
    /\ UNCHANGED <<vars, now, shares>>

DistStep ==
    \E m \in DistIds :
        \/ \E ids \in Ladders, closesAt \in DistCloseTimes : CreateDist(m, ids, closesAt)
        \/ \E t \in DistTraders, k \in DOMAIN dist[m].q :
              \/ \E amount \in BuyAmounts : Buy(m, t, k, amount)
              \/ \E n \in SellAmounts : Sell(m, t, k, n)
        \/ SettleDist(m)
        \/ \E t \in DistTraders : Redeem(m, t)

-----------------------------------------------------------------------------
Unredeemed(m) ==
    SumFunction([t \in DistTraders |-> IF t \in redeemed[m] THEN 0 ELSE DistPayout(m, t)])

(* The reserve of a market covers whatever the boundaries may still say:    *)
(* every range while it is open, through all trades and their roundings,    *)
(* and everything not redeemed yet once it is settled.  So settling cannot  *)
(* revert, and redeeming succeeds in any order, since the one balance is    *)
(* what all markets reserve and owe the vault.                              *)
DistSolvent ==
    /\ \A m \in DistIds :
        IF dist[m].status = "Open"
        THEN \A k \in DOMAIN dist[m].q : dist[m].q[k] <= dist[m].reserve
        ELSE Unredeemed(m) <= dist[m].reserve
    /\ distHeld = SumFunction([m \in DistIds |-> dist[m].reserve + dist[m].fees])

(* A range wins only if exactly the boundaries up to it are true, and every *)
(* share is paid the same if they are void or contradict each other.        *)
LadderRead ==
    \A m \in DistIds :
        /\ dist[m].status = "Settled" =>
              \A i \in DOMAIN dist[m].ids :
                  view[dist[m].ids[i]] = IF i <= dist[m].winning THEN "True" ELSE "False"
        /\ dist[m].status = "Voided" =>
              ~ \E k \in Buckets(dist[m].ids) : \A i \in DOMAIN dist[m].ids :
                    view[dist[m].ids[i]] = IF i <= k THEN "True" ELSE "False"
=============================================================================
