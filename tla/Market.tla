------------------------------- MODULE Market -------------------------------
(***************************************************************************)
(* derivatives/Market.sol: YES/NO pools on the outcome of an id of the bus *)
(* (read through Settlement.sol), which the winning side shares when       *)
(* somebody settles the market, or which are refunded.  All markets keep   *)
(* their collateral in one balance.  The fee goes to the vault.            *)
(***************************************************************************)
EXTENDS TreasuryVault, Clock

CONSTANTS
    MarketIds,      \* bound: the markets users create
    Traders,
    StakeAmounts,   \* what traders deposit and take back at once
    FeeBps,         \* feeBps
    CloseTimes,     \* the closing times users choose
    MaxPool         \* bound: the deposits traders try to make in a market

BPS == 10000
MaxFeeBps == 500

ASSUME MarketAssumption ==
    /\ IsFiniteSet(Traders) /\ IsFiniteSet(MarketIds)
    /\ StakeAmounts \subseteq Nat \ {0}
    /\ FeeBps \in 0..MaxFeeBps
    /\ CloseTimes \subseteq Nat
    /\ MaxPool \in Nat

VARIABLES
    market,         \* _markets
    balance,        \* balance[m][side][t]: yesBalance for TRUE, noBalance for FALSE
    claimed,        \* claimed[m]: who claimed
    marketHeld      \* collateral.balanceOf(market)

marketVars == <<market, balance, claimed, marketHeld>>

NoMarket == [created |-> FALSE, id |-> 0, closesAt |-> 0, status |-> "Open", outcome |-> FALSE,
             pool |-> [side \in BOOLEAN |-> 0], fee |-> 0]
NoStake  == [side \in BOOLEAN |-> [t \in Traders |-> 0]]

MarketInit == /\ market = [m \in MarketIds |-> NoMarket]
              /\ balance = [m \in MarketIds |-> NoStake]
              /\ claimed = [m \in MarketIds |-> {}]
              /\ marketHeld = 0

Available_NotPending(id) == view[id] # "Pending"  \* mutant: a void id is an answer
(* Settlement.getSettlement: there is an answer to decode.                  *)
Available(id) == view[id] \in {"True", "False"}

CreateMarket(m, id, closesAt) ==
    /\ ~market[m].created
    /\ closesAt > now
    /\ view[id] = "Pending"
    /\ market' = [market EXCEPT ![m] = [NoMarket EXCEPT !.created = TRUE, !.id = id,
                                                        !.closesAt = closesAt]]
    /\ UNCHANGED <<vars, now, balance, claimed, marketHeld>>

TradingOpen(m) == /\ market[m].created
                  /\ market[m].status = "Open"
                  /\ now < market[m].closesAt

DepositCollateral(m, side, t, amount) ==
    /\ TradingOpen(m)
    /\ view[market[m].id] = "Pending"
    /\ market[m].pool[TRUE] + market[m].pool[FALSE] + amount <= MaxPool
    /\ balance' = [balance EXCEPT ![m][side][t] = @ + amount]
    /\ market' = [market EXCEPT ![m].pool[side] = @ + amount]
    /\ marketHeld' = marketHeld + amount
    /\ UNCHANGED <<vars, now, claimed>>

ClosePosition(m, side, t, amount) ==
    /\ TradingOpen(m)
    /\ balance[m][side][t] >= amount
    /\ balance' = [balance EXCEPT ![m][side][t] = @ - amount]
    /\ market' = [market EXCEPT ![m].pool[side] = @ - amount]
    /\ marketHeld' = marketHeld - amount
    /\ UNCHANGED <<vars, now, claimed>>

-----------------------------------------------------------------------------
Fee_OfAll(pool, outcome) ==  \* mutant: taken although nobody won
    (pool[~outcome] * FeeBps) \div BPS
(* The fee on the losing pool; none if nobody backed the winning side.      *)
Fee(pool, outcome) == IF pool[outcome] > 0 THEN (pool[~outcome] * FeeBps) \div BPS ELSE 0

Refund(m) ==
    /\ view[market[m].id] = "Voided"
    /\ market' = [market EXCEPT ![m].status = "Refunding"]
    /\ UNCHANGED <<vars, marketHeld>>

PayOut(m) ==
    LET outcome == view[market[m].id] = "True"
        fee     == Fee(market[m].pool, outcome)
    IN  /\ Available(market[m].id)
        /\ market' = [market EXCEPT ![m].status = "Settled", ![m].outcome = outcome, ![m].fee = fee]
        /\ marketHeld' = marketHeld - fee
        /\ \/ fee = 0 /\ UNCHANGED vars
           \/ fee > 0 /\ DepositFees(<<market[m].id>>, fee) /\ UNCHANGED income

(* settle, by anyone.                                                       *)
SettleMarket(m) == /\ market[m].created /\ market[m].status = "Open"
                   /\ Refund(m) \/ PayOut(m)
                   /\ UNCHANGED <<now, balance, claimed>>

OwnStake(m, t) == balance[m][TRUE][t] + balance[m][FALSE][t]

Payout_Ceil(m, t) ==  \* mutant: a division that rounds up
    LET outcome == market[m].outcome
        winners == market[m].pool[outcome]
    IN  IF market[m].status = "Refunding" \/ winners = 0 THEN OwnStake(m, t)
        ELSE balance[m][outcome][t]
               + (balance[m][outcome][t] * (market[m].pool[~outcome] - market[m].fee) + winners - 1) \div winners
(* _computePayout: the own stake back, and a winner's share of what the     *)
(* other side lost.                                                         *)
Payout(m, t) ==
    LET outcome == market[m].outcome
        winners == market[m].pool[outcome]
    IN  IF market[m].status = "Refunding" \/ winners = 0 THEN OwnStake(m, t)
        ELSE balance[m][outcome][t]
               + (balance[m][outcome][t] * (market[m].pool[~outcome] - market[m].fee)) \div winners

Claim_TakesStake(m, t) ==  \* mutant: the pools shrink with each claim
    /\ market[m].status # "Open"
    /\ t \notin claimed[m]
    /\ Payout(m, t) > 0
    /\ claimed' = [claimed EXCEPT ![m] = @ \cup {t}]
    /\ market' = [market EXCEPT ![m].pool[TRUE] = @ - balance[m][TRUE][t]]
    /\ marketHeld' = marketHeld - Payout(m, t)
    /\ UNCHANGED <<vars, now, balance>>

Claim(m, t) ==
    /\ market[m].status # "Open"
    /\ t \notin claimed[m]
    /\ Payout(m, t) > 0
    /\ claimed' = [claimed EXCEPT ![m] = @ \cup {t}]
    /\ marketHeld' = marketHeld - Payout(m, t)
    /\ UNCHANGED <<vars, now, market, balance>>

MarketStep ==
    \E m \in MarketIds :
        \/ \E id \in Ids, closesAt \in CloseTimes : CreateMarket(m, id, closesAt)
        \/ \E side \in BOOLEAN, t \in Traders, amount \in StakeAmounts :
              DepositCollateral(m, side, t, amount) \/ ClosePosition(m, side, t, amount)
        \/ SettleMarket(m)
        \/ \E t \in Traders : Claim(m, t)

-----------------------------------------------------------------------------
Unclaimed(m) == SumFunction([t \in Traders |-> IF t \in claimed[m] THEN 0 ELSE Payout(m, t)])

Owed(m) == IF market[m].status = "Open" THEN market[m].pool[TRUE] + market[m].pool[FALSE]
           ELSE Unclaimed(m)

(* One balance pays every market: at any moment it covers the stakes of the *)
(* open ones and each payout not claimed yet of the others, after fees and  *)
(* all roundings, so claims succeed in any order.                           *)
MarketSolvent == marketHeld >= SumFunction([m \in MarketIds |-> Owed(m)])

(* A market never settles on anything but what the bus says, then or later, *)
(* and a void id always refunds.                                            *)
SettledAsRead ==
    \A m \in MarketIds :
        /\ market[m].status = "Settled" => view[market[m].id] = IF market[m].outcome THEN "True" ELSE "False"
        /\ market[m].status = "Refunding" => view[market[m].id] = "Voided"

(* Nobody pays a fee or loses a stake in a market without winners, and the  *)
(* winners keep their stakes: what a trader can lose is on the losing side. *)
StakesReturned ==
    \A m \in MarketIds, t \in Traders :
        /\ market[m].status = "Refunding" => Payout(m, t) = OwnStake(m, t) /\ market[m].fee = 0
        /\ market[m].status = "Settled" =>
              /\ Payout(m, t) >= balance[m][market[m].outcome][t]
              /\ market[m].pool[market[m].outcome] = 0 => market[m].fee = 0

(* What a trader will be paid is fixed when the market settles: nobody's    *)
(* claim changes it for another.                                            *)
PayoutStands ==
    [][\A m \in MarketIds, t \in Traders :
          market[m].status # "Open" => Payout(m, t)' = Payout(m, t)]_<<marketVars>>

(* threat-model/page.tsx:28 lists "Losers exit after the outcome is public" *)
(* as fixed by "'outcome known' checks on every deposit/withdraw/trade".    *)
NobodyLeavesLate ==
    [][\A m \in MarketIds :
          /\ market[m].status = "Open"
          /\ \E side \in BOOLEAN : market'[m].pool[side] < market[m].pool[side]
          => view[market[m].id] = "Pending"]_<<marketVars>>
=============================================================================
