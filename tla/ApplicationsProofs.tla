-------------------------- MODULE ApplicationsProofs --------------------------
(***************************************************************************)
(* What holds of Applications for any ids, markets, traders, amounts and   *)
(* times: results are what the bus says, and they stand.                   *)
(***************************************************************************)
EXTENDS Applications, FiniteSetTheorems, SequenceTheorems, TLAPS

MarketRecord == [created : BOOLEAN, id : Ids \cup {0}, closesAt : Int,
                 status : {"Open", "Settled", "Refunding"}, outcome : BOOLEAN,
                 pool : [BOOLEAN -> Int], fee : Int]

FeedOK == view \in [Ids -> Feed!Views]

(* Markets keep their types, and only a market on an id of the bus, once it *)
(* exists, ends.                                                            *)
MarketOK == /\ market \in [MarketIds -> MarketRecord]
            /\ balance \in [MarketIds -> [BOOLEAN -> [Traders -> Int]]]
            /\ \A m \in MarketIds : /\ market[m].created => market[m].id \in Ids
                                    /\ market[m].status # "Open" => market[m].created

MarketInv == FeedOK /\ MarketOK /\ SettledAsRead

-----------------------------------------------------------------------------
(* Whatever happens, the ids move as OutcomeFeed says.                      *)
LEMMA FeedMoves ==
    ASSUME [AppNext]_appVars
    PROVE  UNCHANGED view \/ \E id \in Ids, v \in Feed!Views : Feed!Settle(id, v)
<1>1. CASE WorldStep
  BY <1>1 DEF WorldStep, Learn, Settle, Feed!Views
<1>2. CASE VaultStep
  BY <1>2 DEF VaultStep, SetDisputeManager, Allocate, ClaimResolverReward, ClaimCommitteeReward,
              WithdrawTreasury, WithdrawInsurance, worldVars
<1>3. CASE ConsumerStep
  BY <1>3 DEF ConsumerStep, DepositFees, worldVars
<1>4. ASSUME NEW ids, NEW amount, UNCHANGED vars \/ DepositFees(ids, amount)
      PROVE  UNCHANGED view
  BY <1>4 DEF DepositFees, vars, worldVars
<1>5. CASE MarketStep
  <2>1. PICK m \in MarketIds :
           \/ \E id \in Ids, closesAt \in CloseTimes : CreateMarket(m, id, closesAt)
           \/ \E side \in BOOLEAN, t \in Traders, amount \in StakeAmounts :
                 DepositCollateral(m, side, t, amount) \/ ClosePosition(m, side, t, amount)
           \/ SettleMarket(m)
           \/ \E t \in Traders : Claim(m, t)
    BY <1>5 DEF MarketStep
  <2>2. CASE PayOut(m)
    BY <1>4, <2>2 DEF PayOut
  <2>3. CASE UNCHANGED vars
    BY <1>4, <2>3
  <2>4. PayOut(m) \/ UNCHANGED vars
    BY <2>1 DEF CreateMarket, DepositCollateral, ClosePosition, SettleMarket, Refund, Claim
  <2> QED BY <2>2, <2>3, <2>4
<1>6. CASE DistStep
  <2>1. PICK m \in DistIds :
           \/ \E ids \in Ladders, closesAt \in DistCloseTimes : CreateDist(m, ids, closesAt)
           \/ \E t \in DistTraders, k \in DOMAIN dist[m].q :
                 \/ \E amount \in BuyAmounts : Buy(m, t, k, amount)
                 \/ \E n \in SellAmounts : Sell(m, t, k, n)
           \/ SettleDist(m)
           \/ \E t \in DistTraders : Redeem(m, t)
    BY <1>6 DEF DistStep
  <2>2. CASE SettleDist(m)
    BY <1>4, <2>2 DEF SettleDist
  <2>3. CASE UNCHANGED vars
    BY <1>4, <2>3
  <2>4. SettleDist(m) \/ UNCHANGED vars
    BY <2>1 DEF CreateDist, Buy, Sell, Redeem
  <2> QED BY <2>2, <2>3, <2>4
<1>7. CASE UNCHANGED vars
  BY <1>7 DEF vars, worldVars
<1> QED BY <1>1, <1>2, <1>3, <1>5, <1>6, <1>7 DEF AppNext, appVars

LEMMA FeedStands ==
    ASSUME FeedOK, [AppNext]_appVars
    PROVE  /\ FeedOK'
           /\ \A id \in Ids : view[id] # "Pending" => view'[id] = view[id]
BY FeedMoves DEF FeedOK, Feed!Settle, Feed!Views

(* A step is one of a market, or leaves the markets alone.                  *)
LEMMA MarketMoves ==
    ASSUME [AppNext]_appVars
    PROVE  MarketStep \/ UNCHANGED marketVars
BY DEF AppNext, appVars

-----------------------------------------------------------------------------
(* What a step may do to one market.                                        *)
Listed(m)  == /\ ~market[m].created
              /\ \E id \in Ids, closesAt \in CloseTimes :
                    market'[m] = [NoMarket EXCEPT !.created = TRUE, !.id = id, !.closesAt = closesAt]
Traded(m)  == /\ market[m].created /\ market[m].status = "Open"
              /\ \E stakes \in [BOOLEAN -> Int] : market'[m] = [market[m] EXCEPT !.pool = stakes]
Ended(m)   == /\ market[m].created /\ market[m].status = "Open"
              /\ balance'[m] = balance[m]
              /\ \/ /\ view[market[m].id] = "Voided"
                    /\ market'[m] = [market[m] EXCEPT !.status = "Refunding"]
                 \/ /\ view[market[m].id] \in {"True", "False"}
                    /\ \E fee \in Int : market'[m] =
                          [market[m] EXCEPT !.status = "Settled", !.fee = fee,
                                            !.outcome = (view[market[m].id] = "True")]
Left(m)    == market'[m] = market[m] /\ balance'[m] = balance[m]

LEMMA SettledRecord ==
    ASSUME NEW r \in MarketRecord, NEW o \in BOOLEAN, NEW f \in Int
    PROVE  [r EXCEPT !.status = "Settled", !.outcome = o, !.fee = f] \in MarketRecord
BY DEF MarketRecord

LEMMA RefundingRecord ==
    ASSUME NEW r \in MarketRecord
    PROVE  [r EXCEPT !.status = "Refunding"] \in MarketRecord
BY DEF MarketRecord

LEMMA StakedRecord ==
    ASSUME NEW r \in MarketRecord, NEW p \in [BOOLEAN -> Int]
    PROVE  [r EXCEPT !.pool = p] \in MarketRecord
BY DEF MarketRecord

LEMMA FeeIsInt ==
    ASSUME NEW stakes \in [BOOLEAN -> Int], NEW o \in BOOLEAN
    PROVE  Fee(stakes, o) \in Int
<1>1. FeeBps \in Int
  BY MarketAssumption DEF MaxFeeBps
<1> DEFINE lost == stakes[~o]
<1>2. lost \in Int
  <2>1. CASE o = TRUE
    <3>1. (~o) = FALSE
      BY <2>1
    <3> QED BY <3>1
  <2>2. CASE o = FALSE
    <3>1. (~o) = TRUE
      BY <2>2
    <3> QED BY <3>1
  <2> QED BY <2>1, <2>2
<1> HIDE DEF lost
<1>3. (lost * FeeBps) \div BPS \in Int
  BY <1>1, <1>2 DEF BPS
<1> USE DEF lost
<1> QED BY <1>3 DEF Fee

LEMMA MarketKinds ==
    ASSUME MarketOK, MarketStep
    PROVE  /\ market' \in [MarketIds -> MarketRecord]
           /\ balance' \in [MarketIds -> [BOOLEAN -> [Traders -> Int]]]
           /\ \A m \in MarketIds : \/ Listed(m) /\ balance'[m] = balance[m]
                                   \/ Traded(m) \/ Ended(m) \/ Left(m)
<1>1. PICK m \in MarketIds :
         \/ \E id \in Ids, closesAt \in CloseTimes : CreateMarket(m, id, closesAt)
         \/ \E side \in BOOLEAN, t \in Traders, amount \in StakeAmounts :
               DepositCollateral(m, side, t, amount) \/ ClosePosition(m, side, t, amount)
         \/ SettleMarket(m)
         \/ \E t \in Traders : Claim(m, t)
  BY DEF MarketStep
<1>2. ASSUME NEW id \in Ids, NEW closesAt \in CloseTimes, CreateMarket(m, id, closesAt)
      PROVE  /\ market' \in [MarketIds -> MarketRecord]
             /\ balance' = balance
             /\ Listed(m) /\ \A n \in MarketIds \ {m} : Left(n)
  <2> DEFINE r == [NoMarket EXCEPT !.created = TRUE, !.id = id, !.closesAt = closesAt]
  <2>1. r \in MarketRecord
    <3>1. NoMarket \in MarketRecord
      BY DEF NoMarket, MarketRecord
    <3>2. closesAt \in Int
      BY MarketAssumption
    <3> QED BY <3>1, <3>2 DEF MarketRecord
  <2>2. market' = [market EXCEPT ![m] = r] /\ balance' = balance /\ ~market[m].created
    BY <1>2 DEF CreateMarket
  <2>3. Listed(m)
    BY <2>2 DEF Listed, MarketOK
  <2> HIDE DEF r
  <2> QED BY <2>1, <2>2, <2>3 DEF MarketOK, Left
<1>3. ASSUME NEW side \in BOOLEAN, NEW t \in Traders, NEW amount \in StakeAmounts,
             DepositCollateral(m, side, t, amount) \/ ClosePosition(m, side, t, amount)
      PROVE  /\ market' \in [MarketIds -> MarketRecord]
             /\ balance' \in [MarketIds -> [BOOLEAN -> [Traders -> Int]]]
             /\ Traded(m) /\ \A n \in MarketIds \ {m} : Left(n)
  <2>1. amount \in Int
    BY MarketAssumption
  <2>2. PICK x \in {amount, -amount} :
           /\ market' = [market EXCEPT ![m].pool[side] = @ + x]
           /\ balance' = [balance EXCEPT ![m][side][t] = @ + x]
    BY <1>3, <2>1 DEF DepositCollateral, ClosePosition, MarketOK, MarketRecord
  <2>3. x \in Int
    BY <2>1
  <2> DEFINE p == [market[m].pool EXCEPT ![side] = @ + x]
  <2>4. p \in [BOOLEAN -> Int]
    BY <2>3 DEF MarketOK, MarketRecord
  <2>5. market' = [market EXCEPT ![m] = [market[m] EXCEPT !.pool = p]]
    BY <2>2
  <2>6. market[m].created /\ market[m].status = "Open"
    BY <1>3 DEF DepositCollateral, ClosePosition, TradingOpen
  <2>7. balance' \in [MarketIds -> [BOOLEAN -> [Traders -> Int]]]
    BY <2>2, <2>3 DEF MarketOK
  <2>8. \A n \in MarketIds \ {m} : Left(n)
    BY <2>2 DEF MarketOK, Left
  <2> HIDE DEF p
  <2>9. market'[m] = [market[m] EXCEPT !.pool = p] /\ market' \in [MarketIds -> MarketRecord]
    <3>1. market \in [MarketIds -> MarketRecord]
      BY DEF MarketOK
    <3>2. [market[m] EXCEPT !.pool = p] \in MarketRecord
      <4>1. market[m] \in MarketRecord
        BY <3>1
      <4> QED BY <2>4, <4>1, StakedRecord
    <3> QED BY <2>5, <3>1, <3>2
  <2> QED BY <2>4, <2>6, <2>7, <2>8, <2>9 DEF Traded
<1>4. CASE SettleMarket(m)
  <2>1. CASE Refund(m)
    <3> DEFINE r == [market[m] EXCEPT !.status = "Refunding"]
    <3>1. market' = [market EXCEPT ![m] = r] /\ balance' = balance
      BY <1>4, <2>1 DEF Refund, SettleMarket
    <3>2. market \in [MarketIds -> MarketRecord]
      BY DEF MarketOK
    <3>3. r \in MarketRecord
      <4>1. market[m] \in MarketRecord
        BY <3>2
      <4> QED BY <4>1, RefundingRecord
    <3>4. view[market[m].id] = "Voided" /\ market[m].created /\ market[m].status = "Open"
      BY <1>4, <2>1 DEF SettleMarket, Refund
    <3>5. /\ market' \in [MarketIds -> MarketRecord] /\ market'[m] = r
          /\ \A n \in MarketIds \ {m} : Left(n)
      <4> HIDE DEF r
      <4> QED BY <3>1, <3>2, <3>3 DEF Left
    <3>6. Ended(m)
      BY <3>1, <3>4, <3>5 DEF Ended
    <3> QED BY <3>1, <3>5, <3>6 DEF MarketOK
  <2>2. CASE PayOut(m)
    <3> DEFINE outcome == view[market[m].id] = "True"
               fee     == Fee(market[m].pool, outcome)
               r       == [market[m] EXCEPT !.status = "Settled", !.outcome = outcome, !.fee = fee]
    <3>1. market' = [market EXCEPT ![m] = r] /\ balance' = balance
      BY <1>4, <2>2 DEF PayOut, SettleMarket
    <3>2. outcome \in BOOLEAN
      OBVIOUS
    <3>3. ASSUME NEW o \in BOOLEAN PROVE Fee(market[m].pool, o) \in Int
      BY FeeIsInt DEF MarketOK, MarketRecord
    <3>4. fee \in Int
      BY <3>2, <3>3
    <3>5. view[market[m].id] \in {"True", "False"} /\ market[m].created /\ market[m].status = "Open"
      BY <1>4, <2>2 DEF SettleMarket, PayOut, Available
    <3>6. r \in MarketRecord
      <4> HIDE DEF outcome, fee
      <4>1. market[m] \in MarketRecord
        BY DEF MarketOK
      <4> QED BY <3>2, <3>4, <4>1, SettledRecord
    <3>7. /\ market' \in [MarketIds -> MarketRecord] /\ market'[m] = r
          /\ \A n \in MarketIds \ {m} : Left(n)
      <4> HIDE DEF r
      <4> QED BY <3>1, <3>6 DEF MarketOK, Left
    <3>8. Ended(m)
      <4> HIDE DEF fee
      <4> QED BY <3>1, <3>4, <3>5, <3>7 DEF Ended
    <3> QED BY <3>1, <3>7, <3>8 DEF MarketOK
  <2> QED BY <1>4, <2>1, <2>2 DEF SettleMarket
<1>5. CASE \E t \in Traders : Claim(m, t)
  BY <1>5 DEF Claim, MarketOK, Left
<1> QED BY <1>1, <1>2, <1>3, <1>4, <1>5 DEF MarketOK

LEMMA MarketStepInv ==
    ASSUME MarketInv, [AppNext]_appVars
    PROVE  MarketInv'
<1>1. FeedOK' /\ \A id \in Ids : view[id] # "Pending" => view'[id] = view[id]
  BY FeedStands DEF MarketInv
<1>2. CASE UNCHANGED marketVars
  BY <1>1, <1>2 DEF MarketInv, MarketOK, marketVars, SettledAsRead, MarketRecord
<1>3. CASE MarketStep
  <2>1. /\ market' \in [MarketIds -> MarketRecord]
        /\ balance' \in [MarketIds -> [BOOLEAN -> [Traders -> Int]]]
        /\ \A m \in MarketIds : \/ Listed(m) /\ balance'[m] = balance[m]
                                \/ Traded(m) \/ Ended(m) \/ Left(m)
    BY <1>3, MarketKinds DEF MarketInv
  <2>2. ASSUME NEW m \in MarketIds
        PROVE  /\ market'[m].created => market'[m].id \in Ids
               /\ market'[m].status # "Open" => market'[m].created
               /\ market'[m].status = "Settled" =>
                     view'[market'[m].id] = IF market'[m].outcome THEN "True" ELSE "False"
               /\ market'[m].status = "Refunding" => view'[market'[m].id] = "Voided"
    <3> USE DEF MarketInv, MarketOK, MarketRecord
    <3>1. CASE Listed(m)
      BY <3>1 DEF Listed, NoMarket
    <3>2. CASE Traded(m)
      BY <3>2 DEF Traded
    <3>3. CASE Ended(m)
      <4>1. /\ market'[m].created /\ market'[m].id = market[m].id /\ market[m].id \in Ids
            /\ \/ market'[m].status = "Refunding" /\ view[market[m].id] = "Voided"
               \/ /\ market'[m].status = "Settled"
                  /\ market'[m].outcome = (view[market[m].id] = "True")
                  /\ view[market[m].id] \in {"True", "False"}
        <5>1. market[m] \in MarketRecord /\ market[m].created /\ market[m].id \in Ids
          BY <3>3 DEF Ended
        <5>2. CASE /\ view[market[m].id] = "Voided"
                   /\ market'[m] = [market[m] EXCEPT !.status = "Refunding"]
          BY <5>1, <5>2
        <5>3. ASSUME NEW fee \in Int, view[market[m].id] \in {"True", "False"},
                     market'[m] = [market[m] EXCEPT !.status = "Settled", !.fee = fee,
                                       !.outcome = (view[market[m].id] = "True")]
              PROVE  /\ market'[m].created /\ market'[m].id = market[m].id
                     /\ market'[m].status = "Settled"
                     /\ market'[m].outcome = (view[market[m].id] = "True")
          BY <5>1, <5>3
        <5> QED BY <3>3, <5>1, <5>2, <5>3 DEF Ended
      <4>2. view[market[m].id] # "Pending" => view'[market[m].id] = view[market[m].id]
        BY <1>1, <4>1
      <4> QED BY <4>1, <4>2
    <3>4. CASE Left(m)
      <4>1. market'[m] = market[m]
        BY <3>4 DEF Left
      <4>2. market[m].status # "Open" /\ view[market[m].id] # "Pending"
               => view'[market[m].id] = view[market[m].id]
        BY <1>1
      <4> QED BY <4>1, <4>2 DEF SettledAsRead
    <3> QED BY <2>1, <3>1, <3>2, <3>3, <3>4
  <2> QED BY <1>1, <2>1, <2>2 DEF MarketInv, MarketOK, SettledAsRead
<1> QED BY <1>2, <1>3, MarketMoves

LEMMA MarketInitially == AppInit => MarketInv
BY DEF AppInit, VaultInit, Feed!Init, Feed!Views, MarketInit, NoMarket, NoStake, MarketInv, FeedOK,
       MarketOK, MarketRecord, SettledAsRead

LEMMA MarketsInvariant == AppSpec => []MarketInv
BY MarketInitially, MarketStepInv, PTL DEF AppSpec

(* A market settles on what the bus says of its id, then and ever after,    *)
(* and refunds exactly if the id is void.                                   *)
THEOREM SettlesAsRead == AppSpec => []SettledAsRead
BY MarketsInvariant, PTL DEF MarketInv

-----------------------------------------------------------------------------
(* Once a market has ended, no step of anybody changes what a trader of it  *)
(* is paid.                                                                 *)
THEOREM PayoutsStand == AppSpec => PayoutStands
<1>1. ASSUME MarketInv, [AppNext]_appVars, NEW m \in MarketIds, NEW t \in Traders,
             market[m].status # "Open"
      PROVE  Payout(m, t)' = Payout(m, t)
  <2>1. market'[m] = market[m] /\ balance'[m] = balance[m]
    <3>1. CASE UNCHANGED marketVars
      BY <3>1 DEF marketVars
    <3>2. CASE MarketStep
      BY <1>1, <3>2, MarketKinds DEF MarketInv, MarketOK, Listed, Traded, Ended, Left
    <3> QED BY <1>1, <3>1, <3>2, MarketMoves
  <2> QED BY <2>1 DEF Payout, OwnStake
<1>2. MarketInv /\ [AppNext]_appVars =>
         [\A m \in MarketIds, t \in Traders :
             market[m].status # "Open" => Payout(m, t)' = Payout(m, t)]_<<marketVars>>
  BY <1>1
<1> QED BY <1>2, MarketsInvariant, PTL DEF AppSpec, PayoutStands

-----------------------------------------------------------------------------
(* Range markets.                                                           *)
DistFields == {"created", "ids", "closesAt", "status", "winning", "q", "reserve", "fees", "trades"}

DistOK == /\ DOMAIN dist = DistIds
          /\ \A m \in DistIds :
                /\ DOMAIN dist[m] = DistFields
                /\ dist[m].status \in {"Open", "Settled", "Voided"}
                /\ dist[m].created => dist[m].ids \in Seq(Ids)
                /\ dist[m].status # "Open" => dist[m].created

(* The boundaries are all decided, and read once for all.                   *)
Read(ids) == \A i \in DOMAIN ids : view[ids[i]] # "Pending"
RangeIs(ids, k) == \A i \in DOMAIN ids : view[ids[i]] = IF i <= k THEN "True" ELSE "False"

DistRead ==
    \A m \in DistIds :
        /\ dist[m].status # "Open" => Read(dist[m].ids)
        /\ dist[m].status = "Settled" => RangeIs(dist[m].ids, dist[m].winning)
        /\ dist[m].status = "Voided" => \A k \in Nat : ~RangeIs(dist[m].ids, k)

DistInv == FeedOK /\ DistOK /\ DistRead

(* If no boundary is true above a false one, the true ones are the first.   *)
LEMMA TruesAreFirst ==
    ASSUME NEW n \in Nat, NEW T \in SUBSET (1..n),
           \A i \in T, j \in 1..n : j < i => j \in T
    PROVE  \A i \in 1..n : i \in T <=> i <= Cardinality(T)
<1>1. IsFiniteSet(T) /\ Cardinality(T) \in Nat
  <2>1. IsFiniteSet(1..n)
    BY FS_Interval
  <2>2. IsFiniteSet(T)
    BY <2>1, FS_Subset
  <2> QED BY <2>2, FS_CardinalityType
<1>2. ASSUME NEW i \in 1..n, i \in T PROVE i <= Cardinality(T)
  <2>1. 1..i \subseteq T
    BY <1>2
  <2>2. Cardinality(1..i) = i
    BY FS_Interval
  <2> QED BY <1>1, <2>1, <2>2, FS_Subset
<1>3. ASSUME NEW i \in 1..n, i \notin T PROVE ~(i <= Cardinality(T))
  <2>1. T \subseteq 1..(i - 1)
    <3>1. ASSUME NEW j \in T PROVE j \in 1..(i - 1)
      <4>1. ~(i < j) /\ j # i /\ j \in 1..n
        BY <1>3
      <4> QED BY <4>1
    <3> QED BY <3>1
  <2>2. IsFiniteSet(1..(i - 1)) /\ Cardinality(1..(i - 1)) = i - 1
    BY FS_Interval
  <2>3. T \in SUBSET (1..(i - 1))
    BY <2>1
  <2>4. Cardinality(T) <= Cardinality(1..(i - 1))
    BY <2>2, <2>3, FS_Subset
  <2> QED BY <1>1, <2>2, <2>4
<1> QED BY <1>2, <1>3

(* What settle reads: the range, if the boundaries fit one, and that they   *)
(* fit none otherwise.                                                      *)
LEMMA BoundariesRead ==
    ASSUME FeedOK, NEW ids \in Seq(Ids), Read(ids)
    PROVE  /\ ~Inconsistent(ids) => RangeIs(ids, Cardinality(Trues(ids)))
           /\ Inconsistent(ids) => \A k \in Nat : ~RangeIs(ids, k)
<1>1. DOMAIN ids = 1..Len(ids) /\ Len(ids) \in Nat
  BY LenProperties
<1>2. \A i \in DOMAIN ids : ids[i] \in Ids /\ view[ids[i]] \in {"True", "False", "Voided"}
  BY <1>1, ElementOfSeq DEF FeedOK, Read, Feed!Views
<1>3. ASSUME ~Inconsistent(ids) PROVE RangeIs(ids, Cardinality(Trues(ids)))
  <2>1. \A i \in DOMAIN ids : view[ids[i]] \in {"True", "False"}
    BY <1>2, <1>3 DEF Inconsistent
  <2>2. \A i \in Trues(ids), j \in 1..Len(ids) : j < i => j \in Trues(ids)
    <3> SUFFICES ASSUME NEW i \in Trues(ids), NEW j \in 1..Len(ids), j < i PROVE j \in Trues(ids)
      OBVIOUS
    <3>1. i \in DOMAIN ids /\ view[ids[i]] = "True"
      BY DEF Trues
    <3>2. j \in 1..(i - 1)
      BY <1>1, <3>1
    <3>3. view[ids[j]] # "False"
      BY <1>3, <3>1, <3>2 DEF Inconsistent
    <3> QED BY <1>1, <2>1, <3>3 DEF Trues
  <2>3. Trues(ids) \in SUBSET (1..Len(ids))
    BY <1>1 DEF Trues
  <2>4. \A i \in 1..Len(ids) : i \in Trues(ids) <=> i <= Cardinality(Trues(ids))
    BY <1>1, <2>2, <2>3, TruesAreFirst
  <2>5. ASSUME NEW i \in DOMAIN ids
        PROVE  view[ids[i]] = IF i <= Cardinality(Trues(ids)) THEN "True" ELSE "False"
    <3>1. i \in Trues(ids) <=> view[ids[i]] = "True"
      BY DEF Trues
    <3> QED BY <1>1, <2>1, <2>4, <3>1
  <2> QED BY <2>5 DEF RangeIs
<1>4. ASSUME Inconsistent(ids), NEW k \in Nat, RangeIs(ids, k) PROVE FALSE
  <2>1. PICK i \in DOMAIN ids :
           \/ view[ids[i]] = "Voided"
           \/ view[ids[i]] = "True" /\ \E j \in 1..(i - 1) : view[ids[j]] = "False"
    BY <1>4 DEF Inconsistent
  <2>2. view[ids[i]] = "True" /\ i <= k
    BY <1>4, <2>1 DEF RangeIs
  <2>3. PICK j \in 1..(i - 1) : view[ids[j]] = "False"
    BY <2>1, <2>2
  <2>4. j \in DOMAIN ids /\ j <= k
    BY <1>1, <2>2, <2>3
  <2> QED BY <1>4, <2>3, <2>4 DEF RangeIs
<1> QED BY <1>3, <1>4

(* What a step may do to one range market.                                  *)
DistListed(m) == /\ dist'[m].created /\ dist'[m].status = "Open"
                 /\ dist'[m].ids \in Seq(Ids)
DistKept(m)   == \A field \in {"created", "ids", "status", "winning"} :
                    dist'[m][field] = dist[m][field]
DistEnded(m)  == /\ dist[m].created /\ Read(dist[m].ids)
                 /\ dist'[m].created /\ dist'[m].ids = dist[m].ids
                 /\ \/ Inconsistent(dist[m].ids) /\ dist'[m].status = "Voided"
                    \/ /\ ~Inconsistent(dist[m].ids) /\ dist'[m].status = "Settled"
                       /\ dist'[m].winning = Cardinality(Trues(dist[m].ids))

LEMMA DistKinds ==
    ASSUME DistOK, DistStep
    PROVE  /\ DOMAIN dist' = DistIds
           /\ \A m \in DistIds : /\ DOMAIN dist'[m] = DistFields
                                 /\ DistListed(m) \/ DistKept(m) \/ DistEnded(m)
<1>1. PICK m \in DistIds :
         \/ \E ids \in Ladders, closesAt \in DistCloseTimes : CreateDist(m, ids, closesAt)
         \/ \E t \in DistTraders, k \in DOMAIN dist[m].q :
               \/ \E amount \in BuyAmounts : Buy(m, t, k, amount)
               \/ \E n \in SellAmounts : Sell(m, t, k, n)
         \/ SettleDist(m)
         \/ \E t \in DistTraders : Redeem(m, t)
  BY DEF DistStep
<1>2. ASSUME NEW d, dist' = [dist EXCEPT ![m] = d], DOMAIN d = DistFields,
             \/ d.created /\ d.status = "Open" /\ d.ids \in Seq(Ids)
             \/ \A field \in {"created", "ids", "status", "winning"} : d[field] = dist[m][field]
             \/ /\ dist[m].created /\ Read(dist[m].ids)
                /\ d.created /\ d.ids = dist[m].ids
                /\ \/ Inconsistent(dist[m].ids) /\ d.status = "Voided"
                   \/ /\ ~Inconsistent(dist[m].ids) /\ d.status = "Settled"
                      /\ d.winning = Cardinality(Trues(dist[m].ids))
      PROVE  /\ DOMAIN dist' = DistIds
             /\ \A n \in DistIds : /\ DOMAIN dist'[n] = DistFields
                                   /\ DistListed(n) \/ DistKept(n) \/ DistEnded(n)
  <2>1. DOMAIN dist' = DistIds /\ dist'[m] = d /\ \A n \in DistIds \ {m} : dist'[n] = dist[n]
    BY <1>2 DEF DistOK
  <2>2. DistListed(m) \/ DistKept(m) \/ DistEnded(m)
    BY <1>2, <2>1 DEF DistListed, DistKept, DistEnded
  <2>3. \A n \in DistIds \ {m} : DistKept(n)
    BY <2>1 DEF DistKept
  <2> QED BY <1>2, <2>1, <2>2, <2>3 DEF DistOK
<1> DEFINE old == dist[m]
<1>3. DOMAIN old = DistFields
  BY DEF DistOK
<1>4. CASE \E ids \in Ladders, closesAt \in DistCloseTimes : CreateDist(m, ids, closesAt)
  <2>1. PICK ids \in Ladders, closesAt \in DistCloseTimes : CreateDist(m, ids, closesAt)
    BY <1>4
  <2> DEFINE d == [NoDist EXCEPT !.created = TRUE, !.ids = ids, !.closesAt = closesAt,
                                 !.q = Empty(ids), !.reserve = Cost(Empty(ids)) + 1]
  <2>2. dist' = [dist EXCEPT ![m] = d]
    BY <2>1 DEF CreateDist
  <2>3. DOMAIN d = DistFields /\ d.created /\ d.status = "Open" /\ d.ids = ids
    BY DEF NoDist, DistFields
  <2>4. ids \in Seq(Ids)
    BY DistAssumption
  <2> HIDE DEF d
  <2> QED BY <1>2, <2>2, <2>3, <2>4
<1>5. ASSUME NEW q, NEW reserve, NEW fees, NEW trades
      PROVE  LET d == [old EXCEPT !.q = q, !.reserve = reserve, !.fees = fees, !.trades = trades]
             IN  /\ DOMAIN d = DistFields
                 /\ \A field \in {"created", "ids", "status", "winning"} : d[field] = old[field]
  <2> HIDE DEF old
  <2> QED BY <1>3 DEF DistFields
<1>6. CASE \E t \in DistTraders, k \in DOMAIN dist[m].q :
               \/ \E amount \in BuyAmounts : Buy(m, t, k, amount)
               \/ \E n \in SellAmounts : Sell(m, t, k, n)
  <2>1. ASSUME NEW q, NEW reserve, NEW fees, NEW trades,
               dist' = [dist EXCEPT ![m].q = q, ![m].reserve = reserve,
                                    ![m].fees = fees, ![m].trades = trades]
        PROVE  \A n \in DistIds : DOMAIN dist' = DistIds /\ DOMAIN dist'[n] = DistFields
                                 /\ (DistListed(n) \/ DistKept(n) \/ DistEnded(n))
    <3> DEFINE d == [old EXCEPT !.q = q, !.reserve = reserve, !.fees = fees, !.trades = trades]
    <3>1. dist' = [dist EXCEPT ![m] = d]
      BY <2>1
    <3>2. DOMAIN d = DistFields /\ \A field \in {"created", "ids", "status", "winning"} : d[field] = old[field]
      BY <1>5
    <3> HIDE DEF d
    <3> QED BY <1>2, <3>1, <3>2
  <2>2. ASSUME NEW t \in DistTraders, NEW k \in DOMAIN dist[m].q, NEW amount \in BuyAmounts,
               Buy(m, t, k, amount)
        PROVE  \E q, reserve, fees, trades :
                  dist' = [dist EXCEPT ![m].q = q, ![m].reserve = reserve,
                                       ![m].fees = fees, ![m].trades = trades]
    <3>1. PICK n : dist' = [dist EXCEPT ![m].q = Plus(@, k, n), ![m].reserve = @ + (amount - TradeFee(amount)),
                                        ![m].fees = @ + TradeFee(amount), ![m].trades = @ + 1]
      BY <2>2 DEF Buy
    <3> QED BY <3>1
  <2>3. ASSUME NEW t \in DistTraders, NEW k \in DOMAIN dist[m].q, NEW n \in SellAmounts,
               Sell(m, t, k, n)
        PROVE  \E q, reserve, fees, trades :
                  dist' = [dist EXCEPT ![m].q = q, ![m].reserve = reserve,
                                       ![m].fees = fees, ![m].trades = trades]
    <3>1. PICK gross : dist' = [dist EXCEPT ![m].q = Plus(@, k, -n), ![m].reserve = @ - gross,
                                            ![m].fees = @ + TradeFee(gross), ![m].trades = @ + 1]
      BY <2>3 DEF Sell
    <3> QED BY <3>1
  <2> QED BY <1>6, <2>1, <2>2, <2>3
<1>7. CASE SettleDist(m)
  <2> DEFINE void == Inconsistent(dist[m].ids)
             status == IF void THEN "Voided" ELSE "Settled"
             winning == IF void THEN 0 ELSE Cardinality(Trues(dist[m].ids))
  <2>1. \E reserve : dist' = [dist EXCEPT ![m] =
           [old EXCEPT !.status = status, !.winning = winning, !.fees = 0, !.reserve = reserve]]
    BY <1>7 DEF SettleDist
  <2>2. PICK reserve : dist' = [dist EXCEPT ![m] =
           [old EXCEPT !.status = status, !.winning = winning, !.fees = 0, !.reserve = reserve]]
    BY <2>1
  <2> DEFINE d == [old EXCEPT !.status = status, !.winning = winning, !.fees = 0, !.reserve = reserve]
  <2>3. /\ DOMAIN d = DistFields /\ d.created = old.created /\ d.ids = old.ids
        /\ d.status = status /\ d.winning = winning
    <3> HIDE DEF old, status, winning
    <3> QED BY <1>3 DEF DistFields
  <2>4. dist[m].created /\ Read(dist[m].ids)
    BY <1>7 DEF SettleDist, Read
  <2>5. dist' = [dist EXCEPT ![m] = d]
    BY <2>2
  <2> HIDE DEF d
  <2> QED BY <1>2, <2>3, <2>4, <2>5
<1>8. CASE \E t \in DistTraders : Redeem(m, t)
  <2>1. \E reserve : dist' = [dist EXCEPT ![m] = [old EXCEPT !.reserve = reserve]]
    BY <1>8 DEF Redeem
  <2>2. ASSUME NEW reserve
        PROVE  LET d == [old EXCEPT !.reserve = reserve]
               IN  /\ DOMAIN d = DistFields
                   /\ \A field \in {"created", "ids", "status", "winning"} : d[field] = old[field]
    <3> HIDE DEF old
    <3> QED BY <1>3 DEF DistFields
  <2> QED BY <1>2, <2>1, <2>2
<1> QED BY <1>1, <1>4, <1>6, <1>7, <1>8

LEMMA DistStepInv ==
    ASSUME DistInv, [AppNext]_appVars
    PROVE  DistInv'
<1>1. FeedOK' /\ \A id \in Ids : view[id] # "Pending" => view'[id] = view[id]
  BY FeedStands DEF DistInv
<1> DEFINE RangeNext(ids, k) ==
              \A i \in DOMAIN ids : view'[ids[i]] = IF i <= k THEN "True" ELSE "False"
           ReadNext(ids) == \A i \in DOMAIN ids : view'[ids[i]] # "Pending"
<1>2. ASSUME NEW ids \in Seq(Ids), Read(ids)
      PROVE  ReadNext(ids) /\ \A k : RangeIs(ids, k) <=> RangeNext(ids, k)
  <2>1. \A i \in DOMAIN ids : view'[ids[i]] = view[ids[i]] /\ view'[ids[i]] # "Pending"
    BY <1>1, <1>2, LenProperties, ElementOfSeq DEF Read
  <2> QED BY <2>1 DEF RangeIs
<1>3. /\ DOMAIN dist' = DistIds
      /\ \A m \in DistIds : /\ DOMAIN dist'[m] = DistFields
                            /\ DistListed(m) \/ DistKept(m) \/ DistEnded(m)
  <2>1. CASE UNCHANGED distVars
    BY <2>1 DEF distVars, DistInv, DistOK, DistKept
  <2>2. CASE DistStep
    BY <2>2, DistKinds DEF DistInv
  <2> QED BY <2>1, <2>2 DEF AppNext, appVars
<1>4. ASSUME NEW m \in DistIds
      PROVE  /\ dist'[m].status \in {"Open", "Settled", "Voided"}
             /\ dist'[m].created => dist'[m].ids \in Seq(Ids)
             /\ dist'[m].status # "Open" => dist'[m].created /\ ReadNext(dist'[m].ids)
             /\ dist'[m].status = "Settled" => RangeNext(dist'[m].ids, dist'[m].winning)
             /\ dist'[m].status = "Voided" => \A k \in Nat : ~RangeNext(dist'[m].ids, k)
  <2> HIDE DEF RangeNext, ReadNext
  <2> DEFINE d == dist'[m]
  <2>1. CASE DistListed(m)
    BY <2>1 DEF DistListed
  <2>2. CASE DistKept(m)
    <3>1. /\ d.created = dist[m].created /\ d.ids = dist[m].ids
          /\ d.status = dist[m].status /\ d.winning = dist[m].winning
      BY <2>2 DEF DistKept
    <3>2. d.created => d.ids \in Seq(Ids)
      BY <3>1 DEF DistInv, DistOK
    <3>3. CASE d.status = "Open"
      BY <3>2, <3>3
    <3>4. CASE d.status # "Open"
      <4>1. d.created /\ d.ids \in Seq(Ids) /\ Read(d.ids)
        BY <3>1, <3>4 DEF DistInv, DistOK, DistRead
      <4>2. ReadNext(d.ids) /\ \A k : RangeIs(d.ids, k) <=> RangeNext(d.ids, k)
        BY <1>2, <4>1
      <4>3. d.status = "Settled" => RangeIs(d.ids, d.winning)
        BY <3>1 DEF DistInv, DistRead
      <4>4. d.status = "Voided" => \A k \in Nat : ~RangeIs(d.ids, k)
        BY <3>1 DEF DistInv, DistRead
      <4>5. d.status \in {"Settled", "Voided"}
        BY <3>1, <3>4 DEF DistInv, DistOK
      <4> QED BY <4>1, <4>2, <4>3, <4>4, <4>5
    <3> QED BY <3>3, <3>4
  <2>3. CASE DistEnded(m)
    <3>1. /\ dist[m].ids \in Seq(Ids) /\ Read(dist[m].ids)
          /\ d.created /\ d.ids = dist[m].ids
          /\ \/ Inconsistent(d.ids) /\ d.status = "Voided"
             \/ /\ ~Inconsistent(d.ids) /\ d.status = "Settled"
                /\ d.winning = Cardinality(Trues(d.ids))
      BY <2>3 DEF DistEnded, DistInv, DistOK
    <3>2. /\ ~Inconsistent(d.ids) => RangeIs(d.ids, Cardinality(Trues(d.ids)))
          /\ Inconsistent(d.ids) => \A k \in Nat : ~RangeIs(d.ids, k)
      BY <3>1, BoundariesRead DEF DistInv
    <3>3. ReadNext(d.ids) /\ \A k : RangeIs(d.ids, k) <=> RangeNext(d.ids, k)
      BY <1>2, <3>1
    <3> QED BY <3>1, <3>2, <3>3
  <2> QED BY <1>3, <2>1, <2>2, <2>3
<1> QED BY <1>1, <1>3, <1>4 DEF DistInv, DistOK, DistRead, Read, RangeIs

LEMMA DistInitially == AppInit => DistInv
BY DEF AppInit, VaultInit, Feed!Init, Feed!Views, DistInit, NoDist, DistInv, FeedOK, DistOK,
       DistRead, DistFields

LEMMA DistInvariant == AppSpec => []DistInv
BY DistInitially, DistStepInv, PTL DEF AppSpec

LEMMA ReadsTheLadder == DistInv => LadderRead
<1> SUFFICES ASSUME DistInv, NEW m \in DistIds
             PROVE  /\ dist[m].status = "Settled" => RangeIs(dist[m].ids, dist[m].winning)
                    /\ dist[m].status = "Voided" =>
                          ~ \E k \in Buckets(dist[m].ids) : RangeIs(dist[m].ids, k)
  BY DEF LadderRead, RangeIs
<1>1. dist[m].status = "Voided" => Buckets(dist[m].ids) \subseteq Nat
  BY LenProperties DEF DistInv, DistOK, Buckets
<1> QED BY <1>1 DEF DistInv, DistRead

(* A range market settles on the one range its boundaries say, then and     *)
(* ever after, and is void exactly if they say none.                        *)
THEOREM LadderReads == AppSpec => []LadderRead
BY DistInvariant, ReadsTheLadder, PTL
=============================================================================
