--------------------------- MODULE MCApplications ---------------------------
(* Small instances of the vault and the markets.  What they share are the   *)
(* bus, the clock and what markets pay into the vault, so one application   *)
(* is at work in each behaviour: unknown consumers of the vault, or markets *)
(* of one kind.                                                             *)
EXTENDS Applications, TLC

MCEvents == {1, 2}
MCComposites == {3}
MCOperands == (3 :> <<1, 2>>)
MCLadders == {<<1, 2>>}
(* exp(-x / 10), times 1000 and rounded, for x from 0.                      *)
MCWeight == LET e == <<1000, 905, 819, 741, 670, 607, 549, 497, 449, 407, 368, 333, 301, 273,
    247, 223, 202, 183, 165, 150, 135, 122, 111, 100, 91, 82, 74, 67, 61,
    55, 50, 45, 41, 37, 33, 30, 27, 25, 22, 20, 18, 17, 15, 14, 12, 11,
    10, 9, 8, 7, 7, 6, 6, 5, 5, 4, 4, 3, 3, 3, 2, 2, 2, 2, 2, 2, 1>>
            IN  [x \in 0..(Len(e) - 1) |-> e[x + 1]]
MCTimes == {<<1, 2>>}

First == CHOOSE r \in Resolvers : TRUE
FirstTrader == CHOOSE t \in DistTraders : TRUE
FirstPlayer == CHOOSE p \in Players : TRUE
NextPlayer == CHOOSE p \in Players \ {FirstPlayer} : TRUE

MCGroups == {{}, {First}, Resolvers}

AtWork == {app \in {"vault", "market", "ladder", "pool"} :
              \/ app = "vault" /\ income > 0
              \/ app = "market" /\ \E m \in MarketIds : market[m].created
              \/ app = "ladder" /\ \E m \in DistIds : dist[m].created
              \/ app = "pool" /\ \E m \in PoolIds : Created(m)}

(* The ids exist before anything is traded.  Unknown consumers pay fees for *)
(* two events, of which only the first is disputed or reported by many, and *)
(* the owner withdraws when all fees are in and split.                      *)
VaultAtWork ==
    /\ view'[3] = "Pending" /\ now' = 0
    /\ held' < held /\ UNCHANGED <<resolverClaimed, committeeClaimed>> =>
          income = MaxIncome /\ \A e \in EventIds : pendingFees[e] = 0
    /\ reported'[1] = Resolvers => Cardinality(voted'[1]) # 1
    /\ reported'[2] \subseteq {First} /\ voted'[2] = {}

(* The vault only takes what markets pay, and the first resolver reports.   *)
OnlyPaysTheVault ==
    /\ held' >= held /\ \A e \in EventIds : pendingFees'[e] >= pendingFees[e]
    /\ UNCHANGED managerSet
    /\ \A e \in EventIds : reported'[e] \subseteq {First} /\ voted'[e] = {}

(* A market trades on an event or on the composite, and the vault only      *)
(* takes its fee.  Traders act while it is open, whenever the answer comes. *)
MarketAtWork ==
    /\ \A m \in MarketIds : market'[m].id # 2 /\ \A id \in Ids \ {market'[m].id} : view'[id] = "Pending"
    /\ now' <= 1
    /\ OnlyPaysTheVault

(* Traders are interchangeable, and the first to trade is FirstTrader.       *)
(* A ladder closes after two trades, or is decided after three.             *)
LadderAtWork ==
    /\ now' # now => now = 0 /\ \A d \in DistIds : dist[d].trades = 2
    /\ view' # view => now = 1 \/ \A d \in DistIds : dist[d].trades = MaxTrades
    /\ view'[3] = "Pending"
    /\ \A d \in DistIds : dist'[d].trades = 1 => \A k \in DOMAIN dist'[d].q :
          shares'[d][FirstTrader][k] = dist'[d].q[k]
    /\ OnlyPaysTheVault

(* Only the creator of a community market stakes more than once, and the    *)
(* others stake in order.                                                   *)
PoolAtWork ==
    /\ UNCHANGED <<view, known, managerSet>>
    /\ \A m \in PoolIds : pool'[m].creator \in {"nobody", FirstPlayer}
    /\ \A m \in PoolIds, p \in Players \ {FirstPlayer} :
          StakedBy(m, p)' # StakedBy(m, p) =>
              StakedBy(m, p) = 0 /\ (p = NextPlayer \/ StakedBy(m, NextPlayer) > 0)

OneApplication ==
    /\ AtWork' = {} => UNCHANGED <<view, managerSet, now>>
    /\ AtWork' # {} => known = IF AtWork' = {"pool"} THEN {} ELSE Ids
    /\ AtWork' = {"vault"} => VaultAtWork
    /\ AtWork' = {"market"} => MarketAtWork
    /\ AtWork' = {"ladder"} => LadderAtWork
    /\ AtWork' = {"pool"} => PoolAtWork
    /\ Cardinality(AtWork') <= 1
=============================================================================
