------------------------- MODULE AppAccountsProofs -------------------------
(***************************************************************************)
(* The accounts of the contracts that pay out, for any ids, traders,       *)
(* amounts and times: the vault's balance is what its accounts say, and    *)
(* shares of it are equal; and the collateral of the markets, of the       *)
(* community markets and of the range markets covers all they may still    *)
(* have to pay.                                                            *)
(*                                                                         *)
(* Each account is a sum over a finite set (SumTheorems).  What a market   *)
(* owes is stated as a value of its own record, its stakes and its claims, *)
(* so that a step of one market changes one summand, and a lemma of its    *)
(* own says what that step does to the summand.  AccountsInv puts the      *)
(* invariants of the contracts together: the vault's needs that fees come  *)
(* for ids of the bus, which the markets' and the range markets' provide.  *)
(***************************************************************************)
EXTENDS ApplicationsProofs, SumTheorems

-----------------------------------------------------------------------------
(* The vault: what it holds for each event, and its balance as a sum.       *)

(* The accounts of the vault.                                               *)
RewardRecord == [decided : BOOLEAN, resolverWinners : Nat, committeeWinners : Nat,
                 resolverPool : Nat, committeePool : Nat]

NothingIn(r) == r.resolverPool = 0 /\ r.committeePool = 0

VaultTyped ==
    /\ pendingFees \in [EventIds -> Nat]
    /\ rewards \in [EventIds -> RewardRecord]
    /\ resolverClaimed \in [EventIds -> [Resolvers -> Nat]]
    /\ committeeClaimed \in [EventIds -> [Resolvers -> Nat]]
    /\ treasuryBalance \in Int /\ insuranceReserve \in Nat /\ held \in Int
    /\ known \subseteq Ids /\ managerSet \in BOOLEAN
    /\ reported \in [EventIds -> SUBSET Resolvers]
    /\ voted \in [EventIds -> SUBSET Resolvers]
    /\ \A e \in EventIds : rewards[e].decided \/ NothingIn(rewards[e])

(* What the vault holds for one event, of its values.                       *)
InPools(r)             == r.resolverPool + r.committeePool
ClaimsOf(byRes, byCom) == SumFunction([who \in Resolvers |-> byRes[who] + byCom[who]])
Account(fees, r, byRes, byCom) == fees + InPools(r) - ClaimsOf(byRes, byCom)

VaultInv == VaultTyped /\ Balanced

LEMMA MinOfTwo ==
    ASSUME NEW a \in Nat, NEW b \in Nat
    PROVE  Min({a, b}) \in Nat /\ Min({a, b}) <= a /\ Min({a, b}) <= b
<1>1. PICK c \in {a, b} : \A y \in {a, b} : c <= y
  <2>1. CASE a <= b
    BY <2>1
  <2>2. CASE b <= a
    BY <2>2
  <2> QED BY <2>1, <2>2
<1>2. Min({a, b}) \in {a, b} /\ \A y \in {a, b} : Min({a, b}) <= y
  BY <1>1 DEF Min
<1> QED BY <1>2

LEMMA Thirds ==
    ASSUME NEW n \in Nat
    PROVE  n \div 3 \in Nat /\ n \div 3 + n \div 3 <= n
OBVIOUS

-----------------------------------------------------------------------------
(* What each event is credited is not negative, whatever the ids.           *)
LEMMA AttributedNat ==
    ASSUME NEW id \in Ids, NEW amount \in Nat, NEW e \in EventIds
    PROVE  Attributed(id, amount, e) \in Nat
<1>1. ASSUME id \in CompositeIds
      PROVE  (amount \div Len(Operands[id])) * Cardinality({i \in DOMAIN Operands[id] : Operands[id][i] = e}) \in Nat
  <2> DEFINE ops == Operands[id]
             hits == {i \in DOMAIN ops : ops[i] = e}
  <2>1. ops \in Seq(Ids) /\ ops # <<>>
    BY <1>1, VaultAssumption
  <2>2. Len(ops) \in Nat /\ DOMAIN ops = 1..Len(ops) /\ Len(ops) # 0
    BY <2>1, LenProperties, EmptySeq
  <2>3. IsFiniteSet(hits)
    <3>1. IsFiniteSet(1..Len(ops))
      BY <2>2, FS_Interval
    <3> QED BY <2>2, <3>1, FS_Subset
  <2>4. Cardinality(hits) \in Nat
    BY <2>3, FS_CardinalityType
  <2> HIDE DEF hits
  <2>5. amount \div Len(ops) \in Nat
    BY <2>2, DivFacts
  <2>6. (amount \div Len(ops)) * Cardinality(hits) \in Nat
    BY <2>4, <2>5, TimesNat
  <2> QED BY <2>6 DEF hits
<1>2. CASE id = e /\ e \in known
  BY <1>2, VaultAssumption DEF Attributed
<1>3. CASE ~(id = e /\ e \in known) /\ id \in CompositeIds \cap known
  BY <1>1, <1>3 DEF Attributed
<1>4. CASE ~(id = e /\ e \in known) /\ id \notin CompositeIds \cap known
  BY <1>4 DEF Attributed
<1> QED BY <1>2, <1>3, <1>4

LEMMA CreditNat ==
    ASSUME NEW ids \in Seq(Ids) \ {<<>>}, NEW amount \in Nat
    PROVE  Credit(ids, amount) \in [EventIds -> Nat]
<1>1. DOMAIN ids = 1..Len(ids) /\ Len(ids) \in Nat \ {0} /\ IsFiniteSet(DOMAIN ids)
  BY LenProperties, EmptySeq, FS_Interval
<1> DEFINE part == amount \div Len(ids)
<1>2. part \in Nat
  BY <1>1, DivFacts
<1> HIDE DEF part
<1>3. ASSUME NEW e \in EventIds
      PROVE  SumFunction([i \in DOMAIN ids |-> Attributed(ids[i], part, e)]) \in Nat
  <2>1. \A i \in DOMAIN ids : Attributed(ids[i], part, e) \in Nat
    BY <1>1, <1>2, ElementOfSeq, AttributedNat
  <2> DEFINE f == [i \in DOMAIN ids |-> Attributed(ids[i], part, e)]
  <2>2. f \in [DOMAIN ids -> Nat]
    BY <2>1
  <2> HIDE DEF f
  <2>3. SumFunction(f) \in Nat
    BY <1>1, <2>2, TotalNat
  <2> QED BY <2>3 DEF f
<1> QED BY <1>3 DEF Credit, part
-----------------------------------------------------------------------------
Accounts(fees, rw, byRes, byCom) ==
    [e \in EventIds |-> Account(fees[e], rw[e], byRes[e], byCom[e])]

LEMMA ClaimsNat ==
    ASSUME NEW byRes \in [Resolvers -> Nat], NEW byCom \in [Resolvers -> Nat]
    PROVE  ClaimsOf(byRes, byCom) \in Nat
<1> DEFINE f == [who \in Resolvers |-> byRes[who] + byCom[who]]
<1>1. f \in [Resolvers -> Nat] /\ IsFiniteSet(Resolvers)
  BY VaultAssumption
<1> HIDE DEF f
<1>2. SumFunction(f) \in Nat
  BY <1>1, TotalNat
<1> QED BY <1>2 DEF f, ClaimsOf

LEMMA AccountInt ==
    ASSUME NEW fees \in Int, NEW r \in RewardRecord,
           NEW byRes \in [Resolvers -> Nat], NEW byCom \in [Resolvers -> Nat]
    PROVE  Account(fees, r, byRes, byCom) \in Int
<1>1. ClaimsOf(byRes, byCom) \in Nat
  BY ClaimsNat
<1>2. InPools(r) \in Nat
  BY DEF InPools, RewardRecord
<1> QED BY <1>1, <1>2 DEF Account

LEMMA AccountsInt ==
    ASSUME NEW fees \in [EventIds -> Nat], NEW rw \in [EventIds -> RewardRecord],
           NEW byRes \in [EventIds -> [Resolvers -> Nat]],
           NEW byCom \in [EventIds -> [Resolvers -> Nat]]
    PROVE  Accounts(fees, rw, byRes, byCom) \in [EventIds -> Int]
<1>1. \A e \in EventIds : Account(fees[e], rw[e], byRes[e], byCom[e]) \in Int
  BY AccountInt
<1> QED BY <1>1 DEF Accounts

LEMMA BalancedIs ==
    Balanced <=> held = treasuryBalance + insuranceReserve
                 + SumFunction(Accounts(pendingFees, rewards, resolverClaimed, committeeClaimed))
BY DEF Balanced, Accounts, Account, InPools, ClaimsOf, Pools, Claimed

LEMMA BalancedIsNext ==
    Balanced' <=> held' = treasuryBalance' + insuranceReserve'
                 + SumFunction(Accounts(pendingFees', rewards', resolverClaimed', committeeClaimed'))
BY DEF Balanced, Accounts, Account, InPools, ClaimsOf, Pools, Claimed

(* A step that touches the account of one event keeps the balance if it     *)
(* keeps it for that event, the treasury and the reserve.                   *)
LEMMA OneAccountMoves ==
    ASSUME VaultInv, VaultTyped', NEW e \in EventIds,
           \A d \in EventIds \ {e} : /\ pendingFees'[d] = pendingFees[d]
                                     /\ rewards'[d] = rewards[d]
                                     /\ resolverClaimed'[d] = resolverClaimed[d]
                                     /\ committeeClaimed'[d] = committeeClaimed[d],
           held' - treasuryBalance' - insuranceReserve'
                  - Account(pendingFees'[e], rewards'[e], resolverClaimed'[e], committeeClaimed'[e])
              = held - treasuryBalance - insuranceReserve
                  - Account(pendingFees[e], rewards[e], resolverClaimed[e], committeeClaimed[e])
    PROVE  Balanced'
<1> DEFINE f == Accounts(pendingFees, rewards, resolverClaimed, committeeClaimed)
           g == Accounts(pendingFees', rewards', resolverClaimed', committeeClaimed')
<1>1. f \in [EventIds -> Int] /\ g \in [EventIds -> Int]
  BY AccountsInt DEF VaultInv, VaultTyped
<1>2. \A d \in EventIds \ {e} : g[d] = f[d]
  BY DEF Accounts
<1>3. /\ f[e] = Account(pendingFees[e], rewards[e], resolverClaimed[e], committeeClaimed[e])
      /\ g[e] = Account(pendingFees'[e], rewards'[e], resolverClaimed'[e], committeeClaimed'[e])
  BY DEF Accounts
<1> HIDE DEF f, g
<1>4. IsFiniteSet(EventIds)
  BY VaultAssumption
<1>5. SumFunction(g) = SumFunction(f) + (g[e] - f[e])
  BY <1>1, <1>2, <1>4, TotalChange
<1>6. SumFunction(f) \in Int /\ f[e] \in Int /\ g[e] \in Int
  BY <1>1, <1>4, TotalInt
<1>7. held = treasuryBalance + insuranceReserve + SumFunction(f)
  BY BalancedIs DEF VaultInv, f
<1>8. held' - treasuryBalance' - insuranceReserve' - g[e]
         = held - treasuryBalance - insuranceReserve - f[e]
  BY <1>3
<1>9. {held, treasuryBalance, insuranceReserve, held', treasuryBalance', insuranceReserve'} \subseteq Int
  BY DEF VaultInv, VaultTyped
<1>10. held' = treasuryBalance' + insuranceReserve' + SumFunction(g)
  BY <1>5, <1>6, <1>7, <1>8, <1>9
<1> QED BY <1>10, BalancedIsNext DEF g

-----------------------------------------------------------------------------
(* Splitting the fees of an event moves them to its pools, the reserve and  *)
(* the treasury, and nothing else changes.  Pools only grow, and who shares *)
(* them is fixed at the first split.                                        *)
Grew(before, after) ==
    /\ after.decided
    /\ after.resolverWinners = before.resolverWinners
    /\ after.committeeWinners = before.committeeWinners
    /\ before.resolverPool <= after.resolverPool
    /\ before.committeePool <= after.committeePool

Judges(e) == IF managerSet THEN Cardinality(voted[e]) ELSE 0

LEMMA SnapshotFacts ==
    ASSUME VaultTyped, NEW e \in EventIds
    PROVE  /\ Snapshot(e) \in RewardRecord /\ Snapshot(e).decided
           /\ ~rewards[e].decided => /\ Snapshot(e).resolverWinners = Cardinality(reported[e])
                                     /\ Snapshot(e).committeeWinners = Judges(e)
                                     /\ Snapshot(e).resolverPool = 0 /\ Snapshot(e).committeePool = 0
           /\ rewards[e].decided => Snapshot(e) = rewards[e]
<1>1. Cardinality(reported[e]) \in Nat /\ Judges(e) \in Nat
  <2>1. IsFiniteSet(reported[e]) /\ IsFiniteSet(voted[e])
    BY VaultAssumption, FS_Subset DEF VaultTyped
  <2> QED BY <2>1, FS_CardinalityType DEF Judges
<1> DEFINE nR == Cardinality(reported[e])
           nC == Judges(e)
           fresh == [NoRewards EXCEPT !.decided = TRUE, !.resolverWinners = nR, !.committeeWinners = nC]
<1>2. Snapshot(e) = IF rewards[e].decided THEN rewards[e] ELSE fresh
  BY DEF Snapshot, Judges
<1>3. rewards[e] \in RewardRecord
  BY DEF VaultTyped
<1> HIDE DEF nR, nC
<1>4. nR \in Nat /\ nC \in Nat
  BY <1>1 DEF nR, nC
<1>5. /\ fresh \in RewardRecord /\ fresh.decided
      /\ fresh.resolverWinners = nR /\ fresh.committeeWinners = nC
      /\ fresh.resolverPool = 0 /\ fresh.committeePool = 0
  BY <1>4 DEF NoRewards, RewardRecord
<1> HIDE DEF fresh
<1>6. CASE rewards[e].decided
  BY <1>2, <1>3, <1>6
<1>7. CASE ~rewards[e].decided
  BY <1>2, <1>5, <1>7 DEF nR, nC
<1> QED BY <1>6, <1>7

LEMMA BonusFacts ==
    ASSUME VaultTyped, NEW e \in EventIds, NEW r \in RewardRecord
    PROVE  /\ Bonus(e, r) \in Nat /\ Bonus(e, r) <= insuranceReserve
           /\ ToResolvers(e, r) \in Nat
           /\ ToResolvers(e, r) <= pendingFees[e] \div 3
<1> DEFINE third == pendingFees[e] \div 3
<1>1. third \in Nat /\ insuranceReserve \in Nat
  BY Thirds DEF VaultTyped
<1>2. ToResolvers(e, r) = IF r.resolverWinners > 0 THEN third ELSE 0
  BY DEF ToResolvers
<1>3. Bonus(e, r) = IF r.committeeWinners = 0 THEN 0 ELSE Min({insuranceReserve, third})
  BY DEF Bonus
<1> HIDE DEF third
<1>4. Min({insuranceReserve, third}) \in Nat /\ Min({insuranceReserve, third}) <= insuranceReserve
  BY <1>1, MinOfTwo
<1>5. Bonus(e, r) \in Nat /\ Bonus(e, r) <= insuranceReserve
  BY <1>1, <1>3, <1>4
<1>6. ToResolvers(e, r) \in Nat /\ ToResolvers(e, r) <= third
  BY <1>1, <1>2
<1> QED BY <1>5, <1>6 DEF third

Added(r, a, b) == [r EXCEPT !.resolverPool = @ + a, !.committeePool = @ + b]

LEMMA PoolsGrow ==
    ASSUME NEW r \in RewardRecord, NEW a \in Nat, NEW b \in Nat
    PROVE  /\ Added(r, a, b) \in RewardRecord
           /\ InPools(Added(r, a, b)) = InPools(r) + a + b
           /\ r.decided => Grew(r, Added(r, a, b))
           /\ Added(r, a, b).decided = r.decided
           /\ Added(r, a, b).resolverWinners = r.resolverWinners
           /\ Added(r, a, b).committeeWinners = r.committeeWinners
<1> DEFINE s == Added(r, a, b)
<1>1. /\ r.resolverPool \in Nat /\ r.committeePool \in Nat /\ r.decided \in BOOLEAN
      /\ r.resolverWinners \in Nat /\ r.committeeWinners \in Nat
  BY DEF RewardRecord
<1>2. s \in RewardRecord
  <2>1. ASSUME NEW p \in Nat, NEW q \in Nat
        PROVE  [r EXCEPT !.resolverPool = p, !.committeePool = q] \in RewardRecord
    BY DEF RewardRecord
  <2>2. r.resolverPool + a \in Nat /\ r.committeePool + b \in Nat
    BY <1>1
  <2> QED BY <2>1, <2>2 DEF Added
<1>3. /\ s.decided = r.decided
      /\ s.resolverWinners = r.resolverWinners /\ s.committeeWinners = r.committeeWinners
      /\ s.resolverPool = r.resolverPool + a /\ s.committeePool = r.committeePool + b
  BY DEF RewardRecord, Added
<1> HIDE DEF s
<1>4. InPools(s) = InPools(r) + a + b
  BY <1>1, <1>3 DEF InPools
<1>5. r.decided => Grew(r, s)
  BY <1>1, <1>3 DEF Grew
<1> QED BY <1>2, <1>3, <1>4, <1>5 DEF s
-----------------------------------------------------------------------------
(* What a split may do to the pools of an event.                            *)
Booked(e) ==
    \/ rewards'[e] = rewards[e]
    \/ /\ view[e] \in {"True", "False"}
       /\ rewards'[e].decided
       /\ rewards[e].decided => Grew(rewards[e], rewards'[e])
       /\ ~rewards[e].decided => /\ rewards'[e].resolverWinners = Cardinality(reported[e])
                                 /\ rewards'[e].committeeWinners = Judges(e)

LEMMA SplitFacts ==
    ASSUME VaultTyped, NEW e \in EventIds, view[e] \in {"True", "False"}, Split(e)
    PROVE  /\ rewards' \in [EventIds -> RewardRecord]
           /\ \A d \in EventIds \ {e} : rewards'[d] = rewards[d]
           /\ treasuryBalance' \in Int /\ insuranceReserve' \in Nat
           /\ InPools(rewards'[e]) + treasuryBalance' + insuranceReserve'
                = pendingFees[e] + InPools(rewards[e]) + treasuryBalance + insuranceReserve
           /\ Booked(e) /\ rewards'[e].decided
<1> DEFINE r     == Snapshot(e)
           third == pendingFees[e] \div 3
           a     == ToResolvers(e, r)
           bonus == Bonus(e, r)
           b     == IF r.committeeWinners > 0 THEN third + bonus ELSE 0
           c     == IF r.committeeWinners > 0 THEN -bonus ELSE third
           s     == Added(r, a, b)
<1>1. /\ rewards' = [rewards EXCEPT ![e] = s]
      /\ insuranceReserve' = insuranceReserve + c
      /\ treasuryBalance' = treasuryBalance + pendingFees[e] - third - a
  BY DEF Split, Added
<1>2. /\ r \in RewardRecord /\ r.decided
      /\ ~rewards[e].decided => /\ r.resolverWinners = Cardinality(reported[e])
                                /\ r.committeeWinners = Judges(e)
                                /\ r.resolverPool = 0 /\ r.committeePool = 0
      /\ rewards[e].decided => r = rewards[e]
  BY SnapshotFacts
<1> HIDE DEF r
<1>3. /\ a \in Nat /\ a <= third /\ bonus \in Nat /\ bonus <= insuranceReserve
  BY <1>2, BonusFacts
<1>4. third \in Nat /\ pendingFees[e] \in Nat
  BY Thirds DEF VaultTyped
<1>5. insuranceReserve \in Nat /\ treasuryBalance \in Int /\ rewards \in [EventIds -> RewardRecord]
      /\ (rewards[e].decided \/ NothingIn(rewards[e]))
  BY DEF VaultTyped
<1> HIDE DEF a, bonus, third
<1>6. r.committeeWinners \in Nat
  BY <1>2 DEF RewardRecord
<1>7. b \in Nat /\ c \in Int /\ insuranceReserve + c \in Nat /\ b + c = third
  <2>1. CASE r.committeeWinners > 0
    BY <1>3, <1>4, <1>5, <2>1
  <2>2. CASE ~(r.committeeWinners > 0)
    BY <1>3, <1>4, <1>5, <2>2
  <2> QED BY <2>1, <2>2
<1> HIDE DEF b, c
<1>8. /\ s \in RewardRecord /\ InPools(s) = InPools(r) + a + b
      /\ s.decided = r.decided /\ s.resolverWinners = r.resolverWinners
      /\ s.committeeWinners = r.committeeWinners
      /\ r.decided => Grew(r, s)
  <2>1. r \in RewardRecord /\ a \in Nat /\ b \in Nat
    BY <1>2, <1>3, <1>7
  <2> QED BY <2>1, PoolsGrow
<1> HIDE DEF s
<1>9. /\ rewards'[e] = s /\ rewards' \in [EventIds -> RewardRecord]
      /\ \A d \in EventIds \ {e} : rewards'[d] = rewards[d]
  BY <1>1, <1>5, <1>8
<1>10. InPools(r) = InPools(rewards[e]) /\ InPools(rewards[e]) \in Nat
  <2>1. rewards[e] \in RewardRecord
    BY <1>5
  <2>2. InPools(rewards[e]) \in Nat
    BY <2>1 DEF InPools, RewardRecord
  <2>3. CASE rewards[e].decided
    BY <1>2, <2>2, <2>3
  <2>4. CASE ~rewards[e].decided
    BY <1>2, <1>5, <2>4 DEF InPools, NothingIn
  <2> QED BY <2>2, <2>3, <2>4
<1>11. /\ treasuryBalance' \in Int /\ insuranceReserve' \in Nat
       /\ InPools(s) + treasuryBalance' + insuranceReserve'
            = pendingFees[e] + InPools(rewards[e]) + treasuryBalance + insuranceReserve
  BY <1>1, <1>3, <1>4, <1>5, <1>7, <1>8, <1>10
<1>12. Booked(e) /\ s.decided
  BY <1>2, <1>8, <1>9 DEF Booked
<1> QED BY <1>9, <1>11, <1>12

LEMMA BookFacts ==
    ASSUME VaultTyped, NEW e \in EventIds, Book(e)
    PROVE  /\ pendingFees' \in [EventIds -> Nat] /\ rewards' \in [EventIds -> RewardRecord]
           /\ \A d \in EventIds \ {e} : rewards'[d] = rewards[d] /\ pendingFees'[d] = pendingFees[d]
           /\ treasuryBalance' \in Int /\ insuranceReserve' \in Nat
           /\ pendingFees'[e] + InPools(rewards'[e]) + treasuryBalance' + insuranceReserve'
                = pendingFees[e] + InPools(rewards[e]) + treasuryBalance + insuranceReserve
           /\ Booked(e)
           /\ \A d \in EventIds : rewards'[d].decided \/ NothingIn(rewards'[d])
<1>1. /\ pendingFees \in [EventIds -> Nat] /\ rewards \in [EventIds -> RewardRecord]
      /\ treasuryBalance \in Int /\ insuranceReserve \in Nat
      /\ \A d \in EventIds : rewards[d].decided \/ NothingIn(rewards[d])
  BY DEF VaultTyped
<1>2. InPools(rewards[e]) \in Nat /\ pendingFees[e] \in Nat
  <2>1. rewards[e] \in RewardRecord
    BY <1>1
  <2> QED BY <1>1, <2>1 DEF InPools, RewardRecord
<1>3. CASE UNCHANGED splitVars
  BY <1>1, <1>3 DEF splitVars, Booked
<1>4. CASE /\ pendingFees' = [pendingFees EXCEPT ![e] = 0]
           /\ treasuryBalance' = treasuryBalance + pendingFees[e]
           /\ UNCHANGED <<rewards, insuranceReserve>>
  <2>1. /\ pendingFees' \in [EventIds -> Nat] /\ pendingFees'[e] = 0
        /\ \A d \in EventIds \ {e} : pendingFees'[d] = pendingFees[d]
    BY <1>1, <1>4
  <2>2. treasuryBalance' \in Int
    BY <1>1, <1>2, <1>4
  <2>3. pendingFees'[e] + InPools(rewards'[e]) + treasuryBalance' + insuranceReserve'
                = pendingFees[e] + InPools(rewards[e]) + treasuryBalance + insuranceReserve
    BY <1>1, <1>2, <1>4, <2>1
  <2> QED BY <1>1, <1>4, <2>1, <2>2, <2>3 DEF Booked
<1>5. CASE /\ pendingFees' = [pendingFees EXCEPT ![e] = 0]
           /\ view[e] \in {"True", "False"} /\ Split(e)
  <2>1. /\ pendingFees' \in [EventIds -> Nat] /\ pendingFees'[e] = 0
        /\ \A d \in EventIds \ {e} : pendingFees'[d] = pendingFees[d]
    BY <1>1, <1>5
  <2>2. /\ rewards' \in [EventIds -> RewardRecord]
        /\ \A d \in EventIds \ {e} : rewards'[d] = rewards[d]
        /\ treasuryBalance' \in Int /\ insuranceReserve' \in Nat
        /\ InPools(rewards'[e]) + treasuryBalance' + insuranceReserve'
             = pendingFees[e] + InPools(rewards[e]) + treasuryBalance + insuranceReserve
        /\ Booked(e) /\ rewards'[e].decided
    BY <1>5, SplitFacts
  <2>3. InPools(rewards'[e]) \in Nat
    <3>1. rewards'[e] \in RewardRecord
      BY <2>2
    <3> QED BY <3>1 DEF InPools, RewardRecord
  <2>4. pendingFees'[e] + InPools(rewards'[e]) + treasuryBalance' + insuranceReserve'
                = pendingFees[e] + InPools(rewards[e]) + treasuryBalance + insuranceReserve
    BY <2>1, <2>2, <2>3
  <2> QED BY <1>1, <2>1, <2>2, <2>4
<1> QED BY <1>3, <1>4, <1>5 DEF Book
-----------------------------------------------------------------------------
(* The steps of the vault, and of what pays it fees.                        *)

(* The markets name ids of the bus when they pay a fee.                     *)
FeesDue == \A m \in DistIds : dist[m].created => /\ dist[m].ids \in Seq(Ids) \ {<<>>}
                                                 /\ dist[m].fees \in Nat

Deposited == \E ids \in Seq(Ids) \ {<<>>}, amount \in Nat : DepositFees(ids, amount)

(* A step is one of the vault's, or a deposit, or leaves the vault alone.   *)
LEMMA VaultMoves ==
    ASSUME [AppNext]_appVars, MarketOK, FeesDue
    PROVE  UNCHANGED vars \/ WorldStep \/ VaultStep \/ Deposited
<1>1. CASE ConsumerStep
  <2>1. PICK n \in 1..MaxIds : \E ids \in [1..n -> Ids], amount \in Amounts : DepositFees(ids, amount)
    BY <1>1 DEF ConsumerStep
  <2>2. PICK ids \in [1..n -> Ids], amount \in Amounts : DepositFees(ids, amount)
    BY <2>1
  <2>3. n \in Nat \ {0} /\ amount \in Nat
    BY VaultAssumption
  <2>4. ids \in Seq(Ids)
    BY <2>3, SeqDef
  <2>5. ids # <<>>
    <3>1. 1 \in DOMAIN ids
      BY <2>3
    <3> QED BY <3>1
  <2> QED BY <2>2, <2>3, <2>4, <2>5 DEF Deposited
<1>2. CASE MarketStep
  <2>1. PICK m \in MarketIds :
           \/ \E id \in Ids, closesAt \in CloseTimes : CreateMarket(m, id, closesAt)
           \/ \E side \in BOOLEAN, t \in Traders, amount \in StakeAmounts :
                 DepositCollateral(m, side, t, amount) \/ ClosePosition(m, side, t, amount)
           \/ SettleMarket(m)
           \/ \E t \in Traders : Claim(m, t)
    BY <1>2 DEF MarketStep
  <2>2. CASE SettleMarket(m) /\ PayOut(m)
    <3> DEFINE fee == Fee(market[m].pool, view[market[m].id] = "True")
               ids == <<market[m].id>>
    <3>1. UNCHANGED vars \/ (fee > 0 /\ DepositFees(ids, fee))
      BY <2>2 DEF PayOut
    <3>2. fee \in Int
      <4>1. market[m].pool \in [BOOLEAN -> Int]
        BY DEF MarketOK, MarketRecord
      <4>2. (view[market[m].id] = "True") \in BOOLEAN
        OBVIOUS
      <4> QED BY <4>1, <4>2, FeeIsInt
    <3>3. market[m].id \in Ids
      BY <2>2 DEF SettleMarket, MarketOK
    <3>4. ids \in Seq(Ids) \ {<<>>}
      BY <3>3
    <3> HIDE DEF fee, ids
    <3>5. fee > 0 => fee \in Nat
      BY <3>2
    <3> QED BY <3>1, <3>4, <3>5 DEF Deposited
  <2>3. UNCHANGED vars \/ (SettleMarket(m) /\ PayOut(m))
    BY <2>1 DEF CreateMarket, DepositCollateral, ClosePosition, SettleMarket, Refund, Claim
  <2> QED BY <2>2, <2>3
<1>3. CASE DistStep
  <2>1. PICK m \in DistIds :
           \/ \E ids \in Ladders, closesAt \in DistCloseTimes : CreateDist(m, ids, closesAt)
           \/ \E t \in DistTraders, k \in DOMAIN dist[m].q :
                 \/ \E amount \in BuyAmounts : Buy(m, t, k, amount)
                 \/ \E n \in SellAmounts : Sell(m, t, k, n)
           \/ SettleDist(m)
           \/ \E t \in DistTraders : Redeem(m, t)
    BY <1>3 DEF DistStep
  <2>2. CASE SettleDist(m)
    <3>1. UNCHANGED vars \/ DepositFees(dist[m].ids, dist[m].fees)
      BY <2>2 DEF SettleDist
    <3>2. dist[m].ids \in Seq(Ids) \ {<<>>} /\ dist[m].fees \in Nat
      BY <2>2 DEF FeesDue, SettleDist
    <3> QED BY <3>1, <3>2 DEF Deposited
  <2>3. SettleDist(m) \/ UNCHANGED vars
    BY <2>1 DEF CreateDist, Buy, Sell, Redeem
  <2> QED BY <2>2, <2>3
<1> QED BY <1>1, <1>2, <1>3 DEF AppNext, appVars

-----------------------------------------------------------------------------
LEMMA DepositKeeps ==
    ASSUME VaultInv, NEW ids \in Seq(Ids) \ {<<>>}, NEW amount \in Nat, DepositFees(ids, amount)
    PROVE  VaultInv'
<1> DEFINE credit == Credit(ids, amount)
           f == Accounts(pendingFees, rewards, resolverClaimed, committeeClaimed)
           g == Accounts(pendingFees', rewards', resolverClaimed', committeeClaimed')
<1>1. credit \in [EventIds -> Nat] /\ IsFiniteSet(EventIds)
  BY CreditNat, VaultAssumption
<1>2. /\ held' = held + amount
      /\ pendingFees' = [e \in EventIds |-> pendingFees[e] + credit[e]]
      /\ treasuryBalance' = treasuryBalance + amount - SumFunction(credit)
      /\ UNCHANGED <<rewards, insuranceReserve, resolverClaimed, committeeClaimed,
                     known, managerSet, reported, voted>>
  BY DEF DepositFees, worldVars
<1> HIDE DEF credit
<1>3. SumFunction(credit) \in Nat
  BY <1>1, TotalNat
<1>4. VaultTyped'
  BY <1>1, <1>2, <1>3 DEF VaultInv, VaultTyped
<1>5. f \in [EventIds -> Int] /\ g \in [EventIds -> Int]
  BY <1>4, AccountsInt DEF VaultInv, VaultTyped
<1>6. \A e \in EventIds : g[e] = f[e] + credit[e]
  <2>1. ASSUME NEW e \in EventIds
        PROVE  g[e] = f[e] + credit[e]
    <3> DEFINE rest == InPools(rewards[e])
               out  == ClaimsOf(resolverClaimed[e], committeeClaimed[e])
    <3>1. rest \in Nat
      <4>1. rewards[e] \in RewardRecord
        BY DEF VaultInv, VaultTyped
      <4> QED BY <4>1 DEF InPools, RewardRecord
    <3>2. out \in Nat
      <4>1. resolverClaimed[e] \in [Resolvers -> Nat] /\ committeeClaimed[e] \in [Resolvers -> Nat]
        BY DEF VaultInv, VaultTyped
      <4> QED BY <4>1, ClaimsNat
    <3>3. f[e] = pendingFees[e] + rest - out /\ g[e] = pendingFees'[e] + rest - out
      BY <1>2 DEF Accounts, Account
    <3>4. pendingFees'[e] = pendingFees[e] + credit[e] /\ pendingFees[e] \in Nat /\ credit[e] \in Nat
      BY <1>1, <1>2 DEF VaultInv, VaultTyped
    <3> HIDE DEF rest, out, f, g
    <3> QED BY <3>1, <3>2, <3>3, <3>4
  <2> QED BY <2>1
<1> HIDE DEF f, g
<1>7. credit \in [EventIds -> Int]
  BY <1>1
<1>8. SumFunction(g) = SumFunction(f) + SumFunction(credit)
  <2>1. f \in [EventIds -> Int] /\ g \in [EventIds -> Int] /\ IsFiniteSet(EventIds)
    BY <1>1, <1>5
  <2>2. \A u, v, w \in [EventIds -> Int] :
           (\A e \in EventIds : w[e] = u[e] + v[e]) => SumFunction(w) = SumFunction(u) + SumFunction(v)
    BY <2>1, TotalCombined
  <2> QED BY <1>6, <1>7, <2>1, <2>2
<1>9. SumFunction(f) \in Int
  BY <1>1, <1>5, TotalInt
<1>10. held = treasuryBalance + insuranceReserve + SumFunction(f)
  BY BalancedIs DEF VaultInv, f
<1>11. held' = treasuryBalance' + insuranceReserve' + SumFunction(g)
  <2>1. /\ held' = held + amount /\ insuranceReserve' = insuranceReserve
        /\ treasuryBalance' = treasuryBalance + amount - SumFunction(credit)
    BY <1>2
  <2>2. held \in Int /\ treasuryBalance \in Int /\ insuranceReserve \in Int
    BY DEF VaultInv, VaultTyped
  <2> DEFINE before == SumFunction(f)
             added  == SumFunction(credit)
  <2>3. /\ before \in Int /\ added \in Int
        /\ held = treasuryBalance + insuranceReserve + before
        /\ SumFunction(g) = before + added
    BY <1>3, <1>8, <1>9, <1>10
  <2>4. treasuryBalance' = treasuryBalance + amount - added
    BY <2>1
  <2> HIDE DEF before, added
  <2>5. held + amount = (treasuryBalance + amount - added) + insuranceReserve + (before + added)
    BY <2>2, <2>3
  <2> QED BY <2>1, <2>3, <2>4, <2>5
<1>12. Balanced'
  BY <1>11, BalancedIsNext DEF g
<1> QED BY <1>4, <1>12 DEF VaultInv

LEMMA AllocateKeeps ==
    ASSUME VaultInv, NEW e \in EventIds, Allocate(e)
    PROVE  VaultInv'
<1>1. Book(e) /\ UNCHANGED <<known, reported, voted, managerSet, resolverClaimed, committeeClaimed, held>>
  BY DEF Allocate, worldVars
<1>2. /\ pendingFees' \in [EventIds -> Nat] /\ rewards' \in [EventIds -> RewardRecord]
      /\ \A d \in EventIds \ {e} : rewards'[d] = rewards[d] /\ pendingFees'[d] = pendingFees[d]
      /\ treasuryBalance' \in Int /\ insuranceReserve' \in Nat
      /\ pendingFees'[e] + InPools(rewards'[e]) + treasuryBalance' + insuranceReserve'
           = pendingFees[e] + InPools(rewards[e]) + treasuryBalance + insuranceReserve
      /\ \A d \in EventIds : rewards'[d].decided \/ NothingIn(rewards'[d])
  BY <1>1, BookFacts DEF VaultInv
<1>3. VaultTyped'
  BY <1>1, <1>2 DEF VaultInv, VaultTyped
<1> DEFINE out == ClaimsOf(resolverClaimed[e], committeeClaimed[e])
<1>4. /\ out \in Nat /\ held \in Int /\ treasuryBalance \in Int /\ insuranceReserve \in Nat
      /\ InPools(rewards[e]) \in Nat /\ InPools(rewards'[e]) \in Nat
      /\ pendingFees[e] \in Nat /\ pendingFees'[e] \in Nat
  <2>1. resolverClaimed[e] \in [Resolvers -> Nat] /\ committeeClaimed[e] \in [Resolvers -> Nat]
    BY DEF VaultInv, VaultTyped
  <2>2. rewards[e] \in RewardRecord /\ rewards'[e] \in RewardRecord
    BY <1>2 DEF VaultInv, VaultTyped
  <2>3. InPools(rewards[e]) \in Nat /\ InPools(rewards'[e]) \in Nat
    BY <2>2 DEF InPools, RewardRecord
  <2> QED BY <1>2, <2>1, <2>3, ClaimsNat DEF VaultInv, VaultTyped
<1>5. held' - treasuryBalance' - insuranceReserve'
         - Account(pendingFees'[e], rewards'[e], resolverClaimed'[e], committeeClaimed'[e])
      = held - treasuryBalance - insuranceReserve
         - Account(pendingFees[e], rewards[e], resolverClaimed[e], committeeClaimed[e])
  <2>1. /\ Account(pendingFees[e], rewards[e], resolverClaimed[e], committeeClaimed[e])
             = pendingFees[e] + InPools(rewards[e]) - out
        /\ Account(pendingFees'[e], rewards'[e], resolverClaimed'[e], committeeClaimed'[e])
             = pendingFees'[e] + InPools(rewards'[e]) - out
        /\ held' = held
    BY <1>1 DEF Account
  <2>2. /\ treasuryBalance' \in Int /\ insuranceReserve' \in Nat
        /\ pendingFees'[e] + InPools(rewards'[e]) + treasuryBalance' + insuranceReserve'
             = pendingFees[e] + InPools(rewards[e]) + treasuryBalance + insuranceReserve
    BY <1>2
  <2>3. held' \in Int /\ pendingFees[e] + InPools(rewards[e]) - out \in Int
        /\ pendingFees'[e] + InPools(rewards'[e]) - out \in Int
    BY <1>4, <2>1
  <2> DEFINE before == Account(pendingFees[e], rewards[e], resolverClaimed[e], committeeClaimed[e])
             after  == Account(pendingFees'[e], rewards'[e], resolverClaimed'[e], committeeClaimed'[e])
  <2>4. before = pendingFees[e] + InPools(rewards[e]) - out
        /\ after = pendingFees'[e] + InPools(rewards'[e]) - out
    BY <2>1
  <2> HIDE DEF out, before, after
  <2>5. held' - treasuryBalance' - insuranceReserve' - after
          = held - treasuryBalance - insuranceReserve - before
    BY <1>4, <2>1, <2>2, <2>3, <2>4
  <2> QED BY <2>5 DEF before, after
<1>6. Balanced'
  BY <1>1, <1>2, <1>3, <1>5, OneAccountMoves
<1> QED BY <1>3, <1>6 DEF VaultInv
-----------------------------------------------------------------------------
LEMMA DivGrows ==
    ASSUME NEW i \in Nat, NEW j \in Nat, NEW d \in Nat \ {0}, i <= j
    PROVE  i \div d <= j \div d
<1> DEFINE p == i \div d
           q == j \div d
<1>1. p \in Nat /\ q \in Nat /\ p * d <= i /\ j < q * d + d
  BY DivFacts
<1> HIDE DEF p, q
<1>2. (q + 1) * d = q * d + d /\ q * d \in Int /\ p * d \in Int
  BY <1>1, TimesFacts
<1>3. q + 1 <= p => (q + 1) * d <= p * d
  BY <1>1, TimesNat
<1>4. ~(q + 1 <= p)
  BY <1>1, <1>2, <1>3
<1> QED BY <1>1, <1>4 DEF p, q

(* One resolver gets more, and nobody else.                                 *)
GetsMore(who, amount, byRes, byCom, byRes2, byCom2) ==
    /\ who \in Resolvers /\ amount \in Nat
    /\ {byRes, byCom, byRes2, byCom2} \subseteq [Resolvers -> Nat]
    /\ byRes2[who] + byCom2[who] = byRes[who] + byCom[who] + amount
    /\ \A x \in Resolvers \ {who} : byRes2[x] = byRes[x] /\ byCom2[x] = byCom[x]

LEMMA ClaimsGrow ==
    ASSUME NEW who, NEW amount, NEW byRes, NEW byCom, NEW byRes2, NEW byCom2,
           GetsMore(who, amount, byRes, byCom, byRes2, byCom2)
    PROVE  ClaimsOf(byRes2, byCom2) = ClaimsOf(byRes, byCom) + amount
<1>1. /\ who \in Resolvers /\ amount \in Nat
      /\ byRes \in [Resolvers -> Nat] /\ byCom \in [Resolvers -> Nat]
      /\ byRes2 \in [Resolvers -> Nat] /\ byCom2 \in [Resolvers -> Nat]
      /\ byRes2[who] + byCom2[who] = byRes[who] + byCom[who] + amount
      /\ \A x \in Resolvers \ {who} : byRes2[x] = byRes[x] /\ byCom2[x] = byCom[x]
  BY DEF GetsMore
<1> DEFINE f == [x \in Resolvers |-> byRes[x] + byCom[x]]
           g == [x \in Resolvers |-> byRes2[x] + byCom2[x]]
<1>2. f \in [Resolvers -> Int] /\ g \in [Resolvers -> Int] /\ IsFiniteSet(Resolvers)
  <2>1. \A x \in Resolvers : byRes[x] + byCom[x] \in Int /\ byRes2[x] + byCom2[x] \in Int
    BY <1>1
  <2> QED BY <2>1, VaultAssumption
<1>3. g[who] = f[who] + amount /\ \A x \in Resolvers \ {who} : g[x] = f[x]
  BY <1>1
<1> HIDE DEF f, g
<1>4. SumFunction(g) = SumFunction(f) + (g[who] - f[who])
  BY <1>1, <1>2, <1>3, TotalChange
<1>5. SumFunction(f) \in Int /\ f[who] \in Int
  BY <1>1, <1>2, TotalInt
<1>6. SumFunction(g) = SumFunction(f) + amount
  BY <1>1, <1>3, <1>4, <1>5
<1> QED BY <1>6 DEF ClaimsOf, f, g

(* What both kinds of claims do: the fees are split first, and the amount   *)
(* leaves the vault.                                                        *)
LEMMA PaidFromPools ==
    ASSUME VaultInv, NEW e \in EventIds, NEW who \in Resolvers, NEW amount \in Nat, Book(e),
           held' = held - amount,
           UNCHANGED <<known, reported, voted, managerSet>>,
           \/ /\ resolverClaimed' = [resolverClaimed EXCEPT ![e][who] = @ + amount]
              /\ UNCHANGED committeeClaimed
           \/ /\ committeeClaimed' = [committeeClaimed EXCEPT ![e][who] = @ + amount]
              /\ UNCHANGED resolverClaimed
    PROVE  VaultInv'
<1>1. /\ resolverClaimed \in [EventIds -> [Resolvers -> Nat]]
      /\ committeeClaimed \in [EventIds -> [Resolvers -> Nat]]
      /\ held \in Int /\ treasuryBalance \in Int /\ insuranceReserve \in Nat
  BY DEF VaultInv, VaultTyped
<1>2. /\ pendingFees' \in [EventIds -> Nat] /\ rewards' \in [EventIds -> RewardRecord]
      /\ \A d \in EventIds \ {e} : rewards'[d] = rewards[d] /\ pendingFees'[d] = pendingFees[d]
      /\ treasuryBalance' \in Int /\ insuranceReserve' \in Nat
      /\ pendingFees'[e] + InPools(rewards'[e]) + treasuryBalance' + insuranceReserve'
           = pendingFees[e] + InPools(rewards[e]) + treasuryBalance + insuranceReserve
      /\ \A d \in EventIds : rewards'[d].decided \/ NothingIn(rewards'[d])
  BY BookFacts DEF VaultInv
<1>3. /\ resolverClaimed' \in [EventIds -> [Resolvers -> Nat]]
      /\ committeeClaimed' \in [EventIds -> [Resolvers -> Nat]]
      /\ \A d \in EventIds \ {e} : resolverClaimed'[d] = resolverClaimed[d]
                                   /\ committeeClaimed'[d] = committeeClaimed[d]
      /\ resolverClaimed'[e][who] + committeeClaimed'[e][who]
            = resolverClaimed[e][who] + committeeClaimed[e][who] + amount
      /\ \A x \in Resolvers \ {who} : resolverClaimed'[e][x] = resolverClaimed[e][x]
                                      /\ committeeClaimed'[e][x] = committeeClaimed[e][x]
  <2>1. CASE /\ resolverClaimed' = [resolverClaimed EXCEPT ![e][who] = @ + amount]
             /\ UNCHANGED committeeClaimed
    BY <1>1, <2>1
  <2>2. CASE /\ committeeClaimed' = [committeeClaimed EXCEPT ![e][who] = @ + amount]
             /\ UNCHANGED resolverClaimed
    BY <1>1, <2>2
  <2> QED BY <2>1, <2>2
<1>4. VaultTyped'
  <2>1. held' \in Int
    BY <1>1
  <2> QED BY <1>2, <1>3, <2>1 DEF VaultInv, VaultTyped
<1> DEFINE out  == ClaimsOf(resolverClaimed[e], committeeClaimed[e])
           out2 == ClaimsOf(resolverClaimed'[e], committeeClaimed'[e])
<1>5. out \in Nat /\ out2 = out + amount
  <2>1. /\ resolverClaimed[e] \in [Resolvers -> Nat] /\ committeeClaimed[e] \in [Resolvers -> Nat]
        /\ resolverClaimed'[e] \in [Resolvers -> Nat] /\ committeeClaimed'[e] \in [Resolvers -> Nat]
    BY <1>1, <1>3
  <2>2. out \in Nat
    BY <2>1, ClaimsNat
  <2>3. /\ resolverClaimed'[e][who] + committeeClaimed'[e][who]
            = resolverClaimed[e][who] + committeeClaimed[e][who] + amount
        /\ \A x \in Resolvers \ {who} : resolverClaimed'[e][x] = resolverClaimed[e][x]
                                        /\ committeeClaimed'[e][x] = committeeClaimed[e][x]
    BY <1>3
  <2> DEFINE r1 == resolverClaimed[e]
             c1 == committeeClaimed[e]
             r2 == resolverClaimed'[e]
             c2 == committeeClaimed'[e]
  <2>4. out = ClaimsOf(r1, c1) /\ out2 = ClaimsOf(r2, c2)
    OBVIOUS
  <2>5. /\ r1 \in [Resolvers -> Nat] /\ c1 \in [Resolvers -> Nat]
        /\ r2 \in [Resolvers -> Nat] /\ c2 \in [Resolvers -> Nat]
        /\ r2[who] + c2[who] = r1[who] + c1[who] + amount
        /\ \A x \in Resolvers \ {who} : r2[x] = r1[x] /\ c2[x] = c1[x]
    BY <2>1, <2>3
  <2> HIDE DEF r1, c1, r2, c2, out, out2
  <2>6. ClaimsOf(r2, c2) = ClaimsOf(r1, c1) + amount
    <3>1. GetsMore(who, amount, r1, c1, r2, c2)
      BY <2>5 DEF GetsMore
    <3> QED BY <3>1, ClaimsGrow
  <2> QED BY <2>2, <2>4, <2>6
<1>6. /\ InPools(rewards[e]) \in Nat /\ InPools(rewards'[e]) \in Nat
      /\ pendingFees[e] \in Nat /\ pendingFees'[e] \in Nat
  <2>1. rewards[e] \in RewardRecord /\ rewards'[e] \in RewardRecord
    BY <1>2 DEF VaultInv, VaultTyped
  <2>2. InPools(rewards[e]) \in Nat /\ InPools(rewards'[e]) \in Nat
    BY <2>1 DEF InPools, RewardRecord
  <2> QED BY <1>2, <2>2 DEF VaultInv, VaultTyped
<1>7. held' - treasuryBalance' - insuranceReserve'
         - Account(pendingFees'[e], rewards'[e], resolverClaimed'[e], committeeClaimed'[e])
      = held - treasuryBalance - insuranceReserve
         - Account(pendingFees[e], rewards[e], resolverClaimed[e], committeeClaimed[e])
  <2>1. /\ Account(pendingFees[e], rewards[e], resolverClaimed[e], committeeClaimed[e])
             = pendingFees[e] + InPools(rewards[e]) - out
        /\ Account(pendingFees'[e], rewards'[e], resolverClaimed'[e], committeeClaimed'[e])
             = pendingFees'[e] + InPools(rewards'[e]) - out2
    BY DEF Account
  <2>2. /\ treasuryBalance' \in Int /\ insuranceReserve' \in Nat /\ held' \in Int
        /\ held' = held - amount
        /\ pendingFees'[e] + InPools(rewards'[e]) + treasuryBalance' + insuranceReserve'
             = pendingFees[e] + InPools(rewards[e]) + treasuryBalance + insuranceReserve
    BY <1>1, <1>2
  <2>3. held \in Int /\ treasuryBalance \in Int /\ insuranceReserve \in Nat
    BY <1>1
  <2> DEFINE before == Account(pendingFees[e], rewards[e], resolverClaimed[e], committeeClaimed[e])
             after  == Account(pendingFees'[e], rewards'[e], resolverClaimed'[e], committeeClaimed'[e])
  <2>4. before = pendingFees[e] + InPools(rewards[e]) - out
        /\ after = pendingFees'[e] + InPools(rewards'[e]) - out2
    BY <2>1
  <2> HIDE DEF out, out2, before, after
  <2>5. held' - treasuryBalance' - insuranceReserve' - after
          = held - treasuryBalance - insuranceReserve - before
    BY <1>5, <1>6, <2>2, <2>3, <2>4
  <2> QED BY <2>5 DEF before, after
<1>8. Balanced'
  BY <1>2, <1>3, <1>4, <1>7, OneAccountMoves
<1> QED BY <1>4, <1>8 DEF VaultInv

LEMMA ResolverAmount ==
    ASSUME VaultTyped, NEW e \in EventIds, NEW who \in Resolvers, ClaimResolverReward(e, who)
    PROVE  ResolverShare(rewards'[e]) - resolverClaimed[e][who] \in Nat
<1>1. rewards'[e] \in RewardRecord
  BY BookFacts DEF ClaimResolverReward
<1>2. ResolverShare(rewards'[e]) \in Nat
  <2>1. rewards'[e].resolverPool \in Nat /\ rewards'[e].resolverWinners \in Nat \ {0}
    BY <1>1 DEF ClaimResolverReward, RewardRecord
  <2> QED BY <2>1, DivFacts DEF ResolverShare
<1>3. resolverClaimed[e][who] \in Nat
  BY DEF VaultTyped
<1>4. ResolverShare(rewards'[e]) - resolverClaimed[e][who] > 0
  BY DEF ClaimResolverReward
<1> QED BY <1>2, <1>3, <1>4

LEMMA CommitteeAmount ==
    ASSUME VaultTyped, NEW e \in EventIds, NEW who \in Resolvers, ClaimCommitteeReward(e, who)
    PROVE  CommitteeShare(rewards'[e]) - committeeClaimed[e][who] \in Nat
<1>1. rewards'[e] \in RewardRecord
  BY BookFacts DEF ClaimCommitteeReward
<1>2. CommitteeShare(rewards'[e]) \in Nat
  <2>1. rewards'[e].committeePool \in Nat /\ rewards'[e].committeeWinners \in Nat \ {0}
    BY <1>1 DEF ClaimCommitteeReward, RewardRecord
  <2> QED BY <2>1, DivFacts DEF CommitteeShare
<1>3. committeeClaimed[e][who] \in Nat
  BY DEF VaultTyped
<1>4. CommitteeShare(rewards'[e]) - committeeClaimed[e][who] > 0
  BY DEF ClaimCommitteeReward
<1> QED BY <1>2, <1>3, <1>4

LEMMA ClaimKeeps ==
    ASSUME VaultInv, NEW e \in EventIds, NEW who \in Resolvers,
           ClaimResolverReward(e, who) \/ ClaimCommitteeReward(e, who)
    PROVE  VaultInv'
<1>1. CASE ClaimResolverReward(e, who)
  <2> DEFINE amount == ResolverShare(rewards'[e]) - resolverClaimed[e][who]
  <2>1. amount \in Nat
    BY <1>1, ResolverAmount DEF VaultInv
  <2>2. /\ Book(e) /\ held' = held - amount /\ UNCHANGED <<known, reported, voted, managerSet>>
        /\ resolverClaimed' = [resolverClaimed EXCEPT ![e][who] = @ + amount]
        /\ UNCHANGED committeeClaimed
    BY <1>1 DEF ClaimResolverReward, worldVars
  <2> HIDE DEF amount
  <2> QED BY <2>1, <2>2, PaidFromPools
<1>2. CASE ClaimCommitteeReward(e, who)
  <2> DEFINE amount == CommitteeShare(rewards'[e]) - committeeClaimed[e][who]
  <2>1. amount \in Nat
    BY <1>2, CommitteeAmount DEF VaultInv
  <2>2. /\ Book(e) /\ held' = held - amount /\ UNCHANGED <<known, reported, voted, managerSet>>
        /\ committeeClaimed' = [committeeClaimed EXCEPT ![e][who] = @ + amount]
        /\ UNCHANGED resolverClaimed
    BY <1>2 DEF ClaimCommitteeReward, worldVars
  <2> HIDE DEF amount
  <2> QED BY <2>1, <2>2, PaidFromPools
<1> QED BY <1>1, <1>2

(* The accounts do not move with the ids, nor with the manager.             *)
LEMMA AccountsStand ==
    ASSUME VaultInv, UNCHANGED <<splitVars, resolverClaimed, committeeClaimed, held>>,
           known' \subseteq Ids, managerSet' \in BOOLEAN,
           reported' \in [EventIds -> SUBSET Resolvers], voted' \in [EventIds -> SUBSET Resolvers]
    PROVE  VaultInv'
<1>1. UNCHANGED <<pendingFees, rewards, treasuryBalance, insuranceReserve>>
  BY DEF splitVars
<1>2. VaultTyped'
  BY <1>1 DEF VaultInv, VaultTyped
<1>3. Balanced'
  BY <1>1 DEF VaultInv, Balanced, Pools, Claimed
<1> QED BY <1>2, <1>3 DEF VaultInv

LEMMA WithdrawKeeps ==
    ASSUME VaultInv, NEW amount \in Withdrawals,
           WithdrawTreasury(amount) \/ WithdrawInsurance(amount)
    PROVE  VaultInv'
<1>1. amount \in Nat
  BY VaultAssumption
<1>2. /\ UNCHANGED <<known, reported, voted, managerSet, pendingFees, rewards,
                     resolverClaimed, committeeClaimed>>
      /\ held' = held - amount
      /\ \/ /\ treasuryBalance' = treasuryBalance - amount
            /\ insuranceReserve' = insuranceReserve
         \/ /\ treasuryBalance' = treasuryBalance
            /\ insuranceReserve' = insuranceReserve - amount /\ amount <= insuranceReserve
  BY DEF WithdrawTreasury, WithdrawInsurance, worldVars
<1>3. held' \in Int /\ treasuryBalance' \in Int /\ insuranceReserve' \in Nat
  BY <1>1, <1>2 DEF VaultInv, VaultTyped
<1>4. VaultTyped'
  BY <1>2, <1>3 DEF VaultInv, VaultTyped
<1> DEFINE f == Accounts(pendingFees, rewards, resolverClaimed, committeeClaimed)
<1>5. SumFunction(f) \in Int
  BY AccountsInt, TotalInt, VaultAssumption DEF VaultInv, VaultTyped
<1>6. held = treasuryBalance + insuranceReserve + SumFunction(f)
  BY BalancedIs DEF VaultInv
<1>7. held' = treasuryBalance' + insuranceReserve' + SumFunction(f)
  <2> HIDE DEF f
  <2> QED BY <1>1, <1>2, <1>5, <1>6 DEF VaultInv, VaultTyped
<1>8. Balanced'
  BY <1>2, <1>7, BalancedIsNext
<1> QED BY <1>4, <1>8 DEF VaultInv

LEMMA VaultInvStep ==
    ASSUME VaultInv, FeesDue, MarketOK, [AppNext]_appVars
    PROVE  VaultInv'
<1>1. CASE UNCHANGED vars
  BY <1>1, AccountsStand DEF vars, worldVars, vaultVars, VaultInv, VaultTyped
<1>2. CASE WorldStep
  <2>1. CASE \E id \in Ids : Learn(id)
    BY <2>1, AccountsStand DEF Learn, vaultVars, VaultInv, VaultTyped
  <2>2. ASSUME NEW id \in Ids, NEW v \in Feed!Views, Settle(id, v)
        PROVE  VaultInv'
    <3>1. \A group \in Groups : group \in SUBSET Resolvers
      BY VaultAssumption
    <3>2. UNCHANGED <<known, vaultVars>>
      BY <2>2 DEF Settle
    <3>3. reported' \in [EventIds -> SUBSET Resolvers] /\ voted' \in [EventIds -> SUBSET Resolvers]
      <4>1. CASE UNCHANGED <<reported, voted>>
        BY <4>1 DEF VaultInv, VaultTyped
      <4>2. CASE \E who, judges \in Groups :
                    /\ reported' = [reported EXCEPT ![id] = who]
                    /\ voted' = [voted EXCEPT ![id] = judges]
        <5>1. PICK who, judges \in Groups :
                 /\ reported' = [reported EXCEPT ![id] = who]
                 /\ voted' = [voted EXCEPT ![id] = judges]
          BY <4>2
        <5>2. who \in SUBSET Resolvers /\ judges \in SUBSET Resolvers
          BY <3>1
        <5> QED BY <5>1, <5>2 DEF VaultInv, VaultTyped
      <4> QED BY <2>2, <4>1, <4>2 DEF Settle
    <3> QED BY <3>2, <3>3, AccountsStand DEF vaultVars, VaultInv, VaultTyped
  <2> QED BY <1>2, <2>1, <2>2 DEF WorldStep
<1>3. CASE VaultStep
  <2>1. CASE SetDisputeManager
    BY <2>1, AccountsStand DEF SetDisputeManager, worldVars, VaultInv, VaultTyped
  <2> QED BY <1>3, <2>1, AllocateKeeps, ClaimKeeps, WithdrawKeeps DEF VaultStep
<1>4. CASE Deposited
  BY <1>4, DepositKeeps DEF Deposited
<1> QED BY <1>1, <1>2, <1>3, <1>4, VaultMoves
-----------------------------------------------------------------------------
(* Equal shares of the pools.                                               *)

(* Who shares the pools of an event is fixed with its first split, which    *)
(* comes after its answer; and who was paid is one of them, and was paid no *)
(* more than the share of today.                                            *)
Fair(r, byReport, byVote, byRes, byCom, v) ==
    /\ r.decided => /\ v # "Pending"
                    /\ r.resolverWinners = Cardinality(byReport)
                    /\ r.committeeWinners <= Cardinality(byVote)
    /\ \A who \in Resolvers :
          /\ byRes[who] > 0 => /\ r.decided /\ r.resolverWinners > 0 /\ who \in byReport
                               /\ byRes[who] <= ResolverShare(r)
          /\ byCom[who] > 0 => /\ r.decided /\ r.committeeWinners > 0 /\ who \in byVote
                               /\ byCom[who] <= CommitteeShare(r)

FairAt(e) == Fair(rewards[e], reported[e], voted[e], resolverClaimed[e], committeeClaimed[e], view[e])

SharesInv == \A e \in EventIds : FairAt(e)

LEMMA SharesGrow ==
    ASSUME NEW r \in RewardRecord, NEW s \in RewardRecord, Grew(r, s)
    PROVE  /\ r.resolverWinners > 0 => ResolverShare(r) <= ResolverShare(s)
           /\ r.committeeWinners > 0 => CommitteeShare(r) <= CommitteeShare(s)
<1>1. /\ r.resolverWinners \in Nat /\ r.committeeWinners \in Nat
      /\ r.resolverPool \in Nat /\ r.committeePool \in Nat
      /\ s.resolverPool \in Nat /\ s.committeePool \in Nat
  BY DEF RewardRecord
<1>2. /\ r.resolverPool <= s.resolverPool /\ r.committeePool <= s.committeePool
      /\ s.resolverWinners = r.resolverWinners /\ s.committeeWinners = r.committeeWinners
  BY DEF Grew
<1>3. ASSUME r.resolverWinners > 0
      PROVE  ResolverShare(r) <= ResolverShare(s)
  BY <1>1, <1>2, <1>3, DivGrows DEF ResolverShare
<1>4. ASSUME r.committeeWinners > 0
      PROVE  CommitteeShare(r) <= CommitteeShare(s)
  BY <1>1, <1>2, <1>4, DivGrows DEF CommitteeShare
<1> QED BY <1>3, <1>4

LEMMA ShareNat ==
    ASSUME NEW r \in RewardRecord
    PROVE  /\ r.resolverWinners > 0 => ResolverShare(r) \in Nat
           /\ r.committeeWinners > 0 => CommitteeShare(r) \in Nat
<1>1. /\ r.resolverWinners \in Nat /\ r.committeeWinners \in Nat
      /\ r.resolverPool \in Nat /\ r.committeePool \in Nat
  BY DEF RewardRecord
<1>2. r.resolverWinners > 0 => ResolverShare(r) \in Nat
  BY <1>1, DivFacts DEF ResolverShare
<1>3. r.committeeWinners > 0 => CommitteeShare(r) \in Nat
  BY <1>1, DivFacts DEF CommitteeShare
<1> QED BY <1>2, <1>3

(* A split leaves the claims of before within the shares of after.          *)
LEMMA FairWhenBooked ==
    ASSUME VaultTyped, SharesInv, NEW e \in EventIds, Book(e)
    PROVE  Fair(rewards'[e], reported[e], voted[e], resolverClaimed[e], committeeClaimed[e], view[e])
<1>1. Booked(e) /\ rewards'[e] \in RewardRecord /\ rewards[e] \in RewardRecord
  BY BookFacts DEF VaultTyped
<1>2. FairAt(e)
  BY DEF SharesInv
<1>3. resolverClaimed[e] \in [Resolvers -> Nat] /\ committeeClaimed[e] \in [Resolvers -> Nat]
  BY DEF VaultTyped
<1>4. Judges(e) \in Nat /\ Judges(e) <= Cardinality(voted[e])
  <2>1. IsFiniteSet(voted[e])
    BY VaultAssumption, FS_Subset DEF VaultTyped
  <2>2. Cardinality(voted[e]) \in Nat
    BY <2>1, FS_CardinalityType
  <2> QED BY <2>2 DEF Judges
<1>5. CASE rewards'[e] = rewards[e]
  BY <1>2, <1>5 DEF FairAt
<1>6. CASE /\ view[e] \in {"True", "False"} /\ rewards'[e].decided
           /\ rewards[e].decided /\ Grew(rewards[e], rewards'[e])
  <2>1. /\ rewards'[e].resolverWinners = rewards[e].resolverWinners
        /\ rewards'[e].committeeWinners = rewards[e].committeeWinners
    BY <1>6 DEF Grew
  <2>2. /\ rewards[e].resolverWinners > 0 => ResolverShare(rewards[e]) <= ResolverShare(rewards'[e])
        /\ rewards[e].committeeWinners > 0 => CommitteeShare(rewards[e]) <= CommitteeShare(rewards'[e])
    BY <1>1, <1>6, SharesGrow
  <2>3. /\ rewards[e].resolverWinners > 0 => ResolverShare(rewards[e]) \in Nat /\ ResolverShare(rewards'[e]) \in Nat
        /\ rewards[e].committeeWinners > 0 => CommitteeShare(rewards[e]) \in Nat /\ CommitteeShare(rewards'[e]) \in Nat
    BY <1>1, <2>1, ShareNat
  <2>4. ASSUME NEW who \in Resolvers
        PROVE  /\ resolverClaimed[e][who] > 0 =>
                     /\ rewards'[e].resolverWinners > 0 /\ who \in reported[e]
                     /\ resolverClaimed[e][who] <= ResolverShare(rewards'[e])
               /\ committeeClaimed[e][who] > 0 =>
                     /\ rewards'[e].committeeWinners > 0 /\ who \in voted[e]
                     /\ committeeClaimed[e][who] <= CommitteeShare(rewards'[e])
    <3>1. resolverClaimed[e][who] \in Nat /\ committeeClaimed[e][who] \in Nat
      BY <1>3
    <3> QED BY <1>2, <2>1, <2>2, <2>3, <3>1 DEF FairAt, Fair
  <2> QED BY <1>2, <1>6, <2>1, <2>4 DEF FairAt, Fair
<1>7. CASE /\ view[e] \in {"True", "False"} /\ rewards'[e].decided
           /\ ~rewards[e].decided
           /\ rewards'[e].resolverWinners = Cardinality(reported[e])
           /\ rewards'[e].committeeWinners = Judges(e)
  <2>1. \A who \in Resolvers : ~(resolverClaimed[e][who] > 0) /\ ~(committeeClaimed[e][who] > 0)
    BY <1>2, <1>7 DEF FairAt, Fair
  <2> QED BY <1>4, <1>7, <2>1 DEF Fair
<1>8. rewards[e].decided \in BOOLEAN
  BY <1>1 DEF RewardRecord
<1> QED BY <1>1, <1>5, <1>6, <1>7, <1>8 DEF Booked

LEMMA SharesInvStep ==
    ASSUME VaultInv, SharesInv, FeedOK, FeesDue, MarketOK, [AppNext]_appVars
    PROVE  SharesInv'
<1>1. VaultTyped /\ \A e \in EventIds : FairAt(e)
  BY DEF VaultInv, SharesInv
<1>2. \A e \in EventIds : view[e] # "Pending" => view'[e] = view[e]
  BY FeedStands DEF Ids
<1>3. ASSUME UNCHANGED <<rewards, resolverClaimed, committeeClaimed>>,
             \A e \in EventIds : rewards[e].decided =>
                                    reported'[e] = reported[e] /\ voted'[e] = voted[e]
      PROVE  SharesInv'
  <2>1. ASSUME NEW e \in EventIds PROVE FairAt(e)'
    <3>1. FairAt(e)
      BY <1>1
    <3>2. CASE rewards[e].decided
      <4>1. view[e] # "Pending"
        BY <3>1, <3>2 DEF FairAt, Fair
      <4>2. view'[e] = view[e] /\ reported'[e] = reported[e] /\ voted'[e] = voted[e]
        BY <1>2, <1>3, <3>2, <4>1
      <4> QED BY <1>3, <3>1, <4>2 DEF FairAt
    <3>3. CASE ~rewards[e].decided
      BY <1>3, <3>1, <3>3 DEF FairAt, Fair
    <3> QED BY <3>2, <3>3
  <2> QED BY <2>1 DEF SharesInv
<1>4. CASE UNCHANGED vars
  BY <1>3, <1>4 DEF vars, worldVars, vaultVars, splitVars
<1>5. CASE Deposited
  BY <1>3, <1>5 DEF Deposited, DepositFees, worldVars
<1>6. CASE WorldStep
  <2>1. CASE \E id \in Ids : Learn(id)
    BY <1>3, <2>1 DEF Learn, vaultVars, splitVars
  <2>2. ASSUME NEW id \in Ids, NEW v \in Feed!Views, Settle(id, v)
        PROVE  SharesInv'
    <3>1. view[id] = "Pending"
      BY <2>2 DEF Settle, Feed!Settle
    <3>2. \A e \in EventIds : rewards[e].decided => e # id
      BY <1>1, <3>1 DEF FairAt, Fair
    <3>3. \A e \in EventIds : e # id => reported'[e] = reported[e] /\ voted'[e] = voted[e]
      BY <2>2 DEF Settle, VaultInv, VaultTyped
    <3>4. UNCHANGED <<rewards, resolverClaimed, committeeClaimed>>
      BY <2>2 DEF Settle, vaultVars, splitVars
    <3> QED BY <1>3, <3>2, <3>3, <3>4
  <2> QED BY <1>6, <2>1, <2>2 DEF WorldStep
<1>7. ASSUME NEW e \in EventIds, Book(e), UNCHANGED worldVars,
             \A d \in EventIds \ {e} : resolverClaimed'[d] = resolverClaimed[d]
                                       /\ committeeClaimed'[d] = committeeClaimed[d],
             Fair(rewards'[e], reported[e], voted[e], resolverClaimed'[e], committeeClaimed'[e], view[e])
      PROVE  SharesInv'
  <2>1. \A d \in EventIds \ {e} : rewards'[d] = rewards[d]
    BY <1>1, <1>7, BookFacts
  <2>2. UNCHANGED <<view, reported, voted>>
    BY <1>7 DEF worldVars
  <2>3. \A d \in EventIds \ {e} : FairAt(d)'
    BY <1>1, <1>7, <2>1, <2>2 DEF FairAt
  <2>4. FairAt(e)'
    BY <1>7, <2>2 DEF FairAt
  <2> QED BY <2>3, <2>4 DEF SharesInv
<1>8. CASE VaultStep
  <2>1. CASE \/ SetDisputeManager
             \/ \E amount \in Withdrawals : WithdrawTreasury(amount) \/ WithdrawInsurance(amount)
    BY <1>3, <2>1 DEF SetDisputeManager, WithdrawTreasury, WithdrawInsurance, worldVars, splitVars
  <2>2. ASSUME NEW e \in EventIds, Allocate(e) PROVE SharesInv'
    <3>1. Book(e) /\ UNCHANGED worldVars /\ UNCHANGED <<resolverClaimed, committeeClaimed>>
      BY <2>2 DEF Allocate
    <3> QED BY <1>1, <1>7, <3>1, FairWhenBooked
  <2>3. ASSUME NEW e \in EventIds, NEW who \in Resolvers, ClaimResolverReward(e, who)
        PROVE  SharesInv'
    <3> DEFINE share == ResolverShare(rewards'[e])
               amount == share - resolverClaimed[e][who]
    <3>1. /\ Book(e) /\ UNCHANGED worldVars /\ UNCHANGED committeeClaimed
          /\ who \in reported[e] /\ rewards'[e].decided /\ rewards'[e].resolverWinners > 0
          /\ resolverClaimed' = [resolverClaimed EXCEPT ![e][who] = @ + amount]
      BY <2>3 DEF ClaimResolverReward
    <3>2. Fair(rewards'[e], reported[e], voted[e], resolverClaimed[e], committeeClaimed[e], view[e])
      BY <1>1, <3>1, FairWhenBooked
    <3>3. amount \in Nat
      BY <1>1, <2>3, ResolverAmount
    <3>4. rewards'[e] \in RewardRecord
      BY <1>1, <3>1, BookFacts
    <3>5. share \in Nat
      BY <3>1, <3>4, ShareNat
    <3>6. /\ resolverClaimed \in [EventIds -> [Resolvers -> Nat]] /\ resolverClaimed[e][who] \in Nat
      BY <1>1 DEF VaultTyped
    <3>7. /\ resolverClaimed'[e][who] = resolverClaimed[e][who] + amount
          /\ \A x \in Resolvers \ {who} : resolverClaimed'[e][x] = resolverClaimed[e][x]
          /\ \A d \in EventIds \ {e} : resolverClaimed'[d] = resolverClaimed[d]
      <4> HIDE DEF amount
      <4> QED BY <3>1, <3>6
    <3>8. resolverClaimed'[e][who] = share
      <4> HIDE DEF share
      <4> QED BY <3>5, <3>6, <3>7
    <3>9. Fair(rewards'[e], reported[e], voted[e], resolverClaimed'[e], committeeClaimed'[e], view[e])
      <4>1. share <= share
        BY <3>5
      <4> QED BY <3>1, <3>2, <3>7, <3>8, <4>1 DEF Fair
    <3> QED BY <1>7, <3>1, <3>7, <3>9
  <2>4. ASSUME NEW e \in EventIds, NEW who \in Resolvers, ClaimCommitteeReward(e, who)
        PROVE  SharesInv'
    <3> DEFINE share == CommitteeShare(rewards'[e])
               amount == share - committeeClaimed[e][who]
    <3>1. /\ Book(e) /\ UNCHANGED worldVars /\ UNCHANGED resolverClaimed
          /\ who \in voted[e] /\ rewards'[e].decided /\ rewards'[e].committeeWinners > 0
          /\ committeeClaimed' = [committeeClaimed EXCEPT ![e][who] = @ + amount]
      BY <2>4 DEF ClaimCommitteeReward
    <3>2. Fair(rewards'[e], reported[e], voted[e], resolverClaimed[e], committeeClaimed[e], view[e])
      BY <1>1, <3>1, FairWhenBooked
    <3>3. amount \in Nat
      BY <1>1, <2>4, CommitteeAmount
    <3>4. rewards'[e] \in RewardRecord
      BY <1>1, <3>1, BookFacts
    <3>5. share \in Nat
      BY <3>1, <3>4, ShareNat
    <3>6. /\ committeeClaimed \in [EventIds -> [Resolvers -> Nat]] /\ committeeClaimed[e][who] \in Nat
      BY <1>1 DEF VaultTyped
    <3>7. /\ committeeClaimed'[e][who] = committeeClaimed[e][who] + amount
          /\ \A x \in Resolvers \ {who} : committeeClaimed'[e][x] = committeeClaimed[e][x]
          /\ \A d \in EventIds \ {e} : committeeClaimed'[d] = committeeClaimed[d]
      <4> HIDE DEF amount
      <4> QED BY <3>1, <3>6
    <3>8. committeeClaimed'[e][who] = share
      <4> HIDE DEF share
      <4> QED BY <3>5, <3>6, <3>7
    <3>9. Fair(rewards'[e], reported[e], voted[e], resolverClaimed'[e], committeeClaimed'[e], view[e])
      <4>1. share <= share
        BY <3>5
      <4> QED BY <3>1, <3>2, <3>7, <3>8, <4>1 DEF Fair
    <3> QED BY <1>7, <3>1, <3>7, <3>9
  <2> QED BY <1>8, <2>1, <2>2, <2>3, <2>4 DEF VaultStep
<1> QED BY <1>4, <1>5, <1>6, <1>8, VaultMoves DEF VaultInv
-----------------------------------------------------------------------------
(* The markets: what one owes, before and after it ends.                    *)

(* Payouts and debts of one market, of its values: r is its record, b the   *)
(* stakes and c who claimed.                                                *)
StakeOf(b, t) == b[TRUE][t] + b[FALSE][t]
PaidTo(r, b, t) ==
    IF r.status = "Refunding" \/ r.pool[r.outcome] = 0 THEN StakeOf(b, t)
    ELSE b[r.outcome][t] + (b[r.outcome][t] * (r.pool[~r.outcome] - r.fee)) \div r.pool[r.outcome]
Due(r, b, c)  == [t \in Traders |-> IF t \in c THEN 0 ELSE PaidTo(r, b, t)]
Both(r)       == r.pool[TRUE] + r.pool[FALSE]
Debt(r, b, c) == IF r.status = "Open" THEN Both(r) ELSE SumFunction(Due(r, b, c))

Stakes == [BOOLEAN -> [Traders -> Nat]]

(* The pools are the stakes of the traders, and stay so; nobody claims from *)
(* an open market, and a fee is taken from a losing pool that somebody wins. *)
Sound(r, b, c) ==
    /\ r \in MarketRecord /\ b \in Stakes /\ c \in SUBSET Traders
    /\ r.pool \in [BOOLEAN -> Nat] /\ r.fee \in Nat
    /\ \A side \in BOOLEAN : r.pool[side] = SumFunction(b[side])
    /\ r.status = "Open" => c = {}
    /\ r.status # "Settled" => r.fee = 0
    /\ r.status = "Settled" => /\ r.fee <= r.pool[~r.outcome]
                               /\ r.pool[r.outcome] = 0 => r.fee = 0
    /\ ~r.created => r.pool[TRUE] = 0 /\ r.pool[FALSE] = 0

MarketsSound ==
    /\ market \in [MarketIds -> MarketRecord]
    /\ balance \in [MarketIds -> Stakes]
    /\ claimed \in [MarketIds -> SUBSET Traders]
    /\ marketHeld \in Int
    /\ \A m \in MarketIds : Sound(market[m], balance[m], claimed[m])

Debts(mk, bal, cl) == [m \in MarketIds |-> Debt(mk[m], bal[m], cl[m])]

MarketsInv == MarketsSound /\ MarketSolvent

LEMMA SolventIs == MarketSolvent <=> marketHeld >= SumFunction(Debts(market, balance, claimed))
BY DEF MarketSolvent, Owed, Unclaimed, Payout, OwnStake, Debts, Debt, Both, Due, PaidTo, StakeOf

LEMMA SolventIsNext ==
    MarketSolvent' <=> marketHeld' >= SumFunction(Debts(market', balance', claimed'))
BY DEF MarketSolvent, Owed, Unclaimed, Payout, OwnStake, Debts, Debt, Both, Due, PaidTo, StakeOf

LEMMA SoundFacts ==
    ASSUME NEW r, NEW b, NEW c, Sound(r, b, c)
    PROVE  /\ r.pool[TRUE] \in Nat /\ r.pool[FALSE] \in Nat /\ r.fee \in Nat
           /\ r.outcome \in BOOLEAN /\ (~r.outcome) \in BOOLEAN
           /\ r.pool[r.outcome] \in Nat /\ r.pool[~r.outcome] \in Nat
           /\ Both(r) = r.pool[r.outcome] + r.pool[~r.outcome] /\ Both(r) \in Nat
           /\ r.fee <= r.pool[~r.outcome]
           /\ r.pool[r.outcome] = 0 => r.fee = 0
<1>1. /\ r \in MarketRecord /\ r.pool \in [BOOLEAN -> Nat] /\ r.fee \in Nat
      /\ r.status # "Settled" => r.fee = 0
      /\ r.status = "Settled" => /\ r.fee <= r.pool[~r.outcome]
                                 /\ r.pool[r.outcome] = 0 => r.fee = 0
  BY DEF Sound
<1>2. r.outcome \in BOOLEAN
  BY <1>1 DEF MarketRecord
<1>3. /\ r.pool[TRUE] \in Nat /\ r.pool[FALSE] \in Nat
  BY <1>1
<1> DEFINE p == r.pool
<1> HIDE DEF p
<1>4. Both(r) \in Nat
  <2>1. \A x, y \in Nat : x + y \in Nat
    OBVIOUS
  <2> QED BY <1>3, <2>1 DEF Both
<1>5. CASE r.outcome = TRUE
  <2>1. (~r.outcome) = FALSE
    BY <1>5
  <2>2. p[r.outcome] = p[TRUE] /\ p[~r.outcome] = p[FALSE]
    BY <1>5, <2>1
  <2>3. Both(r) = r.pool[r.outcome] + r.pool[~r.outcome]
    BY <2>2 DEF p, Both
  <2>4. r.fee <= r.pool[~r.outcome] /\ (r.pool[r.outcome] = 0 => r.fee = 0)
    <3>1. r.pool[~r.outcome] \in Nat
      BY <1>3, <2>2 DEF p
    <3> QED BY <1>1, <3>1
  <2> QED BY <1>1, <1>2, <1>3, <1>4, <2>1, <2>2, <2>3, <2>4 DEF p
<1>6. CASE r.outcome = FALSE
  <2>1. (~r.outcome) = TRUE
    BY <1>6
  <2>2. p[r.outcome] = p[FALSE] /\ p[~r.outcome] = p[TRUE]
    BY <1>6, <2>1
  <2>3. Both(r) = r.pool[r.outcome] + r.pool[~r.outcome]
    <3>1. p[TRUE] \in Nat /\ p[FALSE] \in Nat
      BY <1>3 DEF p
    <3>2. p[TRUE] + p[FALSE] = p[FALSE] + p[TRUE]
      <4>1. \A x, y \in Nat : x + y = y + x
        OBVIOUS
      <4> QED BY <3>1, <4>1
    <3> QED BY <2>2, <3>2 DEF p, Both
  <2>4. r.fee <= r.pool[~r.outcome] /\ (r.pool[r.outcome] = 0 => r.fee = 0)
    <3>1. r.pool[~r.outcome] \in Nat
      BY <1>3, <2>2 DEF p
    <3> QED BY <1>1, <3>1
  <2> QED BY <1>1, <1>2, <1>3, <1>4, <2>1, <2>2, <2>3, <2>4 DEF p
<1> QED BY <1>2, <1>5, <1>6, <1>4

(* A payout is not negative, and at least the stake on the side that won.   *)
LEMMA PaidNat ==
    ASSUME NEW r, NEW b, NEW c, Sound(r, b, c), NEW t \in Traders
    PROVE  /\ PaidTo(r, b, t) \in Nat
           /\ b[r.outcome][t] \in Nat /\ StakeOf(b, t) \in Nat
           /\ PaidTo(r, b, t) >= b[r.outcome][t]
           /\ PaidTo(r, b, t) = IF r.status = "Refunding" \/ r.pool[r.outcome] = 0 THEN StakeOf(b, t)
                                ELSE b[r.outcome][t] + (b[r.outcome][t] * (r.pool[~r.outcome] - r.fee)) \div r.pool[r.outcome]
<1> DEFINE won  == r.pool[r.outcome]
           lost == r.pool[~r.outcome] - r.fee
           mine == b[r.outcome][t]
           gain == (mine * lost) \div won
<1>1. won \in Nat /\ lost \in Nat
  <2>1. r.pool[~r.outcome] \in Nat /\ r.fee \in Nat /\ r.fee <= r.pool[~r.outcome]
    BY SoundFacts
  <2>2. \A x, y \in Nat : y <= x => x - y \in Nat
    OBVIOUS
  <2> QED BY <2>1, <2>2, SoundFacts
<1>2. b \in Stakes /\ r.outcome \in BOOLEAN
  BY SoundFacts DEF Sound
<1>3. mine \in Nat /\ b[TRUE][t] \in Nat /\ b[FALSE][t] \in Nat
  BY <1>2 DEF Stakes
<1>4. StakeOf(b, t) \in Nat /\ StakeOf(b, t) >= mine
  <2>1. mine \in {b[TRUE][t], b[FALSE][t]}
    BY <1>2
  <2> DEFINE yes == b[TRUE][t]
             no  == b[FALSE][t]
  <2>2. yes \in Nat /\ no \in Nat /\ mine \in {yes, no} /\ StakeOf(b, t) = yes + no
    BY <1>3, <2>1 DEF StakeOf
  <2> HIDE DEF mine, yes, no
  <2> QED BY <2>2
<1>5. PaidTo(r, b, t) = IF r.status = "Refunding" \/ won = 0 THEN StakeOf(b, t) ELSE mine + gain
  BY DEF PaidTo
<1> HIDE DEF won, lost, mine
<1>6. won # 0 => gain \in Nat
  <2>1. mine * lost \in Nat
    BY <1>1, <1>3, TimesNat
  <2> QED BY <1>1, <2>1, DivFacts
<1> HIDE DEF gain
<1>7. PaidTo(r, b, t) \in Nat /\ PaidTo(r, b, t) >= mine
  BY <1>1, <1>3, <1>4, <1>5, <1>6
<1> QED BY <1>3, <1>4, <1>5, <1>7 DEF mine, won, lost, gain

LEMMA DueNat ==
    ASSUME NEW r, NEW b, NEW c, Sound(r, b, c)
    PROVE  Due(r, b, c) \in [Traders -> Nat]
<1>1. \A t \in Traders : PaidTo(r, b, t) \in Nat
  BY PaidNat
<1> QED BY <1>1 DEF Due

LEMMA DebtNat ==
    ASSUME NEW r, NEW b, NEW c, Sound(r, b, c)
    PROVE  Debt(r, b, c) \in Nat
<1>1. SumFunction(Due(r, b, c)) \in Nat
  BY DueNat, TotalNat, MarketAssumption
<1>2. Both(r) \in Nat
  BY SoundFacts
<1> QED BY <1>1, <1>2 DEF Debt

(* All stakes are in the two pools.                                         *)
LEMMA StakesInPools ==
    ASSUME NEW r, NEW b, NEW c, Sound(r, b, c)
    PROVE  SumFunction([t \in Traders |-> StakeOf(b, t)]) = Both(r)
<1> DEFINE yes == b[TRUE]
           no  == b[FALSE]
           all == [t \in Traders |-> StakeOf(b, t)]
<1>1. yes \in [Traders -> Int] /\ no \in [Traders -> Int] /\ IsFiniteSet(Traders)
  <2>1. b \in [BOOLEAN -> [Traders -> Nat]]
    BY DEF Sound, Stakes
  <2>2. yes \in [Traders -> Nat] /\ no \in [Traders -> Nat]
    BY <2>1
  <2> HIDE DEF yes, no
  <2> QED BY <2>2, MarketAssumption
<1>2. all \in [Traders -> Int] /\ \A t \in Traders : all[t] = yes[t] + no[t]
  <2>1. \A t \in Traders : StakeOf(b, t) = yes[t] + no[t]
    BY DEF StakeOf
  <2> HIDE DEF yes, no
  <2>2. \A t \in Traders : yes[t] + no[t] \in Int
    BY <1>1
  <2> QED BY <2>1, <2>2
<1>3. r.pool[TRUE] = SumFunction(yes) /\ r.pool[FALSE] = SumFunction(no)
  BY DEF Sound
<1> HIDE DEF yes, no, all
<1>4. SumFunction(all) = SumFunction(yes) + SumFunction(no)
  BY <1>1, <1>2, TotalCombined
<1> QED BY <1>3, <1>4 DEF all, Both

(* What a market that ended owes in all before anybody claims is at most    *)
(* its pools less the fee.                                                  *)
LEMMA PayoutsFit ==
    ASSUME NEW r, NEW b, Sound(r, b, {}), r.status # "Open"
    PROVE  Debt(r, b, {}) <= Both(r) - r.fee
<1> DEFINE due == Due(r, b, {})
           all == [t \in Traders |-> StakeOf(b, t)]
           won == r.pool[r.outcome]
           X   == r.pool[~r.outcome] - r.fee
           mine == b[r.outcome]
           gain == [t \in Traders |-> (mine[t] * X) \div won]
<1>1. Debt(r, b, {}) = SumFunction(due)
  BY DEF Debt
<1>2. due \in [Traders -> Int] /\ IsFiniteSet(Traders)
  <2>1. due \in [Traders -> Nat]
    BY DueNat
  <2> QED BY <2>1, MarketAssumption
<1>3. /\ Both(r) \in Nat /\ r.fee \in Nat
      /\ r.outcome \in BOOLEAN /\ won \in Nat /\ r.pool[~r.outcome] \in Nat
      /\ Both(r) = won + r.pool[~r.outcome]
      /\ r.fee <= r.pool[~r.outcome] /\ (won = 0 => r.fee = 0)
      /\ (r.status = "Refunding" => r.fee = 0)
  BY SoundFacts DEF Sound
<1>4. CASE r.status = "Refunding" \/ won = 0
  <2>1. due = all
    BY <1>4 DEF Due, PaidTo
  <2>2. SumFunction(due) = Both(r)
    BY <2>1, StakesInPools
  <2>3. r.fee = 0
    BY <1>3, <1>4
  <2> QED BY <1>1, <1>3, <2>2, <2>3
<1>5. CASE ~(r.status = "Refunding") /\ won # 0
  <2>1. mine \in [Traders -> Nat] /\ won = SumFunction(mine)
    BY <1>3 DEF Sound, Stakes
  <2>2. X \in Nat
    BY <1>3
  <2>3. \A t \in Traders : due[t] = mine[t] + gain[t]
    BY <1>5 DEF Due, PaidTo
  <2> HIDE DEF won, X, mine
  <2>4. gain \in [Traders -> Int]
    <3>1. ASSUME NEW t \in Traders PROVE (mine[t] * X) \div won \in Int
      <4>1. mine[t] * X \in Nat
        BY <2>1, <2>2, TimesNat
      <4>2. won \in Nat \ {0}
        BY <1>3, <1>5
      <4> QED BY <4>1, <4>2, DivFacts
    <3> QED BY <3>1
  <2>5. \A t \in Traders : gain[t] = (mine[t] * X) \div SumFunction(mine)
    BY <2>1
  <2> HIDE DEF gain, due
  <2>6. SumFunction(mine) > 0
    BY <1>3, <1>5, <2>1
  <2>7. SumFunction(gain) <= X
    BY <1>2, <2>1, <2>2, <2>4, <2>5, <2>6, TotalFloors
  <2>8. mine \in [Traders -> Int]
    BY <2>1
  <2>9. SumFunction(due) = SumFunction(mine) + SumFunction(gain)
    BY <1>2, <2>3, <2>4, <2>8, TotalCombined
  <2>10. SumFunction(gain) \in Int /\ SumFunction(due) \in Int
    BY <1>2, <2>4, TotalInt
  <2>11. SumFunction(due) <= won + X
    BY <1>3, <2>1, <2>2, <2>7, <2>9, <2>10
  <2>12. Both(r) - r.fee = won + X
    <3> DEFINE l == r.pool[~r.outcome]
    <3>1. l \in Nat /\ won \in Nat /\ r.fee \in Nat /\ Both(r) = won + l /\ X = l - r.fee
      BY <1>3 DEF X
    <3> HIDE DEF l
    <3> QED BY <3>1
  <2> QED BY <1>1, <2>11, <2>12 DEF due
<1> QED BY <1>4, <1>5
-----------------------------------------------------------------------------
FeeOn(x, bps) == (x * bps) \div 10000

(* A fee of at most five in a hundred is part of what it is taken from.     *)
LEMMA FeeFits ==
    ASSUME NEW x \in Nat, NEW bps \in 0..500
    PROVE  FeeOn(x, bps) \in Nat /\ FeeOn(x, bps) <= x
<1>1. bps \in Nat /\ bps <= 10000 /\ 10000 \in Nat
  OBVIOUS
<1>2. bps * x \in Nat /\ bps * x <= 10000 * x
  BY <1>1, TimesNat
<1>3. x * bps = bps * x
  BY <1>1, TimesFacts
<1> DEFINE p == x * bps
<1>4. p \in Nat /\ p <= 10000 * x
  BY <1>2, <1>3
<1>5. FeeOn(x, bps) = p \div 10000
  BY DEF FeeOn
<1> HIDE DEF p
<1>6. p \div 10000 \in Nat /\ p \div 10000 <= x
  BY <1>4
<1> QED BY <1>5, <1>6

LEMMA MarketFeeFits ==
    ASSUME NEW stakes \in [BOOLEAN -> Nat], NEW o \in BOOLEAN
    PROVE  /\ Fee(stakes, o) \in Nat /\ Fee(stakes, o) <= stakes[~o]
           /\ stakes[o] = 0 => Fee(stakes, o) = 0
<1> DEFINE lost == stakes[~o]
           won  == stakes[o]
<1>1. lost \in Nat /\ won \in Nat
  <2>1. (~o) \in BOOLEAN
    OBVIOUS
  <2> QED BY <2>1
<1>2. Fee(stakes, o) = IF won > 0 THEN FeeOn(lost, FeeBps) ELSE 0
  BY DEF Fee, BPS, FeeOn
<1>3. FeeBps \in 0..500
  BY MarketAssumption DEF MaxFeeBps
<1> HIDE DEF lost, won
<1>4. FeeOn(lost, FeeBps) \in Nat /\ FeeOn(lost, FeeBps) <= lost
  BY <1>1, <1>3, FeeFits
<1>5. Fee(stakes, o) \in Nat /\ Fee(stakes, o) <= lost /\ (won = 0 => Fee(stakes, o) = 0)
  BY <1>1, <1>2, <1>4
<1> QED BY <1>5 DEF lost, won

-----------------------------------------------------------------------------
LEMMA DebtsInt ==
    ASSUME NEW mk \in [MarketIds -> MarketRecord], NEW bal \in [MarketIds -> Stakes],
           NEW cl \in [MarketIds -> SUBSET Traders],
           \A m \in MarketIds : Sound(mk[m], bal[m], cl[m])
    PROVE  /\ Debts(mk, bal, cl) \in [MarketIds -> Int]
           /\ SumFunction(Debts(mk, bal, cl)) \in Int
<1>1. \A m \in MarketIds : Debt(mk[m], bal[m], cl[m]) \in Nat
  BY DebtNat
<1>2. Debts(mk, bal, cl) \in [MarketIds -> Int]
  BY <1>1 DEF Debts
<1> QED BY <1>2, TotalInt, MarketAssumption

(* A step of one market keeps all of them solvent if it moves no more       *)
(* collateral than debt.                                                    *)
LEMMA OneMarketMoves ==
    ASSUME MarketsInv, NEW m \in MarketIds,
           market' \in [MarketIds -> MarketRecord], balance' \in [MarketIds -> Stakes],
           claimed' \in [MarketIds -> SUBSET Traders], marketHeld' \in Int,
           \A n \in MarketIds \ {m} :
              market'[n] = market[n] /\ balance'[n] = balance[n] /\ claimed'[n] = claimed[n],
           Sound(market'[m], balance'[m], claimed'[m]),
           marketHeld' - Debt(market'[m], balance'[m], claimed'[m])
              >= marketHeld - Debt(market[m], balance[m], claimed[m])
    PROVE  MarketsInv'
<1>1. \A n \in MarketIds : /\ Sound(market[n], balance[n], claimed[n])
                           /\ Sound(market'[n], balance'[n], claimed'[n])
  BY DEF MarketsInv, MarketsSound
<1>2. MarketsSound'
  BY <1>1 DEF MarketsSound
<1> DEFINE f == Debts(market, balance, claimed)
           g == Debts(market', balance', claimed')
           before == Debt(market[m], balance[m], claimed[m])
           after  == Debt(market'[m], balance'[m], claimed'[m])
<1>3. f \in [MarketIds -> Int] /\ SumFunction(f) \in Int
  BY <1>1, DebtsInt DEF MarketsInv, MarketsSound
<1>4. g \in [MarketIds -> Int] /\ SumFunction(g) \in Int
  BY <1>1, DebtsInt
<1>5. f[m] = before /\ g[m] = after /\ \A n \in MarketIds \ {m} : g[n] = f[n]
  BY DEF Debts
<1>6. before \in Nat /\ after \in Nat /\ marketHeld \in Int
  BY <1>1, DebtNat DEF MarketsInv, MarketsSound
<1>7. marketHeld >= SumFunction(f)
  BY SolventIs DEF MarketsInv
<1>8. marketHeld' - after >= marketHeld - before
  OBVIOUS
<1> HIDE DEF f, g, before, after
<1>9. SumFunction(g) = SumFunction(f) + (g[m] - f[m])
  <2>1. IsFiniteSet(MarketIds)
    BY MarketAssumption
  <2> QED BY <1>3, <1>4, <1>5, <2>1, TotalChange
<1>10. marketHeld' >= SumFunction(g)
  BY <1>3, <1>4, <1>5, <1>6, <1>7, <1>8, <1>9
<1> QED BY <1>2, <1>10, SolventIsNext DEF MarketsInv, g

-----------------------------------------------------------------------------
(* A stake is made or taken back: the pool moves with it.                   *)
Staking(r, b, c, side, t, x, s, d) ==
    /\ Sound(r, b, c) /\ r.created /\ r.status = "Open"
    /\ side \in BOOLEAN /\ t \in Traders /\ x \in Int /\ b[side][t] + x \in Nat
    /\ d = [b EXCEPT ![side][t] = @ + x]
    /\ s = [r EXCEPT !.pool = [r.pool EXCEPT ![side] = @ + x]]

LEMMA StakeMoves ==
    ASSUME NEW r, NEW b, NEW c, NEW side, NEW t, NEW x, NEW s, NEW d, Staking(r, b, c, side, t, x, s, d)
    PROVE  Sound(s, d, c) /\ Both(s) = Both(r) + x
<1> DEFINE p == [r.pool EXCEPT ![side] = @ + x]
<1>0. /\ Sound(r, b, c) /\ r.created /\ r.status = "Open"
      /\ side \in BOOLEAN /\ t \in Traders /\ x \in Int /\ b[side][t] + x \in Nat
      /\ d = [b EXCEPT ![side][t] = @ + x]
      /\ s = [r EXCEPT !.pool = p]
  BY DEF Staking
<1>1. /\ r \in MarketRecord /\ b \in [BOOLEAN -> [Traders -> Nat]] /\ c = {}
      /\ r.pool \in [BOOLEAN -> Nat] /\ r.fee = 0
      /\ \A z \in BOOLEAN : r.pool[z] = SumFunction(b[z])
  BY <1>0 DEF Sound, Stakes
<1>2. b[side] \in [Traders -> Nat]
  BY <1>0, <1>1
<1>3. /\ d \in [BOOLEAN -> [Traders -> Nat]]
      /\ d[side] = [b[side] EXCEPT ![t] = @ + x]
      /\ \A z \in BOOLEAN \ {side} : d[z] = b[z]
  BY <1>0, <1>1, <1>2
<1> DEFINE f == b[side]
           g == d[side]
<1>4. /\ f \in [Traders -> Int] /\ g \in [Traders -> Int] /\ f \in [Traders -> Nat]
      /\ g \in [Traders -> Nat]
      /\ g[t] = f[t] + x /\ \A z \in Traders \ {t} : g[z] = f[z]
  BY <1>0, <1>2, <1>3
<1> HIDE DEF f, g, p
<1>5. SumFunction(g) = SumFunction(f) + x
  <2>1. IsFiniteSet(Traders)
    BY MarketAssumption
  <2>2. SumFunction(g) = SumFunction(f) + (g[t] - f[t])
    BY <1>0, <1>4, <2>1, TotalChange
  <2>3. SumFunction(f) \in Int /\ f[t] \in Int
    BY <1>0, <1>4, <2>1, TotalInt
  <2> QED BY <1>0, <1>4, <2>2, <2>3
<1>6. SumFunction(g) \in Nat
  BY <1>4, TotalNat, MarketAssumption
<1>7. r.pool[side] = SumFunction(f) /\ p[side] = r.pool[side] + x
      /\ \A z \in BOOLEAN \ {side} : p[z] = r.pool[z]
  BY <1>0, <1>1 DEF f, p
<1>8. p[side] = SumFunction(g)
  BY <1>5, <1>7
<1>9. p \in [BOOLEAN -> Nat]
  <2>1. p = [z \in BOOLEAN |-> p[z]]
    BY <1>0, <1>1 DEF p
  <2>2. \A z \in BOOLEAN : p[z] \in Nat
    BY <1>0, <1>1, <1>6, <1>7, <1>8
  <2> QED BY <2>1, <2>2
<1>10. \A z \in BOOLEAN : p[z] = SumFunction(d[z])
  BY <1>0, <1>1, <1>3, <1>7, <1>8 DEF g
<1>11. /\ s \in MarketRecord /\ s.pool = p /\ s.fee = 0 /\ s.status = "Open" /\ s.created
  <2>1. p \in [BOOLEAN -> Int]
    BY <1>9
  <2> QED BY <1>0, <1>1, <2>1, StakedRecord DEF MarketRecord
<1>12. Sound(s, d, c)
  BY <1>0, <1>1, <1>3, <1>9, <1>10, <1>11 DEF Sound, Stakes
<1>13. Both(s) = Both(r) + x
  <2> DEFINE yes == r.pool[TRUE]
             no  == r.pool[FALSE]
  <2>1. Both(r) = yes + no /\ Both(s) = p[TRUE] + p[FALSE]
    BY <1>11 DEF Both
  <2>2. yes \in Nat /\ no \in Nat
    BY <1>1
  <2>3. CASE side = TRUE
    <3>1. p[TRUE] = yes + x /\ p[FALSE] = no
      BY <1>0, <1>7, <2>3
    <3> HIDE DEF yes, no
    <3>2. (yes + x) + no = (yes + no) + x
      BY <1>0, <2>2
    <3> QED BY <1>0, <2>1, <3>1, <3>2
  <2>4. CASE side = FALSE
    <3>1. p[FALSE] = no + x /\ p[TRUE] = yes
      BY <1>0, <1>7, <2>4
    <3> HIDE DEF yes, no
    <3>2. yes + (no + x) = (yes + no) + x
      BY <1>0, <2>2
    <3> QED BY <1>0, <2>1, <3>1, <3>2
  <2> QED BY <1>0, <2>3, <2>4
<1> QED BY <1>12, <1>13

(* A market ends: what it owes then is covered by its pools less the fee.   *)
LEMMA RefundSound ==
    ASSUME NEW r, NEW b, NEW c, Sound(r, b, c), r.created, r.status = "Open"
    PROVE  /\ Sound([r EXCEPT !.status = "Refunding"], b, c)
           /\ Debt([r EXCEPT !.status = "Refunding"], b, c) <= Debt(r, b, c)
<1> DEFINE s == [r EXCEPT !.status = "Refunding"]
<1>1. r \in MarketRecord /\ c = {} /\ r.fee = 0
  BY DEF Sound
<1>2. /\ s \in MarketRecord /\ s.pool = r.pool /\ s.fee = r.fee /\ s.status = "Refunding" /\ s.created
  BY <1>1, RefundingRecord DEF MarketRecord
<1> HIDE DEF s
<1>3. Sound(s, b, c)
  BY <1>1, <1>2 DEF Sound
<1>4. Debt(s, b, c) <= Both(s) - s.fee
  BY <1>1, <1>2, <1>3, PayoutsFit
<1>5. Both(s) = Both(r) /\ Both(r) \in Nat /\ Debt(r, b, c) = Both(r) /\ Debt(s, b, c) \in Nat
  BY <1>2, <1>3, SoundFacts, DebtNat DEF Both, Debt
<1>6. Debt(s, b, c) <= Debt(r, b, c)
  BY <1>1, <1>2, <1>4, <1>5
<1> QED BY <1>3, <1>6 DEF s

LEMMA PayOutSound ==
    ASSUME NEW r, NEW b, NEW c, Sound(r, b, c), r.created, r.status = "Open",
           NEW o \in BOOLEAN, NEW fee, fee = Fee(r.pool, o),
           NEW s, s = [r EXCEPT !.status = "Settled", !.outcome = o, !.fee = fee]
    PROVE  /\ Sound(s, b, c) /\ fee \in Nat
           /\ Debt(s, b, c) <= Debt(r, b, c) - fee
<1>1. r \in MarketRecord /\ c = {} /\ r.pool \in [BOOLEAN -> Nat]
  BY DEF Sound
<1>2. fee \in Nat /\ fee <= r.pool[~o] /\ (r.pool[o] = 0 => fee = 0)
  BY <1>1, MarketFeeFits
<1>3. /\ s \in MarketRecord /\ s.pool = r.pool /\ s.fee = fee /\ s.status = "Settled"
      /\ s.created /\ s.outcome = o
  <2>1. fee \in Int
    BY <1>2
  <2> QED BY <1>1, <2>1, SettledRecord DEF MarketRecord
<1>4. Sound(s, b, c)
  BY <1>1, <1>2, <1>3 DEF Sound
<1>5. Debt(s, b, c) <= Both(s) - s.fee
  BY <1>1, <1>3, <1>4, PayoutsFit
<1>6. Both(s) = Both(r) /\ Debt(r, b, c) = Both(r)
  BY <1>3 DEF Both, Debt
<1> QED BY <1>2, <1>3, <1>4, <1>5, <1>6

(* A claim pays one debt.                                                   *)
LEMMA ClaimPays ==
    ASSUME NEW r, NEW b, NEW c, Sound(r, b, c), r.status # "Open",
           NEW t \in Traders, t \notin c
    PROVE  /\ Sound(r, b, c \cup {t})
           /\ Debt(r, b, c \cup {t}) = Debt(r, b, c) - PaidTo(r, b, t)
<1>1. Sound(r, b, c \cup {t})
  BY DEF Sound
<1> DEFINE f == Due(r, b, c)
           g == Due(r, b, c \cup {t})
<1>2. f \in [Traders -> Nat] /\ g \in [Traders -> Nat]
  BY <1>1, DueNat
<1>3. f[t] = PaidTo(r, b, t) /\ g[t] = 0 /\ \A x \in Traders \ {t} : g[x] = f[x]
  BY DEF Due
<1>4. Debt(r, b, c) = SumFunction(f) /\ Debt(r, b, c \cup {t}) = SumFunction(g)
  BY DEF Debt
<1> HIDE DEF f, g
<1>5. f \in [Traders -> Int] /\ g \in [Traders -> Int] /\ IsFiniteSet(Traders)
  BY <1>2, MarketAssumption
<1>6. SumFunction(g) = SumFunction(f) + (g[t] - f[t])
  BY <1>3, <1>5, TotalChange
<1>7. SumFunction(f) \in Int /\ f[t] \in Int
  BY <1>5, TotalInt
<1>8. SumFunction(g) = SumFunction(f) - f[t]
  BY <1>3, <1>6, <1>7
<1> QED BY <1>1, <1>3, <1>4, <1>8
-----------------------------------------------------------------------------
(* The steps of the markets.                                                *)

(* Nothing of the other markets, and nothing of this one but its values.    *)
LEMMA MarketChanges ==
    ASSUME MarketsInv, NEW m \in MarketIds, NEW r, NEW b, NEW c, NEW h \in Int,
           Sound(r, b, c),
           market' = [market EXCEPT ![m] = r], balance' = [balance EXCEPT ![m] = b],
           claimed' = [claimed EXCEPT ![m] = c], marketHeld' = h,
           h - Debt(r, b, c) >= marketHeld - Debt(market[m], balance[m], claimed[m])
    PROVE  MarketsInv'
<1>1. /\ market \in [MarketIds -> MarketRecord] /\ balance \in [MarketIds -> Stakes]
      /\ claimed \in [MarketIds -> SUBSET Traders]
  BY DEF MarketsInv, MarketsSound
<1>2. r \in MarketRecord /\ b \in Stakes /\ c \in SUBSET Traders
  BY DEF Sound
<1>3. /\ market' \in [MarketIds -> MarketRecord] /\ balance' \in [MarketIds -> Stakes]
      /\ claimed' \in [MarketIds -> SUBSET Traders] /\ marketHeld' \in Int
      /\ market'[m] = r /\ balance'[m] = b /\ claimed'[m] = c
      /\ \A n \in MarketIds \ {m} :
            market'[n] = market[n] /\ balance'[n] = balance[n] /\ claimed'[n] = claimed[n]
  BY <1>1, <1>2
<1>4. marketHeld' - Debt(market'[m], balance'[m], claimed'[m])
        >= marketHeld - Debt(market[m], balance[m], claimed[m])
  BY <1>3
<1>5. Sound(market'[m], balance'[m], claimed'[m])
  BY <1>3
<1> QED BY <1>3, <1>4, <1>5, OneMarketMoves

(* The values of one market that nobody changes.                            *)
LEMMA MarketIsSound ==
    ASSUME MarketsInv, NEW m \in MarketIds
    PROVE  /\ Sound(market[m], balance[m], claimed[m])
           /\ Debt(market[m], balance[m], claimed[m]) \in Nat
           /\ marketHeld \in Int
           /\ market = [market EXCEPT ![m] = market[m]]
           /\ balance = [balance EXCEPT ![m] = balance[m]]
           /\ claimed = [claimed EXCEPT ![m] = claimed[m]]
<1>1. Sound(market[m], balance[m], claimed[m])
  BY DEF MarketsInv, MarketsSound
<1>2. Debt(market[m], balance[m], claimed[m]) \in Nat
  BY <1>1, DebtNat
<1> QED BY <1>1, <1>2 DEF MarketsInv, MarketsSound

LEMMA CreateKeeps ==
    ASSUME MarketsInv, MarketOK, NEW m \in MarketIds, NEW id \in Ids, NEW closesAt \in CloseTimes,
           CreateMarket(m, id, closesAt)
    PROVE  MarketsInv'
<1> DEFINE r == [NoMarket EXCEPT !.created = TRUE, !.id = id, !.closesAt = closesAt]
           old == market[m]
<1>1. market' = [market EXCEPT ![m] = r] /\ UNCHANGED <<balance, claimed, marketHeld>> /\ ~old.created
  BY DEF CreateMarket
<1>2. /\ Sound(old, balance[m], claimed[m]) /\ Debt(old, balance[m], claimed[m]) \in Nat
      /\ marketHeld \in Int
      /\ balance = [balance EXCEPT ![m] = balance[m]] /\ claimed = [claimed EXCEPT ![m] = claimed[m]]
  BY MarketIsSound
<1>3. old.status = "Open" /\ claimed[m] = {}
  BY <1>1, <1>2 DEF MarketOK, Sound
<1>4. \A side \in BOOLEAN : SumFunction(balance[m][side]) = 0
  <2>1. /\ old.pool[TRUE] = 0 /\ old.pool[FALSE] = 0
        /\ \A side \in BOOLEAN : old.pool[side] = SumFunction(balance[m][side])
    BY <1>1, <1>2 DEF Sound
  <2> HIDE DEF old
  <2> QED BY <2>1
<1>5. r \in MarketRecord
  <2>1. closesAt \in Int
    BY MarketAssumption
  <2>2. NoMarket \in MarketRecord
    BY DEF NoMarket, MarketRecord
  <2> QED BY <2>1, <2>2 DEF MarketRecord
<1>6. /\ r.pool = [side \in BOOLEAN |-> 0] /\ r.fee = 0 /\ r.status = "Open" /\ r.created
  BY DEF NoMarket
<1> HIDE DEF r, old
<1>7. r.pool \in [BOOLEAN -> Nat] /\ \A side \in BOOLEAN : r.pool[side] = 0
  BY <1>6
<1>8. Sound(r, balance[m], claimed[m])
  BY <1>2, <1>3, <1>4, <1>5, <1>6, <1>7 DEF Sound
<1>9. Debt(r, balance[m], claimed[m]) = 0
  <2> DEFINE yes == r.pool[TRUE]
             no  == r.pool[FALSE]
  <2>1. yes = 0 /\ no = 0 /\ Both(r) = yes + no
    BY <1>7 DEF Both
  <2> HIDE DEF yes, no
  <2>2. Both(r) = 0
    BY <2>1
  <2> QED BY <1>6, <2>2 DEF Debt
<1>10. marketHeld - Debt(r, balance[m], claimed[m]) >= marketHeld - Debt(old, balance[m], claimed[m])
  BY <1>2, <1>9
<1> QED BY <1>1, <1>2, <1>8, <1>10, MarketChanges DEF old

LEMMA StakeKeeps ==
    ASSUME MarketsInv, NEW m \in MarketIds, NEW side \in BOOLEAN, NEW t \in Traders,
           NEW amount \in StakeAmounts,
           DepositCollateral(m, side, t, amount) \/ ClosePosition(m, side, t, amount)
    PROVE  MarketsInv'
<1>1. amount \in Nat
  BY MarketAssumption
<1> DEFINE old == market[m]
           own == balance[m]
           c   == claimed[m]
<1>2. /\ Sound(old, own, c) /\ Debt(old, own, c) \in Nat /\ marketHeld \in Int
      /\ claimed = [claimed EXCEPT ![m] = c]
  BY MarketIsSound
<1>3. /\ old.created /\ old.status = "Open" /\ UNCHANGED claimed
      /\ own[side][t] \in Nat
  BY <1>2 DEF DepositCollateral, ClosePosition, TradingOpen, Sound, Stakes
<1>4. PICK x \in {amount, -amount} :
         /\ market' = [market EXCEPT ![m].pool[side] = @ + x]
         /\ balance' = [balance EXCEPT ![m][side][t] = @ + x]
         /\ marketHeld' = marketHeld + x
         /\ own[side][t] + x \in Nat
  <2>1. CASE DepositCollateral(m, side, t, amount)
    <3>1. own[side][t] + amount \in Nat
      BY <1>1, <1>3
    <3> HIDE DEF own
    <3> QED BY <2>1, <3>1 DEF DepositCollateral
  <2>2. CASE ClosePosition(m, side, t, amount)
    <3>1. /\ balance' = [balance EXCEPT ![m][side][t] = @ - amount]
          /\ market' = [market EXCEPT ![m].pool[side] = @ - amount]
          /\ marketHeld' = marketHeld - amount
          /\ own[side][t] >= amount
      BY <2>2 DEF ClosePosition
    <3>2. own[side][t] + (-amount) \in Nat /\ own[side][t] - amount = own[side][t] + (-amount)
      BY <1>1, <1>3, <3>1
    <3>3. old.pool[side] \in Nat
      BY <1>2 DEF Sound
    <3>4. old.pool[side] - amount = old.pool[side] + (-amount)
          /\ marketHeld - amount = marketHeld + (-amount)
      <4> HIDE DEF old
      <4> QED BY <1>1, <1>2, <3>3
    <3> QED BY <3>1, <3>2, <3>4
  <2> QED BY <2>1, <2>2
<1>5. x \in Int
  BY <1>1
<1> DEFINE p == [old.pool EXCEPT ![side] = @ + x]
           d == [own EXCEPT ![side][t] = @ + x]
           r == [old EXCEPT !.pool = p]
<1>6. market' = [market EXCEPT ![m] = r] /\ balance' = [balance EXCEPT ![m] = d]
  BY <1>4
<1>7. Sound(r, d, c) /\ Both(r) = Both(old) + x
  <2>1. Staking(old, own, c, side, t, x, r, d)
    BY <1>2, <1>3, <1>4, <1>5 DEF Staking
  <2> HIDE DEF old, own, c, p, d, r
  <2> QED BY <2>1, StakeMoves
<1>8. r.status = "Open"
  <2>1. old \in MarketRecord
    BY <1>2 DEF Sound
  <2> QED BY <1>3, <2>1 DEF MarketRecord
<1>9. Debt(r, d, c) = Both(old) + x /\ Debt(old, own, c) = Both(old)
  BY <1>3, <1>7, <1>8 DEF Debt
<1>10. Both(old) \in Nat
  BY <1>2, SoundFacts
<1> HIDE DEF old, own, c, p, d, r
<1>11. (marketHeld + x) - Debt(r, d, c) >= marketHeld - Debt(old, own, c) /\ marketHeld + x \in Int
  BY <1>2, <1>5, <1>9, <1>10
<1>12. marketHeld' = marketHeld + x /\ claimed' = [claimed EXCEPT ![m] = c]
  BY <1>2, <1>3, <1>4
<1> QED BY <1>6, <1>7, <1>11, <1>12, MarketChanges DEF old, own, c

LEMMA SettleKeeps ==
    ASSUME MarketsInv, NEW m \in MarketIds, SettleMarket(m)
    PROVE  MarketsInv'
<1> DEFINE old == market[m]
           own == balance[m]
           c   == claimed[m]
<1>1. /\ Sound(old, own, c) /\ Debt(old, own, c) \in Nat /\ marketHeld \in Int
      /\ balance' = [balance EXCEPT ![m] = own] /\ claimed' = [claimed EXCEPT ![m] = c]
      /\ old.created /\ old.status = "Open"
  BY MarketIsSound DEF SettleMarket
<1>2. CASE Refund(m)
  <2> DEFINE r == [old EXCEPT !.status = "Refunding"]
  <2>1. market' = [market EXCEPT ![m] = r] /\ marketHeld' = marketHeld
    BY <1>2 DEF Refund
  <2> HIDE DEF old, own, c
  <2>2. Sound(r, own, c) /\ Debt(r, own, c) <= Debt(old, own, c)
    BY <1>1, RefundSound
  <2> HIDE DEF r
  <2>3. Debt(r, own, c) \in Nat
    BY <2>2, DebtNat
  <2>4. marketHeld - Debt(r, own, c) >= marketHeld - Debt(old, own, c)
    BY <1>1, <2>2, <2>3
  <2> QED BY <1>1, <2>1, <2>2, <2>4, MarketChanges DEF old, own, c
<1>3. CASE PayOut(m)
  <2> DEFINE o == view[market[m].id] = "True"
             fee == Fee(old.pool, o)
             r == [old EXCEPT !.status = "Settled", !.outcome = o, !.fee = fee]
  <2>1. market' = [market EXCEPT ![m] = r] /\ marketHeld' = marketHeld - fee
    BY <1>3 DEF PayOut
  <2>2. o \in BOOLEAN
    OBVIOUS
  <2> HIDE DEF old, own, c, o
  <2>3. Sound(r, own, c) /\ fee \in Nat /\ Debt(r, own, c) <= Debt(old, own, c) - fee
    BY <1>1, <2>2, PayOutSound
  <2> HIDE DEF r, fee
  <2>4. Debt(r, own, c) \in Nat
    BY <2>3, DebtNat
  <2>5. (marketHeld - fee) - Debt(r, own, c) >= marketHeld - Debt(old, own, c) /\ marketHeld - fee \in Int
    BY <1>1, <2>3, <2>4
  <2> QED BY <1>1, <2>1, <2>3, <2>5, MarketChanges DEF old, own, c
<1> QED BY <1>2, <1>3 DEF SettleMarket

LEMMA PayoutIs ==
    ASSUME NEW m \in MarketIds, NEW t \in Traders
    PROVE  /\ Payout(m, t) = PaidTo(market[m], balance[m], t)
           /\ OwnStake(m, t) = StakeOf(balance[m], t)
BY DEF Payout, PaidTo, OwnStake, StakeOf

LEMMA ClaimMarketKeeps ==
    ASSUME MarketsInv, NEW m \in MarketIds, NEW t \in Traders, Claim(m, t)
    PROVE  MarketsInv'
<1> DEFINE old == market[m]
           own == balance[m]
           c   == claimed[m]
           due == PaidTo(old, own, t)
<1>1. /\ Sound(old, own, c) /\ Debt(old, own, c) \in Nat /\ marketHeld \in Int
      /\ market' = [market EXCEPT ![m] = old] /\ balance' = [balance EXCEPT ![m] = own]
      /\ old.status # "Open" /\ t \notin c
      /\ claimed' = [claimed EXCEPT ![m] = c \cup {t}]
      /\ marketHeld' = marketHeld - due
  BY MarketIsSound, PayoutIs DEF Claim
<1>2. due \in Nat
  BY <1>1, PaidNat
<1>3. Sound(old, own, c \cup {t}) /\ Debt(old, own, c \cup {t}) = Debt(old, own, c) - due
  BY <1>1, ClaimPays
<1> HIDE DEF old, own, c, due
<1>4. (marketHeld - due) - Debt(old, own, c \cup {t}) >= marketHeld - Debt(old, own, c)
      /\ marketHeld - due \in Int
  BY <1>1, <1>2, <1>3
<1> QED BY <1>1, <1>3, <1>4, MarketChanges DEF old, own, c

LEMMA MarketsInvStep ==
    ASSUME MarketsInv, MarketOK, [AppNext]_appVars
    PROVE  MarketsInv'
<1>1. CASE UNCHANGED marketVars
  <2>1. UNCHANGED <<market, balance, claimed, marketHeld>>
    BY <1>1 DEF marketVars
  <2>2. MarketsSound'
    BY <2>1 DEF MarketsInv, MarketsSound
  <2>3. MarketSolvent'
    BY <2>1, SolventIs, SolventIsNext DEF MarketsInv
  <2> QED BY <2>2, <2>3 DEF MarketsInv
<1>2. CASE MarketStep
  <2>1. PICK m \in MarketIds :
           \/ \E id \in Ids, closesAt \in CloseTimes : CreateMarket(m, id, closesAt)
           \/ \E side \in BOOLEAN, t \in Traders, amount \in StakeAmounts :
                 DepositCollateral(m, side, t, amount) \/ ClosePosition(m, side, t, amount)
           \/ SettleMarket(m)
           \/ \E t \in Traders : Claim(m, t)
    BY <1>2 DEF MarketStep
  <2> QED BY <2>1, CreateKeeps, StakeKeeps, SettleKeeps, ClaimMarketKeeps
<1> QED BY <1>1, <1>2, MarketMoves

LEMMA MarketsInitially == AppInit => MarketsInv
<1> SUFFICES ASSUME AppInit PROVE MarketsInv
  OBVIOUS
<1>1. /\ market = [m \in MarketIds |-> NoMarket] /\ balance = [m \in MarketIds |-> NoStake]
      /\ claimed = [m \in MarketIds |-> {}] /\ marketHeld = 0
  BY DEF AppInit, MarketInit
<1>2. NoMarket \in MarketRecord /\ NoStake \in Stakes
  BY DEF NoMarket, NoStake, MarketRecord, Stakes
<1>3. \A side \in BOOLEAN : SumFunction(NoStake[side]) = 0
  <2>1. ASSUME NEW side \in BOOLEAN PROVE SumFunction(NoStake[side]) = 0
    <3>1. NoStake[side] \in [Traders -> Int] /\ \A t \in Traders : NoStake[side][t] = 0
      BY DEF NoStake
    <3> QED BY <3>1, TotalZero, MarketAssumption
  <2> QED BY <2>1
<1>4. /\ NoMarket.pool = [side \in BOOLEAN |-> 0] /\ NoMarket.status = "Open" /\ NoMarket.fee = 0
  BY DEF NoMarket
<1>5. Sound(NoMarket, NoStake, {})
  BY <1>2, <1>3, <1>4 DEF Sound
<1>6. MarketsSound
  BY <1>1, <1>2, <1>5 DEF MarketsSound
<1>7. Debt(NoMarket, NoStake, {}) = 0
  <2>1. Both(NoMarket) = 0
    BY <1>4 DEF Both
  <2> QED BY <1>4, <2>1 DEF Debt
<1> DEFINE f == Debts(market, balance, claimed)
<1>8. f \in [MarketIds -> Int] /\ \A m \in MarketIds : f[m] = 0
  BY <1>1, <1>7 DEF Debts
<1>9. SumFunction(f) = 0
  <2> HIDE DEF f
  <2> QED BY <1>8, TotalZero, MarketAssumption
<1>10. MarketSolvent
  BY <1>1, <1>9, SolventIs
<1> QED BY <1>6, <1>10 DEF MarketsInv

LEMMA StakesAreReturned == MarketsInv /\ MarketOK => StakesReturned
<1> SUFFICES ASSUME MarketsInv, NEW m \in MarketIds, NEW t \in Traders
             PROVE  /\ market[m].status = "Refunding" => Payout(m, t) = OwnStake(m, t) /\ market[m].fee = 0
                    /\ market[m].status = "Settled" =>
                          /\ Payout(m, t) >= balance[m][market[m].outcome][t]
                          /\ market[m].pool[market[m].outcome] = 0 => market[m].fee = 0
  BY DEF StakesReturned
<1>1. Sound(market[m], balance[m], claimed[m])
  BY MarketIsSound
<1>2. Payout(m, t) >= balance[m][market[m].outcome][t]
  BY <1>1, PaidNat, PayoutIs
<1>3. market[m].status = "Refunding" => Payout(m, t) = OwnStake(m, t)
  BY DEF Payout
<1> QED BY <1>1, <1>2, <1>3 DEF Sound
-----------------------------------------------------------------------------
(* The community markets: what one owes, and the one balance.               *)

PoolFields == {"creator", "closesAt", "resolveBy", "status", "outcome", "proposedAt", "objectedStake"}

(* What has been staked in a market, of its values: s are the stakes.       *)
OfPlayer(s, p) == SumFunction(s[p])
Backing(s, o)  == SumFunction([p \in Players |-> s[p][o]])
InAll(s)       == SumFunction([p \in Players |-> OfPlayer(s, p)])
Against(s, ob) == SumFunction([p \in ob |-> OfPlayer(s, p)])

(* What a player is paid, what a market pays in all, and what it owes: r is *)
(* its record and c are those who claimed.                                  *)
Prize(r, s, p) ==
    IF r.status = "Voided" THEN OfPlayer(s, p)
    ELSE IF r.status = "Resolved" /\ s[p][r.outcome] > 0
         THEN (s[p][r.outcome] * InAll(s)) \div Backing(s, r.outcome)
         ELSE 0
Prizes(r, s, c)   == [p \in Players |-> IF p \in c THEN 0 ELSE Prize(r, s, p)]
PoolDebt(r, s, c) == IF r.status \in Final THEN SumFunction(Prizes(r, s, c)) ELSE InAll(s)

PlayerStakes == [Players -> [Outcomes -> Nat]]

(* Nobody claims from a market that is not final and nobody objects before  *)
(* a result; what stands against one is what those who objected hold, and   *)
(* at most a third of the pool until the market is void.                    *)
Fits(r, s, ob, c) ==
    /\ r = [field \in PoolFields |-> r[field]]
    /\ r.status \in {"Open", "Proposed"} \cup Final
    /\ s \in PlayerStakes /\ ob \in SUBSET Players /\ c \in SUBSET Players
    /\ r.creator = "nobody" => r.status = "Open"
    /\ r.objectedStake = Against(s, ob)
    /\ r.status \notin Final => c = {}
    /\ r.status = "Open" => ob = {}
    /\ r.status \in {"Proposed", "Resolved"} =>
          /\ r.outcome \in Outcomes
          /\ r.objectedStake * 3 <= InAll(s)
    /\ r.status = "Resolved" => Backing(s, r.outcome) > 0

PoolsFit ==
    /\ DOMAIN pool = PoolIds /\ pool = [m \in PoolIds |-> pool[m]]
    /\ staked \in [PoolIds -> PlayerStakes]
    /\ objected \in [PoolIds -> SUBSET Players] /\ paid \in [PoolIds -> SUBSET Players]
    /\ poolHeld \in Int
    /\ \A m \in PoolIds : Fits(pool[m], staked[m], objected[m], paid[m])

PoolDebts(po, st, pd) == [m \in PoolIds |-> PoolDebt(po[m], st[m], pd[m])]

PoolsInv == PoolsFit /\ PoolsSolvent

LEMMA PoolPayoutIs ==
    ASSUME NEW m \in PoolIds, NEW p \in Players
    PROVE  PoolPayout(m, p) = IF p \in paid[m] THEN 0 ELSE Prize(pool[m], staked[m], p)
BY DEF PoolPayout, Prize, StakedBy, TotalPool, PoolOf, OfPlayer, InAll, Backing

LEMMA PoolPayoutIsNext ==
    ASSUME NEW m \in PoolIds, NEW p \in Players
    PROVE  PoolPayout(m, p)' = IF p \in paid'[m] THEN 0 ELSE Prize(pool'[m], staked'[m], p)
BY DEF PoolPayout, Prize, StakedBy, TotalPool, PoolOf, OfPlayer, InAll, Backing

LEMMA PoolsSolventIs ==
    /\ PoolsSolvent <=> poolHeld >= SumFunction(PoolDebts(pool, staked, paid))
    /\ \A m \in PoolIds : TotalPool(m) = InAll(staked[m])
    /\ \A m \in PoolIds : \A o : PoolOf(m, o) = Backing(staked[m], o)
    /\ \A m \in PoolIds : \A p : StakedBy(m, p) = OfPlayer(staked[m], p)
<1>1. ASSUME NEW m \in PoolIds PROVE PoolOwed(m) = PoolDebt(pool[m], staked[m], paid[m])
  <2>1. [p \in Players |-> PoolPayout(m, p)] = Prizes(pool[m], staked[m], paid[m])
    BY PoolPayoutIs DEF Prizes
  <2>2. TotalPool(m) = InAll(staked[m])
    BY DEF TotalPool, InAll, StakedBy, OfPlayer
  <2> QED BY <2>1, <2>2 DEF PoolOwed, PoolDebt
<1>2. [m \in PoolIds |-> PoolOwed(m)] = PoolDebts(pool, staked, paid)
  BY <1>1 DEF PoolDebts
<1> QED BY <1>2 DEF PoolsSolvent, TotalPool, InAll, StakedBy, OfPlayer, PoolOf, Backing

LEMMA PoolsSolventIsNext ==
    PoolsSolvent' <=> poolHeld' >= SumFunction(PoolDebts(pool', staked', paid'))
<1>1. ASSUME NEW m \in PoolIds PROVE PoolOwed(m)' = PoolDebt(pool'[m], staked'[m], paid'[m])
  <2>1. [p \in Players |-> PoolPayout(m, p)'] = Prizes(pool'[m], staked'[m], paid'[m])
    BY PoolPayoutIsNext DEF Prizes
  <2>2. TotalPool(m)' = InAll(staked'[m])
    BY DEF TotalPool, InAll, StakedBy, OfPlayer
  <2> QED BY <2>1, <2>2 DEF PoolOwed, PoolDebt
<1>2. [m \in PoolIds |-> PoolOwed(m)'] = PoolDebts(pool', staked', paid')
  BY <1>1 DEF PoolDebts
<1> QED BY <1>2 DEF PoolsSolvent

-----------------------------------------------------------------------------
LEMMA HeldNat ==
    ASSUME NEW s \in PlayerStakes
    PROVE  /\ \A p \in Players : OfPlayer(s, p) \in Nat
           /\ \A o \in Outcomes : Backing(s, o) \in Nat
           /\ InAll(s) \in Nat
<1>1. \A p \in Players : s[p] \in [Outcomes -> Nat]
  BY DEF PlayerStakes
<1>2. \A p \in Players : OfPlayer(s, p) \in Nat
  BY <1>1, TotalNat, CommunityAssumption DEF OfPlayer
<1>3. ASSUME NEW o \in Outcomes PROVE Backing(s, o) \in Nat
  <2>1. [p \in Players |-> s[p][o]] \in [Players -> Nat]
    BY <1>1
  <2> QED BY <2>1, TotalNat, CommunityAssumption DEF Backing
<1>4. InAll(s) \in Nat
  <2>1. [p \in Players |-> OfPlayer(s, p)] \in [Players -> Nat]
    BY <1>2
  <2> QED BY <2>1, TotalNat, CommunityAssumption DEF InAll
<1> QED BY <1>2, <1>3, <1>4

LEMMA AgainstNone == ASSUME NEW s PROVE Against(s, {}) = 0
<1> DEFINE f == [p \in {} |-> OfPlayer(s, p)]
<1>1. f = [p \in {} |-> f[p]]
  OBVIOUS
<1> HIDE DEF f
<1>2. SumFunction(f) = 0
  BY <1>1, SumsOverDomain, SumOfNone
<1> QED BY <1>2 DEF f, Against

LEMMA AgainstOneMore ==
    ASSUME NEW s \in PlayerStakes, NEW ob \in SUBSET Players, NEW p \in Players, p \notin ob
    PROVE  Against(s, ob \cup {p}) = Against(s, ob) + OfPlayer(s, p) /\ Against(s, ob) \in Nat
<1> DEFINE f == [x \in ob |-> OfPlayer(s, x)]
           g == [x \in ob \cup {p} |-> OfPlayer(s, x)]
           U == ob \cup {p}
<1>1. IsFiniteSet(ob) /\ IsFiniteSet(U)
  <2>1. IsFiniteSet(ob)
    BY CommunityAssumption, FS_Subset
  <2> QED BY <2>1, FS_AddElement
<1>2. /\ f \in [ob -> Nat] /\ g \in [U -> Nat] /\ g[p] = OfPlayer(s, p)
      /\ \A x \in ob : g[x] = f[x]
  BY HeldNat
<1>3. U \ {p} = ob
  OBVIOUS
<1> HIDE DEF f, g, U
<1>4. SumFunction(f) = SumFunctionOnSet(f, ob) /\ SumFunction(g) = SumFunctionOnSet(g, U)
  <2>1. f = [x \in ob |-> f[x]] /\ g = [x \in U |-> g[x]]
    BY <1>2
  <2> QED BY <2>1, SumsOverDomain
<1>5. p \in U
  BY DEF U
<1>6. SumFunctionOnSet(g, U) = g[p] + SumFunctionOnSet(g, ob)
  <2>1. \A x \in U : g[x] \in Int
    BY <1>2
  <2> QED BY <1>1, <1>3, <1>5, <2>1, SumOfOne
<1>7. SumFunctionOnSet(g, ob) = SumFunctionOnSet(f, ob)
  <2>1. \A x \in ob : f[x] \in Int /\ g[x] = f[x]
    BY <1>2
  <2> QED BY <1>1, <2>1, SumSame
<1>8. SumFunction(f) \in Nat
  BY <1>1, <1>2, TotalNat
<1>9. g[p] \in Nat
  BY <1>2, <1>5
<1>10. SumFunction(g) = SumFunction(f) + g[p]
  BY <1>4, <1>6, <1>7, <1>8, <1>9
<1>11. SumFunction(f) = Against(s, ob) /\ SumFunction(g) = Against(s, ob \cup {p})
  BY DEF f, g, Against, U
<1> QED BY <1>2, <1>8, <1>10, <1>11

-----------------------------------------------------------------------------
LEMMA PrizeNat ==
    ASSUME NEW r, NEW s, NEW ob, NEW c, Fits(r, s, ob, c), NEW p \in Players
    PROVE  Prize(r, s, p) \in Nat
<1>1. s \in PlayerStakes /\ OfPlayer(s, p) \in Nat /\ InAll(s) \in Nat
  BY HeldNat DEF Fits
<1>2. CASE r.status = "Resolved"
  <2> DEFINE own == s[p][r.outcome]
             all == InAll(s)
             W   == Backing(s, r.outcome)
  <2>1. own \in Nat /\ all \in Nat /\ W \in Nat \ {0}
    <3>1. r.outcome \in Outcomes /\ W > 0
      BY <1>2 DEF Fits
    <3>2. W \in Nat
      BY <1>1, <3>1, HeldNat
    <3>3. own \in Nat
      BY <1>1, <3>1 DEF PlayerStakes
    <3> QED BY <1>1, <3>1, <3>2, <3>3
  <2>2. Prize(r, s, p) = IF own > 0 THEN (own * all) \div W ELSE 0
    BY <1>2 DEF Prize
  <2> HIDE DEF own, all, W
  <2>3. own * all \in Nat
    BY <2>1, TimesNat
  <2>4. (own * all) \div W \in Nat
    BY <2>1, <2>3, DivFacts
  <2> QED BY <2>2, <2>4
<1>3. CASE r.status # "Resolved"
  BY <1>1, <1>3 DEF Prize
<1> QED BY <1>2, <1>3

LEMMA PoolDebtNat ==
    ASSUME NEW r, NEW s, NEW ob, NEW c, Fits(r, s, ob, c)
    PROVE  PoolDebt(r, s, c) \in Nat /\ Prizes(r, s, c) \in [Players -> Nat]
<1>1. Prizes(r, s, c) \in [Players -> Nat]
  BY PrizeNat DEF Prizes
<1>2. SumFunction(Prizes(r, s, c)) \in Nat
  BY <1>1, TotalNat, CommunityAssumption
<1>3. InAll(s) \in Nat
  BY HeldNat DEF Fits
<1> QED BY <1>1, <1>2, <1>3 DEF PoolDebt

(* What a market that became final pays in all is at most its pool.         *)
LEMMA PrizesFit ==
    ASSUME NEW r, NEW s, NEW ob, Fits(r, s, ob, {})
    PROVE  PoolDebt(r, s, {}) <= InAll(s)
<1> DEFINE f == Prizes(r, s, {})
<1>1. s \in PlayerStakes /\ InAll(s) \in Nat /\ IsFiniteSet(Players)
  BY HeldNat, CommunityAssumption DEF Fits
<1>2. CASE r.status \notin Final
  BY <1>1, <1>2 DEF PoolDebt
<1>3. CASE r.status = "Voided"
  <2>1. f = [p \in Players |-> OfPlayer(s, p)]
    BY <1>3 DEF Prizes, Prize
  <2> QED BY <1>1, <1>3, <2>1 DEF PoolDebt, InAll, Final
<1>4. CASE r.status = "Resolved"
  <2> DEFINE own == [p \in Players |-> s[p][r.outcome]]
             all == InAll(s)
  <2>1. r.outcome \in Outcomes /\ SumFunction(own) > 0
    BY <1>4 DEF Fits, Backing
  <2>2. own \in [Players -> Nat]
    BY <1>1, <2>1 DEF PlayerStakes
  <2>3. f \in [Players -> Int]
    <3>1. f \in [Players -> Nat]
      BY PoolDebtNat
    <3> HIDE DEF f
    <3> QED BY <3>1
  <2>4. \A p \in Players : f[p] = IF own[p] > 0 THEN (own[p] * all) \div SumFunction(own) ELSE 0
    BY <1>4 DEF Prizes, Prize, Backing
  <2>5. PoolDebt(r, s, {}) = SumFunction(f)
    BY <1>4 DEF PoolDebt, Final
  <2>6. SumFunction(own) \in Nat \ {0}
    <3> HIDE DEF own
    <3>1. SumFunction(own) \in Nat
      BY <1>1, <2>2, TotalNat
    <3> QED BY <2>1, <3>1
  <2> HIDE DEF own, all, f
  <2>7. ASSUME NEW p \in Players PROVE f[p] = (own[p] * all) \div SumFunction(own)
    <3>1. own[p] \in Nat
      BY <2>2
    <3>2. CASE own[p] = 0
      <4> DEFINE W == SumFunction(own)
      <4>1. own[p] * all = 0
        BY <1>1, <3>2 DEF all
      <4>2. W \in Nat \ {0}
        BY <2>6
      <4>3. f[p] = 0
        BY <2>4, <3>2
      <4> HIDE DEF W
      <4>4. 0 \div W = 0
        BY <4>2
      <4> QED BY <4>1, <4>3, <4>4 DEF W
    <3> QED BY <2>4, <3>1, <3>2
  <2>8. all \in Nat
    BY <1>1 DEF all
  <2>9. SumFunction(f) <= all
    BY <1>1, <2>1, <2>2, <2>3, <2>7, <2>8, TotalFloors
  <2> QED BY <2>5, <2>9 DEF all
<1> QED BY <1>2, <1>3, <1>4 DEF Final

LEMMA PrizePaid ==
    ASSUME NEW r, NEW s, NEW ob, NEW c, Fits(r, s, ob, c), r.status \in Final,
           NEW p \in Players, p \notin c
    PROVE  /\ Fits(r, s, ob, c \cup {p})
           /\ PoolDebt(r, s, c \cup {p}) = PoolDebt(r, s, c) - Prize(r, s, p)
<1>1. Fits(r, s, ob, c \cup {p})
  BY DEF Fits
<1> DEFINE f == Prizes(r, s, c)
           g == Prizes(r, s, c \cup {p})
<1>2. f \in [Players -> Nat] /\ g \in [Players -> Nat]
  BY <1>1, PoolDebtNat
<1>3. f[p] = Prize(r, s, p) /\ g[p] = 0 /\ \A x \in Players \ {p} : g[x] = f[x]
  BY DEF Prizes
<1>4. PoolDebt(r, s, c) = SumFunction(f) /\ PoolDebt(r, s, c \cup {p}) = SumFunction(g)
  BY DEF PoolDebt
<1> HIDE DEF f, g
<1>5. f \in [Players -> Int] /\ g \in [Players -> Int] /\ IsFiniteSet(Players)
  BY <1>2, CommunityAssumption
<1>6. SumFunction(g) = SumFunction(f) + (g[p] - f[p])
  BY <1>3, <1>5, TotalChange
<1>7. SumFunction(f) \in Int /\ f[p] \in Int
  BY <1>5, TotalInt
<1>8. SumFunction(g) = SumFunction(f) - f[p]
  BY <1>3, <1>6, <1>7
<1> QED BY <1>1, <1>3, <1>4, <1>8
-----------------------------------------------------------------------------
LEMMA PoolDebtsInt ==
    ASSUME NEW po, NEW st, NEW obj, NEW pd,
           \A m \in PoolIds : Fits(po[m], st[m], obj[m], pd[m])
    PROVE  /\ PoolDebts(po, st, pd) \in [PoolIds -> Int]
           /\ SumFunction(PoolDebts(po, st, pd)) \in Int
<1>1. \A m \in PoolIds : PoolDebt(po[m], st[m], pd[m]) \in Nat
  BY PoolDebtNat
<1>2. PoolDebts(po, st, pd) \in [PoolIds -> Int]
  BY <1>1 DEF PoolDebts
<1> QED BY <1>2, TotalInt, CommunityAssumption

(* One market changes, by no more collateral than debt.                     *)
PoolChanges(m, r, s, ob, c, h) ==
    /\ Fits(r, s, ob, c) /\ h \in Int
    /\ pool' = [pool EXCEPT ![m] = r] /\ staked' = [staked EXCEPT ![m] = s]
    /\ objected' = [objected EXCEPT ![m] = ob] /\ paid' = [paid EXCEPT ![m] = c]
    /\ poolHeld' = h
    /\ h - PoolDebt(r, s, c) >= poolHeld - PoolDebt(pool[m], staked[m], paid[m])

LEMMA PoolChangeKeeps ==
    ASSUME PoolsInv, NEW m \in PoolIds, NEW r, NEW s, NEW ob, NEW c, NEW h,
           PoolChanges(m, r, s, ob, c, h)
    PROVE  PoolsInv'
<1>1. /\ Fits(r, s, ob, c) /\ h \in Int
      /\ s \in PlayerStakes /\ ob \in SUBSET Players /\ c \in SUBSET Players
  BY DEF PoolChanges, Fits
<1>2. /\ pool = [n \in PoolIds |-> pool[n]] /\ staked \in [PoolIds -> PlayerStakes]
      /\ objected \in [PoolIds -> SUBSET Players] /\ paid \in [PoolIds -> SUBSET Players]
      /\ poolHeld \in Int
      /\ \A n \in PoolIds : Fits(pool[n], staked[n], objected[n], paid[n])
  BY DEF PoolsInv, PoolsFit
<1>3. /\ pool' = [n \in PoolIds |-> pool'[n]] /\ DOMAIN pool' = PoolIds
      /\ staked' \in [PoolIds -> PlayerStakes]
      /\ objected' \in [PoolIds -> SUBSET Players] /\ paid' \in [PoolIds -> SUBSET Players]
      /\ poolHeld' \in Int /\ poolHeld' = h
      /\ pool'[m] = r /\ staked'[m] = s /\ objected'[m] = ob /\ paid'[m] = c
      /\ \A n \in PoolIds \ {m} : /\ pool'[n] = pool[n] /\ staked'[n] = staked[n]
                                  /\ objected'[n] = objected[n] /\ paid'[n] = paid[n]
  BY <1>1, <1>2 DEF PoolChanges
<1>4. \A n \in PoolIds : Fits(pool'[n], staked'[n], objected'[n], paid'[n])
  BY <1>1, <1>2, <1>3
<1> DEFINE f == PoolDebts(pool, staked, paid)
           g == PoolDebts(pool', staked', paid')
           before == PoolDebt(pool[m], staked[m], paid[m])
           after  == PoolDebt(r, s, c)
<1>5. f \in [PoolIds -> Int] /\ SumFunction(f) \in Int
  BY <1>2, PoolDebtsInt
<1>6. g \in [PoolIds -> Int] /\ SumFunction(g) \in Int
  BY <1>4, PoolDebtsInt
<1>7. f[m] = before /\ g[m] = after /\ \A n \in PoolIds \ {m} : g[n] = f[n]
  BY <1>3 DEF PoolDebts
<1>8. poolHeld >= SumFunction(f)
  BY PoolsSolventIs DEF PoolsInv
<1>9. h - after >= poolHeld - before
  BY DEF PoolChanges
<1> HIDE DEF f, g, before, after
<1>10. SumFunction(g) = SumFunction(f) + (g[m] - f[m])
  BY <1>5, <1>6, <1>7, TotalChange, CommunityAssumption
<1>11. f[m] \in Int /\ g[m] \in Int
  BY <1>5, <1>6
<1>12. h >= SumFunction(g)
  BY <1>1, <1>2, <1>5, <1>6, <1>7, <1>8, <1>9, <1>10, <1>11
<1>13. PoolsSolvent'
  BY <1>3, <1>12, PoolsSolventIsNext DEF g
<1>14. PoolsFit'
  BY <1>3, <1>4 DEF PoolsFit
<1> QED BY <1>13, <1>14 DEF PoolsInv

LEMMA PoolFits ==
    ASSUME PoolsInv, NEW m \in PoolIds
    PROVE  /\ Fits(pool[m], staked[m], objected[m], paid[m])
           /\ PoolDebt(pool[m], staked[m], paid[m]) \in Nat
           /\ poolHeld \in Int /\ InAll(staked[m]) \in Nat
           /\ pool = [pool EXCEPT ![m] = pool[m]] /\ staked = [staked EXCEPT ![m] = staked[m]]
           /\ objected = [objected EXCEPT ![m] = objected[m]] /\ paid = [paid EXCEPT ![m] = paid[m]]
<1>1. Fits(pool[m], staked[m], objected[m], paid[m])
  BY DEF PoolsInv, PoolsFit
<1>2. PoolDebt(pool[m], staked[m], paid[m]) \in Nat /\ InAll(staked[m]) \in Nat
  BY <1>1, PoolDebtNat, HeldNat DEF Fits
<1> QED BY <1>1, <1>2 DEF PoolsInv, PoolsFit

(* A market that is not final goes on or ends: it owes its whole pool, or   *)
(* what this leaves of it.                                                  *)
LEMMA PoolTurns ==
    ASSUME PoolsInv, NEW m \in PoolIds, NEW r, NEW ob,
           Fits(r, staked[m], ob, {}), pool[m].status \notin Final,
           pool' = [pool EXCEPT ![m] = r], objected' = [objected EXCEPT ![m] = ob],
           UNCHANGED <<staked, paid, poolHeld>>
    PROVE  PoolsInv'
<1>1. /\ Fits(pool[m], staked[m], objected[m], paid[m]) /\ poolHeld \in Int
      /\ staked = [staked EXCEPT ![m] = staked[m]] /\ paid = [paid EXCEPT ![m] = paid[m]]
      /\ InAll(staked[m]) \in Nat
  BY PoolFits
<1>2. paid[m] = {}
  BY <1>1 DEF Fits
<1>3. PoolDebt(pool[m], staked[m], paid[m]) = InAll(staked[m])
  BY DEF PoolDebt
<1>4. PoolDebt(r, staked[m], {}) \in Nat /\ PoolDebt(r, staked[m], {}) <= InAll(staked[m])
  BY PoolDebtNat, PrizesFit
<1> DEFINE before == PoolDebt(pool[m], staked[m], paid[m])
           after  == PoolDebt(r, staked[m], {})
           all    == InAll(staked[m])
<1>5. before = all /\ after \in Nat /\ after <= all /\ all \in Nat
  BY <1>1, <1>3, <1>4
<1> HIDE DEF before, after, all
<1>6. poolHeld - after >= poolHeld - before
  BY <1>1, <1>5
<1>7. PoolChanges(m, r, staked[m], ob, {}, poolHeld)
  BY <1>1, <1>2, <1>6 DEF PoolChanges, before, after
<1> QED BY <1>7, PoolChangeKeeps

-----------------------------------------------------------------------------
LEMMA CreatePoolKeeps ==
    ASSUME PoolsInv, NEW m \in PoolIds, NEW p \in Players, NEW times \in Times,
           CreatePool(m, p, times[1], times[2])
    PROVE  PoolsInv'
<1> DEFINE r == [NoPool EXCEPT !.creator = p, !.closesAt = times[1], !.resolveBy = times[2]]
<1>1. /\ pool[m].creator = "nobody" /\ pool' = [pool EXCEPT ![m] = r]
      /\ UNCHANGED <<staked, objected, paid, poolHeld>>
  BY DEF CreatePool, Created
<1>2. /\ Fits(pool[m], staked[m], objected[m], paid[m])
      /\ objected = [objected EXCEPT ![m] = objected[m]]
  BY PoolFits
<1>3. pool[m].status = "Open" /\ objected[m] = {} /\ paid[m] = {}
  BY <1>1, <1>2 DEF Fits, Final
<1>4. /\ DOMAIN r = PoolFields /\ r = [field \in PoolFields |-> r[field]]
      /\ r.status = "Open" /\ r.objectedStake = 0
  BY DEF NoPool, PoolFields
<1> HIDE DEF r
<1>5. Fits(r, staked[m], objected[m], {})
  BY <1>2, <1>3, <1>4, AgainstNone DEF Fits, Final
<1>6. objected' = [objected EXCEPT ![m] = objected[m]]
  BY <1>1, <1>2
<1> QED BY <1>1, <1>3, <1>5, <1>6, PoolTurns DEF Final

(* What one player stakes more is more in the pool.                         *)
LEMMA StakedMore ==
    ASSUME NEW s \in PlayerStakes, NEW p \in Players, NEW o \in Outcomes, NEW x \in Nat,
           NEW d, d = [s EXCEPT ![p][o] = @ + x]
    PROVE  d \in PlayerStakes /\ InAll(d) = InAll(s) + x
<1>1. s \in [Players -> [Outcomes -> Nat]] /\ s[p] \in [Outcomes -> Nat] /\ s[p][o] \in Nat
  BY DEF PlayerStakes
<1> DEFINE f == s[p]
           g == [f EXCEPT ![o] = @ + x]
<1>2. d = [s EXCEPT ![p] = g]
  OBVIOUS
<1>3. g \in [Outcomes -> Nat] /\ f \in [Outcomes -> Nat] /\ g[o] = f[o] + x
      /\ \A y \in Outcomes \ {o} : g[y] = f[y]
  BY <1>1
<1> HIDE DEF f, g
<1>4. d \in PlayerStakes /\ d[p] = g /\ \A q \in Players \ {p} : d[q] = s[q]
  BY <1>1, <1>2, <1>3 DEF PlayerStakes
<1>5. SumFunction(g) = SumFunction(f) + x
  <2>1. f \in [Outcomes -> Int] /\ g \in [Outcomes -> Int] /\ IsFiniteSet(Outcomes)
    BY <1>3, CommunityAssumption
  <2>2. SumFunction(g) = SumFunction(f) + (g[o] - f[o])
    BY <1>3, <2>1, TotalChange
  <2>3. SumFunction(f) \in Int /\ f[o] \in Int
    BY <2>1, TotalInt
  <2> QED BY <1>3, <2>2, <2>3
<1> DEFINE F == [q \in Players |-> OfPlayer(s, q)]
           G == [q \in Players |-> OfPlayer(d, q)]
<1>6. F \in [Players -> Int] /\ G \in [Players -> Int] /\ IsFiniteSet(Players)
  <2>1. F \in [Players -> Nat] /\ G \in [Players -> Nat]
    BY <1>4, HeldNat
  <2> HIDE DEF F, G
  <2> QED BY <2>1, CommunityAssumption
<1>7. F[p] = SumFunction(f) /\ G[p] = SumFunction(g) /\ \A q \in Players \ {p} : G[q] = F[q]
  BY <1>4 DEF OfPlayer, f
<1>8. InAll(s) = SumFunction(F) /\ InAll(d) = SumFunction(G)
  BY DEF InAll
<1> HIDE DEF F, G
<1>9. SumFunction(G) = SumFunction(F) + (G[p] - F[p])
  BY <1>6, <1>7, TotalChange
<1>10. SumFunction(F) \in Int /\ F[p] \in Int /\ G[p] \in Int
  BY <1>6, TotalInt
<1>11. G[p] = F[p] + x
  BY <1>5, <1>7
<1>12. SumFunction(G) = SumFunction(F) + x
  BY <1>9, <1>10, <1>11
<1> QED BY <1>4, <1>8, <1>12

LEMMA StakeInPoolKeeps ==
    ASSUME PoolsInv, NEW m \in PoolIds, NEW p \in Players, NEW o \in Outcomes,
           NEW amount \in PlayAmounts, Stake(m, p, o, amount)
    PROVE  PoolsInv'
<1> DEFINE r == pool[m]
           s == staked[m]
           d == [s EXCEPT ![p][o] = @ + amount]
<1>1. /\ staked' = [staked EXCEPT ![m] = d] /\ poolHeld' = poolHeld + amount
      /\ UNCHANGED <<pool, objected, paid>> /\ r.status = "Open"
  BY DEF Stake, StakingOpen
<1>2. amount \in Nat
  BY CommunityAssumption
<1>3. /\ Fits(r, s, objected[m], paid[m]) /\ poolHeld \in Int
      /\ pool = [pool EXCEPT ![m] = r] /\ objected = [objected EXCEPT ![m] = objected[m]]
      /\ paid = [paid EXCEPT ![m] = paid[m]] /\ InAll(s) \in Nat
  BY PoolFits
<1>4. s \in PlayerStakes /\ objected[m] = {} /\ paid[m] = {}
  BY <1>1, <1>3 DEF Fits, Final
<1>5. d \in PlayerStakes /\ InAll(d) = InAll(s) + amount
  <2> HIDE DEF s
  <2> QED BY <1>2, <1>4, StakedMore
<1> HIDE DEF d, r, s
<1>6. r.objectedStake = 0
  BY <1>3, <1>4, AgainstNone DEF Fits
<1>7. Fits(r, d, objected[m], paid[m])
  BY <1>1, <1>3, <1>4, <1>5, <1>6, AgainstNone DEF Fits, Final
<1>8. PoolDebt(r, d, paid[m]) = InAll(s) + amount /\ PoolDebt(r, s, paid[m]) = InAll(s)
  BY <1>1, <1>5 DEF PoolDebt, Final
<1>9. (poolHeld + amount) - PoolDebt(r, d, paid[m]) >= poolHeld - PoolDebt(r, s, paid[m])
      /\ poolHeld + amount \in Int
  BY <1>2, <1>3, <1>8
<1>10. PoolChanges(m, r, d, objected[m], paid[m], poolHeld + amount)
  BY <1>1, <1>3, <1>7, <1>9 DEF PoolChanges, r, s
<1> QED BY <1>10, PoolChangeKeeps

LEMMA ProposeKeeps ==
    ASSUME PoolsInv, NEW m \in PoolIds, NEW o \in Outcomes, ProposeOutcome(m, o)
    PROVE  PoolsInv'
<1> DEFINE old == pool[m]
           r == [old EXCEPT !.status = "Proposed", !.outcome = o, !.proposedAt = now]
<1>1. /\ pool' = [pool EXCEPT ![m] = r] /\ UNCHANGED <<staked, objected, paid, poolHeld>>
      /\ old.creator # "nobody" /\ old.status = "Open"
  BY DEF ProposeOutcome, Created
<1>2. /\ Fits(old, staked[m], objected[m], paid[m])
      /\ objected = [objected EXCEPT ![m] = objected[m]] /\ InAll(staked[m]) \in Nat
  BY PoolFits
<1> HIDE DEF old
<1>3. /\ objected[m] = {} /\ paid[m] = {} /\ old.objectedStake = 0
  BY <1>1, <1>2, AgainstNone DEF Fits, Final
<1>4. /\ r = [field \in PoolFields |-> r[field]] /\ r.status = "Proposed" /\ r.outcome = o
      /\ r.objectedStake = old.objectedStake /\ r.creator = old.creator
  BY <1>2 DEF Fits, PoolFields
<1> HIDE DEF r
<1>5. Fits(r, staked[m], objected[m], {})
  BY <1>1, <1>2, <1>3, <1>4 DEF Fits, Final
<1>6. objected' = [objected EXCEPT ![m] = objected[m]]
  BY <1>1, <1>2
<1> QED BY <1>1, <1>5, <1>6, PoolTurns DEF Final, old

LEMMA ObjectKeeps ==
    ASSUME PoolsInv, NEW m \in PoolIds, NEW p \in Players, ObjectToResult(m, p)
    PROVE  PoolsInv'
<1> DEFINE old == pool[m]
           s   == staked[m]
           ob  == objected[m] \cup {p}
           against == old.objectedStake + OfPlayer(s, p)
           status  == IF against * 3 > InAll(s) THEN "Voided" ELSE "Proposed"
           r == [old EXCEPT !.objectedStake = against, !.status = status]
<1>1. /\ pool' = [pool EXCEPT ![m] = r] /\ objected' = [objected EXCEPT ![m] = ob]
      /\ UNCHANGED <<staked, paid, poolHeld>>
      /\ old.status = "Proposed" /\ p \notin objected[m]
  BY PoolsSolventIs DEF ObjectToResult
<1>2. Fits(old, s, objected[m], paid[m]) /\ InAll(s) \in Nat
  BY PoolFits
<1>3. s \in PlayerStakes /\ objected[m] \in SUBSET Players /\ paid[m] = {}
      /\ old.objectedStake = Against(s, objected[m]) /\ old.outcome \in Outcomes
      /\ old.creator # "nobody"
  BY <1>1, <1>2 DEF Fits, Final
<1>4. /\ against = Against(s, ob) /\ against \in Nat
  <2>1. OfPlayer(s, p) \in Nat
    BY <1>3, HeldNat
  <2>2. Against(s, ob) = Against(s, objected[m]) + OfPlayer(s, p) /\ Against(s, objected[m]) \in Nat
    BY <1>1, <1>3, AgainstOneMore
  <2>3. Against(s, objected[m]) + OfPlayer(s, p) \in Nat
    BY <2>1, <2>2
  <2> QED BY <1>3, <2>2, <2>3
<1>5. status \in {"Proposed", "Voided"} /\ (status = "Proposed" => against * 3 <= InAll(s))
  <2> HIDE DEF against, old, s
  <2> DEFINE all == InAll(s)
  <2>1. all \in Nat
    BY <1>2
  <2> HIDE DEF all
  <2>2. ~(against * 3 > all) => against * 3 <= all
    BY <1>4, <2>1
  <2> QED BY <2>2 DEF all
<1> HIDE DEF old, s, against, status
<1>6. /\ r = [field \in PoolFields |-> r[field]] /\ r.status = status /\ r.objectedStake = against
      /\ r.outcome = old.outcome /\ r.creator = old.creator
  BY <1>2 DEF Fits, PoolFields
<1> HIDE DEF r
<1>7. Fits(r, s, ob, {})
  BY <1>2, <1>3, <1>4, <1>5, <1>6 DEF Fits, Final
<1> HIDE DEF ob
<1> QED BY <1>1, <1>7, PoolTurns DEF Final, old, s

LEMMA EndKeeps ==
    ASSUME PoolsInv, NEW m \in PoolIds, FinalizePool(m) \/ VoidUnresolved(m) \/ Cancel(m)
    PROVE  PoolsInv'
<1> DEFINE old == pool[m]
           s   == staked[m]
<1>1. PICK status \in Final :
         /\ pool' = [pool EXCEPT ![m] = [old EXCEPT !.status = status]]
         /\ UNCHANGED <<staked, objected, paid, poolHeld>>
         /\ old.status \in {"Open", "Proposed"}
         /\ status = "Resolved" => old.status = "Proposed" /\ Backing(s, old.outcome) # 0
         /\ old.creator = "nobody" => old.status = "Proposed"
  <2>1. CASE FinalizePool(m)
    <3> DEFINE status == IF Backing(s, old.outcome) = 0 THEN "Voided" ELSE "Resolved"
    <3>1. PoolOf(m, old.outcome) = Backing(s, old.outcome)
      BY PoolsSolventIs
    <3>2. pool' = [pool EXCEPT ![m] = [old EXCEPT !.status = status]]
      BY <2>1, <3>1 DEF FinalizePool
    <3>3. status \in Final /\ (status = "Resolved" => Backing(s, old.outcome) # 0)
      BY DEF Final
    <3>4. old.status = "Proposed" /\ UNCHANGED <<staked, objected, paid, poolHeld>>
      BY <2>1 DEF FinalizePool
    <3> HIDE DEF status
    <3> QED BY <3>2, <3>3, <3>4
  <2>2. CASE VoidUnresolved(m) \/ Cancel(m)
    BY <2>2 DEF VoidUnresolved, Cancel, Created, Final
  <2> QED BY <2>1, <2>2
<1> DEFINE r == [old EXCEPT !.status = status]
<1>2. /\ Fits(old, s, objected[m], paid[m]) /\ InAll(s) \in Nat
      /\ objected = [objected EXCEPT ![m] = objected[m]]
  BY PoolFits
<1> HIDE DEF old, s
<1>3. old.creator # "nobody" /\ paid[m] = {} /\ s \in PlayerStakes
  BY <1>1, <1>2 DEF Fits, Final
<1>4. /\ r = [field \in PoolFields |-> r[field]] /\ r.status = status
      /\ r.objectedStake = old.objectedStake
      /\ r.outcome = old.outcome /\ r.creator = old.creator
  BY <1>2 DEF Fits, PoolFields
<1>5. status = "Resolved" => Backing(s, old.outcome) > 0
  <2>1. ASSUME status = "Resolved" PROVE Backing(s, old.outcome) > 0
    <3>1. old.outcome \in Outcomes
      BY <1>1, <1>2, <2>1 DEF Fits
    <3>2. Backing(s, old.outcome) \in Nat
      BY <1>3, <3>1, HeldNat
    <3> QED BY <1>1, <2>1, <3>2
  <2> QED BY <2>1
<1> HIDE DEF r
<1>6. Fits(r, s, objected[m], {})
  BY <1>1, <1>2, <1>3, <1>4, <1>5 DEF Fits, Final
<1>7. pool' = [pool EXCEPT ![m] = r] /\ objected' = [objected EXCEPT ![m] = objected[m]]
  BY <1>1, <1>2 DEF r
<1>8. old.status \notin Final
  BY <1>1 DEF Final
<1> QED BY <1>1, <1>6, <1>7, <1>8, PoolTurns DEF old, s

LEMMA ClaimPoolKeeps ==
    ASSUME PoolsInv, NEW m \in PoolIds, NEW p \in Players, ClaimPool(m, p)
    PROVE  PoolsInv'
<1> DEFINE r == pool[m]
           s == staked[m]
           c == paid[m]
           due == Prize(r, s, p)
<1>1. /\ p \notin c /\ due > 0 /\ UNCHANGED <<pool, staked, objected>>
      /\ paid' = [paid EXCEPT ![m] = c \cup {p}] /\ poolHeld' = poolHeld - due
  <2>1. PoolPayout(m, p) = IF p \in c THEN 0 ELSE due
    BY PoolPayoutIs
  <2>2. PoolPayout(m, p) > 0
    BY DEF ClaimPool
  <2>3. ~(0 > 0)
    OBVIOUS
  <2>4. p \notin c /\ PoolPayout(m, p) = due
    BY <2>1, <2>2, <2>3
  <2> QED BY <2>2, <2>4 DEF ClaimPool
<1>2. /\ Fits(r, s, objected[m], c) /\ PoolDebt(r, s, c) \in Nat /\ poolHeld \in Int
      /\ pool = [pool EXCEPT ![m] = r] /\ staked = [staked EXCEPT ![m] = s]
      /\ objected = [objected EXCEPT ![m] = objected[m]]
  BY PoolFits
<1>3. r.status \in Final
  <2>1. r.status \notin Final => due = 0
    BY DEF Final, Prize
  <2> HIDE DEF due
  <2> QED BY <1>1, <2>1
<1>4. due \in Nat
  BY <1>2, PrizeNat
<1>5. Fits(r, s, objected[m], c \cup {p}) /\ PoolDebt(r, s, c \cup {p}) = PoolDebt(r, s, c) - due
  BY <1>1, <1>2, <1>3, PrizePaid
<1> HIDE DEF r, s, c, due
<1>6. (poolHeld - due) - PoolDebt(r, s, c \cup {p}) >= poolHeld - PoolDebt(r, s, c)
      /\ poolHeld - due \in Int
  BY <1>2, <1>4, <1>5
<1>7. PoolChanges(m, r, s, objected[m], c \cup {p}, poolHeld - due)
  BY <1>1, <1>2, <1>5, <1>6 DEF PoolChanges, r, s, c
<1> QED BY <1>7, PoolChangeKeeps

LEMMA PoolsInvStep ==
    ASSUME PoolsInv, [AppNext]_appVars
    PROVE  PoolsInv'
<1>1. CASE UNCHANGED communityVars
  <2>1. UNCHANGED <<pool, staked, objected, paid, poolHeld>>
    BY <1>1 DEF communityVars
  <2>2. PoolsFit'
    BY <2>1 DEF PoolsInv, PoolsFit
  <2>3. PoolsSolvent'
    BY <2>1, PoolsSolventIs, PoolsSolventIsNext DEF PoolsInv
  <2> QED BY <2>2, <2>3 DEF PoolsInv
<1>2. CASE CommunityStep
  <2>1. PICK m \in PoolIds :
           \/ \E p \in Players, times \in Times : CreatePool(m, p, times[1], times[2])
           \/ \E p \in Players, o \in Outcomes, amount \in PlayAmounts : Stake(m, p, o, amount)
           \/ \E o \in Outcomes : ProposeOutcome(m, o)
           \/ \E p \in Players : ObjectToResult(m, p) \/ ClaimPool(m, p)
           \/ CloseStep(m)
           \/ Cancel(m)
    BY <1>2 DEF CommunityStep
  <2>2. CASE CloseStep(m) \/ Cancel(m)
    BY <2>2, EndKeeps DEF CloseStep
  <2> QED BY <2>1, <2>2, CreatePoolKeeps, StakeInPoolKeeps, ProposeKeeps, ObjectKeeps, ClaimPoolKeeps
<1> QED BY <1>1, <1>2 DEF AppNext, appVars

LEMMA PoolsInitially == AppInit => PoolsInv
<1> SUFFICES ASSUME AppInit PROVE PoolsInv
  OBVIOUS
<1>1. /\ pool = [m \in PoolIds |-> NoPool] /\ staked = [m \in PoolIds |-> NoStakes]
      /\ objected = [m \in PoolIds |-> {}] /\ paid = [m \in PoolIds |-> {}] /\ poolHeld = 0
  BY DEF AppInit, CommunityInit
<1>2. NoStakes \in PlayerStakes
  BY DEF NoStakes, PlayerStakes
<1>3. /\ NoPool = [field \in PoolFields |-> NoPool[field]] /\ NoPool.status = "Open"
      /\ NoPool.objectedStake = 0
  BY DEF NoPool, PoolFields
<1>4. Fits(NoPool, NoStakes, {}, {})
  BY <1>2, <1>3, AgainstNone DEF Fits, Final
<1>5. PoolsFit
  BY <1>1, <1>2, <1>4 DEF PoolsFit
<1>6. InAll(NoStakes) = 0
  <2> DEFINE f == [p \in Players |-> OfPlayer(NoStakes, p)]
  <2>1. ASSUME NEW p \in Players PROVE OfPlayer(NoStakes, p) = 0
    <3>1. NoStakes[p] \in [Outcomes -> Int] /\ \A o \in Outcomes : NoStakes[p][o] = 0
      BY DEF NoStakes
    <3> QED BY <3>1, TotalZero, CommunityAssumption DEF OfPlayer
  <2>2. f \in [Players -> Int] /\ \A p \in Players : f[p] = 0
    BY <2>1
  <2> HIDE DEF f
  <2>3. SumFunction(f) = 0
    BY <2>2, TotalZero, CommunityAssumption
  <2> QED BY <2>3 DEF f, InAll
<1> DEFINE g == PoolDebts(pool, staked, paid)
<1>7. g \in [PoolIds -> Int] /\ \A m \in PoolIds : g[m] = 0
  BY <1>1, <1>3, <1>6 DEF PoolDebts, PoolDebt, Final
<1>8. SumFunction(g) = 0
  <2> HIDE DEF g
  <2> QED BY <1>7, TotalZero, CommunityAssumption
<1>9. PoolsSolvent
  BY <1>1, <1>8, PoolsSolventIs
<1> QED BY <1>5, <1>9 DEF PoolsInv

LEMMA PoolsInvariant == AppSpec => []PoolsInv
BY PoolsInitially, PoolsInvStep, PTL DEF AppSpec

LEMMA AcceptedResults == PoolsInv => ResultsAccepted
<1> SUFFICES ASSUME PoolsInv, NEW m \in PoolIds
             PROVE  /\ pool[m].objectedStake = Against(staked[m], objected[m])
                    /\ pool[m].status = "Resolved" =>
                          /\ Against(staked[m], objected[m]) * 3 <= InAll(staked[m])
                          /\ Backing(staked[m], pool[m].outcome) > 0
  BY PoolsSolventIs DEF ResultsAccepted, Against
<1>1. Fits(pool[m], staked[m], objected[m], paid[m])
  BY PoolFits
<1> QED BY <1>1 DEF Fits

(* A result stands only if its side was backed and those who objected hold  *)
(* at most a third of the pool, for any players, stakes and window.         *)
THEOREM ResultsStand == AppSpec => []ResultsAccepted
BY PoolsInvariant, AcceptedResults, PTL

(* The one balance of the community markets covers every stake that is not  *)
(* decided and every payout not claimed, after all roundings.               *)
THEOREM PoolsArePaid == AppSpec => []PoolsSolvent
BY PoolsInvariant, PTL DEF PoolsInv
-----------------------------------------------------------------------------
(* The range markets: shares, what they cost, and the reserve behind them.  *)

(* Of the weights: none further out than the table, and less the further.   *)
LEMMA ShareFacts ==
    /\ Cardinality(DOMAIN Weight) \in Nat \ {0} /\ Weight[0] \in Nat
    /\ \A x \in Int : Share(x) \in Nat
    /\ \A x \in Int : x >= Cardinality(DOMAIN Weight) => Share(x) = 0
    /\ \A x, y \in Nat : x <= y => Share(y) <= Share(x)
<1> DEFINE N == Cardinality(DOMAIN Weight)
           W == Weight
<1>1. /\ N \in Nat \ {0} /\ W \in [0..(N - 1) -> Nat]
      /\ \A x, y \in DOMAIN W : x <= y => W[y] <= W[x]
      /\ \A x : Share(x) = IF x \in DOMAIN W THEN W[x] ELSE 0
  BY DistAssumption DEF Share
<1> HIDE DEF N, W
<1>2. DOMAIN W = 0..(N - 1)
  BY <1>1
<1>3. 0 \in DOMAIN W
  BY <1>1, <1>2
<1>4. W[0] \in Nat
  BY <1>1, <1>3
<1>5. \A x \in Int : Share(x) \in Nat
  BY <1>1
<1>6. \A x \in Int : x >= N => Share(x) = 0
  BY <1>1, <1>2
<1>7. ASSUME NEW x \in Nat, NEW y \in Nat, x <= y PROVE Share(y) <= Share(x)
  <2>1. CASE y \in DOMAIN W
    <3>1. x \in DOMAIN W
      BY <1>1, <1>2, <1>7, <2>1
    <3> QED BY <1>1, <1>7, <2>1, <3>1
  <2>2. CASE y \notin DOMAIN W
    <3>1. Share(y) = 0 /\ Share(x) \in Nat
      BY <1>1, <1>5, <2>2
    <3> QED BY <3>1
  <2> QED BY <2>1, <2>2
<1> QED BY <1>1, <1>4, <1>5, <1>6, <1>7 DEF N, W

(* Shares of a nonempty, finite set of ranges.                              *)
Ranges(q) == /\ IsFiniteSet(DOMAIN q) /\ DOMAIN q # {}
             /\ q \in [DOMAIN q -> Nat]

Spread(c, q) == SumFunction([k \in DOMAIN q |-> Share(c - q[k])])

LEMMA SpreadNat ==
    ASSUME NEW q, Ranges(q), NEW c \in Int
    PROVE  /\ Spread(c, q) \in Nat
           /\ [k \in DOMAIN q |-> Share(c - q[k])] \in [DOMAIN q -> Nat]
<1>1. ASSUME NEW k \in DOMAIN q PROVE Share(c - q[k]) \in Nat
  <2>1. q[k] \in Nat
    BY DEF Ranges
  <2>2. c - q[k] \in Int
    BY <2>1
  <2> QED BY <2>2, ShareFacts
<1>2. [k \in DOMAIN q |-> Share(c - q[k])] \in [DOMAIN q -> Nat]
  BY <1>1
<1> QED BY <1>2, TotalNat DEF Spread, Ranges

LEMMA CoversIs ==
    ASSUME NEW q, NEW c
    PROVE  Covers(c, q) <=> (\A k \in DOMAIN q : q[k] <= c) /\ Spread(c, q) <= Weight[0]
BY DEF Covers, Spread

(* What covers the cost of some shares still does with more on top.         *)
LEMMA CoversMore ==
    ASSUME NEW q, Ranges(q), NEW c \in Nat, NEW d \in Nat, c <= d, Covers(c, q)
    PROVE  Covers(d, q)
<1> DEFINE f == [k \in DOMAIN q |-> Share(d - q[k])]
           g == [k \in DOMAIN q |-> Share(c - q[k])]
<1>1. (\A k \in DOMAIN q : q[k] <= c) /\ Spread(c, q) <= Weight[0]
  BY CoversIs
<1>2. \A k \in DOMAIN q : q[k] \in Nat
  BY DEF Ranges
<1>3. \A k \in DOMAIN q : q[k] <= d
  BY <1>1, <1>2
<1>4. \A k \in DOMAIN q : f[k] <= g[k]
  <2>1. ASSUME NEW k \in DOMAIN q PROVE Share(d - q[k]) <= Share(c - q[k])
    <3>1. c - q[k] \in Nat /\ d - q[k] \in Nat /\ c - q[k] <= d - q[k]
      BY <1>1, <1>2
    <3> QED BY <3>1, ShareFacts
  <2> QED BY <2>1
<1>5. f \in [DOMAIN q -> Nat] /\ g \in [DOMAIN q -> Nat] /\ Spread(c, q) \in Nat /\ Spread(d, q) \in Nat
  BY SpreadNat
<1>6. Spread(d, q) = SumFunction(f) /\ Spread(c, q) = SumFunction(g)
  BY DEF Spread
<1> HIDE DEF f, g
<1>7. f \in [DOMAIN q -> Int] /\ g \in [DOMAIN q -> Int]
  BY <1>5
<1>8. SumFunction(f) <= SumFunction(g)
  BY <1>4, <1>7, TotalAtMost DEF Ranges
<1>9. Spread(d, q) <= Weight[0]
  BY <1>1, <1>5, <1>6, <1>8, ShareFacts
<1> QED BY <1>3, <1>9, CoversIs

(* There is a largest number of shares.                                     *)
LEMMA TopIs ==
    ASSUME NEW q, Ranges(q)
    PROVE  LET top == Max({q[k] : k \in DOMAIN q})
           IN  top \in Nat /\ \A k \in DOMAIN q : q[k] <= top
<1> DEFINE V == {q[k] : k \in DOMAIN q}
           s == SumFunction(q)
           T == {s - v : v \in V}
<1>1. q \in [DOMAIN q -> Nat] /\ DOMAIN q # {} /\ IsFiniteSet(DOMAIN q)
  BY DEF Ranges
<1>2. s \in Nat /\ \A k \in DOMAIN q : q[k] <= s
  BY <1>1, TotalNat, TotalHasPart
<1>3. V \in SUBSET Nat /\ V # {} /\ \A v \in V : v <= s
  BY <1>1, <1>2
<1> HIDE DEF V, s
<1>4. T \in SUBSET Nat /\ T # {}
  <2>1. \A v \in V : s - v \in Nat
    BY <1>2, <1>3
  <2>2. T \in SUBSET Nat
    BY <2>1
  <2>3. \A v \in V : s - v \in T
    OBVIOUS
  <2> QED BY <1>3, <2>2, <2>3
<1>5. PICK n \in T : \A u \in T : n <= u
  <2> HIDE DEF T
  <2> QED BY <1>4, SmallestNumber
<1>6. PICK w \in V : n = s - w
  BY <1>5
<1>7. \A v \in V : w >= v
  BY <1>2, <1>3, <1>5, <1>6
<1>8. Max(V) \in V /\ \A v \in V : Max(V) >= v
  BY <1>6, <1>7 DEF Max
<1>9. \A k \in DOMAIN q : q[k] \in V
  BY DEF V
<1>10. Max(V) \in Nat /\ \A k \in DOMAIN q : q[k] <= Max(V)
  BY <1>1, <1>3, <1>8, <1>9
<1> QED BY <1>10 DEF V

(* The cost of some shares exists, and is at least those of each range.     *)
LEMMA CostIs ==
    ASSUME NEW q, Ranges(q)
    PROVE  Cost(q) \in Nat /\ Covers(Cost(q), q) /\ \A k \in DOMAIN q : q[k] <= Cost(q)
<1> DEFINE N   == Cardinality(DOMAIN Weight)
           top == Max({q[k] : k \in DOMAIN q})
           P(c) == Covers(c, q) /\ (c = top \/ ~Covers(c - 1, q))
           T   == {c \in top..(top + N) : Covers(c, q)}
<1>1. Cost(q) = CHOOSE c \in top..(top + N) : P(c)
  BY DEF Cost
<1>2. N \in Nat \ {0} /\ top \in Nat /\ \A k \in DOMAIN q : q[k] \in Nat /\ q[k] <= top
  BY ShareFacts, TopIs DEF Ranges
<1> HIDE DEF N, top
<1>3. Covers(top + N, q)
  <2> DEFINE c == top + N
             f == [k \in DOMAIN q |-> Share(c - q[k])]
  <2>1. c \in Nat /\ \A k \in DOMAIN q : q[k] <= c
    BY <1>2
  <2>2. ASSUME NEW k \in DOMAIN q PROVE Share(c - q[k]) = 0
    <3>1. c - q[k] \in Int /\ c - q[k] >= N
      BY <1>2
    <3> QED BY <3>1, ShareFacts DEF N
  <2>3. f \in [DOMAIN q -> Int] /\ \A k \in DOMAIN q : f[k] = 0
    BY <2>2
  <2>4. Spread(c, q) = SumFunction(f)
    BY DEF Spread
  <2> HIDE DEF c, f
  <2>5. SumFunction(f) = 0
    BY <2>3, TotalZero DEF Ranges
  <2>6. Spread(c, q) <= Weight[0]
    BY <2>4, <2>5, ShareFacts
  <2> QED BY <2>1, <2>6, CoversIs DEF c
<1>4. T \in SUBSET Nat /\ T # {}
  <2>1. top + N \in top..(top + N)
    BY <1>2
  <2> QED BY <1>2, <1>3, <2>1
<1>5. PICK c \in T : \A d \in T : c <= d
  <2> HIDE DEF T
  <2> QED BY <1>4, SmallestNumber
<1>6. c \in top..(top + N) /\ Covers(c, q)
  BY <1>5
<1>7. c = top \/ ~Covers(c - 1, q)
  <2> SUFFICES ASSUME c # top, Covers(c - 1, q) PROVE FALSE
    OBVIOUS
  <2>1. c - 1 \in top..(top + N) /\ ~(c <= c - 1)
    BY <1>2, <1>6
  <2>2. c - 1 \in T
    BY <2>1
  <2> QED BY <1>5, <2>1, <2>2
<1>8. P(c)
  BY <1>6, <1>7
<1> HIDE DEF P
<1>9. Cost(q) \in top..(top + N) /\ P(Cost(q))
  BY <1>1, <1>6, <1>8
<1>10. Cost(q) \in Nat /\ Covers(Cost(q), q)
  BY <1>2, <1>9 DEF P
<1> QED BY <1>10, CoversIs

LEMMA PlusFacts ==
    ASSUME NEW q, Ranges(q), NEW k \in DOMAIN q, NEW n \in Int, q[k] + n \in Nat
    PROVE  /\ Ranges(Plus(q, k, n)) /\ DOMAIN Plus(q, k, n) = DOMAIN q
           /\ Plus(q, k, n)[k] = q[k] + n
           /\ \A j \in DOMAIN q \ {k} : Plus(q, k, n)[j] = q[j]
BY DEF Ranges, Plus

(* Spending buys a number of shares.                                        *)
LEMMA BoughtShares ==
    ASSUME NEW q, Ranges(q), NEW k \in DOMAIN q, NEW net \in Nat,
           NEW n \in SharesForCost(q, k, net), n > 0
    PROVE  n \in Nat
<1> DEFINE big == Cost(q) + net
           Q(x) == Covers(big, Plus(q, k, x))
           R(x) == Q(x) /\ ~Q(x + 1)
           most == CHOOSE x \in 0..(big - q[k]) : R(x)
           T == {x \in 0..(big - q[k]) : ~Q(x + 1)}
<1>1. n \in {most - 1, most}
  BY DEF SharesForCost
<1>2. /\ Cost(q) \in Nat /\ Covers(Cost(q), q) /\ q[k] \in Nat /\ q[k] <= Cost(q)
  BY CostIs DEF Ranges
<1>3. big \in Nat /\ Cost(q) <= big /\ q[k] <= big
  BY <1>2
<1>4. Q(0)
  <2>1. Covers(big, q)
    BY <1>2, <1>3, CoversMore
  <2>2. Plus(q, k, 0) = q
    BY <1>2 DEF Plus, Ranges
  <2> QED BY <2>1, <2>2
<1> DEFINE z == big - q[k]
<1>5. z \in Nat /\ ~Q(z + 1)
  <2>1. z \in Nat /\ z + 1 \in Int /\ q[k] + (z + 1) \in Nat /\ ~(q[k] + (z + 1) <= big)
    BY <1>2, <1>3
  <2>2. k \in DOMAIN Plus(q, k, z + 1) /\ Plus(q, k, z + 1)[k] = q[k] + (z + 1)
    BY <2>1, PlusFacts
  <2>3. ~Covers(big, Plus(q, k, z + 1))
    BY <2>1, <2>2, CoversIs
  <2> QED BY <2>1, <2>3
<1> HIDE DEF Q, z
<1>6. T \in SUBSET Nat /\ T # {}
  <2>1. z \in 0..z /\ \A x \in 0..z : x \in Nat
    BY <1>5
  <2> QED BY <1>5, <2>1 DEF z
<1>7. PICK x \in T : \A y \in T : x <= y
  <2> HIDE DEF T
  <2> QED BY <1>6, SmallestNumber
<1>8. x \in 0..z /\ ~Q(x + 1)
  BY <1>7 DEF z
<1>9. Q(x)
  <2>1. CASE x = 0
    BY <1>4, <2>1
  <2>2. CASE x # 0
    <3>1. x - 1 \in 0..z /\ ~(x <= x - 1) /\ (x - 1) + 1 = x
      BY <1>5, <1>8, <2>2
    <3>2. x - 1 \notin T
      BY <1>7, <3>1
    <3>3. Q((x - 1) + 1)
      BY <3>1, <3>2 DEF z
    <3> QED BY <3>1, <3>3
  <2> QED BY <2>1, <2>2
<1>10. R(x)
  BY <1>8, <1>9
<1> HIDE DEF R
<1>11. most \in 0..z
  BY <1>8, <1>10 DEF z
<1> HIDE DEF most
<1> QED BY <1>1, <1>5, <1>11
-----------------------------------------------------------------------------
(* The shares out are those of the traders: q are those of each range, sh   *)
(* those of each trader.                                                    *)
Column(sh, k) == [t \in DistTraders |-> sh[t][k]]

Shared(ids, q, sh) ==
    /\ ids \in Seq(Ids) \ {<<>>}
    /\ q \in [Buckets(ids) -> Nat]
    /\ sh \in [DistTraders -> [Buckets(ids) -> Nat]]
    /\ \A k \in Buckets(ids) : q[k] = SumFunction(Column(sh, k))

Pay(d, sh, t) ==
    CASE d.status = "Open"    -> 0
      [] d.status = "Settled" -> sh[t][d.winning]
      [] d.status = "Voided"  -> Total(sh[t]) \div Cardinality(DOMAIN d.q)
Payments(d, sh, rd) == [t \in DistTraders |-> IF t \in rd THEN 0 ELSE Pay(d, sh, t)]

(* The reserve covers any range while the market is open, and what has not  *)
(* been redeemed since.                                                     *)
Backed(d, sh, rd) ==
    IF d.status = "Open" THEN rd = {} /\ \A k \in DOMAIN d.q : d.q[k] <= d.reserve
    ELSE SumFunction(Payments(d, sh, rd)) <= d.reserve

DistFit(d, sh, rd) ==
    /\ d = [field \in DistFields |-> d[field]]
    /\ d.status \in {"Open", "Settled", "Voided"}
    /\ d.reserve \in Nat /\ d.fees \in Nat /\ rd \in SUBSET DistTraders
    /\ ~d.created => d.status = "Open" /\ d.q = <<>> /\ d.reserve = 0 /\ d.fees = 0
    /\ d.created => Shared(d.ids, d.q, sh)
    /\ d.status = "Settled" => d.winning \in Buckets(d.ids)
    /\ Backed(d, sh, rd)

DistFits ==
    /\ dist = [m \in DistIds |-> dist[m]] /\ shares = [m \in DistIds |-> shares[m]]
    /\ redeemed \in [DistIds -> SUBSET DistTraders]
    /\ distHeld \in Int
    /\ \A m \in DistIds : DistFit(dist[m], shares[m], redeemed[m])

Reserves(ds) == [m \in DistIds |-> ds[m].reserve + ds[m].fees]

DistFunds == distHeld = SumFunction(Reserves(dist))

DistSafe == DistFits /\ DistFunds

LEMMA DistPayoutIs ==
    ASSUME NEW m \in DistIds
    PROVE  /\ \A t \in DistTraders : DistPayout(m, t) = Pay(dist[m], shares[m], t)
           /\ Unredeemed(m) = SumFunction(Payments(dist[m], shares[m], redeemed[m]))
<1>1. \A t \in DistTraders : DistPayout(m, t) = Pay(dist[m], shares[m], t)
  BY DEF DistPayout, Pay
<1> QED BY <1>1 DEF Unredeemed, Payments

LEMMA DistIsSolvent == DistSafe => DistSolvent
<1> SUFFICES ASSUME DistSafe, NEW m \in DistIds
             PROVE  IF dist[m].status = "Open"
                    THEN \A k \in DOMAIN dist[m].q : dist[m].q[k] <= dist[m].reserve
                    ELSE SumFunction(Payments(dist[m], shares[m], redeemed[m])) <= dist[m].reserve
  BY DistPayoutIs DEF DistSolvent, DistSafe, DistFunds, Reserves
<1> QED BY DEF DistSafe, DistFits, DistFit, Backed

LEMMA BucketsAre ==
    ASSUME NEW ids \in Seq(Ids) \ {<<>>}
    PROVE  /\ Len(ids) \in Nat \ {0} /\ DOMAIN ids = 1..Len(ids)
           /\ IsFiniteSet(Buckets(ids)) /\ 0 \in Buckets(ids)
           /\ Buckets(ids) \in SUBSET Nat
           /\ Cardinality(Buckets(ids)) = Len(ids) + 1
<1>1. Len(ids) \in Nat \ {0} /\ DOMAIN ids = 1..Len(ids)
  BY LenProperties, EmptySeq
<1>2. IsFiniteSet(0..Len(ids)) /\ Cardinality(0..Len(ids)) = Len(ids) + 1
  <2> DEFINE n == Len(ids)
  <2>1. n \in Int /\ 0 \in Int /\ ~(0 > n)
    BY <1>1
  <2> HIDE DEF n
  <2>2. IsFiniteSet(0..n) /\ Cardinality(0..n) = n - 0 + 1
    BY <2>1, FS_Interval
  <2>3. n - 0 + 1 = n + 1
    BY <2>1
  <2> QED BY <2>2, <2>3 DEF n
<1> QED BY <1>1, <1>2 DEF Buckets

LEMMA SharedRanges ==
    ASSUME NEW ids, NEW q, NEW sh, Shared(ids, q, sh)
    PROVE  /\ Ranges(q) /\ DOMAIN q = Buckets(ids)
           /\ \A t \in DistTraders, k \in Buckets(ids) : sh[t][k] \in Nat /\ q[k] \in Nat /\ sh[t][k] <= q[k]
           /\ \A k \in Buckets(ids) : Column(sh, k) \in [DistTraders -> Nat]
<1>1. /\ ids \in Seq(Ids) \ {<<>>} /\ q \in [Buckets(ids) -> Nat]
      /\ sh \in [DistTraders -> [Buckets(ids) -> Nat]]
      /\ \A k \in Buckets(ids) : q[k] = SumFunction(Column(sh, k))
  BY DEF Shared
<1>2. DOMAIN q = Buckets(ids) /\ IsFiniteSet(Buckets(ids)) /\ Buckets(ids) # {}
  BY <1>1, BucketsAre
<1>3. \A k \in Buckets(ids) : Column(sh, k) \in [DistTraders -> Nat]
  BY <1>1 DEF Column
<1>4. ASSUME NEW t \in DistTraders, NEW k \in Buckets(ids)
      PROVE  sh[t][k] \in Nat /\ q[k] \in Nat /\ sh[t][k] <= q[k]
  <2>1. Column(sh, k)[t] = sh[t][k]
    BY DEF Column
  <2>2. Column(sh, k)[t] <= SumFunction(Column(sh, k))
    BY <1>3, TotalHasPart, DistAssumption
  <2> QED BY <1>1, <2>1, <2>2
<1> QED BY <1>1, <1>2, <1>3, <1>4 DEF Ranges

(* A trade moves as many shares of the range as of the trader.              *)
Trading(ids, q, sh, t, k, n, sh2) ==
    /\ Shared(ids, q, sh) /\ t \in DistTraders /\ k \in Buckets(ids)
    /\ n \in Int /\ sh[t][k] + n \in Nat
    /\ sh2 = [sh EXCEPT ![t] = Plus(@, k, n)]

LEMMA SharesMove ==
    ASSUME NEW ids, NEW q, NEW sh, NEW t, NEW k, NEW n, NEW sh2, Trading(ids, q, sh, t, k, n, sh2)
    PROVE  Shared(ids, Plus(q, k, n), sh2)
<1>1. /\ t \in DistTraders /\ k \in Buckets(ids) /\ n \in Int /\ sh[t][k] + n \in Nat
      /\ sh2 = [sh EXCEPT ![t] = Plus(sh[t], k, n)]
  BY DEF Trading
<1>2. /\ ids \in Seq(Ids) \ {<<>>} /\ q \in [Buckets(ids) -> Nat]
      /\ sh \in [DistTraders -> [Buckets(ids) -> Nat]]
      /\ \A j \in Buckets(ids) : q[j] = SumFunction(Column(sh, j))
  BY DEF Trading, Shared
<1>3. /\ Plus(sh[t], k, n) \in [Buckets(ids) -> Nat]
      /\ Plus(sh[t], k, n)[k] = sh[t][k] + n
      /\ \A j \in Buckets(ids) \ {k} : Plus(sh[t], k, n)[j] = sh[t][j]
  BY <1>1, <1>2 DEF Plus
<1>4. /\ sh2 \in [DistTraders -> [Buckets(ids) -> Nat]]
      /\ sh2[t] = Plus(sh[t], k, n) /\ \A u \in DistTraders \ {t} : sh2[u] = sh[u]
  BY <1>1, <1>2, <1>3
<1>5. ASSUME NEW j \in Buckets(ids), j # k PROVE Column(sh2, j) = Column(sh, j)
  <2>1. \A u \in DistTraders : sh2[u][j] = sh[u][j]
    BY <1>3, <1>4, <1>5
  <2> QED BY <2>1 DEF Column
<1> DEFINE f == Column(sh, k)
           g == Column(sh2, k)
<1>6. /\ f \in [DistTraders -> Nat] /\ g \in [DistTraders -> Nat]
      /\ f \in [DistTraders -> Int] /\ g \in [DistTraders -> Int]
      /\ g[t] = f[t] + n /\ \A u \in DistTraders \ {t} : g[u] = f[u]
  <2>1. \A u \in DistTraders : sh[u][k] \in Nat /\ sh2[u][k] \in Nat
    BY <1>1, <1>2, <1>4
  <2>2. sh2[t][k] = sh[t][k] + n
    BY <1>3, <1>4
  <2> QED BY <1>1, <1>4, <2>1, <2>2 DEF Column
<1>7. q[k] = SumFunction(f)
  BY <1>1, <1>2
<1> HIDE DEF f, g
<1>8. SumFunction(g) = SumFunction(f) + n /\ SumFunction(g) \in Nat
  <2>0. IsFiniteSet(DistTraders) /\ t \in DistTraders
    BY <1>1, DistAssumption
  <2>1. SumFunction(g) = SumFunction(f) + (g[t] - f[t])
    BY <1>6, <2>0, TotalChange
  <2>2. SumFunction(f) \in Int /\ f[t] \in Int
    BY <1>1, <1>6, TotalInt, DistAssumption
  <2>3. SumFunction(g) \in Nat
    BY <1>6, TotalNat, DistAssumption
  <2> QED BY <1>1, <1>6, <2>1, <2>2, <2>3
<1>9. /\ Plus(q, k, n)[k] = SumFunction(g) /\ DOMAIN Plus(q, k, n) = Buckets(ids)
      /\ \A j \in Buckets(ids) \ {k} : Plus(q, k, n)[j] = q[j]
  BY <1>1, <1>2, <1>7, <1>8 DEF Plus
<1>10. Plus(q, k, n) \in [Buckets(ids) -> Nat]
  <2>1. Plus(q, k, n) = [j \in Buckets(ids) |-> Plus(q, k, n)[j]]
    BY <1>2 DEF Plus
  <2>2. \A j \in Buckets(ids) : Plus(q, k, n)[j] \in Nat
    BY <1>2, <1>8, <1>9
  <2> QED BY <2>1, <2>2
<1>11. \A j \in Buckets(ids) : Plus(q, k, n)[j] = SumFunction(Column(sh2, j))
  BY <1>2, <1>5, <1>9 DEF g
<1> QED BY <1>2, <1>4, <1>10, <1>11 DEF Shared

-----------------------------------------------------------------------------
LEMMA PayNat ==
    ASSUME NEW d, NEW sh, NEW rd, DistFit(d, sh, rd), d.created, NEW t \in DistTraders
    PROVE  Pay(d, sh, t) \in Nat
<1>1. /\ Shared(d.ids, d.q, sh) /\ d.status \in {"Open", "Settled", "Voided"}
      /\ d.status = "Settled" => d.winning \in Buckets(d.ids)
  BY DEF DistFit
<1>2. CASE d.status = "Voided"
  <2>1. sh[t] \in [Buckets(d.ids) -> Nat] /\ DOMAIN d.q = Buckets(d.ids) /\ d.ids \in Seq(Ids) \ {<<>>}
    BY <1>1 DEF Shared
  <2>2. Total(sh[t]) \in Nat /\ Cardinality(DOMAIN d.q) \in Nat \ {0}
    <3>1. Cardinality(Buckets(d.ids)) = Len(d.ids) + 1 /\ Len(d.ids) \in Nat /\ IsFiniteSet(Buckets(d.ids))
      BY <2>1, BucketsAre
    <3>2. Cardinality(Buckets(d.ids)) \in Nat \ {0}
      BY <3>1
    <3>3. SumFunction(sh[t]) \in Nat
      BY <2>1, <3>1, TotalNat
    <3> QED BY <2>1, <3>2, <3>3 DEF Total
  <2>3. Total(sh[t]) \div Cardinality(DOMAIN d.q) \in Nat
    BY <2>2, DivFacts
  <2> QED BY <1>2, <2>3 DEF Pay
<1>3. CASE d.status = "Settled"
  BY <1>1, <1>3, SharedRanges DEF Pay
<1>4. CASE d.status = "Open"
  BY <1>4 DEF Pay
<1> QED BY <1>1, <1>2, <1>3, <1>4

(* A payout less is owed, and the reserve is less by as much.               *)
LEMMA RedeemFits ==
    ASSUME NEW d, NEW sh, NEW rd, DistFit(d, sh, rd), d.created, d.status # "Open",
           NEW t \in DistTraders, t \notin rd,
           NEW e, e = [d EXCEPT !.reserve = @ - Pay(d, sh, t)]
    PROVE  DistFit(e, sh, rd \cup {t}) /\ e.reserve = d.reserve - Pay(d, sh, t) /\ e.fees = d.fees
           /\ Pay(d, sh, t) \in Nat /\ d.reserve \in Nat /\ d.fees \in Nat
<1> DEFINE pay == Pay(d, sh, t)
<1>1. /\ d = [field \in DistFields |-> d[field]] /\ d.reserve \in Nat /\ d.fees \in Nat
      /\ rd \in SUBSET DistTraders /\ Shared(d.ids, d.q, sh)
      /\ d.status \in {"Open", "Settled", "Voided"}
      /\ d.status = "Settled" => d.winning \in Buckets(d.ids)
      /\ SumFunction(Payments(d, sh, rd)) <= d.reserve
  BY DEF DistFit, Backed
<1>2. e = [field \in DistFields |-> IF field = "reserve" THEN d.reserve - pay ELSE d[field]]
  BY <1>1 DEF DistFields
<1> HIDE DEF pay
<1>3. /\ e = [field \in DistFields |-> e[field]] /\ e.reserve = d.reserve - pay
      /\ e.fees = d.fees /\ e.status = d.status /\ e.created = d.created /\ e.ids = d.ids
      /\ e.q = d.q /\ e.winning = d.winning
  BY <1>2 DEF DistFields
<1>4. \A u \in DistTraders : Pay(e, sh, u) = Pay(d, sh, u)
  BY <1>3 DEF Pay
<1> DEFINE f == Payments(d, sh, rd)
           g == Payments(e, sh, rd \cup {t})
<1>5. \A u \in DistTraders : Pay(d, sh, u) \in Nat
  BY PayNat
<1>6. /\ f \in [DistTraders -> Nat] /\ g \in [DistTraders -> Nat]
      /\ f[t] = pay /\ g[t] = 0 /\ \A u \in DistTraders \ {t} : g[u] = f[u]
  BY <1>4, <1>5 DEF Payments, pay
<1> HIDE DEF f, g
<1>7. SumFunction(g) = SumFunction(f) - pay /\ pay \in Nat /\ SumFunction(g) \in Nat
  <2>1. f \in [DistTraders -> Int] /\ g \in [DistTraders -> Int]
    BY <1>6
  <2>0. IsFiniteSet(DistTraders) /\ t \in DistTraders
    BY DistAssumption
  <2>2. SumFunction(g) = SumFunction(f) + (g[t] - f[t])
    BY <1>6, <2>0, <2>1, TotalChange
  <2>3. SumFunction(f) \in Int /\ SumFunction(g) \in Nat
    BY <1>6, <2>1, TotalInt, TotalNat, DistAssumption
  <2>4. pay \in Nat
    BY <1>6
  <2> QED BY <1>6, <2>2, <2>3, <2>4
<1>8. SumFunction(f) <= d.reserve /\ SumFunction(f) \in Int
  BY <1>1, <1>6, TotalNat, DistAssumption DEF f
<1>9. e.reserve \in Nat /\ SumFunction(g) <= e.reserve
  BY <1>1, <1>3, <1>7, <1>8
<1>10. Backed(e, sh, rd \cup {t})
  BY <1>3, <1>9 DEF Backed, g
<1>11. DistFit(e, sh, rd \cup {t})
  BY <1>1, <1>3, <1>9, <1>10 DEF DistFit
<1> QED BY <1>1, <1>3, <1>7, <1>11 DEF pay

(* An N-th of a share, each trader's rounded down, is at most an N-th of    *)
(* all shares rounded up.                                                   *)
LEMMA AllPaidAlike ==
    ASSUME NEW ids, NEW q, NEW sh, Shared(ids, q, sh),
           NEW f, f = [t \in DistTraders |-> Total(sh[t]) \div Cardinality(DOMAIN q)]
    PROVE  /\ SumFunction(f) <= VoidLiability(q) /\ VoidLiability(q) \in Nat
           /\ SumFunction(f) \in Nat
<1> DEFINE N == Cardinality(DOMAIN q)
           B == Buckets(ids)
           all == [t \in DistTraders |-> Total(sh[t])]
           u == [t \in DistTraders |-> N * f[t]]
<1>1. /\ ids \in Seq(Ids) \ {<<>>} /\ q \in [B -> Nat] /\ sh \in [DistTraders -> [B -> Nat]]
      /\ \A k \in B : q[k] = SumFunction([t \in DistTraders |-> sh[t][k]])
      /\ IsFiniteSet(DistTraders)
  BY DistAssumption DEF Shared, Column
<1>2. IsFiniteSet(B) /\ N \in Nat \ {0}
  <2>1. IsFiniteSet(B) /\ Len(ids) \in Nat /\ Cardinality(B) = Len(ids) + 1 /\ DOMAIN q = B
    BY <1>1, BucketsAre
  <2> QED BY <2>1
<1> HIDE DEF B
<1>3. Total(q) = SumFunction(all)
  <2> DEFINE rows == [t \in DistTraders |-> SumFunction(sh[t])]
             cols == [k \in B |-> SumFunction([t \in DistTraders |-> sh[t][k]])]
  <2>1. sh \in [DistTraders -> [B -> Int]]
    BY <1>1
  <2>2. SumFunction(rows) = SumFunction(cols)
    BY <1>1, <1>2, <2>1, TotalSwap
  <2>3. cols = q
    BY <1>1
  <2>4. rows = all
    BY DEF Total
  <2> QED BY <2>2, <2>3, <2>4 DEF Total
<1>4. all \in [DistTraders -> Nat]
  <2>1. \A t \in DistTraders : Total(sh[t]) \in Nat
    <3>1. \A t \in DistTraders : sh[t] \in [B -> Nat]
      BY <1>1
    <3> QED BY <1>2, <3>1, TotalNat DEF Total
  <2> QED BY <2>1
<1>5. \A t \in DistTraders : f[t] = all[t] \div N
  OBVIOUS
<1> HIDE DEF N, all
<1>6. ASSUME NEW t \in DistTraders
      PROVE  f[t] \in Nat /\ N * f[t] \in Int /\ N * f[t] <= all[t]
  <2>1. all[t] \in Nat
    BY <1>4
  <2>2. f[t] \in Nat /\ f[t] * N <= all[t]
    BY <1>2, <1>5, <2>1, DivFacts
  <2>3. N * f[t] = f[t] * N /\ f[t] * N \in Int
    <3>1. N \in Int /\ f[t] \in Int
      BY <1>2, <2>2
    <3> QED BY <3>1, TimesFacts
  <2> QED BY <2>2, <2>3
<1>7. f \in [DistTraders -> Nat] /\ f \in [DistTraders -> Int]
  <2>1. f = [t \in DistTraders |-> f[t]]
    OBVIOUS
  <2> QED BY <1>6, <2>1
<1>8. u \in [DistTraders -> Int] /\ all \in [DistTraders -> Int]
      /\ \A t \in DistTraders : u[t] = N * f[t] /\ u[t] <= all[t]
  BY <1>4, <1>6
<1> HIDE DEF u
<1>9. SumFunction(u) = N * SumFunction(f)
  <2>1. N \in Int
    BY <1>2
  <2>2. IsFiniteSet(DistTraders) /\ \A t \in DistTraders : u[t] = N * f[t]
    BY <1>1, <1>8
  <2>3. f \in [DistTraders -> Int] /\ u \in [DistTraders -> Int]
    BY <1>7, <1>8
  <2> QED BY <2>1, <2>2, <2>3, TotalTimes
<1>10. SumFunction(u) <= SumFunction(all)
  BY <1>1, <1>8, TotalAtMost
<1> DEFINE s == SumFunction(f)
           a == Total(q)
           v == VoidLiability(q)
<1>11. s \in Nat /\ a \in Nat /\ N * s <= a /\ N * s = s * N /\ s * N \in Nat
  <2>1. SumFunction(f) \in Nat /\ SumFunction(all) \in Nat
    BY <1>1, <1>4, <1>7, TotalNat
  <2>2. N * SumFunction(f) = SumFunction(f) * N
    <3>1. N \in Int /\ SumFunction(f) \in Int
      BY <1>2, <2>1
    <3> QED BY <3>1, TimesFacts
  <2>3. SumFunction(f) * N \in Nat
    BY <1>2, <2>1, TimesNat
  <2> QED BY <1>3, <1>9, <1>10, <2>1, <2>2, <2>3
<1>12. v = (a + N - 1) \div N
  BY DEF VoidLiability, N
<1> HIDE DEF s, a, v
<1>13. v \in Nat /\ a + N - 1 \in Nat /\ (a + N - 1) < v * N + N /\ v * N \in Nat
  <2>1. a + N - 1 \in Nat
    BY <1>2, <1>11
  <2>2. v \in Nat /\ (a + N - 1) < v * N + N
    BY <1>2, <1>12, <2>1, DivFacts
  <2>3. v * N \in Nat
    BY <1>2, <2>2, TimesNat
  <2> QED BY <2>1, <2>2, <2>3
<1>14. s <= v
  <2> SUFFICES ASSUME v + 1 <= s PROVE FALSE
    BY <1>11, <1>13
  <2>1. (v + 1) * N <= s * N
    <3>1. v + 1 \in Nat /\ N \in Nat
      BY <1>2, <1>13
    <3> QED BY <1>11, <3>1, TimesNat
  <2>2. (v + 1) * N = v * N + 1 * N
    <3>1. v \in Int /\ 1 \in Int /\ N \in Int
      BY <1>2, <1>13
    <3> QED BY <3>1, TimesFacts
  <2>3. 1 * N = N
    BY <1>2
  <2> DEFINE p == v * N
             r == s * N
  <2>4. p \in Nat /\ r \in Nat /\ r <= a /\ p + N <= r /\ a + N - 1 < p + N
    BY <1>11, <1>13, <2>1, <2>2, <2>3
  <2> HIDE DEF p, r
  <2> QED BY <1>2, <1>11, <2>4
<1> QED BY <1>11, <1>13, <1>14 DEF s, v
-----------------------------------------------------------------------------
(* The steps of the range markets.                                          *)

(* One range market changes, and the balance by as much as its funds.       *)
DistChanges(m, d, sh, rd, h) ==
    /\ DistFit(d, sh, rd) /\ h \in Int
    /\ dist' = [dist EXCEPT ![m] = d] /\ shares' = [shares EXCEPT ![m] = sh]
    /\ redeemed' = [redeemed EXCEPT ![m] = rd]
    /\ distHeld' = h
    /\ h - (d.reserve + d.fees) = distHeld - (dist[m].reserve + dist[m].fees)

LEMMA ReservesInt ==
    ASSUME NEW ds, NEW sh, NEW rd, \A m \in DistIds : DistFit(ds[m], sh[m], rd[m])
    PROVE  /\ Reserves(ds) \in [DistIds -> Int]
           /\ SumFunction(Reserves(ds)) \in Int
<1>1. \A m \in DistIds : ds[m].reserve + ds[m].fees \in Int
  <2>1. \A m \in DistIds : ds[m].reserve \in Nat /\ ds[m].fees \in Nat
    BY DEF DistFit
  <2> QED BY <2>1
<1>2. Reserves(ds) \in [DistIds -> Int]
  BY <1>1 DEF Reserves
<1>3. IsFiniteSet(DistIds)
  BY DistAssumption
<1> QED BY <1>2, <1>3, TotalInt

LEMMA DistChangeKeeps ==
    ASSUME DistSafe, NEW m \in DistIds, NEW d, NEW sh, NEW rd, NEW h, DistChanges(m, d, sh, rd, h)
    PROVE  DistSafe'
<1>1. /\ DistFit(d, sh, rd) /\ h \in Int /\ rd \in SUBSET DistTraders
      /\ d.reserve \in Nat /\ d.fees \in Nat
      /\ h - (d.reserve + d.fees) = distHeld - (dist[m].reserve + dist[m].fees)
  BY DEF DistChanges, DistFit
<1>2. /\ dist = [n \in DistIds |-> dist[n]] /\ shares = [n \in DistIds |-> shares[n]]
      /\ redeemed \in [DistIds -> SUBSET DistTraders] /\ distHeld \in Int
      /\ \A n \in DistIds : DistFit(dist[n], shares[n], redeemed[n])
  BY DEF DistSafe, DistFits
<1>3. /\ dist' = [n \in DistIds |-> dist'[n]] /\ shares' = [n \in DistIds |-> shares'[n]]
      /\ redeemed' \in [DistIds -> SUBSET DistTraders] /\ distHeld' \in Int /\ distHeld' = h
      /\ dist'[m] = d /\ shares'[m] = sh /\ redeemed'[m] = rd
      /\ \A n \in DistIds \ {m} : /\ dist'[n] = dist[n] /\ shares'[n] = shares[n]
                                  /\ redeemed'[n] = redeemed[n]
  BY <1>1, <1>2 DEF DistChanges
<1>4. \A n \in DistIds : DistFit(dist'[n], shares'[n], redeemed'[n])
  BY <1>1, <1>2, <1>3
<1> DEFINE f == Reserves(dist)
           g == Reserves(dist')
           before == dist[m].reserve + dist[m].fees
           after  == d.reserve + d.fees
<1>5. f \in [DistIds -> Int] /\ SumFunction(f) \in Int
  BY <1>2, ReservesInt
<1>6. g \in [DistIds -> Int] /\ SumFunction(g) \in Int
  BY <1>4, ReservesInt
<1>7. f[m] = before /\ g[m] = after /\ \A n \in DistIds \ {m} : g[n] = f[n]
  BY <1>3 DEF Reserves
<1>8. distHeld = SumFunction(f) /\ h - after = distHeld - before
  BY <1>1 DEF DistSafe, DistFunds
<1> HIDE DEF f, g, before, after
<1>9. SumFunction(g) = SumFunction(f) + (g[m] - f[m])
  <2>1. IsFiniteSet(DistIds)
    BY DistAssumption
  <2> QED BY <1>5, <1>6, <1>7, <2>1, TotalChange
<1>10. f[m] \in Int /\ g[m] \in Int
  BY <1>5, <1>6
<1>11. h = SumFunction(g)
  BY <1>1, <1>2, <1>5, <1>6, <1>7, <1>8, <1>9, <1>10
<1> QED BY <1>3, <1>4, <1>11 DEF DistSafe, DistFits, DistFunds, g

LEMMA DistIsFit ==
    ASSUME DistSafe, NEW m \in DistIds
    PROVE  /\ DistFit(dist[m], shares[m], redeemed[m])
           /\ dist[m].reserve \in Nat /\ dist[m].fees \in Nat /\ distHeld \in Int
           /\ dist[m].created => Shared(dist[m].ids, dist[m].q, shares[m])
           /\ shares = [shares EXCEPT ![m] = shares[m]]
           /\ redeemed = [redeemed EXCEPT ![m] = redeemed[m]]
<1>1. DistFit(dist[m], shares[m], redeemed[m])
  BY DEF DistSafe, DistFits
<1> QED BY <1>1 DEF DistSafe, DistFits, DistFit

-----------------------------------------------------------------------------
LEMMA CreateDistKeeps ==
    ASSUME DistSafe, NEW m \in DistIds, NEW ids \in Ladders, NEW closesAt, CreateDist(m, ids, closesAt)
    PROVE  DistSafe'
<1> DEFINE subsidy == Cost(Empty(ids)) + 1
           d  == [NoDist EXCEPT !.created = TRUE, !.ids = ids, !.closesAt = closesAt,
                                !.q = Empty(ids), !.reserve = subsidy]
           sh == [t \in DistTraders |-> Empty(ids)]
           old == dist[m]
<1>1. /\ dist' = [dist EXCEPT ![m] = d] /\ shares' = [shares EXCEPT ![m] = sh]
      /\ distHeld' = distHeld + subsidy /\ UNCHANGED redeemed /\ ~old.created
  BY DEF CreateDist
<1>2. /\ DistFit(old, shares[m], redeemed[m]) /\ distHeld \in Int
      /\ redeemed = [redeemed EXCEPT ![m] = redeemed[m]]
  BY DistIsFit
<1>3. old.status = "Open" /\ old.reserve = 0 /\ old.fees = 0 /\ redeemed[m] = {}
  BY <1>1, <1>2 DEF DistFit, Backed
<1>4. ids \in Seq(Ids) \ {<<>>}
  BY DistAssumption
<1>5. Shared(ids, Empty(ids), sh)
  <2>1. Empty(ids) \in [Buckets(ids) -> Nat]
    BY DEF Empty
  <2>2. ASSUME NEW k \in Buckets(ids) PROVE Empty(ids)[k] = SumFunction(Column(sh, k))
    <3> DEFINE f == Column(sh, k)
    <3>1. f \in [DistTraders -> Int] /\ \A t \in DistTraders : f[t] = 0
      BY DEF Column, Empty
    <3> HIDE DEF f
    <3>2. IsFiniteSet(DistTraders)
      BY DistAssumption
    <3>3. SumFunction(f) = 0
      BY <3>1, <3>2, TotalZero
    <3> QED BY <3>3 DEF f, Empty
  <2> QED BY <1>4, <2>1, <2>2 DEF Shared
<1>6. subsidy \in Nat
  <2>1. Ranges(Empty(ids))
    BY <1>5, SharedRanges
  <2>2. Cost(Empty(ids)) \in Nat
    BY <2>1, CostIs
  <2> QED BY <2>2
<1> HIDE DEF subsidy
<1>7. /\ d = [field \in DistFields |-> d[field]] /\ d.created /\ d.ids = ids /\ d.q = Empty(ids)
      /\ d.status = "Open" /\ d.reserve = subsidy /\ d.fees = 0
  BY DEF NoDist, DistFields
<1> HIDE DEF d, sh, old
<1>8. \A k \in DOMAIN d.q : d.q[k] <= d.reserve
  BY <1>6, <1>7 DEF Empty
<1>9. DistFit(d, sh, {})
  BY <1>5, <1>6, <1>7, <1>8 DEF DistFit, Backed
<1>10. distHeld + subsidy \in Int
       /\ (distHeld + subsidy) - (d.reserve + d.fees) = distHeld - (old.reserve + old.fees)
  BY <1>2, <1>3, <1>6, <1>7
<1>11. redeemed' = [redeemed EXCEPT ![m] = {}]
  BY <1>1, <1>2, <1>3
<1>12. DistChanges(m, d, sh, {}, distHeld + subsidy)
  BY <1>1, <1>9, <1>10, <1>11 DEF DistChanges, old
<1> QED BY <1>12, DistChangeKeeps

(* A trade of an open market that leaves the cost in the reserve.           *)
DistTrade(d, sh, t, k, n, reserve, fees, e, sh2) ==
    /\ Trading(d.ids, d.q, sh, t, k, n, sh2)
    /\ reserve \in Nat /\ fees \in Nat /\ reserve >= Cost(Plus(d.q, k, n))
    /\ e = [d EXCEPT !.q = Plus(@, k, n), !.reserve = reserve, !.fees = fees, !.trades = @ + 1]

LEMMA TradeFits ==
    ASSUME NEW d, NEW sh, NEW rd, DistFit(d, sh, rd), d.created, d.status = "Open",
           NEW t, NEW k, NEW n, NEW reserve, NEW fees, NEW e, NEW sh2,
           DistTrade(d, sh, t, k, n, reserve, fees, e, sh2)
    PROVE  DistFit(e, sh2, rd) /\ e.reserve = reserve /\ e.fees = fees
<1>1. /\ Trading(d.ids, d.q, sh, t, k, n, sh2)
      /\ reserve \in Nat /\ fees \in Nat /\ reserve >= Cost(Plus(d.q, k, n))
      /\ e = [d EXCEPT !.q = Plus(d.q, k, n), !.reserve = reserve, !.fees = fees, !.trades = @ + 1]
  BY DEF DistTrade
<1> DEFINE p == Plus(d.q, k, n)
<1>2. d = [field \in DistFields |-> d[field]] /\ rd = {}
  BY DEF DistFit, Backed
<1>3. Shared(d.ids, p, sh2)
  BY <1>1, SharesMove
<1>4. Ranges(p)
  BY <1>3, SharedRanges
<1>5. Cost(p) \in Nat /\ \A j \in DOMAIN p : p[j] <= Cost(p) /\ p[j] \in Nat
  BY <1>4, CostIs DEF Ranges
<1> HIDE DEF p
<1>6. \A j \in DOMAIN p : p[j] <= reserve
  BY <1>1, <1>5 DEF p
<1>7. /\ e = [field \in DistFields |-> e[field]] /\ e.q = p /\ e.reserve = reserve /\ e.fees = fees
      /\ e.status = "Open" /\ e.created /\ e.ids = d.ids
  <2>1. e = [d EXCEPT !.q = p, !.reserve = reserve, !.fees = fees, !.trades = @ + 1]
    BY <1>1 DEF p
  <2> QED BY <1>2, <2>1 DEF DistFields
<1>8. Backed(e, sh2, rd)
  BY <1>2, <1>6, <1>7 DEF Backed
<1>9. DistFit(e, sh2, rd)
  BY <1>1, <1>2, <1>3, <1>7, <1>8 DEF DistFit
<1> QED BY <1>7, <1>9

LEMMA TradeFeeIs ==
    /\ \A x \in Nat : TradeFee(x) \in Nat /\ TradeFee(x) <= x
    /\ \A x \in Int : x - TradeFee(x) > 0 => x \in Nat
<1>1. TradeFeeBps \in 0..500 /\ \A x : TradeFee(x) = FeeOn(x, TradeFeeBps)
  BY DistAssumption DEF TradeFee, FeeOn, DistBPS
<1>2. \A x \in Nat : TradeFee(x) \in Nat /\ TradeFee(x) <= x
  BY <1>1, FeeFits
<1>3. ASSUME NEW x \in Int, x \notin Nat PROVE ~(x - TradeFee(x) > 0)
  <2> DEFINE y == -x
             p == x * TradeFeeBps
  <2>1. y \in Nat /\ TradeFeeBps \in Nat /\ TradeFeeBps <= 10000 /\ 10000 \in Nat
    BY <1>1, <1>3
  <2>2. TradeFeeBps * y <= 10000 * y /\ TradeFeeBps * y \in Nat
    BY <2>1, TimesNat
  <2>3. p = -(TradeFeeBps * y)
    <3>1. x \in Int /\ y \in Int /\ TradeFeeBps \in Int /\ x = 0 - y
      BY <2>1
    <3>2. (0 - y) * TradeFeeBps = 0 * TradeFeeBps - y * TradeFeeBps
      BY <3>1, TimesFacts
    <3>3. y * TradeFeeBps = TradeFeeBps * y /\ 0 * TradeFeeBps = 0
      BY <3>1, TimesFacts
    <3> QED BY <3>1, <3>2, <3>3
  <2>4. p \in Int /\ p >= 10000 * x
    <3> DEFINE z == TradeFeeBps * y
    <3>1. z \in Nat /\ z <= 10000 * y /\ p = -z /\ y = -x
      BY <2>2, <2>3
    <3> HIDE DEF z, p, y
    <3> QED BY <3>1
  <2>5. TradeFee(x) = p \div 10000
    BY <1>1 DEF FeeOn
  <2> HIDE DEF p
  <2>6. p \div 10000 \in Int /\ p \div 10000 >= x
    BY <2>4
  <2> QED BY <2>5, <2>6
<1> QED BY <1>2, <1>3

LEMMA BuyKeeps ==
    ASSUME DistSafe, NEW m \in DistIds, NEW t \in DistTraders, NEW k \in DOMAIN dist[m].q,
           NEW amount \in BuyAmounts, Buy(m, t, k, amount)
    PROVE  DistSafe'
<1> DEFINE d   == dist[m]
           sh  == shares[m]
           rd  == redeemed[m]
           fee == TradeFee(amount)
           net == amount - fee
<1>1. PICK n \in SharesForCost(d.q, k, net) :
         /\ n > 0
         /\ d.reserve + net >= Cost(Plus(d.q, k, n))
         /\ dist' = [dist EXCEPT ![m].q = Plus(@, k, n), ![m].reserve = @ + net,
                                 ![m].fees = @ + fee, ![m].trades = @ + 1]
         /\ shares' = [shares EXCEPT ![m][t] = Plus(@, k, n)]
  BY DEF Buy
<1>2. d.created /\ d.status = "Open" /\ UNCHANGED redeemed /\ distHeld' = distHeld + amount
  BY DEF Buy, Tradable
<1>3. /\ DistFit(d, sh, rd) /\ d.reserve \in Nat /\ d.fees \in Nat /\ distHeld \in Int
      /\ Shared(d.ids, d.q, sh) /\ redeemed = [redeemed EXCEPT ![m] = rd]
  BY <1>2, DistIsFit
<1>4. amount \in Nat /\ fee \in Nat /\ net \in Nat /\ fee + net = amount
  <2>1. amount \in Nat
    BY DistAssumption
  <2>2. fee \in Nat /\ fee <= amount
    BY <2>1, TradeFeeIs
  <2> QED BY <2>1, <2>2
<1> DEFINE e   == [d EXCEPT !.q = Plus(@, k, n), !.reserve = d.reserve + net,
                            !.fees = d.fees + fee, !.trades = @ + 1]
           sh2 == [sh EXCEPT ![t] = Plus(@, k, n)]
<1>5. dist' = [dist EXCEPT ![m] = e] /\ shares' = [shares EXCEPT ![m] = sh2]
  BY <1>1
<1>6. k \in Buckets(d.ids) /\ Ranges(d.q) /\ sh[t][k] \in Nat
  BY <1>3, SharedRanges
<1> HIDE DEF d, sh, rd, fee, net
<1>7. n \in Nat
  BY <1>1, <1>4, <1>6, BoughtShares DEF d
<1>8. DistTrade(d, sh, t, k, n, d.reserve + net, d.fees + fee, e, sh2)
  <2>1. n \in Int /\ sh[t][k] + n \in Nat
    BY <1>6, <1>7
  <2>2. d.reserve + net \in Nat /\ d.fees + fee \in Nat
    BY <1>3, <1>4
  <2> QED BY <1>1, <1>3, <1>6, <2>1, <2>2 DEF DistTrade, Trading
<1> HIDE DEF e, sh2
<1>9. DistFit(e, sh2, rd) /\ e.reserve = d.reserve + net /\ e.fees = d.fees + fee
  BY <1>2, <1>3, <1>8, TradeFits
<1>10. distHeld + amount \in Int
       /\ (distHeld + amount) - (e.reserve + e.fees) = distHeld - (d.reserve + d.fees)
  BY <1>3, <1>4, <1>9
<1>11. DistChanges(m, e, sh2, rd, distHeld + amount)
  BY <1>2, <1>3, <1>5, <1>9, <1>10 DEF DistChanges, d
<1> QED BY <1>11, DistChangeKeeps

LEMMA SellKeeps ==
    ASSUME DistSafe, NEW m \in DistIds, NEW t \in DistTraders, NEW k \in DOMAIN dist[m].q,
           NEW n \in SellAmounts, Sell(m, t, k, n)
    PROVE  DistSafe'
<1> DEFINE d   == dist[m]
           sh  == shares[m]
           rd  == redeemed[m]
<1>1. PICK gross \in ProceedsForShares(d.q, k, n) :
         /\ gross - TradeFee(gross) > 0
         /\ d.reserve - gross >= Cost(Plus(d.q, k, -n))
         /\ dist' = [dist EXCEPT ![m].q = Plus(@, k, -n), ![m].reserve = @ - gross,
                                 ![m].fees = @ + TradeFee(gross), ![m].trades = @ + 1]
         /\ distHeld' = distHeld - (gross - TradeFee(gross))
  BY DEF Sell
<1>2. /\ d.created /\ d.status = "Open" /\ UNCHANGED redeemed
      /\ shares' = [shares EXCEPT ![m][t] = Plus(@, k, -n)] /\ n \in 1..sh[t][k]
  BY DEF Sell, Tradable
<1>3. /\ DistFit(d, sh, rd) /\ d.reserve \in Nat /\ d.fees \in Nat /\ distHeld \in Int
      /\ Shared(d.ids, d.q, sh) /\ redeemed = [redeemed EXCEPT ![m] = rd]
  BY <1>2, DistIsFit
<1>4. /\ k \in Buckets(d.ids) /\ Ranges(d.q) /\ sh[t][k] \in Nat /\ d.q[k] \in Nat
      /\ sh[t][k] <= d.q[k]
  BY <1>3, SharedRanges
<1> DEFINE e   == [d EXCEPT !.q = Plus(@, k, -n), !.reserve = d.reserve - gross,
                            !.fees = d.fees + TradeFee(gross), !.trades = @ + 1]
           sh2 == [sh EXCEPT ![t] = Plus(@, k, -n)]
<1>5. dist' = [dist EXCEPT ![m] = e] /\ shares' = [shares EXCEPT ![m] = sh2]
  BY <1>1, <1>2
<1> HIDE DEF d, sh, rd
<1>6. /\ -n \in Int /\ sh[t][k] + (-n) \in Nat /\ d.q[k] + (-n) \in Nat
  <2> DEFINE a == sh[t][k]
             b == d.q[k]
  <2>1. a \in Nat /\ b \in Nat /\ a <= b /\ n \in 1..a
    BY <1>2, <1>4
  <2> HIDE DEF a, b
  <2>2. n \in Int /\ -n \in Int /\ a + (-n) \in Nat /\ b + (-n) \in Nat
    BY <2>1
  <2> QED BY <2>2 DEF a, b
<1>7. Cost(d.q) \in Nat /\ Cost(Plus(d.q, k, -n)) \in Nat
  <2>1. k \in DOMAIN d.q
    BY DEF d
  <2>2. Ranges(Plus(d.q, k, -n))
    BY <1>4, <1>6, <2>1, PlusFacts
  <2> QED BY <1>4, <2>2, CostIs
<1>8. gross \in Nat /\ TradeFee(gross) \in Nat
  <2> DEFINE x == Cost(d.q)
             y == Cost(Plus(d.q, k, -n))
  <2>1. gross \in {(x - y) - 1, x - y}
    BY DEF ProceedsForShares
  <2>2. x \in Nat /\ y \in Nat
    BY <1>7
  <2> HIDE DEF x, y
  <2>3. gross \in Int
    BY <2>1, <2>2
  <2> QED BY <1>1, <2>3, TradeFeeIs
<1> DEFINE fee == TradeFee(gross)
           reserve == d.reserve - gross
<1>9. reserve \in Nat /\ d.fees + fee \in Nat /\ reserve >= Cost(Plus(d.q, k, -n))
  <2> DEFINE y == Cost(Plus(d.q, k, -n))
  <2>1. y \in Nat /\ d.reserve - gross >= y
    BY <1>1, <1>7 DEF d
  <2> HIDE DEF y
  <2>2. reserve \in Nat /\ d.fees + fee \in Nat /\ reserve >= y
    BY <1>3, <1>8, <2>1
  <2> QED BY <2>2 DEF y
<1>10. DistTrade(d, sh, t, k, -n, reserve, d.fees + fee, e, sh2)
  BY <1>3, <1>4, <1>6, <1>9 DEF DistTrade, Trading
<1> HIDE DEF e, sh2
<1>11. DistFit(e, sh2, rd) /\ e.reserve = reserve /\ e.fees = d.fees + fee
  BY <1>2, <1>3, <1>10, TradeFits DEF d
<1>12. distHeld' = distHeld - (gross - fee)
  BY <1>1
<1> HIDE DEF fee
<1>13. distHeld - (gross - fee) \in Int
       /\ (distHeld - (gross - fee)) - (e.reserve + e.fees) = distHeld - (d.reserve + d.fees)
  <2>1. fee \in Nat
    BY <1>8 DEF fee
  <2> QED BY <1>3, <1>8, <1>11, <2>1
<1>14. DistChanges(m, e, sh2, rd, distHeld - (gross - fee))
  <2>1. redeemed' = [redeemed EXCEPT ![m] = rd]
    BY <1>2, <1>3
  <2> QED BY <1>5, <1>11, <1>12, <1>13, <2>1 DEF DistChanges, d
<1> QED BY <1>14, DistChangeKeeps
-----------------------------------------------------------------------------
(* All of them together.                                                    *)

LEMMA TruesBucket ==
    ASSUME NEW ids \in Seq(Ids) \ {<<>>}
    PROVE  Cardinality(Trues(ids)) \in Buckets(ids)
<1>1. Trues(ids) \in SUBSET (1..Len(ids)) /\ Len(ids) \in Nat \ {0}
  BY BucketsAre DEF Trues
<1>2. IsFiniteSet(1..Len(ids)) /\ Cardinality(1..Len(ids)) = Len(ids)
  BY <1>1, FS_Interval
<1>3. IsFiniteSet(Trues(ids)) /\ Cardinality(Trues(ids)) <= Len(ids)
  BY <1>1, <1>2, FS_Subset
<1>4. Cardinality(Trues(ids)) \in Nat
  BY <1>3, FS_CardinalityType
<1> DEFINE n == Cardinality(Trues(ids))
<1>5. n \in Nat /\ n <= Len(ids)
  BY <1>3, <1>4
<1> HIDE DEF n
<1>6. n \in 0..Len(ids)
  BY <1>1, <1>5
<1> QED BY <1>6 DEF n, Buckets

(* A market that ends reserves exactly what it will pay at most.            *)
Ending(d, sh, void, w, liability, e) ==
    /\ DistFit(d, sh, {}) /\ d.created /\ d.status = "Open"
    /\ void \in BOOLEAN /\ w \in Buckets(d.ids)
    /\ liability = IF void THEN VoidLiability(d.q) ELSE d.q[w]
    /\ e = [d EXCEPT !.status = IF void THEN "Voided" ELSE "Settled",
                     !.winning = IF void THEN 0 ELSE w,
                     !.fees = 0, !.reserve = liability]

LEMMA EndFits ==
    ASSUME NEW d, NEW sh, NEW void, NEW w, NEW liability, NEW e, Ending(d, sh, void, w, liability, e)
    PROVE  DistFit(e, sh, {}) /\ e.reserve = liability /\ e.fees = 0 /\ liability \in Nat
<1>0. /\ DistFit(d, sh, {}) /\ d.created /\ d.status = "Open"
      /\ void \in BOOLEAN /\ w \in Buckets(d.ids)
      /\ liability = IF void THEN VoidLiability(d.q) ELSE d.q[w]
      /\ e = [d EXCEPT !.status = IF void THEN "Voided" ELSE "Settled",
                       !.winning = IF void THEN 0 ELSE w,
                       !.fees = 0, !.reserve = liability]
  BY DEF Ending
<1>1. d = [field \in DistFields |-> d[field]] /\ Shared(d.ids, d.q, sh)
  BY <1>0 DEF DistFit
<1>2. /\ e = [field \in DistFields |-> e[field]] /\ e.reserve = liability /\ e.fees = 0
      /\ e.created /\ e.ids = d.ids /\ e.q = d.q
      /\ e.status = IF void THEN "Voided" ELSE "Settled"
      /\ e.winning = IF void THEN 0 ELSE w
  BY <1>0, <1>1 DEF DistFields
<1> DEFINE f == Payments(e, sh, {})
<1>3. /\ liability \in Nat /\ SumFunction(f) <= liability
      /\ e.status \in {"Settled", "Voided"}
      /\ e.status = "Settled" => e.winning \in Buckets(d.ids)
  <2>1. CASE void
    <3>1. f = [t \in DistTraders |-> Total(sh[t]) \div Cardinality(DOMAIN d.q)]
      BY <1>2, <2>1 DEF Payments, Pay
    <3> HIDE DEF f
    <3>2. SumFunction(f) <= VoidLiability(d.q) /\ VoidLiability(d.q) \in Nat
      BY <1>1, <3>1, AllPaidAlike
    <3>3. liability = VoidLiability(d.q) /\ e.status = "Voided"
      BY <1>0, <1>2, <2>1
    <3> QED BY <3>2, <3>3
  <2>2. CASE ~void
    <3>1. f = Column(sh, w)
      BY <1>2, <2>2 DEF Payments, Pay, Column
    <3> HIDE DEF f
    <3>2. d.q[w] = SumFunction(Column(sh, w)) /\ d.q[w] \in Nat
      BY <1>0, <1>1 DEF Shared
    <3>3. liability = d.q[w] /\ e.status = "Settled" /\ e.winning = w
      BY <1>0, <1>2, <2>2
    <3>4. d.q[w] <= d.q[w]
      BY <3>2
    <3> QED BY <1>0, <3>1, <3>2, <3>3, <3>4
  <2> QED BY <1>0, <2>1, <2>2
<1> HIDE DEF f
<1>4. Backed(e, sh, {})
  BY <1>2, <1>3 DEF Backed, f
<1>5. DistFit(e, sh, {})
  BY <1>1, <1>2, <1>3, <1>4 DEF DistFit
<1> QED BY <1>2, <1>3, <1>5

LEMMA SettleDistKeeps ==
    ASSUME DistSafe, NEW m \in DistIds, SettleDist(m)
    PROVE  DistSafe'
<1> DEFINE d    == dist[m]
           sh   == shares[m]
           void == Inconsistent(d.ids)
           w    == Cardinality(Trues(d.ids))
           liability == IF void THEN VoidLiability(d.q) ELSE d.q[w]
           e    == [d EXCEPT !.status = IF void THEN "Voided" ELSE "Settled",
                             !.winning = IF void THEN 0 ELSE w,
                             !.fees = 0, !.reserve = liability]
           h    == distHeld - d.fees - (d.reserve - liability)
<1>1. /\ d.created /\ d.status = "Open" /\ dist' = [dist EXCEPT ![m] = e] /\ distHeld' = h
      /\ UNCHANGED <<shares, redeemed>>
  BY DEF SettleDist
<1>2. /\ DistFit(d, sh, redeemed[m]) /\ d.reserve \in Nat /\ d.fees \in Nat /\ distHeld \in Int
      /\ Shared(d.ids, d.q, sh) /\ shares = [shares EXCEPT ![m] = sh]
      /\ redeemed = [redeemed EXCEPT ![m] = redeemed[m]]
  BY <1>1, DistIsFit
<1>3. redeemed[m] = {}
  BY <1>1, <1>2 DEF DistFit, Backed
<1>4. w \in Buckets(d.ids) /\ void \in BOOLEAN
  <2>1. d.ids \in Seq(Ids) \ {<<>>}
    BY <1>2 DEF Shared
  <2>2. w \in Buckets(d.ids)
    BY <2>1, TruesBucket
  <2>3. Inconsistent(d.ids) \in BOOLEAN
    BY DEF Inconsistent
  <2> QED BY <2>2, <2>3
<1> HIDE DEF d, sh, void, w, liability
<1>5. /\ liability = (IF void THEN VoidLiability(d.q) ELSE d.q[w])
      /\ DistFit(d, sh, {})
  BY <1>2, <1>3 DEF liability
<1>6. DistFit(e, sh, {}) /\ e.reserve = liability /\ e.fees = 0 /\ liability \in Nat
  <2>1. Ending(d, sh, void, w, liability, e)
    BY <1>1, <1>4, <1>5 DEF Ending
  <2> HIDE DEF e
  <2> QED BY <2>1, EndFits
<1> HIDE DEF e
<1>7. h \in Int /\ h - (e.reserve + e.fees) = distHeld - (d.reserve + d.fees)
  BY <1>2, <1>6
<1> HIDE DEF h
<1>8. /\ dist' = [dist EXCEPT ![m] = e] /\ shares' = [shares EXCEPT ![m] = sh]
      /\ redeemed' = [redeemed EXCEPT ![m] = {}] /\ distHeld' = h
  BY <1>1, <1>2, <1>3
<1>9. DistChanges(m, e, sh, {}, h)
  BY <1>6, <1>7, <1>8 DEF DistChanges, d
<1> QED BY <1>9, DistChangeKeeps

LEMMA RedeemKeeps ==
    ASSUME DistSafe, NEW m \in DistIds, NEW t \in DistTraders, Redeem(m, t)
    PROVE  DistSafe'
<1> DEFINE d   == dist[m]
           sh  == shares[m]
           rd  == redeemed[m]
           pay == Pay(d, sh, t)
           e   == [d EXCEPT !.reserve = @ - Pay(d, sh, t)]
<1>1. /\ t \notin rd /\ pay > 0 /\ redeemed' = [redeemed EXCEPT ![m] = rd \cup {t}]
      /\ dist' = [dist EXCEPT ![m] = e] /\ distHeld' = distHeld - pay /\ UNCHANGED shares
  BY DistPayoutIs DEF Redeem
<1>2. /\ DistFit(d, sh, rd) /\ distHeld \in Int /\ shares = [shares EXCEPT ![m] = sh]
  BY DistIsFit
<1>3. d.status # "Open"
  <2>1. d.status = "Open" => pay = 0
    BY DEF Pay
  <2> HIDE DEF pay
  <2> QED BY <1>1, <2>1
<1>4. d.created
  BY <1>2, <1>3 DEF DistFit
<1> HIDE DEF d, sh, rd, e
<1>5. DistFit(e, sh, rd \cup {t}) /\ e.reserve = d.reserve - pay /\ e.fees = d.fees
      /\ pay \in Nat /\ d.reserve \in Nat /\ d.fees \in Nat
  BY <1>1, <1>2, <1>3, <1>4, RedeemFits DEF e
<1> HIDE DEF pay
<1>6. distHeld - pay \in Int
      /\ (distHeld - pay) - (e.reserve + e.fees) = distHeld - (d.reserve + d.fees)
  BY <1>2, <1>5
<1>7. DistChanges(m, e, sh, rd \cup {t}, distHeld - pay)
  BY <1>1, <1>2, <1>5, <1>6 DEF DistChanges, d
<1> QED BY <1>7, DistChangeKeeps

LEMMA DistSafeStep ==
    ASSUME DistSafe, [AppNext]_appVars
    PROVE  DistSafe'
<1>1. CASE UNCHANGED distVars
  <2>1. UNCHANGED <<dist, shares, redeemed, distHeld>>
    BY <1>1 DEF distVars
  <2> QED BY <2>1 DEF DistSafe, DistFits, DistFunds, Reserves
<1>2. CASE DistStep
  <2>1. PICK m \in DistIds :
           \/ \E ids \in Ladders, closesAt \in DistCloseTimes : CreateDist(m, ids, closesAt)
           \/ \E t \in DistTraders, k \in DOMAIN dist[m].q :
                 \/ \E amount \in BuyAmounts : Buy(m, t, k, amount)
                 \/ \E n \in SellAmounts : Sell(m, t, k, n)
           \/ SettleDist(m)
           \/ \E t \in DistTraders : Redeem(m, t)
    BY <1>2 DEF DistStep
  <2> QED BY <2>1, CreateDistKeeps, BuyKeeps, SellKeeps, SettleDistKeeps, RedeemKeeps
<1> QED BY <1>1, <1>2 DEF AppNext, appVars

LEMMA DistSafeInitially == AppInit => DistSafe
<1> SUFFICES ASSUME AppInit PROVE DistSafe
  OBVIOUS
<1>1. /\ dist = [m \in DistIds |-> NoDist]
      /\ shares = [m \in DistIds |-> [t \in DistTraders |-> <<>>]]
      /\ redeemed = [m \in DistIds |-> {}] /\ distHeld = 0
  BY DEF AppInit, DistInit
<1>2. /\ NoDist = [field \in DistFields |-> NoDist[field]] /\ NoDist.status = "Open"
      /\ NoDist.q = <<>> /\ NoDist.reserve = 0 /\ NoDist.fees = 0 /\ ~NoDist.created
  BY DEF NoDist, DistFields
<1>3. ASSUME NEW sh PROVE DistFit(NoDist, sh, {})
  <2>1. \A k \in DOMAIN NoDist.q : NoDist.q[k] <= NoDist.reserve
    BY <1>2
  <2> QED BY <1>2, <2>1 DEF DistFit, Backed
<1>4. DistFits
  BY <1>1, <1>3 DEF DistFits
<1> DEFINE f == Reserves(dist)
<1>5. f \in [DistIds -> Int] /\ \A m \in DistIds : f[m] = 0
  BY <1>1, <1>2 DEF Reserves
<1>6. SumFunction(f) = 0
  <2>1. IsFiniteSet(DistIds)
    BY DistAssumption
  <2> HIDE DEF f
  <2> QED BY <1>5, <2>1, TotalZero
<1> QED BY <1>1, <1>4, <1>6 DEF DistSafe, DistFunds

LEMMA FeesAreDue == DistSafe => FeesDue
<1> SUFFICES ASSUME DistSafe, NEW m \in DistIds, dist[m].created
             PROVE  dist[m].ids \in Seq(Ids) \ {<<>>} /\ dist[m].fees \in Nat
  BY DEF FeesDue
<1> QED BY DistIsFit DEF Shared

-----------------------------------------------------------------------------
LEMMA VaultInitially == AppInit => VaultInv /\ SharesInv
<1> SUFFICES ASSUME AppInit PROVE VaultInv /\ SharesInv
  OBVIOUS
<1>1. /\ known = {} /\ reported = [e \in EventIds |-> {}] /\ voted = [e \in EventIds |-> {}]
      /\ managerSet = FALSE /\ pendingFees = [e \in EventIds |-> 0]
      /\ rewards = [e \in EventIds |-> NoRewards]
      /\ resolverClaimed = NoClaims /\ committeeClaimed = NoClaims
      /\ treasuryBalance = 0 /\ insuranceReserve = 0 /\ held = 0
  BY DEF AppInit, VaultInit
<1>2. NoRewards \in RewardRecord /\ NothingIn(NoRewards) /\ ~NoRewards.decided /\ InPools(NoRewards) = 0
  BY DEF NoRewards, RewardRecord, NothingIn, InPools
<1>3. NoClaims \in [EventIds -> [Resolvers -> Nat]]
      /\ \A e \in EventIds, who \in Resolvers : NoClaims[e][who] = 0
  BY DEF NoClaims
<1>4. VaultTyped
  <2>1. /\ pendingFees \in [EventIds -> Nat] /\ rewards \in [EventIds -> RewardRecord]
        /\ \A e \in EventIds : NothingIn(rewards[e])
    BY <1>1, <1>2
  <2>2. /\ resolverClaimed \in [EventIds -> [Resolvers -> Nat]]
        /\ committeeClaimed \in [EventIds -> [Resolvers -> Nat]]
    BY <1>1, <1>3
  <2>3. /\ reported \in [EventIds -> SUBSET Resolvers] /\ voted \in [EventIds -> SUBSET Resolvers]
        /\ known \subseteq Ids /\ managerSet \in BOOLEAN
    BY <1>1
  <2>4. treasuryBalance \in Int /\ insuranceReserve \in Nat /\ held \in Int
    BY <1>1
  <2> QED BY <2>1, <2>2, <2>3, <2>4 DEF VaultTyped
<1>5. ASSUME NEW e \in EventIds PROVE ClaimsOf(NoClaims[e], NoClaims[e]) = 0
  <2> DEFINE f == [who \in Resolvers |-> NoClaims[e][who] + NoClaims[e][who]]
  <2>1. f \in [Resolvers -> Int] /\ \A who \in Resolvers : f[who] = 0
    BY <1>3
  <2>2. IsFiniteSet(Resolvers)
    BY VaultAssumption
  <2> HIDE DEF f
  <2>3. SumFunction(f) = 0
    BY <2>1, <2>2, TotalZero
  <2> QED BY <2>3 DEF f, ClaimsOf
<1> DEFINE g == Accounts(pendingFees, rewards, resolverClaimed, committeeClaimed)
<1>6. g \in [EventIds -> Int] /\ \A e \in EventIds : g[e] = 0
  BY <1>1, <1>2, <1>5 DEF Accounts, Account
<1>7. SumFunction(g) = 0
  <2>1. IsFiniteSet(EventIds)
    BY VaultAssumption
  <2> HIDE DEF g
  <2> QED BY <1>6, <2>1, TotalZero
<1>8. Balanced
  BY <1>1, <1>7, BalancedIs
<1>9. SharesInv
  <2>1. ~(0 > 0)
    OBVIOUS
  <2> QED BY <1>1, <1>2, <1>3, <2>1 DEF SharesInv, FairAt, Fair
<1> QED BY <1>4, <1>8, <1>9 DEF VaultInv

(* The accounts of all four contracts.                                      *)
AccountsInv == MarketInv /\ DistSafe /\ PoolsInv /\ MarketsInv /\ VaultInv /\ SharesInv

LEMMA AccountsInvariant == AppSpec => []AccountsInv
<1>1. AppInit => AccountsInv
  BY MarketInitially, DistSafeInitially, PoolsInitially, MarketsInitially, VaultInitially DEF AccountsInv
<1>2. AccountsInv /\ [AppNext]_appVars => AccountsInv'
  <2> SUFFICES ASSUME AccountsInv, [AppNext]_appVars PROVE AccountsInv'
    OBVIOUS
  <2>1. FeedOK /\ MarketOK /\ FeesDue
    BY FeesAreDue DEF AccountsInv, MarketInv
  <2>2. MarketInv' /\ DistSafe' /\ PoolsInv'
    BY MarketStepInv, DistSafeStep, PoolsInvStep DEF AccountsInv
  <2>3. MarketsInv'
    BY <2>1, MarketsInvStep DEF AccountsInv
  <2>4. VaultInv'
    BY <2>1, VaultInvStep DEF AccountsInv
  <2>5. SharesInv'
    BY <2>1, SharesInvStep DEF AccountsInv
  <2> QED BY <2>2, <2>3, <2>4, <2>5 DEF AccountsInv
<1> QED BY <1>1, <1>2, PTL DEF AppSpec

(* The vault holds what its accounts say, to the last unit, however many    *)
(* events, resolvers and consumers share it and in whatever order they act. *)
THEOREM VaultBalances == AppSpec => []Balanced
BY AccountsInvariant, PTL DEF AccountsInv, VaultInv

(* Nobody is ever paid more than an equal share of the pools they won.      *)
THEOREM SharesAreEqual == AppSpec => []SharesRespected
<1>1. AccountsInv => SharesRespected
  BY DEF AccountsInv, SharesInv, FairAt, Fair, SharesRespected
<1> QED BY <1>1, AccountsInvariant, PTL

(* The balance of the markets covers every stake of the open ones and every *)
(* payout that is still due, after fees and all roundings.                  *)
THEOREM MarketsArePaid == AppSpec => []MarketSolvent
BY AccountsInvariant, PTL DEF AccountsInv, MarketsInv

(* A refund is the whole stake, a winner keeps at least the stake on the    *)
(* winning side, and without winners no fee is taken.                       *)
THEOREM StakesComeBack == AppSpec => []StakesReturned
<1>1. AccountsInv => StakesReturned
  BY StakesAreReturned DEF AccountsInv, MarketInv
<1> QED BY <1>1, AccountsInvariant, PTL

(* The reserve of a range market pays whatever the boundaries may say, for  *)
(* any weights that do not grow, any trades and any order of redeeming.     *)
THEOREM RangesArePaid == AppSpec => []DistSolvent
<1>1. AccountsInv => DistSolvent
  BY DistIsSolvent DEF AccountsInv
<1> QED BY <1>1, AccountsInvariant, PTL
=============================================================================
