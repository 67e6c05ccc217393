---------------------------- MODULE TreasuryVault ----------------------------
(***************************************************************************)
(* contracts/TreasuryVault.sol: the fees of the markets, split per event   *)
(* among the resolvers who reported its outcome, the committee that        *)
(* decided it (or the insurance reserve) and the treasury, and claimed at  *)
(* any time after.                                                         *)
(*                                                                         *)
(* The contracts the vault reads are abstract: ids settle as OutcomeFeed   *)
(* says, and with the answer of an event comes who reported it and who, on *)
(* the committee of the deciding tier, voted for it.  The counts the vault *)
(* reads are the sizes of these sets (EventRegistry!CountsAgree and        *)
(* DisputeManager!TierCountsAgree).                                        *)
(***************************************************************************)
EXTENDS Integers, Sequences, FiniteSetsExt

CONSTANTS
    EventIds,       \* the ids of events
    CompositeIds,   \* the ids of composites
    Operands,       \* Operands[c]: the definition c is the hash of
    Resolvers,
    Groups,         \* bound: the sets of resolvers that may have reported or judged
    Amounts,        \* the fees consumers deposit
    Withdrawals,    \* what the owner withdraws at once
    MaxIds,         \* bound: the longest list of ids of a deposit
    MaxIncome       \* bound: what unknown consumers deposit in all

Ids == EventIds \cup CompositeIds

ASSUME VaultAssumption ==
    /\ EventIds \cap CompositeIds = {}
    /\ Operands \in [CompositeIds -> Seq(Ids) \ {<<>>}]
    /\ IsFiniteSet(EventIds) /\ IsFiniteSet(Resolvers) /\ Groups \subseteq SUBSET Resolvers
    /\ Amounts \cup Withdrawals \subseteq Nat \ {0}
    /\ {MaxIds, MaxIncome} \subseteq Nat

VARIABLES
    view,           \* what the bus says of each id
    known,          \* the events of the registry, the composites of the composer
    reported,       \* reported[e]: the resolvers who observed the outcome of e
    voted,          \* voted[e]: the committee members who voted for it
    managerSet,     \* disputeManager is set
    pendingFees, rewards, resolverClaimed, committeeClaimed,
    treasuryBalance, insuranceReserve,
    held,           \* collateral.balanceOf(vault)
    income          \* what unknown consumers deposited so far, up to MaxIncome

worldVars == <<view, known, reported, voted>>
splitVars == <<pendingFees, rewards, treasuryBalance, insuranceReserve>>
vaultVars == <<managerSet, splitVars, resolverClaimed, committeeClaimed, held, income>>
vars      == <<worldVars, vaultVars>>

Feed == INSTANCE OutcomeFeed

NoRewards == [decided |-> FALSE, resolverWinners |-> 0, committeeWinners |-> 0,
              resolverPool |-> 0, committeePool |-> 0]
NoClaims  == [e \in EventIds |-> [r \in Resolvers |-> 0]]

VaultInit == /\ Feed!Init
             /\ known = {}
             /\ reported = [e \in EventIds |-> {}]
             /\ voted = [e \in EventIds |-> {}]
             /\ managerSet = FALSE
             /\ pendingFees = [e \in EventIds |-> 0]
             /\ rewards = [e \in EventIds |-> NoRewards]
             /\ resolverClaimed = NoClaims
             /\ committeeClaimed = NoClaims
             /\ treasuryBalance = 0
             /\ insuranceReserve = 0
             /\ held = 0
             /\ income = 0

-----------------------------------------------------------------------------
(* The events and composites the vault asks about.                          *)
Learn(id) == /\ id \notin known
             /\ id \in CompositeIds => \A i \in DOMAIN Operands[id] : Operands[id][i] \in known
             /\ known' = known \cup {id}
             /\ UNCHANGED <<view, reported, voted, vaultVars>>

(* An event is decided by those who observed it or by a committee.          *)
Settle(id, v) ==
    /\ id \in known
    /\ v # "Pending"
    /\ Feed!Settle(id, v)
    /\ IF id \in EventIds /\ v # "Voided"
       THEN \E who, judges \in Groups :
               /\ who \cup judges # {}
               /\ reported' = [reported EXCEPT ![id] = who]
               /\ voted' = [voted EXCEPT ![id] = judges]
       ELSE UNCHANGED <<reported, voted>>
    /\ UNCHANGED <<known, vaultVars>>

SetDisputeManager == /\ ~managerSet
                     /\ managerSet' = TRUE
                     /\ UNCHANGED <<worldVars, splitVars, resolverClaimed, committeeClaimed,
                                    held, income>>

-----------------------------------------------------------------------------
(* _attribute: what event e gets of an amount tagged with id.  The operands *)
(* of a composite share it, those that are composites themselves excepted.  *)
Attributed(id, amount, e) ==
    CASE id = e /\ e \in known             -> amount
      [] id \in CompositeIds \cap known   ->
             (amount \div Len(Operands[id])) * Cardinality({i \in DOMAIN Operands[id] : Operands[id][i] = e})
      [] OTHER                            -> 0

(* depositFees: an equal share for each id, and the treasury keeps the rest. *)
Credit(ids, amount) ==
    [e \in EventIds |->
        SumFunction([i \in DOMAIN ids |-> Attributed(ids[i], amount \div Len(ids), e)])]

DepositFees(ids, amount) ==
    LET credit == Credit(ids, amount) IN
    /\ held' = held + amount
    /\ pendingFees' = [e \in EventIds |-> pendingFees[e] + credit[e]]
    /\ treasuryBalance' = treasuryBalance + amount - SumFunction(credit)
    /\ UNCHANGED <<worldVars, managerSet, rewards, insuranceReserve,
                   resolverClaimed, committeeClaimed>>

-----------------------------------------------------------------------------
Snapshot_Again(e) ==  \* mutant: the pools are those of the last allocation
    [NoRewards EXCEPT !.decided = TRUE,
                      !.resolverWinners = Cardinality(reported[e]),
                      !.committeeWinners = IF managerSet THEN Cardinality(voted[e]) ELSE 0]

(* _snapshot, on the first allocation: without a dispute manager nobody is  *)
(* known to have judged.                                                    *)
Snapshot(e) ==
    IF rewards[e].decided THEN rewards[e]
    ELSE [NoRewards EXCEPT !.decided = TRUE,
                           !.resolverWinners = Cardinality(reported[e]),
                           !.committeeWinners = IF managerSet THEN Cardinality(voted[e]) ELSE 0]

ToResolvers(e, r) == IF r.resolverWinners > 0 THEN pendingFees[e] \div 3 ELSE 0

(* What the insurance reserve adds to the third of a committee.             *)
Bonus(e, r) ==
    IF r.committeeWinners = 0 THEN 0
    ELSE Min({insuranceReserve, pendingFees[e] \div 3})

Split_Shared(e) ==  \* mutant: the bonus is not taken from the reserve
    LET third == pendingFees[e] \div 3
        r     == Snapshot(e)
    IN  /\ rewards' = [rewards EXCEPT ![e] =
             [r EXCEPT !.resolverPool = @ + ToResolvers(e, r),
                       !.committeePool = @ + IF r.committeeWinners > 0 THEN third + Bonus(e, r) ELSE 0]]
        /\ insuranceReserve' = insuranceReserve + IF r.committeeWinners > 0 THEN 0 ELSE third
        /\ treasuryBalance' = treasuryBalance + pendingFees[e] - third - ToResolvers(e, r)

Split(e) ==
    LET third == pendingFees[e] \div 3
        r     == Snapshot(e)
    IN  /\ rewards' = [rewards EXCEPT ![e] =
             [r EXCEPT !.resolverPool = @ + ToResolvers(e, r),
                       !.committeePool = @ + IF r.committeeWinners > 0 THEN third + Bonus(e, r) ELSE 0]]
        /\ insuranceReserve' = insuranceReserve + IF r.committeeWinners > 0 THEN -Bonus(e, r) ELSE third
        /\ treasuryBalance' = treasuryBalance + pendingFees[e] - third - ToResolvers(e, r)

(* allocate, which a claim calls first: nothing without pending fees, the   *)
(* treasury gets those of a void event, and it reverts while e is open.     *)
Book(e) ==
    \/ /\ pendingFees[e] = 0
       /\ UNCHANGED splitVars
    \/ /\ pendingFees[e] > 0
       /\ pendingFees' = [pendingFees EXCEPT ![e] = 0]
       /\ \/ /\ view[e] = "Voided"
             /\ treasuryBalance' = treasuryBalance + pendingFees[e]
             /\ UNCHANGED <<rewards, insuranceReserve>>
          \/ /\ view[e] \in {"True", "False"}
             /\ Split(e)

Allocate(e) == /\ pendingFees[e] > 0
               /\ Book(e)
               /\ UNCHANGED <<worldVars, managerSet, resolverClaimed, committeeClaimed, held, income>>

-----------------------------------------------------------------------------
(* What a winner is entitled to in all, of a pool that still grows.         *)
ResolverShare(r)  == r.resolverPool \div r.resolverWinners
CommitteeShare(r) == r.committeePool \div r.committeeWinners

ClaimResolverReward(e, who) ==
    /\ who \in reported[e]
    /\ Book(e)
    /\ rewards'[e].decided /\ rewards'[e].resolverWinners > 0
    /\ LET amount == ResolverShare(rewards'[e]) - resolverClaimed[e][who] IN
       /\ amount > 0
       /\ resolverClaimed' = [resolverClaimed EXCEPT ![e][who] = @ + amount]
       /\ held' = held - amount
    /\ UNCHANGED <<worldVars, managerSet, committeeClaimed, income>>

ClaimCommitteeReward(e, who) ==
    /\ who \in voted[e]
    /\ Book(e)
    /\ rewards'[e].decided /\ rewards'[e].committeeWinners > 0
    /\ LET amount == CommitteeShare(rewards'[e]) - committeeClaimed[e][who] IN
       /\ amount > 0
       /\ committeeClaimed' = [committeeClaimed EXCEPT ![e][who] = @ + amount]
       /\ held' = held - amount
    /\ UNCHANGED <<worldVars, managerSet, resolverClaimed, income>>

WithdrawTreasury(amount) ==
    /\ amount <= treasuryBalance
    /\ treasuryBalance' = treasuryBalance - amount
    /\ held' = held - amount
    /\ UNCHANGED <<worldVars, managerSet, pendingFees, rewards, insuranceReserve,
                   resolverClaimed, committeeClaimed, income>>

WithdrawInsurance(amount) ==
    /\ amount <= insuranceReserve
    /\ insuranceReserve' = insuranceReserve - amount
    /\ held' = held - amount
    /\ UNCHANGED <<worldVars, managerSet, pendingFees, rewards, treasuryBalance,
                   resolverClaimed, committeeClaimed, income>>

WorldStep == \/ \E id \in Ids : Learn(id)
             \/ \E id \in Ids, v \in Feed!Views : Settle(id, v)

VaultStep ==
    \/ SetDisputeManager
    \/ \E e \in EventIds : \/ Allocate(e)
                           \/ \E who \in Resolvers : \/ ClaimResolverReward(e, who)
                                                     \/ ClaimCommitteeReward(e, who)
    \/ \E amount \in Withdrawals : WithdrawTreasury(amount) \/ WithdrawInsurance(amount)

(* Anybody may deposit, for any ids.                                        *)
ConsumerStep == \E n \in 1..MaxIds : \E ids \in [1..n -> Ids], amount \in Amounts :
                    /\ income + amount <= MaxIncome
                    /\ income' = income + amount
                    /\ DepositFees(ids, amount)

VaultSpec == VaultInit /\ [][WorldStep \/ VaultStep \/ ConsumerStep]_vars

-----------------------------------------------------------------------------
Claimed(e) == SumFunction([who \in Resolvers |-> resolverClaimed[e][who] + committeeClaimed[e][who]])
Pools(e)   == rewards[e].resolverPool + rewards[e].committeePool

(* The accounts of all events share one balance, and it is exactly what     *)
(* they say: fees nobody split yet, the treasury, the reserve, and pools    *)
(* from which only the claims have been paid (allocate moves the reserve of *)
(* one event into the pool of another).                                     *)
Balanced ==
    held = treasuryBalance + insuranceReserve
             + SumFunction([e \in EventIds |-> pendingFees[e] + Pools(e) - Claimed(e)])

(* No winner ever got more than an equal share of the pools, whenever and   *)
(* how often each claimed while they grew: the subtraction in the claims    *)
(* never reverts, and no claim is paid with the share of another.           *)
SharesRespected ==
    \A e \in EventIds, who \in Resolvers :
        /\ resolverClaimed[e][who] > 0 =>
              who \in reported[e] /\ resolverClaimed[e][who] <= ResolverShare(rewards[e])
        /\ committeeClaimed[e][who] > 0 =>
              who \in voted[e] /\ committeeClaimed[e][who] <= CommitteeShare(rewards[e])
=============================================================================
