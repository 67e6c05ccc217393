----------------------------- MODULE RewardsDuty -----------------------------
(***************************************************************************)
(* resolver/node/rewards.ts: a node that claims its share of the vault.    *)
(* Per event it adds up what is pending and what it can claim, and sends   *)
(* its two claims when that sum is neither 0 nor the last one it acted on. *)
(* Every call is mined at once or refused by the simulation: what goes     *)
(* wrong here needs no failure.                                            *)
(***************************************************************************)
EXTENDS TreasuryVault

CONSTANT Node      \* the resolver this daemon signs for

VARIABLES
    checked,       \* checked[e]: the last sum it acted on; 0 for none
    claiming       \* the claims still to send: pairs of a function and an event

dutyVars == <<checked, claiming>>
allVars  == <<vars, dutyVars>>

DutyInit == VaultInit /\ checked = [e \in EventIds |-> 0] /\ claiming = <<>>

ClaimableResolverReward(e) ==
    IF rewards[e].decided /\ rewards[e].resolverWinners > 0 /\ Node \in reported[e]
    THEN ResolverShare(rewards[e]) - resolverClaimed[e][Node] ELSE 0

ClaimableCommitteeReward(e) ==
    IF rewards[e].decided /\ rewards[e].committeeWinners > 0 /\ Node \in voted[e]
    THEN CommitteeShare(rewards[e]) - committeeClaimed[e][Node] ELSE 0

Fingerprint(e) == pendingFees[e] + ClaimableResolverReward(e) + ClaimableCommitteeReward(e)

Tick(e) ==
    /\ claiming = <<>>
    /\ view[e] \in {"True", "False"}
    /\ Fingerprint(e) \notin {0, checked[e]}
    /\ checked' = [checked EXCEPT ![e] = Fingerprint(e)]
    /\ claiming' = <<<<"resolver", e>>, <<"committee", e>>>>
    /\ UNCHANGED vars

(* send: the simulation refuses a claim of nothing.                         *)
WouldPay(fn, e) ==
    LET third == pendingFees[e] \div 3
        r     == Snapshot(e)
    IN  IF fn = "resolver"
        THEN /\ Node \in reported[e]
             /\ (r.resolverPool + third) \div r.resolverWinners > resolverClaimed[e][Node]
        ELSE /\ Node \in voted[e] /\ r.committeeWinners > 0
             /\ (r.committeePool + third + Bonus(e, r)) \div r.committeeWinners
                   > committeeClaimed[e][Node]

SendClaim ==
    /\ claiming # <<>>
    /\ LET fn == Head(claiming)[1]
           e  == Head(claiming)[2]
       IN  \/ fn = "resolver" /\ ClaimResolverReward(e, Node)
           \/ fn = "committee" /\ ClaimCommitteeReward(e, Node)
           \/ ~WouldPay(fn, e) /\ UNCHANGED vars
    /\ claiming' = Tail(claiming)
    /\ UNCHANGED checked

DutyNext == \/ \E e \in EventIds : Tick(e)
            \/ SendClaim
            \/ (WorldStep \/ VaultStep \/ ConsumerStep) /\ UNCHANGED dutyVars

DutySpec == /\ DutyInit /\ [][DutyNext]_allVars
            /\ \A e \in EventIds : SF_allVars(Tick(e))
            /\ WF_allVars(SendClaim)

-----------------------------------------------------------------------------
(* rewards.ts:11: the duty "claims this node's share of the TreasuryVault's *)
(* per-event thirds", so what it can claim it does.                         *)
ClaimsItsShare ==
    \A e \in EventIds :
        /\ ClaimableResolverReward(e) > 0 ~> ClaimableResolverReward(e) = 0
        /\ ClaimableCommitteeReward(e) > 0 ~> ClaimableCommitteeReward(e) = 0
=============================================================================
