-------------------------- MODULE DisputeManager --------------------------
(***************************************************************************)
(* contracts/DisputeManager.sol on top of the registry it drives: a bonded *)
(* dispute or a quorum that never converged opens Tier 1; a tier without   *)
(* agreement leads to Tier 2, and from there to a void event.  A pool      *)
(* larger than a tier's committee is drawn from by commit-reveal.  Every   *)
(* action is one transaction of one caller, with the registry calls it     *)
(* makes; the payments of the contract are pull payments.                  *)
(*                                                                         *)
(* tierAge[e] is the time since the current tier of e was opened and, once *)
(* its committee is drawn, since the draw; it stops at MaxTierAge.         *)
(***************************************************************************)
EXTENDS EventRegistry, FiniteSetsExt

CONSTANTS
    Accounts,           \* every address that pays or is paid: resolvers, disputers, treasury
    Disputers,          \* the addresses that may challenge a proposal
    Treasury,           \* the address of the treasury
    BondUnit,           \* DISPUTE_BOND in wei; the tiers bond 3 and 8 times as much
    CommitteeSize,      \* CommitteeSize[t]: TIER1_COMMITTEE_SIZE, TIER2_COMMITTEE_SIZE
    TierWindow,         \* TierWindow[t]: TIER1_WINDOW, TIER2_WINDOW
    SeedCommitWindow,
    SeedRevealWindow,
    MaxTierAge          \* the age at which the clock of a tier stops

TierNums == {1, 2}

ASSUME DisputeAssumption ==
    /\ IsFiniteSet(EventIds) /\ IsFiniteSet(Accounts)
    /\ Resolvers \cup Disputers \cup {Treasury} \subseteq Accounts
    /\ BondUnit \in Nat \ {0}
    /\ CommitteeSize \in [TierNums -> Nat \ {0}]
    /\ TierWindow \in [TierNums -> Nat]
    /\ {SeedCommitWindow, SeedRevealWindow} \subseteq Nat
    /\ MaxTierAge \in Nat
    /\ \A t \in TierNums : TierWindow[t] <= MaxTierAge
    /\ SeedCommitWindow + SeedRevealWindow <= MaxTierAge

VARIABLES
    cases,              \* _cases
    tiers,              \* _tiers[e][t]; bondAmount is TierBond(t) once opened
    tierAge,            \* time since the current tier of e opened, or was drawn
    pendingWithdrawals, \* ETH owed to each account
    balance,            \* ETH the contract holds
    burned              \* ETH sent to BURN_ADDRESS

caseVars == <<cases, tiers, tierAge>>
dmVars   == <<caseVars, pendingWithdrawals, balance, burned>>
vars     == <<regVars, dmVars>>

TierBond(t) == IF t = 1 THEN 3 * BondUnit ELSE 8 * BondUnit

NoCase == [exists |-> FALSE, resolved |-> FALSE, hasOriginalProposal |-> FALSE,
           originalOutcome |-> FALSE, disputer |-> Treasury, tier |-> 1]

NewTier == [committee |-> {}, drawn |-> FALSE, trueVotes |-> 0, falseVotes |-> 0,
            votes |-> [r \in Resolvers |-> "NotVoted"], seeding |-> FALSE,
            commits |-> 0, reveals |-> 0, commitments |-> {}, revealedSeed |-> {}]

DMInit == /\ cases = [e \in EventIds |-> NoCase]
          /\ tiers = [e \in EventIds |-> [t \in TierNums |-> NewTier]]
          /\ tierAge = [e \in EventIds |-> 0]
          /\ pendingWithdrawals = [a \in Accounts |-> 0]
          /\ balance = 0
          /\ burned = 0

Init == RegInit /\ DMInit

-----------------------------------------------------------------------------
InTier(e, t) == cases[e].exists /\ ~cases[e].resolved /\ cases[e].tier = t

(* _openTier: a pool that fits is the committee; a larger one is seeded.    *)
OpenedTier(tier, t) ==
    IF Cardinality(authorized) <= CommitteeSize[t]
    THEN [tier EXCEPT !.committee = authorized, !.drawn = TRUE]
    ELSE [tier EXCEPT !.seeding = TRUE]

OpenTier(e, t) == /\ tiers' = [tiers EXCEPT ![e][t] = OpenedTier(tiers[e][t], t)]
                  /\ tierAge' = [tierAge EXCEPT ![e] = 0]

FiledCase_Default(e, a) ==  \* mutant: the proposal is not remembered
    [NoCase EXCEPT !.exists = TRUE, !.hasOriginalProposal = TRUE, !.disputer = a]

FiledCase(e, a) ==
    [exists |-> TRUE, resolved |-> FALSE, hasOriginalProposal |-> TRUE,
     originalOutcome |-> proposal[e].outcome, disputer |-> a, tier |-> 1]

Dispute(e, a) ==
    /\ ~cases[e].exists
    /\ status[e] = "ProposedOutcome"
    /\ WindowOpen(e)
    /\ cases' = [cases EXCEPT ![e] = FiledCase(e, a)]
    /\ balance' = balance + BondUnit
    /\ EscalateToDispute(e)
    /\ OpenTier(e, 1)
    /\ UNCHANGED <<pendingWithdrawals, burned>>

EscalateNonConvergence(e) ==
    /\ ~cases[e].exists
    /\ status[e] = "ObservationsSubmitted"
    /\ DeadlinePassed(e)
    /\ cases' = [cases EXCEPT ![e] = [NoCase EXCEPT !.exists = TRUE]]
    /\ RegEscalateNonConvergence(e)
    /\ OpenTier(e, 1)
    /\ UNCHANGED <<pendingWithdrawals, balance, burned>>

-----------------------------------------------------------------------------
(* Commit-reveal seeding.  A commitment that will never be revealed is the  *)
(* same to the contract as one whose owner withholds the salt.              *)
Seeding(e) == cases[e].exists /\ ~cases[e].resolved /\ tiers[e][cases[e].tier].seeding

Committed(tier, r) == [tier EXCEPT !.commitments = @ \cup {r}, !.commits = @ + 1]
Revealed(tier, r)  == [tier EXCEPT !.revealedSeed = @ \cup {r}, !.reveals = @ + 1]
Drawn(tier, c)     == [tier EXCEPT !.committee = c, !.drawn = TRUE, !.seeding = FALSE]

CommitSeed(e, r) ==
    LET t == cases[e].tier IN
    /\ Seeding(e)
    /\ tierAge[e] < SeedCommitWindow
    /\ r \in authorized
    /\ r \notin tiers[e][t].commitments
    /\ tiers' = [tiers EXCEPT ![e][t] = Committed(tiers[e][t], r)]
    /\ UNCHANGED <<regVars, cases, tierAge, pendingWithdrawals, balance, burned>>

RevealSeed(e, r) ==
    LET t == cases[e].tier IN
    /\ Seeding(e)
    /\ tierAge[e] >= SeedCommitWindow
    /\ tierAge[e] < SeedCommitWindow + SeedRevealWindow
    /\ r \notin tiers[e][t].revealedSeed
    /\ r \in tiers[e][t].commitments
    /\ tiers' = [tiers EXCEPT ![e][t] = Revealed(tiers[e][t], r)]
    /\ UNCHANGED <<regVars, cases, tierAge, pendingWithdrawals, balance, burned>>

Withheld(tier)   == tier.commitments \ tier.revealedSeed
Candidates_All(tier) == authorized  \* mutant
Candidates(tier) == authorized \ Withheld(tier)

SeedingOver_AllRevealed(e) ==  \* mutant: no end without reveals
    LET tier == tiers[e][cases[e].tier] IN
    tier.commits > 0 /\ tier.reveals = tier.commits /\ tierAge[e] >= SeedCommitWindow

SeedingOver(e) ==
    LET tier == tiers[e][cases[e].tier] IN
    \/ tierAge[e] >= SeedCommitWindow + SeedRevealWindow
    \/ tier.commits > 0 /\ tier.reveals = tier.commits /\ tierAge[e] >= SeedCommitWindow

(* The seed is a hash nobody controls: the draw is any committee of the     *)
(* tier's size out of the candidates, or all of them if they are fewer.     *)
Drawable(candidates, size) ==
    IF Cardinality(candidates) <= size
    THEN {candidates}
    ELSE {c \in SUBSET candidates : Cardinality(c) = size}

DrawCommittee(e) ==
    LET t == cases[e].tier IN
    /\ Seeding(e)
    /\ SeedingOver(e)
    /\ \E c \in Drawable(Candidates(tiers[e][t]), CommitteeSize[t]) :
          tiers' = [tiers EXCEPT ![e][t] = Drawn(tiers[e][t], c)]
    /\ tierAge' = [tierAge EXCEPT ![e] = 0]
    /\ UNCHANGED <<regVars, cases, pendingWithdrawals, balance, burned>>

-----------------------------------------------------------------------------
Tally(tier, b) == IF b THEN tier.trueVotes ELSE tier.falseVotes
VoteFor(b)     == IF b THEN "VotedTrue" ELSE "VotedFalse"

(* 66% of the committee as selected, not of the members that voted.         *)
Agrees_OfCast(tier, b) ==  \* mutant: 66% of the votes cast
    Tally(tier, b) * 100 >= (tier.trueVotes + tier.falseVotes) * 66
Agrees(tier, b)    == Tally(tier, b) * 100 >= Cardinality(tier.committee) * 66
HasConverged(tier) == \E b \in BOOLEAN : Agrees(tier, b)

Voted(tier, r, b) ==
    [tier EXCEPT !.votes[r] = VoteFor(b),
                 !.trueVotes = IF b THEN @ + 1 ELSE @,
                 !.falseVotes = IF b THEN @ ELSE @ + 1]

(* _computeResolutionMath; a tier that agrees has at least one winning vote. *)
RewardPool_Twice(tier, t, b) ==  \* mutant: the treasury's share is also a reward
    Tally(tier, ~b) * TierBond(t) - (Tally(tier, ~b) * TierBond(t)) \div 3

LosingPool(tier, t, b)  == Tally(tier, ~b) * TierBond(t)
BurnShare(tier, t, b)   == LosingPool(tier, t, b) \div 3
RewardPool(tier, t, b)  == LosingPool(tier, t, b) - 2 * BurnShare(tier, t, b)
PerWinner(tier, t, b)   == RewardPool(tier, t, b) \div Tally(tier, b)
TreasuryDust(tier, t, b) ==
    BurnShare(tier, t, b) + RewardPool(tier, t, b) - PerWinner(tier, t, b) * Tally(tier, b)

(* _payoutCommittee and _settleDisputerBond: what each account is credited. *)
CommitteePay(tier, t, b, a) ==
    (IF a \in tier.committee /\ tier.votes[a] = VoteFor(b)
     THEN TierBond(t) + PerWinner(tier, t, b) ELSE 0)
    + (IF a = Treasury THEN TreasuryDust(tier, t, b) ELSE 0)

DisputerRight_Swapped(c, b) == c.hasOriginalProposal /\ b = c.originalOutcome  \* mutant
DisputerRight(c, b) == c.hasOriginalProposal /\ b # c.originalOutcome
Forfeited(c, b)     == c.hasOriginalProposal /\ ~DisputerRight(c, b)

DisputerPay(c, b, a) ==
    (IF DisputerRight(c, b) /\ a = c.disputer THEN BondUnit ELSE 0)
    + (IF Forfeited(c, b) /\ a = Treasury THEN BondUnit - BondUnit \div 3 ELSE 0)

Burnt(tier, t, c, b) ==
    BurnShare(tier, t, b) + (IF Forfeited(c, b) THEN BondUnit \div 3 ELSE 0)

(* _resolveTier: the case closes, the registry finalizes with a one-word    *)
(* payload, the committee and the disputer are settled.                     *)
ResolveTier(e, t, tier, b) ==
    /\ cases' = [cases EXCEPT ![e].resolved = TRUE]
    /\ FinalizeFromDispute(e, ShortPayload(b))
    /\ tierAge' = [tierAge EXCEPT ![e] = 0]
    /\ pendingWithdrawals' =
          [a \in Accounts |-> pendingWithdrawals[a] + CommitteePay(tier, t, b, a)
                                                    + DisputerPay(cases[e], b, a)]
    /\ burned' = burned + Burnt(tier, t, cases[e], b)
    /\ balance' = balance + TierBond(t) - Burnt(tier, t, cases[e], b)

MayVote_Again(tier, r) == tier.drawn /\ r \in tier.committee  \* mutant
MayVote(tier, r) == /\ tier.drawn
                    /\ r \in tier.committee
                    /\ tier.votes[r] = "NotVoted"

SubmitTierVote(e, t, r, b) ==
    LET tier == Voted(tiers[e][t], r, b) IN
    /\ InTier(e, t)
    /\ MayVote(tiers[e][t], r)
    /\ tierAge[e] < TierWindow[t]
    /\ tiers' = [tiers EXCEPT ![e][t] = tier]
    /\ \/ Agrees(tier, TRUE) /\ ResolveTier(e, t, tier, TRUE)
       \/ ~Agrees(tier, TRUE) /\ Agrees(tier, FALSE) /\ ResolveTier(e, t, tier, FALSE)
       \/ /\ ~HasConverged(tier)
          /\ balance' = balance + TierBond(t)
          /\ UNCHANGED <<regVars, cases, tierAge, pendingWithdrawals, burned>>

-----------------------------------------------------------------------------
(* _refundTierBonds: everyone who voted in the tier gets the bond back.     *)
TierRefund_NewTier(e, t, a) ==  \* mutant: looks at the tier just opened
    IF a \in tiers[e][2].committee /\ tiers[e][2].votes[a] # "NotVoted"
    THEN TierBond(t) ELSE 0

TierRefund(e, t, a) ==
    IF a \in tiers[e][t].committee /\ tiers[e][t].votes[a] # "NotVoted"
    THEN TierBond(t) ELSE 0

TierTimedOut(e, t) == /\ InTier(e, t)
                      /\ tiers[e][t].drawn
                      /\ tierAge[e] >= TierWindow[t]
                      /\ ~HasConverged(tiers[e][t])

EscalateTier2(e) ==
    /\ TierTimedOut(e, 1)
    /\ cases' = [cases EXCEPT ![e].tier = 2]
    /\ OpenTier(e, 2)
    /\ pendingWithdrawals' =
          [a \in Accounts |-> pendingWithdrawals[a] + TierRefund(e, 1, a)]
    /\ UNCHANGED <<regVars, balance, burned>>

VoidAfterTier2Timeout(e) ==
    /\ TierTimedOut(e, 2)
    /\ cases' = [cases EXCEPT ![e].resolved = TRUE]
    /\ VoidEvent(e)
    /\ tierAge' = [tierAge EXCEPT ![e] = 0]
    /\ pendingWithdrawals' =
          [a \in Accounts |->
              pendingWithdrawals[a] + TierRefund(e, 2, a)
              + (IF cases[e].hasOriginalProposal /\ a = cases[e].disputer
                 THEN BondUnit ELSE 0)]
    /\ UNCHANGED <<tiers, balance, burned>>

(* A receiver that reverts undoes the whole call: that is no step.          *)
Withdraw_Again(a) == /\ pendingWithdrawals[a] > 0  \* mutant: the credit stays
                     /\ balance' = balance - pendingWithdrawals[a]
                     /\ UNCHANGED <<regVars, caseVars, pendingWithdrawals, burned>>

Withdraw(a) == /\ pendingWithdrawals[a] > 0
               /\ pendingWithdrawals' = [pendingWithdrawals EXCEPT ![a] = 0]
               /\ balance' = balance - pendingWithdrawals[a]
               /\ UNCHANGED <<regVars, caseVars, burned>>

-----------------------------------------------------------------------------
Tick == /\ RegTick
        /\ tierAge' = [e \in EventIds |->
                          IF cases[e].exists /\ ~cases[e].resolved /\ tierAge[e] < MaxTierAge
                          THEN tierAge[e] + 1 ELSE tierAge[e]]
        /\ UNCHANGED <<cases, tiers, pendingWithdrawals, balance, burned>>

RegistryOnly == (PublicStep \/ OwnerStep) /\ UNCHANGED dmVars

DisputeStep(e) ==
    \/ \E a \in Disputers : Dispute(e, a)
    \/ EscalateNonConvergence(e)
    \/ \E r \in Resolvers : CommitSeed(e, r) \/ RevealSeed(e, r)
    \/ DrawCommittee(e)
    \/ \E t \in TierNums, r \in Resolvers, b \in BOOLEAN : SubmitTierVote(e, t, r, b)
    \/ EscalateTier2(e)
    \/ VoidAfterTier2Timeout(e)

Next == \/ RegistryOnly
        \/ \E e \in EventIds : DisputeStep(e)
        \/ \E a \in Accounts : Withdraw(a)
        \/ Tick

Spec == Init /\ [][Next]_vars

-----------------------------------------------------------------------------
CaseRecord == [exists : BOOLEAN, resolved : BOOLEAN, hasOriginalProposal : BOOLEAN,
               originalOutcome : BOOLEAN, disputer : Accounts, tier : TierNums]

TierRecord == [committee : SUBSET Resolvers, drawn : BOOLEAN,
               trueVotes : Nat, falseVotes : Nat,
               votes : [Resolvers -> {"NotVoted", "VotedTrue", "VotedFalse"}],
               seeding : BOOLEAN, commits : Nat, reveals : Nat,
               commitments : SUBSET Resolvers, revealedSeed : SUBSET Resolvers]

CaseTypeOK == /\ cases \in [EventIds -> CaseRecord]
              /\ tiers \in [EventIds -> [TierNums -> TierRecord]]
              /\ tierAge \in [EventIds -> 0..MaxTierAge]

(* The variables keep the types the contract declares; in particular no     *)
(* balance of ETH is ever overdrawn.                                        *)
TypeOK == /\ RegTypeOK
          /\ CaseTypeOK
          /\ pendingWithdrawals \in [Accounts -> Nat]
          /\ {balance, burned} \subseteq Nat

(* The registry and the manager agree on which events are in dispute: an    *)
(* event is Disputed exactly while its case is open, and a closed case left *)
(* it Finalized or Voided.                                                  *)
CaseMatchesStatus ==
    \A e \in EventIds :
        /\ status[e] = "Disputed" <=> cases[e].exists /\ ~cases[e].resolved
        /\ cases[e].resolved => cases[e].exists /\ status[e] \in {"Finalized", "Voided"}
        /\ cases[e].exists /\ cases[e].hasOriginalProposal =>
              cases[e].originalOutcome = proposal[e].outcome

(* What a case still owes: the bond of a disputer and of every vote of the  *)
(* tier in progress, until the case is resolved.                            *)
Escrow(e) ==
    LET c == cases[e]
        voters == {r \in Resolvers : tiers[e][c.tier].votes[r] # "NotVoted"}
    IN  IF c.exists /\ ~c.resolved
        THEN (IF c.hasOriginalProposal THEN BondUnit ELSE 0)
             + Cardinality(voters) * TierBond(c.tier)
        ELSE 0

(* The contract holds exactly the bonds in escrow and the credits nobody    *)
(* has withdrawn yet, over all events together: no bond is paid out twice,  *)
(* none is stranded, and every credit can be withdrawn.                     *)
Solvent ==
    balance = SumFunction(pendingWithdrawals) + SumFunction([e \in EventIds |-> Escrow(e)])

(* The tallies a tier decides by are the votes of distinct members of its   *)
(* committee, and its commit and reveal counters those of its commitments.  *)
TierCountsAgree ==
    \A e \in EventIds, t \in TierNums :
        LET tier == tiers[e][t] IN
        /\ \A b \in BOOLEAN :
              Tally(tier, b) = Cardinality({r \in tier.committee : tier.votes[r] = VoteFor(b)})
        /\ \A r \in Resolvers \ tier.committee : tier.votes[r] = "NotVoted"
        /\ tier.commits = Cardinality(tier.commitments)
        /\ tier.reveals = Cardinality(tier.revealedSeed)
        /\ tier.revealedSeed \subseteq tier.commitments

Supporting(tier, b) == {r \in tier.committee : tier.votes[r] = VoteFor(b)}

Supermajority(tier, b) ==
    Cardinality(Supporting(tier, b)) * 100 >= Cardinality(tier.committee) * 66

(* A tier in progress with a committee to ask has no supermajority (the     *)
(* vote that makes it closes the case), so a timeout is never refused with  *)
(* "already converged"; and a case closed by a vote was closed by 66% of    *)
(* the committee for the very outcome the registry published.               *)
AgreementDecides ==
    \A e \in EventIds :
        LET tier == tiers[e][cases[e].tier] IN
        /\ cases[e].exists /\ ~cases[e].resolved /\ tier.committee # {} =>
              \A b \in BOOLEAN : ~Supermajority(tier, b)
        /\ cases[e].resolved /\ status[e] = "Finalized" =>
              /\ tier.committee # {}
              /\ Supermajority(tier, outcome[e].outcome)
              /\ ~Supermajority(tier, ~outcome[e].outcome)

(* A committee seats no more members than its tier, is drawn only once, and *)
(* never seats a resolver that committed to the seed and withheld it.       *)
CommitteeDrawnFairly ==
    [][\A e \in EventIds, t \in TierNums :
          LET old == tiers[e][t]  new == tiers'[e][t] IN
          /\ old.drawn => new.drawn /\ new.committee = old.committee
          /\ ~old.drawn /\ new.drawn =>
                /\ Cardinality(new.committee) <= CommitteeSize[t]
                /\ new.committee \subseteq authorized \ Withheld(old)]_vars

(* No step takes from what an account is owed, except its own withdrawal of *)
(* everything; and a vote that was with the outcome, or was cast in a tier  *)
(* that closed without one, gets at least its bond back at that moment.     *)
VotersMadeWhole ==
    [][/\ \A a \in Accounts : \/ pendingWithdrawals'[a] >= pendingWithdrawals[a]
                              \/ pendingWithdrawals'[a] = 0
       /\ \A e \in EventIds :
            LET t == cases[e].tier IN
            cases[e].exists /\ ~cases[e].resolved
              /\ (cases'[e].resolved \/ cases'[e].tier # t) =>
                \A r \in Resolvers :
                    LET vote == tiers'[e][t].votes[r] IN
                    vote # "NotVoted"
                      /\ (status'[e] = "Finalized" => vote = VoteFor(outcome'[e].outcome))
                    => pendingWithdrawals'[r] >= pendingWithdrawals[r] + TierBond(t)]_vars

(* A disputer whose challenge is upheld, or whose case ends without an      *)
(* answer, is credited the bond at the moment the case closes.              *)
DisputerMadeWhole ==
    [][\A e \in EventIds :
          LET c == cases[e]
              upheld == \/ status'[e] = "Voided"
                        \/ outcome'[e].outcome # proposal[e].outcome
          IN  c.hasOriginalProposal /\ ~c.resolved /\ cases'[e].resolved /\ upheld =>
                pendingWithdrawals'[c.disputer] >= pendingWithdrawals[c.disputer] + BondUnit]_vars

(* A proposal is disputed only inside its window, the one moment at which   *)
(* it cannot be finalized yet; and without a proposal an event comes to the *)
(* committees only after everybody had until the deadline to observe.       *)
DisputedInTime ==
    [][\A e \in EventIds :
          status[e] # "Disputed" /\ status'[e] = "Disputed" =>
              IF proposal[e] # NoPayload
              THEN age[e] < spec[e].disputeWindow
              ELSE age[e] > spec[e].observationDeadline]_vars

-----------------------------------------------------------------------------
(* Scheduling.  Time passes; the deployment script connects the manager;    *)
(* and the keeper of every resolver node sends each permissionless call     *)
(* that has become valid until it succeeds (resolver/node/keeper.ts).       *)
(* Nothing is assumed of observers, disputers, voters or committers.        *)
KeeperStep(e) == \/ (Finalize(e) \/ Expire(e)) /\ UNCHANGED dmVars
                 \/ EscalateNonConvergence(e)
                 \/ DrawCommittee(e)
                 \/ EscalateTier2(e)
                 \/ VoidAfterTier2Timeout(e)

Fairness == /\ WF_vars(Tick)
            /\ WF_vars(SetDisputeManager /\ UNCHANGED dmVars)
            /\ \A e \in EventIds : WF_vars(KeeperStep(e))

FairSpec == Spec /\ Fairness

(* A committee nobody sits on: no vote can be cast, and 0 votes of 0 count  *)
(* as converged, so neither timeout is accepted.                            *)
NobodySeated(e) == LET tier == tiers[e][cases[e].tier] IN
                   status[e] = "Disputed" /\ tier.drawn /\ tier.committee = {}

(* Every event that was created ends: Finalized, Voided or Expired, however *)
(* observers, voters and committers behave.  The two exceptions are exactly *)
(* an empty committee and a dispute window no timestamp can be added to.    *)
EveryEventEnds ==
    \A e \in EventIds :
        status[e] # "None" ~> \/ status[e] \in Terminal
                              \/ NobodySeated(e)
                              \/ status[e] = "ProposedOutcome" /\ ~WindowFits(e)

(* drawCommittee, DisputeManager.sol:280: "With no reveals at all, fall     *)
(* back to block data so a dispute can't stall forever".                    *)
FellBack(e) == Seeding(e) /\ SeedingOver(e) /\ tiers[e][cases[e].tier].reveals = 0

NoRevealsNoStall == \A e \in EventIds : FellBack(e) ~> status[e] \in Terminal
=============================================================================
