# Novak: a verification development

TLA+ specifications of the Novak event network, the TLC configurations that
check them on small instances, and theorems about them proved with TLAPS. Novak
settles real-world events on chain: anybody creates an event, authorized
resolvers observe it, a quorum proposes an outcome, anybody may dispute the
proposal, committees of resolvers vote on disputes with bonds, and composites,
markets and a fee vault consume the outcome.

Every definition is translated from the Solidity and TypeScript sources of the
repository; `PROJECT.json` names the lines of each one.

## 1. Inventory

| Component (source) | State it keeps | Operations | Interacts with |
|---|---|---|---|
| EventRegistry (`contracts/EventRegistry.sol`) | per event: specification, status, observations and their counters, proposal, outcome; the resolvers; the dispute manager | `createEvent(s)`, `submitObservation`, `finalize`, `expire`, `escalateNonConvergence`, `escalateToDispute`, `finalizeFromDispute`, `voidEvent`, `setResolverAuthorization`, `setDisputeManager` | called by everyone; four functions by the dispute manager alone; read by all others |
| DisputeManager (`contracts/DisputeManager.sol`) | per event: the case; per tier: committee, votes, seeding; ETH credits | `dispute`, `escalateNonConvergence`, `commitSeed`, `revealSeed`, `drawCommittee`, `submitTier1Vote`, `submitTier2Vote`, `escalateTier2`, `voidAfterTier2Timeout`, `withdraw` | drives the registry; reads its pool of resolvers |
| EventComposer (`contracts/EventComposer.sol`) | composite definitions, depth, cached status and time | `createComposite`, `tryResolve` | reads the registry |
| EventBus (`contracts/EventBus.sol`) | none | `readOutcome`, `isAvailable`, `getAvailability` | reads registry and composer; the only thing consumers read |
| TreasuryVault (`contracts/TreasuryVault.sol`) | pending fees, reward pools, claims, insurance, treasury | `depositFees`, `allocate`, two claims, `sweepDisputeProceeds`, owner withdrawals | reads registry, composer, dispute manager; paid by markets |
| Market, Settlement, PositionManager (`derivatives/`) | pools, stakes, status of markets | `createMarket`, `depositCollateral`, `closePosition`, `settle`, `claim` | bus, vault |
| DistributionMarket (`derivatives/`) | shares of ranges between the boundary events of a ladder, a reserve, fees | `createMarket`, `buy`, `sell`, `settle`, `redeem` | bus, vault |
| CommunityMarket (`derivatives/`) | stakes per outcome, the result its creator proposed, objections | `createMarket`, `stake`, `proposeOutcome`, `object`, `finalize`, `voidUnresolved`, `cancel`, `claim` | nothing |
| StockLendingGuard (`consumers/`) | a list of rules | add, clear, evaluate | bus |
| NovakConsumer, NovakCTFAdapter (`contracts/integrations/`) | none, or a reported flag | read one id | bus |
| SubscriptionManager | a set of subscriptions | subscribe, unsubscribe | nothing reads it |
| Resolver daemon (`resolver/node/`) | which events it has done, voted on, committed to; sums claimed; fingerprints of composites; the latest market per feed | duties `resolve`, `voter`, `keeper`, `rewards`, `lister`, run by a loop, run by a supervisor | sends transactions to all contracts |
| Adapters (`resolver/adapters/`) | a cache of logs per token | observe a source, decide an outcome | price feeds, token logs, published series |
| SDK, frontend, scripts, mocks, vendored code | no protocol state | | |

What is hard here, and so what the properties are about (the list with lines is
under `hazards` in `PROJECT.json`):

* **Interleaving of callers.** Every function but a few is open to everyone at
  every moment. Finalizing races disputing, the deciding vote races the timeout
  of its tier, the owner changes the pool between the opening of a tier and the
  draw of its committee.
* **Two records of one fact.** Registry and manager both know whether an event
  is in dispute; the registry keeps two counters of the same observations; the
  case copies the proposed outcome.
* **Time.** Five deadlines, each an inequality whose boundary has to match that
  of another function; windows long enough to overflow.
* **Money.** Bonds of several events in one balance, thirds that round down,
  refunds after the state they refund was left.
* **Liveness without a scheduler.** No contract moves by itself. An event ends
  because some keeper calls the next function, and only if one is enabled.
* **Immutability.** Composites, markets and the vault cache what they read once.
* **Memories that go stale.** The daemon remembers what it did, adapters remember
  logs, the lister remembers markets; calls are lost, mined late or refused, and
  a process that restarts has forgotten everything.
* **A past that goes on.** Resolvers must give the same answer at different times,
  through nodes that lag, from a feed or a token that continues meanwhile.

What makes the parts correct:

* registry: a quorum is counted exactly and noticed at once; a proposal is
  contestable for a full window; what is terminal stays; history is kept;
* dispute manager: it agrees with the registry; 66% of the committee decides and
  nothing else; committees are drawn fairly; every wei is accounted for; honest
  voters and right disputers are made whole; every dispute ends;
* composer: a cached answer is the one any later evaluation would give; a dead
  operand does not stall a composite; a composite's definition is acyclic;
* vault and markets: what is owed never exceeds what is held, whoever claims
  first; a market settles on what the bus says, once; a pool is not held hostage;
* daemon: a failed, late or repeated call loses nothing; what it remembers as
  finished is finished;
* adapters: an answer is what happened, so honest resolvers cannot disagree.

## 2. Modules

```
EventLifecycle            what an event promises its consumers (abstract)
   ^ refined by
EventRegistry             the registry, under any dispute manager
   ^ extended and driven by
DisputeManager            the dispute ladder and its ETH
   ^ acted on by
ResolverNode              one daemon: loop, duties, memory, failing calls

EventComposer             composites, over any implementation of EventLifecycle
   ^ extended by
EventBus                  what applications read; implements
   |                      OutcomeFeed, what the bus promises them (abstract)
   ^ acted on by
CompositeKeeper           the keeper's pass over composites

TreasuryVault             fees and rewards, over any implementation of OutcomeFeed
   ^ paid by                                  ^ claimed from by
Market, DistributionMarket (and Clock)        RewardsDuty
   \ with CommunityMarket (and Clock)
Applications              vault and markets over one feed and one clock

PriceAtAdapter, CorporateActionAdapter        adapters that search a past
MarketLister                                  the lister's memory of markets

MC*                                           instances for TLC
SumTheorems                                   sums over finite sets
*Proofs                                       theorems
```

The chain of abstractions: the ladder implements `RegSpec` and so
`EventLifecycle`; composer and bus are specified over `EventLifecycle` and
implement `OutcomeFeed`; vault and markets are specified over `OutcomeFeed`. Both
implementations are proved (section 4).

### EventLifecycle

The abstract specification: an event is `Pending`, then possibly `Contestable`
with an offered answer or `Contested`, and ends `Decided` or `Void` for good.
There is no way from `Pending` to `Decided` that nobody could contest. The
mapping from the registry is `PhaseOf` and `AnswerOf` in `EventRegistry`.

### EventRegistry

One action per external function; a call that reverts is not a step. `status`,
`spec`, `observation`, `observationCount`, `observedOutcomeCount`, `proposal`,
`outcome` and `authorized` are the contract's mappings; `managerSet` says
whether `disputeManager` is set (the address itself is the manager).

* A *payload* (`outcomeData`) is its number of 32-byte words, its Boolean and its
  occurrence time: everything quorum, the version 2 check and the consumers tell
  apart. Payloads of more than two words are like those of two to version 1.
* *Time*: `age[e]` counts since event `e` entered its phase and the timestamps of
  a specification are offsets from the creation of the event. Only comparisons
  of `block.timestamp` with a sum of one stored time and one stored length occur
  in the contract, so nothing is lost; the clock stops at `MaxAge`, beyond every
  offset. `MaxWindow` stands for the longest window that can still be added to
  a 64-bit timestamp: beyond it `finalize` and `dispute` revert.
* `PublicStep` is what anyone may call, `OwnerStep` the owner, `ManagerStep` *any*
  contract the owner might have connected. So what is shown of `RegSpec` does
  not depend on `DisputeManager`.
* Event ids are hashes over a nonce; here an unused id is chosen. `MaxBatch` is
  the contract's 16.

### DisputeManager

Extends `EventRegistry` and calls its operators as the contract calls the
registry: `Dispute` contains `EscalateToDispute`, a deciding vote contains
`FinalizeFromDispute`, and so on. `cases` and `tiers` are `_cases` and `_tiers`;
`tierAge[e]` is the time since the current tier of `e` was opened and, once the
committee is drawn, since the draw, because each deadline is set at that moment.
`balance`, `burned` and `pendingWithdrawals` account for the ETH.

* The draw: the seed is a hash, so any committee of the right size out of the
  candidates may result (`Drawable`).
* A commitment that will never be revealed is, to the contract, the commitment of
  somebody who withholds the salt; no more is modelled of salts and hashes.
* Bonds are `BondUnit` times 1, 3 and 8, and the arithmetic of shares, rounding
  and dust is the contract's.
* The treasury is an account; in the deployment it is the vault, whose
  `sweepDisputeProceeds` is that account's `Withdraw`.
* A receiver that reverts undoes its `withdraw`; that is no step.

### EventComposer

Composes with the *abstract* registry: its events move as `EventLifecycle`
allows, which the registry and the dispute ladder are proved to implement.
`composite`, `cached`, `resolvedAt` and `depth` are the contract's four
mappings; `CreateComposite` and `TryResolve` are its two functions.

* `when[e]` is the time `_childStatus` reads with the answer of an event: the time
  it was finalized, or `occurredAt` of a version 2 payload, which is any earlier
  time; so at the decision any time up to now is chosen.
* `Evaluate` is `_evaluate` for all operators at once: an operand that decides
  alone, else waiting for a pending one, else a void one, else the comparison.
  The contract's loop may stop early or late but returns the same.
* `_sortOperands` is modelled by its result, the sorted list with the same
  operands (`Canonical`), not by its loop.
* An id is the hash of a definition: a fresh id is chosen for a definition no
  other id has. Ids of events and composites never coincide
  (`ComposerAssumption`).

### EventBus and OutcomeFeed

The bus has no state; its views are operators. `OutcomeFeed` is what a consumer
may rely on: every id is `Pending` until, at most once and one id at a time, it
gets an answer or becomes `Voided`, for good. The mapping is `View`.

### ResolverNode

One daemon (`index.ts`, its duties and `multi.ts`) on the registry and the dispute
manager, among `Others`: everybody else, who may do anything but sign for this
node. A duty's `tick` reads the chain and decides on a call (`ResolverTick`,
`VoterTick`, `KeeperTick`, `RewardsTick`); the call is sent later (`send` simulates,
signs and waits) and is `Confirmed`, `Refused` by the simulation with a reason that
the duty may take as final (`Moot`), or `Unanswered`: then the node goes on, and
the call may still be mined (`LateCall`). `Loop` visits duties and events in
order; a visit that finds nothing to do is no step. `Abort` is a read that throws,
`Crash` an exit after which `multi.ts` starts a process that remembers nothing
and reads once whether it is authorized (`Start`).

### CompositeKeeper

The same for the pass over composites (`keeper.ts:105`), on the bus: `Look` reads
the availability of the operands and stores it as fingerprint, `Act` simulates and
sends `tryResolve`, steps apart from each other; a visit may fail (`Fault`).

### TreasuryVault and RewardsDuty

Every function that moves collateral or fees. What the vault reads of other
contracts is abstract: ids settle as `OutcomeFeed` allows and with an event's
answer comes who reported it and which committee members voted for it (`Settle`),
of the sizes that `CountsAgree` and `TierCountsAgree` justify. Amounts are whole
units and every division rounds down as in the contract. `RewardsDuty` is a node
that claims from it (`rewards.ts`): it remembers a sum of amounts it acted on.

### Clock, Market, DistributionMarket, CommunityMarket, Applications

Each market module has one action per external function and its own balance of
collateral. `Market` and `DistributionMarket` extend the vault, because `settle`
contains `DepositFees`; `CommunityMarket` knows neither bus nor vault. `now` is
`block.timestamp`. `Applications` composes them: the steps of one leave the
variables of the others alone.

* Anybody may settle a `Market` as soon as its id has an answer, whether trading is
  closed or not; `Available` is `Settlement.sol`.
* The price of a range is the contract's cost function, in whole units: `Weight[x]`
  stands for exp(-x/b), `Cost` is the least cost that covers what the shares may pay
  (`Covers`), and what a trade gives may be one unit less, as finer arithmetic would
  have it. The 18-decimal logarithm is not modelled, so what is shown does not
  extend to its error bounds; it does to the order of reserve, fees and liability,
  which is what `settle` relies on.
* `Stake` of a community market: the pools of a market must not grow once its
  result is proposed, since objections are compared with a third of the pool.

### PriceAtAdapter, CorporateActionAdapter, MarketLister

`PriceAtAdapter`: a feed publishes rounds and changes its aggregator, which starts
numbering again; `ObservePrice` reads the latest round from a node that may be
`MaxLag` behind, and each `GetRound` is one call of the bisection. `answered`
collects what all observations said. `CorporateActionAdapter`: a token announces
changes of its multiplier ahead of time; the adapter replays the announcements out
of a cache (`logCache`) that was filled for other events or through a node that
lags. `MarketLister`: which feeds need a range market, learned from logs, remembered,
and acted on by calls that fail, whose receipts are lost, or that are mined late.

## 3. What the runs check

| Run | Instance | Properties |
|---|---|---|
| `registry_quorum` | 1 event with 3 resolvers or 2 with 2, 5 specifications, any manager | `RegTypeOK`, `CountsAgree`, `QuorumBacked`, `PhaseConsistent`, `FinalizedAsProposed`, `HistoryIsKept`, `ImplementsLifecycle` |
| `dispute_ladder` | 1 event, 3 resolvers who all fit both committees | `TypeOK`, `CaseMatchesStatus`, `AgreementDecides`, `DisputerMadeWhole`, `DisputedInTime` |
| `committee_seeding` | 1 event, 3 resolvers, a first committee of 2 | `TierCountsAgree`, `CommitteeDrawnFairly`, `VotersMadeWhole` |
| `shared_funds` | 2 events, 2 resolvers, withdrawals in between | `Solvent` |
| `dispute_liveness` | 1 event, the node and 1 other resolver, 1 failure | `MemoryIsTrue`, `NothingStaysDue`, `KeeperEndsEvents` |
| `composer_answers` | 2 events, 2 composites, every operator, 2 instants, a keeper that fails and restarts | `VerdictStands`, `AnswersFromEvents`, `KeeperSettles` |
| `bus_feed` | 1 event, 3 composites of at most 2 operands and 2 levels | `TypeOK`, `WellFounded`, `OneIdPerClaim`, `ImplementsFeed` |
| `markets` | 2 events and a composite over them; the vault with 2 resolvers; 1 market and 1 ladder of 2 boundaries with 2 traders; 1 pool with 3 players | `Balanced`, `SharesRespected`, `MarketSolvent`, `SettledAsRead`, `StakesReturned`, `DistSolvent`, `LadderRead`, `PoolsSolvent`, `ResultsAccepted`, `PayoutStands`, `EveryPoolEnds` |
| `observers` | up to 6 rounds in 2 phases; 5 blocks and 2 questions; 2 feeds over 2 days | `AnswersTheLastRound`, `DecidedAsHappened`, `NotListedTwice` |
| `no_reveals` | 1 event, 2 resolvers, the pool fixed beforehand | `NoRevealsNoStall` is violated |
| `reward_forgotten` | 1 event, 1 resolver, 2 equal fees | `ClaimsItsShare` is violated |
| `losers_exit` | as `markets` | `NobodyLeavesLate` is violated |

Each property is stated in words above its definition. What the bounds are and
why they suffice:

* *Resolvers*: three is the least number with a quorum that some resolver is not
  part of, a split with a majority, and a committee smaller than the pool by one.
  With three members 66% is two votes, so a tier can agree with a losing vote
  left (the rounding cases) and can end split. `BondUnit` 5 makes 5, 15 and 40:
  thirds of the forfeited bond and of a losing Tier 2 bond leave a remainder.
* *Specifications* (`MCSpecs`): version 1 and 2; opened before, at and after the
  creation; a window of 0, of 1, and one that overflows; and the two kinds that
  are refused. Occurrence times before and after the opening make two exact
  payloads for each Boolean.
* *Time*: every deadline is at least one instant away from the ones it is
  compared with, so before, at and after each boundary occur. `MaxAge` and
  `MaxTierAge` lie beyond all of them.
* *Events*: two, where events interact: batches, and the shared balance.
* *Composites*: two make one nested in the other, with an event on each side, so
  every pair of operand states meets every operator, and both are resolved in
  either order, early, late or never. Three make a chain longer than the depth
  limit, and lists of three operands are longer than the width limit, of the
  instance. The contract's own limits, 8 levels and 10 operands, are covered by the
  theorems. Two instants and a window of 0 give times before, at and after each
  other, inside and outside the window.
* *The daemon*: one failure of any kind at any moment of the first tier, and any
  number of refusals. One failure is enough to make a call late, or to lose the
  memory of it, and every duty of the second tier repeats one of the first.
* *Money*: fees of 7 and 14 leave a remainder of thirds and of halves; stakes of 30
  with a fee of 5% leave remainders of the fee, three and four units of three
  players make an objection just below, at and above a third. `MaxIncome`,
  `MaxPool`, `MaxTrades` and `MaxStake` bound amounts and with them the states.
* *A ladder* of two boundaries has the three readings that fit a range, the one that
  contradicts itself, and void ones. Three trades buy, sell and buy again.
* *Observers*: `At` and the grace lie inside the run of the clock, so rounds are
  published before, at and after the instant, before and during a search; the
  lister's 12 hours are a Friday of 8 with its close and half of a Saturday.
* *Action constraints* leave out interleavings that add nothing to a question, or
  that another run covers.
  In `MCEventRegistry`: one event with three resolvers or two with two
  (`OneEventOrTwoResolvers`). In `MCDisputeManager`: `OwnerActs` lets the pool change
  only when the manager is next to read it; `SeedingOnly` lets it change before the
  event and while a committee is seeded and postpones withdrawals; `PoolFixed`
  authorizes resolvers first; `SharedFunds` sets the deployment up first, lets the
  disputer not observe, and lets credits be withdrawn while an event is in dispute.
  In `MCResolverNode`, `Focus`: the deployment is set up first, both resolvers observe
  FALSE and only the node may vote TRUE, and in Tier 2 nothing fails and no other
  keeper is faster. In `MCCompositeKeeper`, `Nested`: events first, then the composite
  of both, then one over it; contests, which composites cannot tell from an open
  event, are left out. `bus_feed` has none of these restrictions.
  In `MCApplications`, `OneApplication`: ids exist first, and the vault, or one kind
  of market, is at work in each behaviour, because they share only the feed, the
  clock and what markets pay (`OnlyPaysTheVault`); `VaultAtWork`, `MarketAtWork`,
  `LadderAtWork` and `PoolAtWork` take interchangeable traders in order and let the
  ids settle when it makes a difference. In `MCObservers`: one of three at work
  (`OneAtWork`), a feed publishes when the price moves (`PriceMoves`), and at most
  two announcements (`FewLogs`).

**Fairness.**

* `ResolverNode!NodeSpec`: weakly fair are the node's own steps `Start`, `Loop`,
  `Confirmed` and `Refused`, together: `index.ts` calls `loop` by `setInterval` whatever
  the last round threw, and `multi.ts` starts the process again whatever it exited
  with. Failures happen at most `MaxFailures` times. Nothing is assumed of time, of
  the owner or of others; `KeeperEndsEvents` states its two assumptions, that time
  passes and that the deployment is wired (`script/Deploy.s.sol:150`), itself.
* `CompositeKeeper!KeeperSpec`: the pass goes round all composites, so each visit is
  made again and again (`SF` of `Look`), and not every visit that is begun fails
  (`SF` of `Act`).
* `Applications!AppFairSpec`: time passes, and somebody with a stake in a community
  market calls `finalize` or `voidUnresolved` once it is due: it pays them.
* `RewardsDuty!DutySpec`: the duty is run again and again and its calls are answered.
* `DisputeManager!FairSpec`, for `no_reveals` alone: time passes and per event the
  keeper makes the call that is due. `ResolverNode` shows that a daemon with failures
  is such a keeper.

Nothing is assumed of observers, disputers, committers, voters, traders, creators of
markets, or the owner's choice of resolvers.

**Exceptions a property names.** `KeeperEndsEvents` excepts an empty committee
(`NobodySeated`, see `no_reveals`) and a window that overflows (no event of this
instance has one). `KeeperSettles` excepts composites whose last visit failed, or
that are over such a one: the fingerprint was stored before, so only a change of an
operand, a restart or another caller brings the keeper back. `NothingStaysDue`
speaks of a node that knew, when it last started, that it is authorized.
`NotListedTwice` excepts a node that was not told of a market: its own call was mined
without a receipt, or a log could not be read. `AnswersTheLastRound` assumes that
nodes lag less than the grace (`MaxLag < SettleGrace`), `DecidedAsHappened` that
announcements are made less than the 14 days of the lookback ahead
(`MaxNotice < Lookback`), that nodes lag no more than the grace, and one
announcement per block.

**What the violations show.**

* `no_reveals`: `drawCommittee` leaves out every resolver that committed and did
  not reveal. If the whole pool does that, the committee is empty. No vote can
  then be cast, and `_hasConverged` accepts 0 of 0 votes, so both timeouts are
  refused and the event stays `Disputed`. The comment at
  `DisputeManager.sol:280` and `docs/protocol-spec.md:147` promise that a draw
  without reveals cannot stall a dispute. `KeeperEndsEvents` holds with this
  exception (`NobodySeated`), which an empty pool of resolvers also meets.
* `reward_forgotten`: the duty acts on an event when the sum of what is pending and
  what it can claim is neither 0 nor the sum it last acted on (`rewards.ts:51`). A
  second fee that makes the same sum is taken for the first, and the node's share
  of it stays in the vault, though no call failed; `rewards.ts:10-12` says that the
  duty claims it.
* `losers_exit`: `depositCollateral` refuses stakes once the outcome is known,
  `closePosition` (`Market.sol:182`) does not: while trading is open the losing side
  can leave. The threat model of the frontend
  (`frontend/src/app/docs/threat-model/page.tsx:28`) lists that as fixed for every
  withdrawal.

**Mutants.** Each property of a passing run has a mutant under `mutants`: the
named definition replaced by the operator beside it in the module (marked
`mutant`), as a plausible slip would. TLC finds each one with the property it
is listed for.

## 4. What is proved

The theorems hold for every set of events, resolvers and specifications, every
committee size, window and bond, from the named `ASSUME`s only: the sets that
sums run over (events, resolvers, accounts, markets, traders, players) are finite,
as addresses and hashes are; specifications, times and amounts are integers of the
declared kinds; the weights of a range market do not grow with the distance; the
clocks stop beyond every deadline. TLC evaluates the same assumptions in every run.

`SumTheorems` is about sums over finite sets, which all accounts are. `SumFunction`
of the community modules chooses a function on the subsets of the indices that
satisfies a recursion. That there is one, and that the order of adding does not
matter, is proved by a smallest counterexample (`SmallestSet`) instead of by
induction: a subset of the fewest elements on which the claim fails has an element to
take away, and the rest is no counterexample. From these come how a sum follows one
summand, several of them or all, sums of sums, of equal shares, and of shares rounded
down (`TotalFloors`).

`EventRegistryProofs`:

* Every step is a stutter, a change of the owner's settings, or per event one of
  a few kinds (`EventStep`: created, observed, unchallenged, ruled, moved,
  untouched). All invariants are proved by these kinds instead of by action.
* `RegTypeCorrect`, then `PhaseConsistency` (inductive with the types), then
  `CountsAreRight`: the counters follow the sets of resolvers because a resolver
  submits at most once (`SubmissionCounts`, which needs the cardinality of a set
  with one element added).
* `ProposalsHaveQuorum` is not inductive alone. That a proposal has its quorum
  needs the counters, since the code compares a counter; that no quorum lingers
  needs that no proposal exists in the observing phases, since the code's test
  also asks for that.
* `TerminalForever`, `FinalizesTheProposal`, `HistoryForever` are action
  properties from these invariants.
* `RegistryImplementsLifecycle`: each kind of step maps to a step of
  `EventLifecycle` or a stutter.

`DisputeManagerProofs`:

* `LadderImplementsRegistry`: `Spec => RegSpec`, so all of the above holds when
  the dispute manager drives the registry; `LadderImplementsLifecycle` is the
  consequence consumers rely on.
* `CaseTypeCorrect`: the manager's records keep their types.
* `CasesMatch` (`CaseMatchesStatus`): seen by one event, a step files a case, closes it,
  moves it to the other tier or leaves status and case alone (`CaseSteps`: `Filed`,
  `Closed`, `Escalated`, `Undisputed`); the two records agree after each. It needs
  `PhaseConsistent` of the registry, proved before, for the proposal a case copies.
* `DisputesAreInTime` (`DisputedInTime`) reads the guard off the two ways to file.
* `TierCountsAreRight` (`TierCountsAgree`): what one vote, commitment, reveal or draw
  does to a tier that counts right (`Counted`). It needs `TierShapes`: a tier that opens
  was empty before, so no old vote is counted in it.
* `DrawsAreFair` (`CommitteeDrawnFairly`) from the shape of tiers: only a tier that seeds
  is drawn, and it has no committee yet.
* `AgreementIsDecisive` (`AgreementDecides`), through `TalliesDecide`: the same with
  tallies in place of sets of votes. A vote either makes the 66% and closes the case or
  leaves both tallies below; two agreements at once would need more votes than members.
* `AccountsBalance` and `LadderSolvent` (`Solvent`): the balance is the sum of the credits
  and of what is in escrow per event. One lemma per step that moves money
  says what it does to both sums: a vote adds a bond to the escrow of its event; closing
  a tier moves that escrow to the credits of winners, treasury and dust, with the
  thirds and the remainders of the contract, and nothing is lost.
* `LadderTypeCorrect` (`TypeOK`): with the sums, that no balance goes below zero.
* `VotersAreMadeWhole` and `DisputersAreMadeWhole`: action properties from the same
  lemmas; a share is at least the bond because a winner's part of the forfeited
  bonds is not negative.

`EventComposerProofs`:

* `ComposerTypeCorrect` and `CompositionWellFounded`, from two facts about any
  step: what is settled stays (`SettledStays`), and definitions stay or are
  created in the right shape (`DefinitionsStand`).
* `VerdictsStand`: the inductive invariant adds that an operator has the number
  of operands it takes, so that a temporal operator compares two times that are
  final. The core is `EvaluateStable`: operands that settle later do not change
  an evaluation that already gave an answer.

* `AnswersComeFromEvents` (`AnswersFromEvents`): `Truth` is a function of the levels of
  composites. That there is one, that a level agrees with the levels below it, and
  that statuses agree with the level of their composite is shown by a smallest
  counterexample over levels; `WellFounded` gives the operands a lower level, and
  `VerdictStands` that what an operand says now is what it said when it was used.
* `BusAgrees`, and `BusImplementsFeed`: what is read from the bus is the status
  the composer reads (`ViewIsStatus`), no step settles two ids (`OneSettles`),
  and what is settled stays.
* `ClaimsHaveOneId` (`OneIdPerClaim`): two sorted lists in which every operand occurs
  as often are equal, by their first difference; so the id, which is taken from the
  sorted list, is the same for a claim however its operands were listed.

`ApplicationsProofs` (over `AppSpec`, for all ids, traders, amounts, fees, times, and
ladders of every length):

* The ids move as `OutcomeFeed` allows, whatever else a step does (`FeedMoves`), so
  what settled stands (`FeedStands`). Seen by one market a step lists it, trades,
  ends it or leaves it (`MarketKinds`).
* `SettlesAsRead` (`SettledAsRead`): a market takes the answer it ends on from the
  feed, and both stand. `PayoutsStand`: no step after the end touches pools, fee,
  answer or balances.
* `LadderReads` (`LadderRead`): `settle` counts the true boundaries. That this count
  is the range follows only if the boundaries are consistent, which `settle`
  establishes by pairs: then the true ones are the first (`TruesAreFirst`), by
  comparing sets of indices and their cardinalities.

`AppAccountsProofs` (over `AppSpec`): the accounts of the four contracts that pay out.
What each owes is written as a sum over its markets of a value of that market's record,
stakes and claims, so that a step changes one summand, and a lemma per kind of step says
by how much. `AccountsInv` is the inductive invariant, all contracts together: the vault
is paid by markets, and that their fees are for ids of the bus is an invariant of theirs.

* `VaultBalances` (`Balanced`): splitting fees moves them between pools, reserve and
  treasury and loses no remainder (`SplitFacts`).
* `SharesAreEqual` (`SharesRespected`): who shares a pool is fixed by the first split,
  which comes after the answer; pools only grow, so a share claimed before is within
  the share of today, and the subtraction in the claims cannot fail.
* `MarketsArePaid` (`MarketSolvent`): payouts are rounded down, so what a market owes after
  it ends is at most its pools less the fee (`TotalFloors`), and it owes its pools before.
  The invariant adds that the pools are the sums of the stakes and that a fee is taken only
  from a losing pool that somebody wins.
* `StakesComeBack` (`StakesReturned`): the fee is at most the losing pool.
* `PoolsArePaid` (`PoolsSolvent`) and `ResultsStand` (`ResultsAccepted`): what stands against a
  result is exactly what those who objected have staked, because nobody stakes after
  the result is proposed; and a market becomes final with an outcome only below the third.
* `RangesArePaid` (`DistSolvent`): a trade leaves at least the cost of all shares out in
  the reserve, and the cost is at least the shares of every range (`Backed`); that a
  cost exists, and that a purchase buys a number of shares, is where the weights
  must not grow. At the end one range is due, or an N-th of every share, each trader's
  part rounded down. The invariant adds that the shares out of a range are the sum of
  the traders' (`Shared`).

`ObserverProofs`:

* `AnswersAreDue` (`AnswersTheLastRound`), for every feed, clock and lag below the
  grace. The invariant (`PriceInv`) says that rounds are ordered in time over all
  phases; of a search that the round below `lo` is `best` and not after the instant
  and the round above `hi` is after it; and of an answer that its round is the last
  one at the instant, which stays so because later rounds are later (`DueStays`). That
  the node asked first has seen every round up to the instant is where
  `MaxLag < SettleGrace` is needed.

* `ChangesAsAnswered` (`DecidedAsHappened`), for any announcements, times of blocks,
  caches, restarts and lags. What a bisection, a scan and a replay return is defined by
  recursion and folds: that each recursion has a solution is shown by building it
  (`BisectsExist`, `FoldsExist`), and what it yields by counting up the length
  (`ByCounting`): `BlockFound`, `ScanHolds`, and `LiveIs`, by which a change is left of a
  replay when none after it in the list was announced before it took effect. The
  invariant (`ActionInv`): what the token has in force is what its logs tell
  (`InForceIs`); the cache has the logs of its blocks, each last seen before all later
  ones (`Holds`), which survives that a lagging node sets it back and the same blocks
  are scanned again (`HoldsExtended`); and an answer names an instant that is past. So
  a change left of a replay and ripe was never replaced (`ReplayIsSound`, where
  `NodeLag <= ActionGrace` is needed), and one that took effect in the window is in
  the list (`ReplayIsComplete`, where `MaxNotice < Lookback` is).

* `NothingListedTwice` (`NotListedTwice`). The invariant (`ListerInv`): what a node
  has seen listed it remembers until it restarts; of what a pass found due, none is a
  market of the node's own still ahead, unless the node is blind to a market (a call
  or a log was hidden from it). The next close is at least `MinLead` ahead, more than
  the lead at which a market is due again, and there is one within five days, over
  weekends too. It assumes what the settings of the daemon satisfy: every feed is listed
  once, closes lie within the day, and the lead is at most a day.

`ResolverNodeProofs`:

* `NodeImplementsLadder` (`NodeSpec => Spec`): whatever a daemon sends, the chain takes a
  step of the ladder (`MinedIsStep`, `NodeTakesSteps`); so all results on
  `DisputeManager` hold with it too, and the next one uses them.
* `MemoryIsRight` (`MemoryIsTrue`), with `NodeInv`. A call refused as moot is one the node
  remembers; `MemoryIsTrue` is not inductive, because that a resolver has not
  committed to a tier is no end of its duty to reveal while it still may commit. The
  invariant therefore says `CommitClosed` as well: the tier is over, is drawn, or its
  time to commit has passed, and the clock of a tier that seeds does not go back
  (`SeedingAge`). For votes it says that the tier was reached and is over
  (`Passed`), for observations that the event exists; both are known of the call
  the node waits on (`JobOK`) and stay so while it waits.

With `LadderImplementsLifecycle` the results on composer, bus and applications apply
to the registry driven by the dispute manager.

Only model-checked is liveness (`NothingStaysDue`, `KeeperEndsEvents`, `KeeperSettles`,
`EveryPoolEnds`): fairness and ENABLED are beyond the prover. Every other property of a
passing run is a theorem.

`TerminalIsFinal` and `BusConsistent` are stated by theorems alone, and by no run.

## 5. Not modelled, and what is left

Left for later, in order: the keeper's
passes over markets and the vault (`keeper.ts:132-184`), whose calls are
actions of the markets but whose scheduling is not; two daemons at once.

Not modelled, and why:

* SDK, frontend, scripts, mocks, vendored code: no protocol state. Three quarters of
  the repository's lines of code are SDK and frontend (`sdk/src/abis.ts` alone,
  generated by the compiler, has 6151).
* `SubscriptionManager`: a set that nothing reads. `PositionManager`: a list the market
  appends to and nothing reads.
* `StockLendingGuard` and the integrations: rules and one read each; what they rely on
  is `BusImplementsFeed`.
* Discovery, evidence backfill, `balanceWatch`, the HTTP server: scans of logs and
  reports, which change no decision but by what they find; what a provider answers
  about blocks it does not have yet is not in the repository.
* `fedRate` and `tradingStatus`: one value read and compared. `consensus/quorum.ts`: a
  helper the daemon does not call.
* The vault's ETH (`sweepDisputeProceeds`, `withdrawEth`) is an account of
  `DisputeManager`.
* The contract's 18-decimal exponential and logarithm (`DistributionMarket`), and the
  hashes behind event ids, committee seeds and evidence, which are taken as injective
  or as arbitrary choices.
