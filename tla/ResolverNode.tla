---------------------------- MODULE ResolverNode ----------------------------
(***************************************************************************)
(* resolver/node: one resolver daemon at work on the registry and the      *)
(* dispute manager of DisputeManager.tla, among users, owner and the other *)
(* resolvers, who act at any moment.                                       *)
(*                                                                         *)
(* A duty reads the chain and decides on a call (ResolverTick and the      *)
(* others); the call is sent later, to a chain that may have moved on, and *)
(* is mined, refused by the simulation, or neither, when the node does not *)
(* learn whether it will still be mined.  The loop visits the duties in    *)
(* order, the events in each, and comes round again; a visit that finds    *)
(* nothing to do is no step.  What the node remembers it forgets when      *)
(* multi.ts restarts it.                                                   *)
(***************************************************************************)
EXTENDS DisputeManager, Sequences

CONSTANTS
    Node,       \* the resolver this daemon signs for
    Malformed,  \* the events whose spec bytes the adapter cannot decode
    Index,      \* the events in the order of EventIndex.primitives
    MaxFailures \* bound: calls without an answer, aborted loops and restarts

ASSUME NodeAssumption == /\ Node \in Resolvers
                         /\ Malformed \subseteq EventIds
                         /\ Index \in Seq(EventIds)
                         /\ MaxFailures \in Nat

VARIABLES
    eligible,   \* authorized, as main() read it when the process started
    mem,        \* what the duties remember of events and of their tiers
    job,        \* the call the loop is waiting on
    late,       \* calls without an answer that may still be mined
    turn,       \* the position in the loop: the last visit that had work, or Down
    failures    \* how many failures there were

nodeVars == <<eligible, mem, job, late, turn, failures>>
allVars  == <<vars, nodeVars>>

Down == -1   \* the process is not running

Fresh == [done |-> {}, voted |-> {}, committed |-> {}, revealed |-> {}, terminal |-> {}]

Call(fn, e, t, p) == [fn |-> fn, event |-> e, tier |-> t, payload |-> p]
NoJob == [fn |-> "none"]

NodeInit == /\ Init
            /\ eligible = FALSE
            /\ mem = Fresh
            /\ job = NoJob
            /\ late = {}
            /\ turn = Down
            /\ failures = 0

Decide(fn, e, t, p) == /\ job' = Call(fn, e, t, p)
                       /\ UNCHANGED mem

-----------------------------------------------------------------------------
(* ResolverDuty.tick for one event.                                         *)
InWindow(e) == age[e] >= spec[e].openTimestamp /\ ~DeadlinePassed(e)

(* What an adapter reports: nothing that lies in the future.                *)
Reports(e) == {p \in Payloads : AcceptablePayload(e, p) /\ p.words = spec[e].specVersion}

NothingToObserve(e) == \/ status[e] \notin Observing
                       \/ DeadlinePassed(e)
                       \/ e \in Malformed /\ InWindow(e)

ResolverTick(e) ==
    /\ eligible
    /\ status[e] # "None" /\ e \notin mem.done
    /\ \/ /\ NothingToObserve(e)
          /\ mem' = [mem EXCEPT !.done = @ \cup {e}]
          /\ UNCHANGED job
       \/ /\ ~NothingToObserve(e) /\ InWindow(e)
          /\ \E p \in Reports(e) : Decide("submitObservation", e, 0, p)

(* VoterDuty.tick and seedTick for one event in dispute.                    *)
CommitOpen(e) == Seeding(e) /\ tierAge[e] < SeedCommitWindow
RevealOpen(e) == /\ Seeding(e)
                 /\ tierAge[e] >= SeedCommitWindow
                 /\ tierAge[e] < SeedCommitWindow + SeedRevealWindow

VoteOpen(e, t) == /\ tiers[e][t].drawn /\ cases[e].tier = t
                  /\ tierAge[e] < TierWindow[t]
                  /\ Node \in tiers[e][t].committee

VoterTick_OwnCommit(e) ==  \* mutant: reveals only what it remembers committing
    LET t == cases[e].tier IN
    /\ eligible
    /\ status[e] = "Disputed"
    /\ \/ /\ CommitOpen(e) /\ <<e, t>> \notin mem.committed
          /\ Decide("commitSeed", e, t, NoPayload)
       \/ /\ RevealOpen(e) /\ <<e, t>> \in mem.committed \ mem.revealed
          /\ Decide("revealSeed", e, t, NoPayload)
       \/ /\ VoteOpen(e, t) /\ <<e, t>> \notin mem.voted
          /\ e \notin Malformed
          /\ \E b \in BOOLEAN : Decide("submitTierVote", e, t, ShortPayload(b))

VoterTick(e) ==
    LET t == cases[e].tier IN
    /\ eligible
    /\ status[e] = "Disputed"
    /\ \/ /\ CommitOpen(e) /\ <<e, t>> \notin mem.committed
          /\ Decide("commitSeed", e, t, NoPayload)
       \/ /\ RevealOpen(e) /\ <<e, t>> \notin mem.revealed
          /\ Decide("revealSeed", e, t, NoPayload)
       \/ /\ VoteOpen(e, t) /\ <<e, t>> \notin mem.voted
          /\ e \notin Malformed
          /\ \E b \in BOOLEAN : Decide("submitTierVote", e, t, ShortPayload(b))

Due_AllRevealed(e) ==  \* mutant: waits for every reveal
    LET t == cases[e].tier IN
    CASE status[e] = "Open" /\ DeadlinePassed(e) -> "expire"
      [] status[e] = "ObservationsSubmitted" /\ DeadlinePassed(e) -> "escalateNonConvergence"
      [] status[e] = "ProposedOutcome" /\ age[e] >= spec[e].disputeWindow -> "finalize"
      [] status[e] = "Disputed" /\ Seeding(e) /\ SeedingOver_AllRevealed(e) -> "drawCommittee"
      [] status[e] = "Disputed" /\ tiers[e][t].drawn /\ tierAge[e] >= TierWindow[t] ->
            IF t = 1 THEN "escalateTier2" ELSE "voidAfterTier2Timeout"
      [] OTHER -> "none"

(* KeeperDuty.tick for one event: the call that is due, if any.             *)
Due(e) ==
    LET t == cases[e].tier IN
    CASE status[e] = "Open" /\ DeadlinePassed(e) -> "expire"
      [] status[e] = "ObservationsSubmitted" /\ DeadlinePassed(e) -> "escalateNonConvergence"
      [] status[e] = "ProposedOutcome" /\ age[e] >= spec[e].disputeWindow -> "finalize"
      [] status[e] = "Disputed" /\ Seeding(e) /\ SeedingOver(e) -> "drawCommittee"
      [] status[e] = "Disputed" /\ tiers[e][t].drawn /\ tierAge[e] >= TierWindow[t] ->
            IF t = 1 THEN "escalateTier2" ELSE "voidAfterTier2Timeout"
      [] OTHER -> "none"

KeeperTick(e) ==
    /\ status[e] # "None" /\ e \notin mem.terminal
    /\ \/ /\ status[e] \in Terminal
          /\ mem' = [mem EXCEPT !.terminal = @ \cup {e}]
          /\ UNCHANGED job
       \/ Due(e) # "none" /\ Decide(Due(e), e, 0, NoPayload)

(* RewardsDuty.withdrawDisputeCredits.                                      *)
RewardsTick(e) == /\ pendingWithdrawals[Node] > 0
                  /\ Decide("withdraw", e, 0, NoPayload)

(* loop() of index.ts: position p of a round visits one event in one duty.  *)
Positions == 1..(4 * Len(Index))
EventAt(p) == Index[((p - 1) % Len(Index)) + 1]
Visit(p) == CASE (p - 1) \div Len(Index) = 0 -> ResolverTick(EventAt(p))
              [] (p - 1) \div Len(Index) = 1 -> VoterTick(EventAt(p))
              [] (p - 1) \div Len(Index) = 2 -> KeeperTick(EventAt(p))
              [] (p - 1) \div Len(Index) = 3 -> RewardsTick(EventAt(p))

After(p) == ((p - turn - 1) + Len(Index) * 4) % (Len(Index) * 4)

(* main() looks once whether the node is authorized, and starts to poll.    *)
Start == /\ turn = Down
         /\ turn' = 0
         /\ eligible' = (Node \in authorized)
         /\ UNCHANGED <<vars, mem, job, late, failures>>

Loop == /\ turn # Down /\ job = NoJob
        /\ \E p \in Positions :
              /\ Visit(p)
              /\ \A q \in Positions : After(q) < After(p) => ~ENABLED Visit(q)
              /\ turn' = p
        /\ UNCHANGED <<vars, eligible, late, failures>>

-----------------------------------------------------------------------------
(* What the chain does with a call.  A call about a tier is not delayed     *)
(* beyond that tier, which lasts for hours.                                 *)
Mined(c) ==
    LET e == c.event IN
    \/ /\ \/ c.fn = "submitObservation" /\ SubmitObservation(e, Node, c.payload)
          \/ c.fn = "expire" /\ Expire(e)
          \/ c.fn = "finalize" /\ Finalize(e)
       /\ UNCHANGED dmVars
    \/ c.fn = "escalateNonConvergence" /\ EscalateNonConvergence(e)
    \/ c.fn = "drawCommittee" /\ DrawCommittee(e)
    \/ c.fn = "escalateTier2" /\ EscalateTier2(e)
    \/ c.fn = "voidAfterTier2Timeout" /\ VoidAfterTier2Timeout(e)
    \/ c.fn = "withdraw" /\ Withdraw(Node)
    \/ c.fn = "commitSeed" /\ cases[e].tier = c.tier /\ CommitSeed(e, Node)
    \/ c.fn = "revealSeed" /\ cases[e].tier = c.tier /\ RevealSeed(e, Node)
    \/ c.fn = "submitTierVote" /\ SubmitTierVote(e, c.tier, Node, c.payload.outcome)

(* The simulation reverts for a reason that says there is nothing left to   *)
(* do: TERMINAL_REASONS, /already voted|not in this tier/ and the others.   *)
Moot_AnyRevert(c) == ~ENABLED Mined(c)  \* mutant: whatever is refused is done
Moot(c) ==
    LET e == c.event IN
    \/ /\ c.fn = "submitObservation"
       /\ Node \in authorized
       /\ status[e] \notin Observing \/ DeadlinePassed(e) \/ HasSubmitted(e, Node)
    \/ /\ c.fn = "commitSeed"
       /\ CommitOpen(e) /\ cases[e].tier = c.tier
       /\ Node \in authorized \cap tiers[e][c.tier].commitments
    \/ /\ c.fn = "revealSeed"
       /\ RevealOpen(e) /\ cases[e].tier = c.tier
       /\ \/ Node \in tiers[e][c.tier].revealedSeed
          \/ Node \notin tiers[e][c.tier].commitments
    \/ /\ c.fn = "submitTierVote"
       /\ \/ ~InTier(e, c.tier)
          \/ VoteOpen(e, c.tier) /\ tiers[e][c.tier].votes[Node] # "NotVoted"

Learned(c) == CASE c.fn = "submitObservation" -> [mem EXCEPT !.done = @ \cup {c.event}]
                [] c.fn = "commitSeed" -> [mem EXCEPT !.committed = @ \cup {<<c.event, c.tier>>}]
                [] c.fn = "revealSeed" -> [mem EXCEPT !.revealed = @ \cup {<<c.event, c.tier>>}]
                [] c.fn = "submitTierVote" -> [mem EXCEPT !.voted = @ \cup {<<c.event, c.tier>>}]
                [] OTHER -> mem

(* send() returned ok.                                                      *)
Confirmed == /\ job # NoJob
             /\ Mined(job)
             /\ mem' = Learned(job)
             /\ job' = NoJob
             /\ UNCHANGED <<eligible, late, turn, failures>>

(* send() returned a revert reason.                                         *)
Refused == /\ job # NoJob
           /\ ~ENABLED Mined(job)
           /\ mem' = IF Moot(job) THEN Learned(job) ELSE mem
           /\ job' = NoJob
           /\ UNCHANGED <<vars, eligible, late, turn, failures>>

(* Calls only this node can make: any other that is mined late is a step of *)
(* Others.  At most one is on its way.                                      *)
Signed == {c \in {job} : c.fn \in {"submitObservation", "commitSeed", "revealSeed",
                                   "submitTierVote", "withdraw"}}

Fail == failures < MaxFailures /\ failures' = failures + 1

(* send() returned a transport error, a timeout or a revert on chain; the   *)
(* call may have been broadcast before.                                     *)
Unanswered == /\ job # NoJob
              /\ Fail
              /\ job' = NoJob
              /\ late' \in {late, Signed}
              /\ UNCHANGED <<vars, eligible, mem, turn>>

LateCall == \E c \in late : /\ late' = late \ {c}
                            /\ Mined(c) \/ UNCHANGED vars
                            /\ UNCHANGED <<eligible, mem, job, turn, failures>>

(* A read throws and the loop starts over at the next poll.                 *)
Abort == /\ turn # Down /\ job = NoJob
         /\ Fail
         /\ turn' = 0
         /\ UNCHANGED <<vars, eligible, mem, job, late>>

(* The process exits; multi.ts will start another.                          *)
Crash == /\ turn # Down
         /\ Fail
         /\ mem' = Fresh
         /\ job' = NoJob
         /\ late' \in {late, Signed}
         /\ turn' = Down
         /\ eligible' = FALSE
         /\ UNCHANGED vars

(* Everybody else, who cannot sign for this node.                           *)
Others == /\ Next
          /\ \A e \in EventIds :
                /\ observation'[e][Node] = observation[e][Node]
                /\ \A t \in TierNums :
                      LET old == tiers[e][t]  new == tiers'[e][t] IN
                      /\ new.votes[Node] = old.votes[Node]
                      /\ Node \in new.commitments => Node \in old.commitments
                      /\ Node \in new.revealedSeed => Node \in old.revealedSeed
          /\ pendingWithdrawals'[Node] >= pendingWithdrawals[Node]
          /\ UNCHANGED nodeVars

NodeNext == \/ Start \/ Loop \/ Confirmed \/ Refused
            \/ Unanswered \/ LateCall \/ Abort \/ Crash
            \/ Others

(* setInterval calls loop() again and again, whatever it caught, and        *)
(* multi.ts restarts the process whatever it exited with.                   *)
NodeSpec == /\ NodeInit /\ [][NodeNext]_allVars
            /\ WF_allVars(Start \/ Loop \/ Confirmed \/ Refused)

-----------------------------------------------------------------------------
(* What the node remembers as finished is finished on chain, whatever was   *)
(* lost, late or refused: it never gives up a duty it still has.            *)
MemoryIsTrue ==
    /\ \A e \in mem.done : HasSubmitted(e, Node) \/ NothingToObserve(e)
    /\ \A e \in mem.terminal : status[e] \in Terminal
    /\ \A e \in EventIds, t \in TierNums :
          LET tier == tiers[e][t] IN
          /\ <<e, t>> \in mem.committed => Node \in tier.commitments
          /\ <<e, t>> \in mem.revealed =>
                Node \in tier.revealedSeed \/ Node \notin tier.commitments
          /\ <<e, t>> \in mem.voted =>
                tier.votes[Node] # "NotVoted" \/ ~InTier(e, t)

ObservationDue(e) == /\ status[e] \in Observing /\ InWindow(e)
                     /\ MaySubmit(e, Node)
                     /\ Reports(e) # {} /\ e \notin Malformed
CommitDue(e) == CommitOpen(e) /\ Node \in authorized \ tiers[e][cases[e].tier].commitments
RevealDue(e) == RevealOpen(e) /\ Node \in Withheld(tiers[e][cases[e].tier])
VoteDue(e)   == LET t == cases[e].tier IN
                /\ status[e] = "Disputed" /\ VoteOpen(e, t) /\ e \notin Malformed
                /\ tiers[e][t].votes[Node] = "NotVoted"

(* Nothing the node owes stays undone for want of trying: an observation, a *)
(* commitment, its reveal or a vote that is due gets sent, or stops being   *)
(* due, through lost answers and restarts, if the node knew it is a         *)
(* resolver when it last started.  Time need not pass.                      *)
NothingStaysDue ==
    \A e \in EventIds :
        /\ eligible /\ ObservationDue(e) ~> ~(eligible /\ ObservationDue(e))
        /\ eligible /\ CommitDue(e) ~> ~(eligible /\ CommitDue(e))
        /\ eligible /\ RevealDue(e) ~> ~(eligible /\ RevealDue(e))
        /\ eligible /\ VoteDue(e) ~> ~(eligible /\ VoteDue(e))

(* One node's keeper, with all its failures, is the fair keeper of          *)
(* DisputeManager: if time passes and the deployment is set up, every event *)
(* ends.                                                                    *)
KeeperEndsEvents ==
    WF_allVars(Tick /\ UNCHANGED nodeVars)
      /\ WF_allVars(SetDisputeManager /\ UNCHANGED <<dmVars, nodeVars>>)
    => EveryEventEnds
=============================================================================
