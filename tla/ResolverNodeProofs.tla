------------------------- MODULE ResolverNodeProofs -------------------------
(***************************************************************************)
(* What holds of one daemon for any pool, windows and specifications, and  *)
(* any number of lost answers, late calls, aborted loops and restarts.     *)
(***************************************************************************)
EXTENDS ResolverNode, DisputeManagerProofs

(* A call the node can decide on.                                           *)
CallOK(c) == /\ c.event \in EventIds
             /\ c.fn = "submitObservation" => c.payload \in Payloads
             /\ c.fn \in {"commitSeed", "revealSeed", "submitTierVote"} => c.tier \in TierNums
             /\ c.fn = "submitTierVote" => c.payload.outcome \in BOOLEAN

Memory == [done : SUBSET EventIds, terminal : SUBSET EventIds,
           voted : SUBSET (EventIds \X TierNums), committed : SUBSET (EventIds \X TierNums),
           revealed : SUBSET (EventIds \X TierNums)]

NodeTyped == /\ RegTypeOK /\ CaseTypeOK
             /\ mem \in Memory
             /\ job = NoJob \/ CallOK(job)
             /\ \A c \in late : CallOK(c)

(* What the node signs and what anybody may call are steps of the ladder.   *)
LEMMA MinedIsStep ==
    ASSUME NEW c, CallOK(c), Mined(c)
    PROVE  Next
<1> DEFINE e == c.event
<1>1. e \in EventIds /\ Node \in Resolvers /\ Node \in Accounts
  BY NodeAssumption, DisputeAssumption DEF CallOK
<1>2. CASE /\ \/ c.fn = "submitObservation" /\ SubmitObservation(e, Node, c.payload)
              \/ c.fn = "expire" /\ Expire(e)
              \/ c.fn = "finalize" /\ Finalize(e)
           /\ UNCHANGED dmVars
  <2>1. PublicStep
    BY <1>1, <1>2, Zenon DEF PublicStep, CallOK
  <2> QED BY <1>2, <2>1 DEF Next, RegistryOnly
<1>3. CASE c.fn = "submitTierVote" /\ SubmitTierVote(e, c.tier, Node, c.payload.outcome)
  <2>1. c.tier \in TierNums /\ c.payload.outcome \in BOOLEAN
    BY <1>3 DEF CallOK
  <2> QED BY <1>1, <1>3, <2>1, Zenon DEF Next, DisputeStep
<1>4. CASE \/ EscalateNonConvergence(e) \/ DrawCommittee(e) \/ EscalateTier2(e) \/ VoidAfterTier2Timeout(e)
           \/ CommitSeed(e, Node) \/ RevealSeed(e, Node)
  BY <1>1, <1>4, Zenon DEF Next, DisputeStep
<1>5. CASE Withdraw(Node)
  BY <1>1, <1>5 DEF Next
<1> QED BY <1>2, <1>3, <1>4, <1>5, Zenon DEF Mined

(* The steps of the daemon by what they do to the chain and to its memory.  *)
LEMMA NodeSteps ==
    ASSUME [NodeNext]_allVars
    PROVE  \/ UNCHANGED vars /\ UNCHANGED <<mem, job, late>>
           \/ UNCHANGED vars /\ UNCHANGED late /\ job = NoJob /\ \E p \in Positions : Visit(p)
           \/ job # NoJob /\ Mined(job) /\ mem' = Learned(job) /\ job' = NoJob /\ UNCHANGED late
           \/ /\ UNCHANGED vars /\ UNCHANGED late /\ job # NoJob /\ job' = NoJob
              /\ mem' = IF Moot(job) THEN Learned(job) ELSE mem
           \/ UNCHANGED vars /\ mem' \in {mem, Fresh} /\ job' = NoJob /\ late' \in {late, Signed}
           \/ /\ \E c \in late : (Mined(c) \/ UNCHANGED vars) /\ late' = late \ {c}
              /\ UNCHANGED <<mem, job>>
           \/ Next /\ UNCHANGED <<mem, job, late>>
<1>1. CASE Loop
  BY <1>1 DEF Loop
<1>2. CASE Confirmed
  BY <1>2 DEF Confirmed
<1>3. CASE Refused
  BY <1>3 DEF Refused
<1>4. CASE Unanswered \/ Crash
  BY <1>4 DEF Unanswered, Crash
<1>5. CASE LateCall
  BY <1>5 DEF LateCall
<1>6. CASE Others
  BY <1>6 DEF Others, nodeVars
<1>7. CASE Start \/ Abort \/ UNCHANGED allVars
  BY <1>7 DEF Start, Abort, allVars, nodeVars
<1> QED BY <1>1, <1>2, <1>3, <1>4, <1>5, <1>6, <1>7 DEF NodeNext

(* Whatever the daemon does, the chain takes a step of the ladder.          *)
LEMMA NodeTakesSteps ==
    ASSUME NodeTyped, [NodeNext]_allVars
    PROVE  [Next]_vars
<1>1. \A c : CallOK(c) /\ Mined(c) => Next
  BY MinedIsStep
<1>2. job # NoJob => CallOK(job)
  BY DEF NodeTyped
<1>3. \A c \in late : CallOK(c)
  BY DEF NodeTyped
<1> QED BY <1>1, <1>2, <1>3, NodeSteps, Zenon

(* The loop visits one event in one duty.                                   *)
LEMMA Visits ==
    ASSUME NEW p \in Positions, Visit(p)
    PROVE  \E e \in EventIds : ResolverTick(e) \/ VoterTick(e) \/ KeeperTick(e) \/ RewardsTick(e)
<1> DEFINE n == Len(Index)
           q == (p - 1) \div n
           i == ((p - 1) % n) + 1
<1>1. Index \in Seq(EventIds) /\ n \in Nat /\ p \in Nat /\ p >= 1 /\ p <= 4 * n
  BY NodeAssumption DEF Positions
<1>2. n \in Nat \ {0}
  BY <1>1
<1>3. q \in Nat /\ i \in 1..n
  <2> HIDE DEF n
  <2> QED BY <1>1, <1>2
<1>4. q <= 3
  <2> SUFFICES ASSUME q >= 4 PROVE FALSE
    BY <1>3
  <2>1. q * n <= p - 1 /\ q * n \in Nat
    <3> HIDE DEF n
    <3> QED BY <1>1, <1>2
  <2> HIDE DEF n, q
  <2>2. 4 * n <= q * n
    BY <1>2, <1>3, TimesNat
  <2> QED BY <1>1, <1>2, <2>1, <2>2
<1>5. EventAt(p) \in EventIds
  <2>1. EventAt(p) = Index[i]
    BY DEF EventAt
  <2> HIDE DEF i
  <2> QED BY <1>1, <1>3, <2>1
<1>6. q \in {0, 1, 2, 3}
  <2> HIDE DEF q
  <2> QED BY <1>3, <1>4
<1>7. Visit(p) = CASE q = 0 -> ResolverTick(EventAt(p))
                   [] q = 1 -> VoterTick(EventAt(p))
                   [] q = 2 -> KeeperTick(EventAt(p))
                   [] q = 3 -> RewardsTick(EventAt(p))
  BY DEF Visit
<1>8. ResolverTick(EventAt(p)) \/ VoterTick(EventAt(p)) \/ KeeperTick(EventAt(p)) \/ RewardsTick(EventAt(p))
  <2> HIDE DEF q
  <2> QED BY <1>6, <1>7
<1> QED BY <1>5, <1>8

(* A tier that was opened stays so.                                         *)
Reached(e, t) == cases[e].exists /\ cases[e].tier >= t

JobOK(c) == /\ c.fn = "submitObservation" => status[c.event] # "None"
            /\ c.fn \in {"commitSeed", "revealSeed", "submitTierVote"} => Reached(c.event, c.tier)

(* What a visit remembers is so, and what it decides on it may.             *)
LEMMA VisitIs ==
    ASSUME RegTypeOK, CaseTypeOK, NEW p \in Positions, Visit(p)
    PROVE  \E e \in EventIds :
              \/ /\ status[e] # "None" /\ NothingToObserve(e)
                 /\ mem' = [mem EXCEPT !.done = @ \cup {e}] /\ job' = job
              \/ /\ status[e] \in Terminal
                 /\ mem' = [mem EXCEPT !.terminal = @ \cup {e}] /\ job' = job
              \/ mem' = mem /\ CallOK(job') /\ (CaseMatchesStatus => JobOK(job'))
<1>1. PICK e \in EventIds : ResolverTick(e) \/ VoterTick(e) \/ KeeperTick(e) \/ RewardsTick(e)
  BY Visits
<1>2. CASE ResolverTick(e)
  <2>1. CASE NothingToObserve(e)
    BY <1>2, <2>1 DEF ResolverTick
  <2>2. CASE ~NothingToObserve(e)
    <3>1. PICK b \in Reports(e) : Decide("submitObservation", e, 0, b)
      BY <1>2, <2>2 DEF ResolverTick
    <3>2. b \in Payloads /\ status[e] # "None"
      BY <1>2 DEF Reports, ResolverTick
    <3>3. mem' = mem /\ CallOK(job') /\ (CaseMatchesStatus => JobOK(job'))
      BY <3>1, <3>2 DEF Decide, Call, CallOK, JobOK
    <3> QED BY <3>3
  <2> QED BY <2>1, <2>2
<1>3. CASE VoterTick(e)
  <2> DEFINE t == cases[e].tier
  <2>1. t \in TierNums /\ (CaseMatchesStatus => Reached(e, t))
    <3>1. t \in TierNums
      BY CaseTypes DEF CaseTypeOK
    <3>2. CaseMatchesStatus => cases[e].exists
      BY <1>3 DEF VoterTick, CaseMatchesStatus
    <3> QED BY <3>1, <3>2 DEF Reached, TierNums
  <2>2. \/ Decide("commitSeed", e, t, NoPayload) \/ Decide("revealSeed", e, t, NoPayload)
        \/ \E b \in BOOLEAN : Decide("submitTierVote", e, t, ShortPayload(b))
    BY <1>3 DEF VoterTick
  <2> HIDE DEF t
  <2>3. mem' = mem /\ CallOK(job') /\ (CaseMatchesStatus => JobOK(job'))
    <3>1. \A b \in BOOLEAN : ShortPayload(b).outcome \in BOOLEAN
      BY DEF ShortPayload
    <3> QED BY <2>1, <2>2, <3>1 DEF Decide, Call, CallOK, JobOK
  <2> QED BY <2>3
<1>4. CASE KeeperTick(e)
  <2>1. CASE status[e] \in Terminal
    <3>1. Due(e) = "none"
      BY <2>1 DEF Due, Terminal
    <3> QED BY <1>4, <2>1, <3>1 DEF KeeperTick
  <2>2. CASE status[e] \notin Terminal
    <3>1. Decide(Due(e), e, 0, NoPayload)
      BY <1>4, <2>2 DEF KeeperTick
    <3>2. Due(e) \notin {"submitObservation", "commitSeed", "revealSeed", "submitTierVote"}
      BY DEF Due
    <3>3. mem' = mem /\ CallOK(job') /\ (CaseMatchesStatus => JobOK(job'))
      BY <3>1, <3>2 DEF Decide, Call, CallOK, JobOK
    <3> QED BY <3>3
  <2> QED BY <2>1, <2>2
<1>5. CASE RewardsTick(e)
  <2>1. mem' = mem /\ CallOK(job') /\ (CaseMatchesStatus => JobOK(job'))
    BY <1>5 DEF RewardsTick, Decide, Call, CallOK, JobOK
  <2> QED BY <2>1
<1> QED BY <1>1, <1>2, <1>3, <1>4, <1>5

-----------------------------------------------------------------------------
(* While an event is observed, its clock only goes on.                      *)
LEMMA ObservingAge ==
    ASSUME RegTypeOK, [RegNext]_regVars, NEW e \in EventIds, status[e] \in Observing
    PROVE  status'[e] \notin Observing \/ (age'[e] >= age[e] /\ spec'[e] = spec[e])
<1>0. age[e] \in Nat /\ age \in [EventIds -> 0..MaxAge]
  BY MaxAgeAssumption DEF RegTypeOK
<1> DEFINE Goal == status'[e] \notin Observing \/ (age'[e] >= age[e] /\ spec'[e] = spec[e])
<1>1. CASE \E es \in SUBSET EventIds : \E batch \in [es -> Specs] : CreateEvents(batch)
  <2>1. PICK es \in SUBSET EventIds : \E batch \in [es -> Specs] : CreateEvents(batch)
    BY <1>1
  <2>2. PICK batch \in [es -> Specs] : CreateEvents(batch)
    BY <2>1
  <2>3. e \notin es
    BY <2>2 DEF CreateEvents, Observing
  <2> QED BY <1>0, <2>2, <2>3 DEF CreateEvents, RegTypeOK
<1>2. CASE \E f \in EventIds, r \in Resolvers, p \in Payloads : SubmitObservation(f, r, p)
  <2>1. PICK f \in EventIds, r \in Resolvers, p \in Payloads : SubmitObservation(f, r, p)
    BY <1>2
  <2>2. CASE f # e
    BY <1>0, <2>1, <2>2 DEF SubmitObservation, RegTypeOK
  <2>3. CASE f = e
    <3> DEFINE quorum == QuorumReached(e, observationCount[e][p] + 1)
    <3>1. /\ status' = [status EXCEPT ![e] = IF quorum THEN "ProposedOutcome" ELSE "ObservationsSubmitted"]
          /\ age' = [age EXCEPT ![e] = IF quorum THEN 0 ELSE @] /\ spec' = spec
      BY <2>1, <2>3 DEF SubmitObservation
    <3> HIDE DEF quorum
    <3> QED BY <1>0, <3>1 DEF RegTypeOK, Observing
  <2> QED BY <2>2, <2>3
<1>3. CASE \E f \in EventIds : Finalize(f) \/ \E p \in Payloads : FinalizeFromDispute(f, p)
  BY <1>0, <1>3 DEF Finalize, FinalizeFromDispute, SetFinalized, RegTypeOK, Observing
<1>4. CASE \E f \in EventIds : Expire(f) \/ RegEscalateNonConvergence(f) \/ EscalateToDispute(f) \/ VoidEvent(f)
  <2>1. PICK f \in EventIds, s \in {"Expired", "Disputed", "Voided"} : SetStatus(f, s)
    BY <1>4 DEF Expire, RegEscalateNonConvergence, EscalateToDispute, VoidEvent
  <2>2. CASE f # e
    BY <1>0, <2>1, <2>2 DEF SetStatus, RegTypeOK
  <2>3. CASE f = e
    BY <2>1, <2>3 DEF SetStatus, RegTypeOK, Observing
  <2> QED BY <2>2, <2>3
<1>5. CASE RegTick
  BY <1>0, <1>5 DEF RegTick
<1>6. CASE (\E r \in Resolvers, on \in BOOLEAN : SetResolverAuthorization(r, on)) \/ SetDisputeManager \/ UNCHANGED regVars
  BY <1>0, <1>6 DEF SetResolverAuthorization, SetDisputeManager, regVars, eventVars
<1> QED BY <1>1, <1>2, <1>3, <1>4, <1>5, <1>6, StepCases

(* An event the node has done with needs no observation of it ever again.   *)
DoneWith(e) == status[e] # "None" /\ (HasSubmitted(e, Node) \/ NothingToObserve(e))

(* What was observed stays observed, and what is over stays over.           *)
LEMMA DoneStays ==
    ASSUME RegTypeOK, [Next]_vars, NEW e \in EventIds
    PROVE  /\ status[e] # "None" => status'[e] # "None"
           /\ HasSubmitted(e, Node) => HasSubmitted(e, Node)'
           /\ DoneWith(e) => DoneWith(e)'
           /\ status[e] \in Terminal => status'[e] \in Terminal
<1>0. Node \in Resolvers /\ [RegNext]_regVars
  BY NodeAssumption, LadderStep
<1>1. Created(e) \/ Observed(e) \/ Unchallenged(e) \/ Ruled(e) \/ Moved(e) \/ Untouched(e)
  BY <1>0, EventStep
<1>2. ASSUME Observed(e)
      PROVE  /\ status[e] \in Observing /\ ~DeadlinePassed(e) /\ age[e] >= spec[e].openTimestamp
             /\ status'[e] \in {"ProposedOutcome", "ObservationsSubmitted"}
             /\ HasSubmitted(e, Node) => observation'[e][Node] = observation[e][Node]
  BY <1>0, <1>2 DEF Observed, SubmitObservation, MaySubmit, HasSubmitted, RegTypeOK
<1>3. /\ status[e] # "None" => status'[e] # "None"
      /\ status[e] \in Terminal => status'[e] \in Terminal
      /\ status[e] # "None" /\ status[e] \notin Observing => status'[e] \notin Observing
  BY <1>1, <1>2 DEF Created, Unchallenged, Ruled, Moved, Untouched, Observing, Terminal
<1>4. HasSubmitted(e, Node) => HasSubmitted(e, Node)'
  BY <1>1, <1>2 DEF Created, Unchallenged, Ruled, Moved, Untouched, SameRecord, HasSubmitted
<1>5. ASSUME status[e] # "None", NothingToObserve(e) PROVE NothingToObserve(e)'
  <2>1. CASE status[e] \notin Observing
    BY <1>3, <1>5, <2>1 DEF NothingToObserve
  <2>2. CASE status[e] \in Observing /\ status'[e] \in Observing
    <3>1. age'[e] >= age[e] /\ spec'[e] = spec[e]
      BY <1>0, <2>2, ObservingAge
    <3>2. /\ age[e] \in Nat /\ age'[e] \in Nat
          /\ spec[e].observationDeadline \in Int /\ spec[e].openTimestamp \in Int
      <4>1. age[e] \in Nat /\ spec[e] \in Specs \cup {NoSpec}
        BY MaxAgeAssumption DEF RegTypeOK
      <4>2. RegTypeOK'
        BY <1>0, RegTypesKept
      <4>3. age'[e] \in Nat
        BY <4>2, MaxAgeAssumption DEF RegTypeOK
      <4> QED BY <4>1, <4>3, SpecsAssumption DEF NoSpec
    <3> QED BY <1>5, <2>2, <3>1, <3>2 DEF NothingToObserve, InWindow, DeadlinePassed
  <2>3. CASE status'[e] \notin Observing
    BY <2>3 DEF NothingToObserve
  <2> QED BY <2>1, <2>2, <2>3
<1> QED BY <1>3, <1>4, <1>5 DEF DoneWith

(* A tier that a case has come to, and is no longer in.                     *)
Passed(e, t) == Reached(e, t) /\ ~InTier(e, t)

(* A tier that was reached, or passed, stays so.                            *)
LEMMA TiersPass ==
    ASSUME RegTypeOK, CaseTypeOK, CaseMatchesStatus, [Next]_vars, NEW e \in EventIds, NEW t \in TierNums
    PROVE  /\ Reached(e, t) => Reached(e, t)'
           /\ Passed(e, t) => Passed(e, t)'
<1>1. Filed(e) \/ Closed(e) \/ Escalated(e) \/ Undisputed(e)
  BY CaseSteps
<1>2. cases[e] \in CaseRecord /\ cases[e].tier \in {1, 2} /\ t \in {1, 2}
  BY CaseTypes DEF CaseTypeOK, TierNums
<1> USE DEF Reached, Passed, InTier
<1>3. CASE Filed(e)
  BY <1>3 DEF Filed
<1>4. CASE Closed(e)
  <2>1. /\ cases'[e].exists = cases[e].exists /\ cases'[e].tier = cases[e].tier /\ cases'[e].resolved
    BY <1>2, <1>4 DEF Closed, CaseRecord
  <2> QED BY <2>1
<1>5. CASE Escalated(e)
  <2>1. /\ cases'[e].exists = cases[e].exists /\ cases[e].tier = 1 /\ cases'[e].tier = 2
        /\ ~cases[e].resolved
    BY <1>2, <1>5 DEF Escalated, Live, CaseRecord
  <2> QED BY <1>2, <2>1
<1>6. CASE Undisputed(e)
  BY <1>6 DEF Undisputed
<1> QED BY <1>1, <1>3, <1>4, <1>5, <1>6

(* The clock of a tier that is being seeded goes on until it no longer is.  *)
LEMMA SeedingAge ==
    ASSUME RegTypeOK, CaseTypeOK, [Next]_vars, NEW e \in EventIds, NEW t \in TierNums,
           cases[e].exists, ~cases[e].resolved, cases[e].tier = t
    PROVE  \/ tierAge'[e] >= tierAge[e] /\ tierAge'[e] \in Nat
           \/ cases'[e].resolved \/ cases'[e].tier # t \/ ~tiers'[e][t].seeding
<1>0. /\ tierAge[e] \in Nat /\ MaxTierAge \in Nat /\ tierAge \in [EventIds -> 0..MaxTierAge]
      /\ cases \in [EventIds -> CaseRecord] /\ cases[e] \in CaseRecord
      /\ t \in {1, 2}
  BY DisputeAssumption DEF CaseTypeOK, TierNums
<1>1. CASE RegistryOnly \/ (\E a \in Accounts : Withdraw(a)) \/ UNCHANGED vars
           \/ (\E f \in EventIds, r \in Resolvers : CommitSeed(f, r))
           \/ (\E f \in EventIds, r \in Resolvers : RevealSeed(f, r))
  <2>1. tierAge' = tierAge
    BY <1>1 DEF RegistryOnly, Withdraw, vars, dmVars, caseVars, CommitSeed, RevealSeed
  <2> QED BY <1>0, <2>1
<1>2. CASE \E f \in EventIds : (\E a \in Disputers : Dispute(f, a)) \/ EscalateNonConvergence(f)
  <2>1. PICK f \in EventIds : ~cases[f].exists /\ tierAge' = [tierAge EXCEPT ![f] = 0]
    BY <1>2 DEF Dispute, EscalateNonConvergence, OpenTier
  <2> QED BY <1>0, <2>1
<1>3. CASE \E f \in EventIds : DrawCommittee(f)
  <2>1. PICK f \in EventIds : DrawCommittee(f)
    BY <1>3
  <2>2. CASE f # e
    BY <1>0, <2>1, <2>2 DEF DrawCommittee
  <2>3. CASE f = e
    <3>1. PICK c \in Drawable(Candidates(tiers[e][t]), CommitteeSize[t]) :
             tiers' = [tiers EXCEPT ![e][t] = Drawn(tiers[e][t], c)]
      BY <2>1, <2>3 DEF DrawCommittee
    <3>2. tiers'[e][t] = Drawn(tiers[e][t], c) /\ tiers[e][t] \in TierRecord
      BY <3>1 DEF CaseTypeOK
    <3>3. c \in SUBSET Resolvers
      BY <3>2, Drawables
    <3>4. ~tiers'[e][t].seeding
      BY <3>2, <3>3, DrawnFields
    <3> QED BY <3>4
  <2> QED BY <2>2, <2>3
<1>4. CASE \E f \in EventIds, u \in TierNums, r \in Resolvers, b \in BOOLEAN : SubmitTierVote(f, u, r, b)
  <2>1. PICK f \in EventIds : CaseCloses(f) \/ CaseStays
    BY <1>4, VoteEffects
  <2>2. CASE CaseStays \/ f # e
    BY <1>0, <2>1, <2>2 DEF CaseStays, CaseCloses
  <2>3. CASE CaseCloses(f) /\ f = e
    <3>1. cases'[e].resolved
      BY <1>0, <2>3 DEF CaseCloses, CaseRecord
    <3> QED BY <3>1
  <2> QED BY <2>1, <2>2, <2>3
<1>5. CASE \E f \in EventIds : EscalateTier2(f)
  <2>1. PICK f \in EventIds : EscalateTier2(f)
    BY <1>5
  <2>2. cases' = [cases EXCEPT ![f].tier = 2] /\ tierAge' = [tierAge EXCEPT ![f] = 0] /\ cases[f].tier = 1
    BY <2>1 DEF EscalateTier2, OpenTier, TierTimedOut, InTier
  <2>3. CASE f # e
    BY <1>0, <2>2, <2>3
  <2>4. CASE f = e
    <3>1. cases'[e].tier = 2 /\ t = 1
      BY <1>0, <2>2, <2>4 DEF CaseRecord
    <3> QED BY <3>1
  <2> QED BY <2>3, <2>4
<1>6. CASE \E f \in EventIds : VoidAfterTier2Timeout(f)
  <2>1. PICK f \in EventIds : cases' = [cases EXCEPT ![f].resolved = TRUE] /\ tierAge' = [tierAge EXCEPT ![f] = 0]
    BY <1>6 DEF VoidAfterTier2Timeout
  <2>2. CASE f # e
    BY <1>0, <2>1, <2>2
  <2>3. CASE f = e
    <3>1. cases'[e].resolved
      BY <1>0, <2>1, <2>3 DEF CaseRecord
    <3> QED BY <3>1
  <2> QED BY <2>2, <2>3
<1>7. CASE Tick
  <2>1. tierAge'[e] = tierAge[e] \/ tierAge'[e] = tierAge[e] + 1
    BY <1>7 DEF Tick
  <2> QED BY <1>0, <2>1
<1> QED BY <1>1, <1>2, <1>3, <1>4, <1>5, <1>6, <1>7, LadderCases

(* What is in a tier stays in it: commitments, reveals and votes; and only  *)
(* commitments add to the first, only an opening starts to seed.            *)
LEMMA TierGrows ==
    ASSUME RegTypeOK, CaseTypeOK, [Next]_vars, NEW e \in EventIds, NEW t \in TierNums
    PROVE  LET old == tiers[e][t]  new == tiers'[e][t] IN
           /\ old.commitments \subseteq new.commitments
           /\ old.revealedSeed \subseteq new.revealedSeed
           /\ \A r \in Resolvers : old.votes[r] # "NotVoted" => new.votes[r] # "NotVoted"
           /\ new.commitments = old.commitments \/ Commits(e, t)
           /\ new.seeding => old.seeding \/ Opens(e, t)
<1> DEFINE old == tiers[e][t]
           new == tiers'[e][t]
<1>0. old \in TierRecord
  BY DEF CaseTypeOK
<1>1. CASE Opens(e, t)
  <2>1. new = OpenedTier(old, t)
    BY <1>1 DEF Opens
  <2>2. new.commitments = old.commitments /\ new.revealedSeed = old.revealedSeed /\ new.votes = old.votes
    <3> HIDE DEF old, new
    <3> QED BY <1>0, <2>1 DEF OpenedTier, TierRecord
  <2> QED BY <1>1, <2>2
<1>2. CASE Commits(e, t)
  <2>1. PICK r \in Resolvers : new = Committed(old, r)
    BY <1>2 DEF Commits
  <2>2. /\ new.votes = old.votes /\ new.seeding = old.seeding
        /\ new.commitments = old.commitments \cup {r} /\ new.revealedSeed = old.revealedSeed
    BY <1>0, <2>1, CommittedFields
  <2> QED BY <1>2, <2>2
<1>3. CASE Reveals(e, t)
  <2>1. PICK r \in Resolvers : new = Revealed(old, r)
    BY <1>3 DEF Reveals
  <2>2. /\ new.votes = old.votes /\ new.seeding = old.seeding
        /\ new.commitments = old.commitments /\ new.revealedSeed = old.revealedSeed \cup {r}
    BY <1>0, <2>1, RevealedFields
  <2> QED BY <2>2
<1>4. CASE Draws(e, t)
  <2>1. PICK c \in Drawable(Candidates(old), CommitteeSize[t]) : new = Drawn(old, c)
    BY <1>4 DEF Draws
  <2>2. c \in SUBSET Resolvers
    BY <1>0, <2>1, Drawables
  <2>3. /\ new.votes = old.votes /\ ~new.seeding
        /\ new.commitments = old.commitments /\ new.revealedSeed = old.revealedSeed
    BY <1>0, <2>1, <2>2, DrawnFields
  <2> QED BY <2>3
<1>5. CASE Votes(e, t)
  <2>1. PICK r \in Resolvers, b \in BOOLEAN : new = Voted(old, r, b)
    BY <1>5 DEF Votes
  <2>2. /\ new.votes = [old.votes EXCEPT ![r] = VoteFor(b)] /\ new.seeding = old.seeding
        /\ new.commitments = old.commitments /\ new.revealedSeed = old.revealedSeed
    <3> HIDE DEF old, new
    <3> QED BY <1>0, <2>1, VotedFields
  <2>3. old.votes \in [Resolvers -> {"NotVoted", "VotedTrue", "VotedFalse"}]
    <3> HIDE DEF old
    <3> QED BY <1>0 DEF TierRecord
  <2>4. VoteFor(b) # "NotVoted"
    BY DEF VoteFor
  <2>5. \A s \in Resolvers : old.votes[s] # "NotVoted" => new.votes[s] # "NotVoted"
    <3> HIDE DEF old, new
    <3> QED BY <2>2, <2>3, <2>4
  <2> QED BY <2>2, <2>5
<1>6. CASE new = old
  BY <1>6
<1> QED BY <1>1, <1>2, <1>3, <1>4, <1>5, <1>6, TierSteps

(* Commitments to the seed of a tier are no longer accepted.                *)
CommitClosed(e, t) ==
    \/ Passed(e, t)
    \/ /\ Live(e, t)
       /\ ~tiers[e][t].seeding \/ tierAge[e] >= SeedCommitWindow

(* Once they are closed, they stay closed, and none is added.               *)
LEMMA CommitsEnd ==
    ASSUME RegTypeOK, CaseTypeOK, CaseMatchesStatus, [Next]_vars, NEW e \in EventIds,
           NEW t \in TierNums, CommitClosed(e, t)
    PROVE  CommitClosed(e, t)' /\ tiers'[e][t].commitments = tiers[e][t].commitments
<1>0. /\ cases[e].tier \in {1, 2} /\ t \in {1, 2}
      /\ tierAge[e] \in Nat /\ SeedCommitWindow \in Nat
  <2>1. cases[e] \in CaseRecord /\ tierAge[e] \in 0..MaxTierAge
    BY DEF CaseTypeOK
  <2>2. cases[e].tier \in TierNums
    BY <2>1, CaseTypes
  <2> QED BY <2>1, <2>2, DisputeAssumption DEF TierNums
<1>1. Reached(e, t)
  BY <1>0 DEF CommitClosed, Passed, Reached, Live
<1>2. ~Opens(e, t)
  BY <1>0, <1>1 DEF Opens, Reached, Live
<1>3. ~Commits(e, t)
  BY <1>0 DEF CommitClosed, Commits, Live, Passed, InTier
<1>4. /\ tiers'[e][t].commitments = tiers[e][t].commitments
      /\ tiers'[e][t].seeding => tiers[e][t].seeding
  BY <1>2, <1>3, TierGrows
<1>5. CommitClosed(e, t)'
  <2>1. CASE Passed(e, t)
    BY <2>1, TiersPass DEF CommitClosed
  <2>2. CASE ~Passed(e, t)
    <3>1. Live(e, t) /\ (~tiers[e][t].seeding \/ tierAge[e] >= SeedCommitWindow)
      BY <2>2 DEF CommitClosed
    <3>2. Reached(e, t)'
      BY <1>1, TiersPass
    <3>3. CASE cases'[e].resolved \/ cases'[e].tier # t
      BY <3>2, <3>3 DEF CommitClosed, Passed, InTier
    <3>4. CASE ~cases'[e].resolved /\ cases'[e].tier = t
      <4>1. \/ tierAge'[e] >= tierAge[e] /\ tierAge'[e] \in Nat
            \/ ~tiers'[e][t].seeding
        BY <3>1, <3>4, SeedingAge DEF Live
      <4>2. Live(e, t)'
        BY <3>2, <3>4 DEF Live, Reached
      <4>3. ~tiers'[e][t].seeding \/ tierAge'[e] >= SeedCommitWindow
        BY <1>0, <1>4, <3>1, <4>1
      <4> QED BY <4>2, <4>3 DEF CommitClosed
    <3> QED BY <3>3, <3>4
  <2> QED BY <2>1, <2>2
<1> QED BY <1>4, <1>5

-----------------------------------------------------------------------------
RevealEnded(e, t) == \/ Node \in tiers[e][t].revealedSeed
                     \/ Node \notin tiers[e][t].commitments /\ CommitClosed(e, t)
VoteEnded(e, t)   == tiers[e][t].votes[Node] # "NotVoted" \/ Passed(e, t)

(* What is over for the node in a tier stays so.                            *)
LEMMA TierFactsStay ==
    ASSUME RegTypeOK, CaseTypeOK, CaseMatchesStatus, [Next]_vars, NEW e \in EventIds, NEW t \in TierNums
    PROVE  /\ Node \in tiers[e][t].commitments => Node \in tiers'[e][t].commitments
           /\ RevealEnded(e, t) => RevealEnded(e, t)'
           /\ VoteEnded(e, t) => VoteEnded(e, t)'
<1>1. /\ tiers[e][t].commitments \subseteq tiers'[e][t].commitments
      /\ tiers[e][t].revealedSeed \subseteq tiers'[e][t].revealedSeed
      /\ \A r \in Resolvers : tiers[e][t].votes[r] # "NotVoted" => tiers'[e][t].votes[r] # "NotVoted"
  BY TierGrows
<1>2. CommitClosed(e, t) =>
         CommitClosed(e, t)' /\ tiers'[e][t].commitments = tiers[e][t].commitments
  BY CommitsEnd
<1>3. Passed(e, t) => Passed(e, t)'
  BY TiersPass
<1> QED BY <1>1, <1>2, <1>3, NodeAssumption DEF RevealEnded, VoteEnded

(* What the node learns of a call that was mined, or is moot.               *)
Told(c) ==
    /\ c.fn = "submitObservation" => DoneWith(c.event)
    /\ c.fn = "commitSeed" => Node \in tiers[c.event][c.tier].commitments
    /\ c.fn = "revealSeed" => RevealEnded(c.event, c.tier)
    /\ c.fn = "submitTierVote" => VoteEnded(c.event, c.tier)

(* A call that is mined makes so what the node learns of it.                *)
LEMMA MinedTells ==
    ASSUME RegTypeOK, CaseTypeOK, NEW c, CallOK(c), Mined(c)
    PROVE  Told(c)'
<1> DEFINE e == c.event
           t == c.tier
<1>0. e \in EventIds /\ Node \in Resolvers
  BY NodeAssumption DEF CallOK
<1>1. ASSUME c.fn = "submitObservation" PROVE DoneWith(c.event)'
  <2>1. SubmitObservation(e, Node, c.payload) /\ c.payload \in Payloads
    BY <1>1 DEF Mined, CallOK
  <2>2. status'[e] # "None"
    BY <1>0, <2>1 DEF SubmitObservation, RegTypeOK
  <2>3. HasSubmitted(e, Node)'
    <3>1. observation'[e][Node] = c.payload
      BY <1>0, <2>1 DEF SubmitObservation, RegTypeOK
    <3> QED BY <2>1, <3>1, PayloadFacts DEF HasSubmitted
  <2> QED BY <2>2, <2>3 DEF DoneWith
<1>2. ASSUME c.fn = "commitSeed" PROVE Node \in tiers'[e][t].commitments
  <2>1. CommitSeed(e, Node) /\ cases[e].tier = t /\ t \in TierNums
    BY <1>2 DEF Mined, CallOK
  <2>2. tiers[e][t] \in TierRecord /\ tiers'[e][t] = Committed(tiers[e][t], Node)
    BY <1>0, <2>1 DEF CommitSeed, CaseTypeOK
  <2> QED BY <1>0, <2>2, CommittedFields
<1>3. ASSUME c.fn = "revealSeed" PROVE Node \in tiers'[e][t].revealedSeed
  <2>1. RevealSeed(e, Node) /\ cases[e].tier = t /\ t \in TierNums
    BY <1>3 DEF Mined, CallOK
  <2>2. tiers[e][t] \in TierRecord /\ tiers'[e][t] = Revealed(tiers[e][t], Node)
    BY <1>0, <2>1 DEF RevealSeed, CaseTypeOK
  <2> QED BY <1>0, <2>2, RevealedFields
<1>4. ASSUME c.fn = "submitTierVote" PROVE tiers'[e][t].votes[Node] # "NotVoted"
  <2> DEFINE old == tiers[e][t]
             b == c.payload.outcome
  <2>1. SubmitTierVote(e, t, Node, b) /\ t \in TierNums /\ b \in BOOLEAN
    BY <1>4 DEF Mined, CallOK
  <2>2. old \in TierRecord /\ tiers'[e][t] = Voted(old, Node, b)
    BY <1>0, <2>1 DEF SubmitTierVote, CaseTypeOK
  <2>3. old.votes \in [Resolvers -> {"NotVoted", "VotedTrue", "VotedFalse"}]
    <3> HIDE DEF old
    <3> QED BY <2>2 DEF TierRecord
  <2>4. Voted(old, Node, b).votes = [old.votes EXCEPT ![Node] = VoteFor(b)]
    <3> HIDE DEF old, b
    <3> QED BY <1>0, <2>1, <2>2, VotedFields
  <2>5. VoteFor(b) # "NotVoted"
    BY DEF VoteFor
  <2> QED BY <1>0, <2>2, <2>3, <2>4, <2>5
<1> QED BY <1>1, <1>2, <1>3, <1>4 DEF Told, RevealEnded, VoteEnded

(* A call refused as moot finds it so already.                              *)
LEMMA MootTells ==
    ASSUME NEW c, CallOK(c), JobOK(c), Moot(c)
    PROVE  Told(c)
<1> DEFINE e == c.event
           t == c.tier
<1>1. ASSUME c.fn = "submitObservation" PROVE DoneWith(e)
  BY <1>1 DEF Moot, JobOK, DoneWith, NothingToObserve
<1>2. ASSUME c.fn = "commitSeed" PROVE Node \in tiers[e][t].commitments
  BY <1>2 DEF Moot
<1>3. ASSUME c.fn = "revealSeed" PROVE RevealEnded(e, t)
  BY <1>3 DEF Moot, RevealOpen, Seeding, RevealEnded, CommitClosed, Live
<1>4. ASSUME c.fn = "submitTierVote" PROVE VoteEnded(e, t)
  BY <1>4 DEF Moot, VoteEnded, JobOK, Passed
<1> QED BY <1>1, <1>2, <1>3, <1>4 DEF Told

-----------------------------------------------------------------------------
(* What the node learns has the type of its memory.                         *)
LEMMA LearnedTypes ==
    ASSUME NEW c, CallOK(c), mem \in Memory
    PROVE  Learned(c) \in Memory
<1>1. c.event \in EventIds
  BY DEF CallOK
<1>2. CASE c.fn = "submitObservation"
  BY <1>1, <1>2 DEF Learned, Memory
<1>3. CASE c.fn \in {"commitSeed", "revealSeed", "submitTierVote"}
  <2>1. <<c.event, c.tier>> \in EventIds \X TierNums
    BY <1>1, <1>3 DEF CallOK
  <2> QED BY <1>3, <2>1 DEF Learned, Memory
<1>4. CASE c.fn \notin {"submitObservation", "commitSeed", "revealSeed", "submitTierVote"}
  BY <1>4 DEF Learned
<1> QED BY <1>2, <1>3, <1>4

(* The chain, the memory and the calls on their way keep their types.       *)
LEMMA NodeTypesKept ==
    ASSUME NodeTyped, [NodeNext]_allVars
    PROVE  NodeTyped'
<1> USE DEF NodeTyped
<1>1. [Next]_vars
  BY NodeTakesSteps
<1>2. RegTypeOK' /\ CaseTypeOK'
  BY <1>1, LadderStep, RegTypesKept, CaseTypesKept
<1>3. Fresh \in Memory
  BY DEF Fresh, Memory
<1>4. job # NoJob => Learned(job) \in Memory
  BY LearnedTypes
<1>5. \A c \in Signed : CallOK(c)
  BY DEF Signed, NoJob
<1>6. CASE \E p \in Positions : Visit(p) /\ UNCHANGED late /\ job = NoJob
  <2>1. PICK p \in Positions : Visit(p)
    BY <1>6
  <2>2. PICK e \in EventIds :
           \/ mem' = [mem EXCEPT !.done = @ \cup {e}] /\ job' = job
           \/ mem' = [mem EXCEPT !.terminal = @ \cup {e}] /\ job' = job
           \/ mem' = mem /\ CallOK(job')
    BY <2>1, VisitIs
  <2>3. mem' \in Memory
    BY <2>2 DEF Memory
  <2>4. job' = NoJob \/ CallOK(job')
    BY <1>6, <2>2
  <2> QED BY <1>2, <1>6, <2>3, <2>4 DEF CallOK
<1>7. mem' \in Memory /\ (job' = NoJob \/ job' = job) /\ late' \subseteq late \cup Signed
      => NodeTyped'
  BY <1>2, <1>5 DEF CallOK
<1> QED BY <1>3, <1>4, <1>6, <1>7, NodeSteps

(* The memory is true, of the tiers too that the node waits on.             *)
NodeInv == /\ \A e \in mem.done : DoneWith(e)
           /\ \A e \in mem.terminal : status[e] \in Terminal
           /\ \A e \in EventIds, t \in TierNums :
                 /\ <<e, t>> \in mem.committed => Node \in tiers[e][t].commitments
                 /\ <<e, t>> \in mem.revealed => RevealEnded(e, t)
                 /\ <<e, t>> \in mem.voted => VoteEnded(e, t)
           /\ job # NoJob => JobOK(job)

(* A step of the daemon keeps it true: what is learned is so after the step,*)
(* what was so stays so, and a call waited for still has its event.         *)
LEMMA NodeInvKept ==
    ASSUME NodeTyped, CaseMatchesStatus, NodeInv, [NodeNext]_allVars
    PROVE  NodeInv'
<1> USE DEF NodeTyped
<1>0. [Next]_vars
  BY NodeTakesSteps
<1>1. \A e \in EventIds : /\ DoneWith(e) => DoneWith(e)'
                          /\ status[e] # "None" => status'[e] # "None"
                          /\ status[e] \in Terminal => status'[e] \in Terminal
  BY <1>0, DoneStays
<1>2. \A e \in EventIds, t \in TierNums :
         /\ Node \in tiers[e][t].commitments => Node \in tiers'[e][t].commitments
         /\ RevealEnded(e, t) => RevealEnded(e, t)'
         /\ VoteEnded(e, t) => VoteEnded(e, t)'
         /\ Reached(e, t) => Reached(e, t)'
  BY <1>0, TierFactsStay, TiersPass
<1>3. /\ mem.done \subseteq EventIds /\ mem.terminal \subseteq EventIds
      /\ mem \in Memory
  BY DEF Memory
<1> DEFINE
     MemTrue == /\ \A e \in mem'.done : DoneWith(e)'
                /\ \A e \in mem'.terminal : status'[e] \in Terminal
                /\ \A e \in EventIds, t \in TierNums :
                      /\ <<e, t>> \in mem'.committed => Node \in tiers'[e][t].commitments
                      /\ <<e, t>> \in mem'.revealed => RevealEnded(e, t)'
                      /\ <<e, t>> \in mem'.voted => VoteEnded(e, t)'
     JobTrue == job' # NoJob => JobOK(job)'
(* Before the step, and after it of the memory before it.                   *)
<1>4. /\ \A e \in mem.done : DoneWith(e)'
      /\ \A e \in mem.terminal : status'[e] \in Terminal
      /\ \A e \in EventIds, t \in TierNums :
            /\ <<e, t>> \in mem.committed => Node \in tiers'[e][t].commitments
            /\ <<e, t>> \in mem.revealed => RevealEnded(e, t)'
            /\ <<e, t>> \in mem.voted => VoteEnded(e, t)'
  BY <1>1, <1>2, <1>3 DEF NodeInv
<1>5. ASSUME mem' = mem PROVE MemTrue
  BY <1>4, <1>5
<1>6. ASSUME mem' = Fresh PROVE MemTrue
  BY <1>6 DEF Fresh
<1>7. ASSUME job # NoJob, Mined(job) \/ (UNCHANGED vars /\ Moot(job)), mem' = Learned(job) PROVE MemTrue
  <2>1. PICK c : c = job
    OBVIOUS
  <2>2. CallOK(c) /\ JobOK(c)
    BY <1>7, <2>1 DEF NodeInv
  <2>3. Mined(c) \/ (UNCHANGED vars /\ Moot(c))
    BY <1>7, <2>1
  <2>4. /\ c.fn = "submitObservation" => DoneWith(c.event)'
        /\ c.fn = "commitSeed" => Node \in tiers'[c.event][c.tier].commitments
        /\ c.fn = "revealSeed" => RevealEnded(c.event, c.tier)'
        /\ c.fn = "submitTierVote" => VoteEnded(c.event, c.tier)'
    <3>1. CASE Mined(c)
      BY <2>2, <3>1, MinedTells DEF Told
    <3>2. CASE UNCHANGED vars /\ Moot(c)
      <4>1. Told(c)
        BY <2>2, <3>2, MootTells
      <4> QED BY <1>1, <1>2, <2>2, <3>2, <4>1 DEF Told, CallOK
    <3> QED BY <2>3, <3>1, <3>2
  <2>5. mem' = Learned(c)
    BY <1>7, <2>1
  <2>6. CASE c.fn = "submitObservation"
    <3>1. mem' = [mem EXCEPT !.done = @ \cup {c.event}]
      BY <2>5, <2>6 DEF Learned
    <3>2. /\ mem'.done = mem.done \cup {c.event} /\ mem'.terminal = mem.terminal
          /\ mem'.committed = mem.committed /\ mem'.revealed = mem.revealed /\ mem'.voted = mem.voted
      BY <1>3, <3>1 DEF Memory
    <3> QED BY <1>4, <2>4, <2>6, <3>2
  <2>7. CASE c.fn = "commitSeed"
    <3>1. mem' = [mem EXCEPT !.committed = @ \cup {<<c.event, c.tier>>}]
      BY <2>5, <2>7 DEF Learned
    <3>2. /\ mem'.done = mem.done /\ mem'.terminal = mem.terminal
          /\ mem'.committed = mem.committed \cup {<<c.event, c.tier>>}
          /\ mem'.revealed = mem.revealed /\ mem'.voted = mem.voted
      BY <1>3, <3>1 DEF Memory
    <3> QED BY <1>4, <2>4, <2>7, <3>2
  <2>8. CASE c.fn = "revealSeed"
    <3>1. mem' = [mem EXCEPT !.revealed = @ \cup {<<c.event, c.tier>>}]
      BY <2>5, <2>8 DEF Learned
    <3>2. /\ mem'.done = mem.done /\ mem'.terminal = mem.terminal
          /\ mem'.revealed = mem.revealed \cup {<<c.event, c.tier>>}
          /\ mem'.committed = mem.committed /\ mem'.voted = mem.voted
      BY <1>3, <3>1 DEF Memory
    <3> QED BY <1>4, <2>4, <2>8, <3>2
  <2>9. CASE c.fn = "submitTierVote"
    <3>1. mem' = [mem EXCEPT !.voted = @ \cup {<<c.event, c.tier>>}]
      BY <2>5, <2>9 DEF Learned
    <3>2. /\ mem'.done = mem.done /\ mem'.terminal = mem.terminal
          /\ mem'.voted = mem.voted \cup {<<c.event, c.tier>>}
          /\ mem'.committed = mem.committed /\ mem'.revealed = mem.revealed
      BY <1>3, <3>1 DEF Memory
    <3> QED BY <1>4, <2>4, <2>9, <3>2
  <2>10. CASE c.fn \notin {"submitObservation", "commitSeed", "revealSeed", "submitTierVote"}
    BY <1>5, <2>5, <2>10 DEF Learned
  <2> QED BY <2>6, <2>7, <2>8, <2>9, <2>10
<1>8. ASSUME job' = job PROVE JobTrue
  <2> SUFFICES ASSUME job # NoJob PROVE JobOK(job)'
    BY <1>8
  <2>1. PICK c : c = job
    OBVIOUS
  <2>2. CallOK(c) /\ JobOK(c)
    BY <2>1 DEF NodeInv
  <2>3. /\ c.fn = "submitObservation" => status'[c.event] # "None"
        /\ c.fn \in {"commitSeed", "revealSeed", "submitTierVote"} => Reached(c.event, c.tier)'
    BY <1>1, <1>2, <2>2 DEF CallOK, JobOK
  <2>4. job' = c
    BY <1>8, <2>1
  <2> QED BY <2>3, <2>4 DEF JobOK, Reached
<1>9. ASSUME NEW p \in Positions, Visit(p), UNCHANGED vars, job = NoJob PROVE MemTrue /\ JobTrue
  <2>1. PICK e \in EventIds :
           \/ /\ status[e] # "None" /\ NothingToObserve(e)
              /\ mem' = [mem EXCEPT !.done = @ \cup {e}] /\ job' = job
           \/ /\ status[e] \in Terminal
              /\ mem' = [mem EXCEPT !.terminal = @ \cup {e}] /\ job' = job
           \/ mem' = mem /\ CallOK(job') /\ (CaseMatchesStatus => JobOK(job'))
    BY <1>9, VisitIs
  <2>2. CASE /\ status[e] # "None" /\ NothingToObserve(e)
             /\ mem' = [mem EXCEPT !.done = @ \cup {e}] /\ job' = job
    <3>1. DoneWith(e)'
      BY <1>1, <2>2 DEF DoneWith
    <3>2. /\ mem'.done = mem.done \cup {e} /\ mem'.terminal = mem.terminal
          /\ mem'.committed = mem.committed /\ mem'.revealed = mem.revealed /\ mem'.voted = mem.voted
      BY <1>3, <2>2 DEF Memory
    <3>3. MemTrue
      BY <1>4, <3>1, <3>2
    <3> QED BY <1>9, <2>2, <3>3
  <2>3. CASE /\ status[e] \in Terminal
             /\ mem' = [mem EXCEPT !.terminal = @ \cup {e}] /\ job' = job
    <3>1. status'[e] \in Terminal
      BY <1>1, <2>3
    <3>2. /\ mem'.done = mem.done /\ mem'.terminal = mem.terminal \cup {e}
          /\ mem'.committed = mem.committed /\ mem'.revealed = mem.revealed /\ mem'.voted = mem.voted
      BY <1>3, <2>3 DEF Memory
    <3>3. MemTrue
      BY <1>4, <3>1, <3>2
    <3> QED BY <1>9, <2>3, <3>3
  <2>4. CASE mem' = mem /\ CallOK(job') /\ (CaseMatchesStatus => JobOK(job'))
    <3>1. JobOK(job)'
      <4>1. status' = status /\ cases' = cases
        BY <1>9 DEF vars, regVars, eventVars, dmVars, caseVars
      <4> QED BY <2>4, <4>1 DEF JobOK, Reached
    <3> QED BY <1>5, <2>4, <3>1
  <2> QED BY <2>1, <2>2, <2>3, <2>4
<1>10. MemTrue /\ JobTrue
  <2> HIDE DEF MemTrue, JobTrue
  <2>1. job' = NoJob => JobTrue
    BY DEF JobTrue
  <2> QED BY <1>5, <1>6, <1>7, <1>8, <1>9, <2>1, NodeSteps
<1> QED BY <1>10 DEF NodeInv

-----------------------------------------------------------------------------
(* The chain, the memory of the node and the calls on their way keep their  *)
(* types.                                                                   *)
THEOREM NodeTypeCorrect == NodeSpec => []NodeTyped
<1>1. NodeInit => NodeTyped
  <2>1. Init => RegTypeOK /\ CaseTypeOK
    BY RegTypesInitially, CaseTypesInitially DEF Init
  <2> QED BY <2>1 DEF NodeInit, NodeTyped, Fresh, Memory
<1>2. NodeTyped /\ [NodeNext]_allVars => NodeTyped'
  BY NodeTypesKept
<1> QED BY <1>1, <1>2, PTL DEF NodeSpec

(* A daemon, whatever it does or loses, drives the dispute ladder only by   *)
(* the ladder's own steps: with it, too, all that is proved of the ladder   *)
(* holds.                                                                   *)
THEOREM NodeImplementsLadder == NodeSpec => Spec
<1>1. NodeInit => Init
  BY DEF NodeInit
<1>2. NodeTyped /\ [NodeNext]_allVars => [Next]_vars
  BY NodeTakesSteps
<1> QED BY <1>1, <1>2, NodeTypeCorrect, PTL DEF NodeSpec, Spec

(* MemoryIsTrue: what the node remembers as finished is finished on chain.  *)
THEOREM MemoryIsRight == NodeSpec => []MemoryIsTrue
<1>1. NodeInit => NodeInv
  BY DEF NodeInit, NodeInv, Fresh
<1>2. NodeTyped /\ CaseMatchesStatus /\ NodeInv /\ [NodeNext]_allVars => NodeInv'
  BY NodeInvKept
<1>3. NodeTyped /\ NodeInv => MemoryIsTrue
  <2> SUFFICES ASSUME NodeTyped, NodeInv PROVE MemoryIsTrue
    OBVIOUS
  <2>1. \A e \in mem.done : HasSubmitted(e, Node) \/ NothingToObserve(e)
    BY DEF NodeInv, DoneWith
  <2>2. \A e \in EventIds, t \in TierNums :
           /\ <<e, t>> \in mem.revealed =>
                 Node \in tiers[e][t].revealedSeed \/ Node \notin tiers[e][t].commitments
           /\ <<e, t>> \in mem.voted => tiers[e][t].votes[Node] # "NotVoted" \/ ~InTier(e, t)
    BY DEF NodeInv, RevealEnded, VoteEnded, Passed
  <2> QED BY <2>1, <2>2 DEF NodeInv, MemoryIsTrue
<1> QED BY <1>1, <1>2, <1>3, NodeTypeCorrect, NodeImplementsLadder, CasesMatch, PTL DEF NodeSpec
=============================================================================
