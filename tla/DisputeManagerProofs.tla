----------------------- MODULE DisputeManagerProofs -----------------------
(***************************************************************************)
(* What holds of the dispute ladder for every pool of resolvers, committee *)
(* size, window and bond unit.  The registry's part comes from             *)
(* EventRegistryProofs, because the composition implements the registry.   *)
(***************************************************************************)
EXTENDS DisputeManager, EventRegistryProofs, SumTheorems

(* The steps of the composition one by one.                                 *)
LEMMA LadderCases ==
    ASSUME [Next]_vars
    PROVE  \/ RegistryOnly
           \/ \E e \in EventIds, a \in Disputers : Dispute(e, a)
           \/ \E e \in EventIds : EscalateNonConvergence(e)
           \/ \E e \in EventIds, r \in Resolvers : CommitSeed(e, r)
           \/ \E e \in EventIds, r \in Resolvers : RevealSeed(e, r)
           \/ \E e \in EventIds : DrawCommittee(e)
           \/ \E e \in EventIds, t \in TierNums, r \in Resolvers, b \in BOOLEAN :
                 SubmitTierVote(e, t, r, b)
           \/ \E e \in EventIds : EscalateTier2(e)
           \/ \E e \in EventIds : VoidAfterTier2Timeout(e)
           \/ \E a \in Accounts : Withdraw(a)
           \/ Tick
           \/ UNCHANGED vars
  BY Zenon DEF Next, DisputeStep

LEMMA RulingsArePayloads == \A b \in BOOLEAN : ShortPayload(b) \in Payloads
  BY DEF Payloads

(* What closing a case does to the manager's own record of it.              *)
CaseCloses(e) == /\ cases' = [cases EXCEPT ![e].resolved = TRUE]
                 /\ tierAge' = [tierAge EXCEPT ![e] = 0]

CaseStays == cases' = cases /\ tierAge' = tierAge

(* What a vote does to the case and to the registry.                        *)
LEMMA VoteEffects ==
    ASSUME NEW e \in EventIds, NEW t \in TierNums, NEW r \in Resolvers, NEW b \in BOOLEAN,
           SubmitTierVote(e, t, r, b)
    PROVE  \/ \E d \in BOOLEAN :
                 /\ Agrees(Voted(tiers[e][t], r, b), d)
                 /\ d = FALSE => ~Agrees(Voted(tiers[e][t], r, b), TRUE)
                 /\ FinalizeFromDispute(e, ShortPayload(d))
                 /\ CaseCloses(e)
           \/ /\ ~HasConverged(Voted(tiers[e][t], r, b))
              /\ UNCHANGED regVars /\ CaseStays
<1> DEFINE tier == Voted(tiers[e][t], r, b)
           Closed(d) == /\ FinalizeFromDispute(e, ShortPayload(d))
                        /\ CaseCloses(e)
<1>1. \A d \in BOOLEAN : ResolveTier(e, t, tier, d) => Closed(d)
  BY Zenon DEF ResolveTier, CaseCloses
<1>2. \/ Agrees(tier, TRUE) /\ ResolveTier(e, t, tier, TRUE)
      \/ ~Agrees(tier, TRUE) /\ Agrees(tier, FALSE) /\ ResolveTier(e, t, tier, FALSE)
      \/ /\ ~HasConverged(tier)
         /\ UNCHANGED regVars /\ CaseStays
  BY Zenon DEF SubmitTierVote, CaseStays
<1>3. CASE Agrees(tier, TRUE) /\ ResolveTier(e, t, tier, TRUE)
  <2>1. Agrees(tier, TRUE) /\ Closed(TRUE)
    BY <1>1, <1>3, Zenon
  <2> QED BY <2>1, Zenon
<1>4. CASE ~Agrees(tier, TRUE) /\ Agrees(tier, FALSE) /\ ResolveTier(e, t, tier, FALSE)
  <2>1. ~Agrees(tier, TRUE) /\ Agrees(tier, FALSE) /\ Closed(FALSE)
    BY <1>1, <1>4, Zenon
  <2> QED BY <2>1, Zenon
<1> QED BY <1>2, <1>3, <1>4, Zenon

-----------------------------------------------------------------------------
(* Every step of the composition is a step the registry accepts from any    *)
(* dispute manager, so whatever is proved of the registry holds here.       *)
LEMMA LadderStep ==
    ASSUME [Next]_vars
    PROVE  [RegNext]_regVars
<1> USE DEF RegNext, ManagerStep
<1>1. CASE RegistryOnly
  BY <1>1 DEF RegistryOnly
<1>2. CASE \E e \in EventIds, a \in Disputers : Dispute(e, a)
  BY <1>2 DEF Dispute
<1>3. CASE \E e \in EventIds : EscalateNonConvergence(e)
  BY <1>3 DEF EscalateNonConvergence
<1>4. CASE \E e \in EventIds, r \in Resolvers : CommitSeed(e, r)
  BY <1>4 DEF CommitSeed
<1>5. CASE \E e \in EventIds, r \in Resolvers : RevealSeed(e, r)
  BY <1>5 DEF RevealSeed
<1>6. CASE \E e \in EventIds : DrawCommittee(e)
  BY <1>6 DEF DrawCommittee
<1>7. CASE \E e \in EventIds, t \in TierNums, r \in Resolvers, b \in BOOLEAN :
              SubmitTierVote(e, t, r, b)
  <2>1. PICK e \in EventIds, t \in TierNums, r \in Resolvers, b \in BOOLEAN :
              SubmitTierVote(e, t, r, b)
    BY <1>7
  <2>2. \/ \E d \in BOOLEAN : FinalizeFromDispute(e, ShortPayload(d))
        \/ UNCHANGED regVars
    BY <2>1, VoteEffects, Zenon
  <2>3. (\E p \in Payloads : FinalizeFromDispute(e, p)) \/ UNCHANGED regVars
    BY <2>2, RulingsArePayloads
  <2> QED BY <2>3
<1>8. CASE \E e \in EventIds : EscalateTier2(e)
  BY <1>8 DEF EscalateTier2
<1>9. CASE \E e \in EventIds : VoidAfterTier2Timeout(e)
  BY <1>9 DEF VoidAfterTier2Timeout
<1>10. CASE \E a \in Accounts : Withdraw(a)
  BY <1>10 DEF Withdraw
<1>11. CASE Tick
  BY <1>11 DEF Tick
<1>12. CASE UNCHANGED vars
  BY <1>12 DEF vars
<1> QED BY <1>1, <1>2, <1>3, <1>4, <1>5, <1>6, <1>7, <1>8, <1>9, <1>10, <1>11, <1>12,
           LadderCases

(* Whatever the manager does to an event, the registry alone allows.        *)
THEOREM LadderImplementsRegistry == Spec => RegSpec
<1>1. Init => RegInit
  BY DEF Init
<1>2. [Next]_vars => [RegNext]_regVars
  BY LadderStep
<1> QED BY <1>1, <1>2, PTL DEF Spec, RegSpec

(* Consumers of the registry get the abstract life of an event also when    *)
(* the dispute manager drives it.                                           *)
THEOREM LadderImplementsLifecycle == Spec => ImplementsLifecycle
  BY LadderImplementsRegistry, RegistryImplementsLifecycle, PTL

(* The registry keeps its types also when the dispute manager drives it.    *)
THEOREM LadderRegTypes == Spec => []RegTypeOK
  BY LadderImplementsRegistry, RegTypeCorrect, PTL

-----------------------------------------------------------------------------
(* The records of cases and tiers keep their types.                         *)
LEMMA RecordTypes ==
    /\ NoCase \in CaseRecord
    /\ NewTier \in TierRecord
  BY DisputeAssumption, FS_EmptySet DEF NoCase, CaseRecord, NewTier, TierRecord, TierNums

(* A tier record is the record of its fields.                               *)
LEMMA TierFields ==
    ASSUME NEW tier \in TierRecord
    PROVE  /\ tier.committee \in SUBSET Resolvers /\ tier.drawn \in BOOLEAN
           /\ tier.trueVotes \in Nat /\ tier.falseVotes \in Nat
           /\ tier.votes \in [Resolvers -> {"NotVoted", "VotedTrue", "VotedFalse"}]
           /\ tier.seeding \in BOOLEAN /\ tier.commits \in Nat /\ tier.reveals \in Nat
           /\ tier.commitments \in SUBSET Resolvers
           /\ tier.revealedSeed \in SUBSET Resolvers
  BY DEF TierRecord

LEMMA OpenedTierType ==
    ASSUME RegTypeOK, NEW tier \in TierRecord, NEW t \in TierNums
    PROVE  OpenedTier(tier, t) \in TierRecord
  BY DEF OpenedTier, TierRecord, RegTypeOK

LEMMA VotedType ==
    ASSUME NEW tier \in TierRecord, NEW r \in Resolvers, NEW b \in BOOLEAN
    PROVE  Voted(tier, r, b) \in TierRecord
<1> DEFINE votes == [tier.votes EXCEPT ![r] = VoteFor(b)]
           yes   == IF b THEN tier.trueVotes + 1 ELSE tier.trueVotes
           no    == IF b THEN tier.falseVotes ELSE tier.falseVotes + 1
<1>1. votes \in [Resolvers -> {"NotVoted", "VotedTrue", "VotedFalse"}]
  BY TierFields DEF VoteFor
<1>2. yes \in Nat /\ no \in Nat
  BY TierFields
<1>3. Voted(tier, r, b) =
        [tier EXCEPT !.votes = votes, !.trueVotes = yes, !.falseVotes = no]
  BY DEF Voted, TierRecord
<1> HIDE DEF votes, yes, no
<1> QED BY <1>1, <1>2, <1>3 DEF TierRecord

LEMMA SeedingTypes ==
    ASSUME NEW tier \in TierRecord
    PROVE  /\ \A r \in Resolvers : /\ Committed(tier, r) \in TierRecord
                                   /\ Revealed(tier, r) \in TierRecord
           /\ \A c \in SUBSET Resolvers : Drawn(tier, c) \in TierRecord
<1>1. ASSUME NEW r \in Resolvers PROVE Committed(tier, r) \in TierRecord
  <2> DEFINE s == tier.commitments \cup {r}
             n == tier.commits + 1
  <2>1. s \in SUBSET Resolvers /\ n \in Nat
    BY TierFields
  <2>2. Committed(tier, r) = [tier EXCEPT !.commitments = s, !.commits = n]
    BY DEF Committed
  <2> HIDE DEF s, n
  <2> QED BY <2>1, <2>2 DEF TierRecord
<1>2. ASSUME NEW r \in Resolvers PROVE Revealed(tier, r) \in TierRecord
  <2> DEFINE s == tier.revealedSeed \cup {r}
             n == tier.reveals + 1
  <2>1. s \in SUBSET Resolvers /\ n \in Nat
    BY TierFields
  <2>2. Revealed(tier, r) = [tier EXCEPT !.revealedSeed = s, !.reveals = n]
    BY DEF Revealed
  <2> HIDE DEF s, n
  <2> QED BY <2>1, <2>2 DEF TierRecord
<1>3. ASSUME NEW c \in SUBSET Resolvers PROVE Drawn(tier, c) \in TierRecord
  BY DEF Drawn, TierRecord
<1> QED BY <1>1, <1>2, <1>3

LEMMA CaseTypes ==
    ASSUME NEW c \in CaseRecord
    PROVE  /\ c.tier \in TierNums /\ c.disputer \in Accounts
           /\ [c EXCEPT !.resolved = TRUE] \in CaseRecord
           /\ [c EXCEPT !.tier = 2] \in CaseRecord
  BY DEF CaseRecord, TierNums

LEMMA TierUpdateType ==
    ASSUME tiers \in [EventIds -> [TierNums -> TierRecord]],
           NEW e \in EventIds, NEW t \in TierNums, NEW tier \in TierRecord
    PROVE  [tiers EXCEPT ![e][t] = tier] \in [EventIds -> [TierNums -> TierRecord]]
  OBVIOUS

LEMMA CaseUpdateTypes ==
    ASSUME cases \in [EventIds -> CaseRecord], NEW e \in EventIds
    PROVE  /\ [cases EXCEPT ![e].resolved = TRUE] \in [EventIds -> CaseRecord]
           /\ [cases EXCEPT ![e].tier = 2] \in [EventIds -> CaseRecord]
  BY DEF CaseRecord, TierNums

(* Every step keeps the types of the manager's records.                     *)
LEMMA CaseTypesKept ==
    ASSUME RegTypeOK, CaseTypeOK, [Next]_vars
    PROVE  CaseTypeOK'
<1>0. 0 \in 0..MaxTierAge /\ 1 \in TierNums /\ 2 \in TierNums
  BY DisputeAssumption DEF TierNums
<1>1. CASE RegistryOnly \/ (\E a \in Accounts : Withdraw(a)) \/ UNCHANGED vars
  BY <1>1 DEF RegistryOnly, Withdraw, vars, dmVars, caseVars, CaseTypeOK
<1>2. CASE \E e \in EventIds, a \in Disputers : Dispute(e, a)
  <2>1. PICK e \in EventIds, a \in Disputers : Dispute(e, a)
    BY <1>2
  <2>2. FiledCase(e, a) \in CaseRecord
    <3>1. proposal[e].outcome \in BOOLEAN
      BY PayloadFacts DEF RegTypeOK
    <3> QED BY <1>0, <3>1, DisputeAssumption DEF FiledCase, CaseRecord
  <2>3. OpenedTier(tiers[e][1], 1) \in TierRecord
    BY <1>0, OpenedTierType DEF CaseTypeOK
  <2> QED BY <1>0, <2>1, <2>2, <2>3 DEF Dispute, OpenTier, CaseTypeOK
<1>3. CASE \E e \in EventIds : EscalateNonConvergence(e)
  <2>1. PICK e \in EventIds : EscalateNonConvergence(e)
    BY <1>3
  <2>2. [NoCase EXCEPT !.exists = TRUE] \in CaseRecord
    BY RecordTypes DEF CaseRecord
  <2>3. OpenedTier(tiers[e][1], 1) \in TierRecord
    BY <1>0, OpenedTierType DEF CaseTypeOK
  <2> QED BY <1>0, <2>1, <2>2, <2>3 DEF EscalateNonConvergence, OpenTier, CaseTypeOK
<1>4. CASE \E e \in EventIds, r \in Resolvers : CommitSeed(e, r)
  <2>1. PICK e \in EventIds, r \in Resolvers : CommitSeed(e, r)
    BY <1>4
  <2> DEFINE t == cases[e].tier
  <2>2. t \in TierNums
    BY CaseTypes DEF CaseTypeOK
  <2>3. Committed(tiers[e][t], r) \in TierRecord
    BY <2>2, SeedingTypes DEF CaseTypeOK
  <2>4. /\ tiers' = [tiers EXCEPT ![e][t] = Committed(tiers[e][t], r)]
        /\ UNCHANGED <<cases, tierAge>>
    BY <2>1 DEF CommitSeed
  <2> QED BY <2>2, <2>3, <2>4, TierUpdateType DEF CaseTypeOK
<1>5. CASE \E e \in EventIds, r \in Resolvers : RevealSeed(e, r)
  <2>1. PICK e \in EventIds, r \in Resolvers : RevealSeed(e, r)
    BY <1>5
  <2> DEFINE t == cases[e].tier
  <2>2. t \in TierNums
    BY CaseTypes DEF CaseTypeOK
  <2>3. Revealed(tiers[e][t], r) \in TierRecord
    BY <2>2, SeedingTypes DEF CaseTypeOK
  <2>4. /\ tiers' = [tiers EXCEPT ![e][t] = Revealed(tiers[e][t], r)]
        /\ UNCHANGED <<cases, tierAge>>
    BY <2>1 DEF RevealSeed
  <2> QED BY <2>2, <2>3, <2>4, TierUpdateType DEF CaseTypeOK
<1>6. CASE \E e \in EventIds : DrawCommittee(e)
  <2>1. PICK e \in EventIds : DrawCommittee(e)
    BY <1>6
  <2> DEFINE t == cases[e].tier
  <2>2. PICK c \in Drawable(Candidates(tiers[e][t]), CommitteeSize[t]) :
          tiers' = [tiers EXCEPT ![e][t] = Drawn(tiers[e][t], c)]
    BY <2>1 DEF DrawCommittee
  <2>3. c \subseteq Resolvers
    BY DEF Drawable, Candidates, RegTypeOK
  <2>4. Drawn(tiers[e][t], c) \in TierRecord
    BY <2>3, SeedingTypes, CaseTypes DEF CaseTypeOK
  <2> QED BY <1>0, <2>1, <2>2, <2>4 DEF DrawCommittee, CaseTypeOK
<1>7. CASE \E e \in EventIds, t \in TierNums, r \in Resolvers, b \in BOOLEAN :
              SubmitTierVote(e, t, r, b)
  <2>1. PICK e \in EventIds, t \in TierNums, r \in Resolvers, b \in BOOLEAN :
              SubmitTierVote(e, t, r, b)
    BY <1>7
  <2>2. tiers' \in [EventIds -> [TierNums -> TierRecord]]
    BY <2>1, VotedType DEF SubmitTierVote, CaseTypeOK
  <2>3. cases' \in [EventIds -> CaseRecord] /\ tierAge' \in [EventIds -> 0..MaxTierAge]
    <3>1. CaseCloses(e) \/ CaseStays
      BY <2>1, VoteEffects
    <3>2. /\ [cases EXCEPT ![e].resolved = TRUE] \in [EventIds -> CaseRecord]
          /\ cases \in [EventIds -> CaseRecord]
      BY CaseUpdateTypes DEF CaseTypeOK
    <3>3. /\ [tierAge EXCEPT ![e] = 0] \in [EventIds -> 0..MaxTierAge]
          /\ tierAge \in [EventIds -> 0..MaxTierAge]
      BY <1>0 DEF CaseTypeOK
    <3> QED BY <3>1, <3>2, <3>3, Zenon DEF CaseCloses, CaseStays
  <2> QED BY <2>2, <2>3 DEF CaseTypeOK
<1>8. CASE \E e \in EventIds : EscalateTier2(e)
  <2>1. PICK e \in EventIds : EscalateTier2(e)
    BY <1>8
  <2>2. OpenedTier(tiers[e][2], 2) \in TierRecord
    BY <1>0, OpenedTierType DEF CaseTypeOK
  <2> QED BY <1>0, <2>1, <2>2, CaseTypes DEF EscalateTier2, OpenTier, CaseTypeOK
<1>9. CASE \E e \in EventIds : VoidAfterTier2Timeout(e)
  <2>1. PICK e \in EventIds : /\ cases' = [cases EXCEPT ![e].resolved = TRUE]
                              /\ tierAge' = [tierAge EXCEPT ![e] = 0]
                              /\ tiers' = tiers
    BY <1>9 DEF VoidAfterTier2Timeout
  <2> QED BY <1>0, <2>1, CaseTypes DEF CaseTypeOK
<1>10. CASE Tick
  BY <1>10, DisputeAssumption DEF Tick, CaseTypeOK
<1> QED BY <1>1, <1>2, <1>3, <1>4, <1>5, <1>6, <1>7, <1>8, <1>9, <1>10, LadderCases

LEMMA CaseTypesInitially ==
    ASSUME Init
    PROVE  CaseTypeOK
<1>1. 0 \in 0..MaxTierAge
  BY DisputeAssumption
<1> QED BY <1>1, RecordTypes DEF Init, DMInit, CaseTypeOK

(* Cases, tiers and their clocks are well typed in every reachable state.   *)
THEOREM CaseTypeCorrect == Spec => []CaseTypeOK
<1>1. Init => CaseTypeOK
  BY CaseTypesInitially
<1>2. RegTypeOK /\ CaseTypeOK /\ [Next]_vars => CaseTypeOK'
  BY CaseTypesKept
<1> QED BY <1>1, <1>2, LadderRegTypes, PTL DEF Spec

-----------------------------------------------------------------------------
(* Registry and manager keep two records of one dispute.  What one step of  *)
(* the composition does to both of them, for one event.                     *)
Filed(e) == /\ ~cases[e].exists
            /\ \/ /\ status[e] = "ProposedOutcome" /\ WindowOpen(e)
                  /\ cases'[e].originalOutcome = proposal[e].outcome
               \/ /\ status[e] = "ObservationsSubmitted" /\ DeadlinePassed(e)
                  /\ ~cases'[e].hasOriginalProposal
            /\ cases'[e].exists /\ ~cases'[e].resolved
            /\ status'[e] = "Disputed" /\ proposal'[e] = proposal[e]

Closed(e) == /\ status[e] = "Disputed"
             /\ cases'[e] = [cases[e] EXCEPT !.resolved = TRUE]
             /\ status'[e] \in {"Finalized", "Voided"} /\ proposal'[e] = proposal[e]

Live(e, t) == cases[e].exists /\ ~cases[e].resolved /\ cases[e].tier = t

Escalated(e) == /\ Live(e, 1)
                /\ cases'[e] = [cases[e] EXCEPT !.tier = 2]
                /\ status'[e] = status[e] /\ proposal'[e] = proposal[e]

Undisputed(e) == /\ cases'[e] = cases[e]
                 /\ \/ status'[e] = status[e] /\ proposal'[e] = proposal[e]
                    \/ /\ status[e] \notin {"Disputed", "Finalized", "Voided"}
                       /\ status'[e] # "Disputed"

LEMMA RegistryAlone ==
    ASSUME RegTypeOK, CaseTypeOK, RegistryOnly, NEW f \in EventIds
    PROVE  Undisputed(f)
<1> USE DEF RegTypeOK, Undisputed
<1>1. cases' = cases
  BY DEF RegistryOnly, dmVars, caseVars
<1>2. CASE \E es \in SUBSET EventIds : \E batch \in [es -> Specs] : CreateEvents(batch)
  BY <1>1, <1>2 DEF CreateEvents
<1>3. CASE \E e \in EventIds, r \in Resolvers, p \in Payloads : SubmitObservation(e, r, p)
  <2>1. PICK e \in EventIds, r \in Resolvers, p \in Payloads : SubmitObservation(e, r, p)
    BY <1>3
  <2>2. status[e] \in Observing
    BY <2>1 DEF SubmitObservation, MaySubmit
  <2>3. /\ status'[e] \in {"ProposedOutcome", "ObservationsSubmitted"}
        /\ f # e => status'[f] = status[f] /\ proposal'[f] = proposal[f]
    BY <2>1 DEF SubmitObservation
  <2> QED BY <1>1, <2>2, <2>3 DEF Observing
<1>4. CASE \E e \in EventIds : Finalize(e)
  BY <1>1, <1>4 DEF Finalize, SetFinalized
<1>5. CASE \E e \in EventIds : Expire(e)
  BY <1>1, <1>5 DEF Expire, SetStatus
<1>6. CASE OwnerStep
  BY <1>1, <1>6 DEF OwnerStep, SetResolverAuthorization, SetDisputeManager, eventVars
<1> QED BY <1>2, <1>3, <1>4, <1>5, <1>6 DEF RegistryOnly, PublicStep

LEMMA CaseSteps ==
    ASSUME RegTypeOK, CaseTypeOK, [Next]_vars, NEW f \in EventIds
    PROVE  Filed(f) \/ Closed(f) \/ Escalated(f) \/ Undisputed(f)
<1>1. CASE RegistryOnly
  BY <1>1, RegistryAlone
<1>2. CASE \E e \in EventIds, a \in Disputers : Dispute(e, a)
  <2>1. PICK e \in EventIds, a \in Disputers : Dispute(e, a)
    BY <1>2
  <2>2. /\ cases' = [cases EXCEPT ![e] = FiledCase(e, a)]
        /\ status' = [status EXCEPT ![e] = "Disputed"] /\ proposal' = proposal
        /\ ~cases[e].exists /\ status[e] = "ProposedOutcome" /\ WindowOpen(e)
    BY <2>1 DEF Dispute, EscalateToDispute, SetStatus
  <2>3. CASE f = e
    <3>1. cases'[e] = FiledCase(e, a) /\ status'[e] = "Disputed"
      BY <2>2 DEF RegTypeOK, CaseTypeOK
    <3>2. /\ FiledCase(e, a).exists /\ ~FiledCase(e, a).resolved
          /\ FiledCase(e, a).originalOutcome = proposal[e].outcome
      BY DEF FiledCase
    <3> QED BY <2>2, <2>3, <3>1, <3>2 DEF Filed
  <2>4. CASE f # e
    BY <2>2, <2>4 DEF RegTypeOK, CaseTypeOK, Undisputed
  <2> QED BY <2>3, <2>4
<1>3. CASE \E e \in EventIds : EscalateNonConvergence(e)
  <2>1. PICK e \in EventIds : EscalateNonConvergence(e)
    BY <1>3
  <2> DEFINE c == [NoCase EXCEPT !.exists = TRUE]
  <2>2. /\ cases' = [cases EXCEPT ![e] = c]
        /\ status' = [status EXCEPT ![e] = "Disputed"] /\ proposal' = proposal
        /\ ~cases[e].exists /\ status[e] = "ObservationsSubmitted" /\ DeadlinePassed(e)
    BY <2>1 DEF EscalateNonConvergence, RegEscalateNonConvergence, SetStatus
  <2>3. CASE f = e
    <3>1. cases'[e] = c /\ status'[e] = "Disputed"
      BY <2>2 DEF RegTypeOK, CaseTypeOK
    <3>2. c.exists /\ ~c.resolved /\ ~c.hasOriginalProposal
      BY DEF NoCase
    <3> HIDE DEF c
    <3> QED BY <2>2, <2>3, <3>1, <3>2 DEF Filed
  <2>4. CASE f # e
    BY <2>2, <2>4 DEF RegTypeOK, CaseTypeOK, Undisputed
  <2> QED BY <2>3, <2>4
<1>4. CASE UNCHANGED <<cases, status, proposal>>
  BY <1>4 DEF Undisputed
<1>5. CASE \E e \in EventIds, t \in TierNums, r \in Resolvers, b \in BOOLEAN :
               SubmitTierVote(e, t, r, b)
  <2>1. PICK e \in EventIds, t \in TierNums, r \in Resolvers, b \in BOOLEAN :
               SubmitTierVote(e, t, r, b)
    BY <1>5
  <2>2. CASE UNCHANGED regVars /\ CaseStays
    BY <1>4, <2>2 DEF regVars, eventVars, CaseStays
  <2>3. CASE \E d \in BOOLEAN : FinalizeFromDispute(e, ShortPayload(d)) /\ CaseCloses(e)
    <3>1. /\ cases' = [cases EXCEPT ![e].resolved = TRUE]
          /\ status' = [status EXCEPT ![e] = "Finalized"] /\ proposal' = proposal
          /\ status[e] = "Disputed"
      BY <2>3 DEF FinalizeFromDispute, SetFinalized, CaseCloses
    <3> QED BY <3>1 DEF RegTypeOK, CaseTypeOK, Closed, Undisputed
  <2> QED BY <2>1, <2>2, <2>3, VoteEffects, Zenon
<1>6. CASE \E e \in EventIds : EscalateTier2(e)
  <2>1. PICK e \in EventIds : EscalateTier2(e)
    BY <1>6
  <2>2. /\ Live(e, 1) /\ cases' = [cases EXCEPT ![e].tier = 2]
        /\ status' = status /\ proposal' = proposal
    BY <2>1 DEF EscalateTier2, TierTimedOut, InTier, Live, regVars, eventVars
  <2> QED BY <2>2 DEF CaseTypeOK, Escalated, Undisputed
<1>7. CASE \E e \in EventIds : VoidAfterTier2Timeout(e)
  <2>1. PICK e \in EventIds : VoidAfterTier2Timeout(e)
    BY <1>7
  <2>2. /\ cases' = [cases EXCEPT ![e].resolved = TRUE]
        /\ status' = [status EXCEPT ![e] = "Voided"] /\ proposal' = proposal
        /\ status[e] = "Disputed"
    BY <2>1 DEF VoidAfterTier2Timeout, VoidEvent, SetStatus
  <2> QED BY <2>2 DEF RegTypeOK, CaseTypeOK, Closed, Undisputed
<1>8. CASE \/ \E e \in EventIds, r \in Resolvers : CommitSeed(e, r) \/ RevealSeed(e, r)
           \/ \E e \in EventIds : DrawCommittee(e)
           \/ \E a \in Accounts : Withdraw(a)
           \/ Tick
           \/ UNCHANGED vars
  <2>1. UNCHANGED <<cases, status, proposal>>
    BY <1>8 DEF CommitSeed, RevealSeed, DrawCommittee, Withdraw, Tick, RegTick, vars, dmVars,
                caseVars, regVars, eventVars
  <2> QED BY <1>4, <2>1
<1> QED BY <1>1, <1>2, <1>3, <1>5, <1>6, <1>7, <1>8, LadderCases

(* Registry and manager agree at every moment which events are in dispute,  *)
(* and the case keeps the proposal that was contested.                      *)
THEOREM CasesMatch == Spec => []CaseMatchesStatus
<1>1. Init => CaseMatchesStatus
  BY DEF Init, RegInit, DMInit, NoCase, CaseMatchesStatus
<1>2. RegTypeOK /\ CaseTypeOK /\ CaseMatchesStatus /\ [Next]_vars => CaseMatchesStatus'
  <2> SUFFICES ASSUME RegTypeOK, CaseTypeOK, CaseMatchesStatus, [Next]_vars, NEW f \in EventIds
               PROVE  /\ status'[f] = "Disputed" <=> cases'[f].exists /\ ~cases'[f].resolved
                      /\ cases'[f].resolved =>
                            cases'[f].exists /\ status'[f] \in {"Finalized", "Voided"}
                      /\ cases'[f].exists /\ cases'[f].hasOriginalProposal =>
                            cases'[f].originalOutcome = proposal'[f].outcome
    BY DEF CaseMatchesStatus
  <2>1. /\ status[f] = "Disputed" <=> cases[f].exists /\ ~cases[f].resolved
        /\ cases[f].resolved => cases[f].exists /\ status[f] \in {"Finalized", "Voided"}
        /\ cases[f].exists /\ cases[f].hasOriginalProposal =>
              cases[f].originalOutcome = proposal[f].outcome
    BY DEF CaseMatchesStatus
  <2>2. cases[f] \in CaseRecord
    BY DEF CaseTypeOK
  <2>3. CASE Filed(f)
    BY <2>1, <2>3 DEF Filed
  <2>4. CASE Closed(f)
    BY <2>1, <2>2, <2>4 DEF Closed, CaseRecord
  <2>5. CASE Escalated(f)
    BY <2>1, <2>2, <2>5 DEF Escalated, CaseRecord
  <2>6. CASE Undisputed(f)
    BY <2>1, <2>6 DEF Undisputed
  <2> QED BY <2>3, <2>4, <2>5, <2>6, CaseSteps
<1> QED BY <1>1, <1>2, LadderRegTypes, CaseTypeCorrect, PTL DEF Spec

-----------------------------------------------------------------------------
(* A proposal is disputed only inside its window, and an event without one  *)
(* only after the deadline.                                                 *)
THEOREM DisputesAreInTime == Spec => DisputedInTime
<1>1. RegTypeOK /\ CaseTypeOK /\ PhaseConsistent /\ [Next]_vars =>
         [\A e \in EventIds :
             status[e] # "Disputed" /\ status'[e] = "Disputed" =>
                 IF proposal[e] # NoPayload
                 THEN age[e] < spec[e].disputeWindow
                 ELSE age[e] > spec[e].observationDeadline]_vars
  <2> SUFFICES ASSUME RegTypeOK, CaseTypeOK, PhaseConsistent, [Next]_vars, NEW e \in EventIds,
                      status[e] # "Disputed", status'[e] = "Disputed"
               PROVE  IF proposal[e] # NoPayload
                      THEN age[e] < spec[e].disputeWindow
                      ELSE age[e] > spec[e].observationDeadline
    OBVIOUS
  <2>1. Filed(e)
    BY CaseSteps DEF Closed, Escalated, Undisputed
  <2>2. CASE status[e] = "ProposedOutcome" /\ WindowOpen(e)
    BY <2>2 DEF WindowOpen, PhaseConsistent
  <2>3. CASE status[e] = "ObservationsSubmitted" /\ DeadlinePassed(e)
    BY <2>3 DEF Observing, DeadlinePassed, PhaseConsistent
  <2> QED BY <2>1, <2>2, <2>3 DEF Filed
<1>2. Spec => []PhaseConsistent
  BY LadderImplementsRegistry, PhaseConsistency, PTL
<1> QED BY <1>1, <1>2, LadderRegTypes, CaseTypeCorrect, PTL DEF Spec, DisputedInTime

-----------------------------------------------------------------------------
(* What one step does to one tier of one event: nothing, opens it, takes a  *)
(* commitment, a reveal, a committee or a vote.                             *)
Opens(e, t) ==
    /\ tiers'[e][t] = OpenedTier(tiers[e][t], t)
    /\ \/ t = 1 /\ ~cases[e].exists
       \/ t = 2 /\ Live(e, 1) /\ TierTimedOut(e, 1)
    /\ cases'[e].exists /\ ~cases'[e].resolved /\ cases'[e].tier = t

Commits(e, t) ==
    \E r \in Resolvers : /\ Live(e, t) /\ tiers[e][t].seeding
                         /\ tierAge[e] < SeedCommitWindow
                         /\ r \notin tiers[e][t].commitments
                         /\ tiers'[e][t] = Committed(tiers[e][t], r)

Reveals(e, t) ==
    \E r \in Resolvers : /\ Live(e, t) /\ tiers[e][t].seeding
                         /\ r \in tiers[e][t].commitments
                         /\ r \notin tiers[e][t].revealedSeed
                         /\ tiers'[e][t] = Revealed(tiers[e][t], r)

Draws(e, t) ==
    \E c \in Drawable(Candidates(tiers[e][t]), CommitteeSize[t]) :
        Live(e, t) /\ tiers[e][t].seeding /\ tiers'[e][t] = Drawn(tiers[e][t], c)

Rules(e, t, d) == /\ Agrees(tiers'[e][t], d)
                  /\ d = FALSE => ~Agrees(tiers'[e][t], TRUE)
                  /\ FinalizeFromDispute(e, ShortPayload(d))
                  /\ CaseCloses(e)

Votes(e, t) ==
    \E r \in Resolvers, b \in BOOLEAN :
        /\ Live(e, t) /\ MayVote(tiers[e][t], r)
        /\ tiers'[e][t] = Voted(tiers[e][t], r, b)
        /\ \/ ~HasConverged(tiers'[e][t]) /\ UNCHANGED regVars /\ CaseStays
           \/ \E d \in BOOLEAN : Rules(e, t, d)

LEMMA OtherTiersStay ==
    ASSUME CaseTypeOK, NEW f \in EventIds, NEW u \in TierNums, NEW tier,
           tiers' = [tiers EXCEPT ![f][u] = tier]
    PROVE  \A e \in EventIds, t \in TierNums :
              ~(e = f /\ t = u) => tiers'[e][t] = tiers[e][t]
  BY DEF CaseTypeOK

LEMMA VoteSteps ==
    ASSUME CaseTypeOK, NEW e \in EventIds, NEW t \in TierNums, NEW r \in Resolvers,
           NEW b \in BOOLEAN, SubmitTierVote(e, t, r, b)
    PROVE  Votes(e, t)
<1> DEFINE new == Voted(tiers[e][t], r, b)
<1>1. /\ tiers' = [tiers EXCEPT ![e][t] = new]
      /\ Live(e, t) /\ MayVote(tiers[e][t], r)
  BY DEF SubmitTierVote, InTier, Live
<1>2. \/ \E d \in BOOLEAN :
            /\ Agrees(new, d)
            /\ d = FALSE => ~Agrees(new, TRUE)
            /\ FinalizeFromDispute(e, ShortPayload(d))
            /\ CaseCloses(e)
      \/ /\ ~HasConverged(new)
         /\ UNCHANGED regVars /\ CaseStays
  BY VoteEffects, Zenon
<1> HIDE DEF new
<1>3. tiers'[e][t] = new
  BY <1>1 DEF CaseTypeOK
<1>4. \/ ~HasConverged(tiers'[e][t]) /\ UNCHANGED regVars /\ CaseStays
      \/ \E d \in BOOLEAN : Rules(e, t, d)
  BY <1>2, <1>3, Zenon DEF Rules
<1>5. tiers'[e][t] = Voted(tiers[e][t], r, b)
  BY <1>3 DEF new
<1> QED BY <1>1, <1>4, <1>5, Zenon DEF Votes

LEMMA TierSteps ==
    ASSUME RegTypeOK, CaseTypeOK, [Next]_vars, NEW e \in EventIds, NEW t \in TierNums
    PROVE  \/ tiers'[e][t] = tiers[e][t]
           \/ Opens(e, t) \/ Commits(e, t) \/ Reveals(e, t) \/ Draws(e, t) \/ Votes(e, t)
<1> DEFINE Same == tiers'[e][t] = tiers[e][t]
<1>0. 1 \in TierNums /\ 2 \in TierNums /\ \A f \in EventIds : cases[f].tier \in TierNums
  BY CaseTypes DEF TierNums, CaseTypeOK
<1>1. CASE \E f \in EventIds, a \in Disputers : Dispute(f, a)
  <2>1. PICK f \in EventIds, a \in Disputers : Dispute(f, a)
    BY <1>1
  <2>2. /\ ~cases[f].exists /\ cases' = [cases EXCEPT ![f] = FiledCase(f, a)]
        /\ tiers' = [tiers EXCEPT ![f][1] = OpenedTier(tiers[f][1], 1)]
    BY <2>1 DEF Dispute, OpenTier
  <2>3. cases'[f].exists /\ ~cases'[f].resolved /\ cases'[f].tier = 1
    BY <2>2 DEF FiledCase, CaseTypeOK
  <2>4. CASE e = f /\ t = 1
    <3>1. tiers'[f][1] = OpenedTier(tiers[f][1], 1)
      BY <1>0, <2>2 DEF CaseTypeOK
    <3> QED BY <3>1, <2>2, <2>3, <2>4 DEF Opens
  <2>5. CASE ~(e = f /\ t = 1)
    BY <1>0, <2>2, <2>5, OtherTiersStay
  <2> QED BY <2>4, <2>5
<1>2. CASE \E f \in EventIds : EscalateNonConvergence(f)
  <2>1. PICK f \in EventIds : EscalateNonConvergence(f)
    BY <1>2
  <2>2. /\ ~cases[f].exists /\ cases' = [cases EXCEPT ![f] = [NoCase EXCEPT !.exists = TRUE]]
        /\ tiers' = [tiers EXCEPT ![f][1] = OpenedTier(tiers[f][1], 1)]
    BY <2>1 DEF EscalateNonConvergence, OpenTier
  <2>3. cases'[f].exists /\ ~cases'[f].resolved /\ cases'[f].tier = 1
    BY <2>2 DEF NoCase, CaseTypeOK
  <2>4. CASE e = f /\ t = 1
    <3>1. tiers'[f][1] = OpenedTier(tiers[f][1], 1)
      BY <1>0, <2>2 DEF CaseTypeOK
    <3> QED BY <3>1, <2>2, <2>3, <2>4 DEF Opens
  <2>5. CASE ~(e = f /\ t = 1)
    BY <1>0, <2>2, <2>5, OtherTiersStay
  <2> QED BY <2>4, <2>5
<1>3. CASE \E f \in EventIds, r \in Resolvers : CommitSeed(f, r)
  <2>1. PICK f \in EventIds, r \in Resolvers : CommitSeed(f, r)
    BY <1>3
  <2> DEFINE u == cases[f].tier
  <2>2. /\ tiers' = [tiers EXCEPT ![f][u] = Committed(tiers[f][u], r)]
        /\ Live(f, u) /\ tiers[f][u].seeding /\ r \notin tiers[f][u].commitments
        /\ tierAge[f] < SeedCommitWindow
    BY <2>1 DEF CommitSeed, Seeding, Live
  <2> HIDE DEF u
  <2>3. CASE e = f /\ t = u
    <3>1. tiers'[f][u] = Committed(tiers[f][u], r)
      BY <1>0, <2>2 DEF CaseTypeOK, u
    <3> QED BY <3>1, <2>2, <2>3 DEF Commits
  <2>4. CASE ~(e = f /\ t = u)
    BY <1>0, <2>2, <2>4, OtherTiersStay DEF u
  <2> QED BY <2>3, <2>4
<1>4. CASE \E f \in EventIds, r \in Resolvers : RevealSeed(f, r)
  <2>1. PICK f \in EventIds, r \in Resolvers : RevealSeed(f, r)
    BY <1>4
  <2> DEFINE u == cases[f].tier
  <2>2. /\ tiers' = [tiers EXCEPT ![f][u] = Revealed(tiers[f][u], r)]
        /\ Live(f, u) /\ tiers[f][u].seeding
        /\ r \in tiers[f][u].commitments /\ r \notin tiers[f][u].revealedSeed
    BY <2>1 DEF RevealSeed, Seeding, Live
  <2> HIDE DEF u
  <2>3. CASE e = f /\ t = u
    <3>1. tiers'[f][u] = Revealed(tiers[f][u], r)
      BY <1>0, <2>2 DEF CaseTypeOK, u
    <3> QED BY <3>1, <2>2, <2>3 DEF Reveals
  <2>4. CASE ~(e = f /\ t = u)
    BY <1>0, <2>2, <2>4, OtherTiersStay DEF u
  <2> QED BY <2>3, <2>4
<1>5. CASE \E f \in EventIds : DrawCommittee(f)
  <2>1. PICK f \in EventIds : DrawCommittee(f)
    BY <1>5
  <2> DEFINE u == cases[f].tier
  <2>2. PICK c \in Drawable(Candidates(tiers[f][u]), CommitteeSize[u]) :
          /\ tiers' = [tiers EXCEPT ![f][u] = Drawn(tiers[f][u], c)]
          /\ Live(f, u) /\ tiers[f][u].seeding
    BY <2>1 DEF DrawCommittee, Seeding, Live
  <2> HIDE DEF u
  <2>3. CASE e = f /\ t = u
    <3>1. tiers'[f][u] = Drawn(tiers[f][u], c)
      BY <1>0, <2>2 DEF CaseTypeOK, u
    <3> QED BY <3>1, <2>2, <2>3 DEF Draws
  <2>4. CASE ~(e = f /\ t = u)
    BY <1>0, <2>2, <2>4, OtherTiersStay DEF u
  <2> QED BY <2>3, <2>4
<1>6. CASE \E f \in EventIds, u \in TierNums, r \in Resolvers, b \in BOOLEAN :
               SubmitTierVote(f, u, r, b)
  <2>1. PICK f \in EventIds, u \in TierNums, r \in Resolvers, b \in BOOLEAN :
               SubmitTierVote(f, u, r, b)
    BY <1>6
  <2>2. tiers' = [tiers EXCEPT ![f][u] = Voted(tiers[f][u], r, b)] /\ Votes(f, u)
    BY <2>1, VoteSteps DEF SubmitTierVote
  <2>3. CASE e = f /\ t = u
    BY <2>2, <2>3
  <2>4. CASE ~(e = f /\ t = u)
    BY <2>2, <2>4, OtherTiersStay
  <2> QED BY <2>3, <2>4
<1>7. CASE \E f \in EventIds : EscalateTier2(f)
  <2>1. PICK f \in EventIds : EscalateTier2(f)
    BY <1>7
  <2>2. /\ TierTimedOut(f, 1) /\ cases' = [cases EXCEPT ![f].tier = 2]
        /\ tiers' = [tiers EXCEPT ![f][2] = OpenedTier(tiers[f][2], 2)]
    BY <2>1 DEF EscalateTier2, OpenTier
  <2>3. Live(f, 1)
    BY <2>2 DEF TierTimedOut, InTier, Live
  <2>4. cases'[f].exists /\ ~cases'[f].resolved /\ cases'[f].tier = 2
    BY <2>2, <2>3 DEF Live, CaseTypeOK, CaseRecord
  <2>5. CASE e = f /\ t = 2
    <3>1. tiers'[f][2] = OpenedTier(tiers[f][2], 2)
      BY <1>0, <2>2 DEF CaseTypeOK
    <3> QED BY <3>1, <2>2, <2>3, <2>4, <2>5 DEF Opens
  <2>6. CASE ~(e = f /\ t = 2)
    BY <1>0, <2>2, <2>6, OtherTiersStay
  <2> QED BY <2>5, <2>6
<1>8. CASE \/ RegistryOnly
           \/ \E f \in EventIds : VoidAfterTier2Timeout(f)
           \/ \E a \in Accounts : Withdraw(a)
           \/ Tick
           \/ UNCHANGED vars
  BY <1>8 DEF RegistryOnly, VoidAfterTier2Timeout, Withdraw, Tick, vars, dmVars, caseVars
<1> QED BY <1>1, <1>2, <1>3, <1>4, <1>5, <1>6, <1>7, <1>8, LadderCases

-----------------------------------------------------------------------------
(* The fields of a tier record after each of those steps.                   *)
LEMMA OpenedFields ==
    ASSUME NEW tier \in TierRecord, NEW t \in TierNums
    PROVE  LET new == OpenedTier(tier, t) IN
           /\ new.votes = tier.votes /\ new.trueVotes = tier.trueVotes
           /\ new.falseVotes = tier.falseVotes
           /\ new.commits = tier.commits /\ new.reveals = tier.reveals
           /\ new.commitments = tier.commitments /\ new.revealedSeed = tier.revealedSeed
           /\ \/ /\ Cardinality(authorized) <= CommitteeSize[t]
                 /\ new.committee = authorized /\ new.drawn /\ new.seeding = tier.seeding
              \/ /\ new.committee = tier.committee /\ new.drawn = tier.drawn /\ new.seeding
  BY DEF OpenedTier, TierRecord

LEMMA CommittedFields ==
    ASSUME NEW tier \in TierRecord, NEW r \in Resolvers
    PROVE  LET new == Committed(tier, r) IN
           /\ new.votes = tier.votes /\ new.trueVotes = tier.trueVotes
           /\ new.falseVotes = tier.falseVotes /\ new.committee = tier.committee
           /\ new.drawn = tier.drawn /\ new.seeding = tier.seeding
           /\ new.commits = tier.commits + 1 /\ new.reveals = tier.reveals
           /\ new.commitments = tier.commitments \cup {r}
           /\ new.revealedSeed = tier.revealedSeed
  BY DEF Committed, TierRecord

LEMMA RevealedFields ==
    ASSUME NEW tier \in TierRecord, NEW r \in Resolvers
    PROVE  LET new == Revealed(tier, r) IN
           /\ new.votes = tier.votes /\ new.trueVotes = tier.trueVotes
           /\ new.falseVotes = tier.falseVotes /\ new.committee = tier.committee
           /\ new.drawn = tier.drawn /\ new.seeding = tier.seeding
           /\ new.commits = tier.commits /\ new.reveals = tier.reveals + 1
           /\ new.commitments = tier.commitments
           /\ new.revealedSeed = tier.revealedSeed \cup {r}
  BY DEF Revealed, TierRecord

LEMMA DrawnFields ==
    ASSUME NEW tier \in TierRecord, NEW c \in SUBSET Resolvers
    PROVE  LET new == Drawn(tier, c) IN
           /\ new.votes = tier.votes /\ new.trueVotes = tier.trueVotes
           /\ new.falseVotes = tier.falseVotes /\ new.committee = c
           /\ new.drawn /\ ~new.seeding
           /\ new.commits = tier.commits /\ new.reveals = tier.reveals
           /\ new.commitments = tier.commitments /\ new.revealedSeed = tier.revealedSeed
  BY DEF Drawn, TierRecord

LEMMA VotedFields ==
    ASSUME NEW tier \in TierRecord, NEW r \in Resolvers, NEW b \in BOOLEAN
    PROVE  LET new == Voted(tier, r, b) IN
           /\ new.votes = [tier.votes EXCEPT ![r] = VoteFor(b)]
           /\ Tally(new, b) = Tally(tier, b) + 1 /\ Tally(new, ~b) = Tally(tier, ~b)
           /\ new.committee = tier.committee
           /\ new.drawn = tier.drawn /\ new.seeding = tier.seeding
           /\ new.commits = tier.commits /\ new.reveals = tier.reveals
           /\ new.commitments = tier.commitments /\ new.revealedSeed = tier.revealedSeed
<1> DEFINE new == Voted(tier, r, b)
<1>1. new.votes = [tier.votes EXCEPT ![r] = VoteFor(b)]
  BY DEF Voted, TierRecord
<1>2. /\ new.trueVotes = IF b THEN tier.trueVotes + 1 ELSE tier.trueVotes
      /\ new.falseVotes = IF b THEN tier.falseVotes ELSE tier.falseVotes + 1
  BY DEF Voted, TierRecord
<1>3. /\ new.committee = tier.committee
      /\ new.drawn = tier.drawn /\ new.seeding = tier.seeding
      /\ new.commits = tier.commits /\ new.reveals = tier.reveals
      /\ new.commitments = tier.commitments /\ new.revealedSeed = tier.revealedSeed
  BY DEF Voted, TierRecord
<1>4. Tally(new, b) = Tally(tier, b) + 1 /\ Tally(new, ~b) = Tally(tier, ~b)
  <2> HIDE DEF new
  <2> QED BY <1>2 DEF Tally
<1> QED BY <1>1, <1>3, <1>4

LEMMA NewTierFields ==
    /\ NewTier.committee = {} /\ ~NewTier.drawn /\ ~NewTier.seeding
    /\ NewTier.trueVotes = 0 /\ NewTier.falseVotes = 0
    /\ \A r \in Resolvers : NewTier.votes[r] = "NotVoted"
    /\ NewTier.commits = 0 /\ NewTier.reveals = 0
    /\ NewTier.commitments = {} /\ NewTier.revealedSeed = {}
  BY DEF NewTier

LEMMA Drawables ==
    ASSUME RegTypeOK, NEW tier \in TierRecord, NEW t \in TierNums,
           NEW c \in Drawable(Candidates(tier), CommitteeSize[t])
    PROVE  /\ c \in SUBSET Resolvers /\ c \subseteq authorized \ Withheld(tier)
           /\ Cardinality(c) <= CommitteeSize[t]
<1>1. authorized \subseteq Resolvers
  BY DEF RegTypeOK
<1>2. CommitteeSize[t] \in Nat
  BY DisputeAssumption
<1>3. IsFiniteSet(Candidates(tier))
  BY <1>1, ResolversAssumption, FS_Subset DEF Candidates
<1>4. Cardinality(Candidates(tier)) \in Nat
  BY <1>3, FS_CardinalityType
<1> QED BY <1>1, <1>2, <1>4 DEF Drawable, Candidates

(* A tier not yet opened is empty, one that seeds has no committee yet.     *)
TierShape ==
    \A e \in EventIds :
        /\ cases[e].resolved => cases[e].exists
        /\ ~cases[e].exists => \A t \in TierNums : tiers[e][t] = NewTier
        /\ cases[e].exists /\ cases[e].tier = 1 => tiers[e][2] = NewTier
        /\ \A t \in TierNums : /\ ~tiers[e][t].drawn => tiers[e][t].committee = {}
                               /\ tiers[e][t].seeding => ~tiers[e][t].drawn

LEMMA OpensEmpty ==
    ASSUME CaseTypeOK, TierShape, NEW e \in EventIds, NEW t \in TierNums, Opens(e, t)
    PROVE  tiers[e][t] = NewTier /\ tiers'[e][t] = OpenedTier(NewTier, t)
  BY DEF TierShape, Opens, Live

(* The tiers of a case open in their order, and a committee is drawn only   *)
(* where seeding has ended.                                                 *)
THEOREM TierShapes == Spec => []TierShape
<1>1. Init => TierShape
  BY NewTierFields DEF Init, DMInit, NoCase, TierShape, TierNums
<1>2. RegTypeOK /\ CaseTypeOK /\ CaseTypeOK' /\ CaseMatchesStatus /\ TierShape /\ [Next]_vars
         => TierShape'
  <2> SUFFICES ASSUME RegTypeOK, CaseTypeOK, CaseTypeOK', CaseMatchesStatus, TierShape, [Next]_vars,
                      NEW e \in EventIds
               PROVE  /\ cases'[e].resolved => cases'[e].exists
                      /\ ~cases'[e].exists => \A t \in TierNums : tiers'[e][t] = NewTier
                      /\ cases'[e].exists /\ cases'[e].tier = 1 => tiers'[e][2] = NewTier
                      /\ \A t \in TierNums :
                            /\ ~tiers'[e][t].drawn => tiers'[e][t].committee = {}
                            /\ tiers'[e][t].seeding => ~tiers'[e][t].drawn
    BY DEF TierShape
  <2>0. 1 \in TierNums /\ 2 \in TierNums
    BY DEF TierNums
  <2>1. cases[e] \in CaseRecord /\ cases'[e] \in CaseRecord
    BY DEF CaseTypeOK
  <2>2. /\ cases[e].resolved => cases[e].exists
        /\ ~cases[e].exists => \A t \in TierNums : tiers[e][t] = NewTier
        /\ cases[e].exists /\ cases[e].tier = 1 => tiers[e][2] = NewTier
    BY DEF TierShape
  <2>3. /\ cases'[e].resolved => cases'[e].exists
        /\ ~cases'[e].exists => ~cases[e].exists
        /\ cases'[e].tier = 1 /\ cases'[e].exists =>
              ~cases[e].exists \/ (cases[e].exists /\ cases[e].tier = 1)
    <3>1. CASE Filed(e)
      BY <3>1 DEF Filed
    <3>2. CASE Closed(e)
      <4>1. cases[e].exists
        BY <3>2 DEF Closed, CaseMatchesStatus
      <4>2. cases'[e].exists /\ cases'[e].tier = cases[e].tier
        BY <2>1, <3>2, <4>1 DEF Closed, CaseRecord
      <4> QED BY <4>1, <4>2
    <3>3. CASE Escalated(e)
      BY <2>1, <2>2, <3>3 DEF Escalated, CaseRecord
    <3>4. CASE Undisputed(e)
      BY <2>2, <3>4 DEF Undisputed
    <3> QED BY <3>1, <3>2, <3>3, <3>4, CaseSteps
  <2>4. ASSUME ~cases'[e].exists, NEW t \in TierNums PROVE tiers'[e][t] = NewTier
    <3>1. ~cases[e].exists /\ tiers[e][t] = NewTier
      BY <2>2, <2>3, <2>4
    <3> QED BY <2>4, <3>1, TierSteps DEF Opens, Commits, Reveals, Draws, Votes, Live
  <2>5. ASSUME cases'[e].exists, cases'[e].tier = 1 PROVE tiers'[e][2] = NewTier
    <3>1. tiers[e][2] = NewTier /\ ~Live(e, 2)
      BY <2>0, <2>2, <2>3, <2>5 DEF Live
    <3>2. ~Opens(e, 2)
      BY <2>5 DEF Opens
    <3> QED BY <2>0, <3>1, <3>2, TierSteps DEF Commits, Reveals, Draws, Votes
  <2>6. ASSUME NEW t \in TierNums
        PROVE  /\ ~tiers'[e][t].drawn => tiers'[e][t].committee = {}
               /\ tiers'[e][t].seeding => ~tiers'[e][t].drawn
    <3>1. /\ ~tiers[e][t].drawn => tiers[e][t].committee = {}
          /\ tiers[e][t].seeding => ~tiers[e][t].drawn
      BY DEF TierShape
    <3>2. tiers[e][t] \in TierRecord /\ tiers'[e][t] \in TierRecord
      BY DEF CaseTypeOK
    <3>3. CASE tiers'[e][t] = tiers[e][t]
      BY <3>1, <3>3
    <3>4. CASE Opens(e, t)
      <4>1. tiers'[e][t] = OpenedTier(tiers[e][t], t) /\ tiers[e][t] = NewTier
        BY <3>4, OpensEmpty DEF Opens
      <4> QED BY <3>2, <4>1, OpenedFields, NewTierFields
    <3>5. CASE Commits(e, t)
      BY <3>1, <3>2, <3>5, CommittedFields DEF Commits
    <3>6. CASE Reveals(e, t)
      BY <3>1, <3>2, <3>6, RevealedFields DEF Reveals
    <3>7. CASE Draws(e, t)
      BY <3>2, <3>7, DrawnFields, Drawables DEF Draws
    <3>8. CASE Votes(e, t)
      <4>1. PICK r \in Resolvers, b \in BOOLEAN : tiers'[e][t] = Voted(tiers[e][t], r, b)
        BY <3>8 DEF Votes
      <4>2. /\ tiers'[e][t].committee = tiers[e][t].committee
            /\ tiers'[e][t].drawn = tiers[e][t].drawn
            /\ tiers'[e][t].seeding = tiers[e][t].seeding
        <5>1. /\ Voted(tiers[e][t], r, b).committee = tiers[e][t].committee
              /\ Voted(tiers[e][t], r, b).drawn = tiers[e][t].drawn
              /\ Voted(tiers[e][t], r, b).seeding = tiers[e][t].seeding
          BY <3>2, VotedFields
        <5> QED BY <4>1, <5>1
      <4> QED BY <3>1, <4>2
    <3> QED BY <3>3, <3>4, <3>5, <3>6, <3>7, <3>8, TierSteps
  <2> QED BY <2>3, <2>4, <2>5, <2>6
<1> QED BY <1>1, <1>2, LadderRegTypes, CaseTypeCorrect, CasesMatch, PTL DEF Spec

-----------------------------------------------------------------------------
(* What TierCountsAgree says of one tier.                                   *)
VotesFor(tier, b) == {r \in tier.committee : tier.votes[r] = VoteFor(b)}

Counted(tier) ==
    /\ \A b \in BOOLEAN : Tally(tier, b) = Cardinality(VotesFor(tier, b))
    /\ \A r \in Resolvers \ tier.committee : tier.votes[r] = "NotVoted"
    /\ tier.commits = Cardinality(tier.commitments)
    /\ tier.reveals = Cardinality(tier.revealedSeed)
    /\ tier.revealedSeed \subseteq tier.commitments

LEMMA CountsOfTiers ==
    TierCountsAgree <=> \A e \in EventIds, t \in TierNums : Counted(tiers[e][t])
  BY DEF TierCountsAgree, Counted, VotesFor

LEMMA CountsOfTiersNext ==
    TierCountsAgree' <=> \A e \in EventIds, t \in TierNums : Counted(tiers'[e][t])
  BY DEF TierCountsAgree, Counted, VotesFor

(* Nobody has voted in a tier without a committee.                          *)
LEMMA SeatedUnvoted ==
    ASSUME NEW tier \in TierRecord, Counted(tier), tier.committee = {},
           NEW new \in TierRecord, new.votes = tier.votes,
           new.trueVotes = tier.trueVotes, new.falseVotes = tier.falseVotes,
           new.commits = Cardinality(new.commitments),
           new.reveals = Cardinality(new.revealedSeed),
           new.revealedSeed \subseteq new.commitments
    PROVE  Counted(new)
<1>1. \A r \in Resolvers : new.votes[r] = "NotVoted"
  BY DEF Counted
<1>2. \A b \in BOOLEAN : VotesFor(new, b) = {} /\ VotesFor(tier, b) = {}
  BY <1>1, TierFields DEF VotesFor, VoteFor
<1>3. \A b \in BOOLEAN : Tally(new, b) = Tally(tier, b)
  BY DEF Tally
<1> QED BY <1>1, <1>2, <1>3 DEF Counted

LEMMA NewTierCounted == Counted(NewTier)
<1>1. \A b \in BOOLEAN : VotesFor(NewTier, b) = {} /\ Tally(NewTier, b) = 0
  BY NewTierFields DEF VotesFor, Tally
<1> QED BY <1>1, NewTierFields, FS_EmptySet DEF Counted

LEMMA CommittedCounted ==
    ASSUME NEW tier \in TierRecord, Counted(tier), NEW r \in Resolvers,
           r \notin tier.commitments
    PROVE  Counted(Committed(tier, r))
<1> DEFINE new == Committed(tier, r)
<1>1. /\ new.votes = tier.votes /\ new.trueVotes = tier.trueVotes
      /\ new.falseVotes = tier.falseVotes /\ new.committee = tier.committee
      /\ new.commits = tier.commits + 1 /\ new.reveals = tier.reveals
      /\ new.commitments = tier.commitments \cup {r}
      /\ new.revealedSeed = tier.revealedSeed
  BY CommittedFields
<1>2. IsFiniteSet(tier.commitments)
  BY ResolversAssumption, TierFields, FS_Subset
<1>3. Cardinality(tier.commitments \cup {r}) = Cardinality(tier.commitments) + 1
  BY <1>2, FS_AddElement
<1> HIDE DEF new
<1>4. \A b \in BOOLEAN : Tally(new, b) = Tally(tier, b) /\ VotesFor(new, b) = VotesFor(tier, b)
  BY <1>1 DEF Tally, VotesFor
<1>5. Counted(new)
  BY <1>1, <1>3, <1>4 DEF Counted
<1> QED BY <1>5 DEF new

LEMMA RevealedCounted ==
    ASSUME NEW tier \in TierRecord, Counted(tier), NEW r \in Resolvers,
           r \in tier.commitments, r \notin tier.revealedSeed
    PROVE  Counted(Revealed(tier, r))
<1> DEFINE new == Revealed(tier, r)
<1>1. /\ new.votes = tier.votes /\ new.trueVotes = tier.trueVotes
      /\ new.falseVotes = tier.falseVotes /\ new.committee = tier.committee
      /\ new.commits = tier.commits /\ new.reveals = tier.reveals + 1
      /\ new.commitments = tier.commitments
      /\ new.revealedSeed = tier.revealedSeed \cup {r}
  BY RevealedFields
<1>2. IsFiniteSet(tier.revealedSeed)
  BY ResolversAssumption, TierFields, FS_Subset
<1>3. Cardinality(tier.revealedSeed \cup {r}) = Cardinality(tier.revealedSeed) + 1
  BY <1>2, FS_AddElement
<1> HIDE DEF new
<1>4. \A b \in BOOLEAN : Tally(new, b) = Tally(tier, b) /\ VotesFor(new, b) = VotesFor(tier, b)
  BY <1>1 DEF Tally, VotesFor
<1>5. Counted(new)
  BY <1>1, <1>3, <1>4 DEF Counted
<1> QED BY <1>5 DEF new

LEMMA VoteForDistinct ==
    /\ VoteFor(TRUE) # VoteFor(FALSE)
    /\ \A b \in BOOLEAN : VoteFor(b) # "NotVoted" /\ VoteFor(b) # VoteFor(~b)
  BY DEF VoteFor

(* A vote counts one more member of the committee, for the side it is for.  *)
LEMMA VotedSides ==
    ASSUME NEW tier \in TierRecord, NEW r \in Resolvers, NEW b \in BOOLEAN,
           MayVote(tier, r)
    PROVE  /\ VotesFor(Voted(tier, r, b), b) = VotesFor(tier, b) \cup {r}
           /\ r \notin VotesFor(tier, b)
           /\ VotesFor(Voted(tier, r, b), ~b) = VotesFor(tier, ~b)
<1> DEFINE new == Voted(tier, r, b)
<1>1. /\ new.votes = [tier.votes EXCEPT ![r] = VoteFor(b)]
      /\ new.committee = tier.committee
  BY VotedFields
<1>2. r \in tier.committee /\ tier.votes[r] = "NotVoted"
  BY DEF MayVote
<1>3. /\ tier.committee \in SUBSET Resolvers
      /\ tier.votes \in [Resolvers -> {"NotVoted", "VotedTrue", "VotedFalse"}]
  BY TierFields
<1> HIDE DEF new
<1>4. new.votes[r] = VoteFor(b) /\ \A s \in Resolvers \ {r} : new.votes[s] = tier.votes[s]
  BY <1>1, <1>3
<1>5. VoteFor(b) # "NotVoted" /\ VoteFor(~b) # "NotVoted" /\ VoteFor(b) # VoteFor(~b)
  BY VoteForDistinct
<1>6. VotesFor(new, b) = VotesFor(tier, b) \cup {r}
  BY <1>1, <1>2, <1>3, <1>4 DEF VotesFor
<1>7. VotesFor(new, ~b) = VotesFor(tier, ~b)
  BY <1>1, <1>2, <1>3, <1>4, <1>5 DEF VotesFor
<1>8. r \notin VotesFor(tier, b)
  BY <1>2, <1>5 DEF VotesFor
<1> QED BY <1>6, <1>7, <1>8 DEF new

LEMMA VotersFinite ==
    ASSUME NEW tier \in TierRecord, NEW b \in BOOLEAN
    PROVE  /\ IsFiniteSet(VotesFor(tier, b)) /\ VotesFor(tier, b) \subseteq Resolvers
           /\ Cardinality(VotesFor(tier, b)) \in Nat
<1>1. VotesFor(tier, b) \in SUBSET Resolvers
  BY TierFields DEF VotesFor
<1>2. IsFiniteSet(VotesFor(tier, b))
  BY <1>1, ResolversAssumption, FS_Subset
<1> QED BY <1>1, <1>2, FS_CardinalityType

LEMMA VotedCounted ==
    ASSUME NEW tier \in TierRecord, Counted(tier), NEW r \in Resolvers, NEW b \in BOOLEAN,
           MayVote(tier, r)
    PROVE  Counted(Voted(tier, r, b))
<1> DEFINE new == Voted(tier, r, b)
<1>1. /\ Tally(new, b) = Tally(tier, b) + 1 /\ Tally(new, ~b) = Tally(tier, ~b)
      /\ new.votes = [tier.votes EXCEPT ![r] = VoteFor(b)] /\ new.committee = tier.committee
      /\ new.commits = tier.commits /\ new.reveals = tier.reveals
      /\ new.commitments = tier.commitments /\ new.revealedSeed = tier.revealedSeed
  BY VotedFields
<1>2. /\ VotesFor(new, b) = VotesFor(tier, b) \cup {r} /\ r \notin VotesFor(tier, b)
      /\ VotesFor(new, ~b) = VotesFor(tier, ~b)
  BY VotedSides
<1>3. Cardinality(VotesFor(tier, b) \cup {r}) = Cardinality(VotesFor(tier, b)) + 1
  BY <1>2, VotersFinite, FS_AddElement
<1> HIDE DEF new
<1>4. \A d \in BOOLEAN : d = b \/ d = ~b
  OBVIOUS
<1>5. \A d \in BOOLEAN : Tally(tier, d) = Cardinality(VotesFor(tier, d))
  BY DEF Counted
<1>6. Tally(new, b) = Cardinality(VotesFor(new, b))
  BY <1>1, <1>2, <1>3, <1>5
<1>7. Tally(new, ~b) = Cardinality(VotesFor(new, ~b))
  BY <1>1, <1>2, <1>5
<1>8. \A d \in BOOLEAN : Tally(new, d) = Cardinality(VotesFor(new, d))
  BY <1>4, <1>6, <1>7
<1>9. \A s \in Resolvers \ new.committee : new.votes[s] = "NotVoted"
  BY <1>1, TierFields DEF Counted, MayVote
<1>10. Counted(new)
  BY <1>1, <1>8, <1>9 DEF Counted
<1> QED BY <1>10 DEF new

(* The tallies and counters a tier decides by are what they claim to count. *)
THEOREM TierCountsAreRight == Spec => []TierCountsAgree
<1>1. Init => TierCountsAgree
  <2>1. Init => \A e \in EventIds, t \in TierNums : tiers[e][t] = NewTier
    BY DEF Init, DMInit
  <2> QED BY <2>1, NewTierCounted, CountsOfTiers
<1>2. RegTypeOK /\ CaseTypeOK /\ CaseTypeOK' /\ TierShape /\ TierCountsAgree /\ [Next]_vars
         => TierCountsAgree'
  <2> SUFFICES ASSUME RegTypeOK, CaseTypeOK, CaseTypeOK', TierShape, TierCountsAgree,
                      [Next]_vars, NEW e \in EventIds, NEW t \in TierNums
               PROVE  Counted(tiers'[e][t])
    BY CountsOfTiersNext
  <2>1. Counted(tiers[e][t])
    BY CountsOfTiers
  <2>2. tiers[e][t] \in TierRecord /\ tiers'[e][t] \in TierRecord
    BY DEF CaseTypeOK
  <2>3. /\ ~tiers[e][t].drawn => tiers[e][t].committee = {}
        /\ tiers[e][t].seeding => ~tiers[e][t].drawn
    BY DEF TierShape
  <2>4. CASE tiers'[e][t] = tiers[e][t]
    BY <2>1, <2>4
  <2>5. CASE Opens(e, t)
    <3>1. tiers'[e][t] = OpenedTier(NewTier, t)
      BY <2>5, OpensEmpty
    <3>2. /\ tiers'[e][t].votes = NewTier.votes
          /\ tiers'[e][t].trueVotes = NewTier.trueVotes
          /\ tiers'[e][t].falseVotes = NewTier.falseVotes
          /\ tiers'[e][t].commits = 0 /\ tiers'[e][t].reveals = 0
          /\ tiers'[e][t].commitments = {} /\ tiers'[e][t].revealedSeed = {}
      BY <3>1, RecordTypes, OpenedFields, NewTierFields
    <3> QED BY <2>2, <3>2, RecordTypes, NewTierCounted, NewTierFields, SeatedUnvoted, FS_EmptySet
  <2>6. CASE Commits(e, t)
    BY <2>1, <2>2, <2>6, CommittedCounted DEF Commits
  <2>7. CASE Reveals(e, t)
    BY <2>1, <2>2, <2>7, RevealedCounted DEF Reveals
  <2>8. CASE Draws(e, t)
    <3>1. PICK c \in SUBSET Resolvers : tiers'[e][t] = Drawn(tiers[e][t], c)
      BY <2>2, <2>8, Drawables DEF Draws
    <3>2. tiers[e][t].committee = {}
      BY <2>3, <2>8 DEF Draws
    <3>3. /\ tiers'[e][t].votes = tiers[e][t].votes
          /\ tiers'[e][t].trueVotes = tiers[e][t].trueVotes
          /\ tiers'[e][t].falseVotes = tiers[e][t].falseVotes
          /\ tiers'[e][t].commits = tiers[e][t].commits
          /\ tiers'[e][t].reveals = tiers[e][t].reveals
          /\ tiers'[e][t].commitments = tiers[e][t].commitments
          /\ tiers'[e][t].revealedSeed = tiers[e][t].revealedSeed
      BY <2>2, <3>1, DrawnFields
    <3>4. /\ tiers[e][t].commits = Cardinality(tiers[e][t].commitments)
          /\ tiers[e][t].reveals = Cardinality(tiers[e][t].revealedSeed)
          /\ tiers[e][t].revealedSeed \subseteq tiers[e][t].commitments
      BY <2>1 DEF Counted
    <3> QED BY <2>1, <2>2, <3>2, <3>3, <3>4, SeatedUnvoted
  <2>9. CASE Votes(e, t)
    BY <2>1, <2>2, <2>9, VotedCounted DEF Votes
  <2> QED BY <2>4, <2>5, <2>6, <2>7, <2>8, <2>9, TierSteps
<1> QED BY <1>1, <1>2, LadderRegTypes, CaseTypeCorrect, TierShapes, PTL DEF Spec

-----------------------------------------------------------------------------
(* A committee seats no more members than its tier, is drawn only once, and *)
(* never seats a resolver that withheld its reveal.                         *)
THEOREM DrawsAreFair == Spec => CommitteeDrawnFairly
<1>1. RegTypeOK /\ CaseTypeOK /\ TierShape /\ [Next]_vars =>
        [\A e \in EventIds, t \in TierNums :
          LET old == tiers[e][t]  new == tiers'[e][t] IN
          /\ old.drawn => new.drawn /\ new.committee = old.committee
          /\ ~old.drawn /\ new.drawn =>
                /\ Cardinality(new.committee) <= CommitteeSize[t]
                /\ new.committee \subseteq authorized \ Withheld(old)]_vars
  <2> SUFFICES ASSUME RegTypeOK, CaseTypeOK, TierShape, [Next]_vars,
                      NEW e \in EventIds, NEW t \in TierNums
               PROVE  /\ tiers[e][t].drawn =>
                            tiers'[e][t].drawn /\ tiers'[e][t].committee = tiers[e][t].committee
                      /\ ~tiers[e][t].drawn /\ tiers'[e][t].drawn =>
                            /\ Cardinality(tiers'[e][t].committee) <= CommitteeSize[t]
                            /\ tiers'[e][t].committee \subseteq
                                  authorized \ Withheld(tiers[e][t])
    OBVIOUS
  <2>1. tiers[e][t] \in TierRecord
    BY DEF CaseTypeOK
  <2>2. CASE tiers'[e][t] = tiers[e][t]
    BY <2>2
  <2>3. CASE Opens(e, t)
    <3>1. tiers[e][t] = NewTier /\ tiers'[e][t] = OpenedTier(NewTier, t)
      BY <2>3, OpensEmpty
    <3>2. Withheld(NewTier) = {} /\ ~NewTier.drawn
      BY NewTierFields DEF Withheld
    <3>3. \/ /\ Cardinality(authorized) <= CommitteeSize[t]
             /\ OpenedTier(NewTier, t).committee = authorized
          \/ OpenedTier(NewTier, t).drawn = NewTier.drawn
      BY RecordTypes, OpenedFields
    <3> QED BY <3>1, <3>2, <3>3
  <2>4. CASE Commits(e, t)
    BY <2>1, <2>4, CommittedFields DEF Commits
  <2>5. CASE Reveals(e, t)
    BY <2>1, <2>5, RevealedFields DEF Reveals
  <2>6. CASE Draws(e, t)
    <3>1. ~tiers[e][t].drawn
      BY <2>6 DEF Draws, TierShape
    <3>2. PICK c \in Drawable(Candidates(tiers[e][t]), CommitteeSize[t]) :
            tiers'[e][t] = Drawn(tiers[e][t], c)
      BY <2>6 DEF Draws
    <3>3. /\ c \in SUBSET Resolvers /\ c \subseteq authorized \ Withheld(tiers[e][t])
          /\ Cardinality(c) <= CommitteeSize[t]
      BY <2>1, Drawables
    <3>4. tiers'[e][t].committee = c
      BY <2>1, <3>2, <3>3, DrawnFields
    <3> QED BY <3>1, <3>3, <3>4
  <2>7. CASE Votes(e, t)
    <3>1. PICK r \in Resolvers, b \in BOOLEAN : tiers'[e][t] = Voted(tiers[e][t], r, b)
      BY <2>7 DEF Votes
    <3>2. /\ Voted(tiers[e][t], r, b).committee = tiers[e][t].committee
          /\ Voted(tiers[e][t], r, b).drawn = tiers[e][t].drawn
      BY <2>1, VotedFields
    <3> QED BY <3>1, <3>2
  <2> QED BY <2>2, <2>3, <2>4, <2>5, <2>6, <2>7, TierSteps
<1> QED BY <1>1, LadderRegTypes, CaseTypeCorrect, TierShapes, PTL DEF Spec, CommitteeDrawnFairly

-----------------------------------------------------------------------------
(* The two sides of a committee are disjoint, so at most one of them can    *)
(* hold 66% of it, and a side that does has a member.                       *)
LEMMA OneSideWins ==
    ASSUME NEW tier \in TierRecord, Counted(tier), tier.committee # {},
           NEW b \in BOOLEAN, Agrees(tier, b)
    PROVE  /\ Tally(tier, b) \in Nat \ {0} /\ Tally(tier, ~b) \in Nat
           /\ ~Agrees(tier, ~b)
<1> DEFINE n == Cardinality(tier.committee)
           y == VotesFor(tier, b)
           z == VotesFor(tier, ~b)
<1>1. IsFiniteSet(tier.committee)
  BY ResolversAssumption, TierFields, FS_Subset
<1>2. n \in Nat \ {0}
  BY <1>1, FS_EmptySet, FS_CardinalityType
<1>3. IsFiniteSet(y) /\ IsFiniteSet(z) /\ Cardinality(y) \in Nat /\ Cardinality(z) \in Nat
  BY VotersFinite
<1>4. y \cap z = {}
  BY VoteForDistinct DEF VotesFor
<1>5. Cardinality(y \cup z) = Cardinality(y) + Cardinality(z)
  <2> HIDE DEF y, z
  <2>1. Cardinality(y \cap z) = 0
    BY <1>4, FS_EmptySet
  <2>2. Cardinality(y \cup z) = Cardinality(y) + Cardinality(z) - Cardinality(y \cap z)
    BY <1>3, FS_Union
  <2> QED BY <1>3, <2>1, <2>2
<1>6. y \cup z \in SUBSET tier.committee
  BY DEF VotesFor
<1>7. Cardinality(y \cup z) <= n
  <2> HIDE DEF y, z
  <2> QED BY <1>1, <1>6, FS_Subset
<1>8. Tally(tier, b) = Cardinality(y) /\ Tally(tier, ~b) = Cardinality(z)
  BY DEF Counted
<1>9. Cardinality(y) * 100 >= n * 66
  BY <1>8 DEF Agrees
<1> HIDE DEF y, z, n
<1>10. Cardinality(y) # 0 /\ ~(Cardinality(z) * 100 >= n * 66)
  BY <1>2, <1>3, <1>5, <1>7, <1>9
<1> QED BY <1>3, <1>8, <1>10 DEF Agrees, n

(* In terms of the tallies the contract reads: while a case is open no side *)
(* has agreed, and a case that ended in an answer has the answer's side.    *)
Decided(c, s, o, tier) ==
    /\ c.exists /\ ~c.resolved /\ tier.committee # {} =>
          \A b \in BOOLEAN : ~Agrees(tier, b)
    /\ c.resolved /\ s = "Finalized" =>
          /\ tier.committee # {}
          /\ Agrees(tier, o.outcome)
          /\ ~Agrees(tier, ~o.outcome)

TalliesDecide ==
    \A e \in EventIds : Decided(cases[e], status[e], outcome[e], tiers[e][cases[e].tier])

LEMMA AgreesIsSupermajority ==
    ASSUME CaseTypeOK, TierCountsAgree, NEW e \in EventIds, NEW b \in BOOLEAN
    PROVE  LET tier == tiers[e][cases[e].tier] IN Supermajority(tier, b) <=> Agrees(tier, b)
<1>1. cases[e].tier \in TierNums
  BY CaseTypes DEF CaseTypeOK
<1>2. Counted(tiers[e][cases[e].tier])
  BY <1>1, CountsOfTiers
<1> QED BY <1>2 DEF Supermajority, Supporting, Agrees, Counted, VotesFor

(* A case that ends in an answer ends with the vote that made 66%.          *)
LEMMA AnswersComeByVote ==
    ASSUME RegTypeOK, CaseTypeOK, CaseMatchesStatus, [Next]_vars, NEW e \in EventIds,
           cases[e].exists, ~cases[e].resolved,
           cases'[e].resolved, status'[e] = "Finalized"
    PROVE  Votes(e, cases[e].tier)
<1>0. status[e] = "Disputed"
  BY DEF CaseMatchesStatus
<1>1. CASE \E f \in EventIds, a \in Disputers : Dispute(f, a)
  <2>1. PICK f \in EventIds, a \in Disputers : Dispute(f, a)
    BY <1>1
  <2>2. f # e /\ cases' = [cases EXCEPT ![f] = FiledCase(f, a)]
    BY <2>1 DEF Dispute
  <2>3. cases'[e] = cases[e]
    BY <2>2 DEF CaseTypeOK
  <2> QED BY <2>3
<1>2. CASE \E f \in EventIds : EscalateNonConvergence(f)
  <2>1. PICK f \in EventIds : EscalateNonConvergence(f)
    BY <1>2
  <2>2. f # e /\ cases' = [cases EXCEPT ![f] = [NoCase EXCEPT !.exists = TRUE]]
    BY <2>1 DEF EscalateNonConvergence
  <2>3. cases'[e] = cases[e]
    BY <2>2 DEF CaseTypeOK
  <2> QED BY <2>3
<1>3. CASE \E f \in EventIds, u \in TierNums, r \in Resolvers, b \in BOOLEAN :
               SubmitTierVote(f, u, r, b)
  <2>1. PICK f \in EventIds, u \in TierNums, r \in Resolvers, b \in BOOLEAN :
               SubmitTierVote(f, u, r, b)
    BY <1>3
  <2>2. CASE f # e
    <3>1. CaseCloses(f) \/ CaseStays
      BY <2>1, VoteEffects
    <3>2. cases'[e] = cases[e]
      BY <2>2, <3>1 DEF CaseCloses, CaseStays, CaseTypeOK
    <3> QED BY <3>2
  <2>3. CASE f = e
    <3>1. Votes(f, u)
      BY <2>1, VoteSteps
    <3>2. cases[f].tier = u
      BY <3>1 DEF Votes, Live
    <3> QED BY <2>3, <3>1, <3>2
  <2> QED BY <2>2, <2>3
<1>4. CASE \E f \in EventIds : EscalateTier2(f)
  <2>1. PICK f \in EventIds : cases' = [cases EXCEPT ![f].tier = 2]
    BY <1>4 DEF EscalateTier2
  <2>2. cases'[e].resolved = cases[e].resolved
    BY <2>1 DEF CaseTypeOK, CaseRecord
  <2> QED BY <2>2
<1>5. CASE \E f \in EventIds : VoidAfterTier2Timeout(f)
  <2>1. PICK f \in EventIds : status' = [status EXCEPT ![f] = "Voided"]
    BY <1>5 DEF VoidAfterTier2Timeout, VoidEvent, SetStatus
  <2>2. status'[e] \in {status[e], "Voided"}
    BY <2>1 DEF RegTypeOK
  <2> QED BY <1>0, <2>2
<1>6. CASE cases' = cases
  BY <1>6
<1>7. CASE \/ RegistryOnly
           \/ \E f \in EventIds, r \in Resolvers : CommitSeed(f, r) \/ RevealSeed(f, r)
           \/ \E f \in EventIds : DrawCommittee(f)
           \/ \E a \in Accounts : Withdraw(a)
           \/ Tick
           \/ UNCHANGED vars
  <2>1. cases' = cases
    BY <1>7 DEF RegistryOnly, CommitSeed, RevealSeed, DrawCommittee, Withdraw, Tick, vars,
                dmVars, caseVars
  <2> QED BY <1>6, <2>1
<1> QED BY <1>1, <1>2, <1>3, <1>4, <1>5, <1>7, LadderCases

(* Once it is over, an event keeps its answer and its case its tiers.       *)
LEMMA ClosedStays ==
    ASSUME RegTypeOK, CaseTypeOK, CaseMatchesStatus, [Next]_vars, NEW e \in EventIds,
           cases[e].resolved
    PROVE  /\ cases'[e] = cases[e] /\ status'[e] = status[e] /\ outcome'[e] = outcome[e]
           /\ \A t \in TierNums : tiers'[e][t] = tiers[e][t]
<1>1. cases[e].exists /\ status[e] \in {"Finalized", "Voided"}
  BY DEF CaseMatchesStatus
<1>2. ~Live(e, 1) /\ ~Live(e, 2)
  BY DEF Live
<1>3. \A t \in TierNums : tiers'[e][t] = tiers[e][t]
  <2> SUFFICES ASSUME NEW t \in TierNums PROVE tiers'[e][t] = tiers[e][t]
    OBVIOUS
  <2>1. ~Live(e, t) /\ ~Opens(e, t)
    BY <1>1, <1>2 DEF TierNums, Opens
  <2> QED BY <2>1, TierSteps DEF Commits, Reveals, Draws, Votes
<1>4. cases'[e] = cases[e]
  <2>1. ~Filed(e) /\ ~Closed(e) /\ ~Escalated(e)
    BY <1>1, <1>2 DEF Filed, Closed, Escalated
  <2> QED BY <2>1, CaseSteps DEF Undisputed
<1>5. status'[e] = status[e] /\ outcome'[e] = outcome[e]
  <2>1. [RegNext]_regVars
    BY LadderStep
  <2> QED BY <1>1, <2>1, EventStep DEF Created, Observed, SubmitObservation, MaySubmit, Observing,
                          Unchallenged, Ruled, Moved, Untouched
<1> QED BY <1>3, <1>4, <1>5

(* The present tier of an open case has no supermajority, and that of a     *)
(* case with an answer has one, for the registry's outcome and no other.    *)
THEOREM TalliesDecideCases == Spec => []TalliesDecide
<1>1. Init => TalliesDecide
  BY DEF Init, DMInit, NoCase, TalliesDecide, Decided
<1>2. RegTypeOK /\ CaseTypeOK /\ CaseTypeOK' /\ CaseMatchesStatus /\ TierShape
      /\ TierCountsAgree /\ TierCountsAgree' /\ TalliesDecide /\ [Next]_vars
         => TalliesDecide'
  <2> SUFFICES ASSUME RegTypeOK, CaseTypeOK, CaseTypeOK', CaseMatchesStatus,
                      TierShape, TierCountsAgree, TierCountsAgree', TalliesDecide, [Next]_vars,
                      NEW e \in EventIds
               PROVE  Decided(cases'[e], status'[e], outcome'[e], tiers'[e][cases'[e].tier])
    BY DEF TalliesDecide
  <2> DEFINE t == cases'[e].tier
             new == tiers'[e][t]
  <2>0. /\ Decided(cases[e], status[e], outcome[e], tiers[e][cases[e].tier])
        /\ cases[e] \in CaseRecord /\ cases'[e] \in CaseRecord
    BY DEF CaseTypeOK, TalliesDecide
  <2>1. t \in TierNums /\ new \in TierRecord /\ tiers[e][t] \in TierRecord
    BY CaseTypes DEF CaseTypeOK
  <2>2. Counted(tiers[e][t]) /\ Counted(new)
    BY <2>1, CountsOfTiers, CountsOfTiersNext
  <2>3. ASSUME NEW b \in BOOLEAN, new.committee # {}, Tally(new, b) = 0
        PROVE  ~Agrees(new, b)
    <3>1. IsFiniteSet(new.committee)
      BY <2>1, ResolversAssumption, TierFields, FS_Subset
    <3>2. Cardinality(new.committee) \in Nat \ {0}
      BY <2>3, <3>1, FS_EmptySet, FS_CardinalityType
    <3> HIDE DEF new
    <3>3. ~(0 * 100 >= Cardinality(new.committee) * 66)
      BY <3>2
    <3> QED BY <2>3, <3>3 DEF Agrees
  <2>4. CASE cases[e].resolved
    <3>1. cases'[e] = cases[e] /\ status'[e] = status[e] /\ outcome'[e] = outcome[e]
      BY <2>4, ClosedStays
    <3>2. tiers'[e][cases[e].tier] = tiers[e][cases[e].tier]
      BY <2>1, <2>4, <3>1, ClosedStays
    <3> QED BY <2>0, <2>4, <3>1, <3>2 DEF Decided
  <2>5. CASE ~cases[e].resolved /\ cases'[e].resolved
    <3>1. SUFFICES ASSUME status'[e] = "Finalized"
                   PROVE  /\ new.committee # {}
                          /\ Agrees(new, outcome'[e].outcome)
                          /\ ~Agrees(new, ~outcome'[e].outcome)
      BY <2>5 DEF Decided
    <3>2. cases[e].exists /\ Closed(e)
      <4>1. ~Filed(e) /\ ~Escalated(e) /\ ~Undisputed(e)
        BY <2>0, <2>5 DEF Filed, Escalated, Undisputed, CaseRecord
      <4>2. Closed(e)
        BY <4>1, CaseSteps
      <4> QED BY <4>2 DEF Closed, CaseMatchesStatus
    <3>3. t = cases[e].tier
      BY <2>0, <3>2 DEF Closed, CaseRecord
    <3>4. Votes(e, t)
      BY <2>5, <3>1, <3>2, <3>3, AnswersComeByVote
    <3> HIDE DEF t
    <3>5. PICK r \in Resolvers, b \in BOOLEAN :
            /\ MayVote(tiers[e][t], r)
            /\ tiers'[e][t] = Voted(tiers[e][t], r, b)
            /\ \/ UNCHANGED regVars /\ CaseStays
               \/ \E d \in BOOLEAN : Rules(e, t, d)
      BY <3>4 DEF Votes
    <3>6. new.committee # {}
      <4>1. Voted(tiers[e][t], r, b).committee = tiers[e][t].committee
        BY <2>1, VotedFields
      <4> QED BY <3>5, <4>1 DEF MayVote
    <3>7. PICK d \in BOOLEAN : Rules(e, t, d)
      BY <2>5, <3>5 DEF CaseStays
    <3>8. outcome'[e].outcome = d
      BY <3>7 DEF Rules, FinalizeFromDispute, SetFinalized, ShortPayload, RegTypeOK
    <3>9. Agrees(new, d)
      BY <3>7 DEF Rules
    <3>10. ~Agrees(new, ~d)
      BY <2>1, <2>2, <3>6, <3>9, OneSideWins
    <3> QED BY <3>6, <3>8, <3>9, <3>10
  <2>6. CASE ~cases'[e].resolved
    <3>1. SUFFICES ASSUME cases'[e].exists, new.committee # {}, NEW b \in BOOLEAN
                   PROVE  ~Agrees(new, b)
      BY <2>6 DEF Decided
    <3>2. CASE Filed(e) \/ Escalated(e)
      <4>1. tiers[e][t] = NewTier /\ ~Live(e, t)
        <5>1. CASE Filed(e)
          BY <2>1, <5>1 DEF Filed, TierShape, Live
        <5>2. CASE Escalated(e)
          <6>1. t = 2 /\ Live(e, 1)
            BY <2>0, <5>2 DEF Escalated, CaseRecord
          <6> QED BY <6>1 DEF TierShape, Live
        <5> QED BY <3>2, <5>1, <5>2
      <4> HIDE DEF t
      <4>2. new = OpenedTier(NewTier, t)
        BY <2>1, <3>1, <4>1, TierSteps, NewTierFields, OpensEmpty
           DEF Commits, Reveals, Draws, Votes
      <4>3. Tally(new, b) = 0
        BY <2>1, <4>2, RecordTypes, OpenedFields, NewTierFields DEF Tally
      <4> QED BY <2>3, <3>1, <4>3
    <3>3. CASE Undisputed(e)
      <4>1. cases'[e] = cases[e] /\ Live(e, t) /\ ~Opens(e, t)
        BY <2>6, <3>1, <3>3 DEF Undisputed, Live, Opens
      <4>2. tiers[e][t].committee # {} => ~Agrees(tiers[e][t], b)
        BY <2>0, <4>1 DEF Decided, Live
      <4> HIDE DEF t
      <4>3. CASE new = tiers[e][t]
        BY <3>1, <4>2, <4>3
      <4>4. CASE Commits(e, t) \/ Reveals(e, t)
        <5>1. /\ new.committee = tiers[e][t].committee
              /\ new.trueVotes = tiers[e][t].trueVotes
              /\ new.falseVotes = tiers[e][t].falseVotes
          BY <2>1, <4>4, CommittedFields, RevealedFields DEF Commits, Reveals
        <5> QED BY <3>1, <4>2, <5>1 DEF Agrees, Tally
      <4>5. CASE Draws(e, t)
        <5>1. PICK c \in SUBSET Resolvers : new = Drawn(tiers[e][t], c)
          BY <2>1, <4>5, Drawables DEF Draws
        <5>2. tiers[e][t].committee = {}
          BY <2>1, <4>5 DEF Draws, TierShape
        <5>3. VotesFor(tiers[e][t], b) = {}
          BY <5>2 DEF VotesFor
        <5>4. Tally(tiers[e][t], b) = 0
          BY <2>2, <5>3, FS_EmptySet DEF Counted
        <5>5. Tally(new, b) = 0
          BY <2>1, <5>1, <5>4, DrawnFields DEF Tally
        <5> QED BY <2>3, <3>1, <5>5
      <4>6. CASE Votes(e, t)
        <5>1. \/ ~HasConverged(new)
              \/ CaseCloses(e)
          BY <4>6 DEF Votes, Rules
        <5>2. ~CaseCloses(e)
          BY <2>0, <2>6 DEF CaseCloses, CaseTypeOK, CaseRecord
        <5> QED BY <5>1, <5>2 DEF HasConverged
      <4> QED BY <2>1, <4>1, <4>3, <4>4, <4>5, <4>6, TierSteps
    <3> QED BY <2>6, <3>2, <3>3, CaseSteps, <2>0 DEF Closed, CaseRecord
  <2> QED BY <2>4, <2>5, <2>6
<1> QED BY <1>1, <1>2, LadderRegTypes, CaseTypeCorrect, CasesMatch, TierShapes,
           TierCountsAreRight, PTL DEF Spec

(* A tier in progress has no supermajority and a case that was answered was *)
(* answered by one, whatever the pool, the committee and the order of votes. *)
THEOREM AgreementIsDecisive == Spec => []AgreementDecides
<1>1. RegTypeOK /\ CaseTypeOK /\ TierCountsAgree /\ TalliesDecide => AgreementDecides
  <2> SUFFICES ASSUME RegTypeOK, CaseTypeOK, TierCountsAgree, TalliesDecide, NEW e \in EventIds
               PROVE  LET tier == tiers[e][cases[e].tier] IN
                      /\ cases[e].exists /\ ~cases[e].resolved /\ tier.committee # {} =>
                            \A b \in BOOLEAN : ~Supermajority(tier, b)
                      /\ cases[e].resolved /\ status[e] = "Finalized" =>
                            /\ tier.committee # {}
                            /\ Supermajority(tier, outcome[e].outcome)
                            /\ ~Supermajority(tier, ~outcome[e].outcome)
    BY DEF AgreementDecides
  <2>1. outcome[e].outcome \in BOOLEAN
    BY PayloadFacts DEF RegTypeOK
  <2>2. Decided(cases[e], status[e], outcome[e], tiers[e][cases[e].tier])
    BY DEF TalliesDecide
  <2> DEFINE b == outcome[e].outcome
             tier == tiers[e][cases[e].tier]
  <2>3. \A d \in BOOLEAN : Supermajority(tier, d) <=> Agrees(tier, d)
    BY AgreesIsSupermajority
  <2>4. b \in BOOLEAN /\ (~b) \in BOOLEAN
    BY <2>1
  <2>5. /\ cases[e].exists /\ ~cases[e].resolved /\ tier.committee # {} =>
              \A d \in BOOLEAN : ~Agrees(tier, d)
        /\ cases[e].resolved /\ status[e] = "Finalized" =>
              tier.committee # {} /\ Agrees(tier, b) /\ ~Agrees(tier, ~b)
    BY <2>2 DEF Decided
  <2> HIDE DEF b, tier
  <2>6. /\ cases[e].exists /\ ~cases[e].resolved /\ tier.committee # {} =>
              \A d \in BOOLEAN : ~Supermajority(tier, d)
        /\ cases[e].resolved /\ status[e] = "Finalized" =>
              tier.committee # {} /\ Supermajority(tier, b) /\ ~Supermajority(tier, ~b)
    BY <2>3, <2>4, <2>5
  <2> QED BY <2>6 DEF b, tier
<1> QED BY <1>1, LadderRegTypes, CaseTypeCorrect, TierCountsAreRight, TalliesDecideCases, PTL

-----------------------------------------------------------------------------
(* The accounts.  What an open case holds in escrow, by its record and its  *)
(* tier; by the tallies, it is a bond for every vote counted.               *)
Voters(tier) == {r \in Resolvers : tier.votes[r] # "NotVoted"}

EscrowOf(c, tier) ==
    IF c.exists /\ ~c.resolved
    THEN (IF c.hasOriginalProposal THEN BondUnit ELSE 0)
         + Cardinality(Voters(tier)) * TierBond(c.tier)
    ELSE 0

LEMMA EscrowIs ==
    ASSUME NEW e \in EventIds
    PROVE  Escrow(e) = EscrowOf(cases[e], tiers[e][cases[e].tier])
  BY DEF Escrow, EscrowOf, Voters

LEMMA Bonds == /\ BondUnit \in Nat \ {0} /\ BondUnit \div 3 \in Nat /\ BondUnit \div 3 <= BondUnit
               /\ \A t \in TierNums : TierBond(t) \in Nat \ {0}
<1>1. BondUnit \in Nat \ {0}
  BY DisputeAssumption
<1>2. \A t \in TierNums : TierBond(t) = 3 * BondUnit \/ TierBond(t) = 8 * BondUnit
  BY DEF TierBond
<1> QED BY <1>1, <1>2

LEMMA VotersCounted ==
    ASSUME NEW tier \in TierRecord, Counted(tier), NEW b \in BOOLEAN
    PROVE  /\ Voters(tier) = VotesFor(tier, b) \cup VotesFor(tier, ~b)
           /\ Voters(tier) \subseteq tier.committee
           /\ Tally(tier, b) \in Nat /\ Tally(tier, ~b) \in Nat
           /\ Cardinality(Voters(tier)) = Tally(tier, b) + Tally(tier, ~b)
<1> DEFINE y == VotesFor(tier, b)
           z == VotesFor(tier, ~b)
<1>1. IsFiniteSet(y) /\ IsFiniteSet(z) /\ Cardinality(y) \in Nat /\ Cardinality(z) \in Nat
  BY VotersFinite
<1>2. y \cap z = {}
  BY VoteForDistinct DEF VotesFor
<1>3. Voters(tier) \subseteq tier.committee
  BY DEF Counted, Voters
<1>4. \A r \in Resolvers : tier.votes[r] \in {"NotVoted", VoteFor(b), VoteFor(~b)}
  BY TierFields DEF VoteFor
<1>5. VoteFor(b) # "NotVoted" /\ VoteFor(~b) # "NotVoted"
  BY VoteForDistinct
<1>6. Voters(tier) = y \cup z
  BY <1>3, <1>4, <1>5, TierFields DEF Voters, VotesFor
<1>7. Tally(tier, b) = Cardinality(y) /\ Tally(tier, ~b) = Cardinality(z)
  BY DEF Counted
<1>8. Cardinality(y \cup z) = Cardinality(y) + Cardinality(z)
  <2> HIDE DEF y, z
  <2>1. Cardinality(y \cap z) = 0
    BY <1>2, FS_EmptySet
  <2>2. Cardinality(y \cup z) = Cardinality(y) + Cardinality(z) - Cardinality(y \cap z)
    BY <1>1, FS_Union
  <2> QED BY <1>1, <2>1, <2>2
<1> QED BY <1>1, <1>3, <1>6, <1>7, <1>8

(* The shares of a ruling: they are whole, none is negative, and together   *)
(* they are the bonds of both sides less what is burnt.                     *)
LEMMA SharesOfRuling ==
    ASSUME NEW tier \in TierRecord, Counted(tier), tier.committee # {},
           NEW b \in BOOLEAN, Agrees(tier, b), NEW t \in TierNums
    PROVE  /\ BurnShare(tier, t, b) \in Nat
           /\ PerWinner(tier, t, b) \in Nat
           /\ TreasuryDust(tier, t, b) \in Nat
           /\ Tally(tier, b) * (TierBond(t) + PerWinner(tier, t, b)) + TreasuryDust(tier, t, b)
                + BurnShare(tier, t, b)
              = Cardinality(Voters(tier)) * TierBond(t)
<1> DEFINE w == Tally(tier, b)
           l == Tally(tier, ~b)
           k == TierBond(t)
           bs == BurnShare(tier, t, b)
           rp == RewardPool(tier, t, b)
           per == PerWinner(tier, t, b)
<1>1. w \in Nat \ {0} /\ l \in Nat /\ k \in Nat
  BY OneSideWins, Bonds
<1>2. l * k \in Nat
  <2> HIDE DEF l, k
  <2> QED BY <1>1, TimesNat
<1>3. bs = (l * k) \div 3 /\ rp = l * k - 2 * bs
  BY DEF BurnShare, RewardPool, LosingPool
<1>4. per = rp \div w /\ TreasuryDust(tier, t, b) = bs + rp - per * w
  BY DEF PerWinner, TreasuryDust
<1>5. Cardinality(Voters(tier)) = w + l
  BY VotersCounted
<1> HIDE DEF w, l, k, bs, rp, per
<1>6. bs \in Nat /\ bs * 3 <= l * k
  BY <1>2, <1>3, DivFacts
<1>7. rp \in Nat
  BY <1>2, <1>3, <1>6
<1>8. per \in Nat /\ per * w <= rp /\ per * w \in Nat
  BY <1>1, <1>4, <1>7, DivFacts, TimesNat
<1>9. bs + rp - per * w \in Nat
  BY <1>6, <1>7, <1>8
<1>10. w * (k + per) = w * k + per * w /\ (w + l) * k = w * k + l * k /\ w * k \in Int
  BY <1>1, <1>8, TimesFacts
<1>11. w * (k + per) + (bs + rp - per * w) + bs = (w + l) * k
  BY <1>2, <1>3, <1>6, <1>8, <1>10
<1> QED BY <1>4, <1>5, <1>6, <1>8, <1>9, <1>11 DEF w, l, k, bs, rp, per

LEMMA CommitteePayNat ==
    ASSUME NEW tier \in TierRecord, Counted(tier), tier.committee # {},
           NEW b \in BOOLEAN, Agrees(tier, b), NEW t \in TierNums, NEW a \in Accounts
    PROVE  CommitteePay(tier, t, b, a) \in Nat
  BY SharesOfRuling, Bonds DEF CommitteePay

LEMMA CommitteePaysOut ==
    ASSUME NEW tier \in TierRecord, Counted(tier), tier.committee # {},
           NEW b \in BOOLEAN, Agrees(tier, b), NEW t \in TierNums
    PROVE  SumFunction([a \in Accounts |-> CommitteePay(tier, t, b, a)])
             + BurnShare(tier, t, b) = Cardinality(Voters(tier)) * TierBond(t)
<1> DEFINE k == TierBond(t) + PerWinner(tier, t, b)
           d == TreasuryDust(tier, t, b)
           W == VotesFor(tier, b)
           f == [a \in Accounts |-> CommitteePay(tier, t, b, a)]
           g == [a \in Accounts |-> IF a \in W THEN k ELSE 0]
           h == [a \in Accounts |-> IF a = Treasury THEN d ELSE 0]
<1>1. IsFiniteSet(Accounts) /\ Treasury \in Accounts /\ Resolvers \subseteq Accounts
  BY DisputeAssumption
<1>2. k \in Nat /\ d \in Nat
  BY SharesOfRuling, Bonds
<1>3. W \in SUBSET Accounts
  BY <1>1, VotersFinite
<1>4. f \in [Accounts -> Int]
  BY CommitteePayNat
<1>5. \A a \in Accounts : f[a] = g[a] + h[a]
  BY DEF CommitteePay, VotesFor
<1>6. g \in [Accounts -> Int] /\ h \in [Accounts -> Int]
      /\ (\A a \in Accounts : g[a] = IF a \in W THEN k ELSE 0)
      /\ (\A a \in Accounts : h[a] = IF a = Treasury THEN d ELSE 0)
  BY <1>2
<1>7. Tally(tier, b) = Cardinality(W) /\ Tally(tier, b) \in Nat
  BY VotersCounted DEF Counted
<1> HIDE DEF k, d, W, f, g, h
<1>8. SumFunction(g) = k * Cardinality(W)
  BY <1>1, <1>2, <1>3, <1>6, TotalShares
<1>9. SumFunction(h) = d
  BY <1>1, <1>2, <1>6, TotalOfOne
<1>10. SumFunction(f) = SumFunction(g) + SumFunction(h)
  <2>1. f \in [Accounts -> Int] /\ g \in [Accounts -> Int] /\ h \in [Accounts -> Int]
    BY <1>4, <1>6
  <2> QED BY <1>1, <1>5, <2>1, TotalCombined
<1>11. SumFunction(f) = Tally(tier, b) * k + d
  BY <1>2, <1>7, <1>8, <1>9, <1>10, TimesFacts
<1>12. Tally(tier, b) * k + d + BurnShare(tier, t, b) = Cardinality(Voters(tier)) * TierBond(t)
  BY SharesOfRuling DEF k, d
<1> QED BY <1>11, <1>12 DEF f

(* The disputer's bond goes back, or to the treasury and the burn address.  *)
BondOf(c) == IF c.hasOriginalProposal THEN BondUnit ELSE 0

LEMMA DisputerPaysOut ==
    ASSUME NEW c \in CaseRecord, NEW b \in BOOLEAN
    PROVE  /\ \A a \in Accounts : DisputerPay(c, b, a) \in Nat
           /\ SumFunction([a \in Accounts |-> DisputerPay(c, b, a)])
                + (IF Forfeited(c, b) THEN BondUnit \div 3 ELSE 0) = BondOf(c)
<1> DEFINE y == IF DisputerRight(c, b) THEN c.disputer ELSE Treasury
           k == IF DisputerRight(c, b) THEN BondUnit
                ELSE IF Forfeited(c, b) THEN BondUnit - BondUnit \div 3 ELSE 0
           f == [a \in Accounts |-> DisputerPay(c, b, a)]
<1>1. IsFiniteSet(Accounts) /\ y \in Accounts
  BY DisputeAssumption, CaseTypes
<1>2. k \in Nat /\ k \in Int
  BY Bonds
<1>3. \A a \in Accounts : DisputerPay(c, b, a) = IF a = y THEN k ELSE 0
  BY Bonds DEF DisputerPay, Forfeited
<1>4. f \in [Accounts -> Int] /\ \A a \in Accounts : f[a] = IF a = y THEN k ELSE 0
  BY <1>2, <1>3
<1>5. k + (IF Forfeited(c, b) THEN BondUnit \div 3 ELSE 0) = BondOf(c)
  BY Bonds DEF Forfeited, DisputerRight, BondOf
<1> HIDE DEF y, k, f
<1>6. SumFunction(f) = k
  BY <1>1, <1>2, <1>4, TotalOfOne
<1> QED BY <1>2, <1>3, <1>5, <1>6 DEF f

-----------------------------------------------------------------------------
EscrowNow == [e \in EventIds |-> EscrowOf(cases[e], tiers[e][cases[e].tier])]

Credits == SumFunction(pendingWithdrawals)
Escrows == SumFunction(EscrowNow)

LEMMA SolventIs == Solvent <=> balance = Credits + Escrows
<1>1. [e \in EventIds |-> Escrow(e)] = EscrowNow
  BY EscrowIs DEF EscrowNow
<1> QED BY <1>1 DEF Solvent, Credits, Escrows

LEMMA VotersCardinality ==
    ASSUME NEW tier \in TierRecord
    PROVE  IsFiniteSet(Voters(tier)) /\ Cardinality(Voters(tier)) \in Nat
<1>1. Voters(tier) \in SUBSET Resolvers
  BY DEF Voters
<1> QED BY <1>1, ResolversAssumption, FS_Subset, FS_CardinalityType

LEMMA EscrowOpen ==
    ASSUME NEW c \in CaseRecord, NEW tier \in TierRecord, c.exists, ~c.resolved
    PROVE  /\ EscrowOf(c, tier) = BondOf(c) + Cardinality(Voters(tier)) * TierBond(c.tier)
           /\ BondOf(c) \in Nat /\ Cardinality(Voters(tier)) * TierBond(c.tier) \in Nat
<1>1. Cardinality(Voters(tier)) \in Nat /\ TierBond(c.tier) \in Nat
  BY VotersCardinality, CaseTypes, Bonds
<1>2. Cardinality(Voters(tier)) * TierBond(c.tier) \in Nat
  BY <1>1, TimesNat
<1>3. BondOf(c) \in Nat
  BY Bonds DEF BondOf
<1> QED BY <1>2, <1>3 DEF EscrowOf, BondOf

LEMMA EscrowNat ==
    ASSUME NEW c \in CaseRecord, NEW tier \in TierRecord
    PROVE  EscrowOf(c, tier) \in Nat
<1>1. CASE c.exists /\ ~c.resolved
  BY <1>1, EscrowOpen
<1>2. CASE ~(c.exists /\ ~c.resolved)
  BY <1>2 DEF EscrowOf
<1> QED BY <1>1, <1>2

LEMMA EscrowNowType ==
    ASSUME CaseTypeOK
    PROVE  EscrowNow \in [EventIds -> Nat] /\ EscrowNow \in [EventIds -> Int]
<1>1. ASSUME NEW e \in EventIds
      PROVE  EscrowOf(cases[e], tiers[e][cases[e].tier]) \in Nat
  <2>1. cases[e] \in CaseRecord /\ tiers[e][cases[e].tier] \in TierRecord
    BY CaseTypes DEF CaseTypeOK
  <2> QED BY <2>1, EscrowNat
<1> QED BY <1>1 DEF EscrowNow

LEMMA EscrowNowTypeNext ==
    ASSUME CaseTypeOK'
    PROVE  EscrowNow' \in [EventIds -> Nat] /\ EscrowNow' \in [EventIds -> Int]
<1>1. ASSUME NEW e \in EventIds
      PROVE  EscrowOf(cases'[e], tiers'[e][cases'[e].tier]) \in Nat
  <2>1. cases'[e] \in CaseRecord /\ tiers'[e][cases'[e].tier] \in TierRecord
    BY CaseTypes DEF CaseTypeOK
  <2> QED BY <2>1, EscrowNat
<1> QED BY <1>1 DEF EscrowNow

(* Only the escrow of the event acted on changes.                           *)
LEMMA OneEscrowChanges ==
    ASSUME CaseTypeOK, CaseTypeOK', NEW f \in EventIds,
           \A e \in EventIds \ {f} : cases'[e] = cases[e] /\ tiers'[e] = tiers[e]
    PROVE  /\ Escrows' = Escrows + (EscrowOf(cases'[f], tiers'[f][cases'[f].tier])
                                    - EscrowOf(cases[f], tiers[f][cases[f].tier]))
           /\ Escrows \in Nat /\ Escrows' \in Nat
<1>1. /\ EscrowNow \in [EventIds -> Nat] /\ EscrowNow \in [EventIds -> Int]
      /\ EscrowNow' \in [EventIds -> Nat] /\ EscrowNow' \in [EventIds -> Int]
  BY EscrowNowType, EscrowNowTypeNext
<1>2. \A e \in EventIds \ {f} : EscrowNow'[e] = EscrowNow[e]
  BY DEF EscrowNow
<1>3. IsFiniteSet(EventIds)
  BY DisputeAssumption
<1>4. SumFunction(EscrowNow') = SumFunction(EscrowNow) + (EscrowNow'[f] - EscrowNow[f])
  BY <1>1, <1>2, <1>3, TotalChange
<1>5. SumFunction(EscrowNow) \in Nat /\ SumFunction(EscrowNow') \in Nat
  BY <1>1, <1>3, TotalNat
<1> QED BY <1>4, <1>5 DEF EscrowNow, Escrows

(* Credits added to the accounts, and nothing else, are added to the total. *)
LEMMA CreditsAdded ==
    ASSUME pendingWithdrawals \in [Accounts -> Nat], NEW p \in [Accounts -> Nat],
           pendingWithdrawals' = [a \in Accounts |-> pendingWithdrawals[a] + p[a]]
    PROVE  /\ pendingWithdrawals' \in [Accounts -> Nat]
           /\ Credits' = Credits + SumFunction(p)
           /\ Credits \in Nat /\ SumFunction(p) \in Nat
<1>1. pendingWithdrawals' \in [Accounts -> Nat]
  OBVIOUS
<1>2. /\ pendingWithdrawals \in [Accounts -> Int] /\ pendingWithdrawals' \in [Accounts -> Int]
      /\ p \in [Accounts -> Int]
  OBVIOUS
<1>3. IsFiniteSet(Accounts)
  BY DisputeAssumption
<1>4. \A a \in Accounts : pendingWithdrawals'[a] = pendingWithdrawals[a] + p[a]
  OBVIOUS
<1>5. SumFunction(pendingWithdrawals') = SumFunction(pendingWithdrawals) + SumFunction(p)
  BY <1>2, <1>3, <1>4, TotalCombined
<1>6. SumFunction(pendingWithdrawals) \in Nat /\ SumFunction(p) \in Nat
  BY <1>3, TotalNat
<1> QED BY <1>1, <1>5, <1>6 DEF Credits

(* What a committee that ends without an answer is paid back.               *)
LEMMA RefundsPayOut ==
    ASSUME CaseTypeOK, TierCountsAgree, NEW e \in EventIds, NEW t \in TierNums
    PROVE  /\ \A a \in Accounts : TierRefund(e, t, a) \in Nat
           /\ SumFunction([a \in Accounts |-> TierRefund(e, t, a)])
                = Cardinality(Voters(tiers[e][t])) * TierBond(t)
<1> DEFINE W == Voters(tiers[e][t])
           f == [a \in Accounts |-> TierRefund(e, t, a)]
<1>1. tiers[e][t] \in TierRecord /\ Counted(tiers[e][t])
  BY CountsOfTiers DEF CaseTypeOK
<1>2. W \subseteq tiers[e][t].committee /\ tiers[e][t].committee \in SUBSET Resolvers
  BY <1>1, VotersCounted, TierFields
<1>3. IsFiniteSet(Accounts) /\ W \in SUBSET Accounts /\ Cardinality(W) \in Nat
  BY <1>1, <1>2, VotersCardinality, DisputeAssumption
<1>4. TierBond(t) \in Nat
  BY Bonds
<1>5. \A a \in Accounts : TierRefund(e, t, a) = IF a \in W THEN TierBond(t) ELSE 0
  BY <1>2 DEF TierRefund, Voters
<1>6. f \in [Accounts -> Int] /\ \A a \in Accounts : f[a] = IF a \in W THEN TierBond(t) ELSE 0
  BY <1>4, <1>5
<1> HIDE DEF W, f
<1>7. SumFunction(f) = TierBond(t) * Cardinality(W)
  BY <1>3, <1>4, <1>6, TotalShares
<1>8. SumFunction(f) = Cardinality(W) * TierBond(t)
  BY <1>3, <1>4, <1>7, TimesFacts
<1> QED BY <1>4, <1>5, <1>8 DEF W, f

LEMMA NobodyVoted ==
    ASSUME NEW t \in TierNums
    PROVE  Voters(NewTier) = {} /\ Voters(OpenedTier(NewTier, t)) = {}
           /\ Cardinality(Voters(OpenedTier(NewTier, t))) * TierBond(t) = 0
<1>1. OpenedTier(NewTier, t).votes = NewTier.votes
  BY RecordTypes, OpenedFields
<1>2. Voters(NewTier) = {} /\ Voters(OpenedTier(NewTier, t)) = {}
  BY <1>1, NewTierFields DEF Voters
<1>3. TierBond(t) \in Nat
  BY Bonds
<1>4. 0 * TierBond(t) = 0
  BY <1>3
<1> QED BY <1>2, <1>4, FS_EmptySet

-----------------------------------------------------------------------------
(* The steps that move money, one lemma each.                               *)
AccountsOK == /\ pendingWithdrawals \in [Accounts -> Nat]
              /\ burned \in Nat
              /\ balance = Credits + Escrows

LEMMA CreditsKept ==
    ASSUME UNCHANGED pendingWithdrawals, AccountsOK
    PROVE  Credits' = Credits /\ Credits \in Nat
<1>1. IsFiniteSet(Accounts)
  BY DisputeAssumption
<1> QED BY <1>1, TotalNat DEF Credits, AccountsOK

LEMMA OpeningPays ==
    ASSUME CaseTypeOK, CaseTypeOK', TierShape, AccountsOK,
           NEW f \in EventIds, NEW c \in CaseRecord, c.exists, ~c.resolved, c.tier = 1,
           ~cases[f].exists, cases' = [cases EXCEPT ![f] = c],
           tiers' = [tiers EXCEPT ![f][1] = OpenedTier(tiers[f][1], 1)],
           UNCHANGED <<pendingWithdrawals, burned>>, balance' = balance + BondOf(c)
    PROVE  AccountsOK'
<1>1. 1 \in TierNums /\ tiers[f][1] = NewTier
  BY DEF TierNums, TierShape
<1>2. tiers'[f][1] = OpenedTier(NewTier, 1) /\ tiers'[f][1] \in TierRecord
  BY <1>1 DEF CaseTypeOK
<1>3. cases'[f] = c /\ \A e \in EventIds \ {f} : cases'[e] = cases[e] /\ tiers'[e] = tiers[e]
  BY DEF CaseTypeOK
<1>4. EscrowOf(cases[f], tiers[f][cases[f].tier]) = 0
  BY DEF EscrowOf
<1>5. EscrowOf(cases'[f], tiers'[f][cases'[f].tier]) = BondOf(c) /\ BondOf(c) \in Nat
  <2>1. /\ EscrowOf(c, tiers'[f][1]) =
              BondOf(c) + Cardinality(Voters(tiers'[f][1])) * TierBond(c.tier)
        /\ BondOf(c) \in Nat
    BY <1>2, EscrowOpen
  <2>2. Cardinality(Voters(tiers'[f][1])) * TierBond(1) = 0
    BY <1>1, <1>2, NobodyVoted
  <2> QED BY <1>3, <2>1, <2>2
<1>6. /\ Escrows' = Escrows + (EscrowOf(cases'[f], tiers'[f][cases'[f].tier])
                               - EscrowOf(cases[f], tiers[f][cases[f].tier]))
      /\ Escrows \in Nat /\ Escrows' \in Nat
  BY <1>3, OneEscrowChanges
<1>7. Escrows' = Escrows + BondOf(c)
  BY <1>4, <1>5, <1>6
<1>8. Credits' = Credits /\ Credits \in Nat
  BY CreditsKept
<1>9. balance' = Credits' + Escrows'
  BY <1>5, <1>6, <1>7, <1>8 DEF AccountsOK
<1> QED BY <1>9 DEF AccountsOK

LEMMA SeedingPaysNothing ==
    ASSUME CaseTypeOK, CaseTypeOK', AccountsOK, NEW f \in EventIds, NEW u \in TierNums,
           NEW tier \in TierRecord, tier.votes = tiers[f][u].votes,
           tiers' = [tiers EXCEPT ![f][u] = tier],
           UNCHANGED <<cases, pendingWithdrawals, balance, burned>>
    PROVE  AccountsOK'
<1>1. \A e \in EventIds, t \in TierNums : tiers'[e][t].votes = tiers[e][t].votes
  <2>1. tiers'[f][u] = tier
    BY DEF CaseTypeOK
  <2> QED BY <2>1, OtherTiersStay
<1>2. \A e \in EventIds, t \in TierNums : Voters(tiers'[e][t]) = Voters(tiers[e][t])
  BY <1>1 DEF Voters
<1>3. \A e \in EventIds : cases[e].tier \in TierNums
  BY CaseTypes DEF CaseTypeOK
<1>4. \A e \in EventIds : EscrowOf(cases'[e], tiers'[e][cases'[e].tier])
                            = EscrowOf(cases[e], tiers[e][cases[e].tier])
  BY <1>2, <1>3 DEF EscrowOf
<1>5. EscrowNow' = EscrowNow
  BY <1>4 DEF EscrowNow
<1>6. Escrows' = Escrows
  BY <1>5 DEF Escrows
<1>7. Credits' = Credits
  BY DEF Credits
<1> QED BY <1>6, <1>7 DEF AccountsOK

LEMMA NothingMoves ==
    ASSUME AccountsOK, UNCHANGED <<cases, tiers, pendingWithdrawals, balance, burned>>
    PROVE  AccountsOK'
<1>1. EscrowNow' = EscrowNow
  BY DEF EscrowNow
<1>2. Escrows' = Escrows /\ Credits' = Credits
  BY <1>1 DEF Escrows, Credits
<1> QED BY <1>2 DEF AccountsOK

(* A vote that decides nothing puts its bond into escrow.                   *)
LEMMA VoteBonds ==
    ASSUME CaseTypeOK, CaseTypeOK', AccountsOK, NEW f \in EventIds, NEW u \in TierNums,
           NEW r \in Resolvers, NEW b \in BOOLEAN, Live(f, u), MayVote(tiers[f][u], r),
           tiers' = [tiers EXCEPT ![f][u] = Voted(tiers[f][u], r, b)],
           balance' = balance + TierBond(u),
           UNCHANGED <<cases, pendingWithdrawals, burned>>
    PROVE  AccountsOK'
<1> DEFINE old == tiers[f][u]
           new == tiers'[f][u]
           n == Cardinality(Voters(old))
           k == TierBond(u)
<1>1. new = Voted(old, r, b) /\ old \in TierRecord /\ new \in TierRecord
  BY DEF CaseTypeOK
<1>2. /\ cases'[f] = cases[f] /\ cases[f] \in CaseRecord /\ cases[f].tier = u
      /\ \A e \in EventIds \ {f} : cases'[e] = cases[e] /\ tiers'[e] = tiers[e]
  BY DEF CaseTypeOK, Live
<1>3. Voters(new) = Voters(old) \cup {r} /\ r \notin Voters(old)
  <2>1. new.votes = [old.votes EXCEPT ![r] = VoteFor(b)]
    BY <1>1, VotedFields
  <2>2. VoteFor(b) # "NotVoted" /\ old.votes[r] = "NotVoted"
    BY VoteForDistinct DEF MayVote
  <2>3. old.votes \in [Resolvers -> {"NotVoted", "VotedTrue", "VotedFalse"}]
    BY <1>1, TierFields
  <2> HIDE DEF old, new
  <2> QED BY <2>1, <2>2, <2>3 DEF Voters
<1>4. Cardinality(Voters(new)) = n + 1 /\ n \in Nat
  BY <1>1, <1>3, VotersCardinality, FS_AddElement
<1>5. k \in Nat
  BY Bonds
<1>6. /\ EscrowOf(cases[f], old) = BondOf(cases[f]) + n * k
      /\ EscrowOf(cases[f], new) = BondOf(cases[f]) + (n + 1) * k
      /\ BondOf(cases[f]) \in Nat /\ n * k \in Nat
  BY <1>1, <1>2, <1>4, EscrowOpen DEF Live
<1>7. (n + 1) * k = n * k + k
  <2> HIDE DEF n, k
  <2>1. (n + 1) * k = n * k + 1 * k
    BY <1>4, <1>5, TimesFacts
  <2> QED BY <1>5, <2>1
<1>8. /\ Escrows' = Escrows + (EscrowOf(cases[f], new) - EscrowOf(cases[f], old))
      /\ Escrows \in Nat /\ Escrows' \in Nat
  BY <1>2, OneEscrowChanges
<1>9. Credits' = Credits /\ Credits \in Nat
  BY CreditsKept
<1>10. balance = Credits + Escrows /\ balance' = balance + k
  BY DEF AccountsOK
<1>11. balance' = Credits' + Escrows'
  <2> HIDE DEF n, k, old, new
  <2> QED BY <1>4, <1>5, <1>6, <1>7, <1>8, <1>9, <1>10
<1> QED BY <1>11 DEF AccountsOK

(* A vote that decides pays the whole escrow of the case, and the bond that *)
(* came with it, to accounts and to the burn address.                       *)
LEMMA RulingPays ==
    ASSUME CaseTypeOK, CaseTypeOK', TierCountsAgree, AccountsOK,
           NEW f \in EventIds, NEW u \in TierNums,
           NEW r \in Resolvers, NEW b \in BOOLEAN, Live(f, u), MayVote(tiers[f][u], r),
           tiers' = [tiers EXCEPT ![f][u] = Voted(tiers[f][u], r, b)],
           NEW d \in BOOLEAN, Agrees(Voted(tiers[f][u], r, b), d),
           ResolveTier(f, u, Voted(tiers[f][u], r, b), d)
    PROVE  AccountsOK'
<1> DEFINE old == tiers[f][u]
           new == Voted(tiers[f][u], r, b)
           c == cases[f]
           n == Cardinality(Voters(old))
           k == TierBond(u)
           pay == [a \in Accounts |-> CommitteePay(new, u, d, a)]
           bond == [a \in Accounts |-> DisputerPay(c, d, a)]
           p == [a \in Accounts |-> pay[a] + bond[a]]
           fire == IF Forfeited(c, d) THEN BondUnit \div 3 ELSE 0
           share == BurnShare(new, u, d)
<1>1. tiers'[f][u] = new /\ old \in TierRecord /\ new \in TierRecord
  BY DEF CaseTypeOK
<1>2. Counted(old) /\ Counted(new)
  BY <1>1, CountsOfTiers, VotedCounted
<1>3. new.committee # {}
  <2>1. new.committee = old.committee
    BY <1>1, VotedFields
  <2> QED BY <2>1 DEF MayVote
<1>4. c \in CaseRecord /\ c.tier = u /\ c.exists /\ ~c.resolved
  BY DEF CaseTypeOK, Live
<1>5. /\ cases' = [cases EXCEPT ![f].resolved = TRUE]
      /\ pendingWithdrawals' =
            [a \in Accounts |-> pendingWithdrawals[a] + CommitteePay(new, u, d, a)
                                                      + DisputerPay(c, d, a)]
      /\ burned' = burned + Burnt(new, u, c, d)
      /\ balance' = balance + k - Burnt(new, u, c, d)
  BY DEF ResolveTier
<1>6. /\ cases'[f].resolved
      /\ \A e \in EventIds \ {f} : cases'[e] = cases[e] /\ tiers'[e] = tiers[e]
  BY <1>4, <1>5 DEF CaseTypeOK, CaseRecord
<1>7. Voters(new) = Voters(old) \cup {r} /\ r \notin Voters(old)
  <2>1. new.votes = [old.votes EXCEPT ![r] = VoteFor(b)]
    BY <1>1, VotedFields
  <2>2. VoteFor(b) # "NotVoted" /\ old.votes[r] = "NotVoted"
    BY VoteForDistinct DEF MayVote
  <2>3. old.votes \in [Resolvers -> {"NotVoted", "VotedTrue", "VotedFalse"}]
    BY <1>1, TierFields
  <2> HIDE DEF old, new
  <2> QED BY <2>1, <2>2, <2>3 DEF Voters
<1>8. Cardinality(Voters(new)) = n + 1 /\ n \in Nat
  BY <1>1, <1>7, VotersCardinality, FS_AddElement
<1>9. k \in Nat
  BY Bonds
<1>10. \A a \in Accounts : CommitteePay(new, u, d, a) \in Nat /\ DisputerPay(c, d, a) \in Nat
  <2> HIDE DEF new, c
  <2> QED BY <1>1, <1>2, <1>3, <1>4, CommitteePayNat, DisputerPaysOut DEF new
<1>11. /\ SumFunction(pay) + share = Cardinality(Voters(new)) * k
       /\ SumFunction(bond) + fire = BondOf(c)
       /\ share \in Nat /\ fire \in Nat
  <2>1. SumFunction(pay) + share = Cardinality(Voters(new)) * k /\ share \in Nat
    BY <1>1, <1>2, <1>3, CommitteePaysOut, SharesOfRuling
  <2>2. SumFunction(bond) + fire = BondOf(c)
    BY <1>4, DisputerPaysOut
  <2>3. fire \in Nat
    BY Bonds
  <2> QED BY <2>1, <2>2, <2>3
<1>12. /\ pay \in [Accounts -> Int] /\ bond \in [Accounts -> Int] /\ p \in [Accounts -> Nat]
       /\ p \in [Accounts -> Int] /\ \A a \in Accounts : p[a] = pay[a] + bond[a]
  BY <1>10
<1>13. \A a \in Accounts : pendingWithdrawals[a] + CommitteePay(new, u, d, a)
                            + DisputerPay(c, d, a) = pendingWithdrawals[a] + p[a]
  <2> HIDE DEF new, c
  <2> QED BY <1>10 DEF AccountsOK
<1>14. pendingWithdrawals' = [a \in Accounts |-> pendingWithdrawals[a] + p[a]]
  <2> HIDE DEF p, new, c
  <2> QED BY <1>5, <1>13
<1>15. Burnt(new, u, c, d) = share + fire
  BY DEF Burnt
<1>16. /\ EscrowOf(c, old) = BondOf(c) + n * k
       /\ BondOf(c) \in Nat /\ n * k \in Nat
  BY <1>1, <1>4, EscrowOpen
<1>17. EscrowOf(cases'[f], tiers'[f][cases'[f].tier]) = 0
  BY <1>6 DEF EscrowOf
<1> HIDE DEF old, new, c, n, k, pay, bond, p, fire, share
<1>18. (n + 1) * k = n * k + k
  <2>1. (n + 1) * k = n * k + 1 * k
    BY <1>8, <1>9, TimesFacts
  <2> QED BY <1>9, <2>1
<1>19. SumFunction(p) = SumFunction(pay) + SumFunction(bond)
  <2>1. IsFiniteSet(Accounts)
    BY DisputeAssumption
  <2> QED BY <1>12, <2>1, TotalCombined
<1>20. /\ pendingWithdrawals' \in [Accounts -> Nat]
       /\ Credits' = Credits + SumFunction(p)
       /\ Credits \in Nat /\ SumFunction(p) \in Nat
  BY <1>12, <1>14, CreditsAdded DEF AccountsOK
<1>21. /\ Escrows' = Escrows + (0 - EscrowOf(c, old))
       /\ Escrows \in Nat /\ Escrows' \in Nat
  BY <1>4, <1>6, <1>17, OneEscrowChanges DEF c, old
<1>22. SumFunction(pay) \in Int /\ SumFunction(bond) \in Int
  <2>1. IsFiniteSet(Accounts)
    BY DisputeAssumption
  <2> QED BY <1>12, <2>1, TotalInt
<1>23. balance = Credits + Escrows /\ balance' = balance + k - (share + fire)
  BY <1>5, <1>15 DEF AccountsOK
<1>24. SumFunction(pay) + share = n * k + k
  BY <1>8, <1>11, <1>18
<1>25. balance' = Credits' + Escrows'
  BY <1>9, <1>11, <1>16, <1>19, <1>20, <1>21, <1>22, <1>23, <1>24
<1>26. burned' \in Nat
  BY <1>5, <1>11, <1>15 DEF AccountsOK
<1> QED BY <1>20, <1>25, <1>26 DEF AccountsOK

(* A tier that times out gives every bond of it back.                       *)
LEMMA EscalationPays ==
    ASSUME CaseTypeOK, CaseTypeOK', TierShape, TierCountsAgree, AccountsOK,
           NEW f \in EventIds, EscalateTier2(f)
    PROVE  AccountsOK'
<1> DEFINE c == cases[f]
           p == [a \in Accounts |-> TierRefund(f, 1, a)]
           n == Cardinality(Voters(tiers[f][1]))
           k == TierBond(1)
<1>0. 1 \in TierNums /\ 2 \in TierNums
  BY DEF TierNums
<1>1. c \in CaseRecord /\ c.tier = 1 /\ c.exists /\ ~c.resolved
  BY DEF EscalateTier2, TierTimedOut, InTier, CaseTypeOK
<1>2. tiers[f][2] = NewTier /\ tiers[f][1] \in TierRecord
  BY <1>0, <1>1 DEF TierShape, CaseTypeOK
<1>3. /\ cases' = [cases EXCEPT ![f].tier = 2]
      /\ tiers' = [tiers EXCEPT ![f][2] = OpenedTier(NewTier, 2)]
      /\ pendingWithdrawals' = [a \in Accounts |-> pendingWithdrawals[a] + p[a]]
      /\ UNCHANGED <<balance, burned>>
  BY <1>2 DEF EscalateTier2, OpenTier
<1>4. /\ cases'[f].exists /\ ~cases'[f].resolved /\ cases'[f].tier = 2
      /\ cases'[f].hasOriginalProposal = c.hasOriginalProposal
      /\ \A e \in EventIds \ {f} : cases'[e] = cases[e] /\ tiers'[e] = tiers[e]
  BY <1>1, <1>3 DEF CaseTypeOK, CaseRecord
<1>5. tiers'[f][2] = OpenedTier(NewTier, 2) /\ tiers'[f][2] \in TierRecord
      /\ cases'[f] \in CaseRecord
  BY <1>0, <1>3 DEF CaseTypeOK
<1>6. EscrowOf(cases'[f], tiers'[f][cases'[f].tier]) = BondOf(c)
  <2>1. EscrowOf(cases'[f], tiers'[f][2])
          = BondOf(cases'[f]) + Cardinality(Voters(tiers'[f][2])) * TierBond(2)
    BY <1>4, <1>5, EscrowOpen
  <2>2. Cardinality(Voters(tiers'[f][2])) * TierBond(2) = 0
    BY <1>0, <1>5, NobodyVoted
  <2>3. BondOf(cases'[f]) = BondOf(c) /\ BondOf(c) \in Nat
    BY <1>4, Bonds DEF BondOf
  <2> QED BY <1>4, <2>1, <2>2, <2>3
<1>7. EscrowOf(c, tiers[f][c.tier]) = BondOf(c) + n * k /\ BondOf(c) \in Nat /\ n * k \in Nat
  BY <1>1, <1>2, EscrowOpen
<1>8. p \in [Accounts -> Nat] /\ SumFunction(p) = n * k
  BY <1>0, RefundsPayOut
<1> HIDE DEF p, n, k
<1>9. /\ pendingWithdrawals' \in [Accounts -> Nat]
      /\ Credits' = Credits + SumFunction(p)
      /\ Credits \in Nat /\ SumFunction(p) \in Nat
  BY <1>3, <1>8, CreditsAdded DEF AccountsOK
<1>10. /\ Escrows' = Escrows + (BondOf(c) - EscrowOf(c, tiers[f][c.tier]))
       /\ Escrows \in Nat /\ Escrows' \in Nat
  BY <1>4, <1>6, OneEscrowChanges
<1> HIDE DEF c
<1>11. balance' = Credits' + Escrows'
  BY <1>3, <1>7, <1>8, <1>9, <1>10 DEF AccountsOK
<1> QED BY <1>3, <1>9, <1>11 DEF AccountsOK

LEMMA VoidingPays ==
    ASSUME CaseTypeOK, CaseTypeOK', TierCountsAgree, AccountsOK,
           NEW f \in EventIds, VoidAfterTier2Timeout(f)
    PROVE  AccountsOK'
<1> DEFINE c == cases[f]
           q == [a \in Accounts |-> TierRefund(f, 2, a)]
           g == [a \in Accounts |-> IF a = c.disputer THEN BondOf(c) ELSE 0]
           p == [a \in Accounts |-> q[a] + g[a]]
           n == Cardinality(Voters(tiers[f][2]))
           k == TierBond(2)
<1>0. 2 \in TierNums /\ IsFiniteSet(Accounts)
  BY DisputeAssumption DEF TierNums
<1>1. c \in CaseRecord /\ c.tier = 2 /\ c.exists /\ ~c.resolved /\ c.disputer \in Accounts
  BY CaseTypes DEF VoidAfterTier2Timeout, TierTimedOut, InTier, CaseTypeOK
<1>2. tiers[f][2] \in TierRecord
  BY <1>0 DEF CaseTypeOK
<1>3. BondOf(c) \in Nat
  BY Bonds DEF BondOf
<1>4. q \in [Accounts -> Nat] /\ SumFunction(q) = n * k
  BY <1>0, RefundsPayOut
<1>5. g \in [Accounts -> Nat] /\ \A a \in Accounts : g[a] = IF a = c.disputer THEN BondOf(c) ELSE 0
  BY <1>3
<1>6. /\ cases' = [cases EXCEPT ![f].resolved = TRUE]
      /\ pendingWithdrawals' = [a \in Accounts |-> pendingWithdrawals[a] + TierRefund(f, 2, a)
            + (IF c.hasOriginalProposal /\ a = c.disputer THEN BondUnit ELSE 0)]
      /\ UNCHANGED <<tiers, balance, burned>>
  BY DEF VoidAfterTier2Timeout
<1>7. \A a \in Accounts : g[a] = IF c.hasOriginalProposal /\ a = c.disputer THEN BondUnit ELSE 0
  BY DEF BondOf
<1>8. \A a \in Accounts : q[a] = TierRefund(f, 2, a) /\ q[a] \in Nat /\ g[a] \in Nat
  BY <1>4, <1>5
<1>9. p \in [Accounts -> Nat] /\ \A a \in Accounts : p[a] = q[a] + g[a]
  BY <1>8
<1> HIDE DEF q, g, p, n, k
<1>10. pendingWithdrawals' = [a \in Accounts |-> pendingWithdrawals[a] + p[a]]
  <2>1. \A a \in Accounts : pendingWithdrawals[a] \in Nat
    BY DEF AccountsOK
  <2>2. \A a \in Accounts : pendingWithdrawals[a] + TierRefund(f, 2, a)
            + (IF c.hasOriginalProposal /\ a = c.disputer THEN BondUnit ELSE 0)
          = pendingWithdrawals[a] + p[a]
    <3> SUFFICES ASSUME NEW a \in Accounts
                 PROVE  pendingWithdrawals[a] + TierRefund(f, 2, a)
                          + (IF c.hasOriginalProposal /\ a = c.disputer THEN BondUnit ELSE 0)
                        = pendingWithdrawals[a] + p[a]
      OBVIOUS
    <3>1. p[a] = TierRefund(f, 2, a)
                 + (IF c.hasOriginalProposal /\ a = c.disputer THEN BondUnit ELSE 0)
      BY <1>7, <1>8, <1>9
    <3> QED BY <1>7, <1>8, <2>1, <3>1
  <2> QED BY <1>6, <2>2
<1>11. SumFunction(g) = BondOf(c)
  <2>1. g \in [Accounts -> Int] /\ BondOf(c) \in Int
    BY <1>3, <1>5
  <2> QED BY <1>0, <1>1, <1>5, <2>1, TotalOfOne
<1>12. SumFunction(p) = SumFunction(q) + SumFunction(g)
  <2>1. q \in [Accounts -> Int] /\ g \in [Accounts -> Int] /\ p \in [Accounts -> Int]
    BY <1>4, <1>5, <1>9
  <2> QED BY <1>0, <1>9, <2>1, TotalCombined
<1>13. /\ pendingWithdrawals' \in [Accounts -> Nat]
       /\ Credits' = Credits + SumFunction(p)
       /\ Credits \in Nat /\ SumFunction(p) \in Nat
  BY <1>9, <1>10, CreditsAdded DEF AccountsOK
<1>14. /\ cases'[f].resolved
       /\ \A e \in EventIds \ {f} : cases'[e] = cases[e] /\ tiers'[e] = tiers[e]
  BY <1>1, <1>6 DEF CaseTypeOK, CaseRecord
<1>15. EscrowOf(cases'[f], tiers'[f][cases'[f].tier]) = 0
  BY <1>14 DEF EscrowOf
<1>16. EscrowOf(c, tiers[f][c.tier]) = BondOf(c) + n * k /\ n * k \in Nat
  BY <1>1, <1>2, EscrowOpen DEF n, k
<1>17. /\ Escrows' = Escrows + (0 - EscrowOf(c, tiers[f][c.tier]))
       /\ Escrows \in Nat /\ Escrows' \in Nat
  BY <1>14, <1>15, OneEscrowChanges
<1> HIDE DEF c
<1>18. balance' = Credits' + Escrows'
  BY <1>3, <1>4, <1>6, <1>11, <1>12, <1>13, <1>16, <1>17 DEF AccountsOK
<1> QED BY <1>6, <1>13, <1>18 DEF AccountsOK

LEMMA CreditsEscrowsInt ==
    ASSUME CaseTypeOK, AccountsOK
    PROVE  Credits \in Nat /\ Escrows \in Nat /\ Credits \in Int /\ Escrows \in Int
<1>1. IsFiniteSet(Accounts) /\ IsFiniteSet(EventIds)
  BY DisputeAssumption
<1>2. pendingWithdrawals \in [Accounts -> Nat] /\ EscrowNow \in [EventIds -> Nat]
  BY EscrowNowType DEF AccountsOK
<1>3. Credits \in Nat
  BY <1>1, <1>2, TotalNat DEF Credits
<1>4. Escrows \in Nat
  BY <1>1, <1>2, TotalNat DEF Escrows
<1> QED BY <1>3, <1>4

LEMMA WithdrawPays ==
    ASSUME CaseTypeOK, AccountsOK, NEW a \in Accounts, Withdraw(a)
    PROVE  AccountsOK'
<1> DEFINE n == pendingWithdrawals[a]
<1>1. /\ pendingWithdrawals' = [pendingWithdrawals EXCEPT ![a] = 0]
      /\ balance' = balance - n
      /\ UNCHANGED <<cases, tiers, burned>>
  BY DEF Withdraw, caseVars
<1>2. /\ pendingWithdrawals \in [Accounts -> Int] /\ pendingWithdrawals' \in [Accounts -> Int]
      /\ pendingWithdrawals' \in [Accounts -> Nat] /\ n \in Nat
      /\ pendingWithdrawals'[a] = 0
      /\ \A x \in Accounts \ {a} : pendingWithdrawals'[x] = pendingWithdrawals[x]
  BY <1>1 DEF AccountsOK
<1>3. IsFiniteSet(Accounts)
  BY DisputeAssumption
<1>4. Credits' = Credits + (0 - n)
  <2>1. SumFunction(pendingWithdrawals') = SumFunction(pendingWithdrawals)
                                           + (pendingWithdrawals'[a] - pendingWithdrawals[a])
    BY <1>2, <1>3, TotalChange
  <2> QED BY <1>2, <2>1 DEF Credits
<1>5. Escrows' = Escrows
  <2>1. EscrowNow' = EscrowNow
    BY <1>1 DEF EscrowNow
  <2> QED BY <2>1 DEF Escrows
<1>6. Credits \in Int /\ Escrows \in Int
  BY CreditsEscrowsInt
<1> HIDE DEF n
<1>7. balance' = Credits' + Escrows'
  BY <1>1, <1>2, <1>4, <1>5, <1>6 DEF AccountsOK
<1> QED BY <1>1, <1>2, <1>7 DEF AccountsOK

(* The bonds a dispute takes in and what a vote sets in motion.             *)
LEMMA VotesBalance ==
    ASSUME CaseTypeOK, CaseTypeOK', TierCountsAgree, AccountsOK,
           NEW f \in EventIds, NEW u \in TierNums, NEW r \in Resolvers, NEW b \in BOOLEAN,
           SubmitTierVote(f, u, r, b)
    PROVE  AccountsOK'
<1> DEFINE new == Voted(tiers[f][u], r, b)
<1>1. /\ Live(f, u) /\ MayVote(tiers[f][u], r)
      /\ tiers' = [tiers EXCEPT ![f][u] = new]
  BY DEF SubmitTierVote, InTier, Live
<1>2. \/ Agrees(new, TRUE) /\ ResolveTier(f, u, new, TRUE)
      \/ Agrees(new, FALSE) /\ ResolveTier(f, u, new, FALSE)
      \/ /\ balance' = balance + TierBond(u)
         /\ UNCHANGED <<cases, pendingWithdrawals, burned>>
  BY Zenon DEF SubmitTierVote
<1>3. CASE Agrees(new, TRUE) /\ ResolveTier(f, u, new, TRUE)
  BY <1>1, <1>3, RulingPays
<1>4. CASE Agrees(new, FALSE) /\ ResolveTier(f, u, new, FALSE)
  BY <1>1, <1>4, RulingPays
<1>5. CASE balance' = balance + TierBond(u) /\ UNCHANGED <<cases, pendingWithdrawals, burned>>
  BY <1>1, <1>5, VoteBonds
<1> QED BY <1>2, <1>3, <1>4, <1>5

LEMMA OpeningsBalance ==
    ASSUME RegTypeOK, CaseTypeOK, CaseTypeOK', TierShape, AccountsOK, NEW f \in EventIds,
           \/ \E a \in Disputers : Dispute(f, a)
           \/ EscalateNonConvergence(f)
    PROVE  AccountsOK'
<1>1. CASE \E a \in Disputers : Dispute(f, a)
  <2>1. PICK a \in Disputers : Dispute(f, a)
    BY <1>1
  <2> DEFINE c == FiledCase(f, a)
  <2>2. c \in CaseRecord /\ c.exists /\ ~c.resolved /\ c.tier = 1 /\ BondOf(c) = BondUnit
    <3>1. proposal[f].outcome \in BOOLEAN
      BY PayloadFacts DEF RegTypeOK
    <3> QED BY <3>1, DisputeAssumption DEF FiledCase, CaseRecord, BondOf, TierNums
  <2>3. /\ ~cases[f].exists /\ cases' = [cases EXCEPT ![f] = c]
        /\ tiers' = [tiers EXCEPT ![f][1] = OpenedTier(tiers[f][1], 1)]
        /\ balance' = balance + BondOf(c)
        /\ UNCHANGED <<pendingWithdrawals, burned>>
    BY <2>1, <2>2 DEF Dispute, OpenTier
  <2> HIDE DEF c
  <2> QED BY <2>2, <2>3, OpeningPays
<1>2. CASE EscalateNonConvergence(f)
  <2> DEFINE c == [NoCase EXCEPT !.exists = TRUE]
  <2>1. c \in CaseRecord /\ c.exists /\ ~c.resolved /\ c.tier = 1 /\ BondOf(c) = 0
    BY RecordTypes DEF CaseRecord, NoCase, BondOf
  <2>2. /\ ~cases[f].exists /\ cases' = [cases EXCEPT ![f] = c]
        /\ tiers' = [tiers EXCEPT ![f][1] = OpenedTier(tiers[f][1], 1)]
        /\ UNCHANGED <<pendingWithdrawals, balance, burned>>
    BY <1>2 DEF EscalateNonConvergence, OpenTier
  <2>3. balance \in Int
    BY CreditsEscrowsInt DEF AccountsOK
  <2>4. balance' = balance + BondOf(c)
    BY <2>1, <2>2, <2>3
  <2> HIDE DEF c
  <2> QED BY <2>1, <2>2, <2>4, OpeningPays
<1> QED BY <1>1, <1>2

LEMMA SeedingsBalance ==
    ASSUME RegTypeOK, CaseTypeOK, CaseTypeOK', AccountsOK, NEW f \in EventIds,
           \/ \E r \in Resolvers : CommitSeed(f, r) \/ RevealSeed(f, r)
           \/ DrawCommittee(f)
    PROVE  AccountsOK'
<1> DEFINE u == cases[f].tier
           old == tiers[f][u]
<1>1. u \in TierNums /\ old \in TierRecord
  BY CaseTypes DEF CaseTypeOK
<1>2. UNCHANGED <<cases, pendingWithdrawals, balance, burned>>
  BY DEF CommitSeed, RevealSeed, DrawCommittee
<1>3. CASE \E r \in Resolvers : CommitSeed(f, r)
  <2>1. PICK r \in Resolvers : tiers' = [tiers EXCEPT ![f][u] = Committed(old, r)]
    BY <1>3 DEF CommitSeed
  <2> HIDE DEF u
  <2>2. Committed(old, r) \in TierRecord /\ Committed(old, r).votes = old.votes
    BY <1>1, SeedingTypes, CommittedFields
  <2> QED BY <1>1, <1>2, <2>1, <2>2, SeedingPaysNothing
<1>4. CASE \E r \in Resolvers : RevealSeed(f, r)
  <2>1. PICK r \in Resolvers : tiers' = [tiers EXCEPT ![f][u] = Revealed(old, r)]
    BY <1>4 DEF RevealSeed
  <2> HIDE DEF u
  <2>2. Revealed(old, r) \in TierRecord /\ Revealed(old, r).votes = old.votes
    BY <1>1, SeedingTypes, RevealedFields
  <2> QED BY <1>1, <1>2, <2>1, <2>2, SeedingPaysNothing
<1>5. CASE DrawCommittee(f)
  <2>1. PICK c \in Drawable(Candidates(old), CommitteeSize[u]) :
          tiers' = [tiers EXCEPT ![f][u] = Drawn(old, c)]
    BY <1>5 DEF DrawCommittee
  <2> HIDE DEF u
  <2>2. c \in SUBSET Resolvers
    BY <1>1, Drawables
  <2>3. Drawn(old, c) \in TierRecord /\ Drawn(old, c).votes = old.votes
    BY <1>1, <2>2, SeedingTypes, DrawnFields
  <2> QED BY <1>1, <1>2, <2>1, <2>3, SeedingPaysNothing
<1> QED BY <1>3, <1>4, <1>5
-----------------------------------------------------------------------------
(* Every wei the contract holds is owed, and every wei owed is held.        *)
THEOREM AccountsBalance == Spec => []AccountsOK
<1>1. Init => AccountsOK
  <2> SUFFICES ASSUME Init PROVE AccountsOK
    OBVIOUS
  <2>1. /\ pendingWithdrawals = [a \in Accounts |-> 0] /\ burned = 0 /\ balance = 0
        /\ cases = [e \in EventIds |-> NoCase]
    BY DEF Init, DMInit
  <2>2. IsFiniteSet(Accounts) /\ IsFiniteSet(EventIds)
    BY DisputeAssumption
  <2>3. Credits = 0
    <3>1. pendingWithdrawals \in [Accounts -> Int] /\ \A a \in Accounts : pendingWithdrawals[a] = 0
      BY <2>1
    <3> QED BY <2>2, <3>1, TotalZero DEF Credits
  <2>4. Escrows = 0
    <3>1. ~NoCase.exists
      BY DEF NoCase
    <3>2. \A e \in EventIds : EscrowOf(cases[e], tiers[e][cases[e].tier]) = 0
      BY <2>1, <3>1 DEF EscrowOf
    <3>3. EscrowNow \in [EventIds -> Int] /\ \A e \in EventIds : EscrowNow[e] = 0
      BY <3>2 DEF EscrowNow
    <3> QED BY <2>2, <3>3, TotalZero DEF Escrows
  <2> QED BY <2>1, <2>3, <2>4 DEF AccountsOK
<1>2. RegTypeOK /\ CaseTypeOK /\ CaseTypeOK' /\ TierShape /\ TierCountsAgree
      /\ AccountsOK /\ [Next]_vars
         => AccountsOK'
  <2> SUFFICES ASSUME RegTypeOK, CaseTypeOK, CaseTypeOK', TierShape, TierCountsAgree, AccountsOK,
                      [Next]_vars
               PROVE  AccountsOK'
    OBVIOUS
  <2>1. CASE RegistryOnly \/ Tick \/ UNCHANGED vars
    <3>1. UNCHANGED <<cases, tiers, pendingWithdrawals, balance, burned>>
      BY <2>1 DEF RegistryOnly, Tick, vars, dmVars, caseVars
    <3> QED BY <3>1, NothingMoves
  <2>2. CASE \/ \E e \in EventIds, a \in Disputers : Dispute(e, a)
             \/ \E e \in EventIds : EscalateNonConvergence(e)
    BY <2>2, OpeningsBalance
  <2>3. CASE \/ \E e \in EventIds, r \in Resolvers : CommitSeed(e, r)
             \/ \E e \in EventIds, r \in Resolvers : RevealSeed(e, r)
             \/ \E e \in EventIds : DrawCommittee(e)
    BY <2>3, SeedingsBalance
  <2>4. CASE \E e \in EventIds, t \in TierNums, r \in Resolvers, b \in BOOLEAN :
                SubmitTierVote(e, t, r, b)
    BY <2>4, VotesBalance
  <2>5. CASE \E e \in EventIds : EscalateTier2(e)
    BY <2>5, EscalationPays
  <2>6. CASE \E e \in EventIds : VoidAfterTier2Timeout(e)
    BY <2>6, VoidingPays
  <2>7. CASE \E a \in Accounts : Withdraw(a)
    BY <2>7, WithdrawPays
  <2> QED BY <2>1, <2>2, <2>3, <2>4, <2>5, <2>6, <2>7, LadderCases
<1> QED BY <1>1, <1>2, LadderRegTypes, CaseTypeCorrect, TierShapes, TierCountsAreRight,
           PTL DEF Spec

(* The contract is solvent for every pool, size, window and bond unit.      *)
THEOREM LadderSolvent == Spec => []Solvent
<1>1. AccountsOK => Solvent
  BY SolventIs DEF AccountsOK
<1> QED BY <1>1, AccountsBalance, PTL

(* The variables of the ladder keep their types; no balance is overdrawn.   *)
THEOREM LadderTypeCorrect == Spec => []TypeOK
<1>1. RegTypeOK /\ CaseTypeOK /\ AccountsOK => TypeOK
  <2> SUFFICES ASSUME RegTypeOK, CaseTypeOK, AccountsOK PROVE TypeOK
    OBVIOUS
  <2>1. Credits \in Nat /\ Escrows \in Nat
    BY CreditsEscrowsInt
  <2>2. balance \in Nat /\ burned \in Nat
    BY <2>1 DEF AccountsOK
  <2> QED BY <2>2 DEF TypeOK, AccountsOK
<1> QED BY <1>1, LadderRegTypes, CaseTypeCorrect, AccountsBalance, PTL

-----------------------------------------------------------------------------
(* The only steps that credit an account or end a case.                     *)
Ruling(f, u, d) ==
    \E r \in Resolvers, b \in BOOLEAN :
        /\ Live(f, u) /\ MayVote(tiers[f][u], r)
        /\ tiers' = [tiers EXCEPT ![f][u] = Voted(tiers[f][u], r, b)]
        /\ Agrees(Voted(tiers[f][u], r, b), d)
        /\ ResolveTier(f, u, Voted(tiers[f][u], r, b), d)

NothingPaid == /\ UNCHANGED pendingWithdrawals
               /\ \A e \in EventIds : \/ cases'[e] = cases[e]
                                      \/ ~cases[e].exists /\ ~cases'[e].resolved

LEMMA MoneySteps ==
    ASSUME CaseTypeOK, [Next]_vars
    PROVE  \/ NothingPaid
           \/ \E a \in Accounts : Withdraw(a)
           \/ \E f \in EventIds, u \in TierNums, d \in BOOLEAN : Ruling(f, u, d)
           \/ \E f \in EventIds : EscalateTier2(f)
           \/ \E f \in EventIds : VoidAfterTier2Timeout(f)
<1>1. CASE \E f \in EventIds, a \in Disputers : Dispute(f, a)
  <2>1. PICK f \in EventIds, a \in Disputers :
          /\ ~cases[f].exists /\ UNCHANGED pendingWithdrawals
          /\ cases' = [cases EXCEPT ![f] = FiledCase(f, a)]
    BY <1>1 DEF Dispute
  <2>2. ~FiledCase(f, a).resolved
    BY DEF FiledCase
  <2> QED BY <2>1, <2>2 DEF CaseTypeOK, NothingPaid
<1>2. CASE \E f \in EventIds : EscalateNonConvergence(f)
  <2> DEFINE c == [NoCase EXCEPT !.exists = TRUE]
  <2>1. PICK f \in EventIds : /\ ~cases[f].exists /\ UNCHANGED pendingWithdrawals
                              /\ cases' = [cases EXCEPT ![f] = c]
    BY <1>2 DEF EscalateNonConvergence
  <2>2. ~c.resolved
    BY DEF NoCase
  <2> HIDE DEF c
  <2> QED BY <2>1, <2>2 DEF CaseTypeOK, NothingPaid
<1>3. CASE \E f \in EventIds, u \in TierNums, r \in Resolvers, b \in BOOLEAN :
               SubmitTierVote(f, u, r, b)
  <2>1. PICK f \in EventIds, u \in TierNums, r \in Resolvers, b \in BOOLEAN :
               SubmitTierVote(f, u, r, b)
    BY <1>3
  <2> DEFINE new == Voted(tiers[f][u], r, b)
  <2>2. /\ Live(f, u) /\ MayVote(tiers[f][u], r)
        /\ tiers' = [tiers EXCEPT ![f][u] = new]
    BY <2>1 DEF SubmitTierVote, InTier, Live
  <2>3. \/ Agrees(new, TRUE) /\ ResolveTier(f, u, new, TRUE)
        \/ Agrees(new, FALSE) /\ ResolveTier(f, u, new, FALSE)
        \/ UNCHANGED <<cases, pendingWithdrawals>>
    BY <2>1, Zenon DEF SubmitTierVote
  <2>4. CASE UNCHANGED <<cases, pendingWithdrawals>>
    BY <2>4 DEF NothingPaid
  <2>5. CASE \E d \in BOOLEAN : Agrees(new, d) /\ ResolveTier(f, u, new, d)
    <3>1. PICK d \in BOOLEAN : Agrees(new, d) /\ ResolveTier(f, u, new, d)
      BY <2>5
    <3>2. Ruling(f, u, d)
      BY <2>2, <3>1, Zenon DEF Ruling
    <3> QED BY <3>2
  <2> QED BY <2>3, <2>4, <2>5, Zenon
<1>4. CASE \/ RegistryOnly
           \/ \E f \in EventIds, r \in Resolvers : CommitSeed(f, r) \/ RevealSeed(f, r)
           \/ \E f \in EventIds : DrawCommittee(f)
           \/ Tick
           \/ UNCHANGED vars
  <2>1. UNCHANGED <<cases, pendingWithdrawals>>
    BY <1>4 DEF RegistryOnly, CommitSeed, RevealSeed, DrawCommittee, Tick, vars, dmVars, caseVars
  <2> QED BY <2>1 DEF NothingPaid
<1> QED BY <1>1, <1>2, <1>3, <1>4, LadderCases

(* Everyone on the ruling's side gets the bond and a share, the disputer    *)
(* the bond if the proposal falls; nobody loses a credit.                   *)
LEMMA RulingCredits ==
    ASSUME RegTypeOK, CaseTypeOK, TierCountsAgree, AccountsOK,
           NEW f \in EventIds, NEW u \in TierNums, NEW d \in BOOLEAN, Ruling(f, u, d)
    PROVE  /\ Live(f, u) /\ cases'[f].resolved
           /\ status'[f] = "Finalized" /\ outcome'[f].outcome = d
           /\ \A e \in EventIds \ {f} : cases'[e] = cases[e]
           /\ \A a \in Accounts : pendingWithdrawals'[a] >= pendingWithdrawals[a]
           /\ \A r \in Resolvers : tiers'[f][u].votes[r] = VoteFor(d) =>
                 pendingWithdrawals'[r] >= pendingWithdrawals[r] + TierBond(u)
           /\ DisputerRight(cases[f], d) =>
                 pendingWithdrawals'[cases[f].disputer]
                    >= pendingWithdrawals[cases[f].disputer] + BondUnit
<1>1. PICK r \in Resolvers, b \in BOOLEAN :
        /\ Live(f, u) /\ MayVote(tiers[f][u], r)
        /\ tiers' = [tiers EXCEPT ![f][u] = Voted(tiers[f][u], r, b)]
        /\ Agrees(Voted(tiers[f][u], r, b), d)
        /\ ResolveTier(f, u, Voted(tiers[f][u], r, b), d)
  BY DEF Ruling
<1> DEFINE old == tiers[f][u]
           new == Voted(old, r, b)
           c == cases[f]
<1>2. new \in TierRecord /\ old \in TierRecord /\ tiers'[f][u] = new /\ c \in CaseRecord
  BY <1>1, VotedType DEF CaseTypeOK
<1>3. Counted(new)
  BY <1>1, <1>2, CountsOfTiers, VotedCounted
<1>4. new.committee # {}
  <2>1. new.committee = old.committee
    BY <1>2, VotedFields
  <2> QED BY <1>1, <2>1 DEF MayVote
<1>5. \A a \in Accounts : CommitteePay(new, u, d, a) \in Nat /\ DisputerPay(c, d, a) \in Nat
  <2> HIDE DEF new, c
  <2> QED BY <1>1, <1>2, <1>3, <1>4, CommitteePayNat, DisputerPaysOut DEF new
<1>6. \A a \in Accounts : /\ pendingWithdrawals'[a] = pendingWithdrawals[a]
                                + CommitteePay(new, u, d, a) + DisputerPay(c, d, a)
                          /\ pendingWithdrawals[a] \in Nat
  <2>1. pendingWithdrawals' = [a \in Accounts |-> pendingWithdrawals[a]
                                + CommitteePay(new, u, d, a) + DisputerPay(c, d, a)]
    BY <1>1 DEF ResolveTier
  <2> HIDE DEF new, c
  <2> QED BY <2>1 DEF AccountsOK
<1>7. /\ cases' = [cases EXCEPT ![f].resolved = TRUE]
      /\ FinalizeFromDispute(f, ShortPayload(d))
  BY <1>1 DEF ResolveTier
<1>8. /\ cases'[f].resolved /\ status'[f] = "Finalized" /\ outcome'[f].outcome = d
      /\ \A e \in EventIds \ {f} : cases'[e] = cases[e]
  <2>1. status'[f] = "Finalized" /\ outcome'[f].outcome = d
    BY <1>7 DEF FinalizeFromDispute, SetFinalized, ShortPayload, RegTypeOK
  <2>2. cases'[f].resolved /\ \A e \in EventIds \ {f} : cases'[e] = cases[e]
    BY <1>2, <1>7 DEF CaseTypeOK, CaseRecord
  <2> QED BY <2>1, <2>2
<1> HIDE DEF new, c, old
<1>9. \A a \in Accounts : pendingWithdrawals'[a] >= pendingWithdrawals[a]
  BY <1>5, <1>6
<1>10. ASSUME NEW s \in Resolvers, new.votes[s] = VoteFor(d)
       PROVE  pendingWithdrawals'[s] >= pendingWithdrawals[s] + TierBond(u)
  <2>1. s \in new.committee
    BY <1>3, <1>10, VoteForDistinct DEF Counted
  <2>2. s \in Accounts
    BY DisputeAssumption
  <2>3. PerWinner(new, u, d) \in Nat /\ TreasuryDust(new, u, d) \in Nat /\ TierBond(u) \in Nat
    BY <1>1, <1>2, <1>3, <1>4, SharesOfRuling, Bonds DEF new, old
  <2>4. CommitteePay(new, u, d, s) >= TierBond(u)
    BY <1>10, <2>1, <2>3 DEF CommitteePay
  <2> QED BY <1>5, <1>6, <2>2, <2>3, <2>4
<1>11. ASSUME DisputerRight(c, d)
       PROVE  pendingWithdrawals'[c.disputer] >= pendingWithdrawals[c.disputer] + BondUnit
  <2>1. c.disputer \in Accounts
    BY <1>2, CaseTypes
  <2>2. DisputerPay(c, d, c.disputer) >= BondUnit
    BY <1>11, Bonds DEF DisputerPay, Forfeited
  <2> QED BY <1>5, <1>6, <2>1, <2>2, Bonds
<1> QED BY <1>1, <1>2, <1>8, <1>9, <1>10, <1>11 DEF c

(* A timeout gives every voter of the tier its bond back.                   *)
LEMMA RefundCovers ==
    ASSUME CaseTypeOK, TierCountsAgree, NEW e \in EventIds, NEW t \in TierNums,
           NEW r \in Resolvers, tiers[e][t].votes[r] # "NotVoted"
    PROVE  r \in Accounts /\ TierRefund(e, t, r) = TierBond(t) /\ TierBond(t) \in Nat
<1>1. Counted(tiers[e][t])
  BY CountsOfTiers
<1>2. r \in tiers[e][t].committee
  BY <1>1 DEF Counted
<1> QED BY <1>2, DisputeAssumption, Bonds DEF TierRefund

LEMMA EscalationCredits ==
    ASSUME RegTypeOK, CaseTypeOK, CaseMatchesStatus, TierCountsAgree, AccountsOK,
           NEW f \in EventIds, EscalateTier2(f)
    PROVE  /\ Live(f, 1) /\ ~cases'[f].resolved
           /\ \A e \in EventIds \ {f} : cases'[e] = cases[e]
           /\ \A a \in Accounts : pendingWithdrawals'[a] >= pendingWithdrawals[a]
           /\ \A r \in Resolvers : tiers'[f][1].votes[r] # "NotVoted" =>
                 pendingWithdrawals'[r] >= pendingWithdrawals[r] + TierBond(1)
<1>0. 1 \in TierNums /\ 2 \in TierNums
  BY DEF TierNums
<1>1. /\ Live(f, 1) /\ cases' = [cases EXCEPT ![f].tier = 2]
      /\ tiers' = [tiers EXCEPT ![f][2] = OpenedTier(tiers[f][2], 2)]
      /\ pendingWithdrawals' = [a \in Accounts |-> pendingWithdrawals[a] + TierRefund(f, 1, a)]
  BY DEF EscalateTier2, TierTimedOut, InTier, Live, OpenTier
<1>2. \A a \in Accounts : TierRefund(f, 1, a) \in Nat
  BY <1>0, RefundsPayOut
<1>3. \A a \in Accounts : /\ pendingWithdrawals'[a] = pendingWithdrawals[a] + TierRefund(f, 1, a)
                          /\ pendingWithdrawals[a] \in Nat
  BY <1>1 DEF AccountsOK
<1>4. tiers'[f][1] = tiers[f][1]
  BY <1>0, <1>1, OtherTiersStay
<1>5. ~cases'[f].resolved /\ \A e \in EventIds \ {f} : cases'[e] = cases[e]
  BY <1>1 DEF CaseTypeOK, CaseRecord, Live
<1>6. \A a \in Accounts : pendingWithdrawals'[a] >= pendingWithdrawals[a]
  BY <1>2, <1>3
<1>7. \A r \in Resolvers : tiers'[f][1].votes[r] # "NotVoted" =>
                 pendingWithdrawals'[r] >= pendingWithdrawals[r] + TierBond(1)
  BY <1>0, <1>3, <1>4, RefundCovers
<1> QED BY <1>1, <1>5, <1>6, <1>7

LEMMA VoidingCredits ==
    ASSUME RegTypeOK, CaseTypeOK, TierCountsAgree, AccountsOK,
           NEW f \in EventIds, VoidAfterTier2Timeout(f)
    PROVE  /\ Live(f, 2) /\ status'[f] = "Voided"
           /\ \A e \in EventIds \ {f} : cases'[e] = cases[e]
           /\ \A a \in Accounts : pendingWithdrawals'[a] >= pendingWithdrawals[a]
           /\ \A r \in Resolvers : tiers'[f][2].votes[r] # "NotVoted" =>
                 pendingWithdrawals'[r] >= pendingWithdrawals[r] + TierBond(2)
           /\ cases[f].hasOriginalProposal =>
                 pendingWithdrawals'[cases[f].disputer]
                    >= pendingWithdrawals[cases[f].disputer] + BondUnit
<1>0. 2 \in TierNums
  BY DEF TierNums
<1> DEFINE g(a) == IF cases[f].hasOriginalProposal /\ a = cases[f].disputer
                   THEN BondUnit ELSE 0
<1>1. /\ Live(f, 2) /\ cases' = [cases EXCEPT ![f].resolved = TRUE] /\ tiers' = tiers
      /\ status' = [status EXCEPT ![f] = "Voided"]
      /\ pendingWithdrawals' = [a \in Accounts |-> pendingWithdrawals[a] + TierRefund(f, 2, a)
                                                   + g(a)]
  BY DEF VoidAfterTier2Timeout, TierTimedOut, InTier, Live, VoidEvent, SetStatus
<1>2. \A a \in Accounts : TierRefund(f, 2, a) \in Nat /\ g(a) \in Nat
  BY <1>0, RefundsPayOut, Bonds
<1>3. cases[f].hasOriginalProposal => g(cases[f].disputer) = BondUnit
  OBVIOUS
<1>4. cases[f].disputer \in Accounts
  BY CaseTypes DEF CaseTypeOK
<1> HIDE DEF g
<1>5. \A a \in Accounts : /\ pendingWithdrawals'[a] = pendingWithdrawals[a]
                                                      + TierRefund(f, 2, a) + g(a)
                          /\ pendingWithdrawals[a] \in Nat
  BY <1>1 DEF AccountsOK
<1>6. status'[f] = "Voided" /\ \A e \in EventIds \ {f} : cases'[e] = cases[e]
  BY <1>1 DEF CaseTypeOK, RegTypeOK
<1>7. \A a \in Accounts : pendingWithdrawals'[a] >= pendingWithdrawals[a]
  BY <1>2, <1>5
<1>8. ASSUME NEW r \in Resolvers, tiers[f][2].votes[r] # "NotVoted"
      PROVE  pendingWithdrawals'[r] >= pendingWithdrawals[r] + TierBond(2)
  <2>1. r \in Accounts /\ TierRefund(f, 2, r) = TierBond(2) /\ TierBond(2) \in Nat
    BY <1>0, <1>8, RefundCovers
  <2> QED BY <1>2, <1>5, <2>1
<1>9. cases[f].hasOriginalProposal =>
         pendingWithdrawals'[cases[f].disputer] >= pendingWithdrawals[cases[f].disputer] + BondUnit
  BY <1>2, <1>3, <1>4, <1>5, Bonds
<1> QED BY <1>1, <1>6, <1>7, <1>8, <1>9

(* No step takes a credit away but the owner's own withdrawal, and no vote  *)
(* that was right, or had no answer to be right about, loses its bond.      *)
THEOREM VotersAreMadeWhole == Spec => VotersMadeWhole
<1>1. RegTypeOK /\ CaseTypeOK /\ CaseMatchesStatus /\ TierCountsAgree /\ AccountsOK
      /\ [Next]_vars =>
        [/\ \A a \in Accounts : \/ pendingWithdrawals'[a] >= pendingWithdrawals[a]
                                \/ pendingWithdrawals'[a] = 0
         /\ \A e \in EventIds :
              LET t == cases[e].tier IN
              cases[e].exists /\ ~cases[e].resolved
                /\ (cases'[e].resolved \/ cases'[e].tier # t) =>
                  \A r \in Resolvers :
                      LET vote == tiers'[e][t].votes[r] IN
                      vote # "NotVoted"
                        /\ (status'[e] = "Finalized" => vote = VoteFor(outcome'[e].outcome))
                      => pendingWithdrawals'[r] >= pendingWithdrawals[r] + TierBond(t)]_vars
  <2> SUFFICES ASSUME RegTypeOK, CaseTypeOK, CaseMatchesStatus, TierCountsAgree, AccountsOK,
                      [Next]_vars
               PROVE  /\ \A a \in Accounts : \/ pendingWithdrawals'[a] >= pendingWithdrawals[a]
                                             \/ pendingWithdrawals'[a] = 0
                      /\ \A e \in EventIds :
                           cases[e].exists /\ ~cases[e].resolved
                             /\ (cases'[e].resolved \/ cases'[e].tier # cases[e].tier) =>
                               \A r \in Resolvers :
                                   tiers'[e][cases[e].tier].votes[r] # "NotVoted"
                                     /\ (status'[e] = "Finalized" =>
                                           tiers'[e][cases[e].tier].votes[r]
                                              = VoteFor(outcome'[e].outcome))
                                   => pendingWithdrawals'[r]
                                         >= pendingWithdrawals[r] + TierBond(cases[e].tier)
    OBVIOUS
  <2>0. \A a \in Accounts : pendingWithdrawals[a] \in Nat
    BY DEF AccountsOK
  <2>1. CASE NothingPaid
    BY <2>0, <2>1 DEF NothingPaid
  <2>2. CASE \E a \in Accounts : Withdraw(a)
    <3>1. PICK a \in Accounts : /\ pendingWithdrawals' = [pendingWithdrawals EXCEPT ![a] = 0]
                                /\ cases' = cases
      BY <2>2 DEF Withdraw, caseVars
    <3> QED BY <2>0, <3>1 DEF AccountsOK
  <2>3. CASE \E f \in EventIds, u \in TierNums, d \in BOOLEAN : Ruling(f, u, d)
    <3>1. PICK f \in EventIds, u \in TierNums, d \in BOOLEAN : Ruling(f, u, d)
      BY <2>3
    <3> QED BY <3>1, RulingCredits DEF Live
  <2>4. CASE \E f \in EventIds : EscalateTier2(f)
    BY <2>4, EscalationCredits DEF Live
  <2>5. CASE \E f \in EventIds : VoidAfterTier2Timeout(f)
    BY <2>5, VoidingCredits DEF Live
  <2> QED BY <2>1, <2>2, <2>3, <2>4, <2>5, MoneySteps
<1> QED BY <1>1, LadderRegTypes, CaseTypeCorrect, CasesMatch, TierCountsAreRight,
           AccountsBalance, PTL DEF Spec, VotersMadeWhole

(* A disputer who was right, or got no answer, has the bond back as soon as *)
(* the case closes.                                                         *)
THEOREM DisputersAreMadeWhole == Spec => DisputerMadeWhole
<1>1. RegTypeOK /\ CaseTypeOK /\ CaseMatchesStatus /\ TierCountsAgree /\ AccountsOK
      /\ [Next]_vars =>
        [\A e \in EventIds :
          LET c == cases[e]
              upheld == \/ status'[e] = "Voided"
                        \/ outcome'[e].outcome # proposal[e].outcome
          IN  c.hasOriginalProposal /\ ~c.resolved /\ cases'[e].resolved /\ upheld =>
                pendingWithdrawals'[c.disputer] >= pendingWithdrawals[c.disputer] + BondUnit]_vars
  <2> SUFFICES ASSUME RegTypeOK, CaseTypeOK, CaseMatchesStatus, TierCountsAgree, AccountsOK,
                      [Next]_vars, NEW e \in EventIds,
                      cases[e].hasOriginalProposal, ~cases[e].resolved, cases'[e].resolved,
                      \/ status'[e] = "Voided"
                      \/ outcome'[e].outcome # proposal[e].outcome
               PROVE  pendingWithdrawals'[cases[e].disputer]
                         >= pendingWithdrawals[cases[e].disputer] + BondUnit
    OBVIOUS
  <2>1. CASE NothingPaid
    BY <2>1 DEF NothingPaid
  <2>2. CASE \E a \in Accounts : Withdraw(a)
    BY <2>2 DEF Withdraw, caseVars
  <2>3. CASE \E f \in EventIds, u \in TierNums, d \in BOOLEAN : Ruling(f, u, d)
    <3>1. PICK f \in EventIds, u \in TierNums, d \in BOOLEAN : Ruling(f, u, d)
      BY <2>3
    <3>2. f = e /\ Live(e, u) /\ status'[e] = "Finalized" /\ outcome'[e].outcome = d
      BY <3>1, RulingCredits
    <3>3. d # cases[e].originalOutcome
      BY <3>2 DEF Live, CaseMatchesStatus
    <3>4. DisputerRight(cases[e], d)
      BY <3>3 DEF DisputerRight
    <3> QED BY <3>1, <3>2, <3>4, RulingCredits
  <2>4. CASE \E f \in EventIds : EscalateTier2(f)
    BY <2>4, EscalationCredits
  <2>5. CASE \E f \in EventIds : VoidAfterTier2Timeout(f)
    BY <2>5, VoidingCredits
  <2> QED BY <2>1, <2>2, <2>3, <2>4, <2>5, MoneySteps
<1> QED BY <1>1, LadderRegTypes, CaseTypeCorrect, CasesMatch, TierCountsAreRight,
           AccountsBalance, PTL DEF Spec, DisputerMadeWhole
=============================================================================
