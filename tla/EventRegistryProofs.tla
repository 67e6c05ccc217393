------------------------ MODULE EventRegistryProofs ------------------------
(***************************************************************************)
(* What holds of EventRegistry for every set of events and resolvers, every *)
(* specification and every dispute manager.                                *)
(***************************************************************************)
EXTENDS EventRegistry, FiniteSetTheorems, TLAPS

(* The steps of the registry one by one, as the cases of every proof below. *)
LEMMA StepCases ==
    ASSUME [RegNext]_regVars
    PROVE  \/ \E es \in SUBSET EventIds : \E batch \in [es -> Specs] : CreateEvents(batch)
           \/ \E e \in EventIds, r \in Resolvers, p \in Payloads : SubmitObservation(e, r, p)
           \/ \E e \in EventIds : Finalize(e)
           \/ \E e \in EventIds : Expire(e)
           \/ \E r \in Resolvers, on \in BOOLEAN : SetResolverAuthorization(r, on)
           \/ SetDisputeManager
           \/ \E e \in EventIds : RegEscalateNonConvergence(e)
           \/ \E e \in EventIds : EscalateToDispute(e)
           \/ \E e \in EventIds, p \in Payloads : FinalizeFromDispute(e, p)
           \/ \E e \in EventIds : VoidEvent(e)
           \/ RegTick
           \/ UNCHANGED regVars
  BY Zenon DEF RegNext, PublicStep, OwnerStep, ManagerStep

(* Both kinds of payload are payloads, and neither is the empty one.        *)
LEMMA PayloadFacts ==
    /\ NoPayload \notin Payloads
    /\ \A p \in Payloads \cup {NoPayload} : p.outcome \in BOOLEAN
<1>1. \A p \in Payloads : p.words \in {1, 2} /\ p.outcome \in BOOLEAN
  <2>1. \A b \in BOOLEAN : ShortPayload(b).words = 1 /\ ShortPayload(b).outcome = b
    BY DEF ShortPayload
  <2>2. \A p \in [outcome : BOOLEAN, words : {2}, occurredAt : OccurredAt] :
           p.words = 2 /\ p.outcome \in BOOLEAN
    OBVIOUS
  <2> QED BY <2>1, <2>2 DEF Payloads
<1>2. NoPayload.words = 0 /\ NoPayload.outcome \in BOOLEAN
  BY DEF NoPayload
<1> QED BY <1>1, <1>2

-----------------------------------------------------------------------------
(* Every step keeps the types.                                              *)
LEMMA RegTypesKept ==
    ASSUME RegTypeOK, [RegNext]_regVars
    PROVE  RegTypeOK'
<1> USE MaxAgeAssumption, SpecsAssumption
<1>1. CASE \E es \in SUBSET EventIds : \E batch \in [es -> Specs] : CreateEvents(batch)
  <2>1. PICK es \in SUBSET EventIds : \E batch \in [es -> Specs] : CreateEvents(batch)
    BY <1>1
  <2>2. PICK batch \in [es -> Specs] : CreateEvents(batch)
    BY <2>1
  <2> QED BY <2>2 DEF CreateEvents, WellFormed, RegTypeOK, Statuses, Observing
<1>2. CASE \E e \in EventIds, r \in Resolvers, p \in Payloads : SubmitObservation(e, r, p)
  <2>1. PICK e \in EventIds, r \in Resolvers, p \in Payloads : SubmitObservation(e, r, p)
    BY <1>2
  <2>2. p.outcome \in BOOLEAN
    BY PayloadFacts
  <2>3. observation' \in [EventIds -> [Resolvers -> Payloads \cup {NoPayload}]]
    BY <2>1 DEF SubmitObservation, RegTypeOK
  <2>4. observationCount' \in [EventIds -> [Payloads -> Nat]]
    BY <2>1 DEF SubmitObservation, RegTypeOK
  <2>5. observedOutcomeCount' \in [EventIds -> [BOOLEAN -> Nat]]
    BY <2>1, <2>2 DEF SubmitObservation, RegTypeOK
  <2>6. /\ status' \in [EventIds -> Statuses]
        /\ proposal' \in [EventIds -> Payloads \cup {NoPayload}]
        /\ age' \in [EventIds -> 0..MaxAge]
    BY <2>1 DEF SubmitObservation, RegTypeOK, Statuses, Observing
  <2> QED BY <2>1, <2>3, <2>4, <2>5, <2>6 DEF SubmitObservation, RegTypeOK
<1>3. CASE \E e \in EventIds : Finalize(e)
  BY <1>3 DEF Finalize, SetFinalized, RegTypeOK, Statuses, Terminal
<1>4. CASE \E e \in EventIds : Expire(e)
  BY <1>4 DEF Expire, SetStatus, RegTypeOK, Statuses, Terminal
<1>5. CASE \E r \in Resolvers, on \in BOOLEAN : SetResolverAuthorization(r, on)
  BY <1>5 DEF SetResolverAuthorization, eventVars, RegTypeOK
<1>6. CASE SetDisputeManager
  BY <1>6 DEF SetDisputeManager, eventVars, RegTypeOK
<1>7. CASE \E e \in EventIds : RegEscalateNonConvergence(e)
  BY <1>7 DEF RegEscalateNonConvergence, SetStatus, RegTypeOK, Statuses
<1>8. CASE \E e \in EventIds : EscalateToDispute(e)
  BY <1>8 DEF EscalateToDispute, SetStatus, RegTypeOK, Statuses
<1>9. CASE \E e \in EventIds, p \in Payloads : FinalizeFromDispute(e, p)
  BY <1>9 DEF FinalizeFromDispute, SetFinalized, RegTypeOK, Statuses, Terminal
<1>10. CASE \E e \in EventIds : VoidEvent(e)
  BY <1>10 DEF VoidEvent, SetStatus, RegTypeOK, Statuses, Terminal
<1>11. CASE RegTick
  BY <1>11 DEF RegTick, RegTypeOK
<1>12. CASE UNCHANGED regVars
  BY <1>12 DEF regVars, eventVars, RegTypeOK
<1> QED
  BY <1>1, <1>2, <1>3, <1>4, <1>5, <1>6, <1>7, <1>8, <1>9, <1>10, <1>11, <1>12, StepCases

LEMMA RegTypesInitially ==
    ASSUME RegInit
    PROVE  RegTypeOK
<1>1. 0 \in 0..MaxAge
  BY MaxAgeAssumption
<1>2. age \in [EventIds -> 0..MaxAge]
  BY <1>1 DEF RegInit
<1> QED BY <1>2 DEF RegInit, RegTypeOK, Statuses

(* Type correctness: every variable keeps its declared type, and every      *)
(* created event has a quorum to reach and a window to observe in.          *)
THEOREM RegTypeCorrect == RegSpec => []RegTypeOK
<1>1. RegInit => RegTypeOK
  BY RegTypesInitially
<1>2. RegTypeOK /\ [RegNext]_regVars => RegTypeOK'
  BY RegTypesKept
<1> QED BY <1>1, <1>2, PTL DEF RegSpec

-----------------------------------------------------------------------------
(* What one step of the registry can do to one event.  Every property of    *)
(* the life of an event is proved from these six cases.                     *)
SameRecord(e) == /\ spec'[e] = spec[e]
                 /\ observation'[e] = observation[e]
                 /\ observationCount'[e] = observationCount[e]
                 /\ observedOutcomeCount'[e] = observedOutcomeCount[e]
                 /\ proposal'[e] = proposal[e]

Created(e) == /\ status[e] = "None" /\ status'[e] = "Open"
              /\ WellFormed(spec'[e])
              /\ observation'[e] = observation[e]
              /\ observationCount'[e] = observationCount[e]
              /\ observedOutcomeCount'[e] = observedOutcomeCount[e]
              /\ proposal'[e] = proposal[e]
              /\ outcome'[e] = outcome[e]

Observed(e) == \E r \in Resolvers, p \in Payloads : SubmitObservation(e, r, p)

Unchallenged(e) == /\ status[e] = "ProposedOutcome" /\ status'[e] = "Finalized"
                   /\ WindowOver(e)
                   /\ SameRecord(e)
                   /\ outcome'[e] = proposal[e]

Ruled(e) == /\ status[e] = "Disputed" /\ status'[e] = "Finalized"
            /\ SameRecord(e)
            /\ outcome'[e] \in Payloads

Moved(e) == /\ \/ status[e] = "Open" /\ status'[e] = "Expired"
               \/ status[e] = "ObservationsSubmitted" /\ status'[e] = "Disputed"
               \/ status[e] = "ProposedOutcome" /\ status'[e] = "Disputed"
               \/ status[e] = "Disputed" /\ status'[e] = "Voided"
            /\ SameRecord(e)
            /\ outcome'[e] = outcome[e]

Untouched(e) == /\ status'[e] = status[e]
                /\ SameRecord(e)
                /\ outcome'[e] = outcome[e]

(* A step that sets the status of one event, or finalizes it, leaves every  *)
(* other event as it was.                                                   *)
LEMMA OneEventSteps ==
    ASSUME RegTypeOK, NEW e \in EventIds, NEW f \in EventIds, f # e
    PROVE  /\ \A s \in Statuses : SetStatus(f, s) => Untouched(e)
           /\ \A p \in Payloads \cup {NoPayload} : SetFinalized(f, p) => Untouched(e)
           /\ \A r \in Resolvers, p \in Payloads : SubmitObservation(f, r, p) => Untouched(e)
  BY DEF SetStatus, SetFinalized, SubmitObservation, Untouched, SameRecord, RegTypeOK

LEMMA EventStep ==
    ASSUME RegTypeOK, [RegNext]_regVars, NEW e \in EventIds
    PROVE  \/ Created(e) \/ Observed(e) \/ Unchallenged(e)
           \/ Ruled(e) \/ Moved(e) \/ Untouched(e)
<1> DEFINE Goal == \/ Created(e) \/ Observed(e) \/ Unchallenged(e)
                   \/ Ruled(e) \/ Moved(e) \/ Untouched(e)
<1>1. CASE \E es \in SUBSET EventIds : \E batch \in [es -> Specs] : CreateEvents(batch)
  <2>1. PICK es \in SUBSET EventIds : \E batch \in [es -> Specs] : CreateEvents(batch)
    BY <1>1
  <2>2. PICK batch \in [es -> Specs] : CreateEvents(batch)
    BY <2>1
  <2>3. CASE e \in es
    BY <2>2, <2>3 DEF CreateEvents, Created, RegTypeOK
  <2>4. CASE e \notin es
    BY <2>2, <2>4 DEF CreateEvents, Untouched, SameRecord, RegTypeOK
  <2> QED BY <2>3, <2>4
<1>2. CASE \E f \in EventIds, r \in Resolvers, p \in Payloads : SubmitObservation(f, r, p)
  BY <1>2, OneEventSteps DEF Observed
<1>3. CASE \E f \in EventIds : Finalize(f)
  <2>1. PICK f \in EventIds : Finalize(f)
    BY <1>3
  <2>2. CASE f = e
    BY <2>1, <2>2 DEF Finalize, SetFinalized, Unchallenged, SameRecord, RegTypeOK
  <2>3. CASE f # e
    BY <2>1, <2>3, OneEventSteps DEF Finalize, RegTypeOK
  <2> QED BY <2>2, <2>3
<1>4. CASE \E f \in EventIds : Expire(f) \/ RegEscalateNonConvergence(f)
                              \/ EscalateToDispute(f) \/ VoidEvent(f)
  <2>1. PICK f \in EventIds : Expire(f) \/ RegEscalateNonConvergence(f)
                              \/ EscalateToDispute(f) \/ VoidEvent(f)
    BY <1>4
  <2>2. CASE f = e
    BY <2>1, <2>2 DEF Expire, RegEscalateNonConvergence, EscalateToDispute, VoidEvent,
                      SetStatus, Moved, SameRecord, RegTypeOK
  <2>3. CASE f # e
    <3>1. \E s \in Statuses : SetStatus(f, s)
      BY <2>1 DEF Expire, RegEscalateNonConvergence, EscalateToDispute, VoidEvent,
                  Statuses, Terminal
    <3> QED BY <2>3, <3>1, OneEventSteps
  <2> QED BY <2>2, <2>3
<1>5. CASE \E f \in EventIds, p \in Payloads : FinalizeFromDispute(f, p)
  <2>1. PICK f \in EventIds, p \in Payloads : FinalizeFromDispute(f, p)
    BY <1>5
  <2>2. CASE f = e
    BY <2>1, <2>2 DEF FinalizeFromDispute, SetFinalized, Ruled, SameRecord, RegTypeOK
  <2>3. CASE f # e
    BY <2>1, <2>3, OneEventSteps DEF FinalizeFromDispute
  <2> QED BY <2>2, <2>3
<1>6. CASE \/ \E r \in Resolvers, on \in BOOLEAN : SetResolverAuthorization(r, on)
           \/ SetDisputeManager \/ RegTick \/ UNCHANGED regVars
  BY <1>6 DEF SetResolverAuthorization, SetDisputeManager, RegTick, regVars, eventVars,
              Untouched, SameRecord
<1> QED BY <1>1, <1>2, <1>3, <1>4, <1>5, <1>6, StepCases

-----------------------------------------------------------------------------
(* What is stored for an event fits its phase: in particular an outcome     *)
(* exists exactly for a Finalized event, and only an event nobody observed  *)
(* expires.                                                                 *)
THEOREM PhaseConsistency == RegSpec => []PhaseConsistent
<1>1. RegInit => PhaseConsistent
  BY DEF RegInit, PhaseConsistent, HasSubmitted, Observing
<1>2. RegTypeOK /\ PhaseConsistent /\ [RegNext]_regVars => PhaseConsistent'
  <2> SUFFICES ASSUME RegTypeOK, PhaseConsistent, [RegNext]_regVars, NEW e \in EventIds
               PROVE  /\ status'[e] = "ProposedOutcome" => proposal'[e] # NoPayload
                      /\ status'[e] \in {"None"} \cup Observing => proposal'[e] = NoPayload
                      /\ status'[e] = "Finalized" <=> outcome'[e] # NoPayload
                      /\ status'[e] \in {"None", "Open", "Expired"} =>
                            \A r \in Resolvers : ~HasSubmitted(e, r)'
    BY DEF PhaseConsistent
  <2> USE DEF PhaseConsistent, HasSubmitted, Observing
  <2>1. CASE Created(e)
    BY <2>1 DEF Created
  <2>2. CASE Observed(e)
    BY <2>2, PayloadFacts DEF Observed, SubmitObservation, MaySubmit, QuorumReached, RegTypeOK
  <2>3. CASE Unchallenged(e)
    BY <2>3 DEF Unchallenged, SameRecord
  <2>4. CASE Ruled(e)
    BY <2>4, PayloadFacts DEF Ruled, SameRecord
  <2>5. CASE Moved(e)
    BY <2>5 DEF Moved, SameRecord
  <2>6. CASE Untouched(e)
    BY <2>6 DEF Untouched, SameRecord
  <2> QED BY <2>1, <2>2, <2>3, <2>4, <2>5, <2>6, EventStep
<1> QED BY <1>1, <1>2, RegTypeCorrect, PTL DEF RegSpec

-----------------------------------------------------------------------------
(* One more resolver with payload p: the sets the counters stand for.       *)
LEMMA SubmissionCounts ==
    ASSUME RegTypeOK, CountsAgree,
           NEW e \in EventIds, NEW r \in Resolvers, NEW q \in Payloads,
           SubmitObservation(e, r, q)
    PROVE  /\ \A p \in Payloads :
                observationCount'[e][p] = Cardinality(Supporters(e, p)')
           /\ \A b \in BOOLEAN :
                observedOutcomeCount'[e][b] = Cardinality(Observers(e, b)')
<1>1. /\ observation[e][r] = NoPayload
      /\ observation'[e] = [observation[e] EXCEPT ![r] = q]
      /\ observationCount'[e] = [observationCount[e] EXCEPT ![q] = @ + 1]
      /\ observedOutcomeCount'[e] = [observedOutcomeCount[e] EXCEPT ![q.outcome] = @ + 1]
  BY DEF SubmitObservation, MaySubmit, HasSubmitted, RegTypeOK
<1>2. ASSUME NEW p \in Payloads
      PROVE  observationCount'[e][p] = Cardinality(Supporters(e, p)')
  <2>1. IsFiniteSet(Supporters(e, p)) /\ r \notin Supporters(e, p)
    BY <1>1, ResolversAssumption, FS_Subset, PayloadFacts DEF Supporters
  <2>2. Supporters(e, p)' = IF p = q THEN Supporters(e, p) \cup {r} ELSE Supporters(e, p)
    BY <1>1, PayloadFacts DEF Supporters, RegTypeOK
  <2>3. Cardinality(Supporters(e, p) \cup {r}) = Cardinality(Supporters(e, p)) + 1
    BY <2>1, FS_AddElement
  <2>4. observationCount[e][p] = Cardinality(Supporters(e, p))
    BY DEF CountsAgree
  <2> QED BY <1>1, <2>2, <2>3, <2>4 DEF RegTypeOK
<1>3. ASSUME NEW b \in BOOLEAN
      PROVE  observedOutcomeCount'[e][b] = Cardinality(Observers(e, b)')
  <2>1. IsFiniteSet(Observers(e, b)) /\ r \notin Observers(e, b)
    BY <1>1, ResolversAssumption, FS_Subset DEF Observers, HasSubmitted
  <2>2. Observers(e, b)' =
          IF b = q.outcome THEN Observers(e, b) \cup {r} ELSE Observers(e, b)
    BY <1>1, PayloadFacts DEF Observers, HasSubmitted, RegTypeOK
  <2>3. Cardinality(Observers(e, b) \cup {r}) = Cardinality(Observers(e, b)) + 1
    BY <2>1, FS_AddElement
  <2>4. observedOutcomeCount[e][b] = Cardinality(Observers(e, b))
    BY DEF CountsAgree
  <2> QED BY <1>1, <2>2, <2>3, <2>4, PayloadFacts DEF RegTypeOK
<1> QED BY <1>2, <1>3

(* Both counters of submitObservation, the one quorum is measured by and    *)
(* the one fees are divided by, count distinct resolvers.                   *)
THEOREM CountsAreRight == RegSpec => []CountsAgree
<1>1. RegInit => CountsAgree
  <2> SUFFICES ASSUME RegInit, NEW e \in EventIds
               PROVE  /\ \A p \in Payloads :
                            observationCount[e][p] = Cardinality(Supporters(e, p))
                      /\ \A b \in BOOLEAN :
                            observedOutcomeCount[e][b] = Cardinality(Observers(e, b))
    BY DEF CountsAgree
  <2>1. \A p \in Payloads : Supporters(e, p) = {}
    BY PayloadFacts DEF RegInit, Supporters
  <2>2. \A b \in BOOLEAN : Observers(e, b) = {}
    BY DEF RegInit, Observers, HasSubmitted
  <2> QED BY <2>1, <2>2, FS_EmptySet DEF RegInit
<1>2. RegTypeOK /\ CountsAgree /\ [RegNext]_regVars => CountsAgree'
  <2> SUFFICES ASSUME RegTypeOK, CountsAgree, [RegNext]_regVars, NEW e \in EventIds
               PROVE  /\ \A p \in Payloads :
                            observationCount'[e][p] = Cardinality(Supporters(e, p)')
                      /\ \A b \in BOOLEAN :
                            observedOutcomeCount'[e][b] = Cardinality(Observers(e, b)')
    BY DEF CountsAgree
  <2>1. CASE Observed(e)
    BY <2>1, SubmissionCounts DEF Observed
  <2>2. CASE Created(e) \/ Unchallenged(e) \/ Ruled(e) \/ Moved(e) \/ Untouched(e)
    <3>1. /\ observation'[e] = observation[e]
          /\ observationCount'[e] = observationCount[e]
          /\ observedOutcomeCount'[e] = observedOutcomeCount[e]
      BY <2>2 DEF Created, Unchallenged, Ruled, Moved, Untouched, SameRecord
    <3>2. /\ \A p \in Payloads : Supporters(e, p)' = Supporters(e, p)
          /\ \A b \in BOOLEAN : Observers(e, b)' = Observers(e, b)
      BY <3>1 DEF Supporters, Observers, HasSubmitted
    <3> QED BY <3>1, <3>2 DEF CountsAgree
  <2> QED BY <2>1, <2>2, EventStep
<1> QED BY <1>1, <1>2, RegTypeCorrect, PTL DEF RegSpec

(* Nothing is proposed without quorumThreshold distinct resolvers behind    *)
(* the exact payload, and a quorum never goes unnoticed.                    *)
THEOREM ProposalsHaveQuorum == RegSpec => []QuorumBacked
<1> DEFINE Inv == RegTypeOK /\ PhaseConsistent /\ CountsAgree
<1>1. RegInit => QuorumBacked
  BY DEF RegInit, QuorumBacked, Observing
<1>2. Inv /\ Inv' /\ QuorumBacked /\ [RegNext]_regVars => QuorumBacked'
  <2> SUFFICES ASSUME RegTypeOK, PhaseConsistent, CountsAgree, CountsAgree', RegTypeOK',
                      QuorumBacked, [RegNext]_regVars, NEW e \in EventIds
               PROVE  /\ proposal'[e] # NoPayload =>
                            Cardinality(Supporters(e, proposal[e])')
                                >= spec'[e].quorumThreshold
                      /\ status'[e] \in Observing =>
                            \A p \in Payloads :
                                Cardinality(Supporters(e, p)') < spec'[e].quorumThreshold
    BY DEF QuorumBacked
  <2>1. CASE Created(e)
    <3>1. spec'[e].quorumThreshold \in Nat \ {0}
      BY <2>1, SpecsAssumption DEF Created, WellFormed, RegTypeOK, NoSpec
    <3>2. \A p \in Payloads : Supporters(e, p)' = {}
      BY <2>1, PayloadFacts DEF Created, PhaseConsistent, HasSubmitted, Supporters
    <3>3. proposal'[e] = NoPayload
      BY <2>1 DEF Created, PhaseConsistent
    <3> QED BY <3>1, <3>2, <3>3, FS_EmptySet
  <2>2. CASE Observed(e)
    <3>1. PICK r \in Resolvers, q \in Payloads : SubmitObservation(e, r, q)
      BY <2>2 DEF Observed
    <3> DEFINE n == observationCount[e][q] + 1
    <3>2. /\ spec'[e] = spec[e]
          /\ proposal[e] = NoPayload /\ status[e] \in Observing
          /\ n = observationCount'[e][q]
          /\ observation'[e] = [observation[e] EXCEPT ![r] = q]
      BY <3>1 DEF SubmitObservation, MaySubmit, PhaseConsistent, RegTypeOK
    <3>3. n = Cardinality(Supporters(e, q)')
      BY <3>2 DEF CountsAgree
    <3>4. spec[e].quorumThreshold \in Nat
      BY SpecsAssumption DEF RegTypeOK, NoSpec
    <3>5. n \in Nat
      BY DEF RegTypeOK
    <3>6. CASE n >= spec[e].quorumThreshold
      <4>1. status'[e] = "ProposedOutcome" /\ proposal'[e] = q
        BY <3>1, <3>2, <3>6 DEF SubmitObservation, QuorumReached, RegTypeOK
      <4> QED BY <4>1, <3>2, <3>3, <3>6 DEF Observing
    <3>7. CASE ~(n >= spec[e].quorumThreshold)
      <4>1. proposal'[e] = NoPayload
        BY <3>1, <3>2, <3>7 DEF SubmitObservation, QuorumReached, RegTypeOK
      <4>2. ASSUME NEW p \in Payloads, p # q
            PROVE  Supporters(e, p)' = Supporters(e, p)
        BY <3>1, <3>2, <4>2, PayloadFacts
           DEF Supporters, RegTypeOK, SubmitObservation, MaySubmit, HasSubmitted
      <4>3. \A p \in Payloads : p # q =>
               Cardinality(Supporters(e, p)') < spec'[e].quorumThreshold
        BY <4>2, <3>2 DEF QuorumBacked
      <4> QED BY <4>1, <4>3, <3>2, <3>3, <3>4, <3>5, <3>7
    <3> QED BY <3>6, <3>7
  <2>3. CASE Unchallenged(e) \/ Ruled(e) \/ Moved(e) \/ Untouched(e)
    <3>1. /\ spec'[e] = spec[e] /\ proposal'[e] = proposal[e]
          /\ observation'[e] = observation[e]
          /\ status'[e] \in Observing => status[e] \in Observing
      BY <2>3 DEF Unchallenged, Ruled, Moved, Untouched, SameRecord, Observing
    <3>2. \A p : Supporters(e, p)' = Supporters(e, p)
      BY <3>1 DEF Supporters
    <3>3. Supporters(e, proposal[e])' = Supporters(e, proposal[e])
      BY <3>1 DEF Supporters
    <3> QED BY <3>1, <3>2, <3>3 DEF QuorumBacked
  <2> QED BY <2>1, <2>2, <2>3, EventStep
<1> QED BY <1>1, <1>2, RegTypeCorrect, PhaseConsistency, CountsAreRight, PTL DEF RegSpec

-----------------------------------------------------------------------------
(* A Finalized, Voided or Expired event keeps its status and its outcome    *)
(* whatever the owner, the resolvers and the dispute manager do next.       *)
THEOREM TerminalForever == RegSpec => TerminalIsFinal
<1>1. RegTypeOK /\ [RegNext]_regVars =>
        [\A e \in EventIds : status[e] \in Terminal =>
            status'[e] = status[e] /\ outcome'[e] = outcome[e]]_regVars
  <2> SUFFICES ASSUME RegTypeOK, [RegNext]_regVars, NEW e \in EventIds,
                      status[e] \in Terminal
               PROVE  status'[e] = status[e] /\ outcome'[e] = outcome[e]
    OBVIOUS
  <2>1. ~Created(e) /\ ~Unchallenged(e) /\ ~Ruled(e) /\ ~Moved(e)
    BY DEF Created, Unchallenged, Ruled, Moved, Terminal
  <2>2. ~Observed(e)
    BY DEF Observed, SubmitObservation, MaySubmit, Observing, Terminal
  <2> QED BY <2>1, <2>2, EventStep DEF Untouched
<1> QED BY <1>1, RegTypeCorrect, PTL DEF RegSpec, TerminalIsFinal

(* An undisputed proposal becomes the outcome unaltered and only after its  *)
(* whole dispute window.                                                    *)
THEOREM FinalizesTheProposal == RegSpec => FinalizedAsProposed
<1>1. RegTypeOK /\ [RegNext]_regVars =>
        [\A e \in EventIds :
            status[e] = "ProposedOutcome" /\ status'[e] = "Finalized" =>
                /\ outcome'[e] = proposal[e]
                /\ age[e] >= spec[e].disputeWindow]_regVars
  <2> SUFFICES ASSUME RegTypeOK, [RegNext]_regVars, NEW e \in EventIds,
                      status[e] = "ProposedOutcome", status'[e] = "Finalized"
               PROVE  outcome'[e] = proposal[e] /\ age[e] >= spec[e].disputeWindow
    OBVIOUS
  <2>1. ~Created(e) /\ ~Ruled(e) /\ ~Moved(e) /\ ~Untouched(e)
    BY DEF Created, Ruled, Moved, Untouched
  <2>2. ~Observed(e)
    BY DEF Observed, SubmitObservation, MaySubmit, Observing
  <2> QED BY <2>1, <2>2, EventStep DEF Unchallenged, WindowOver
<1> QED BY <1>1, RegTypeCorrect, PTL DEF RegSpec, FinalizedAsProposed

(* Observations, proposals and specifications are written once.             *)
THEOREM HistoryForever == RegSpec => HistoryIsKept
<1>1. RegTypeOK /\ PhaseConsistent /\ [RegNext]_regVars =>
        [\A e \in EventIds :
            /\ \A r \in Resolvers : HasSubmitted(e, r) =>
                    observation'[e][r] = observation[e][r]
            /\ proposal[e] # NoPayload => proposal'[e] = proposal[e]
            /\ status[e] # "None" => spec'[e] = spec[e]]_regVars
  <2> SUFFICES ASSUME RegTypeOK, PhaseConsistent, [RegNext]_regVars, NEW e \in EventIds
               PROVE  /\ \A r \in Resolvers : HasSubmitted(e, r) =>
                            observation'[e][r] = observation[e][r]
                      /\ proposal[e] # NoPayload => proposal'[e] = proposal[e]
                      /\ status[e] # "None" => spec'[e] = spec[e]
    OBVIOUS
  <2>1. CASE Observed(e)
    BY <2>1 DEF Observed, SubmitObservation, MaySubmit, HasSubmitted, PhaseConsistent, RegTypeOK
  <2>2. CASE ~Observed(e)
    BY <2>2, EventStep DEF Created, Unchallenged, Ruled, Moved, Untouched, SameRecord
  <2> QED BY <2>1, <2>2
<1> QED BY <1>1, RegTypeCorrect, PhaseConsistency, PTL DEF RegSpec, HistoryIsKept

-----------------------------------------------------------------------------
(* The values of the refinement mapping, phase by phase.                    *)
LEMMA PhaseValues ==
    /\ PhaseOf("None") = "None"
    /\ PhaseOf("Open") = "Pending" /\ PhaseOf("ObservationsSubmitted") = "Pending"
    /\ PhaseOf("ProposedOutcome") = "Contestable"
    /\ PhaseOf("Disputed") = "Contested"
    /\ PhaseOf("Finalized") = "Decided"
    /\ PhaseOf("Voided") = "Void" /\ PhaseOf("Expired") = "Void"
  BY DEF PhaseOf, Observing

LEMMA AnswerValues ==
    ASSUME NEW e \in EventIds
    PROVE  /\ status[e] = "ProposedOutcome" => AnswerOf(e) = {proposal[e].outcome}
           /\ status[e] = "Finalized" => AnswerOf(e) = {outcome[e].outcome}
           /\ status[e] \notin {"ProposedOutcome", "Finalized"} => AnswerOf(e) = {}
  BY DEF AnswerOf

(* A step that leaves every event but f untouched changes the abstract life *)
(* of f alone.                                                              *)
LEMMA OnePhaseChanges ==
    ASSUME NEW f \in EventIds, \A e \in EventIds \ {f} : Untouched(e)
    PROVE  /\ [e \in EventIds |-> PhaseOf(status[e])]' =
                [[e \in EventIds |-> PhaseOf(status[e])] EXCEPT ![f] = PhaseOf(status'[f])]
           /\ [e \in EventIds |-> AnswerOf(e)]' =
                [[e \in EventIds |-> AnswerOf(e)] EXCEPT ![f] = AnswerOf(f)']
<1>1. \A e \in EventIds \ {f} : /\ status'[e] = status[e]
                                /\ AnswerOf(e)' = AnswerOf(e)
  BY DEF Untouched, SameRecord, AnswerOf
<1> QED BY <1>1

(* The registry implements the abstract life of an event: no answer is      *)
(* published that could not be contested or was not decided by the          *)
(* committees, and what is published stays.                                 *)
THEOREM RegistryImplementsLifecycle == RegSpec => ImplementsLifecycle
<1> DEFINE ph == [e \in EventIds |-> PhaseOf(status[e])]
           an == [e \in EventIds |-> AnswerOf(e)]
<1>1. RegInit => Lifecycle!Init
  BY PhaseValues, AnswerValues DEF RegInit, Lifecycle!Init
<1>2. RegTypeOK /\ RegTypeOK' /\ PhaseConsistent /\ PhaseConsistent' /\ [RegNext]_regVars
        => [Lifecycle!Next]_(Lifecycle!vars)
  <2> SUFFICES ASSUME RegTypeOK, RegTypeOK', PhaseConsistent, PhaseConsistent',
                      [RegNext]_regVars
               PROVE  [Lifecycle!Next]_(Lifecycle!vars)
    OBVIOUS
  <2> HIDE DEF ph, an
  <2>0. ASSUME NEW f \in EventIds, \A e \in EventIds \ {f} : Untouched(e)
        PROVE  /\ ph' = [ph EXCEPT ![f] = PhaseOf(status'[f])]
               /\ an' = [an EXCEPT ![f] = AnswerOf(f)']
               /\ ph[f] = PhaseOf(status[f])
               /\ an[f] = AnswerOf(f)
               /\ ph = [e \in EventIds |-> ph[e]]
               /\ an = [e \in EventIds |-> an[e]]
    BY <2>0, OnePhaseChanges DEF ph, an
  <2>1. CASE \E es \in SUBSET EventIds : \E batch \in [es -> Specs] : CreateEvents(batch)
    <3>1. PICK es \in SUBSET EventIds : \E batch \in [es -> Specs] : CreateEvents(batch)
      BY <2>1
    <3>2. PICK batch \in [es -> Specs] : CreateEvents(batch)
      BY <3>1
    <3>3. \A e \in EventIds : AnswerOf(e)' = AnswerOf(e)
      BY <3>2 DEF CreateEvents, AnswerOf
    <3>4. Lifecycle!Create(es)
      BY <3>2, <3>3, PhaseValues DEF CreateEvents, Lifecycle!Create
    <3> QED BY <3>4 DEF Lifecycle!Next
  <2>2. CASE \E f \in EventIds, r \in Resolvers, p \in Payloads : SubmitObservation(f, r, p)
    <3>1. PICK f \in EventIds, r \in Resolvers, p \in Payloads : SubmitObservation(f, r, p)
      BY <2>2
    <3>2. \A e \in EventIds \ {f} : Untouched(e)
      BY <3>1, OneEventSteps
    <3>3. ph[f] = "Pending" /\ an[f] = {}
      BY <3>1, <3>2, <2>0, PhaseValues, AnswerValues
         DEF SubmitObservation, MaySubmit, Observing
    <3>4. CASE status'[f] = "ProposedOutcome"
      <4>1. proposal'[f] = p
        BY <3>1, <3>4 DEF SubmitObservation, RegTypeOK
      <4>2. AnswerOf(f)' = {p.outcome}
        BY <4>1, <3>4 DEF AnswerOf
      <4>3. /\ ph' = [ph EXCEPT ![f] = "Contestable"]
            /\ an' = [an EXCEPT ![f] = {p.outcome}]
        BY <2>0, <3>2, <3>4, <4>2, PhaseValues
      <4>4. Lifecycle!Offer(f, p.outcome)
        BY <3>3, <4>3 DEF Lifecycle!Offer, ph, an
      <4> QED BY <4>4, PayloadFacts DEF Lifecycle!Next
    <3>5. CASE status'[f] = "ObservationsSubmitted"
      <4>1. AnswerOf(f)' = {}
        BY <3>5 DEF AnswerOf
      <4>2. ph' = ph /\ an' = an
        BY <2>0, <3>2, <3>3, <3>5, <4>1, PhaseValues
      <4> QED BY <4>2 DEF Lifecycle!vars, ph, an
    <3> QED BY <3>1, <3>4, <3>5 DEF SubmitObservation, RegTypeOK
  <2>3. CASE \E f \in EventIds : Finalize(f)
    <3>1. PICK f \in EventIds : Finalize(f)
      BY <2>3
    <3>2. \A e \in EventIds \ {f} : Untouched(e)
      BY <3>1, OneEventSteps DEF Finalize, RegTypeOK
    <3>3. /\ status[f] = "ProposedOutcome" /\ status'[f] = "Finalized"
          /\ outcome'[f] = proposal[f]
      BY <3>1 DEF Finalize, SetFinalized, RegTypeOK
    <3>4. AnswerOf(f)' = AnswerOf(f)
      BY <3>3 DEF AnswerOf
    <3>5. /\ ph[f] = "Contestable"
          /\ ph' = [ph EXCEPT ![f] = "Decided"]
          /\ an' = an
      BY <2>0, <3>2, <3>3, <3>4, PhaseValues
    <3>6. Lifecycle!Accept(f)
      BY <3>5 DEF Lifecycle!Accept, ph, an
    <3> QED BY <3>6 DEF Lifecycle!Next
  <2>4. CASE \E f \in EventIds : Expire(f) \/ VoidEvent(f)
    <3>1. PICK f \in EventIds : Expire(f) \/ VoidEvent(f)
      BY <2>4
    <3>2. \A e \in EventIds \ {f} : Untouched(e)
      BY <3>1, OneEventSteps DEF Expire, VoidEvent, Statuses, Terminal
    <3>3. /\ status[f] \in {"Open", "Disputed"} /\ status'[f] \in {"Expired", "Voided"}
      BY <3>1 DEF Expire, VoidEvent, SetStatus, RegTypeOK
    <3>4. AnswerOf(f)' = AnswerOf(f)
      BY <3>3 DEF AnswerOf
    <3>5. /\ ph[f] \in {"Pending", "Contested"}
          /\ ph' = [ph EXCEPT ![f] = "Void"]
          /\ an' = an
      BY <2>0, <3>2, <3>3, <3>4, PhaseValues
    <3>6. Lifecycle!Abandon(f)
      BY <3>5 DEF Lifecycle!Abandon, ph, an
    <3> QED BY <3>6 DEF Lifecycle!Next
  <2>5. CASE \E f \in EventIds : RegEscalateNonConvergence(f) \/ EscalateToDispute(f)
    <3>1. PICK f \in EventIds : RegEscalateNonConvergence(f) \/ EscalateToDispute(f)
      BY <2>5
    <3>2. \A e \in EventIds \ {f} : Untouched(e)
      BY <3>1, OneEventSteps DEF RegEscalateNonConvergence, EscalateToDispute, Statuses
    <3>3. /\ status[f] \in {"ObservationsSubmitted", "ProposedOutcome"}
          /\ status'[f] = "Disputed"
      BY <3>1 DEF RegEscalateNonConvergence, EscalateToDispute, SetStatus, RegTypeOK
    <3>4. AnswerOf(f)' = {}
      BY <3>3 DEF AnswerOf
    <3>5. /\ ph[f] \in {"Pending", "Contestable"}
          /\ ph' = [ph EXCEPT ![f] = "Contested"]
          /\ an' = [an EXCEPT ![f] = {}]
      BY <2>0, <3>2, <3>3, <3>4, PhaseValues
    <3>6. Lifecycle!Contest(f)
      BY <3>5 DEF Lifecycle!Contest, ph, an
    <3> QED BY <3>6 DEF Lifecycle!Next
  <2>6. CASE \E f \in EventIds, p \in Payloads : FinalizeFromDispute(f, p)
    <3>1. PICK f \in EventIds, p \in Payloads : FinalizeFromDispute(f, p)
      BY <2>6
    <3>2. \A e \in EventIds \ {f} : Untouched(e)
      BY <3>1, OneEventSteps DEF FinalizeFromDispute
    <3>3. /\ status[f] = "Disputed" /\ status'[f] = "Finalized" /\ outcome'[f] = p
      BY <3>1 DEF FinalizeFromDispute, SetFinalized, RegTypeOK
    <3>4. AnswerOf(f)' = {p.outcome}
      BY <3>3 DEF AnswerOf
    <3>5. /\ ph[f] = "Contested"
          /\ ph' = [ph EXCEPT ![f] = "Decided"]
          /\ an' = [an EXCEPT ![f] = {p.outcome}]
      BY <2>0, <3>2, <3>3, <3>4, PhaseValues
    <3>6. Lifecycle!Rule(f, p.outcome)
      BY <3>5 DEF Lifecycle!Rule, ph, an
    <3> QED BY <3>6, PayloadFacts DEF Lifecycle!Next
  <2>7. CASE \/ \E r \in Resolvers, on \in BOOLEAN : SetResolverAuthorization(r, on)
             \/ SetDisputeManager \/ RegTick \/ UNCHANGED regVars
    <3>1. \A e \in EventIds : Untouched(e)
      BY <2>7 DEF SetResolverAuthorization, SetDisputeManager, RegTick, regVars, eventVars,
                  Untouched, SameRecord
    <3>2. \A e \in EventIds : status'[e] = status[e] /\ AnswerOf(e)' = AnswerOf(e)
      BY <3>1 DEF Untouched, SameRecord, AnswerOf
    <3>3. ph' = ph /\ an' = an
      BY <3>2 DEF ph, an
    <3> QED BY <3>3 DEF Lifecycle!vars, ph, an
  <2> QED BY <2>1, <2>2, <2>3, <2>4, <2>5, <2>6, <2>7, StepCases
<1> QED BY <1>1, <1>2, RegTypeCorrect, PhaseConsistency, PTL
        DEF RegSpec, ImplementsLifecycle, Lifecycle!Spec
=============================================================================
