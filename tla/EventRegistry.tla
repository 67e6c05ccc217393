--------------------------- MODULE EventRegistry ---------------------------
(***************************************************************************)
(* contracts/EventRegistry.sol: creation of events, observations by the    *)
(* authorized resolvers, quorum, the undisputed path to finality, and the  *)
(* transitions only the dispute manager may ask for.  Each action is one   *)
(* transaction that succeeds; a call that reverts changes nothing and is   *)
(* not a step.                                                             *)
(*                                                                         *)
(* Time.  The contract compares block.timestamp with absolute timestamps.  *)
(* Here age[e] is the time since event e entered its current phase (its    *)
(* creation, then its proposal), and the timestamps of a specification are *)
(* offsets from the creation of the event, so every comparison keeps its   *)
(* exact boundary.  age stops growing at MaxAge, which lies beyond every   *)
(* offset and window, where no comparison can change any more.             *)
(***************************************************************************)
EXTENDS Integers, FiniteSets

CONSTANTS
    EventIds,     \* the ids createEvent can hand out
    Resolvers,    \* the addresses the owner may authorize as resolvers
    Specs,        \* the event specifications users submit, good and bad ones
    OccurredAt,   \* the occurrence times observers report, as offsets
    MaxWindow,    \* the longest dispute window proposedAt can be added to in a uint64
    MaxAge        \* the age at which the clock of an event stops

ASSUME ResolversAssumption == IsFiniteSet(Resolvers)

ASSUME SpecsAssumption ==
    /\ Specs \subseteq [specVersion : {1, 2}, quorumThreshold : Nat,
                        openTimestamp : Int, observationDeadline : Int,
                        disputeWindow : Nat]
    /\ OccurredAt \subseteq Int

ASSUME MaxAgeAssumption ==
    /\ MaxAge \in Nat
    /\ MaxWindow \in 0..MaxAge
    /\ \A s \in Specs : /\ s.openTimestamp <= MaxAge
                        /\ s.observationDeadline < MaxAge
    /\ \A t \in OccurredAt : t <= MaxAge

VARIABLES
    status,                 \* _status
    spec,                   \* _specs
    observation,            \* _hasSubmitted and _observedOutcome, with the payload logged
    observationCount,       \* _observationCount, per exact payload
    observedOutcomeCount,   \* _observedOutcomeCount, per Boolean outcome
    proposal,               \* _proposals; NoPayload while proposedAt = 0
    outcome,                \* _outcomes; NoPayload while exists is false
    authorized,             \* _authorizedResolvers, the set of _authorizedResolverList
    managerSet,             \* disputeManager # address(0)
    age                     \* time since the event entered its phase, up to MaxAge

eventVars == <<status, spec, observation, observationCount, observedOutcomeCount,
               proposal, outcome, age>>
regVars   == <<eventVars, authorized, managerSet>>

-----------------------------------------------------------------------------
(* A payload is its number of 32-byte words, the Boolean in the first and,  *)
(* if there is one, the occurrence time in the second.                      *)
NoPayload == [outcome |-> FALSE, words |-> 0, occurredAt |-> 0]
ShortPayload(b) == [outcome |-> b, words |-> 1, occurredAt |-> 0]
Payloads == {ShortPayload(b) : b \in BOOLEAN} \cup
            [outcome : BOOLEAN, words : {2}, occurredAt : OccurredAt]

NoSpec == [specVersion |-> 0, quorumThreshold |-> 0, openTimestamp |-> 0,
           observationDeadline |-> 0, disputeWindow |-> 0]

Terminal  == {"Finalized", "Voided", "Expired"}
Observing == {"Open", "ObservationsSubmitted"}
Statuses  == {"None", "ProposedOutcome", "Disputed"} \cup Observing \cup Terminal

HasSubmitted(e, r) == observation[e][r] # NoPayload
DeadlinePassed(e)  == age[e] > spec[e].observationDeadline

(* proposedAt + disputeWindowSeconds is checked uint64 arithmetic: a window *)
(* too long to be added reverts whatever compares the current time with it. *)
WindowFits(e) == spec[e].disputeWindow <= MaxWindow
WindowOver_Early(e) == WindowFits(e) /\ age[e] + 1 >= spec[e].disputeWindow  \* mutant
WindowOver(e) == WindowFits(e) /\ age[e] >= spec[e].disputeWindow
WindowOpen_Late(e) == WindowFits(e) /\ age[e] <= spec[e].disputeWindow  \* mutant
WindowOpen(e) == WindowFits(e) /\ age[e] < spec[e].disputeWindow

RegInit ==
    /\ status = [e \in EventIds |-> "None"]
    /\ spec = [e \in EventIds |-> NoSpec]
    /\ observation = [e \in EventIds |-> [r \in Resolvers |-> NoPayload]]
    /\ observationCount = [e \in EventIds |-> [p \in Payloads |-> 0]]
    /\ observedOutcomeCount = [e \in EventIds |-> [b \in BOOLEAN |-> 0]]
    /\ proposal = [e \in EventIds |-> NoPayload]
    /\ outcome = [e \in EventIds |-> NoPayload]
    /\ authorized = {}
    /\ managerSet = FALSE
    /\ age = [e \in EventIds |-> 0]

-----------------------------------------------------------------------------
WellFormed_NoQuorum(s) == s.observationDeadline > s.openTimestamp  \* mutant
WellFormed(s) == /\ s.quorumThreshold > 0
                 /\ s.observationDeadline > s.openTimestamp

MaxBatch == 16  \* MAX_BATCH

(* createEvent is a batch of one; one malformed specification reverts the   *)
(* whole batch.                                                             *)
CreateEvents(batch) ==
    /\ DOMAIN batch # {}
    /\ Cardinality(DOMAIN batch) <= MaxBatch
    /\ \A e \in DOMAIN batch : status[e] = "None" /\ WellFormed(batch[e])
    /\ spec' = [e \in EventIds |-> IF e \in DOMAIN batch THEN batch[e] ELSE spec[e]]
    /\ status' = [e \in EventIds |-> IF e \in DOMAIN batch THEN "Open" ELSE status[e]]
    /\ UNCHANGED <<observation, observationCount, observedOutcomeCount, proposal,
                   outcome, age, authorized, managerSet>>

MaySubmit_Again(e, r) == r \in authorized /\ status[e] \in Observing  \* mutant
MaySubmit(e, r) == /\ r \in authorized
                   /\ status[e] \in Observing
                   /\ ~HasSubmitted(e, r)

AcceptablePayload(e, p) ==
    spec[e].specVersion >= 2 => p.words = 2 /\ p.occurredAt <= age[e]

QuorumReached_OneMore(e, n) == n > spec[e].quorumThreshold  \* mutant
QuorumReached(e, n) == n >= spec[e].quorumThreshold /\ proposal[e] = NoPayload

SubmitObservation(e, r, p) ==
    LET count == observationCount[e][p] + 1
        quorum == QuorumReached(e, count)
    IN  /\ MaySubmit(e, r)
        /\ age[e] >= spec[e].openTimestamp
        /\ ~DeadlinePassed(e)
        /\ AcceptablePayload(e, p)
        /\ observation' = [observation EXCEPT ![e][r] = p]
        /\ observedOutcomeCount' = [observedOutcomeCount EXCEPT ![e][p.outcome] = @ + 1]
        /\ observationCount' = [observationCount EXCEPT ![e][p] = count]
        /\ status' = [status EXCEPT ![e] =
                        IF quorum THEN "ProposedOutcome" ELSE "ObservationsSubmitted"]
        /\ proposal' = [proposal EXCEPT ![e] = IF quorum THEN p ELSE @]
        /\ age' = [age EXCEPT ![e] = IF quorum THEN 0 ELSE @]
        /\ UNCHANGED <<spec, outcome, authorized, managerSet>>

(* The record every path to finality ends in (_finalize). *)
SetFinalized(e, p) ==
    /\ outcome' = [outcome EXCEPT ![e] = p]
    /\ status' = [status EXCEPT ![e] = "Finalized"]
    /\ age' = [age EXCEPT ![e] = 0]
    /\ UNCHANGED <<spec, observation, observationCount, observedOutcomeCount,
                   proposal, authorized, managerSet>>

SetStatus_Clearing(e, s) ==  \* mutant: the proposal is deleted
    /\ status' = [status EXCEPT ![e] = s]
    /\ age' = [age EXCEPT ![e] = 0]
    /\ proposal' = [proposal EXCEPT ![e] = NoPayload]
    /\ UNCHANGED <<spec, observation, observationCount, observedOutcomeCount,
                   outcome, authorized, managerSet>>

SetStatus(e, s) ==
    /\ status' = [status EXCEPT ![e] = s]
    /\ age' = [age EXCEPT ![e] = 0]
    /\ UNCHANGED <<spec, observation, observationCount, observedOutcomeCount,
                   proposal, outcome, authorized, managerSet>>

Finalize(e) == /\ status[e] = "ProposedOutcome"
               /\ WindowOver(e)
               /\ SetFinalized(e, proposal[e])

Expire_Observed(e) == /\ status[e] \in Observing  \* mutant
                      /\ DeadlinePassed(e)
                      /\ SetStatus(e, "Expired")

Expire(e) == /\ status[e] = "Open"
             /\ DeadlinePassed(e)
             /\ SetStatus(e, "Expired")

-----------------------------------------------------------------------------
(* The transitions reserved to the dispute manager (onlyDisputeManager).    *)
RegEscalateNonConvergence(e) == /\ managerSet
                                /\ status[e] = "ObservationsSubmitted"
                                /\ DeadlinePassed(e)
                                /\ SetStatus(e, "Disputed")

EscalateToDispute(e) == /\ managerSet
                        /\ status[e] \in {"ProposedOutcome", "ObservationsSubmitted"}
                        /\ SetStatus(e, "Disputed")

FinalizeFromDispute(e, p) == /\ managerSet
                             /\ status[e] = "Disputed"
                             /\ SetFinalized(e, p)

VoidEvent_Proposed(e) == /\ managerSet  \* mutant
                         /\ status[e] \in {"Disputed", "ProposedOutcome"}
                         /\ SetStatus(e, "Voided")

VoidEvent(e) == /\ managerSet
                /\ status[e] = "Disputed"
                /\ SetStatus(e, "Voided")

-----------------------------------------------------------------------------
SetResolverAuthorization(r, on) ==
    /\ authorized' = IF on THEN authorized \cup {r} ELSE authorized \ {r}
    /\ UNCHANGED <<eventVars, managerSet>>

SetDisputeManager == /\ ~managerSet
                     /\ managerSet' = TRUE
                     /\ UNCHANGED <<eventVars, authorized>>

(* The clock runs for events whose next step depends on time. *)
Timed(e) == status[e] \in Observing \cup {"ProposedOutcome"}

RegTick == /\ age' = [e \in EventIds |->
                        IF Timed(e) /\ age[e] < MaxAge THEN age[e] + 1 ELSE age[e]]
           /\ UNCHANGED <<status, spec, observation, observationCount,
                          observedOutcomeCount, proposal, outcome, authorized, managerSet>>

-----------------------------------------------------------------------------
(* Anyone may create events, observe, finalize and expire. *)
PublicStep ==
    \/ \E es \in SUBSET EventIds : \E batch \in [es -> Specs] : CreateEvents(batch)
    \/ \E e \in EventIds :
          \/ \E r \in Resolvers, p \in Payloads : SubmitObservation(e, r, p)
          \/ Finalize(e)
          \/ Expire(e)

OwnerStep == \/ \E r \in Resolvers, on \in BOOLEAN : SetResolverAuthorization(r, on)
             \/ SetDisputeManager

(* Any call the registry accepts from whatever contract is its manager. *)
ManagerStep ==
    \E e \in EventIds :
        \/ RegEscalateNonConvergence(e)
        \/ EscalateToDispute(e)
        \/ \E p \in Payloads : FinalizeFromDispute(e, p)
        \/ VoidEvent(e)

RegNext == PublicStep \/ OwnerStep \/ ManagerStep \/ RegTick

RegSpec == RegInit /\ [][RegNext]_regVars

-----------------------------------------------------------------------------
(* The variables keep the types the contract declares, and every event has  *)
(* a specification with a quorum to reach and a window to observe in.       *)
RegTypeOK ==
    /\ status \in [EventIds -> Statuses]
    /\ spec \in [EventIds -> {s \in Specs : s.quorumThreshold > 0 /\
                                s.observationDeadline > s.openTimestamp} \cup {NoSpec}]
    /\ observation \in [EventIds -> [Resolvers -> Payloads \cup {NoPayload}]]
    /\ observationCount \in [EventIds -> [Payloads -> Nat]]
    /\ observedOutcomeCount \in [EventIds -> [BOOLEAN -> Nat]]
    /\ proposal \in [EventIds -> Payloads \cup {NoPayload}]
    /\ outcome \in [EventIds -> Payloads \cup {NoPayload}]
    /\ authorized \subseteq Resolvers
    /\ managerSet \in BOOLEAN
    /\ age \in [EventIds -> 0..MaxAge]

Supporters(e, p) == {r \in Resolvers : observation[e][r] = p}
Observers(e, b)  == {r \in Resolvers : HasSubmitted(e, r) /\ observation[e][r].outcome = b}

(* The counters agree with the resolvers that submitted: the one quorum is  *)
(* measured with, per exact payload, and the one TreasuryVault divides the  *)
(* resolvers' fees by, per Boolean outcome (submitObservation).             *)
CountsAgree ==
    \A e \in EventIds :
        /\ \A p \in Payloads : observationCount[e][p] = Cardinality(Supporters(e, p))
        /\ \A b \in BOOLEAN : observedOutcomeCount[e][b] = Cardinality(Observers(e, b))

(* A proposal carries the exact payload of at least quorumThreshold         *)
(* distinct resolvers, and an event with such a payload cannot sit in the   *)
(* observing phases: quorum is noticed by the submission that reaches it.   *)
QuorumBacked ==
    \A e \in EventIds :
        /\ proposal[e] # NoPayload =>
              Cardinality(Supporters(e, proposal[e])) >= spec[e].quorumThreshold
        /\ status[e] \in Observing =>
              \A p \in Payloads : Cardinality(Supporters(e, p)) < spec[e].quorumThreshold

(* What is stored fits the phase: a proposal exists from the moment the     *)
(* event is proposed, an outcome exists exactly when it is Finalized, and   *)
(* an event expires only if nobody observed it.                             *)
PhaseConsistent ==
    \A e \in EventIds :
        /\ status[e] = "ProposedOutcome" => proposal[e] # NoPayload
        /\ status[e] \in {"None"} \cup Observing => proposal[e] = NoPayload
        /\ status[e] = "Finalized" <=> outcome[e] # NoPayload
        /\ status[e] \in {"None", "Open", "Expired"} =>
              \A r \in Resolvers : ~HasSubmitted(e, r)

(* An event that reached the end of its life keeps its status and outcome   *)
(* forever: the cached answers of composites, markets and vault rely on it. *)
TerminalIsFinal ==
    [][\A e \in EventIds : status[e] \in Terminal =>
            status'[e] = status[e] /\ outcome'[e] = outcome[e]]_regVars

(* A proposal leaves its window undisputed only with its own payload, and   *)
(* only a full dispute window after it was made.                            *)
FinalizedAsProposed ==
    [][\A e \in EventIds :
            status[e] = "ProposedOutcome" /\ status'[e] = "Finalized" =>
                /\ outcome'[e] = proposal[e]
                /\ age[e] >= spec[e].disputeWindow]_regVars

(* A record of what was said is never rewritten: no resolver's observation  *)
(* and no proposal changes once made, whatever follows.                     *)
HistoryIsKept ==
    [][\A e \in EventIds :
            /\ \A r \in Resolvers : HasSubmitted(e, r) =>
                    observation'[e][r] = observation[e][r]
            /\ proposal[e] # NoPayload => proposal'[e] = proposal[e]
            /\ status[e] # "None" => spec'[e] = spec[e]]_regVars

-----------------------------------------------------------------------------
(* The registry implements the abstract life of an event.                   *)
PhaseOf(s) == CASE s = "None" -> "None"
                [] s \in Observing -> "Pending"
                [] s = "ProposedOutcome" -> "Contestable"
                [] s = "Disputed" -> "Contested"
                [] s = "Finalized" -> "Decided"
                [] s \in {"Voided", "Expired"} -> "Void"

AnswerOf(e) == CASE status[e] = "ProposedOutcome" -> {proposal[e].outcome}
                 [] status[e] = "Finalized" -> {outcome[e].outcome}
                 [] OTHER -> {}

Lifecycle == INSTANCE EventLifecycle
             WITH phase <- [e \in EventIds |-> PhaseOf(status[e])],
                  answer <- [e \in EventIds |-> AnswerOf(e)]

(* Every step of the registry is a step of EventLifecycle or changes        *)
(* nothing a consumer can see.                                              *)
ImplementsLifecycle == Lifecycle!Spec
=============================================================================
