------------------------ MODULE EventComposerProofs ------------------------
(***************************************************************************)
(* What holds of EventComposer, and of what applications read of it on     *)
(* EventBus, for every set of events and composites, any limits, and any   *)
(* registry that implements EventLifecycle.                                *)
(***************************************************************************)
EXTENDS EventBus, SequenceTheorems, SumTheorems, TLAPS

(* A composite has as many operands as its operator takes.                  *)
CountOK == \A c \in CompositeIds :
              Exists(c) => OperandCountOK(composite[c].op, Len(composite[c].operands))

(* What a step may do to an event: it is never forgotten, and once it is    *)
(* decided or void it stays as it is.                                       *)
LEMMA EventsStand ==
    ASSUME Registry!TypeOK, Registry!Next
    PROVE  /\ Registry!TypeOK'
           /\ \A e \in EventIds :
                /\ phase[e] # "None" => phase'[e] # "None"
                /\ phase[e] \in {"Decided", "Void"} =>
                      phase'[e] = phase[e] /\ answer'[e] = answer[e]
<1> USE DEF Registry!TypeOK, Registry!Phases
<1>1. CASE \E es \in SUBSET EventIds : Registry!Create(es)
  BY <1>1 DEF Registry!Create
<1>2. CASE \E e \in EventIds, b \in BOOLEAN : Registry!Offer(e, b) \/ Registry!Rule(e, b)
  BY <1>2 DEF Registry!Offer, Registry!Rule
<1>3. CASE \E e \in EventIds : Registry!Accept(e)
  BY <1>3 DEF Registry!Accept
<1>4. CASE \E e \in EventIds : Registry!Contest(e)
  BY <1>4 DEF Registry!Contest
<1>5. CASE \E e \in EventIds : Registry!Abandon(e)
  BY <1>5 DEF Registry!Abandon
<1> QED BY <1>1, <1>2, <1>3, <1>4, <1>5 DEF Registry!Next

(* The operands that are stored are a list of ids as long as the given one. *)
LEMMA CanonicalType ==
    ASSUME NEW op, NEW given \in BoundedSeq(Ids, MaxOperands), NEW s \in Canonical(op, given)
    PROVE  s \in Seq(Ids) /\ Len(s) = Len(given) /\ DOMAIN s = 1..Len(s)
<1>1. PICK m \in 0..MaxOperands : given \in [1..m -> Ids]
  BY DEF BoundedSeq, SeqOf
<1>2. m \in Nat
  BY ComposerAssumption
<1>3. given \in Seq(Ids) /\ Len(given) = m
  BY <1>1, <1>2
<1>4. Range(given) \subseteq Ids
  BY <1>1 DEF Range
<1>5. s \in [1..m -> Ids]
  <2>1. CASE op = "Before"
    BY <2>1, <1>1 DEF Canonical
  <2>2. CASE op # "Before"
    <3>1. s \in [DOMAIN given -> Range(given)]
      BY <2>2 DEF Canonical
    <3> QED BY <3>1, <1>1, <1>4
  <2> QED BY <2>1, <2>2
<1> QED BY <1>2, <1>3, <1>5

(* The effect of createComposite: an id without a definition gets one.      *)
LEMMA Creation ==
    ASSUME NEW c \in CompositeIds, NEW op \in Ops, NEW given \in BoundedSeq(Ids, MaxOperands),
           NEW window \in Windows, CreateComposite(c, op, given, window)
    PROVE  \E d \in Definitions, n \in 1..MaxDepth :
              /\ Len(d.operands) <= MaxChildren
              /\ OperandCountOK(d.op, Len(d.operands))
              /\ \A i \in DOMAIN d.operands : OperandExists(d.operands[i])
              /\ IsDepth(n, d.operands)
              /\ ~Exists(c)
              /\ composite' = [composite EXCEPT ![c] = d]
              /\ depth' = [depth EXCEPT ![c] = n]
              /\ UNCHANGED <<phase, answer, when, cached, resolvedAt, now>>
<1>1. PICK operands \in Canonical(op, given), n \in 1..MaxDepth :
        LET definition == [op |-> op, operands |-> operands, window |-> window] IN
        /\ OperandCountOK(op, Len(given))
        /\ Len(given) <= MaxChildren
        /\ \A i \in DOMAIN operands : OperandExists(operands[i])
        /\ IsDepth(n, operands)
        /\ ~Exists(c)
        /\ composite' = [composite EXCEPT ![c] = definition]
        /\ depth' = [depth EXCEPT ![c] = n]
        /\ UNCHANGED <<phase, answer, when, cached, resolvedAt, now>>
  BY DEF CreateComposite, eventVars
<1> DEFINE d == [op |-> op, operands |-> operands, window |-> window]
<1>2. operands \in Seq(Ids) /\ Len(operands) = Len(given)
  BY CanonicalType
<1>3. operands # <<>>
  <2> SUFFICES ASSUME operands = <<>> PROVE FALSE
    OBVIOUS
  <2>1. Len(given) = 0
    BY <1>2
  <2> QED BY <1>1, <2>1 DEF OperandCountOK
<1>4. d \in Definitions
  BY <1>2, <1>3 DEF Definitions
<1>5. d.op = op /\ d.operands = operands
  OBVIOUS
<1> HIDE DEF d
<1>6. /\ composite' = [composite EXCEPT ![c] = d]
      /\ Len(d.operands) <= MaxChildren
      /\ OperandCountOK(d.op, Len(d.operands))
  BY <1>1, <1>2, <1>5 DEF d
<1> QED BY <1>1, <1>4, <1>5, <1>6

-----------------------------------------------------------------------------
(* Type correctness: every variable keeps its type, and no definition is    *)
(* wider or deeper than the limits of createComposite.                      *)
LEMMA InitType == Init => TypeOK /\ CountOK
<1> SUFFICES ASSUME Init PROVE TypeOK /\ CountOK
  OBVIOUS
<1>1. Registry!TypeOK
  BY DEF Init, Registry!Init, Registry!TypeOK, Registry!Phases
<1>2. 0 \in 0..MaxTime /\ 0 \in 0..MaxDepth /\ 0 <= MaxChildren
  BY ComposerAssumption
<1>3. NoComposite.operands = <<>> /\ Len(NoComposite.operands) = 0
  BY DEF NoComposite
<1>4. composite \in [CompositeIds -> Definitions \cup {NoComposite}]
  BY DEF Init
<1>5. \A c \in CompositeIds : composite[c] = NoComposite
  BY DEF Init
<1>6. /\ when \in [EventIds -> 0..MaxTime]
      /\ cached \in [CompositeIds -> Verdicts]
      /\ resolvedAt \in [CompositeIds -> 0..MaxTime]
      /\ depth \in [CompositeIds -> 0..MaxDepth]
      /\ now \in 0..MaxTime
  BY <1>2 DEF Init, Verdicts
<1>7. TypeOK
  BY <1>1, <1>2, <1>3, <1>4, <1>5, <1>6 DEF TypeOK
<1>8. CountOK
  BY <1>3, <1>5 DEF CountOK, Exists
<1> QED BY <1>7, <1>8

(* A definition's operator is one of the five.                              *)
LEMMA OpOf == ASSUME NEW d \in Definitions
              PROVE  d.op \in {"And", "Or", "Not", "Before", "Within"}
BY ComposerAssumption DEF Definitions

LEMMA CompareType ==
    ASSUME NEW d \in Definitions, NEW seen, NEW tm
    PROVE  Compare(d, seen, tm) \in {"True", "False"}
BY OpOf DEF Compare, Verdict

LEMMA EvaluateType ==
    ASSUME NEW d \in Definitions, NEW st, NEW tm
    PROVE  Evaluate(d, st, tm) \in Verdicts
<1> DEFINE seen == {st[d.operands[i]] : i \in DOMAIN d.operands}
<1>1. Compare(d, seen, tm) \in {"True", "False"}
  BY CompareType
<1>2. Evaluate(d, st, tm) \in {Deciding(d.op), "Unresolved", "Voided", Compare(d, seen, tm)}
  BY DEF Evaluate
<1> QED BY <1>1, <1>2 DEF Verdicts, Deciding

(* The heart of caching: once the operands seen so far give an answer, the  *)
(* ones that settle later do not change it, if those seen stay as they are. *)
LEMMA EvaluateStable ==
    ASSUME NEW d \in Definitions, OperandCountOK(d.op, Len(d.operands)),
           NEW st, NEW st2, NEW tm, NEW tm2,
           \A i \in DOMAIN d.operands :
              st[d.operands[i]] # "Unresolved" =>
                 /\ st2[d.operands[i]] = st[d.operands[i]]
                 /\ tm2[d.operands[i]] = tm[d.operands[i]],
           Evaluate(d, st, tm) # "Unresolved"
    PROVE  Evaluate(d, st2, tm2) = Evaluate(d, st, tm)
<1> DEFINE seen  == {st[d.operands[i]] : i \in DOMAIN d.operands}
           seen2 == {st2[d.operands[i]] : i \in DOMAIN d.operands}
<1>1. CASE d.op # "Not" /\ Deciding(d.op) \in seen
  <2>1. Deciding(d.op) # "Unresolved"
    BY DEF Deciding
  <2>2. Deciding(d.op) \in seen2
    BY <1>1, <2>1
  <2> QED BY <1>1, <2>2 DEF Evaluate
<1>2. CASE ~(d.op # "Not" /\ Deciding(d.op) \in seen)
  <2>1. "Unresolved" \notin seen
    BY <1>2 DEF Evaluate
  <2>2. \A i \in DOMAIN d.operands : /\ st2[d.operands[i]] = st[d.operands[i]]
                                     /\ tm2[d.operands[i]] = tm[d.operands[i]]
    BY <2>1
  <2>3. seen2 = seen
    BY <2>2
  <2>4. Compare(d, seen, tm2) = Compare(d, seen, tm)
    <3>1. CASE d.op \in {"Before", "Within"}
      <4>1. d.operands \in Seq(Ids) /\ Len(d.operands) = 2
        BY <3>1 DEF Definitions, OperandCountOK
      <4>2. 1 \in DOMAIN d.operands /\ 2 \in DOMAIN d.operands
        BY <4>1
      <4>3. tm2[d.operands[1]] = tm[d.operands[1]] /\ tm2[d.operands[2]] = tm[d.operands[2]]
        BY <2>2, <4>2
      <4> QED BY <4>3 DEF Compare, InOrder, InWindow
    <3>2. CASE d.op \in {"And", "Or", "Not"}
      BY <3>2 DEF Compare
    <3> QED BY <3>1, <3>2, OpOf
  <2> QED BY <2>3, <2>4 DEF Evaluate
<1> QED BY <1>1, <1>2

-----------------------------------------------------------------------------
(* What one step may do, seen from the definitions: they stay, and what an  *)
(* id came to, and when, stays.                                             *)
SettledStays == \A id \in Ids : Statuses[id] # "Unresolved" =>
                                   Statuses'[id] = Statuses[id] /\ Times'[id] = Times[id]

LEMMA RegistrySettled ==
    ASSUME TypeOK, RegistryStep
    PROVE  SettledStays /\ \A e \in EventIds : phase[e] # "None" => phase'[e] # "None"
<1>1. /\ \A e \in EventIds :
           /\ phase[e] # "None" => phase'[e] # "None"
           /\ phase[e] \in {"Decided", "Void"} => phase'[e] = phase[e] /\ answer'[e] = answer[e]
      /\ UNCHANGED <<cached, resolvedAt>>
  BY EventsStand DEF TypeOK, RegistryStep, composerVars
<1>2. \A e \in EventIds : phase[e] \in {"Decided", "Void"} => when'[e] = when[e]
  BY <1>1 DEF RegistryStep, Decides
<1>3. ASSUME NEW id \in Ids, Statuses[id] # "Unresolved"
      PROVE  Statuses'[id] = Statuses[id] /\ Times'[id] = Times[id]
  <2>1. CASE id \in EventIds
    <3>1. Statuses[id] = EventStatus(id) /\ Statuses'[id] = EventStatus(id)'
      BY <1>3, <2>1 DEF Statuses
    <3>2. Times[id] = when[id] /\ Times'[id] = when'[id]
      BY <1>3, <2>1 DEF Times
    <3>3. phase[id] \in {"Decided", "Void"}
      BY <1>3, <3>1 DEF EventStatus
    <3> QED BY <3>1, <3>2, <3>3, <2>1, <1>1, <1>2 DEF EventStatus
  <2>2. CASE id \notin EventIds
    <3>1. Statuses[id] = cached[id] /\ Statuses'[id] = cached'[id]
      BY <1>3, <2>2 DEF Statuses
    <3>2. Times[id] = resolvedAt[id] /\ Times'[id] = resolvedAt'[id]
      BY <1>3, <2>2 DEF Times
    <3> QED BY <3>1, <3>2, <1>1
  <2> QED BY <2>1, <2>2
<1> QED BY <1>1, <1>3 DEF SettledStays

(* A composite that is resolved had no answer before.                       *)
LEMMA ResolveSettled ==
    ASSUME TypeOK, NEW c \in CompositeIds, TryResolve(c)
    PROVE  SettledStays
<1> SUFFICES ASSUME NEW id \in Ids, Statuses[id] # "Unresolved"
             PROVE  Statuses'[id] = Statuses[id] /\ Times'[id] = Times[id]
  BY DEF SettledStays
<1>1. UNCHANGED <<phase, answer, when>>
  BY DEF TryResolve, eventVars
<1>2. CASE id \in EventIds
  BY <1>1, <1>2 DEF Statuses, Times, EventStatus
<1>3. CASE id \notin EventIds
  <2>1. cached[id] # "Unresolved" /\ id # c
    BY <1>3 DEF Statuses, TryResolve
  <2>2. cached'[id] = cached[id] /\ resolvedAt'[id] = resolvedAt[id]
    BY <2>1 DEF TryResolve, TypeOK
  <2> QED BY <2>2, <1>3 DEF Statuses, Times
<1> QED BY <1>2, <1>3

LEMMA FrameSettled ==
    ASSUME UNCHANGED <<phase, answer, when, cached, resolvedAt>>
    PROVE  Statuses' = Statuses /\ Times' = Times /\ SettledStays
BY DEF Statuses, Times, EventStatus, SettledStays

(* A composite that exists keeps its definition, and one that is created    *)
(* gets a definition of the right shape.                                    *)
DefinitionsStand ==
    \A c \in CompositeIds :
       IF Exists(c) THEN composite'[c] = composite[c] /\ depth'[c] = depth[c]
       ELSE \/ composite'[c] = composite[c] /\ depth'[c] = depth[c]
            \/ /\ composite'[c] \in Definitions
               /\ Len(composite'[c].operands) <= MaxChildren
               /\ OperandCountOK(composite'[c].op, Len(composite'[c].operands))
               /\ \A i \in DOMAIN composite'[c].operands : OperandExists(composite'[c].operands[i])
               /\ depth'[c] \in 1..MaxDepth
               /\ IsDepth(depth'[c], composite'[c].operands)
               /\ cached'[c] = cached[c]

(* Every step of the composer and of the world around it, put together.     *)
LEMMA StepFacts ==
    ASSUME TypeOK, [Next]_vars
    PROVE  /\ SettledStays
           /\ DefinitionsStand
           /\ \A e \in EventIds : phase[e] # "None" => phase'[e] # "None"
<1>1. CASE RegistryStep
  <2>1. DefinitionsStand
    BY <1>1 DEF RegistryStep, composerVars, DefinitionsStand
  <2> QED BY <1>1, <2>1, RegistrySettled
<1>2. ASSUME NEW c \in CompositeIds, NEW op \in Ops, NEW window \in Windows,
             NEW given \in BoundedSeq(Ids, MaxOperands), CreateComposite(c, op, given, window)
      PROVE  SettledStays /\ DefinitionsStand /\ UNCHANGED phase
  <2>1. PICK d \in Definitions, n \in 1..MaxDepth :
              /\ Len(d.operands) <= MaxChildren
              /\ OperandCountOK(d.op, Len(d.operands))
              /\ \A i \in DOMAIN d.operands : OperandExists(d.operands[i])
              /\ IsDepth(n, d.operands)
              /\ ~Exists(c)
              /\ composite' = [composite EXCEPT ![c] = d]
              /\ depth' = [depth EXCEPT ![c] = n]
              /\ UNCHANGED <<phase, answer, when, cached, resolvedAt, now>>
    BY <1>2, Creation
  <2>2. SettledStays
    BY <2>1, FrameSettled
  <2>3. DefinitionsStand
    <3> SUFFICES ASSUME NEW x \in CompositeIds
                 PROVE  IF Exists(x) THEN composite'[x] = composite[x] /\ depth'[x] = depth[x]
       ELSE \/ composite'[x] = composite[x] /\ depth'[x] = depth[x]
            \/ /\ composite'[x] \in Definitions
               /\ Len(composite'[x].operands) <= MaxChildren
               /\ OperandCountOK(composite'[x].op, Len(composite'[x].operands))
               /\ \A i \in DOMAIN composite'[x].operands : OperandExists(composite'[x].operands[i])
               /\ depth'[x] \in 1..MaxDepth
               /\ IsDepth(depth'[x], composite'[x].operands)
               /\ cached'[x] = cached[x]
      BY DEF DefinitionsStand
    <3>1. CASE x = c
      <4>1. composite'[x] = d /\ depth'[x] = n /\ ~Exists(x) /\ cached'[x] = cached[x]
        BY <2>1, <3>1 DEF TypeOK
      <4> QED BY <2>1, <4>1
    <3>2. CASE x # c
      <4>1. composite'[x] = composite[x] /\ depth'[x] = depth[x]
        BY <2>1, <3>2 DEF TypeOK
      <4> QED BY <4>1
    <3> QED BY <3>1, <3>2
  <2> QED BY <2>1, <2>2, <2>3
<1>3. ASSUME NEW c \in CompositeIds, TryResolve(c)
      PROVE  SettledStays /\ DefinitionsStand /\ UNCHANGED phase
  <2>1. UNCHANGED <<composite, depth, phase>>
    BY <1>3 DEF TryResolve, eventVars
  <2> QED BY <1>3, <2>1, ResolveSettled DEF DefinitionsStand
<1>4. CASE Tick \/ UNCHANGED vars
  <2>1. UNCHANGED <<phase, answer, when, composite, cached, resolvedAt, depth>>
    BY <1>4 DEF Tick, vars, eventVars, composerVars
  <2> QED BY <2>1, FrameSettled DEF DefinitionsStand
<1> QED BY <1>1, <1>2, <1>3, <1>4 DEF Next, ComposerStep

(* One step keeps the types: only a creation and a resolution change what   *)
(* the composer stores.                                                     *)
LEMMA TypeStep == TypeOK /\ [Next]_vars => TypeOK'
<1> SUFFICES ASSUME TypeOK, [Next]_vars PROVE TypeOK'
  OBVIOUS
<1>1. DefinitionsStand
  BY StepFacts
<1>2. composite' \in [CompositeIds -> Definitions \cup {NoComposite}]
      /\ depth' \in [CompositeIds -> 0..MaxDepth]
  <2>1. CASE UNCHANGED <<composite, depth>>
    BY <2>1 DEF TypeOK
  <2>2. ASSUME NEW c \in CompositeIds, NEW op \in Ops, NEW window \in Windows,
           NEW given \in BoundedSeq(Ids, MaxOperands), CreateComposite(c, op, given, window)
        PROVE  /\ composite' \in [CompositeIds -> Definitions \cup {NoComposite}]
               /\ depth' \in [CompositeIds -> 0..MaxDepth]
    <3>1. \E d \in Definitions, n \in 1..MaxDepth :
              /\ composite' = [composite EXCEPT ![c] = d]
              /\ depth' = [depth EXCEPT ![c] = n]
      BY <2>2, Creation
    <3>2. \A n \in 1..MaxDepth : n \in 0..MaxDepth
      BY ComposerAssumption
    <3> QED BY <3>1, <3>2 DEF TypeOK
  <2> QED BY <2>1, <2>2 DEF Next, ComposerStep, RegistryStep, TryResolve, Tick, vars, composerVars
<1>3. \A c \in CompositeIds : Len(composite'[c].operands) <= MaxChildren
  BY <1>1 DEF DefinitionsStand, TypeOK
<1>4. Registry!TypeOK' /\ when' \in [EventIds -> 0..MaxTime]
  <2>1. CASE RegistryStep
    <3>1. PICK t \in 0..now : when' = [e \in EventIds |-> IF Decides(e) THEN t ELSE when[e]]
      BY <2>1 DEF RegistryStep
    <3>2. t \in 0..MaxTime
      BY ComposerAssumption DEF TypeOK
    <3>3. when' \in [EventIds -> 0..MaxTime]
      BY <3>1, <3>2 DEF TypeOK
    <3> QED BY <2>1, <3>3, EventsStand DEF TypeOK, RegistryStep
  <2>2. CASE UNCHANGED eventVars
    BY <2>2 DEF TypeOK, eventVars, Registry!TypeOK
  <2> QED BY <2>1, <2>2 DEF Next, ComposerStep, CreateComposite, TryResolve, Tick, vars
<1>5. cached' \in [CompositeIds -> Verdicts] /\ resolvedAt' \in [CompositeIds -> 0..MaxTime]
  <2>1. CASE UNCHANGED <<cached, resolvedAt>>
    BY <2>1 DEF TypeOK
  <2>2. ASSUME NEW c \in CompositeIds, TryResolve(c)
        PROVE  /\ cached' \in [CompositeIds -> Verdicts]
               /\ resolvedAt' \in [CompositeIds -> 0..MaxTime]
    <3>1. composite[c] \in Definitions
      BY <2>2 DEF TypeOK, TryResolve, Exists, NoComposite
    <3>2. Evaluate(composite[c], Statuses, Times) \in Verdicts
      BY <3>1, EvaluateType
    <3> QED BY <2>2, <3>2 DEF TryResolve, TypeOK
  <2> QED BY <2>1, <2>2 DEF Next, ComposerStep, CreateComposite, RegistryStep, Tick, vars, composerVars
<1>6. now' \in 0..MaxTime
  <2>1. CASE Tick
    BY <2>1, ComposerAssumption DEF Tick, TypeOK
  <2>2. CASE UNCHANGED now
    BY <2>2 DEF TypeOK
  <2> QED BY <2>1, <2>2 DEF Next, ComposerStep, CreateComposite, RegistryStep, TryResolve, vars
<1> QED BY <1>2, <1>3, <1>4, <1>5, <1>6 DEF TypeOK

(* Type correctness: every variable keeps its type, and no definition is    *)
(* wider or deeper than the limits createComposite sets.                    *)
THEOREM ComposerTypeCorrect == Spec => []TypeOK
BY InitType, TypeStep, PTL DEF Spec

-----------------------------------------------------------------------------
(* Composition is acyclic, for hashes of any kind: an operand existed when  *)
(* its composite was created, stays, and is less deep (createComposite).    *)
THEOREM CompositionWellFounded == Spec => []WellFounded
<1>1. Init => WellFounded
  <2> SUFFICES ASSUME Init, NEW c \in CompositeIds PROVE composite[c].operands = <<>>
    BY DEF WellFounded
  <2> QED BY DEF Init, NoComposite
<1>2. TypeOK /\ WellFounded /\ [Next]_vars => WellFounded'
  <2> SUFFICES ASSUME TypeOK, WellFounded, [Next]_vars,
                      NEW c \in CompositeIds, NEW i \in DOMAIN composite'[c].operands,
                      NEW id, id = composite'[c].operands[i]
               PROVE  OperandExists(id)' /\ DepthOf(id)' < depth'[c]
    BY DEF WellFounded, OperandExists, DepthOf, Exists
  <2>1. DefinitionsStand /\ \A e \in EventIds : phase[e] # "None" => phase'[e] # "None"
    BY StepFacts
  <2>2. OperandExists(id) /\ DepthOf(id) < depth'[c] /\ id \in Ids
    <3>1. CASE composite'[c] = composite[c] /\ depth'[c] = depth[c]
      <4>1. composite[c] \in Definitions
        BY <3>1 DEF TypeOK, NoComposite
      <4>2. id \in Ids
        BY <3>1, <4>1, ElementOfSeq, LenProperties DEF Definitions
      <4> QED BY <3>1, <4>2 DEF WellFounded
    <3>2. CASE ~(composite'[c] = composite[c] /\ depth'[c] = depth[c])
      <4>1. /\ composite'[c] \in Definitions
            /\ \A k \in DOMAIN composite'[c].operands : OperandExists(composite'[c].operands[k])
            /\ IsDepth(depth'[c], composite'[c].operands)
        BY <3>2, <2>1 DEF DefinitionsStand
      <4>2. id \in Ids
        BY <4>1, ElementOfSeq, LenProperties DEF Definitions
      <4> QED BY <4>1, <4>2 DEF IsDepth
    <3> QED BY <3>1, <3>2
  <2>3. CASE id \in EventIds
    BY <2>1, <2>2, <2>3 DEF OperandExists, DepthOf
  <2>4. CASE id \in CompositeIds /\ id \notin EventIds
    <3>1. Exists(id)
      BY <2>2, <2>4 DEF OperandExists
    <3>2. composite'[id] = composite[id] /\ depth'[id] = depth[id]
      BY <2>1, <2>4, <3>1 DEF DefinitionsStand
    <3>3. OperandExists(id)'
      BY <2>4, <3>1, <3>2 DEF OperandExists, Exists
    <3> QED BY <2>2, <2>4, <3>2, <3>3 DEF DepthOf
  <2> QED BY <2>2, <2>3, <2>4 DEF Ids
<1> QED BY <1>1, <1>2, ComposerTypeCorrect, PTL DEF Spec

-----------------------------------------------------------------------------
(* An operator never gets more or fewer operands than it takes.             *)
LEMMA CountStep == TypeOK /\ CountOK /\ [Next]_vars => CountOK'
<1> SUFFICES ASSUME TypeOK, CountOK, [Next]_vars, NEW c \in CompositeIds, Exists(c)'
             PROVE  OperandCountOK(composite'[c].op, Len(composite'[c].operands))
  BY DEF CountOK, OperandCountOK, Exists
<1>1. \/ composite'[c] = composite[c]
      \/ OperandCountOK(composite'[c].op, Len(composite'[c].operands))
  BY StepFacts DEF DefinitionsStand
<1> QED BY <1>1 DEF CountOK, Exists

LEMMA CountsStand == Spec => []CountOK
BY InitType, TypeStep, CountStep, PTL DEF Spec

(* Only resolving a composite gives it an answer, the one its operands have.*)
LEMMA AnswerStep ==
    ASSUME TypeOK, [Next]_vars, NEW c \in CompositeIds
    PROVE  \/ cached'[c] = cached[c]
           \/ Exists(c) /\ cached[c] = "Unresolved"
                        /\ cached'[c] = Evaluate(composite[c], Statuses, Times)
<1>1. CASE UNCHANGED cached
  BY <1>1
<1>2. ASSUME NEW x \in CompositeIds, TryResolve(x)
      PROVE  \/ cached'[c] = cached[c]
             \/ Exists(c) /\ cached[c] = "Unresolved"
                          /\ cached'[c] = Evaluate(composite[c], Statuses, Times)
  BY <1>2 DEF TryResolve, TypeOK
<1> QED BY <1>1, <1>2 DEF Next, ComposerStep, CreateComposite, RegistryStep, Tick, vars, composerVars

(* A cached answer is the one any later evaluation would give: tryResolve   *)
(* may return it forever, and calling it early or late makes no difference. *)
THEOREM VerdictsStand == Spec => []VerdictStands
<1> DEFINE IInv == TypeOK /\ CountOK /\ VerdictStands
<1>1. Init => IInv
  <2> SUFFICES ASSUME Init PROVE VerdictStands
    BY InitType
  <2> QED BY DEF Init, VerdictStands
<1>2. IInv /\ [Next]_vars => IInv'
  <2> SUFFICES ASSUME TypeOK, CountOK, VerdictStands, [Next]_vars PROVE VerdictStands'
    BY TypeStep, CountStep
  <2> SUFFICES ASSUME NEW c \in CompositeIds, cached'[c] # "Unresolved"
               PROVE  Exists(c)' /\ Evaluate(composite'[c], Statuses', Times') = cached'[c]
    BY DEF VerdictStands
  <2>1. /\ Exists(c)
        /\ Evaluate(composite[c], Statuses, Times) # "Unresolved"
        /\ cached'[c] = Evaluate(composite[c], Statuses, Times)
    <3>1. CASE cached'[c] = cached[c]
      BY <3>1 DEF VerdictStands
    <3>2. CASE cached'[c] # cached[c]
      BY <3>2, AnswerStep
    <3> QED BY <3>1, <3>2
  <2>2. composite'[c] = composite[c] /\ Exists(c)'
    BY <2>1, StepFacts DEF DefinitionsStand, Exists
  <2>3. composite[c] \in Definitions
    BY <2>1 DEF TypeOK, Exists, NoComposite
  <2>4. OperandCountOK(composite[c].op, Len(composite[c].operands))
    BY <2>1 DEF CountOK
  <2>5. ASSUME NEW i \in DOMAIN composite[c].operands,
               Statuses[composite[c].operands[i]] # "Unresolved"
        PROVE  /\ Statuses'[composite[c].operands[i]] = Statuses[composite[c].operands[i]]
               /\ Times'[composite[c].operands[i]] = Times[composite[c].operands[i]]
    <3>1. composite[c].operands[i] \in Ids
      BY <2>3, ElementOfSeq, LenProperties DEF Definitions
    <3> QED BY <2>5, <3>1, StepFacts DEF SettledStays
  <2>6. Evaluate(composite[c], Statuses', Times') = Evaluate(composite[c], Statuses, Times)
    BY <2>1, <2>3, <2>4, <2>5, EvaluateStable
  <2> QED BY <2>1, <2>2, <2>6
<1> QED BY <1>1, <1>2, PTL DEF Spec
-----------------------------------------------------------------------------
(* The answers as a recursion over the levels of composites.               *)
(* The levels of Truth, up to n.                                            *)
IsLevels(h, n) ==
    h = [k \in 0..n |->
          [id \in Ids |->
              IF id \in EventIds THEN EventStatus(id)
              ELSE IF k = 0 \/ ~Exists(id) THEN "Unresolved"
              ELSE Evaluate(composite[id], h[k - 1], Times)]]

LEMMA LevelsExist ==
    ASSUME NEW n \in Nat
    PROVE  \E h : IsLevels(h, n)
<1> DEFINE T == {k \in Nat : ~\E h : IsLevels(h, k)}
<1>1. SUFFICES ASSUME T # {} PROVE FALSE
  OBVIOUS
<1>2. PICK m \in T : \A k \in T : m <= k
  <2>1. T \in SUBSET Nat
    OBVIOUS
  <2> HIDE DEF T
  <2> QED BY <1>1, <2>1, SmallestNumber
<1>3. m \in Nat /\ ~\E h : IsLevels(h, m)
  BY <1>2
<1>4. CASE m = 0
  <2> DEFINE h == [k \in 0..0 |->
          [id \in Ids |-> IF id \in EventIds THEN EventStatus(id) ELSE "Unresolved"]]
  <2>1. \A k \in 0..0 : k = 0
    OBVIOUS
  <2>2. IsLevels(h, 0)
    BY <2>1 DEF IsLevels
  <2> QED BY <1>3, <1>4, <2>2
<1>5. CASE m # 0
  <2>1. m - 1 \in Nat /\ m - 1 \notin T
    BY <1>2, <1>3, <1>5
  <2>2. PICK g : IsLevels(g, m - 1)
    BY <2>1
  <2> DEFINE top == [id \in Ids |->
              IF id \in EventIds THEN EventStatus(id)
              ELSE IF ~Exists(id) THEN "Unresolved"
              ELSE Evaluate(composite[id], g[m - 1], Times)]
             h == [k \in 0..m |-> IF k = m THEN top ELSE g[k]]
             at(f, k) == [id \in Ids |->
              IF id \in EventIds THEN EventStatus(id)
              ELSE IF k = 0 \/ ~Exists(id) THEN "Unresolved"
              ELSE Evaluate(composite[id], f[k - 1], Times)]
  <2>3. ASSUME NEW k \in 0..m PROVE h[k] = at(h, k)
    <3>1. CASE k = m
      <4>1. h[m] = top /\ h[m - 1] = g[m - 1]
        BY <1>3, <1>5
      <4> QED BY <3>1, <4>1, <1>3, <1>5
    <3>2. CASE k # m
      <4>1. k \in 0..(m - 1) /\ h[k] = g[k]
        BY <3>2, <1>3
      <4>2. g[k] = at(g, k)
        BY <4>1, <2>2 DEF IsLevels
      <4>3. k # 0 => h[k - 1] = g[k - 1]
        BY <4>1, <1>3
      <4> QED BY <4>1, <4>2, <4>3
    <3> QED BY <3>1, <3>2
  <2>4. IsLevels(h, m)
    <3>1. h = [k \in 0..m |-> h[k]]
      OBVIOUS
    <3> HIDE DEF h
    <3>2. h = [k \in 0..m |-> at(h, k)]
      BY <3>1, <2>3
    <3> QED BY <3>2 DEF IsLevels
  <2> QED BY <1>3, <2>4
<1> QED BY <1>4, <1>5

LEMMA TruthIs ==
    \E h : IsLevels(h, MaxDepth) /\ Truth = h[MaxDepth]
<1> DEFINE level == CHOOSE h : IsLevels(h, MaxDepth)
<1>1. IsLevels(level, MaxDepth)
  BY LevelsExist, ComposerAssumption
<1>2. Truth = level[MaxDepth]
  BY DEF Truth, IsLevels
<1> QED BY <1>1, <1>2

(* Level k has the answer of every id that is settled and no deeper.        *)
AgreesAt(h, k) ==
    \A id \in Ids : DepthOf(id) <= k /\ Statuses[id] # "Unresolved" => h[k][id] = Statuses[id]

LEMMA LevelsAgree ==
    ASSUME TypeOK, CountOK, WellFounded, VerdictStands, NEW h, IsLevels(h, MaxDepth),
           NEW n \in 0..MaxDepth
    PROVE  AgreesAt(h, n)
<1> DEFINE T == {k \in 0..MaxDepth : ~AgreesAt(h, k)}
<1>1. SUFFICES ASSUME T # {} PROVE FALSE
  OBVIOUS
<1>2. PICK m \in T : \A k \in T : m <= k
  <2>1. T \in SUBSET Nat
    OBVIOUS
  <2> HIDE DEF T
  <2> QED BY <1>1, <2>1, SmallestNumber
<1>3. m \in 0..MaxDepth /\ ~AgreesAt(h, m) /\ m \in Nat
  BY <1>2
<1>4. PICK id \in Ids : DepthOf(id) <= m /\ Statuses[id] # "Unresolved" /\ h[m][id] # Statuses[id]
  BY <1>3 DEF AgreesAt
<1>5. h[m][id] = IF id \in EventIds THEN EventStatus(id)
                 ELSE IF m = 0 \/ ~Exists(id) THEN "Unresolved"
                 ELSE Evaluate(composite[id], h[m - 1], Times)
  BY <1>3, <1>4 DEF IsLevels
<1>6. id \notin EventIds /\ id \in CompositeIds /\ Statuses[id] = cached[id]
  BY <1>4, <1>5 DEF Statuses, Ids
<1>7. /\ Exists(id) /\ cached[id] # "Unresolved"
      /\ Evaluate(composite[id], Statuses, Times) = cached[id]
  BY <1>4, <1>6 DEF VerdictStands
<1> DEFINE d == composite[id]
<1>8. /\ d \in Definitions /\ OperandCountOK(d.op, Len(d.operands))
      /\ d.operands \in Seq(Ids) /\ d.operands # <<>>
  BY <1>6, <1>7 DEF TypeOK, CountOK, Exists, NoComposite, Definitions
<1>9. \A i \in DOMAIN d.operands : /\ d.operands[i] \in Ids
                                   /\ DepthOf(d.operands[i]) < depth[id]
                                   /\ DepthOf(d.operands[i]) \in Nat
  <2>1. ASSUME NEW i \in DOMAIN d.operands
        PROVE  d.operands[i] \in Ids /\ DepthOf(d.operands[i]) < depth[id]
    BY <1>6, <1>8, ElementOfSeq, LenProperties DEF WellFounded
  <2>2. ASSUME NEW x \in Ids PROVE DepthOf(x) \in Nat
    BY ComposerAssumption DEF TypeOK, DepthOf, Ids
  <2> QED BY <2>1, <2>2
<1>10. depth[id] \in Nat /\ depth[id] <= m
  <2>1. depth[id] \in 0..MaxDepth
    BY <1>6 DEF TypeOK
  <2> QED BY <1>4, <1>6, <2>1 DEF DepthOf
<1>11. m # 0
  <2>1. 1 \in DOMAIN d.operands
    BY <1>8
  <2>2. DepthOf(d.operands[1]) \in Nat /\ DepthOf(d.operands[1]) < depth[id]
    BY <1>9, <2>1
  <2> QED BY <1>10, <2>2
<1>12. m - 1 \in 0..MaxDepth /\ AgreesAt(h, m - 1)
  <2>1. m - 1 \in 0..MaxDepth /\ ~(m <= m - 1)
    BY <1>3, <1>11, ComposerAssumption
  <2> QED BY <1>2, <2>1
<1>13. \A i \in DOMAIN d.operands :
          Statuses[d.operands[i]] # "Unresolved" =>
             h[m - 1][d.operands[i]] = Statuses[d.operands[i]]
  <2>1. ASSUME NEW i \in DOMAIN d.operands PROVE DepthOf(d.operands[i]) <= m - 1
    BY <1>3, <1>9, <1>10
  <2> QED BY <1>9, <1>12, <2>1 DEF AgreesAt
<1>14. Evaluate(d, h[m - 1], Times) = Evaluate(d, Statuses, Times)
  <2> HIDE DEF d
  <2> DEFINE st2 == h[m - 1]
             st  == Statuses
  <2>1. /\ \A i \in DOMAIN d.operands :
              st[d.operands[i]] # "Unresolved" =>
                 /\ st2[d.operands[i]] = st[d.operands[i]]
                 /\ Times[d.operands[i]] = Times[d.operands[i]]
        /\ Evaluate(d, st, Times) # "Unresolved"
    BY <1>7, <1>13 DEF d
  <2> HIDE DEF st, st2
  <2>2. Evaluate(d, st2, Times) = Evaluate(d, st, Times)
    BY <1>8, <2>1, EvaluateStable
  <2> QED BY <2>2 DEF st, st2
<1>15. h[m][id] = Evaluate(d, h[m - 1], Times)
  BY <1>5, <1>6, <1>7, <1>11
<1> QED BY <1>4, <1>6, <1>7, <1>14, <1>15

LEMMA AnswersAreTruth ==
    ASSUME TypeOK, CountOK, WellFounded, VerdictStands
    PROVE  AnswersFromEvents
<1>1. PICK h : IsLevels(h, MaxDepth) /\ Truth = h[MaxDepth]
  BY TruthIs
<1>2. MaxDepth \in 0..MaxDepth
  BY ComposerAssumption
<1>3. AgreesAt(h, MaxDepth)
  BY <1>1, <1>2, LevelsAgree
<1>4. ASSUME NEW c \in CompositeIds, cached[c] # "Unresolved" PROVE cached[c] = Truth[c]
  <2>1. c \in Ids /\ c \notin EventIds
    BY ComposerAssumption DEF Ids
  <2>2. Statuses[c] = cached[c] /\ DepthOf(c) <= MaxDepth
    BY <2>1, ComposerAssumption DEF Statuses, DepthOf, TypeOK
  <2> QED BY <1>1, <1>3, <1>4, <2>1, <2>2 DEF AgreesAt
<1> QED BY <1>4 DEF AnswersFromEvents

-----------------------------------------------------------------------------
(* Two sorted lists with the same members as often are the same list.       *)
Places(s, id) == {i \in DOMAIN s : s[i] = id}

Nondecreasing(s) == \A i, j \in DOMAIN s : i < j => s[i] <= s[j]

LEMMA FewerPlaces ==
    ASSUME NEW s \in Seq(Ids), NEW t \in Seq(Ids), Nondecreasing(t),
           NEW i \in DOMAIN s,
           \A j \in 1..(i - 1) : j \in DOMAIN t /\ t[j] = s[j],
           i \in DOMAIN t => s[i] < t[i]
    PROVE  Occurrences(s) # Occurrences(t)
<1> DEFINE x == s[i]
<1>1. /\ i \in Nat \ {0} /\ DOMAIN s = 1..Len(s) /\ DOMAIN t = 1..Len(t)
      /\ Len(s) \in Nat /\ Len(t) \in Nat /\ x \in Ids /\ x \in Nat
      /\ \A j \in DOMAIN t : t[j] \in Nat
  <2>1. DOMAIN s = 1..Len(s) /\ DOMAIN t = 1..Len(t) /\ Len(s) \in Nat /\ Len(t) \in Nat
    OBVIOUS
  <2>2. i \in Nat \ {0} /\ x \in Ids /\ \A j \in DOMAIN t : t[j] \in Ids
    BY <2>1, ElementOfSeq
  <2>3. Ids \subseteq Nat
    BY ComposerAssumption
  <2> HIDE DEF x
  <2> QED BY <2>1, <2>2, <2>3
<1>2. Places(t, x) \subseteq Places(s, x) \ {i}
  <2> SUFFICES ASSUME NEW j \in DOMAIN t, t[j] = x
               PROVE  j \in DOMAIN s /\ s[j] = x /\ j # i
    BY DEF Places
  <2>1. j < i
    <3> SUFFICES ASSUME j >= i PROVE FALSE
      BY <1>1
    <3>1. i \in DOMAIN t
      BY <1>1
    <3>2. s[i] < t[i] /\ t[i] <= t[j]
      BY <1>1, <3>1 DEF Nondecreasing
    <3> QED BY <1>1, <3>1, <3>2
  <2> QED BY <1>1, <2>1
<1>3. i \in Places(s, x) /\ IsFiniteSet(Places(s, x))
  <2>1. IsFiniteSet(1..Len(s)) /\ Places(s, x) \subseteq 1..Len(s)
    BY <1>1, FS_Interval DEF Places
  <2>2. IsFiniteSet(Places(s, x))
    BY <2>1, FS_Subset
  <2> QED BY <2>2 DEF Places
<1>4. Cardinality(Places(t, x)) < Cardinality(Places(s, x))
  <2>1. /\ IsFiniteSet(Places(s, x) \ {i})
        /\ Cardinality(Places(s, x) \ {i}) < Cardinality(Places(s, x))
    BY <1>3, OneLess
  <2>2. /\ IsFiniteSet(Places(t, x))
        /\ Cardinality(Places(t, x)) <= Cardinality(Places(s, x) \ {i})
    BY <1>2, <2>1, FS_Subset
  <2>3. Cardinality(Places(t, x)) \in Nat /\ Cardinality(Places(s, x)) \in Nat
        /\ Cardinality(Places(s, x) \ {i}) \in Nat
    BY <1>3, <2>1, <2>2, FS_CardinalityType
  <2> QED BY <2>1, <2>2, <2>3
<1>5. Occurrences(s)[x] = Cardinality(Places(s, x)) /\ Occurrences(t)[x] = Cardinality(Places(t, x))
  BY <1>1 DEF Occurrences, Places
<1>6. Cardinality(Places(s, x)) \in Nat
  BY <1>3, FS_CardinalityType
<1> HIDE DEF x
<1> QED BY <1>4, <1>5, <1>6

(* The first place at which two lists differ, if one goes on there.         *)
LEMMA FirstDifference ==
    ASSUME NEW s \in Seq(Ids), NEW t \in Seq(Ids), s # t, Len(t) <= Len(s)
    PROVE  \E i \in DOMAIN s : /\ \A j \in 1..(i - 1) : j \in DOMAIN t /\ t[j] = s[j]
                               /\ i \in DOMAIN t => s[i] # t[i]
<1> DEFINE T == {i \in DOMAIN s : i \in DOMAIN t => s[i] # t[i]}
<1>1. /\ DOMAIN s = 1..Len(s) /\ DOMAIN t = 1..Len(t)
      /\ Len(s) \in Nat /\ Len(t) \in Nat
  OBVIOUS
<1>2. T # {}
  <2> SUFFICES ASSUME T = {} PROVE FALSE
    OBVIOUS
  <2>1. \A i \in DOMAIN s : i \in DOMAIN t /\ s[i] = t[i]
    OBVIOUS
  <2>2. Len(s) = Len(t)
    <3>1. Len(s) # 0 => Len(s) \in DOMAIN t
      BY <1>1, <2>1
    <3> DEFINE m == Len(s)
               n == Len(t)
    <3>2. m \in Nat /\ n \in Nat /\ n <= m /\ (m # 0 => m \in 1..n)
      BY <1>1, <3>1
    <3> HIDE DEF m, n
    <3>3. m = n
      BY <3>2
    <3> QED BY <3>3 DEF m, n
  <2> HIDE DEF T
  <2>3. s = [i \in 1..Len(s) |-> s[i]] /\ t = [i \in 1..Len(t) |-> t[i]]
    BY <1>1
  <2> QED BY <1>1, <2>1, <2>2, <2>3
<1>3. PICK m \in T : \A k \in T : m <= k
  <2>1. T \in SUBSET Nat
    BY <1>1
  <2> HIDE DEF T
  <2> QED BY <1>2, <2>1, SmallestNumber
<1>4. \A j \in 1..(m - 1) : j \in DOMAIN t /\ t[j] = s[j]
  <2> SUFFICES ASSUME NEW j \in 1..(m - 1) PROVE j \in DOMAIN t /\ t[j] = s[j]
    OBVIOUS
  <2>1. m \in 1..Len(s)
    BY <1>1, <1>3
  <2>2. j \in DOMAIN s /\ ~(m <= j)
    BY <1>1, <2>1
  <2> QED BY <1>3, <2>2
<1> QED BY <1>3, <1>4

LEMMA SortedIsOne ==
    ASSUME NEW s \in Seq(Ids), NEW t \in Seq(Ids), Nondecreasing(s), Nondecreasing(t),
           Occurrences(s) = Occurrences(t)
    PROVE  s = t
<1> SUFFICES ASSUME s # t PROVE FALSE
  OBVIOUS
<1>1. ASSUME NEW u \in Seq(Ids), NEW v \in Seq(Ids), Nondecreasing(u), Nondecreasing(v),
             u # v, Len(v) <= Len(u)
      PROVE  Occurrences(u) # Occurrences(v)
  <2>1. PICK i \in DOMAIN u : /\ \A j \in 1..(i - 1) : j \in DOMAIN v /\ v[j] = u[j]
                              /\ i \in DOMAIN v => u[i] # v[i]
    BY <1>1, FirstDifference
  <2>2. CASE i \notin DOMAIN v \/ u[i] < v[i]
    BY <1>1, <2>1, <2>2, FewerPlaces
  <2>3. CASE i \in DOMAIN v /\ ~(u[i] < v[i])
    <3>1. u[i] \in Nat /\ v[i] \in Nat
      <4>1. DOMAIN u = 1..Len(u) /\ DOMAIN v = 1..Len(v)
        BY <1>1
      <4>2. u[i] \in Ids /\ v[i] \in Ids
        BY <2>1, <2>3, <4>1, <1>1, ElementOfSeq
      <4> QED BY <4>2, ComposerAssumption
    <3>2. v[i] < u[i]
      BY <2>1, <2>3, <3>1
    <3>3. \A j \in 1..(i - 1) : j \in DOMAIN u /\ u[j] = v[j]
      BY <2>1
    <3> QED BY <1>1, <2>3, <3>2, <3>3, FewerPlaces
  <2> QED BY <2>2, <2>3
<1>2. Len(s) <= Len(t) \/ Len(t) <= Len(s)
  OBVIOUS
<1> QED BY <1>1, <1>2

(* Operands are stored sorted where their order does not matter, and no two *)
(* ids have the same definition.                                            *)
Sorted(d) == d.op # "Before" => Nondecreasing(d.operands)

DefinitionsDiffer ==
    /\ \A c \in CompositeIds : Exists(c) => Sorted(composite[c])
    /\ \A c, d \in CompositeIds : Exists(c) /\ composite[c] = composite[d] => c = d

LEMMA CanonicalSorted ==
    ASSUME NEW op, NEW given, NEW s \in Canonical(op, given), op # "Before", s \in Seq(Ids)
    PROVE  Nondecreasing(s)
<1>1. IsSorted(s, <=)
  BY DEF Canonical
<1>2. \A i, j \in 1..Len(s) : i < j => s[i] <= s[j]
  BY <1>1 DEF IsSorted
<1> QED BY <1>2 DEF Nondecreasing

LEMMA CreationDiffers ==
    ASSUME NEW c \in CompositeIds, NEW op \in Ops, NEW given \in BoundedSeq(Ids, MaxOperands),
           NEW window \in Windows, CreateComposite(c, op, given, window)
    PROVE  \E d : /\ Sorted(d) /\ d.operands # <<>>
                  /\ \A x \in CompositeIds : composite[x] # d
                  /\ ~Exists(c)
                  /\ composite' = [composite EXCEPT ![c] = d]
<1>1. PICK operands \in Canonical(op, given), n \in 1..MaxDepth :
        LET definition == [op |-> op, operands |-> operands, window |-> window] IN
        /\ OperandCountOK(op, Len(given))
        /\ \A x \in CompositeIds : composite[x] # definition
        /\ ~Exists(c)
        /\ composite' = [composite EXCEPT ![c] = definition]
  BY DEF CreateComposite
<1> DEFINE d == [op |-> op, operands |-> operands, window |-> window]
<1>2. operands \in Seq(Ids) /\ Len(operands) = Len(given)
  BY CanonicalType
<1>3. operands # <<>>
  <2> SUFFICES ASSUME operands = <<>> PROVE FALSE
    OBVIOUS
  <2>1. Len(given) = 0
    BY <1>2
  <2> QED BY <1>1, <2>1 DEF OperandCountOK
<1>4. d.op = op /\ d.operands = operands
  OBVIOUS
<1>5. /\ \A x \in CompositeIds : composite[x] # d
      /\ ~Exists(c) /\ composite' = [composite EXCEPT ![c] = d]
  BY <1>1
<1> HIDE DEF d
<1>6. Sorted(d)
  BY <1>2, <1>4, CanonicalSorted DEF Sorted
<1> QED BY <1>3, <1>4, <1>5, <1>6

LEMMA DifferStep ==
    ASSUME TypeOK, DefinitionsDiffer, [Next]_vars
    PROVE  DefinitionsDiffer'
<1>1. CASE UNCHANGED composite
  BY <1>1 DEF DefinitionsDiffer, Exists, Sorted, Nondecreasing
<1>2. ASSUME NEW c \in CompositeIds, NEW op \in Ops, NEW given \in BoundedSeq(Ids, MaxOperands),
             NEW window \in Windows, CreateComposite(c, op, given, window)
      PROVE  DefinitionsDiffer'
  <2>1. PICK d : /\ Sorted(d) /\ d.operands # <<>>
                 /\ \A x \in CompositeIds : composite[x] # d
                 /\ ~Exists(c)
                 /\ composite' = [composite EXCEPT ![c] = d]
    BY <1>2, CreationDiffers
  <2>2. composite'[c] = d /\ \A x \in CompositeIds \ {c} : composite'[x] = composite[x]
    BY <2>1 DEF TypeOK
  <2>3. \A x \in CompositeIds : composite'[x].operands # <<>> => Sorted(composite'[x])
    BY <2>1, <2>2 DEF DefinitionsDiffer, Exists
  <2>4. ASSUME NEW x \in CompositeIds, NEW y \in CompositeIds, composite'[x].operands # <<>>,
               composite'[x] = composite'[y]
        PROVE  x = y
    <3>1. CASE x = c
      BY <2>1, <2>2, <2>4, <3>1
    <3>2. CASE x # c
      <4>1. y # c
        BY <2>1, <2>2, <2>4, <3>2
      <4> QED BY <2>2, <2>4, <3>2, <4>1 DEF DefinitionsDiffer, Exists
    <3> QED BY <3>1, <3>2
  <2> QED BY <2>3, <2>4 DEF DefinitionsDiffer, Exists, Sorted, Nondecreasing
<1> QED BY <1>1, <1>2 DEF Next, ComposerStep, TryResolve, RegistryStep, Tick, vars, composerVars

LEMMA DifferentClaims == TypeOK /\ DefinitionsDiffer => OneIdPerClaim
<1> SUFFICES ASSUME TypeOK, DefinitionsDiffer, NEW c \in CompositeIds, NEW d \in CompositeIds,
                    SameClaim(c, d)
             PROVE  c = d
  BY DEF OneIdPerClaim
<1> DEFINE x == composite[c]
           y == composite[d]
<1>1. x \in Definitions /\ y \in Definitions /\ x.op = y.op /\ x.window = y.window
  BY DEF SameClaim, TypeOK, Exists, NoComposite
<1>2. x.operands = y.operands
  <2>1. CASE x.op = "Before"
    BY <2>1 DEF SameClaim
  <2>2. CASE x.op # "Before"
    <3>1. Occurrences(x.operands) = Occurrences(y.operands)
      BY <2>2 DEF SameClaim
    <3>2. Nondecreasing(x.operands) /\ Nondecreasing(y.operands)
      BY <1>1, <2>2 DEF SameClaim, DefinitionsDiffer, Sorted
    <3>3. x.operands \in Seq(Ids) /\ y.operands \in Seq(Ids)
      BY <1>1 DEF Definitions
    <3> QED BY <3>1, <3>2, <3>3, SortedIsOne
  <2> QED BY <2>1, <2>2
<1>3. x = y
  BY <1>1, <1>2 DEF Definitions
<1> QED BY <1>3 DEF DefinitionsDiffer, SameClaim

(* The answer of a composite is determined by the events it is built from:  *)
(* not by who resolved it or its operands, in which order, or how early.    *)
THEOREM AnswersComeFromEvents == Spec => []AnswersFromEvents
BY AnswersAreTruth, ComposerTypeCorrect, CountsStand, CompositionWellFounded, VerdictsStand, PTL

(* AND(a, b) and AND(b, a) are one composite, for lists of any length.      *)
THEOREM ClaimsHaveOneId == Spec => []OneIdPerClaim
<1>1. Init => DefinitionsDiffer
  BY DEF Init, NoComposite, DefinitionsDiffer, Exists
<1>2. TypeOK /\ DefinitionsDiffer /\ [Next]_vars => DefinitionsDiffer'
  BY DifferStep
<1> QED BY <1>1, <1>2, ComposerTypeCorrect, DifferentClaims, PTL DEF Spec

-----------------------------------------------------------------------------
(* EventBus.                                                               *)
(* What an application reads for an id is its status as the composer sees   *)
(* it: the bus and the composer read events alike.                          *)
ReadAs(status) == IF status = "Unresolved" THEN "Pending" ELSE status

LEMMA ViewIsStatus ==
    ASSUME TypeOK, NEW id \in Ids
    PROVE  View[id] = ReadAs(Statuses[id]) /\ Statuses[id] \in Verdicts
<1>1. CASE id \in EventIds
  <2>1. id \notin CompositeIds
    BY <1>1, ComposerAssumption
  <2>2. Statuses[id] = EventStatus(id)
    BY <1>1 DEF Statuses
  <2>3. phase[id] \in Registry!Phases
    BY <1>1 DEF TypeOK, Registry!TypeOK
  <2>4. CASE phase[id] = "Decided"
    BY <1>1, <2>2, <2>4 DEF View, Availability, ReadOutcome, IsFinalized, EventStatus, Verdict,
       ReadAs, Verdicts
  <2>5. CASE phase[id] = "Void"
    BY <1>1, <2>2, <2>5 DEF View, Availability, EventStatus, ReadAs, Verdicts
  <2>6. CASE phase[id] \notin {"Decided", "Void"}
    <3>1. Availability(id) = "Pending"
      BY <1>1, <2>1, <2>6 DEF Availability, CompositeAvailability
    <3>2. EventStatus(id) = "Unresolved"
      BY <2>6 DEF EventStatus
    <3> QED BY <2>2, <3>1, <3>2 DEF View, ReadAs, Verdicts
  <2> QED BY <2>4, <2>5, <2>6
<1>2. CASE id \notin EventIds
  <2>1. id \in CompositeIds
    BY <1>2 DEF Ids
  <2>2. Statuses[id] = cached[id] /\ cached[id] \in Verdicts
    BY <1>2, <2>1 DEF Statuses, TypeOK
  <2>3. Availability(id) = CompositeAvailability(id) /\ ReadOutcome(id) = cached[id]
    BY <1>2 DEF Availability, ReadOutcome, IsFinalized
  <2> QED BY <2>1, <2>2, <2>3 DEF View, CompositeAvailability, ReadAs, Verdicts
<1> QED BY <1>1, <1>2

ViewFaithful == \A id \in Ids : View[id] = ReadAs(Statuses[id]) /\ Statuses[id] \in Verdicts

LEMMA ViewOK == TypeOK => ViewFaithful
BY ViewIsStatus DEF ViewFaithful

LEMMA ViewStep == TypeOK' => ViewFaithful'
BY ViewOK, PTL

-----------------------------------------------------------------------------
(* isAvailable, getAvailability and readOutcome agree about every id.       *)
THEOREM BusAgrees == Spec => []BusConsistent
<1>1. TypeOK => BusConsistent
  <2> SUFFICES ASSUME TypeOK, NEW id \in Ids
               PROVE  /\ IsAvailable(id) <=> Availability(id) = "Available"
                      /\ IsAvailable(id) => ReadOutcome(id) \in {"True", "False"}
    BY DEF BusConsistent
  <2>1. CASE id \in EventIds
    <3>1. id \notin CompositeIds
      BY <2>1, ComposerAssumption
    <3> QED BY <2>1, <3>1 DEF IsAvailable, IsFinalized, IsResolved, Availability,
               CompositeAvailability, ReadOutcome, Verdict
  <2>2. CASE id \notin EventIds
    BY <2>2 DEF Ids, IsAvailable, IsFinalized, IsResolved, Availability,
       CompositeAvailability, ReadOutcome
  <2> QED BY <2>1, <2>2
<1> QED BY <1>1, ComposerTypeCorrect, PTL

-----------------------------------------------------------------------------
(* No transaction settles two ids.                                          *)
LEMMA OneSettles ==
    ASSUME TypeOK, [Next]_vars
    PROVE  \/ Statuses' = Statuses
           \/ \E id \in Ids : \A other \in Ids \ {id} : Statuses'[other] = Statuses[other]
<1>1. CASE RegistryStep
  <2>1. cached' = cached
    BY <1>1 DEF RegistryStep, composerVars
  <2>2. ASSUME NEW e \in EventIds, \A o \in EventIds \ {e} : EventStatus(o)' = EventStatus(o)
        PROVE  \E id \in Ids : \A other \in Ids \ {id} : Statuses'[other] = Statuses[other]
    BY <2>1, <2>2 DEF Statuses, Ids
  <2>3. CASE \E es \in SUBSET EventIds : Registry!Create(es)
    <3>1. ASSUME NEW e \in EventIds
          PROVE  phase'[e] = phase[e] \/ (phase[e] = "None" /\ phase'[e] = "Pending")
      BY <2>3 DEF Registry!Create
    <3>2. UNCHANGED answer
      BY <2>3 DEF Registry!Create
    <3>3. \A e \in EventIds : EventStatus(e)' = EventStatus(e)
      BY <3>1, <3>2 DEF EventStatus
    <3> QED BY <2>1, <3>3 DEF Statuses
  <2>4. ASSUME NEW e \in EventIds,
               \/ \E b \in BOOLEAN : Registry!Offer(e, b) \/ Registry!Rule(e, b)
               \/ Registry!Accept(e) \/ Registry!Contest(e) \/ Registry!Abandon(e)
        PROVE  \E id \in Ids : \A other \in Ids \ {id} : Statuses'[other] = Statuses[other]
    <3>1. \A o \in EventIds \ {e} : phase'[o] = phase[o] /\ answer'[o] = answer[o]
      BY <2>4 DEF Registry!Offer, Registry!Rule, Registry!Accept, Registry!Contest,
         Registry!Abandon, TypeOK, Registry!TypeOK
    <3>2. \A o \in EventIds \ {e} : EventStatus(o)' = EventStatus(o)
      BY <3>1 DEF EventStatus
    <3> QED BY <2>2, <3>2
  <2> QED BY <1>1, <2>3, <2>4 DEF RegistryStep, Registry!Next
<1>2. ASSUME NEW c \in CompositeIds, TryResolve(c)
      PROVE  \E id \in Ids : \A other \in Ids \ {id} : Statuses'[other] = Statuses[other]
  <2>1. UNCHANGED <<phase, answer>>
    BY <1>2 DEF TryResolve, eventVars
  <2>2. \A other \in Ids \ {c} : Statuses'[other] = Statuses[other]
    BY <1>2, <2>1 DEF TryResolve, TypeOK, Statuses, EventStatus, Ids
  <2> QED BY <2>2 DEF Ids
<1>3. CASE UNCHANGED <<phase, answer, cached>>
  BY <1>3 DEF Statuses, EventStatus
<1> QED BY <1>1, <1>2, <1>3 DEF Next, ComposerStep, CreateComposite, Tick, vars, eventVars,
           composerVars

(* An application that reads the bus sees every id settle at most once, to  *)
(* something that never changes: EventBus implements OutcomeFeed.           *)
THEOREM BusImplementsFeed == Spec => ImplementsFeed
<1>1. Init => Feed!Init
  <2> SUFFICES ASSUME Init, NEW id \in Ids PROVE View[id] = "Pending"
    BY DEF Feed!Init, View
  <2>1. TypeOK
    BY InitType
  <2>2. Statuses[id] = "Unresolved"
    BY DEF Init, Registry!Init, Statuses, EventStatus, Ids
  <2> QED BY <2>1, <2>2, ViewIsStatus DEF ReadAs
<1>2. TypeOK /\ [Next]_vars => [Feed!Next]_View
  <2> SUFFICES ASSUME TypeOK, [Next]_vars
               PROVE  (\E id \in Ids, v \in Feed!Views : Feed!Settle(id, v)) \/ View' = View
    BY DEF Feed!Next
  <2>1. ViewFaithful /\ ViewFaithful'
    BY TypeStep, ViewOK, ViewStep
  <2>2. CASE Statuses' = Statuses
    <3>1. \A id \in Ids : View'[id] = View[id]
      BY <2>1, <2>2 DEF ViewFaithful
    <3> QED BY <3>1 DEF View
  <2>3. ASSUME NEW id \in Ids,
               \A other \in Ids \ {id} : Statuses'[other] = Statuses[other]
        PROVE  (\E v \in Feed!Views : Feed!Settle(id, v)) \/ View' = View
    <3>1. \A other \in Ids \ {id} : View'[other] = View[other]
      BY <2>1, <2>3 DEF ViewFaithful
    <3>2. CASE Statuses[id] # "Unresolved"
      <4>1. Statuses'[id] = Statuses[id]
        BY <3>2, StepFacts DEF SettledStays
      <4>2. View'[id] = View[id]
        BY <2>1, <4>1 DEF ViewFaithful
      <4> QED BY <3>1, <4>2 DEF View
    <3>3. CASE Statuses[id] = "Unresolved"
      <4>1. View[id] = "Pending"
        BY <2>1, <3>3 DEF ViewFaithful, ReadAs
      <4>2. View'[id] \in Feed!Views
        BY <2>1 DEF ViewFaithful, ReadAs, Verdicts, Feed!Views
      <4>3. View' = [View EXCEPT ![id] = View'[id]]
        BY <3>1 DEF View
      <4>4. Feed!Settle(id, View'[id])
        BY <4>1, <4>3 DEF Feed!Settle, View
      <4> QED BY <4>2, <4>4
    <3> QED BY <3>2, <3>3
  <2> QED BY <2>2, <2>3, OneSettles
<1> QED BY <1>1, <1>2, ComposerTypeCorrect, PTL DEF Spec, ImplementsFeed, Feed!Spec
=============================================================================
