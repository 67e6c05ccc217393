--------------------------- MODULE EventComposer ---------------------------
(***************************************************************************)
(* contracts/EventComposer.sol: composites of events and of composites,    *)
(* their creation, and the resolution anybody may ask for, cached forever. *)
(* The registry is any implementation of EventLifecycle; with the answer   *)
(* of an event comes the time the composer reads for it, which is when the *)
(* event was finalized or, in a version 2 payload, any time before.        *)
(*                                                                         *)
(* Ids are 256-bit hashes, so they are ordered.  A composite's id is the   *)
(* hash of its definition: some id no other definition has.                *)
(***************************************************************************)
EXTENDS Integers, Sequences, SequencesExt

CONSTANTS
    EventIds,       \* the ids of events
    CompositeIds,   \* the hashes of composite definitions
    Ops,            \* the operators users compose with
    Windows,        \* the windows users give
    MaxOperands,    \* bound: the longest list of operands users try
    MaxChildren,    \* MAX_CHILDREN_PER_NODE
    MaxDepth,       \* MAX_DAG_DEPTH
    MaxTime         \* bound: the time at which the clock stops

Ids == EventIds \cup CompositeIds

(* Composites are not events: no two hashes of different data are equal.    *)
ASSUME ComposerAssumption ==
    /\ Ids \subseteq Nat
    /\ EventIds \cap CompositeIds = {}
    /\ Ops \subseteq {"And", "Or", "Not", "Before", "Within"}
    /\ Windows \subseteq Nat
    /\ {MaxOperands, MaxChildren, MaxDepth, MaxTime} \subseteq Nat

VARIABLES
    phase, answer,  \* the events, as EventLifecycle has them
    when,           \* when[e]: the time read with the answer of e
    composite,      \* _specs; NoComposite has no operands
    cached,         \* _resolvedStatus
    resolvedAt,     \* _resolvedAt
    depth,          \* _depth
    now             \* block.timestamp, up to MaxTime

eventVars    == <<phase, answer, when>>
composerVars == <<composite, cached, resolvedAt, depth>>
vars         == <<eventVars, composerVars, now>>

Registry == INSTANCE EventLifecycle

Verdicts == {"Unresolved", "True", "False", "Voided"}

NoComposite == [op |-> "And", operands |-> <<>>, window |-> 0]
Exists(c)   == composite[c].operands # <<>>

Init == /\ Registry!Init
        /\ when = [e \in EventIds |-> 0]
        /\ composite = [c \in CompositeIds |-> NoComposite]
        /\ cached = [c \in CompositeIds |-> "Unresolved"]
        /\ resolvedAt = [c \in CompositeIds |-> 0]
        /\ depth = [c \in CompositeIds |-> 0]
        /\ now = 0

-----------------------------------------------------------------------------
(* How often each id occurs in a list of operands.                          *)
Occurrences(operands) ==
    [id \in Ids |-> Cardinality({i \in DOMAIN operands : operands[i] = id})]

Canonical_AsGiven(op, given) == {given}  \* mutant: no sorting

(* The operands as they are hashed and stored: as given for Before, whose   *)
(* order is the claim, and else sorted (_sortOperands; only one list is).   *)
Canonical(op, given) ==
    IF op = "Before" THEN {given}
    ELSE {s \in [DOMAIN given -> Range(given)] :
            IsSorted(s, <=) /\ Occurrences(s) = Occurrences(given)}

OperandCountOK(op, n) == CASE op = "Not" -> n = 1
                           [] op \in {"Before", "Within"} -> n = 2
                           [] OTHER -> n >= 2

OperandExists_Any(id) == TRUE  \* mutant
OperandExists(id) == IF id \in EventIds THEN phase[id] # "None" ELSE Exists(id)

DepthOf(id) == IF id \in EventIds THEN 0 ELSE depth[id]

IsDepth(n, operands) ==
    /\ \A i \in DOMAIN operands : DepthOf(operands[i]) < n
    /\ \E i \in DOMAIN operands : DepthOf(operands[i]) = n - 1

CreateComposite_TooWide(c, op, given, window) ==  \* mutant: no limit on operands
    /\ ~Exists(c)
    /\ OperandCountOK(op, Len(given))
    /\ \E operands \in Canonical(op, given), n \in 1..MaxDepth :
          LET definition == [op |-> op, operands |-> operands, window |-> window] IN
          /\ \A i \in DOMAIN operands : OperandExists(operands[i])
          /\ IsDepth(n, operands)
          /\ \A d \in CompositeIds : composite[d] # definition
          /\ composite' = [composite EXCEPT ![c] = definition]
          /\ depth' = [depth EXCEPT ![c] = n]
    /\ UNCHANGED <<eventVars, cached, resolvedAt, now>>

CreateComposite(c, op, given, window) ==
    /\ ~Exists(c)
    /\ OperandCountOK(op, Len(given))
    /\ Len(given) <= MaxChildren
    /\ \E operands \in Canonical(op, given), n \in 1..MaxDepth :
          LET definition == [op |-> op, operands |-> operands, window |-> window] IN
          /\ \A i \in DOMAIN operands : OperandExists(operands[i])
          /\ IsDepth(n, operands)
          /\ \A d \in CompositeIds : composite[d] # definition
          /\ composite' = [composite EXCEPT ![c] = definition]
          /\ depth' = [depth EXCEPT ![c] = n]
    /\ UNCHANGED <<eventVars, cached, resolvedAt, now>>

-----------------------------------------------------------------------------
(* _childStatus: what the composer reads of an operand, and at which time.  *)
EventStatus(e) == CASE phase[e] = "Decided" -> IF TRUE \in answer[e] THEN "True" ELSE "False"
                    [] phase[e] = "Void"    -> "Voided"
                    [] OTHER                -> "Unresolved"

Statuses == [id \in Ids |-> IF id \in EventIds THEN EventStatus(id) ELSE cached[id]]
Times    == [id \in Ids |-> IF id \in EventIds THEN when[id] ELSE resolvedAt[id]]

Verdict(b)   == IF b THEN "True" ELSE "False"
Deciding(op) == IF op = "Or" THEN "True" ELSE "False"

InOrder(d, time) == time[d.operands[1]] < time[d.operands[2]]
InWindow(d, time) ==
    LET diff == time[d.operands[1]] - time[d.operands[2]]
    IN  diff <= d.window /\ -diff <= d.window

(* All operands are True or False, and none of them decides alone.          *)
Compare(d, seen, time) == CASE d.op = "And"    -> "True"
                            [] d.op = "Or"     -> "False"
                            [] d.op = "Not"    -> Verdict("False" \in seen)
                            [] d.op = "Before" -> Verdict(InOrder(d, time))
                            [] d.op = "Within" -> Verdict(InWindow(d, time))

Evaluate_VoidFirst(d, status, time) ==  \* mutant: does not wait for a pending operand
    LET seen == {status[d.operands[i]] : i \in DOMAIN d.operands}
    IN  CASE d.op # "Not" /\ Deciding(d.op) \in seen -> Deciding(d.op)
          [] "Voided" \in seen                       -> "Voided"
          [] "Unresolved" \in seen                   -> "Unresolved"
          [] OTHER                                   -> Compare(d, seen, time)

(* _evaluate: an operand that decides alone, else waiting for one that is   *)
(* pending, else a dead operand, else the comparison.                       *)
Evaluate(d, status, time) ==
    LET seen == {status[d.operands[i]] : i \in DOMAIN d.operands}
        decided == d.op # "Not" /\ Deciding(d.op) \in seen
    IN  IF decided THEN Deciding(d.op)
        ELSE IF "Unresolved" \in seen THEN "Unresolved"
        ELSE IF "Voided" \in seen THEN "Voided"
        ELSE Compare(d, seen, time)

TryResolve_Again(c) ==  \* mutant: the cached answer is not returned first
    LET verdict == Evaluate(composite[c], Statuses, Times) IN
    /\ Exists(c)
    /\ verdict # "Unresolved"
    /\ cached' = [cached EXCEPT ![c] = verdict]
    /\ resolvedAt' = [resolvedAt EXCEPT ![c] = now]
    /\ UNCHANGED <<eventVars, composite, depth, now>>

TryResolve(c) ==
    LET verdict == Evaluate(composite[c], Statuses, Times) IN
    /\ Exists(c)
    /\ cached[c] = "Unresolved"
    /\ verdict # "Unresolved"
    /\ cached' = [cached EXCEPT ![c] = verdict]
    /\ resolvedAt' = [resolvedAt EXCEPT ![c] = now]
    /\ UNCHANGED <<eventVars, composite, depth, now>>

-----------------------------------------------------------------------------
(* The registry moves, and an event it decides gets its time.               *)
Decides(e) == phase[e] # "Decided" /\ phase'[e] = "Decided"

RegistryStep ==
    /\ Registry!Next
    /\ \E t \in 0..now : when' = [e \in EventIds |-> IF Decides(e) THEN t ELSE when[e]]
    /\ UNCHANGED <<composerVars, now>>

Tick == /\ now < MaxTime
        /\ now' = now + 1
        /\ UNCHANGED <<eventVars, composerVars>>

ComposerStep(c) ==
    \/ \E op \in Ops, given \in BoundedSeq(Ids, MaxOperands), window \in Windows :
          CreateComposite(c, op, given, window)
    \/ TryResolve(c)

Next == \/ RegistryStep
        \/ \E c \in CompositeIds : ComposerStep(c)
        \/ Tick

Spec == Init /\ [][Next]_vars

-----------------------------------------------------------------------------
Definitions == [op : Ops, operands : Seq(Ids) \ {<<>>}, window : Windows]

(* Every variable keeps its type; in particular a definition has at most    *)
(* MaxChildren operands and a depth of at most MaxDepth.                    *)
TypeOK == /\ Registry!TypeOK
          /\ when \in [EventIds -> 0..MaxTime]
          /\ composite \in [CompositeIds -> Definitions \cup {NoComposite}]
          /\ \A c \in CompositeIds : Len(composite[c].operands) <= MaxChildren
          /\ cached \in [CompositeIds -> Verdicts]
          /\ resolvedAt \in [CompositeIds -> 0..MaxTime]
          /\ depth \in [CompositeIds -> 0..MaxDepth]
          /\ now \in 0..MaxTime

(* Composition is acyclic whatever the hash does: an operand is an event    *)
(* that exists or a composite that exists and is less deep (createComposite *)
(* accepts only operands that exist already).                               *)
WellFounded ==
    \A c \in CompositeIds :
        \A i \in DOMAIN composite[c].operands :
            LET id == composite[c].operands[i] IN
            OperandExists(id) /\ DepthOf(id) < depth[c]

(* A cached answer stays the answer: at any later moment, evaluating the    *)
(* definition anew would give the same (tryResolve never evaluates again).  *)
VerdictStands ==
    \A c \in CompositeIds :
        cached[c] # "Unresolved" =>
            Exists(c) /\ Evaluate(composite[c], Statuses, Times) = cached[c]

(* What an id comes to when all composites below it are evaluated now,      *)
(* level by level from the events up, ignoring what was cached.             *)
Truth ==
    LET level[k \in 0..MaxDepth] ==
          [id \in Ids |->
              IF id \in EventIds THEN EventStatus(id)
              ELSE IF k = 0 \/ ~Exists(id) THEN "Unresolved"
              ELSE Evaluate(composite[id], level[k - 1], Times)]
    IN  level[MaxDepth]

(* The answer of a composite is determined by the events it is built from:  *)
(* not by who resolved it or its operands, in which order, or how early.    *)
(* For a temporal composite of composites that includes their times.        *)
AnswersFromEvents ==
    \A c \in CompositeIds : cached[c] # "Unresolved" => cached[c] = Truth[c]

(* AND(a, b) and AND(b, a) are the same composite: no two ids have the same *)
(* operator and window and, but for Before, the same bag of operands.       *)
SameClaim(c, d) ==
    /\ Exists(c) /\ Exists(d)
    /\ composite[c].op = composite[d].op
    /\ composite[c].window = composite[d].window
    /\ IF composite[c].op = "Before"
       THEN composite[c].operands = composite[d].operands
       ELSE Occurrences(composite[c].operands) = Occurrences(composite[d].operands)

OneIdPerClaim == \A c, d \in CompositeIds : SameClaim(c, d) => c = d
=============================================================================
