-------------------------- MODULE EventLifecycle --------------------------
(***************************************************************************)
(* What an event promises to the contracts and programs that consume it.   *)
(* An answer is published only after it could be contested in public       *)
(* ("Contestable") or after a contest was decided ("Contested"); and once  *)
(* an event is decided or void, neither its phase nor its answer changes.  *)
(* EventRegistry implements this specification, and so does the registry   *)
(* composed with its DisputeManager.                                       *)
(***************************************************************************)
CONSTANT EventIds

VARIABLES
    phase,    \* phase[e]: where event e is in its life
    answer    \* answer[e]: {} or the singleton of the offered or final answer

vars == <<phase, answer>>

Phases == {"None", "Pending", "Contestable", "Contested", "Decided", "Void"}

TypeOK == /\ phase \in [EventIds -> Phases]
          /\ answer \in [EventIds -> SUBSET BOOLEAN]

Init == /\ phase = [e \in EventIds |-> "None"]
        /\ answer = [e \in EventIds |-> {}]

(* A transaction may create several events at once. *)
Create(es) == /\ \A e \in es : phase[e] = "None"
              /\ phase' = [e \in EventIds |-> IF e \in es THEN "Pending" ELSE phase[e]]
              /\ UNCHANGED answer

Offer(e, b) == /\ phase[e] = "Pending"
               /\ phase' = [phase EXCEPT ![e] = "Contestable"]
               /\ answer' = [answer EXCEPT ![e] = {b}]

Accept(e) == /\ phase[e] = "Contestable"
             /\ phase' = [phase EXCEPT ![e] = "Decided"]
             /\ UNCHANGED answer

Contest(e) == /\ phase[e] \in {"Pending", "Contestable"}
              /\ phase' = [phase EXCEPT ![e] = "Contested"]
              /\ answer' = [answer EXCEPT ![e] = {}]

Rule(e, b) == /\ phase[e] = "Contested"
              /\ phase' = [phase EXCEPT ![e] = "Decided"]
              /\ answer' = [answer EXCEPT ![e] = {b}]

Abandon(e) == /\ phase[e] \in {"Pending", "Contested"}
              /\ phase' = [phase EXCEPT ![e] = "Void"]
              /\ UNCHANGED answer

Next == \/ \E es \in SUBSET EventIds : Create(es)
        \/ \E e \in EventIds :
              \/ \E b \in BOOLEAN : Offer(e, b) \/ Rule(e, b)
              \/ Accept(e) \/ Contest(e) \/ Abandon(e)

Spec == Init /\ [][Next]_vars
=============================================================================
