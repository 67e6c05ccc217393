--------------------------- MODULE CompositeKeeper ---------------------------
(***************************************************************************)
(* resolver/node/keeper.ts, the pass over composites: a keeper that reads  *)
(* the availability of a composite's operands on the bus, remembers it as  *)
(* a fingerprint, and calls tryResolve when that changed.  The read, the   *)
(* simulated call and the transaction are steps apart; in between, the     *)
(* registry moves and anybody creates and resolves composites.             *)
(***************************************************************************)
EXTENDS EventBus

VARIABLES
    fingerprint,   \* compositeFingerprint; <<>> for a composite not in the map
    visiting,      \* the composite the pass is about to act on, or Nothing
    dropped        \* the composites whose last visit failed

keeperVars == <<fingerprint, visiting, dropped>>
allVars    == <<vars, keeperVars>>

Nothing == 0
ASSUME KeeperAssumption == Nothing \notin Ids

NoPrints == [c \in CompositeIds |-> <<>>]

KeeperInit == /\ Init
              /\ fingerprint = NoPrints
              /\ visiting = Nothing
              /\ dropped = {}

Avail(c) == [i \in DOMAIN composite[c].operands |-> Availability(composite[c].operands[i])]

(* What the pass does with a composite that is not resolved yet: nothing if *)
(* the operands look as they did, and nothing yet if all are Pending.       *)
Look(c) ==
    /\ visiting = Nothing
    /\ Exists(c) /\ cached[c] = "Unresolved"
    /\ Avail(c) # fingerprint[c]
    /\ fingerprint' = [fingerprint EXCEPT ![c] = Avail(c)]
    /\ visiting' = IF Range(Avail(c)) = {"Pending"} THEN Nothing ELSE c
    /\ dropped' = dropped \ {c}
    /\ UNCHANGED vars

(* A transaction is sent if an operand was read as void, or if the          *)
(* simulated call returns that the composite is resolved.                   *)
WouldResolve(c) == \/ cached[c] \in {"True", "False"}
                   \/ /\ cached[c] = "Unresolved"
                      /\ Evaluate(composite[c], Statuses, Times) \in {"True", "False"}
Sends_OnlyIfTrue(c) == WouldResolve(c)  \* mutant: forgets that a void answers (false, false)
Sends(c) == "Voided" \in Range(fingerprint[c]) \/ WouldResolve(c)

(* What the transaction finds may have been resolved by others since, or    *)
(* may still be waiting for an operand.                                     *)
Changes(c) == /\ cached[c] = "Unresolved"
              /\ Evaluate(composite[c], Statuses, Times) # "Unresolved"

Act(c) ==
    /\ visiting = c
    /\ visiting' = Nothing
    /\ \/ Sends(c) /\ TryResolve(c)
       \/ ~(Sends(c) /\ Changes(c)) /\ UNCHANGED vars
    /\ UNCHANGED <<fingerprint, dropped>>

(* simulateContract throws, which ends the pass, or the transaction fails,  *)
(* which ends the visit.                                                    *)
Fault(c) == /\ visiting = c
            /\ visiting' = Nothing
            /\ dropped' = dropped \cup {c}
            /\ UNCHANGED <<vars, fingerprint>>

(* A process that starts anew remembers nothing.                            *)
Restart == /\ fingerprint' = NoPrints
           /\ visiting' = Nothing
           /\ dropped' = {}
           /\ UNCHANGED vars

KeeperNext == \/ \E c \in CompositeIds : Look(c) \/ Act(c) \/ Fault(c)
              \/ Restart
              \/ Next /\ UNCHANGED keeperVars

(* The passes go on, each over all composites, and not every visit fails.   *)
KeeperSpec == /\ KeeperInit /\ [][KeeperNext]_allVars
              /\ \A c \in CompositeIds : SF_allVars(Look(c)) /\ SF_allVars(Act(c))

-----------------------------------------------------------------------------
EventsSettled == \A e \in EventIds : phase[e] \in {"None", "Decided", "Void"}

(* The keeper alone resolves every composite whose events determine it,     *)
(* until a visit to it or to one below it fails: comparing fingerprints     *)
(* skips no change that matters, with nested and void operands, a restart   *)
(* and others who resolve between what the keeper reads and what it sends.  *)
KeeperSettles ==
    \A c \in CompositeIds :
        Truth[c] # "Unresolved" \/ (Exists(c) /\ EventsSettled)
            ~> cached[c] # "Unresolved" \/ \E d \in dropped : depth[d] <= depth[c]
=============================================================================
