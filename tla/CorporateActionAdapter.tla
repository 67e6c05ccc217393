------------------------ MODULE CorporateActionAdapter ------------------------
(***************************************************************************)
(* resolver/adapters/corporateAction.ts: was the multiplier of a stock     *)
(* token changed by so much within a window?  The token announces a change *)
(* ahead, and a later announcement replaces one that is not in force yet.  *)
(* The adapter never reads the token: it replays the logs of the           *)
(* announcements, which it keeps and extends from one observation to the   *)
(* next, for all events on the token.                                      *)
(***************************************************************************)
EXTENDS Integers, SequencesExt

CONSTANTS
    Questions,      \* the specs of the events: [windowStart, windowEnd, minChangeBps]
    Multipliers,
    Lookback,       \* LOOKBACK_SECONDS
    ActionGrace,    \* SETTLE_GRACE_SECONDS
    MaxNotice,      \* how far ahead the token announces
    NodeLag,        \* how far behind the node may be that is asked for the latest block
    MaxBlocks,      \* bound: the blocks of the source chain
    MaxSteps        \* bound: the seconds between two blocks

ASSUME CorporateActionAssumption ==
    /\ \A q \in Questions : q.windowStart \in Nat /\ q.windowEnd \in Nat /\ q.minChangeBps \in Nat
    /\ Multipliers \subseteq Nat
    /\ {Lookback, ActionGrace, MaxNotice, NodeLag, MaxBlocks, MaxSteps} \subseteq Nat
    /\ NodeLag <= ActionGrace
    /\ MaxNotice < Lookback

VARIABLES
    chain,       \* the blocks of the source chain: the time, and the announcement if any
    inForce,     \* the changes of the multiplier that took effect
    announced,   \* the change that did not yet, or NoChange
    logCache,    \* logCache of the token, or NoCache
    decided      \* what observations have answered so far

actionVars == <<chain, inForce, announced, logCache, decided>>

NoChange == [effectiveAt |-> -1]
NoCache  == [toBlock |-> -1]

ActionInit == /\ chain = <<[timestamp |-> 0, log |-> NoChange]>>
              /\ inForce = <<>>
              /\ announced = NoChange
              /\ logCache = NoCache
              /\ decided = {}

-----------------------------------------------------------------------------
(* The token.  Blocks are numbered from 1.                                  *)
Clock == Last(chain).timestamp
FirstMultiplier == CHOOSE x \in Multipliers : \A y \in Multipliers : x <= y

(* What is in force at a time, if nothing is announced after.               *)
InForceAt(t) == IF announced # NoChange /\ announced.effectiveAt <= t
                THEN Append(inForce, announced) ELSE inForce

MultiplierIn(past) == IF past = <<>> THEN FirstMultiplier ELSE Last(past).newMultiplier

Mine ==
    \E t \in Clock..(Clock + MaxSteps) :
        /\ Len(chain) < MaxBlocks
        /\ inForce' = InForceAt(t)
        /\ \/ /\ chain' = Append(chain, [timestamp |-> t, log |-> NoChange])
              /\ announced' = IF inForce' = inForce THEN announced ELSE NoChange
           \/ \E x \in Multipliers, notice \in 0..MaxNotice :
                 LET change == [oldMultiplier |-> MultiplierIn(inForce'), newMultiplier |-> x,
                                effectiveAt |-> t + notice, scheduledAt |-> t,
                                blockNumber |-> Len(chain) + 1]
                 IN  /\ chain' = Append(chain, [timestamp |-> t, log |-> change])
                     /\ announced' = change
        /\ UNCHANGED <<logCache, decided>>

-----------------------------------------------------------------------------
(* findBlockAtOrBefore: the first block, if all are later.                  *)
BlockAt(t) ==
    LET Bisect[range \in (DOMAIN chain) \X (DOMAIN chain)] ==
            LET lo  == range[1]
                hi  == range[2]
                mid == (lo + hi + 1) \div 2
            IN  IF lo >= hi THEN lo
                ELSE IF chain[mid].timestamp <= t THEN Bisect[<<mid, hi>>]
                     ELSE Bisect[<<lo, mid - 1>>]
    IN  IF Clock <= t THEN Len(chain) ELSE Bisect[<<1, Len(chain)>>]

Logs(blocks) ==
    FoldLeft(LAMBDA logs, b : IF b.log = NoChange THEN logs ELSE Append(logs, b.log), <<>>, blocks)
Scan(from, to) == Logs(SubSeq(chain, from, to))

Reaches_Any(from) == logCache # NoCache  \* mutant: filled for a later window
(* fetchChanges: a cache that reaches back far enough is extended to the    *)
(* latest block, whichever node says what that is.                          *)
Reaches(from) == logCache # NoCache /\ logCache.fromBlock <= from

Fetched(from, latest) ==
    IF Reaches(from)
    THEN [logCache EXCEPT !.changes = @ \o Scan(logCache.toBlock + 1, latest), !.toBlock = latest]
    ELSE [fromBlock |-> from, toBlock |-> latest, changes |-> Scan(from, latest)]

(* decideCorporateAction: of the changes since a block, which fetchChanges  *)
(* filters, those no later one replaced before they took effect.            *)
Live(changes, from) ==
    FoldLeft(LAMBDA live, c : IF c.blockNumber < from THEN live
                              ELSE {p \in live : p.effectiveAt <= c.scheduledAt} \cup {c},
             {}, changes)

ChangeBps(c) == IF c.oldMultiplier = 0 THEN 0
                ELSE (Max({c.newMultiplier - c.oldMultiplier, c.oldMultiplier - c.newMultiplier})
                          * 10000) \div c.oldMultiplier

Qualifies(c, q) == /\ c.effectiveAt >= q.windowStart /\ c.effectiveAt <= q.windowEnd
                   /\ ChangeBps(c) >= q.minChangeBps

Ripe(c) == c.effectiveAt + ActionGrace <= Clock

Earliest(changes) == Min({c.effectiveAt : c \in changes})

(* observe: at most one answer, and none while the window is open.          *)
Answers(q, live) ==
    LET first == {c \in live : Qualifies(c, q) /\ Ripe(c)} IN
    IF first # {} THEN {[question |-> q, outcome |-> TRUE, occurredAt |-> Earliest(first)]}
    ELSE IF Clock > q.windowEnd + ActionGrace
         THEN {[question |-> q, outcome |-> FALSE, occurredAt |-> q.windowEnd]}
         ELSE {}

ObserveAction(q) ==
    /\ Clock >= q.windowStart
    /\ \E latest \in DOMAIN chain :
          LET from == BlockAt(q.windowStart - Lookback) IN
          /\ chain[latest].timestamp >= Clock - NodeLag
          /\ logCache' = Fetched(from, latest)
          /\ decided' = decided \cup Answers(q, Live(logCache'.changes, from))
    /\ UNCHANGED <<chain, inForce, announced>>

(* The process starts anew, or another one, of another resolver, observes.  *)
Forget == /\ logCache # NoCache
          /\ logCache' = NoCache
          /\ UNCHANGED <<chain, inForce, announced, decided>>

ActionStep == Mine \/ Forget \/ \E q \in Questions : ObserveAction(q)

ActionSpec == ActionInit /\ [][ActionStep]_actionVars

-----------------------------------------------------------------------------
(* Every answer, of whatever resolver at whatever time, is what happened to *)
(* the token: it changed as asked, and first at that instant, or the window *)
(* went by without.  So answers agree, although they come from the logs,    *)
(* from caches that were filled for other events, by nodes that lag.        *)
DecidedAsHappened ==
    \A d \in decided :
        LET happened == {c \in ToSet(InForceAt(Clock)) : Qualifies(c, d.question)} IN
        IF d.outcome THEN happened # {} /\ d.occurredAt = Earliest(happened)
        ELSE happened = {} /\ d.occurredAt = d.question.windowEnd
=============================================================================
