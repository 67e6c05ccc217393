---------------------------- MODULE PriceAtAdapter ----------------------------
(***************************************************************************)
(* resolver/adapters/chainlinkPriceAt.ts: which round of a feed answers    *)
(* for the price at an instant.  An observation reads the latest round and *)
(* then bisects the rounds before it, one call each, while the feed goes   *)
(* on: it publishes rounds and replaces its aggregator, which numbers its  *)
(* rounds from 1 again.  The adapter keeps nothing between observations,   *)
(* so those of all resolvers, and those repeated in a dispute, are one     *)
(* observation made again and again.                                       *)
(***************************************************************************)
EXTENDS Integers, FiniteSets, Sequences

CONSTANTS
    Prices,
    At,             \* the instant of the spec
    Threshold,      \* answered with price >= Threshold
    MaxStaleness,
    SettleGrace,    \* SETTLE_GRACE_SECONDS
    MaxLag,         \* how far a node that answers a call may be behind
    MaxRounds,      \* bound: the rounds published
    MaxSeconds      \* bound: the clock of the source chain

ASSUME PriceAtAssumption ==
    /\ Prices \subseteq Int /\ Threshold \in Int
    /\ {At, MaxStaleness, SettleGrace, MaxLag, MaxRounds, MaxSeconds} \subseteq Nat
    /\ MaxLag < SettleGrace

VARIABLES
    seconds,     \* the time of the source chain
    feed,        \* feed[p]: the rounds of phase p, by number
    search,      \* roundAt under way, or NoSearch
    answered     \* what observations have answered so far

priceVars == <<seconds, feed, search, answered>>

NoSearch == [phase |-> 0]
NoRound  == <<0, 0>>

PriceInit == /\ seconds = 0
             /\ \E price \in Prices : feed = <<<<[answer |-> price, updatedAt |-> 0]>>>>
             /\ search = NoSearch
             /\ answered = {}

-----------------------------------------------------------------------------
(* The feed.                                                                *)
Rounds == UNION {{p} \X DOMAIN feed[p] : p \in DOMAIN feed}
UpdatedAt(r) == feed[r[1]][r[2]].updatedAt
Before(r, s) == r[1] < s[1] \/ (r[1] = s[1] /\ r[2] < s[2])
Latest(rs)   == CHOOSE r \in rs : \A s \in rs : s = r \/ Before(s, r)

SecondsPass == /\ seconds < MaxSeconds
               /\ seconds' = seconds + 1
               /\ UNCHANGED <<feed, search, answered>>

Publish(price) ==
    LET round == [answer |-> price, updatedAt |-> seconds] IN
    /\ Cardinality(Rounds) < MaxRounds
    /\ \/ feed' = [feed EXCEPT ![Len(feed)] = Append(@, round)]
       \/ feed' = Append(feed, <<round>>)
    /\ UNCHANGED <<seconds, search, answered>>

-----------------------------------------------------------------------------
(* observe.  An abstention is no step.                                      *)
Settled_AtOnce == seconds >= At  \* mutant: the grace forgotten
Settled == seconds >= At + SettleGrace

Stale(r) == At - UpdatedAt(r) > MaxStaleness

Answer(r) ==
    /\ search' = NoSearch
    /\ answered' = IF r = NoRound \/ Stale(r) THEN answered
                   ELSE answered \cup {[round |-> r, outcome |-> feed[r[1]][r[2]].answer >= Threshold]}

(* latestRoundData, from a node that is some seconds behind.                *)
ObservePrice ==
    /\ search = NoSearch
    /\ Settled
    /\ \E lag \in 0..MaxLag :
          LET latest == Latest({r \in Rounds : UpdatedAt(r) <= seconds - lag}) IN
          \/ UpdatedAt(latest) <= At /\ Answer(latest)
          \/ /\ UpdatedAt(latest) > At
             /\ search' = [phase |-> latest[1], lo |-> 1, hi |-> latest[2] - 1, best |-> NoRound]
             /\ UNCHANGED answered
    /\ UNCHANGED <<seconds, feed>>

Narrow(s, mid, good) ==
    IF good THEN [s EXCEPT !.best = <<s.phase, mid>>, !.lo = mid + 1]
    ELSE [s EXCEPT !.hi = mid - 1]

(* One turn of the loop of roundAt, and its end.                            *)
GetRound ==
    /\ search # NoSearch /\ search.lo <= search.hi
    /\ LET mid == (search.lo + search.hi) \div 2 IN
       search' = Narrow(search, mid, UpdatedAt(<<search.phase, mid>>) <= At)
    /\ UNCHANGED <<seconds, feed, answered>>

Return == /\ search # NoSearch /\ search.lo > search.hi
          /\ Answer(search.best)
          /\ UNCHANGED <<seconds, feed>>

(* A call fails, or the node it reaches does not have the round.            *)
Abstain == /\ search # NoSearch /\ search.lo <= search.hi
           /\ search' = NoSearch
           /\ UNCHANGED <<seconds, feed, answered>>

PriceStep == \/ SecondsPass
             \/ \E price \in Prices : Publish(price)
             \/ ObservePrice \/ GetRound \/ Return \/ Abstain

PriceSpec == PriceInit /\ [][PriceStep]_priceVars

-----------------------------------------------------------------------------
(* Whoever observes, whenever, and whichever node answers: if they answer,  *)
(* they answer with the last round the feed had at the instant, over all    *)
(* its phases, so resolvers and committees cannot split on honest readings. *)
AnswersTheLastRound ==
    \A a \in answered :
        LET due == Latest({r \in Rounds : UpdatedAt(r) <= At}) IN
        /\ a.round = due /\ ~Stale(due)
        /\ a.outcome = (feed[due[1]][due[2]].answer >= Threshold)
=============================================================================
