---------------------------- MODULE ObserverProofs ----------------------------
(***************************************************************************)
(* What holds of the nodes' own modules: of PriceAtAdapter for every feed, *)
(* however long, any prices and times, and any lag of a node below the     *)
(* grace; of CorporateActionAdapter for any events and announcements, with *)
(* nodes that lag and caches that are lost; of MarketLister for any feeds, *)
(* hours, days, failures and restarts.                                     *)
(***************************************************************************)
EXTENDS PriceAtAdapter, CorporateActionAdapter, MarketLister, SequenceTheorems, SumTheorems, WellFoundedInduction, TLAPS

Round  == [answer : Int, updatedAt : Nat]
Phases == Seq(Round) \ {<<>>}

RoundAt(r) == feed[r[1]][r[2]]

(* A feed of numbered phases of numbered rounds, published in that order    *)
(* and none in the future, the first of them before anything was asked.     *)
FeedOK == /\ seconds \in Nat
          /\ feed \in Seq(Phases) \ {<<>>}
          /\ \A r \in Rounds : UpdatedAt(r) <= seconds
          /\ \A r, s \in Rounds : Before(r, s) => UpdatedAt(r) <= UpdatedAt(s)
          /\ UpdatedAt(<<1, 1>>) = 0

(* The last round at the instant, and always so: what comes later is later. *)
IsDue(r) == /\ r \in Rounds
            /\ UpdatedAt(r) <= At
            /\ \A s \in Rounds : Before(r, s) => UpdatedAt(s) > At

AnsweredOK ==
    \A a \in answered :
        /\ Settled
        /\ IsDue(a.round) /\ ~Stale(a.round)
        /\ a.outcome = (RoundAt(a.round).answer >= Threshold)

(* The bisection is closing in on the last round of its phase that is not   *)
(* after the instant: lo - 1 is not after it, hi + 1 is.                    *)
Bisecting(s) ==
    /\ Settled
    /\ s.phase \in Nat \ {0} /\ s.lo \in Nat \ {0} /\ s.hi \in Nat
    /\ s.lo <= s.hi + 1
    /\ <<s.phase, s.hi + 1>> \in Rounds
    /\ UpdatedAt(<<s.phase, s.hi + 1>>) > At
    /\ s.best = IF s.lo = 1 THEN NoRound ELSE <<s.phase, s.lo - 1>>
    /\ s.lo > 1 => UpdatedAt(<<s.phase, s.lo - 1>>) <= At

SearchOK ==
    \/ search = NoSearch
    \/ /\ search \in [phase : Nat \ {0}, lo : Nat, hi : Nat, best : Nat \X Nat]
       /\ Bisecting(search)

PriceInv == FeedOK /\ AnsweredOK /\ SearchOK

-----------------------------------------------------------------------------
(* Numbers with a bound, if any, have a largest.                            *)
LEMMA LargestNumber ==
    ASSUME NEW S \in SUBSET Nat, S # {}, NEW b \in Nat, \A n \in S : n <= b
    PROVE  \E m \in S : \A n \in S : n <= m
<1> DEFINE R == {s \in Nat \X Nat : s[1] < s[2]}
           T == {k \in Nat : k <= b /\ b - k \in S}
<1>1. IsWellFoundedOn(R, Nat)
  BY NatLessThanWellFounded DEF OpToRel
<1>2. ASSUME NEW n \in S PROVE b - n \in T
  <2>1. b - (b - n) = n /\ b - n \in Nat /\ b - n <= b
    BY <1>2
  <2> QED BY <2>1, <1>2
<1>3. T \subseteq Nat /\ T # {}
  BY <1>2
<1>4. PICK k \in T : \A j \in T : <<j, k>> \notin R
  <2> HIDE DEF R, T
  <2> QED BY <1>1, <1>3, WFMin
<1>5. b - k \in S
  OBVIOUS
<1>6. ASSUME NEW n \in S PROVE n <= b - k
  <2>1. <<b - n, k>> \notin R
    BY <1>2, <1>4
  <2>2. b - n \in Nat /\ k \in Nat
    BY <1>2
  <2>3. ~(b - n < k)
    BY <2>1, <2>2
  <2> QED BY <2>3
<1> QED BY <1>5, <1>6

(* Rounds are pairs of the number of a phase and a number in it.            *)
LEMMA Numbered ==
    ASSUME NEW f \in Seq(Phases), NEW rs, rs = UNION {{p} \X DOMAIN f[p] : p \in DOMAIN f}
    PROVE  /\ \A p, n : <<p, n>> \in rs <=> p \in 1..Len(f) /\ n \in 1..Len(f[p])
           /\ \A r \in rs : /\ r = <<r[1], r[2]>> /\ r[1] \in Nat \ {0} /\ r[2] \in Nat \ {0}
                            /\ r[1] \in 1..Len(f) /\ r[2] \in 1..Len(f[r[1]])
                            /\ f[r[1]][r[2]] \in Round
<1>1. DOMAIN f = 1..Len(f) /\ Len(f) \in Nat
  BY LenProperties
<1>2. ASSUME NEW p \in DOMAIN f
      PROVE  f[p] \in Seq(Round) /\ DOMAIN f[p] = 1..Len(f[p]) /\ Len(f[p]) \in Nat
  <2>1. f[p] \in Seq(Round)
    BY <1>1, <1>2, ElementOfSeq DEF Phases
  <2> QED BY <2>1, LenProperties
<1>3. ASSUME NEW p \in DOMAIN f, NEW n \in DOMAIN f[p]
      PROVE  f[p][n] \in Round
  BY <1>2, <1>3, ElementOfSeq
<1>4. \A p, n : <<p, n>> \in rs <=> p \in DOMAIN f /\ n \in DOMAIN f[p]
  OBVIOUS
<1>5. ASSUME NEW r \in rs
      PROVE  r = <<r[1], r[2]>> /\ r[1] \in DOMAIN f /\ r[2] \in DOMAIN f[r[1]]
  OBVIOUS
<1>6. ASSUME NEW r \in rs
      PROVE  /\ r[1] \in Nat \ {0} /\ r[2] \in Nat \ {0}
             /\ r[1] \in 1..Len(f) /\ r[2] \in 1..Len(f[r[1]])
             /\ f[r[1]][r[2]] \in Round
  BY <1>1, <1>2, <1>3, <1>5
<1> QED BY <1>1, <1>2, <1>4, <1>5, <1>6

(* The numbers of a round are numbers, and its time and answer too.         *)
LEMMA RoundNumbers ==
    ASSUME feed \in Seq(Phases)
    PROVE  /\ \A p, n : <<p, n>> \in Rounds <=> p \in 1..Len(feed) /\ n \in 1..Len(feed[p])
           /\ \A r \in Rounds : /\ r = <<r[1], r[2]>> /\ r[1] \in Nat \ {0} /\ r[2] \in Nat \ {0}
                                /\ r[1] \in 1..Len(feed) /\ r[2] \in 1..Len(feed[r[1]])
                                /\ RoundAt(r) \in Round /\ UpdatedAt(r) \in Nat
<1>1. /\ \A p, n : <<p, n>> \in Rounds <=> p \in 1..Len(feed) /\ n \in 1..Len(feed[p])
      /\ \A r \in Rounds : /\ r = <<r[1], r[2]>> /\ r[1] \in Nat \ {0} /\ r[2] \in Nat \ {0}
                           /\ r[1] \in 1..Len(feed) /\ r[2] \in 1..Len(feed[r[1]])
                           /\ feed[r[1]][r[2]] \in Round
  BY Numbered DEF Rounds
<1> QED BY <1>1 DEF RoundAt, UpdatedAt, Round

(* So are those of a round of the feed after a step.                        *)
LEMMA NextRoundNumbers ==
    ASSUME feed' \in Seq(Phases)
    PROVE  /\ \A p, n : <<p, n>> \in Rounds' <=> p \in 1..Len(feed') /\ n \in 1..Len(feed'[p])
           /\ \A r \in Rounds' : /\ r = <<r[1], r[2]>> /\ r[1] \in Nat \ {0} /\ r[2] \in Nat \ {0}
                                 /\ r[1] \in 1..Len(feed') /\ r[2] \in 1..Len(feed'[r[1]])
<1>1. PICK f, rs : f = feed' /\ rs = Rounds'
  OBVIOUS
<1>2. f \in Seq(Phases) /\ rs = UNION {{p} \X DOMAIN f[p] : p \in DOMAIN f}
  BY <1>1 DEF Rounds
<1>3. /\ \A p, n : <<p, n>> \in rs <=> p \in 1..Len(f) /\ n \in 1..Len(f[p])
      /\ \A r \in rs : /\ r = <<r[1], r[2]>> /\ r[1] \in Nat \ {0} /\ r[2] \in Nat \ {0}
                       /\ r[1] \in 1..Len(f) /\ r[2] \in 1..Len(f[r[1]])
  BY <1>2, Numbered
<1> QED BY <1>1, <1>3

(* A step that leaves the feed alone leaves what is said of it.             *)
LEMMA SameFeed ==
    ASSUME PriceInv, UNCHANGED <<seconds, feed>>
    PROVE  /\ FeedOK' /\ Rounds' = Rounds /\ Settled' = Settled
           /\ \A r : UpdatedAt(r)' = UpdatedAt(r) /\ RoundAt(r)' = RoundAt(r)
           /\ UNCHANGED answered => AnsweredOK'
<1>1. /\ Rounds' = Rounds /\ Settled' = Settled
      /\ \A r : UpdatedAt(r)' = UpdatedAt(r) /\ RoundAt(r)' = RoundAt(r) /\ Stale(r)' = Stale(r)
  BY DEF Rounds, Settled, UpdatedAt, RoundAt, Stale
<1>2. FeedOK'
  BY <1>1 DEF PriceInv, FeedOK, Before
<1>3. \A r : IsDue(r) => IsDue(r)'
  BY <1>1 DEF IsDue, Before
<1>4. UNCHANGED answered => AnsweredOK'
  BY <1>1, <1>3 DEF PriceInv, AnsweredOK
<1> QED BY <1>1, <1>2, <1>4

(* Latest picks the one round after which there is no other.                *)
LEMMA LatestIsUnique ==
    ASSUME feed \in Seq(Phases), NEW rs \in SUBSET Rounds, NEW x \in rs,
           \A s \in rs : s = x \/ Before(s, x)
    PROVE  Latest(rs) = x
<1>1. PICK y \in rs : y = Latest(rs) /\ \A s \in rs : s = y \/ Before(s, y)
  BY DEF Latest
<1>2. x = y \/ (Before(x, y) /\ Before(y, x))
  BY <1>1
<1>3. x[1] \in Nat /\ x[2] \in Nat /\ y[1] \in Nat /\ y[2] \in Nat
  BY RoundNumbers
<1> QED BY <1>1, <1>2, <1>3 DEF Before

(* A feed has a latest round.                                               *)
LEMMA LatestExists ==
    ASSUME feed \in Seq(Phases), NEW rs \in SUBSET Rounds, rs # {}
    PROVE  Latest(rs) \in rs /\ \A s \in rs : s = Latest(rs) \/ Before(s, Latest(rs))
<1> DEFINE P == {r[1] : r \in rs}
<1>1. PICK p \in P : \A q \in P : q <= p
  <2>1. P \in SUBSET Nat /\ P # {} /\ Len(feed) \in Nat /\ \A q \in P : q <= Len(feed)
    BY RoundNumbers, LenProperties
  <2> HIDE DEF P
  <2> QED BY <2>1, LargestNumber
<1> DEFINE N == {r[2] : r \in {s \in rs : s[1] = p}}
<1>2. PICK n \in N : \A k \in N : k <= n
  <2>1. p \in 1..Len(feed) /\ N # {}
    BY RoundNumbers
  <2>2. feed[p] \in Seq(Round)
    BY <2>1, ElementOfSeq DEF Phases
  <2>3. N \in SUBSET Nat /\ Len(feed[p]) \in Nat /\ \A k \in N : k <= Len(feed[p])
    BY RoundNumbers, <2>2, LenProperties
  <2> HIDE DEF N, P
  <2> QED BY <2>1, <2>3, LargestNumber
<1>3. <<p, n>> \in rs
  BY RoundNumbers
<1>4. ASSUME NEW s \in rs PROVE s = <<p, n>> \/ Before(s, <<p, n>>)
  <2>1. s = <<s[1], s[2]>> /\ s[1] \in Nat /\ s[2] \in Nat /\ p \in Nat /\ n \in Nat
    BY <1>3, RoundNumbers
  <2>2. s[1] <= p /\ (s[1] = p => s[2] <= n)
    BY <1>1, <1>2
  <2> QED BY <2>1, <2>2 DEF Before
<1> HIDE DEF P, N
<1>5. Latest(rs) = <<p, n>>
  BY <1>3, <1>4, LatestIsUnique
<1> QED BY <1>3, <1>4, <1>5
-----------------------------------------------------------------------------
(* A round that is published becomes the last one, and the rest stay.       *)
LEMMA Publishing ==
    ASSUME FeedOK, NEW price \in Prices, Publish(price)
    PROVE  /\ feed' \in Seq(Phases) \ {<<>>}
           /\ \E new : /\ Rounds' = Rounds \cup {new}
                       /\ RoundAt(new)' = [answer |-> price, updatedAt |-> seconds]
                       /\ \A r \in Rounds : Before(r, new) /\ RoundAt(r)' = RoundAt(r)
<1> DEFINE round == [answer |-> price, updatedAt |-> seconds]
           top == Len(feed)
<1>1. round \in Round /\ feed \in Seq(Phases) /\ feed # <<>>
  BY PriceAtAssumption DEF FeedOK, Round
<1>2. top \in Nat \ {0} /\ feed[top] \in Seq(Round) /\ feed[top] # <<>>
  BY <1>1, EmptySeq, ElementOfSeq DEF Phases
<1>3. CASE feed' = [feed EXCEPT ![top] = Append(@, round)]
  <2> DEFINE phase == Append(feed[top], round)
  <2>0. PICK new : new = <<top, Len(feed[top]) + 1>>
    OBVIOUS
  <2>1. /\ phase \in Phases /\ Len(phase) = Len(feed[top]) + 1 /\ Len(feed[top]) \in Nat
        /\ \A n \in 1..Len(feed[top]) : phase[n] = feed[top][n]
        /\ phase[Len(feed[top]) + 1] = round
    BY <1>1, <1>2, AppendProperties DEF Phases
  <2>2. /\ feed' \in Seq(Phases) /\ Len(feed') = top
        /\ \A p \in 1..top : feed'[p] = IF p = top THEN phase ELSE feed[p]
    <3>1. feed' = [feed EXCEPT ![top] = phase]
      BY <1>3
    <3> QED BY <3>1, <2>1, <1>1, <1>2, ExceptSeq
  <2>3. feed' # <<>>
    BY <2>2, <1>2, EmptySeq
  <2> HIDE DEF phase, round
  <2>4. Rounds' = Rounds \cup {new}
    <3>1. ASSUME NEW p, NEW n
          PROVE  <<p, n>> \in Rounds' <=> <<p, n>> \in Rounds \/ <<p, n>> = new
      <4>1. <<p, n>> \in Rounds' <=> p \in 1..Len(feed') /\ n \in 1..Len(feed'[p])
        BY <2>2, NextRoundNumbers
      <4>2. <<p, n>> \in Rounds <=> p \in 1..top /\ n \in 1..Len(feed[p])
        BY <1>1, RoundNumbers
      <4>3. CASE p = top
        BY <1>2, <2>0, <2>1, <2>2, <4>1, <4>2, <4>3
      <4>4. CASE p # top
        BY <2>0, <2>2, <4>1, <4>2, <4>4
      <4> QED BY <4>3, <4>4
    <3> QED BY <1>1, <2>0, <2>2, <3>1, RoundNumbers, NextRoundNumbers
  <2>5. RoundAt(new)' = round
    BY <2>0, <2>1, <2>2, <1>2 DEF RoundAt
  <2>6. ASSUME NEW r \in Rounds PROVE Before(r, new) /\ RoundAt(r)' = RoundAt(r)
    BY <1>1, <1>2, <2>0, <2>1, <2>2, RoundNumbers DEF Before, RoundAt
  <2> QED BY <2>2, <2>3, <2>4, <2>5, <2>6 DEF round
<1>4. CASE feed' = Append(feed, <<round>>)
  <2> DEFINE phase == <<round>>
  <2>0. PICK new : new = <<top + 1, 1>>
    OBVIOUS
  <2>1. phase \in Phases /\ Len(phase) = 1 /\ phase[1] = round
    BY <1>1 DEF Phases
  <2>2. /\ feed' \in Seq(Phases) /\ Len(feed') = top + 1
        /\ \A p \in 1..top : feed'[p] = feed[p]
        /\ feed'[top + 1] = phase
    BY <1>1, <1>2, <1>4, <2>1, AppendProperties
  <2>3. feed' # <<>>
    BY <2>2, <1>2, EmptySeq
  <2> HIDE DEF phase, round
  <2>4. Rounds' = Rounds \cup {new}
    <3>1. ASSUME NEW p, NEW n
          PROVE  <<p, n>> \in Rounds' <=> <<p, n>> \in Rounds \/ <<p, n>> = new
      <4>1. <<p, n>> \in Rounds' <=> p \in 1..Len(feed') /\ n \in 1..Len(feed'[p])
        BY <2>2, NextRoundNumbers
      <4>2. <<p, n>> \in Rounds <=> p \in 1..top /\ n \in 1..Len(feed[p])
        BY <1>1, RoundNumbers
      <4>3. CASE p = top + 1
        <5>1. /\ <<p, n>> = new <=> n = 1
              /\ n \in 1..1 <=> n = 1
              /\ p \notin 1..top /\ p \in 1..(top + 1)
          BY <1>2, <2>0, <4>3
        <5>2. Len(feed'[p]) = 1
          BY <2>1, <2>2, <4>3
        <5> QED BY <2>2, <4>1, <4>2, <5>1, <5>2
      <4>4. CASE p # top + 1
        BY <1>2, <2>0, <2>2, <4>1, <4>2, <4>4
      <4> QED BY <4>3, <4>4
    <3> QED BY <1>1, <2>0, <2>2, <3>1, RoundNumbers, NextRoundNumbers
  <2>5. RoundAt(new)' = round
    BY <2>0, <2>1, <2>2, <1>2 DEF RoundAt
  <2>6. ASSUME NEW r \in Rounds PROVE Before(r, new) /\ RoundAt(r)' = RoundAt(r)
    BY <1>1, <1>2, <2>0, <2>1, <2>2, RoundNumbers DEF Before, RoundAt
  <2> QED BY <2>2, <2>3, <2>4, <2>5, <2>6 DEF round
<1> QED BY <1>3, <1>4 DEF Publish
-----------------------------------------------------------------------------
(* While rounds are only added at the end, and not before the instant once  *)
(* it is over by the grace, what is due stays due.                          *)
LEMMA DueStays ==
    ASSUME PriceInv, seconds' \in Nat, seconds <= seconds',
           \A r \in Rounds : r \in Rounds' /\ RoundAt(r)' = RoundAt(r),
           \A r \in Rounds' \ Rounds : UpdatedAt(r)' = seconds
    PROVE  /\ Settled => Settled'
           /\ Settled => \A r \in Rounds : IsDue(r) => IsDue(r)'
           /\ UNCHANGED answered => AnsweredOK'
           /\ UNCHANGED search => SearchOK'
<1>1. /\ \A r \in Rounds : UpdatedAt(r)' = UpdatedAt(r) /\ Stale(r)' = Stale(r)
      /\ feed \in Seq(Phases) /\ seconds \in Nat
  BY DEF UpdatedAt, RoundAt, Stale, PriceInv, FeedOK
<1>2. Settled => Settled' /\ seconds > At
  BY <1>1, PriceAtAssumption DEF Settled
<1>3. ASSUME Settled, NEW r \in Rounds, IsDue(r) PROVE IsDue(r)'
  BY <1>1, <1>2, <1>3 DEF IsDue, Before
<1>4. ASSUME UNCHANGED answered PROVE AnsweredOK'
  <2> SUFFICES ASSUME NEW a \in answered
               PROVE  /\ Settled'
                      /\ IsDue(a.round)' /\ ~Stale(a.round)'
                      /\ a.outcome = (RoundAt(a.round).answer >= Threshold)'
    BY <1>4 DEF AnsweredOK
  <2>1. Settled /\ IsDue(a.round) /\ ~Stale(a.round) /\ a.round \in Rounds
        /\ a.outcome = (RoundAt(a.round).answer >= Threshold)
    BY DEF PriceInv, AnsweredOK, IsDue
  <2> QED BY <1>1, <1>2, <1>3, <2>1
<1>5. ASSUME UNCHANGED search PROVE SearchOK'
  <2>1. CASE search = NoSearch
    BY <2>1, <1>5 DEF SearchOK, NoSearch
  <2>2. CASE search # NoSearch
    <3>1. search \in [phase : Nat \ {0}, lo : Nat, hi : Nat, best : Nat \X Nat] /\ Bisecting(search)
      BY <2>2 DEF PriceInv, SearchOK
    <3>2. search.lo > 1 => <<search.phase, search.lo - 1>> \in Rounds
      BY <3>1, <1>1, RoundNumbers DEF Bisecting
    <3>3. Bisecting(search)'
      BY <3>1, <3>2, <1>1, <1>2, <1>5 DEF Bisecting
    <3> QED BY <3>1, <3>3, <1>5 DEF SearchOK
  <2> QED BY <2>1, <2>2
<1> QED BY <1>2, <1>3, <1>4, <1>5

(* An observation that finds the round that is due, or none, answers right. *)
LEMMA AnswersDue ==
    ASSUME PriceInv, Settled, UNCHANGED <<seconds, feed>>, NEW r, Answer(r),
           r = NoRound \/ IsDue(r)
    PROVE  PriceInv'
<1>1. FeedOK'
  BY DEF PriceInv, FeedOK, Rounds, UpdatedAt
<1>2. SearchOK'
  BY DEF Answer, SearchOK, NoSearch
<1>3. ASSUME NEW a \in answered'
      PROVE  /\ Settled'
             /\ IsDue(a.round)' /\ ~Stale(a.round)'
             /\ a.outcome = (RoundAt(a.round).answer >= Threshold)'
  <2>1. CASE a \in answered
    BY <2>1 DEF PriceInv, AnsweredOK, IsDue, Rounds, UpdatedAt, Stale, RoundAt, Settled
  <2>2. CASE a \notin answered
    <3>1. /\ IsDue(r) /\ ~Stale(r)
          /\ a = [round |-> r, outcome |-> RoundAt(r).answer >= Threshold]
      BY <2>2 DEF Answer, RoundAt
    <3>2. a.round = r /\ a.outcome = (RoundAt(r).answer >= Threshold)
      BY <3>1
    <3> QED BY <3>1, <3>2 DEF IsDue, Rounds, UpdatedAt, Stale, RoundAt, Settled
  <2> QED BY <2>1, <2>2
<1> QED BY <1>1, <1>2, <1>3 DEF PriceInv, AnsweredOK

(* What one answer of latestRoundData tells, however far the node is behind *)
(* within the grace.                                                        *)
LEMMA Observing ==
    ASSUME PriceInv, ObservePrice
    PROVE  PriceInv'
<1>1. PICK lag \in 0..MaxLag :
        LET latest == Latest({r \in Rounds : UpdatedAt(r) <= seconds - lag}) IN
        \/ UpdatedAt(latest) <= At /\ Answer(latest)
        \/ /\ UpdatedAt(latest) > At
           /\ search' = [phase |-> latest[1], lo |-> 1, hi |-> latest[2] - 1, best |-> NoRound]
           /\ UNCHANGED answered
  BY DEF ObservePrice
<1> DEFINE seen   == {r \in Rounds : UpdatedAt(r) <= seconds - lag}
           latest == Latest(seen)
<1>2. Settled /\ UNCHANGED <<seconds, feed>>
  BY DEF ObservePrice
<1>3. feed \in Seq(Phases) /\ feed # <<>> /\ seconds \in Nat /\ lag \in Nat
      /\ seconds - lag > At /\ seconds - lag \in Nat /\ At \in Nat
  BY <1>2, PriceAtAssumption DEF PriceInv, FeedOK, Settled
<1>4. latest \in seen /\ \A s \in seen : s = latest \/ Before(s, latest)
  <2>1. Len(feed) \in Nat \ {0} /\ feed[1] \in Phases
    BY <1>3, EmptySeq, ElementOfSeq
  <2>2. Len(feed[1]) \in Nat \ {0}
    BY <2>1, EmptySeq DEF Phases
  <2>3. <<1, 1>> \in Rounds
    BY <1>3, <2>1, <2>2, RoundNumbers
  <2>4. <<1, 1>> \in seen
    BY <2>3, <1>3 DEF PriceInv, FeedOK
  <2> HIDE DEF seen
  <2>5. seen \in SUBSET Rounds
    BY DEF seen
  <2> QED BY <1>3, <2>4, <2>5, LatestExists
<1>5. latest \in Rounds /\ UpdatedAt(latest) \in Nat
  BY <1>3, <1>4, RoundNumbers
<1>6. CASE UpdatedAt(latest) <= At /\ Answer(latest)
  <2>1. ASSUME NEW s \in Rounds, Before(latest, s) PROVE UpdatedAt(s) > At
    <3>1. s \notin seen
      <4>1. /\ latest[1] \in Nat /\ latest[2] \in Nat
            /\ s[1] \in Nat /\ s[2] \in Nat
        BY <1>3, <1>5, <2>1, RoundNumbers
      <4> HIDE DEF latest, seen
      <4>2. SUFFICES ASSUME s \in seen PROVE FALSE
        OBVIOUS
      <4>3. s = latest \/ Before(s, latest)
        BY <1>4, <4>2
      <4> QED BY <2>1, <4>1, <4>3 DEF Before
    <3> QED BY <3>1, <1>3, RoundNumbers
  <2>2. IsDue(latest)
    BY <1>5, <1>6, <2>1 DEF IsDue
  <2> HIDE DEF latest
  <2> QED BY <1>2, <1>6, <2>2, AnswersDue
<1>7. CASE /\ UpdatedAt(latest) > At
           /\ search' = [phase |-> latest[1], lo |-> 1, hi |-> latest[2] - 1, best |-> NoRound]
           /\ UNCHANGED answered
  <2> HIDE DEF latest
  <2>1. FeedOK' /\ AnsweredOK'
    BY <1>2, <1>7, SameFeed
  <2>2. latest = <<latest[1], latest[2]>> /\ latest[1] \in Nat \ {0} /\ latest[2] \in Nat \ {0}
    BY <1>3, <1>5, RoundNumbers
  <2>3. search' \in [phase : Nat \ {0}, lo : Nat, hi : Nat, best : Nat \X Nat]
    BY <1>7, <2>2 DEF NoRound
  <2>4. search'.phase = latest[1] /\ search'.lo = 1 /\ search'.hi = latest[2] - 1 /\ search'.best = NoRound
    BY <1>7
  <2>5. <<search'.phase, search'.hi + 1>> = latest
    BY <2>2, <2>4
  <2>6. Bisecting(search)'
    BY <1>2, <1>5, <1>7, <2>2, <2>4, <2>5 DEF Bisecting, Settled, Rounds, UpdatedAt
  <2> QED BY <2>1, <2>3, <2>6 DEF PriceInv, SearchOK
<1> QED BY <1>1, <1>6, <1>7

-----------------------------------------------------------------------------
(* The invariant of price-at holds at first.                                *)
LEMMA PriceInitially == PriceInit => PriceInv
<1> SUFFICES ASSUME PriceInit PROVE PriceInv
  OBVIOUS
<1>1. PICK price \in Prices : feed = <<<<[answer |-> price, updatedAt |-> 0]>>>>
  BY DEF PriceInit
<1>2. [answer |-> price, updatedAt |-> 0] \in Round
  BY PriceAtAssumption DEF Round
<1>3. feed \in Seq(Phases) \ {<<>>} /\ Len(feed) = 1 /\ Len(feed[1]) = 1 /\ feed[1][1].updatedAt = 0
  BY <1>1, <1>2 DEF Phases
<1>4. Rounds = {<<1, 1>>} /\ UpdatedAt(<<1, 1>>) = 0
  BY <1>3, RoundNumbers DEF UpdatedAt
<1>5. FeedOK
  BY <1>3, <1>4 DEF PriceInit, FeedOK, Before
<1> QED BY <1>5 DEF PriceInit, PriceInv, AnsweredOK, SearchOK

(* One turn of the loop keeps the instant between lo - 1 and hi + 1.        *)
LEMMA Narrowing ==
    ASSUME PriceInv, GetRound
    PROVE  PriceInv'
<1> DEFINE mid == (search.lo + search.hi) \div 2
           good == UpdatedAt(<<search.phase, mid>>) <= At
<1>1. /\ search # NoSearch /\ search.lo <= search.hi
      /\ search' = Narrow(search, mid, good)
      /\ UNCHANGED <<seconds, feed, answered>>
  BY DEF GetRound
<1>2. search \in [phase : Nat \ {0}, lo : Nat, hi : Nat, best : Nat \X Nat] /\ Bisecting(search)
  BY <1>1 DEF PriceInv, SearchOK
<1>3. mid \in Nat \ {0} /\ search.lo <= mid /\ mid <= search.hi /\ search.phase \in Nat \ {0}
  BY <1>1, <1>2 DEF Bisecting
<1>4. FeedOK' /\ AnsweredOK'
  BY <1>1, SameFeed
<1>5. <<search.phase, mid>> \in Rounds /\ UpdatedAt(<<search.phase, mid>>) \in Nat
  <2>1. feed \in Seq(Phases)
    BY DEF PriceInv, FeedOK
  <2>2. <<search.phase, search.hi + 1>> \in Rounds /\ search.hi \in Nat
    BY <1>2 DEF Bisecting
  <2> HIDE DEF mid
  <2> QED BY <1>3, <2>1, <2>2, RoundNumbers
<1>8. Rounds' = Rounds /\ Settled' = Settled /\ \A r : UpdatedAt(r)' = UpdatedAt(r)
  BY <1>1, SameFeed
<1> HIDE DEF mid
<1>6. CASE good
  <2>1. search' = [search EXCEPT !.best = <<search.phase, mid>>, !.lo = mid + 1]
    BY <1>1, <1>6 DEF Narrow
  <2>2. /\ search'.phase = search.phase /\ search'.lo = mid + 1 /\ search'.hi = search.hi
        /\ search'.best = <<search.phase, mid>>
        /\ search' \in [phase : Nat \ {0}, lo : Nat, hi : Nat, best : Nat \X Nat]
    <3>1. <<search.phase, mid>> \in Nat \X Nat /\ mid + 1 \in Nat
      BY <1>3
    <3> HIDE DEF good
    <3> QED BY <2>1, <1>2, <3>1
  <2>3. Bisecting(search)'
    <3>1. <<search.phase, search'.lo - 1>> = <<search.phase, mid>> /\ search'.lo > 1
      BY <1>3, <2>2
    <3> QED BY <1>2, <1>3, <1>5, <1>6, <1>8, <2>2, <3>1 DEF Bisecting
  <2> QED BY <1>4, <2>2, <2>3 DEF PriceInv, SearchOK
<1>7. CASE ~good
  <2>1. search' = [search EXCEPT !.hi = mid - 1]
    BY <1>1, <1>7 DEF Narrow
  <2>2. /\ search'.phase = search.phase /\ search'.lo = search.lo /\ search'.hi = mid - 1
        /\ search'.best = search.best
        /\ search' \in [phase : Nat \ {0}, lo : Nat, hi : Nat, best : Nat \X Nat]
    BY <2>1, <1>2, <1>3
  <2>3. <<search'.phase, search'.hi + 1>> = <<search.phase, mid>>
    BY <2>2, <1>3
  <2>4. UpdatedAt(<<search.phase, mid>>) > At /\ At \in Nat
    BY <1>5, <1>7, PriceAtAssumption
  <2>5. Bisecting(search)'
    BY <1>2, <1>3, <1>5, <1>8, <2>2, <2>3, <2>4 DEF Bisecting
  <2> QED BY <1>4, <2>2, <2>5 DEF PriceInv, SearchOK
<1> QED BY <1>6, <1>7

(* At the end of the loop lo = hi + 1, so the best round is the one before  *)
(* the first that is after the instant.                                     *)
LEMMA Returning ==
    ASSUME PriceInv, Return
    PROVE  PriceInv'
<1> DEFINE s == search
<1>1. search # NoSearch /\ s.lo > s.hi /\ Answer(s.best) /\ UNCHANGED <<seconds, feed>>
  BY DEF Return
<1>2. s \in [phase : Nat \ {0}, lo : Nat, hi : Nat, best : Nat \X Nat] /\ Bisecting(s)
  BY <1>1 DEF PriceInv, SearchOK
<1>3. s.lo = s.hi + 1
  BY <1>1, <1>2 DEF Bisecting
<1>4. feed \in Seq(Phases) /\ At \in Nat
  BY PriceAtAssumption DEF PriceInv, FeedOK
<1>5. ASSUME s.lo # 1 PROVE IsDue(s.best)
  <2>1. s.best = <<s.phase, s.hi>> /\ s.hi \in Nat \ {0} /\ s.phase \in Nat \ {0}
    BY <1>2, <1>3, <1>5 DEF Bisecting
  <2>2. s.best \in Rounds /\ UpdatedAt(s.best) <= At
    BY <1>2, <1>3, <1>4, <1>5, <2>1, RoundNumbers DEF Bisecting
  <2>3. ASSUME NEW r \in Rounds, Before(s.best, r) PROVE UpdatedAt(r) > At
    <3>1. r = <<r[1], r[2]>> /\ r[1] \in Nat /\ r[2] \in Nat /\ UpdatedAt(r) \in Nat
      BY <1>4, RoundNumbers
    <3>2. r = <<s.phase, s.hi + 1>> \/ Before(<<s.phase, s.hi + 1>>, r)
      BY <2>1, <2>3, <3>1 DEF Before
    <3>3. /\ <<s.phase, s.hi + 1>> \in Rounds /\ UpdatedAt(<<s.phase, s.hi + 1>>) > At
          /\ UpdatedAt(<<s.phase, s.hi + 1>>) \in Nat
      BY <1>2, <1>4, RoundNumbers DEF Bisecting
    <3>4. UpdatedAt(r) >= UpdatedAt(<<s.phase, s.hi + 1>>)
      BY <3>1, <3>2, <3>3 DEF PriceInv, FeedOK
    <3> QED BY <1>4, <3>1, <3>3, <3>4
  <2> QED BY <2>2, <2>3 DEF IsDue
<1>6. s.best = NoRound \/ IsDue(s.best)
  BY <1>2, <1>5 DEF Bisecting
<1> QED BY <1>1, <1>2, <1>6, AnswersDue DEF Bisecting

(* And every step keeps it.                                                 *)
LEMMA PriceStepInv == PriceInv /\ [PriceStep]_priceVars => PriceInv'
<1> SUFFICES ASSUME PriceInv, [PriceStep]_priceVars PROVE PriceInv'
  OBVIOUS
<1>1. CASE SecondsPass
  <2>1. seconds' = seconds + 1 /\ UNCHANGED <<feed, search, answered>> /\ seconds \in Nat
    BY <1>1 DEF SecondsPass, PriceInv, FeedOK
  <2>2. FeedOK'
    BY <2>1, RoundNumbers DEF PriceInv, FeedOK, Rounds, UpdatedAt, Before
  <2>3. Rounds' = Rounds /\ \A r \in Rounds : RoundAt(r)' = RoundAt(r)
    BY <2>1 DEF Rounds, RoundAt
  <2> QED BY <2>1, <2>2, <2>3, DueStays DEF PriceInv
<1>2. ASSUME NEW price \in Prices, Publish(price) PROVE PriceInv'
  <2>1. UNCHANGED <<seconds, search, answered>> /\ seconds \in Nat /\ FeedOK /\ feed \in Seq(Phases)
    BY <1>2 DEF Publish, PriceInv, FeedOK
  <2>2. feed' \in Seq(Phases) \ {<<>>}
    BY <1>2, <2>1, Publishing
  <2>3. PICK new : /\ Rounds' = Rounds \cup {new}
                   /\ RoundAt(new)' = [answer |-> price, updatedAt |-> seconds]
                   /\ \A r \in Rounds : Before(r, new) /\ RoundAt(r)' = RoundAt(r)
    BY <1>2, <2>1, Publishing
  <2>4. UpdatedAt(new)' = seconds /\ \A r \in Rounds : UpdatedAt(r)' = UpdatedAt(r)
    BY <2>3 DEF UpdatedAt, RoundAt
  <2>5. <<1, 1>> \in Rounds
    <3>1. Len(feed) \in Nat \ {0} /\ feed[1] \in Phases
      BY <2>1, EmptySeq, ElementOfSeq DEF FeedOK
    <3>2. Len(feed[1]) \in Nat \ {0}
      BY <3>1, EmptySeq DEF Phases
    <3> QED BY <2>1, <3>1, <3>2, RoundNumbers
  <2>6. ASSUME NEW r \in Rounds', NEW s \in Rounds', Before(r, s)
        PROVE  UpdatedAt(r)' <= UpdatedAt(s)'
    <3>1. CASE r \in Rounds /\ s \in Rounds
      BY <2>1, <2>4, <2>6, <3>1 DEF FeedOK
    <3>2. CASE s = new
      BY <2>1, <2>3, <2>4, <2>6, <3>2 DEF FeedOK
    <3>3. CASE r = new /\ s \in Rounds
      <4>1. new \in Rounds' /\ s[1] \in Nat /\ s[2] \in Nat /\ new[1] \in Nat /\ new[2] \in Nat
        BY <2>1, <2>2, <2>3, <3>3, RoundNumbers, NextRoundNumbers
      <4> QED BY <2>3, <2>6, <3>3, <4>1 DEF Before
    <3> QED BY <2>3, <3>1, <3>2, <3>3
  <2>7. FeedOK'
    BY <2>1, <2>2, <2>3, <2>4, <2>5, <2>6 DEF FeedOK, Before
  <2> QED BY <2>1, <2>3, <2>4, <2>7, DueStays DEF PriceInv
<1>3. CASE ObservePrice
  BY <1>3, Observing
<1>4. CASE GetRound
  BY <1>4, Narrowing
<1>5. CASE Return
  BY <1>5, Returning
<1>6. CASE Abstain
  BY <1>6, SameFeed DEF Abstain, PriceInv, SearchOK
<1>7. CASE UNCHANGED priceVars
  <2>1. UNCHANGED <<seconds, feed, search, answered>>
    BY <1>7 DEF priceVars
  <2>2. FeedOK' /\ AnsweredOK' /\ Rounds' = Rounds /\ Settled' = Settled /\ \A r : UpdatedAt(r)' = UpdatedAt(r)
    BY <2>1, SameFeed
  <2> QED BY <2>1, <2>2 DEF PriceInv, SearchOK, Bisecting
<1> QED BY <1>1, <1>2, <1>3, <1>4, <1>5, <1>6, <1>7 DEF PriceStep

(* Whatever the feed did, and whenever and through whichever node it was    *)
(* read: an observation that answers does so with the last round of the     *)
(* instant.  The grace is what this needs: that no node is that far behind. *)
THEOREM AnswersAreDue == PriceSpec => []AnswersTheLastRound
<1>1. PriceInv => AnswersTheLastRound
  <2> SUFFICES ASSUME PriceInv, NEW a \in answered
               PROVE  LET due == Latest({r \in Rounds : UpdatedAt(r) <= At}) IN
                      /\ a.round = due /\ ~Stale(due)
                      /\ a.outcome = (feed[due[1]][due[2]].answer >= Threshold)
    BY DEF AnswersTheLastRound
  <2> DEFINE past == {r \in Rounds : UpdatedAt(r) <= At}
             x    == a.round
  <2>1. feed \in Seq(Phases) /\ IsDue(x) /\ ~Stale(x) /\ a.outcome = (RoundAt(x).answer >= Threshold)
        /\ At \in Nat
    BY PriceAtAssumption DEF PriceInv, FeedOK, AnsweredOK
  <2>2. x \in past /\ past \in SUBSET Rounds
    BY <2>1 DEF IsDue
  <2>3. ASSUME NEW s \in past PROVE s = x \/ Before(s, x)
    <3>1. /\ s = <<s[1], s[2]>> /\ s[1] \in Nat /\ s[2] \in Nat /\ UpdatedAt(s) \in Nat
          /\ x = <<x[1], x[2]>> /\ x[1] \in Nat /\ x[2] \in Nat
      BY <2>1, <2>2, RoundNumbers
    <3>2. ~Before(x, s)
      BY <2>1, <3>1 DEF IsDue
    <3> HIDE DEF x
    <3> QED BY <3>1, <3>2 DEF Before
  <2>4. Latest(past) = x
    <3> HIDE DEF past, x
    <3> QED BY <2>1, <2>2, <2>3, LatestIsUnique
  <2>5. Latest({r \in Rounds : UpdatedAt(r) <= At}) = a.round
    BY <2>4
  <2> QED BY <2>1, <2>5 DEF RoundAt
<1>2. PriceInv /\ [PriceStep]_priceVars => PriceInv'
  BY PriceStepInv
<1> QED BY PriceInitially, <1>1, <1>2, PTL DEF PriceSpec

-----------------------------------------------------------------------------
(* The lister.                                                              *)
(* Days: of the instant in day k at c past midnight, k and c are what the   *)
(* divisions give.                                                          *)
LEMMA DayOf ==
    ASSUME NEW k \in Nat, NEW d \in Nat \ {0}, NEW c \in Nat, c < d
    PROVE  (k * d + c) \div d = k /\ (k * d + c) % d = c
<1> DEFINE t == k * d + c
           q == t \div d
           r == t % d
           kd == k * d
           qd == q * d
<1>1. kd \in Nat /\ t \in Nat /\ t = kd + c
  OBVIOUS
<1>2. q \in Nat /\ r \in Nat /\ r < d /\ t = qd + r /\ qd \in Nat
  <2> HIDE DEF t
  <2> QED BY <1>1
<1>3. ~(q < k)
  <2> SUFFICES ASSUME q < k PROVE FALSE
    OBVIOUS
  <2>1. q + 1 <= k /\ q + 1 \in Nat
    BY <1>2
  <2> HIDE DEF q, kd, qd, t, r
  <2>2. (q + 1) * d <= k * d
    BY <1>2, <2>1, TimesNat
  <2>3. (q + 1) * d = qd + d
    BY <1>2 DEF qd
  <2> QED BY <1>1, <1>2, <2>2, <2>3 DEF kd
<1>4. ~(k < q)
  <2> SUFFICES ASSUME k < q PROVE FALSE
    OBVIOUS
  <2>1. k + 1 <= q /\ k + 1 \in Nat
    BY <1>2
  <2> HIDE DEF q, kd, qd, t, r
  <2>2. (k + 1) * d <= q * d
    BY <1>2, <2>1, TimesNat
  <2>3. (k + 1) * d = kd + d
    BY <1>1 DEF kd
  <2> QED BY <1>1, <1>2, <2>2, <2>3 DEF qd
<1>5. q = k
  <2> HIDE DEF q, qd, kd, t, r
  <2> QED BY <1>2, <1>3, <1>4
<1>6. qd = kd
  BY <1>5
<1>7. r = c
  <2> HIDE DEF q, qd, kd, t, r
  <2> QED BY <1>1, <1>2, <1>6
<1> QED BY <1>5, <1>7

(* A close far enough ahead comes within five days, also over a weekend.    *)
Closes(t0, f) == {t \in t0..(t0 + 5 * DayLength) :
                      /\ t % DayLength = CloseTime
                      /\ t >= t0 + MinLead
                      /\ f \in WeekdaysOnly => Weekday(t) \notin {0, 6}}

(* The second to fourth closes from now lie ahead far enough, a day apart.  *)
LEMMA CloseInDay ==
    ASSUME NEW t0 \in Nat, NEW k \in Nat, k \in {2, 3, 4}
    PROVE  LET t == (t0 \div DayLength + k) * DayLength + CloseTime IN
           /\ t \in t0..(t0 + 5 * DayLength) /\ t >= t0 + MinLead
           /\ t % DayLength = CloseTime
           /\ Weekday(t) = (t0 \div DayLength + k + FirstDay) % 7
<1> DEFINE d == DayLength
           q == t0 \div d
           t == (q + k) * d + CloseTime
           qd == q * d
<1>1. d \in Nat \ {0} /\ CloseTime \in Nat /\ CloseTime < d /\ MinLead \in Nat /\ MinLead <= d
  BY ListerAssumption
<1> HIDE DEF d
<1>2. q \in Nat /\ qd \in Nat /\ qd <= t0 /\ t0 < qd + d
  BY <1>1
<1> HIDE DEF q
<1>3. q + k \in Nat /\ t = qd + k * d + CloseTime
  BY <1>1, <1>2
<1>4. t % d = CloseTime /\ t \div d = q + k
  BY <1>1, <1>3, DayOf
<1> HIDE DEF t, qd
<1>5. t \in Nat /\ t >= qd + 2 * d + CloseTime /\ t <= qd + 4 * d + CloseTime
  <2>1. CASE k = 2
    BY <1>1, <1>2, <1>3, <2>1
  <2>2. CASE k = 3
    BY <1>1, <1>2, <1>3, <2>2
  <2>3. CASE k = 4
    BY <1>1, <1>2, <1>3, <2>3
  <2> QED BY <2>1, <2>2, <2>3
<1>6. t \in t0..(t0 + 5 * d) /\ t >= t0 + MinLead
  BY <1>1, <1>2, <1>5
<1>7. Weekday(t) = (q + k + FirstDay) % 7
  BY <1>4 DEF Weekday, d
<1> QED BY <1>4, <1>6, <1>7 DEF t, q, d

(* So there is a close on which the feed trades: no weekend has three days. *)
LEMMA SomeClose ==
    ASSUME NEW t0 \in Nat, NEW f
    PROVE  Closes(t0, f) # {}
<1> DEFINE q == t0 \div DayLength
           T(k) == (q + k) * DayLength + CloseTime
<1>1. q \in Nat /\ FirstDay \in Nat
  BY ListerAssumption
<1>2. ASSUME NEW k \in {2, 3, 4}
      PROVE  /\ T(k) \in t0..(t0 + 5 * DayLength) /\ T(k) >= t0 + MinLead
             /\ T(k) % DayLength = CloseTime
             /\ Weekday(T(k)) = (q + k + FirstDay) % 7
  <2>1. k \in Nat /\ k \in {2, 3, 4}
    OBVIOUS
  <2> QED BY <2>1, CloseInDay
<1> HIDE DEF T
<1>3. \E k \in {2, 3, 4} : (q + k + FirstDay) % 7 \notin {0, 6}
  <2> DEFINE m == q + FirstDay
  <2>1. m \in Nat /\ q + 2 + FirstDay = m + 2 /\ q + 3 + FirstDay = m + 3 /\ q + 4 + FirstDay = m + 4
    BY <1>1
  <2> HIDE DEF m, q
  <2>2. (m + 2) % 7 \notin {0, 6} \/ (m + 3) % 7 \notin {0, 6} \/ (m + 4) % 7 \notin {0, 6}
    BY <2>1
  <2> QED BY <2>1, <2>2
<1>4. PICK k \in {2, 3, 4} : Weekday(T(k)) \notin {0, 6}
  BY <1>2, <1>3
<1>5. T(k) \in Closes(t0, f)
  BY <1>2, <1>4 DEF Closes
<1> QED BY <1>5

(* nextClose gives a time, at least MinLead ahead.                          *)
LEMMA CloseIs ==
    ASSUME NEW t0 \in Nat, NEW f
    PROVE  NextClose(t0, f) \in Nat /\ NextClose(t0, f) >= t0 + MinLead
<1> DEFINE S == Closes(t0, f)
<1>1. S # {} /\ S \in SUBSET Nat /\ \A t \in S : t >= t0 + MinLead
  <2>1. S # {}
    BY SomeClose
  <2>2. \A t \in S : t \in Nat /\ t >= t0 + MinLead
    <3>1. \A t \in S : t \in t0..(t0 + 5 * DayLength) /\ t >= t0 + MinLead
      BY DEF Closes
    <3>2. DayLength \in Nat
      BY ListerAssumption
    <3> HIDE DEF S
    <3> QED BY <3>1, <3>2
  <2> HIDE DEF S
  <2> QED BY <2>1, <2>2
<1>2. NextClose(t0, f) = Min(S)
  BY DEF NextClose, Closes
<1> HIDE DEF S
<1>3. PICK m \in S : \A n \in S : m <= n
  BY <1>1, SmallestNumber
<1>4. Min(S) \in S
  BY <1>3 DEF Min
<1> QED BY <1>1, <1>2, <1>4

(* A finite set of numbers, if not empty, has a largest.                    *)
LEMMA LargestOf ==
    ASSUME NEW S, IsFiniteSet(S), S # {}, S \in SUBSET Nat
    PROVE  Max(S) \in S /\ \A x \in S : x <= Max(S)
<1> DEFINE Top(m, s) == m \in s /\ \A x \in s : x <= m
           C == {s \in SUBSET S : s # {} /\ ~\E m : Top(m, s)}
<1>1. C = {}
  <2> SUFFICES ASSUME C # {} PROVE FALSE
    OBVIOUS
  <2>1. \A s \in C : IsFiniteSet(s)
    BY FS_Subset
  <2>2. PICK s \in C : \A u \in C : Cardinality(s) <= Cardinality(u)
    <3> HIDE DEF C
    <3> QED BY <2>1, SmallestSet
  <2>3. s # {} /\ s \in SUBSET Nat /\ IsFiniteSet(s) /\ s \in SUBSET S /\ ~\E m : Top(m, s)
    BY <2>1, <2>2
  <2>4. PICK x : x \in s
    BY <2>3
  <2>5. CASE s \ {x} = {}
    <3>1. \A y \in s : y = x
      BY <2>5
    <3>2. Top(x, s)
      BY <2>3, <2>4, <3>1
    <3> QED BY <2>3, <3>2
  <2>6. CASE s \ {x} # {}
    <3>1. Cardinality(s \ {x}) < Cardinality(s) /\ IsFiniteSet(s \ {x})
      BY <2>3, <2>4, OneLess
    <3>2. s \ {x} \notin C
      <4>1. Cardinality(s \ {x}) \in Nat /\ Cardinality(s) \in Nat
        BY <2>3, <3>1, FS_CardinalityType
      <4> HIDE DEF C
      <4> QED BY <2>2, <3>1, <4>1
    <3>3. PICK m : Top(m, s \ {x})
      BY <2>3, <2>6, <3>2
    <3>4. m \in Nat /\ x \in Nat /\ m \in s
      BY <2>3, <2>4, <3>3
    <3>5. CASE m <= x
      <4>1. Top(x, s)
        BY <2>3, <2>4, <3>3, <3>4, <3>5
      <4> QED BY <2>3, <4>1
    <3>6. CASE x <= m
      <4>1. Top(m, s)
        BY <2>3, <2>4, <3>3, <3>4, <3>6
      <4> QED BY <2>3, <4>1
    <3> QED BY <3>4, <3>5, <3>6
  <2> QED BY <2>5, <2>6
<1>2. PICK m : Top(m, S)
  BY <1>1
<1>3. \E x \in S : \A y \in S : x >= y
  BY <1>2
<1>4. Max(S) \in S /\ \A y \in S : Max(S) >= y
  BY <1>3 DEF Max
<1> QED BY <1>4

(* What the lister knows, remembers and has under way keeps its type.       *)
Listing == [feed : FeedSet, at : Nat, mine : BOOLEAN]
PassRecord == [due : SUBSET FeedSet, now : Nat, events : BOOLEAN, done : Nat]

ListerTyped ==
    /\ time \in Nat /\ faults \in Nat /\ blind \in BOOLEAN
    /\ listings \in Seq(Listing)
    /\ latestAt \in [FeedSet -> Nat]
    /\ scanned \in 0..Len(listings)
    /\ pass = NoPass \/ pass \in PassRecord
    /\ unanswered \subseteq Listing

(* Unless something was hidden from the node: it knows of the markets it    *)
(* has seen, and what is due in a pass still has none of its own ahead.     *)
Known == \A i \in 1..scanned : listings[i].at <= latestAt[listings[i].feed]

StillDue ==
    \A f \in pass.due :
        /\ latestAt[f] <= pass.now + DueLead
        /\ \A i \in DOMAIN listings :
              listings[i].mine /\ listings[i].feed = f => listings[i].at <= pass.now + DueLead

ListerInv ==
    /\ ListerTyped
    /\ unanswered # {} => blind
    /\ ~blind => Known /\ StillDue
    /\ NotListedTwice

(* The feed a pass lists next is one that is due.                           *)
LEMMA FirstDue ==
    ASSUME NEW due \in SUBSET FeedSet, due # {}
    PROVE  First(due) \in due
<1> DEFINE S == {i \in DOMAIN Feeds : Feeds[i] \in due}
<1>1. Feeds \in Seq(FeedSet)
  BY ListerAssumption DEF FeedSet
<1>2. S \in SUBSET Nat
  BY <1>1
<1>3. S # {}
  BY DEF FeedSet, Range
<1> HIDE DEF S
<1>4. PICK m \in S : \A n \in S : m <= n
  BY <1>2, <1>3, SmallestNumber
<1>5. Min(S) \in S
  BY <1>4 DEF Min
<1> QED BY <1>5 DEF S, First

(* A pass goes on with fewer feeds, or ends.                                *)
LEMMA NextOfPass ==
    ASSUME NEW p \in PassRecord, p.due # {}
    PROVE  /\ Skip(p) \in PassRecord /\ Skip(p).now = p.now
           /\ Skip(p).due = p.due \ {First(p.due)}
           /\ After(Skip(p)) = NoPass \/ After(Skip(p)) = Skip(p)
BY DEF Skip, After, PassRecord

(* What a pass lists closes after everything that it took for due.          *)
LEMMA TargetIs ==
    ASSUME ListerTyped, pass.due # {}
    PROVE  /\ pass \in PassRecord /\ First(pass.due) \in pass.due /\ First(pass.due) \in FeedSet
           /\ Target \in Nat /\ Target > pass.now + DueLead /\ pass.now \in Nat
<1>1. pass \in PassRecord
  BY DEF ListerTyped, NoPass
<1>2. pass.due \in SUBSET FeedSet /\ pass.now \in Nat
  BY <1>1 DEF PassRecord
<1>3. First(pass.due) \in pass.due
  BY <1>2, FirstDue
<1>4. Target \in Nat /\ Target >= pass.now + MinLead
  BY <1>2, CloseIs DEF Target
<1>5. MinLead \in Nat /\ DueLead \in Nat /\ DueLead < MinLead
  BY ListerAssumption
<1> QED BY <1>1, <1>2, <1>3, <1>4, <1>5

(* One more listing, of one kind or the other.                              *)
LEMMA OneMore ==
    ASSUME ListerTyped, NEW call \in Listing, listings' = Append(listings, call)
    PROVE  /\ listings' \in Seq(Listing)
           /\ Len(listings') = Len(listings) + 1 /\ Len(listings) \in Nat
           /\ DOMAIN listings = 1..Len(listings)
           /\ DOMAIN listings' = 1..(Len(listings) + 1)
           /\ \A i \in DOMAIN listings : listings'[i] = listings[i]
           /\ listings'[Len(listings) + 1] = call
BY DEF ListerTyped

(* A scan keeps of each feed the latest of what is known and what it read.  *)
LEMMA ScannedIs ==
    ASSUME ListerTyped, NEW ids \in SUBSET DOMAIN listings, NEW f \in FeedSet
    PROVE  /\ Scanned(ids)[f] \in Nat
           /\ latestAt[f] <= Scanned(ids)[f]
           /\ \A i \in ids : listings[i].feed = f => listings[i].at <= Scanned(ids)[f]
<1> DEFINE js == {j \in ids : listings[j].feed = f}
           read == {listings[i].at : i \in js}
           S == {latestAt[f]} \cup read
<1>1. /\ \A i \in DOMAIN listings : listings[i].at \in Nat
      /\ latestAt[f] \in Nat /\ DOMAIN listings = 1..Len(listings) /\ Len(listings) \in Nat
  <2>1. \A i \in DOMAIN listings : listings[i] \in Listing
    BY DEF ListerTyped
  <2> QED BY <2>1 DEF ListerTyped, Listing
<1>2. IsFiniteSet(js)
  <2>1. IsFiniteSet(1..Len(listings)) /\ js \subseteq 1..Len(listings)
    BY <1>1, FS_Interval
  <2> HIDE DEF js
  <2> QED BY <2>1, FS_Subset
<1>3. IsFiniteSet(read)
  <2> DEFINE g == [i \in js |-> listings[i].at]
  <2> HIDE DEF js
  <2>1. g \in Surjection(js, read)
    BY DEF Surjection
  <2> HIDE DEF g, read
  <2> QED BY <1>2, <2>1, FS_Surjection
<1>4. IsFiniteSet(S)
  <2> HIDE DEF read
  <2>1. IsFiniteSet(read \cup {latestAt[f]})
    BY <1>3, FS_AddElement
  <2> QED BY <2>1
<1>5. S # {} /\ S \in SUBSET Nat
  BY <1>1
<1>6. Scanned(ids)[f] = Max(S)
  BY DEF Scanned
<1>7. latestAt[f] \in S /\ \A i \in ids : listings[i].feed = f => listings[i].at \in S
  OBVIOUS
<1> HIDE DEF S
<1>8. Max(S) \in S /\ \A x \in S : x <= Max(S)
  BY <1>4, <1>5, LargestOf
<1> QED BY <1>5, <1>6, <1>7, <1>8

(* Every step keeps the types.                                              *)
LEMMA ListerTypedStep ==
    ASSUME ListerTyped, [ListerStep]_listerVars
    PROVE  ListerTyped'
<1> USE DEF ListerTyped
<1>1. CASE UNCHANGED listerVars \/ TimePasses
  BY <1>1 DEF listerVars, TimePasses
<1>2. CASE UserCreates
  <2>1. PICK f \in FeedSet : listings' = Append(listings, [feed |-> f, at |-> NextClose(time, f), mine |-> FALSE])
    BY <1>2 DEF UserCreates
  <2>2. [feed |-> f, at |-> NextClose(time, f), mine |-> FALSE] \in Listing
    BY CloseIs DEF Listing
  <2>3. listings' \in Seq(Listing) /\ Len(listings') = Len(listings) + 1 /\ Len(listings) \in Nat
    BY <2>1, <2>2, OneMore
  <2> QED BY <1>2, <2>3 DEF UserCreates
<1>3. ASSUME NEW call \in unanswered, MinedLate(call) PROVE ListerTyped'
  <2>1. listings' = Append(listings, call) /\ call \in Listing
    BY <1>3 DEF MinedLate
  <2>2. listings' \in Seq(Listing) /\ Len(listings') = Len(listings) + 1 /\ Len(listings) \in Nat
    BY <2>1, OneMore
  <2> QED BY <1>3, <2>2 DEF MinedLate
<1>4. CASE StartPass
  <2>1. PICK hidden \in SUBSET ((scanned + 1)..Len(listings)) :
           LET latest == Scanned(((scanned + 1)..Len(listings)) \ hidden) IN
           /\ faults' = IF hidden = {} THEN faults ELSE faults + 1
           /\ blind' = (blind \/ hidden # {})
           /\ latestAt' = latest
           /\ pass' = [due |-> {f \in FeedSet : Due(f, latest)},
                       now |-> time, events |-> FALSE, done |-> 0]
    BY <1>4 DEF StartPass
  <2>2. latestAt' \in [FeedSet -> Nat]
    <3> DEFINE ids == ((scanned + 1)..Len(listings)) \ hidden
    <3>1. ASSUME NEW f \in FeedSet PROVE Scanned(ids)[f] \in Nat
      BY ScannedIs
    <3>2. Scanned(ids) = [f \in FeedSet |-> Scanned(ids)[f]]
      BY DEF Scanned
    <3> HIDE DEF ids
    <3>3. Scanned(ids) \in [FeedSet -> Nat]
      BY <3>1, <3>2
    <3> QED BY <2>1, <3>3 DEF ids
  <2>3. pass' \in PassRecord
    BY <2>1 DEF PassRecord
  <2>4. scanned' \in 0..Len(listings') /\ UNCHANGED <<time, listings, unanswered>>
    BY <1>4 DEF StartPass
  <2>5. faults' \in Nat /\ blind' \in BOOLEAN
    BY <2>1
  <2> QED BY <2>2, <2>3, <2>4, <2>5
<1>5. CASE CreateEvents
  <2>1. pass' \in PassRecord
    BY <1>5, TargetIs DEF CreateEvents, PassRecord
  <2> QED BY <1>5, <2>1 DEF CreateEvents
<1>6. CASE CreateMarket
  <2>1. /\ pass \in PassRecord /\ pass.due # {} /\ First(pass.due) \in FeedSet /\ Target \in Nat
    BY <1>6, TargetIs DEF CreateMarket
  <2>2. [feed |-> First(pass.due), at |-> Target, mine |-> TRUE] \in Listing
    BY <2>1 DEF Listing
  <2>3. listings' \in Seq(Listing) /\ Len(listings') = Len(listings) + 1 /\ Len(listings) \in Nat
    BY <1>6, <2>2, OneMore DEF CreateMarket
  <2>4. latestAt' \in [FeedSet -> Nat]
    BY <1>6, <2>1 DEF CreateMarket
  <2>5. pass' = NoPass \/ pass' \in PassRecord
    <3> DEFINE p == [pass EXCEPT !.done = @ + 1]
    <3>1. p \in PassRecord /\ p.due # {}
      BY <2>1 DEF PassRecord
    <3>2. pass' = After(Skip(p))
      BY <1>6 DEF CreateMarket
    <3> HIDE DEF p
    <3> QED BY <3>1, <3>2, NextOfPass
  <2> QED BY <1>6, <2>3, <2>4, <2>5 DEF CreateMarket
<1>7. ASSUME GiveUp \/ LoseReceipt PROVE ListerTyped'
  <2>1. pass.due # {} /\ pass' = After(Skip(pass)) /\ UNCHANGED <<time, listings, latestAt, scanned>>
    BY <1>7 DEF GiveUp, LoseReceipt
  <2>2. pass \in PassRecord /\ First(pass.due) \in FeedSet /\ Target \in Nat
    BY <2>1, TargetIs
  <2>3. pass' = NoPass \/ pass' \in PassRecord
    BY <2>1, <2>2, NextOfPass
  <2>4. CASE GiveUp
    BY <2>1, <2>3, <2>4 DEF GiveUp
  <2>5. CASE LoseReceipt
    <3>1. [feed |-> First(pass.due), at |-> Target, mine |-> TRUE] \in Listing
      BY <2>2 DEF Listing
    <3>2. unanswered' \subseteq Listing /\ faults' = faults + 1 /\ blind' = TRUE
      BY <2>5, <3>1 DEF LoseReceipt
    <3> QED BY <2>1, <2>3, <3>2
  <2> QED BY <1>7, <2>4, <2>5
<1>8. CASE EndPass
  BY <1>8 DEF EndPass
<1>9. CASE Restart
  <2>1. Nowhere \in [FeedSet -> Nat] /\ 0 \in 0..Len(listings)
    BY DEF Nowhere
  <2> QED BY <1>9, <2>1 DEF Restart
<1> QED BY <1>1, <1>2, <1>3, <1>4, <1>5, <1>6, <1>7, <1>8, <1>9 DEF ListerStep

(* The invariant of the lister holds at first.                              *)
LEMMA ListerInvInit == ListerInit => ListerInv
<1>1. SUFFICES ASSUME ListerInit PROVE ListerInv
  OBVIOUS
<1>2. ListerTyped
  <2>1. listings \in Seq(Listing) /\ scanned \in 0..Len(listings)
    <3>1. listings = <<>> /\ scanned = 0
      BY <1>1 DEF ListerInit
    <3>2. <<>> \in Seq(Listing) /\ Len(<<>>) = 0
      OBVIOUS
    <3> QED BY <3>1, <3>2
  <2>2. latestAt \in [FeedSet -> Nat]
    BY <1>1 DEF ListerInit, Nowhere
  <2>3. time \in Nat /\ faults \in Nat /\ blind \in BOOLEAN /\ pass = NoPass /\ unanswered \subseteq Listing
    BY <1>1 DEF ListerInit
  <2> QED BY <2>1, <2>2, <2>3 DEF ListerTyped
<1>3. listings = <<>> /\ DOMAIN listings = {} /\ pass.due = {} /\ scanned = 0 /\ unanswered = {}
  BY <1>1 DEF ListerInit, NoPass
<1>4. Known /\ StillDue /\ NotListedTwice
  BY <1>3 DEF Known, StillDue, NotListedTwice
<1> QED BY <1>2, <1>3, <1>4 DEF ListerInv

(* A listing that repeats none of the node's own adds no pair.              *)
LEMMA NoNewPair ==
    ASSUME ListerTyped, NotListedTwice, NEW call \in Listing, listings' = Append(listings, call),
           blind' = blind,
           blind \/ \A i \in DOMAIN listings :
                       ~(listings[i].feed = call.feed /\ listings[i].at = call.at /\ listings[i].mine /\ call.mine)
    PROVE  NotListedTwice'
<1> DEFINE n == Len(listings)
<1>1. /\ n \in Nat /\ DOMAIN listings = 1..n /\ DOMAIN listings' = 1..(n + 1)
      /\ \A i \in DOMAIN listings : listings'[i] = listings[i]
      /\ listings'[n + 1] = call
  BY OneMore
<1> HIDE DEF n
<1>2. SUFFICES ASSUME NEW i \in DOMAIN listings', NEW j \in DOMAIN listings', i < j,
                      listings'[i].feed = listings'[j].feed, listings'[i].at = listings'[j].at,
                      listings'[i].mine, listings'[j].mine
               PROVE  blind
  BY DEF NotListedTwice
<1>3. i \in DOMAIN listings /\ (j \in DOMAIN listings \/ j = n + 1)
  BY <1>1, <1>2
<1>4. CASE j \in DOMAIN listings
  BY <1>1, <1>2, <1>3, <1>4 DEF NotListedTwice
<1>5. CASE j = n + 1
  BY <1>1, <1>2, <1>3, <1>5
<1> QED BY <1>3, <1>4, <1>5

(* What is still due stays due to a pass of fewer feeds.                    *)
LEMMA FewerDue ==
    ASSUME ListerTyped, StillDue, pass'.due \subseteq pass.due, pass'.due # {} => pass'.now = pass.now,
           UNCHANGED <<listings, latestAt>>
    PROVE  StillDue'
BY DEF StillDue

(* And every step keeps it.                                                 *)
LEMMA ListerInvStep ==
    ASSUME ListerInv, [ListerStep]_listerVars
    PROVE  ListerInv'
<1>1. ListerTyped /\ ListerTyped' /\ (unanswered # {} => blind) /\ (~blind => Known /\ StillDue) /\ NotListedTwice
  BY ListerTypedStep DEF ListerInv
<1>2. CASE UNCHANGED listerVars
  BY <1>1, <1>2 DEF listerVars, ListerInv, Known, StillDue, NotListedTwice
<1>3. CASE TimePasses
  BY <1>1, <1>3 DEF TimePasses, ListerInv, Known, StillDue, NotListedTwice
<1>4. CASE UserCreates
  <2>1. PICK f \in FeedSet : listings' = Append(listings, [feed |-> f, at |-> NextClose(time, f), mine |-> FALSE])
    BY <1>4 DEF UserCreates
  <2> DEFINE call == [feed |-> f, at |-> NextClose(time, f), mine |-> FALSE]
  <2>2. call \in Listing /\ ~call.mine
    BY <1>1, CloseIs DEF Listing, ListerTyped
  <2>3. UNCHANGED <<latestAt, scanned, pass, unanswered, blind>>
    BY <1>4 DEF UserCreates
  <2> HIDE DEF call
  <2>4. listings' = Append(listings, call)
    BY <2>1 DEF call
  <2>5. NotListedTwice'
    BY <1>1, <2>2, <2>3, <2>4, NoNewPair
  <2>6. ASSUME ~blind PROVE Known' /\ StillDue'
    <3>1. /\ Len(listings) \in Nat /\ DOMAIN listings = 1..Len(listings)
          /\ DOMAIN listings' = 1..(Len(listings) + 1)
          /\ \A i \in DOMAIN listings : listings'[i] = listings[i]
          /\ listings'[Len(listings) + 1] = call
      BY <1>1, <2>2, <2>4, OneMore
    <3>2. \A i \in 1..scanned : i \in DOMAIN listings
      BY <1>1, <3>1 DEF ListerTyped
    <3>3. Known'
      BY <1>1, <2>3, <2>6, <3>1, <3>2 DEF Known
    <3>4. StillDue'
      <4>1. SUFFICES ASSUME NEW g \in pass.due, NEW i \in DOMAIN listings', listings'[i].mine, listings'[i].feed = g
                     PROVE  listings'[i].at <= pass.now + DueLead
        BY <1>1, <2>3, <2>6 DEF StillDue
      <4>2. i \in DOMAIN listings
        BY <2>2, <3>1, <4>1
      <4> QED BY <1>1, <2>6, <3>1, <4>1, <4>2 DEF StillDue
    <3> QED BY <3>3, <3>4
  <2> QED BY <1>1, <2>3, <2>5, <2>6 DEF ListerInv
<1>5. ASSUME NEW call \in unanswered, MinedLate(call) PROVE ListerInv'
  <2>1. listings' = Append(listings, call) /\ call \in Listing /\ blind' = blind /\ blind /\ unanswered' \subseteq unanswered
    BY <1>1, <1>5 DEF MinedLate, ListerTyped
  <2>2. NotListedTwice'
    BY <1>1, <2>1, NoNewPair
  <2> QED BY <1>1, <2>1, <2>2 DEF ListerInv
<1>6. CASE StartPass
  <2>1. PICK hidden \in SUBSET ((scanned + 1)..Len(listings)) :
           LET latest == Scanned(((scanned + 1)..Len(listings)) \ hidden) IN
           /\ blind' = (blind \/ hidden # {})
           /\ latestAt' = latest
           /\ pass' = [due |-> {f \in FeedSet : Due(f, latest)},
                       now |-> time, events |-> FALSE, done |-> 0]
    BY <1>6 DEF StartPass
  <2>2. scanned' = Len(listings) /\ UNCHANGED <<time, listings, unanswered>>
    BY <1>6 DEF StartPass
  <2>3. ASSUME ~blind' PROVE Known' /\ StillDue'
    <3> DEFINE new == (scanned + 1)..Len(listings)
    <3>1. ~blind /\ hidden = {} /\ new \ hidden = new
      BY <2>1, <2>3
    <3>2. latestAt' = Scanned(new)
      BY <2>1, <3>1
    <3>3. DOMAIN listings = 1..Len(listings) /\ Len(listings) \in Nat /\ scanned \in 0..Len(listings)
          /\ \A i \in DOMAIN listings : listings[i] \in Listing
      BY <1>1 DEF ListerTyped
    <3>4. new \in SUBSET DOMAIN listings /\ \A i \in DOMAIN listings : i \in 1..scanned \/ i \in new
      BY <3>3
    <3> HIDE DEF new
    <3>5. ASSUME NEW i \in DOMAIN listings PROVE listings[i].at <= latestAt'[listings[i].feed]
      <4>1. listings[i].feed \in FeedSet /\ listings[i].at \in Nat
        BY <3>3, <3>5 DEF Listing
      <4> DEFINE f == listings[i].feed
      <4>2. /\ latestAt'[f] \in Nat /\ latestAt[f] <= latestAt'[f] /\ latestAt[f] \in Nat
            /\ \A j \in new : listings[j].feed = f => listings[j].at <= latestAt'[f]
        BY <1>1, <3>2, <3>4, <4>1, ScannedIs DEF ListerTyped
      <4>3. CASE i \in new
        BY <4>2, <4>3
      <4>4. CASE i \in 1..scanned
        <5>1. listings[i].at <= latestAt[f]
          BY <1>1, <3>1, <4>4 DEF Known
        <5> HIDE DEF f
        <5>2. listings[i].at <= latestAt'[f]
          BY <4>1, <4>2, <5>1
        <5> QED BY <5>2 DEF f
      <4> QED BY <3>4, <4>3, <4>4
    <3>6. Known'
      BY <2>2, <3>3, <3>5 DEF Known
    <3>7. ASSUME NEW f \in pass'.due
          PROVE  f \in FeedSet /\ latestAt'[f] <= time + DueLead
      BY <2>1, <3>7 DEF Due
    <3>8. pass'.now = time
      BY <2>1
    <3>9. StillDue'
      <4>1. SUFFICES ASSUME NEW f \in pass'.due, NEW i \in DOMAIN listings, listings[i].feed = f
                     PROVE  listings[i].at <= time + DueLead
        BY <2>2, <3>7, <3>8 DEF StillDue
      <4>2. listings[i].at <= latestAt'[f] /\ latestAt'[f] <= time + DueLead
        BY <3>5, <3>7, <4>1
      <4>3. listings[i].at \in Nat /\ latestAt'[f] \in Nat /\ time \in Nat /\ DueLead \in Nat
        BY <1>1, <3>3, <3>7, ListerAssumption DEF ListerTyped, Listing
      <4> QED BY <4>2, <4>3
    <3> QED BY <3>6, <3>9
  <2>4. NotListedTwice'
    BY <1>1, <2>1, <2>2 DEF NotListedTwice
  <2>5. unanswered' # {} => blind'
    BY <1>1, <2>1, <2>2
  <2> QED BY <1>1, <2>3, <2>4, <2>5 DEF ListerInv
<1>7. CASE CreateEvents
  <2>1. pass \in PassRecord
    BY <1>1, <1>7, TargetIs DEF CreateEvents
  <2>2. pass'.due = pass.due /\ pass'.now = pass.now
    BY <1>7, <2>1 DEF CreateEvents, PassRecord
  <2>3. UNCHANGED <<listings, latestAt, scanned, unanswered, blind>>
    BY <1>7 DEF CreateEvents
  <2>4. StillDue => StillDue'
    BY <1>1, <2>2, <2>3, FewerDue
  <2> QED BY <1>1, <2>3, <2>4 DEF ListerInv, Known, NotListedTwice
<1>8. CASE CreateMarket
  <2> DEFINE p == [pass EXCEPT !.done = @ + 1]
             f == First(pass.due)
             call == [feed |-> f, at |-> Target, mine |-> TRUE]
  <2>1. /\ pass \in PassRecord /\ pass.due # {} /\ f \in pass.due /\ f \in FeedSet
        /\ Target \in Nat /\ Target > pass.now + DueLead /\ pass.now \in Nat
    BY <1>1, <1>8, TargetIs DEF CreateMarket
  <2>2. p \in PassRecord /\ p.due = pass.due /\ p.now = pass.now
    BY <2>1 DEF PassRecord
  <2>3. pass' = After(Skip(p)) /\ UNCHANGED <<time, scanned, unanswered, blind>>
        /\ listings' = Append(listings, call) /\ latestAt' = [latestAt EXCEPT ![f] = Target]
    BY <1>8 DEF CreateMarket
  <2>4. pass'.due \subseteq pass.due \ {f} /\ (pass'.due # {} => pass'.now = pass.now)
    <3> HIDE DEF p
    <3>1. /\ Skip(p).now = p.now /\ Skip(p).due = p.due \ {First(p.due)}
          /\ After(Skip(p)) = NoPass \/ After(Skip(p)) = Skip(p)
      BY <2>1, <2>2, NextOfPass
    <3> QED BY <2>2, <2>3, <3>1 DEF NoPass
  <2>5. call \in Listing /\ call.feed = f /\ call.at = Target
    BY <2>1 DEF Listing
  <2>6. DueLead \in Nat
    BY ListerAssumption
  <2> HIDE DEF p, call, f
  <2>7. ASSUME ~blind, NEW i \in DOMAIN listings, listings[i].mine, listings[i].feed = f
        PROVE  listings[i].at \in Nat /\ listings[i].at <= pass.now + DueLead /\ listings[i].at # Target
    <3>1. listings[i].at <= pass.now + DueLead
      BY <1>1, <2>1, <2>7 DEF StillDue
    <3>2. listings[i] \in Listing
      BY <1>1, <2>7 DEF ListerTyped
    <3>3. listings[i].at \in Nat
      BY <3>2 DEF Listing
    <3> QED BY <2>1, <2>6, <3>1, <3>3
  <2>8. NotListedTwice'
    BY <1>1, <2>3, <2>5, <2>7, NoNewPair
  <2>9. /\ Len(listings) \in Nat /\ DOMAIN listings = 1..Len(listings)
        /\ DOMAIN listings' = 1..(Len(listings) + 1)
        /\ \A i \in DOMAIN listings : listings'[i] = listings[i]
        /\ listings'[Len(listings) + 1] = call
    BY <1>1, <2>3, <2>5, OneMore
  <2>10. ASSUME ~blind PROVE Known'
    <3>1. SUFFICES ASSUME NEW i \in 1..scanned PROVE listings[i].at <= latestAt'[listings[i].feed]
      <4>1. \A i \in 1..scanned : i \in DOMAIN listings
        BY <1>1, <2>9 DEF ListerTyped
      <4> QED BY <2>3, <2>9, <4>1 DEF Known
    <3>2. i \in DOMAIN listings /\ listings[i].at \in Nat /\ listings[i].feed \in FeedSet
      <4>1. i \in DOMAIN listings
        BY <1>1, <2>9, <3>1 DEF ListerTyped
      <4>2. listings[i] \in Listing
        BY <1>1, <4>1 DEF ListerTyped
      <4> QED BY <4>1, <4>2 DEF Listing
    <3>3. listings[i].at <= latestAt[listings[i].feed] /\ latestAt[listings[i].feed] \in Nat
      BY <1>1, <2>10, <3>1, <3>2 DEF Known, ListerTyped
    <3>4. CASE listings[i].feed # f
      BY <1>1, <2>3, <3>2, <3>3, <3>4 DEF ListerTyped
    <3>5. CASE listings[i].feed = f
      <4>1. latestAt'[f] = Target
        BY <1>1, <2>1, <2>3 DEF ListerTyped
      <4>2. latestAt[f] <= pass.now + DueLead
        BY <1>1, <2>1, <2>10 DEF StillDue
      <4> QED BY <2>1, <2>6, <3>2, <3>3, <3>5, <4>1, <4>2
    <3> QED BY <3>4, <3>5
  <2>11. ASSUME ~blind PROVE StillDue'
    <3>1. SUFFICES ASSUME NEW g \in pass'.due
                   PROVE  /\ latestAt'[g] <= pass'.now + DueLead
                          /\ \A i \in DOMAIN listings' :
                                listings'[i].mine /\ listings'[i].feed = g => listings'[i].at <= pass'.now + DueLead
      BY DEF StillDue
    <3>2. g \in pass.due /\ g # f /\ pass'.now = pass.now
      BY <2>4, <3>1
    <3>3. latestAt'[g] = latestAt[g]
      BY <1>1, <2>3, <3>2 DEF ListerTyped
    <3>4. \A i \in DOMAIN listings' : listings'[i].feed = g => i \in DOMAIN listings
      BY <2>5, <2>9, <3>2
    <3> QED BY <1>1, <2>9, <2>11, <3>2, <3>3, <3>4 DEF StillDue
  <2> QED BY <1>1, <2>3, <2>8, <2>10, <2>11 DEF ListerInv
<1>9. ASSUME GiveUp \/ LoseReceipt PROVE ListerInv'
  <2>1. pass.due # {} /\ pass' = After(Skip(pass)) /\ UNCHANGED <<time, listings, latestAt, scanned>>
    BY <1>9 DEF GiveUp, LoseReceipt
  <2>2. pass \in PassRecord
    BY <1>1, <2>1, TargetIs
  <2>3. pass'.due \subseteq pass.due /\ (pass'.due # {} => pass'.now = pass.now)
    <3>1. /\ Skip(pass).now = pass.now /\ Skip(pass).due = pass.due \ {First(pass.due)}
          /\ After(Skip(pass)) = NoPass \/ After(Skip(pass)) = Skip(pass)
      BY <2>1, <2>2, NextOfPass
    <3> QED BY <2>1, <3>1 DEF NoPass
  <2>4. StillDue => StillDue'
    BY <1>1, <2>1, <2>3, FewerDue
  <2>5. Known => Known'
    BY <2>1 DEF Known
  <2>6. CASE GiveUp
    <3>1. UNCHANGED <<unanswered, blind>>
      BY <2>6 DEF GiveUp
    <3> QED BY <1>1, <2>1, <2>4, <2>5, <3>1 DEF ListerInv, NotListedTwice
  <2>7. CASE LoseReceipt
    <3>1. blind' = TRUE
      BY <2>7 DEF LoseReceipt
    <3> QED BY <1>1, <2>1, <3>1 DEF ListerInv, NotListedTwice
  <2> QED BY <1>9, <2>6, <2>7
<1>10. CASE EndPass
  <2>1. pass'.due = {} /\ UNCHANGED <<listings, latestAt, scanned, unanswered, blind>>
    BY <1>10 DEF EndPass, NoPass
  <2>2. StillDue'
    BY <2>1 DEF StillDue
  <2> QED BY <1>1, <2>1, <2>2 DEF ListerInv, Known, NotListedTwice
<1>11. CASE Restart
  <2>1. pass'.due = {} /\ scanned' = 0 /\ UNCHANGED <<listings, unanswered, blind>>
    BY <1>11 DEF Restart, NoPass
  <2>2. StillDue' /\ Known'
    BY <2>1 DEF StillDue, Known
  <2> QED BY <1>1, <2>1, <2>2 DEF ListerInv, NotListedTwice
<1> QED BY <1>2, <1>3, <1>4, <1>5, <1>6, <1>7, <1>8, <1>9, <1>10, <1>11 DEF ListerStep

(* The node opens no second market of its own on a feed for the same close, *)
(* whatever the feeds, hours, days, failures and restarts, unless a call of *)
(* its own or a log was hidden from it: what a pass finds due has none of   *)
(* the node's markets ahead, and the next close lies ahead of all that.     *)
THEOREM NothingListedTwice == ListerSpec => []NotListedTwice
<1>1. ListerInv /\ [ListerStep]_listerVars => ListerInv'
  BY ListerInvStep
<1>2. ListerInv => NotListedTwice
  BY DEF ListerInv
<1> QED BY ListerInvInit, <1>1, <1>2, PTL DEF ListerSpec

-----------------------------------------------------------------------------
(* The replay of the announcements of a stock token.                        *)

(* Numbers that include 0 and with each the next are all.                   *)
LEMMA ByCounting ==
    ASSUME NEW T \in SUBSET Nat, 0 \in T, \A k \in T : k + 1 \in T
    PROVE  T = Nat
<1> SUFFICES ASSUME Nat \ T # {} PROVE FALSE
  OBVIOUS
<1>1. PICK m \in Nat \ T : \A k \in Nat \ T : m <= k
  BY SmallestNumber
<1>2. m # 0 /\ m - 1 \in Nat /\ m - 1 \in T
  BY <1>1
<1>3. (m - 1) + 1 \in T
  BY <1>2
<1> QED BY <1>1, <1>3

(* The largest number of a non-empty set of indices.                        *)
LEMMA LastIndex ==
    ASSUME NEW n \in Nat, NEW s \in SUBSET (1..n), s # {}
    PROVE  Max(s) \in s /\ \A i \in s : i <= Max(s)
<1> DEFINE T == {n - i : i \in s}
<1>1. T \in SUBSET Nat /\ T # {}
  <2>1. \A i \in s : i \in Int /\ i <= n
    OBVIOUS
  <2>2. \A i \in s : n - i \in Nat
    BY <2>1
  <2> QED BY <2>2
<1>2. PICK m \in T : \A k \in T : m <= k
  <2> HIDE DEF T
  <2> QED BY <1>1, SmallestNumber
<1>3. PICK i \in s : m = n - i
  OBVIOUS
<1>4. \A j \in s : i >= j
  <2> TAKE j \in s
  <2>1. n - i <= n - j
    BY <1>2, <1>3
  <2> QED BY <2>1
<1>5. Max(s) \in s /\ \A j \in s : Max(s) >= j
  BY <1>4 DEF Max
<1> QED BY <1>5

(* A fold over the indices of a sequence takes them from the last.          *)
IsFold(h, base, step, n) ==
    /\ DOMAIN h = SUBSET (1..n)
    /\ \A s \in SUBSET (1..n) :
          h[s] = IF s = {} THEN base ELSE step[<<Max(s), h[s \ {Max(s)}]>>]

(* Such a function exists, whatever the step: what the function that        *)
(* MapThenFoldSet chooses satisfies is thereby known.                       *)
LEMMA FoldsExist ==
    ASSUME NEW n \in Nat, NEW A, NEW base \in A, NEW step \in [(1..n) \X A -> A]
    PROVE  \E h \in [SUBSET (1..n) -> A] : IsFold(h, base, step, n)
<1> DEFINE Has(k) == \E h \in [SUBSET (1..k) -> A] : IsFold(h, base, step, k)
           T == {k \in Nat : k <= n => Has(k)}
<1>1. Has(0)
  <2> DEFINE h == [s \in SUBSET (1..0) |-> base]
  <2>1. SUBSET (1..0) = {{}}
    OBVIOUS
  <2>2. h \in [SUBSET (1..0) -> A] /\ IsFold(h, base, step, 0)
    BY <2>1 DEF IsFold
  <2> QED BY <2>2
<1>2. ASSUME NEW k \in Nat, k + 1 <= n, Has(k) PROVE Has(k + 1)
  <2>1. PICK g \in [SUBSET (1..k) -> A] : IsFold(g, base, step, k)
    BY <1>2
  <2> DEFINE h == [s \in SUBSET (1..(k + 1)) |->
                      IF k + 1 \in s THEN step[<<k + 1, g[s \ {k + 1}]>>] ELSE g[s]]
  <2>2. \A s \in SUBSET (1..(k + 1)) : s \ {k + 1} \in SUBSET (1..k)
    OBVIOUS
  <2>3. \A s \in SUBSET (1..(k + 1)) : k + 1 \notin s => s \in SUBSET (1..k)
    OBVIOUS
  <2>4. h \in [SUBSET (1..(k + 1)) -> A]
    <3>1. k + 1 \in 1..n
      BY <1>2
    <3> SUFFICES ASSUME NEW s \in SUBSET (1..(k + 1))
                 PROVE  (IF k + 1 \in s THEN step[<<k + 1, g[s \ {k + 1}]>>] ELSE g[s]) \in A
      OBVIOUS
    <3>2. g[s \ {k + 1}] \in A
      BY <2>2
    <3>3. step[<<k + 1, g[s \ {k + 1}]>>] \in A
      BY <3>1, <3>2
    <3> QED BY <2>3, <3>3
  <2>5. ASSUME NEW s \in SUBSET (1..(k + 1))
        PROVE  h[s] = IF s = {} THEN base ELSE step[<<Max(s), h[s \ {Max(s)}]>>]
    <3>1. CASE k + 1 \in s
      <4>1. Max(s) = k + 1
        <5>1. k + 1 \in Nat /\ s # {}
          BY <3>1
        <5>2. Max(s) \in s /\ k + 1 <= Max(s)
          BY <3>1, <5>1, LastIndex
        <5>3. Max(s) \in 1..(k + 1)
          BY <5>2
        <5> QED BY <5>2, <5>3
      <4>2. h[s \ {k + 1}] = g[s \ {k + 1}]
        BY <2>2
      <4> QED BY <3>1, <4>1, <4>2
    <3>2. CASE k + 1 \notin s
      <4>1. s \in SUBSET (1..k) /\ h[s] = g[s]
        BY <2>3, <3>2
      <4>2. h[s \ {Max(s)}] = g[s \ {Max(s)}]
        <5> DEFINE u == s \ {Max(s)}
        <5>1. u \in SUBSET (1..(k + 1)) /\ k + 1 \notin u
          BY <3>2
        <5> HIDE DEF u
        <5>2. h[u] = g[u]
          BY <5>1
        <5> QED BY <5>2 DEF u
      <4> QED BY <2>1, <4>1, <4>2 DEF IsFold
    <3> QED BY <3>1, <3>2
  <2>6. IsFold(h, base, step, k + 1)
    BY <2>5 DEF IsFold
  <2> QED BY <2>4, <2>6
<1>3. T = Nat
  <2>1. T \in SUBSET Nat /\ 0 \in T
    BY <1>1
  <2>2. \A k \in T : k + 1 \in T
    <3> TAKE k \in T
    <3> HIDE DEF Has
    <3> QED BY <1>2
  <2> HIDE DEF T
  <2> QED BY <2>1, <2>2, ByCounting
<1>4. Has(n)
  <2>1. n \in T
    BY <1>3
  <2> HIDE DEF Has
  <2> QED BY <2>1
<1> QED BY <1>4

(* A fold over a sequence goes from one prefix to the next.                 *)
LEMMA PrefixIndex ==
    ASSUME NEW k \in Nat
    PROVE  Max(1..(k + 1)) = k + 1 /\ (1..(k + 1)) \ {k + 1} = 1..k /\ 1..(k + 1) # {}
<1>1. 1..(k + 1) # {} /\ 1..(k + 1) \in SUBSET (1..(k + 1)) /\ k + 1 \in 1..(k + 1)
  OBVIOUS
<1>2. Max(1..(k + 1)) \in 1..(k + 1) /\ k + 1 <= Max(1..(k + 1))
  <2> DEFINE n == k + 1
             s == 1..(k + 1)
  <2>1. n \in Nat /\ s \in SUBSET (1..n) /\ s # {} /\ n \in s
    OBVIOUS
  <2> HIDE DEF n, s
  <2>2. Max(s) \in s /\ n <= Max(s)
    BY <2>1, LastIndex
  <2> QED BY <2>2 DEF n, s
<1>3. (1..(k + 1)) \ {k + 1} = 1..k
  OBVIOUS
<1>4. Max(1..(k + 1)) = k + 1
  <2> DEFINE m == Max(1..(k + 1))
  <2> HIDE DEF m
  <2>1. m \in 1..(k + 1) /\ k + 1 <= m
    BY <1>2 DEF m
  <2>2. m = k + 1
    BY <2>1
  <2> QED BY <2>2 DEF m
<1> QED BY <1>1, <1>3, <1>4

(* An announcement in the logs, and a block of the source chain.            *)
Change == [oldMultiplier : Nat, newMultiplier : Nat, effectiveAt : Nat, scheduledAt : Nat,
           blockNumber : Nat]
Block == [timestamp : Nat, log : Change \cup {NoChange}]

(* Logs, one block at a time: the logs so far, block by block.              *)
LEMMA LogsFold ==
    ASSUME NEW blocks \in Seq(Block)
    PROVE  \E g : /\ g[0] = <<>>
                  /\ \A k \in 0..(Len(blocks) - 1) :
                        g[k + 1] = IF blocks[k + 1].log = NoChange THEN g[k]
                                   ELSE Append(g[k], blocks[k + 1].log)
                  /\ Logs(blocks) = g[Len(blocks)]
<1> DEFINE n == Len(blocks)
           A == Seq(Change \cup {NoChange})
           Step(i, a) == IF blocks[i].log = NoChange THEN a ELSE Append(a, blocks[i].log)
           step == [x \in (1..n) \X A |-> Step(x[1], x[2])]
           Is(h) == h = [s \in SUBSET (1..n) |-> IF s = {} THEN <<>> ELSE Step(Max(s), h[s \ {Max(s)}])]
<1>1. n \in Nat /\ DOMAIN blocks = 1..n
  OBVIOUS
<1>2. step \in [(1..n) \X A -> A]
  <2> SUFFICES ASSUME NEW i \in 1..n, NEW a \in A PROVE Step(i, a) \in A
    OBVIOUS
  <2>1. blocks[i].log \in Change \cup {NoChange}
    <3> DEFINE b == blocks[i]
    <3>1. b \in Block
      BY <1>1
    <3> HIDE DEF b
    <3> QED BY <3>1 DEF Block, b
  <2> QED BY <2>1
<1>3. PICK h \in [SUBSET (1..n) -> A] : IsFold(h, <<>>, step, n)
  <2>1. <<>> \in A
    OBVIOUS
  <2> HIDE DEF n, A, step
  <2> QED BY <1>1, <1>2, <2>1, FoldsExist
<1>4. Is(h)
  <2>1. \A s \in SUBSET (1..n) : h[s] = IF s = {} THEN <<>> ELSE step[<<Max(s), h[s \ {Max(s)}]>>]
    BY <1>3 DEF IsFold
  <2>2. \A s \in SUBSET (1..n) : s # {} =>
           step[<<Max(s), h[s \ {Max(s)}]>>] = Step(Max(s), h[s \ {Max(s)}])
    <3> TAKE s \in SUBSET (1..n)
    <3> HAVE s # {}
    <3>1. Max(s) \in 1..n
      <4> HIDE DEF n
      <4> QED BY <1>1, LastIndex
    <3>2. h[s \ {Max(s)}] \in A
      <4> HIDE DEF A, n
      <4> QED BY <1>3
    <3> HIDE DEF A, n, Step
    <3> QED BY <3>1, <3>2
  <2>3. \A s \in SUBSET (1..n) : h[s] = IF s = {} THEN <<>> ELSE Step(Max(s), h[s \ {Max(s)}])
    <3> HIDE DEF step, Step, n
    <3> QED BY <2>1, <2>2
  <2>4. h = [s \in SUBSET (1..n) |-> h[s]]
    BY <1>3
  <2> HIDE DEF Step, n
  <2> QED BY <2>3, <2>4
<1> DEFINE g == CHOOSE f : Is(f)
<1>5. Is(g)
  <2> HIDE DEF Is
  <2> QED BY <1>4
<1>6. Logs(blocks) = g[1..n]
  BY <1>1 DEF Logs, FoldLeft, MapThenFoldSet
<1> DEFINE p == [k \in 0..n |-> g[1..k]]
<1> HIDE DEF g
<1>7. p[0] = <<>>
  <2>1. 1..0 = {} /\ {} \in SUBSET (1..n)
    OBVIOUS
  <2>2. g[{}] = <<>>
    BY <1>5, <2>1
  <2> QED BY <1>1, <2>1, <2>2
<1>8. ASSUME NEW k \in 0..(n - 1) PROVE p[k + 1] = Step(k + 1, p[k])
  <2>1. k \in Nat /\ k \in 0..n /\ k + 1 \in 0..n /\ 1..(k + 1) \in SUBSET (1..n)
    BY <1>1
  <2>2. p[k + 1] = g[1..(k + 1)] /\ p[k] = g[1..k]
    BY <2>1
  <2> DEFINE s == 1..(k + 1)
  <2>3. Max(s) = k + 1 /\ s \ {k + 1} = 1..k /\ s # {}
    BY <2>1, PrefixIndex
  <2>4. s \in SUBSET (1..n)
    BY <2>1
  <2> HIDE DEF s
  <2>5. g[s] = Step(Max(s), g[s \ {Max(s)}])
    <3> HIDE DEF Step, n
    <3> QED BY <1>5, <2>3, <2>4
  <2> HIDE DEF Step
  <2> QED BY <2>2, <2>3, <2>5 DEF s
<1>9. Logs(blocks) = p[n]
  BY <1>1, <1>6
<1>10. \A k \in 0..(n - 1) : p[k + 1] = IF blocks[k + 1].log = NoChange THEN p[k]
                                        ELSE Append(p[k], blocks[k + 1].log)
  BY <1>8
<1> HIDE DEF p
<1> QED BY <1>7, <1>9, <1>10

(* What one more change does to those that are live.                        *)
LiveAfter(live, c, from) == IF c.blockNumber < from THEN live
                            ELSE {p \in live : p.effectiveAt <= c.scheduledAt} \cup {c}

(* Live, one change at a time, as decideCorporateAction replays them.       *)
LEMMA LiveFold ==
    ASSUME NEW changes \in Seq(Change), NEW from
    PROVE  \E g : /\ g[0] = {}
                  /\ \A k \in 0..(Len(changes) - 1) :
                        g[k + 1] = LiveAfter(g[k], changes[k + 1], from)
                  /\ Live(changes, from) = g[Len(changes)]
<1> DEFINE n == Len(changes)
           A == SUBSET Change
           Step(i, a) == LiveAfter(a, changes[i], from)
           step == [x \in (1..n) \X A |-> Step(x[1], x[2])]
           Is(h) == h = [s \in SUBSET (1..n) |-> IF s = {} THEN {} ELSE Step(Max(s), h[s \ {Max(s)}])]
<1>1. n \in Nat /\ DOMAIN changes = 1..n
  OBVIOUS
<1>2. step \in [(1..n) \X A -> A]
  <2> SUFFICES ASSUME NEW i \in 1..n, NEW a \in A PROVE Step(i, a) \in A
    OBVIOUS
  <2>1. changes[i] \in Change
    BY <1>1
  <2> QED BY <2>1 DEF LiveAfter
<1>3. PICK h \in [SUBSET (1..n) -> A] : IsFold(h, {}, step, n)
  <2>1. {} \in A
    OBVIOUS
  <2> HIDE DEF n, A, step
  <2> QED BY <1>1, <1>2, <2>1, FoldsExist
<1>4. Is(h)
  <2>1. \A s \in SUBSET (1..n) : h[s] = IF s = {} THEN {} ELSE step[<<Max(s), h[s \ {Max(s)}]>>]
    BY <1>3 DEF IsFold
  <2>2. \A s \in SUBSET (1..n) : s # {} =>
           step[<<Max(s), h[s \ {Max(s)}]>>] = Step(Max(s), h[s \ {Max(s)}])
    <3> TAKE s \in SUBSET (1..n)
    <3> HAVE s # {}
    <3>1. Max(s) \in 1..n
      <4> HIDE DEF n
      <4> QED BY <1>1, LastIndex
    <3>2. h[s \ {Max(s)}] \in A
      <4> HIDE DEF A, n
      <4> QED BY <1>3
    <3> HIDE DEF A, n, Step
    <3> QED BY <3>1, <3>2
  <2>3. \A s \in SUBSET (1..n) : h[s] = IF s = {} THEN {} ELSE Step(Max(s), h[s \ {Max(s)}])
    <3> HIDE DEF step, Step, n
    <3> QED BY <2>1, <2>2
  <2>4. h = [s \in SUBSET (1..n) |-> h[s]]
    BY <1>3
  <2> HIDE DEF Step, n
  <2> QED BY <2>3, <2>4
<1> DEFINE g == CHOOSE f : Is(f)
<1>5. Is(g)
  <2> HIDE DEF Is
  <2> QED BY <1>4
<1>6. Live(changes, from) = g[1..n]
  BY <1>1 DEF Live, LiveAfter, FoldLeft, MapThenFoldSet
<1> DEFINE p == [k \in 0..n |-> g[1..k]]
<1> HIDE DEF g
<1>7. p[0] = {}
  <2>1. 1..0 = {} /\ {} \in SUBSET (1..n)
    OBVIOUS
  <2>2. g[{}] = {}
    BY <1>5, <2>1
  <2> QED BY <1>1, <2>1, <2>2
<1>8. ASSUME NEW k \in 0..(n - 1) PROVE p[k + 1] = Step(k + 1, p[k])
  <2>1. k \in Nat /\ k \in 0..n /\ k + 1 \in 0..n /\ 1..(k + 1) \in SUBSET (1..n)
    BY <1>1
  <2>2. p[k + 1] = g[1..(k + 1)] /\ p[k] = g[1..k]
    BY <2>1
  <2> DEFINE s == 1..(k + 1)
  <2>3. Max(s) = k + 1 /\ s \ {k + 1} = 1..k /\ s # {}
    BY <2>1, PrefixIndex
  <2>4. s \in SUBSET (1..n)
    BY <2>1
  <2> HIDE DEF s
  <2>5. g[s] = Step(Max(s), g[s \ {Max(s)}])
    <3> HIDE DEF Step, n
    <3> QED BY <1>5, <2>3, <2>4
  <2> HIDE DEF Step
  <2> QED BY <2>2, <2>3, <2>5 DEF s
<1>9. Live(changes, from) = p[n]
  BY <1>1, <1>6
<1>10. \A k \in 0..(n - 1) : p[k + 1] = LiveAfter(p[k], changes[k + 1], from)
  BY <1>8
<1> HIDE DEF p
<1> QED BY <1>7, <1>9, <1>10

(* What the replay of all changes leaves: each that no later one replaced.  *)
Standing(changes, from, k) ==
    {changes[i] : i \in {m \in 1..k : /\ changes[m].blockNumber >= from
                                      /\ \A j \in (m + 1)..k :
                                            changes[j].blockNumber >= from =>
                                                changes[m].effectiveAt <= changes[j].scheduledAt}}

(* The replay, told without its order: a change is left when no later one   *)
(* in the list was announced before it took effect.                         *)
LEMMA LiveIs ==
    ASSUME NEW changes \in Seq(Change), NEW from \in Nat
    PROVE  Live(changes, from) = Standing(changes, from, Len(changes))
<1> DEFINE n == Len(changes)
<1>0. n \in Nat /\ \A i \in 1..n : /\ changes[i].blockNumber \in Nat /\ changes[i].effectiveAt \in Nat
                                    /\ changes[i].scheduledAt \in Nat
  <2>1. n \in Nat /\ \A i \in 1..n : changes[i] \in Change
    OBVIOUS
  <2> HIDE DEF n
  <2> QED BY <2>1 DEF Change
<1>1. PICK g : /\ g[0] = {}
               /\ \A k \in 0..(n - 1) : g[k + 1] = LiveAfter(g[k], changes[k + 1], from)
               /\ Live(changes, from) = g[n]
  BY LiveFold
<1> HIDE DEF n
<1> DEFINE T == {k \in Nat : k <= n => g[k] = Standing(changes, from, k)}
<1>2. 0 \in T
  BY <1>1 DEF Standing
<1>3. ASSUME NEW k \in Nat, k + 1 <= n, g[k] = Standing(changes, from, k)
      PROVE  g[k + 1] = Standing(changes, from, k + 1)
  <2> DEFINE c == changes[k + 1]
             Stays(m, u) == /\ changes[m].blockNumber >= from
                            /\ \A j \in (m + 1)..u :
                                  changes[j].blockNumber >= from =>
                                      changes[m].effectiveAt <= changes[j].scheduledAt
  <2>0. k \in 0..(n - 1)
    BY <1>0, <1>3
  <2>1. g[k + 1] = LiveAfter(Standing(changes, from, k), c, from)
    BY <1>1, <1>3, <2>0
  <2>2. CASE c.blockNumber < from
    <3>1. \A m \in 1..(k + 1) : Stays(m, k + 1) <=> m \in 1..k /\ Stays(m, k)
      <4> TAKE m \in 1..(k + 1)
      <4>1. CASE m = k + 1
        BY <1>0, <1>3, <2>2, <4>1
      <4>2. CASE m \in 1..k
        <5>1. (m + 1)..(k + 1) = ((m + 1)..k) \cup {k + 1}
          BY <4>2
        <5>2. ~(changes[k + 1].blockNumber >= from)
          BY <1>0, <1>3, <2>2
        <5> QED BY <4>2, <5>1, <5>2
      <4> QED BY <4>1, <4>2
    <3>2. Standing(changes, from, k + 1) = Standing(changes, from, k)
      <4>1. 1..k \subseteq 1..(k + 1)
        OBVIOUS
      <4>2. {m \in 1..(k + 1) : Stays(m, k + 1)} = {m \in 1..k : Stays(m, k)}
        <5> HIDE DEF Stays
        <5> QED BY <3>1, <4>1
      <4> QED BY <4>2 DEF Standing
    <3> QED BY <2>1, <2>2, <3>2 DEF LiveAfter
  <2>3. CASE ~(c.blockNumber < from)
    <3>0. c.blockNumber >= from
      BY <1>0, <1>3, <2>3
    <3>1. \A m \in 1..k : Stays(m, k + 1) <=> Stays(m, k) /\ changes[m].effectiveAt <= c.scheduledAt
      <4> TAKE m \in 1..k
      <4>1. (m + 1)..(k + 1) = ((m + 1)..k) \cup {k + 1}
        OBVIOUS
      <4> QED BY <3>0, <4>1
    <3>2. Stays(k + 1, k + 1)
      BY <3>0
    <3>3. {m \in 1..(k + 1) : Stays(m, k + 1)} =
             {m \in 1..k : Stays(m, k) /\ changes[m].effectiveAt <= c.scheduledAt} \cup {k + 1}
      <4>1. 1..(k + 1) = (1..k) \cup {k + 1}
        OBVIOUS
      <4> HIDE DEF Stays, c
      <4> QED BY <3>1, <3>2, <4>1
    <3>4. Standing(changes, from, k + 1) =
             {p \in Standing(changes, from, k) : p.effectiveAt <= c.scheduledAt} \cup {c}
      <4>1. Standing(changes, from, k + 1) = {changes[i] : i \in {m \in 1..(k + 1) : Stays(m, k + 1)}}
        BY DEF Standing
      <4>2. Standing(changes, from, k) = {changes[i] : i \in {m \in 1..k : Stays(m, k)}}
        BY DEF Standing
      <4> HIDE DEF Stays
      <4> QED BY <3>3, <4>1, <4>2
    <3> QED BY <2>1, <2>3, <3>4 DEF LiveAfter
  <2> QED BY <2>2, <2>3
<1>4. T = Nat
  <2>1. T \in SUBSET Nat
    OBVIOUS
  <2>2. \A k \in T : k + 1 \in T
    BY <1>0, <1>3
  <2> HIDE DEF T
  <2> QED BY <1>2, <2>1, <2>2, ByCounting
<1>5. n \in T
  BY <1>0, <1>4
<1> QED BY <1>0, <1>1, <1>5 DEF n

-----------------------------------------------------------------------------
Time(b) == chain[b].timestamp
Log(b)  == chain[b].log

(* The source: blocks in the order of time, each with at most one           *)
(* announcement, made when the block was.                                   *)
ChainOK ==
    /\ chain \in Seq(Block) /\ chain # <<>>
    /\ \A a, b \in DOMAIN chain : a <= b => Time(a) <= Time(b)
    /\ \A b \in DOMAIN chain : Log(b) # NoChange =>
          /\ Log(b).blockNumber = b /\ Log(b).scheduledAt = Time(b)
          /\ Log(b).effectiveAt >= Time(b) /\ Log(b).effectiveAt <= Time(b) + MaxNotice

(* A list of logs, in which those of the blocks from a first to a last one  *)
(* come in order, if not for the first time.                                *)
Holds(list, first, last) ==
    /\ list \in Seq(Change)
    /\ \A i \in DOMAIN list : \E b \in DOMAIN chain : Log(b) # NoChange /\ list[i] = Log(b)
    /\ \A b \in first..last : Log(b) # NoChange =>
          \E i \in DOMAIN list : /\ list[i] = Log(b)
                                 /\ \A j \in DOMAIN list : j > i => list[j].blockNumber > b

(* A scan of a range of blocks has their logs in order, and no others.      *)
LEMMA ScanHolds ==
    ASSUME ChainOK, NEW from \in Nat \ {0}, NEW to \in 0..Len(chain)
    PROVE  /\ Holds(Scan(from, to), from, to)
           /\ \A i \in DOMAIN Scan(from, to) : /\ Scan(from, to)[i].blockNumber >= from
                                               /\ Scan(from, to)[i].blockNumber <= to
<1> DEFINE blocks == SubSeq(chain, from, to)
           n == Len(blocks)
<1>0. chain \in Seq(Block) /\ Len(chain) \in Nat /\ DOMAIN chain = 1..Len(chain)
  BY DEF ChainOK
<1>1. /\ blocks \in Seq(Block) /\ n \in Nat
      /\ n = IF from > to THEN 0 ELSE to - from + 1
      /\ \A k \in 1..n : blocks[k] = chain[from + k - 1]
  <2>1. CASE from > to
    BY <1>0, <2>1
  <2>2. CASE from <= to
    <3>1. \A i \in from..to : chain[i] \in Block
      BY <1>0
    <3> QED BY <1>0, <2>2, <3>1
  <2> QED BY <2>1, <2>2
<1>2. PICK g : /\ g[0] = <<>>
               /\ \A k \in 0..(n - 1) : g[k + 1] = IF blocks[k + 1].log = NoChange THEN g[k]
                                                   ELSE Append(g[k], blocks[k + 1].log)
               /\ Logs(blocks) = g[n]
  BY <1>1, LogsFold
<1>3. Scan(from, to) = g[n]
  BY <1>2 DEF Scan
<1> HIDE DEF n
<1> DEFINE Good(q, u) ==
              /\ q \in Seq(Change)
              /\ \A i \in DOMAIN q : \E b \in from..u : Log(b) # NoChange /\ q[i] = Log(b)
              /\ \A b \in from..u : Log(b) # NoChange =>
                    \E i \in DOMAIN q : /\ q[i] = Log(b)
                                        /\ \A j \in DOMAIN q : j > i => q[j].blockNumber > b
           T == {k \in Nat : k <= n => Good(g[k], from + k - 1)}
<1>4. Good(g[0], from + 0 - 1)
  BY <1>2
<1>5. ASSUME NEW k \in Nat, k + 1 <= n, Good(g[k], from + k - 1) PROVE Good(g[k + 1], from + (k + 1) - 1)
  <2> DEFINE b1 == from + k
             q == g[k]
  <2>1. b1 \in DOMAIN chain /\ blocks[k + 1] = chain[b1] /\ k \in 0..(n - 1)
    BY <1>0, <1>1, <1>5
  <2>2. from..(from + (k + 1) - 1) = (from..(from + k - 1)) \cup {b1}
    OBVIOUS
  <2>3. CASE Log(b1) = NoChange
    <3>1. g[k + 1] = q
      BY <1>2, <2>1, <2>3 DEF Log
    <3> HIDE DEF b1
    <3> QED BY <1>5, <2>2, <2>3, <3>1
  <2>4. CASE Log(b1) # NoChange
    <3>1. g[k + 1] = Append(q, Log(b1))
      BY <1>2, <2>1, <2>4 DEF Log
    <3>2. Log(b1) \in Change /\ Log(b1).blockNumber = b1
      <4>1. chain[b1] \in Block
        BY <1>0, <2>1
      <4>2. Log(b1) \in Change \cup {NoChange}
        BY <4>1 DEF Block, Log
      <4> QED BY <2>1, <2>4, <4>2 DEF ChainOK
    <3> DEFINE r == Append(q, Log(b1))
               m == Len(q)
    <3>3. /\ q \in Seq(Change) /\ m \in Nat /\ DOMAIN q = 1..m
          /\ r \in Seq(Change) /\ DOMAIN r = 1..(m + 1)
          /\ \A i \in 1..m : r[i] = q[i]
          /\ r[m + 1] = Log(b1)
      BY <1>5, <3>2
    <3> HIDE DEF r, m, q
    <3>4. \A i \in DOMAIN r : \E b \in from..(from + (k + 1) - 1) : Log(b) # NoChange /\ r[i] = Log(b)
      <4> TAKE i \in DOMAIN r
      <4>1. CASE i = m + 1
        BY <2>2, <2>4, <3>3, <4>1
      <4>2. CASE i \in 1..m
        BY <1>5, <2>2, <3>3, <4>2 DEF q
      <4> QED BY <3>3, <4>1, <4>2
    <3>5. ASSUME NEW b \in from..(from + (k + 1) - 1), Log(b) # NoChange
          PROVE  \E i \in DOMAIN r : /\ r[i] = Log(b)
                                     /\ \A j \in DOMAIN r : j > i => r[j].blockNumber > b
      <4>1. CASE b = b1
        <5>1. m + 1 \in DOMAIN r /\ r[m + 1] = Log(b)
          BY <3>3, <4>1
        <5>2. \A j \in DOMAIN r : ~(j > m + 1)
          BY <3>3
        <5> QED BY <5>1, <5>2
      <4>2. CASE b \in from..(from + k - 1)
        <5>1. PICK i \in DOMAIN q : q[i] = Log(b) /\ \A j \in DOMAIN q : j > i => q[j].blockNumber > b
          BY <1>5, <3>5, <4>2 DEF q
        <5>2. b1 > b
          BY <4>2
        <5>3. \A j \in DOMAIN r : j > i => r[j].blockNumber > b
          <6> TAKE j \in DOMAIN r
          <6> HAVE j > i
          <6>1. CASE j = m + 1
            BY <3>2, <3>3, <5>2, <6>1
          <6>2. CASE j \in 1..m
            BY <3>3, <5>1, <6>2
          <6> QED BY <3>3, <6>1, <6>2
        <5>4. i \in DOMAIN r /\ r[i] = Log(b)
          BY <3>3, <5>1
        <5> QED BY <5>3, <5>4
      <4> QED BY <2>2, <4>1, <4>2
    <3>6. g[k + 1] = r
      BY <3>1 DEF r, q
    <3> QED BY <3>3, <3>4, <3>5, <3>6
  <2> QED BY <2>3, <2>4
<1>6. T = Nat
  <2>1. T \in SUBSET Nat /\ 0 \in T
    BY <1>4
  <2>2. \A k \in T : k + 1 \in T
    <3> TAKE k \in T
    <3>1. k \in Nat /\ (k <= n => Good(g[k], from + k - 1))
      OBVIOUS
    <3>2. k + 1 <= n => Good(g[k + 1], from + (k + 1) - 1)
      <4>1. k + 1 <= n => k <= n
        BY <1>1
      <4> HIDE DEF Good, T
      <4> QED BY <1>5, <3>1, <4>1
    <3> HIDE DEF Good
    <3> QED BY <3>1, <3>2
  <2> HIDE DEF T
  <2> QED BY <2>1, <2>2, ByCounting
<1>7. Good(g[n], from + n - 1)
  <2>1. n \in T
    BY <1>1, <1>6
  <2> HIDE DEF Good
  <2> QED BY <1>1, <2>1
<1>8. /\ from..(from + n - 1) = from..to
      /\ \A b \in from..to : b \in DOMAIN chain /\ b >= from /\ b <= to
  BY <1>0, <1>1
<1>9. Holds(g[n], from, to)
  BY <1>7, <1>8 DEF Holds
<1>10. ASSUME NEW i \in DOMAIN g[n] PROVE g[n][i].blockNumber >= from /\ g[n][i].blockNumber <= to
  <2>1. PICK b \in from..to : Log(b) # NoChange /\ g[n][i] = Log(b)
    BY <1>7, <1>8, <1>10
  <2>2. Log(b).blockNumber = b
    BY <1>8, <2>1 DEF ChainOK
  <2> QED BY <2>1, <2>2
<1> QED BY <1>3, <1>9, <1>10

(* The bisection of the model, as a fact about a function.                  *)
Middle(lo, hi) == (lo + hi + 1) \div 2

Bisects(f, t) ==
    f = [range \in (DOMAIN chain) \X (DOMAIN chain) |->
            LET lo  == range[1]
                hi  == range[2]
                mid == (lo + hi + 1) \div 2
            IN  IF lo >= hi THEN lo
                ELSE IF chain[mid].timestamp <= t THEN f[<<mid, hi>>]
                     ELSE f[<<lo, mid - 1>>]]

(* The middle of the bisection is above lo, so either half is smaller.      *)
LEMMA MiddleIs ==
    ASSUME NEW lo \in Nat, NEW hi \in Nat, lo < hi
    PROVE  Middle(lo, hi) \in Nat /\ lo < Middle(lo, hi) /\ Middle(lo, hi) <= hi
  BY DEF Middle

(* The last block of a range at or before an instant, or the first of all.  *)
LastAt(t, lo, hi) == Max({lo} \cup {i \in (lo + 1)..hi : Time(i) <= t})

(* There is such a block, and it is the last one.                           *)
LEMMA LastAtIs ==
    ASSUME ChainOK, NEW t \in Int, NEW lo \in DOMAIN chain, NEW hi \in DOMAIN chain
    PROVE  /\ LastAt(t, lo, hi) \in {lo} \cup {i \in (lo + 1)..hi : Time(i) <= t}
           /\ \A i \in {lo} \cup {j \in (lo + 1)..hi : Time(j) <= t} : i <= LastAt(t, lo, hi)
<1> DEFINE n == Len(chain)
           s == {lo} \cup {i \in (lo + 1)..hi : Time(i) <= t}
<1>1. n \in Nat /\ DOMAIN chain = 1..n
  BY DEF ChainOK
<1>2. s \in SUBSET (1..n) /\ s # {}
  <2> HIDE DEF n
  <2> QED BY <1>1
<1>3. Max(s) \in s /\ \A i \in s : i <= Max(s)
  <2> HIDE DEF s, n
  <2> QED BY <1>1, <1>2, LastIndex
<1> QED BY <1>3 DEF LastAt

(* findBlockAtOrBefore bisects a range to that block: the recursion of the  *)
(* model has a solution.                                                    *)
LEMMA BisectsExist ==
    ASSUME ChainOK, NEW t \in Int
    PROVE  \E f : Bisects(f, t)
<1> DEFINE D == DOMAIN chain
           n == Len(chain)
           f == [range \in D \X D |-> LastAt(t, range[1], range[2])]
           V(lo, hi) == IF lo >= hi THEN lo
                        ELSE IF Time(Middle(lo, hi)) <= t THEN LastAt(t, Middle(lo, hi), hi)
                        ELSE LastAt(t, lo, Middle(lo, hi) - 1)
<1>1. n \in Nat /\ D = 1..n /\ \A b \in D : Time(b) \in Nat
  <2>1. n \in Nat /\ D = 1..n /\ \A b \in D : chain[b] \in Block
    BY DEF ChainOK
  <2> QED BY <2>1 DEF Block, Time
<1>2. ASSUME NEW lo \in D, NEW hi \in D PROVE LastAt(t, lo, hi) = V(lo, hi)
  <2> DEFINE mid == Middle(lo, hi)
             best == LastAt(t, lo, hi)
             S(l, h) == {l} \cup {i \in (l + 1)..h : Time(i) <= t}
  <2>0. lo \in Nat /\ hi \in Nat /\ lo >= 1 /\ hi <= n
    BY <1>1
  <2>1. best \in S(lo, hi) /\ \A i \in S(lo, hi) : i <= best
    BY LastAtIs
  <2>2. CASE lo >= hi
    <3>1. S(lo, hi) = {lo}
      BY <2>0, <2>2
    <3>2. best = lo
      <4> HIDE DEF best, S
      <4> QED BY <2>1, <3>1
    <3>3. V(lo, hi) = lo
      BY <2>2
    <3> QED BY <3>2, <3>3
  <2>3. CASE ~(lo >= hi)
    <3>1. mid \in Nat /\ lo < mid /\ mid <= hi
      BY <2>0, <2>3, MiddleIs
    <3>2. mid \in D /\ mid - 1 \in D
      BY <1>1, <2>0, <3>1
    <3> HIDE DEF mid, best
    <3>3. CASE Time(mid) <= t
      <4> DEFINE r == LastAt(t, mid, hi)
      <4>1. r \in S(mid, hi) /\ \A i \in S(mid, hi) : i <= r
        BY <3>2, LastAtIs
      <4> HIDE DEF r
      <4>2. S(mid, hi) \subseteq S(lo, hi) /\ mid \in S(mid, hi)
        BY <2>0, <3>1, <3>3
      <4>3. r <= best /\ mid <= best
        BY <2>1, <4>1, <4>2
      <4>4. S(lo, hi) \subseteq Nat
        BY <2>0
      <4>5. best \in S(mid, hi)
        BY <2>0, <2>1, <3>1, <4>3, <4>4
      <4>6. best = r
        <5>1. best <= r /\ r <= best /\ best \in Nat /\ r \in Nat
          <6> HIDE DEF S
          <6> QED BY <2>1, <4>1, <4>2, <4>3, <4>4, <4>5
        <5> QED BY <5>1
      <4>7. V(lo, hi) = r
        BY <2>3, <3>3 DEF mid, r
      <4> QED BY <4>6, <4>7 DEF best
    <3>4. CASE ~(Time(mid) <= t)
      <4>1. ASSUME NEW i \in (lo + 1)..hi, Time(i) <= t PROVE i <= mid - 1
        <5> SUFFICES ASSUME mid <= i PROVE FALSE
          BY <2>0, <3>1
        <5>1. i \in D
          BY <1>1, <2>0
        <5>2. Time(mid) <= Time(i)
          BY <3>2, <5>1 DEF ChainOK
        <5> QED BY <1>1, <3>2, <3>4, <4>1, <5>1, <5>2
      <4>2. S(lo, hi) = S(lo, mid - 1)
        BY <2>0, <3>1, <4>1
      <4>3. best = LastAt(t, lo, mid - 1)
        BY <4>2 DEF LastAt, best
      <4>4. V(lo, hi) = LastAt(t, lo, mid - 1)
        BY <2>3, <3>4 DEF mid
      <4> QED BY <4>3, <4>4 DEF best
    <3> QED BY <3>3, <3>4
  <2> QED BY <2>2, <2>3
<1> DEFINE W(range) == LET lo  == range[1]
                           hi  == range[2]
                           mid == (lo + hi + 1) \div 2
                       IN  IF lo >= hi THEN lo
                           ELSE IF chain[mid].timestamp <= t THEN f[<<mid, hi>>]
                                ELSE f[<<lo, mid - 1>>]
<1>3. ASSUME NEW r \in D \X D PROVE LastAt(t, r[1], r[2]) = W(r)
  <2> DEFINE lo == r[1]
             hi == r[2]
             mid == Middle(lo, hi)
  <2>0. lo \in D /\ hi \in D
    OBVIOUS
  <2>1. CASE lo >= hi
    <3>1. LastAt(t, lo, hi) = lo
      <4> HIDE DEF lo, hi
      <4> QED BY <1>2, <2>0, <2>1
    <3> QED BY <2>1, <3>1
  <2>2. CASE ~(lo >= hi)
    <3>1. mid \in Nat /\ lo < mid /\ mid <= hi /\ lo \in Nat /\ hi \in Nat
      <4> HIDE DEF lo, hi
      <4>1. lo \in Nat /\ hi \in Nat /\ lo < hi
        BY <1>1, <2>0, <2>2
      <4> QED BY <4>1, MiddleIs
    <3>2. mid \in D /\ mid - 1 \in D
      <4> HIDE DEF mid, lo, hi
      <4> QED BY <1>1, <2>0, <3>1
    <3>3. f[<<mid, hi>>] = LastAt(t, mid, hi) /\ f[<<lo, mid - 1>>] = LastAt(t, lo, mid - 1)
      <4> HIDE DEF mid, lo, hi
      <4> QED BY <2>0, <3>2
    <3>4. W(r) = IF Time(mid) <= t THEN f[<<mid, hi>>] ELSE f[<<lo, mid - 1>>]
      <4> HIDE DEF f
      <4> QED BY <2>2 DEF Middle, Time
    <3>5. LastAt(t, lo, hi) = IF Time(mid) <= t THEN LastAt(t, mid, hi) ELSE LastAt(t, lo, mid - 1)
      <4> HIDE DEF lo, hi
      <4> QED BY <1>2, <2>0, <2>2
    <3> HIDE DEF f, W, mid
    <3> QED BY <3>3, <3>4, <3>5
  <2> HIDE DEF W, f
  <2> QED BY <2>1, <2>2
<1>4. Bisects(f, t)
  <2>1. f = [r \in D \X D |-> W(r)]
    <3> HIDE DEF W
    <3> QED BY <1>3
  <2> HIDE DEF f
  <2> QED BY <2>1 DEF Bisects
<1> QED BY <1>4

(* findBlockAtOrBefore does not return a block after the instant, but the   *)
(* first.                                                                   *)
LEMMA BlockFound ==
    ASSUME ChainOK, NEW t \in Int
    PROVE  BlockAt(t) \in DOMAIN chain /\ (BlockAt(t) = 1 \/ Time(BlockAt(t)) <= t)
<1> DEFINE D == DOMAIN chain
           n == Len(chain)
<1>1. n \in Nat \ {0} /\ D = 1..n /\ Clock = Time(n)
  BY DEF ChainOK, Clock, Last, Time
<1>2. CASE Clock <= t
  BY <1>1, <1>2 DEF BlockAt
<1>3. CASE ~(Clock <= t)
  <2> DEFINE f == CHOOSE g : Bisects(g, t)
  <2>1. Bisects(f, t)
    BY BisectsExist
  <2>2. BlockAt(t) = f[<<1, n>>]
    BY <1>3 DEF BlockAt, Bisects
  <2> HIDE DEF f, n
  <2>3. ASSUME NEW lo \in D, NEW hi \in D
        PROVE  /\ lo >= hi => f[<<lo, hi>>] = lo
               /\ lo < hi => IF Time(Middle(lo, hi)) <= t THEN f[<<lo, hi>>] = f[<<Middle(lo, hi), hi>>]
                             ELSE f[<<lo, hi>>] = f[<<lo, Middle(lo, hi) - 1>>]
    <3> DEFINE mid == Middle(lo, hi)
               W(l, h) == IF l >= h THEN l
                          ELSE IF Time(Middle(l, h)) <= t THEN f[<<Middle(l, h), h>>]
                               ELSE f[<<l, Middle(l, h) - 1>>]
    <3>1. f = [r \in D \X D |-> W(r[1], r[2])]
      BY <2>1 DEF Bisects, Middle, Time
    <3>2. f[<<lo, hi>>] = W(lo, hi)
      <4>1. <<lo, hi>> \in D \X D
        OBVIOUS
      <4> HIDE DEF W
      <4> QED BY <3>1, <4>1
    <3>3. lo \in Nat /\ hi \in Nat
      BY <1>1
    <3>4. lo < hi <=> ~(lo >= hi)
      BY <3>3
    <3> QED BY <3>2, <3>4
  <2> DEFINE Good(lo, hi) == f[<<lo, hi>>] \in D /\ (f[<<lo, hi>>] = lo \/ Time(f[<<lo, hi>>]) <= t)
             T == {k \in Nat : \A lo, hi \in D : hi <= lo + k => Good(lo, hi)}
  <2>4. 0 \in T
    <3> SUFFICES ASSUME NEW lo \in D, NEW hi \in D, hi <= lo + 0 PROVE Good(lo, hi)
      OBVIOUS
    <3>1. lo >= hi
      BY <1>1
    <3>2. f[<<lo, hi>>] = lo
      BY <2>3, <3>1
    <3> QED BY <3>2
  <2>5. ASSUME NEW k \in T, NEW lo \in D, NEW hi \in D, hi <= lo + (k + 1) PROVE Good(lo, hi)
    <3>1. CASE lo >= hi
      BY <2>3, <3>1
    <3>2. CASE lo < hi
      <4> DEFINE mid == Middle(lo, hi)
      <4>1. mid \in Nat /\ lo < mid /\ mid <= hi
        BY <1>1, <3>2, MiddleIs
      <4> HIDE DEF mid
      <4>2. mid \in D /\ mid - 1 \in D
        BY <1>1, <4>1
      <4>3. hi <= mid + k /\ mid - 1 <= lo + k
        BY <1>1, <2>5, <4>1
      <4>4. Good(mid, hi) /\ Good(lo, mid - 1)
        BY <4>2, <4>3
      <4>5. IF Time(mid) <= t THEN f[<<lo, hi>>] = f[<<mid, hi>>] ELSE f[<<lo, hi>>] = f[<<lo, mid - 1>>]
        BY <2>3, <3>2 DEF mid
      <4> QED BY <4>4, <4>5
    <3> QED BY <1>1, <3>1, <3>2
  <2>6. T = Nat
    <3>1. T \in SUBSET Nat
      OBVIOUS
    <3>2. \A k \in T : k + 1 \in T
      <4> TAKE k \in T
      <4>1. \A lo, hi \in D : hi <= lo + (k + 1) => Good(lo, hi)
        BY <2>5
      <4> HIDE DEF Good
      <4> QED BY <4>1
    <3> HIDE DEF T
    <3> QED BY <2>4, <3>1, <3>2, ByCounting
  <2>7. Good(1, n)
    <3>1. n \in T /\ 1 \in D /\ n \in D
      BY <1>1, <2>6
    <3> HIDE DEF Good
    <3> QED BY <1>1, <3>1
  <2> QED BY <2>2, <2>7
<1> QED BY <1>2, <1>3

(* The chain as the proofs use it.                                          *)
LEMMA ChainIs ==
    ASSUME ChainOK
    PROVE  /\ Len(chain) \in Nat \ {0} /\ DOMAIN chain = 1..Len(chain)
           /\ \A b \in DOMAIN chain : /\ chain[b] \in Block
                                      /\ Time(b) \in Nat /\ Log(b) \in Change \cup {NoChange}
                                      /\ Time(b) <= Clock
           /\ Clock = Time(Len(chain)) /\ Clock \in Nat
<1>1. Len(chain) \in Nat \ {0} /\ DOMAIN chain = 1..Len(chain) /\ \A b \in DOMAIN chain : chain[b] \in Block
  BY DEF ChainOK
<1>2. \A b \in DOMAIN chain : Time(b) \in Nat /\ Log(b) \in Change \cup {NoChange}
  BY <1>1 DEF Block, Time, Log
<1>3. Clock = Time(Len(chain))
  BY <1>1 DEF Clock, Last, Time
<1>4. \A b \in DOMAIN chain : Time(b) <= Time(Len(chain))
  BY <1>1 DEF ChainOK
<1>5. Len(chain) \in DOMAIN chain
  BY <1>1
<1> QED BY <1>1, <1>2, <1>3, <1>4, <1>5

(* The announcement of a block.                                             *)
LEMMA LogIs ==
    ASSUME ChainOK, NEW b \in DOMAIN chain, Log(b) # NoChange
    PROVE  /\ Log(b) \in Change /\ Log(b).blockNumber = b /\ Log(b).scheduledAt = Time(b)
           /\ Log(b).effectiveAt \in Nat /\ Log(b).effectiveAt >= Time(b)
           /\ Log(b).effectiveAt <= Time(b) + MaxNotice
<1>1. Log(b) \in Change
  BY ChainIs
<1>2. Log(b).effectiveAt \in Nat
  BY <1>1 DEF Change
<1> QED BY <1>1, <1>2 DEF ChainOK

(* The announcement of a block was not replaced before it took effect.      *)
Alive(b) == /\ Log(b) # NoChange
            /\ \A d \in DOMAIN chain : d > b /\ Log(d) # NoChange =>
                                          Log(b).effectiveAt <= Log(d).scheduledAt

(* The changes in force, told from the chain.                               *)
Effective == {Log(b) : b \in {a \in DOMAIN chain : Alive(a) /\ Log(a).effectiveAt <= Clock}}

(* The token: what took effect, and what is announced and not replaced.     *)
TokenOK ==
    /\ inForce \in Seq(Change)
    /\ \A c \in ToSet(inForce) : \E b \in DOMAIN chain : /\ Alive(b) /\ c = Log(b)
                                                         /\ c.effectiveAt <= Clock
    /\ \/ announced = NoChange
       \/ \E b \in DOMAIN chain : /\ Alive(b) /\ announced = Log(b)
                                  /\ \A d \in DOMAIN chain : d > b => Log(d) = NoChange
    /\ \A b \in DOMAIN chain : Alive(b) => Log(b) \in ToSet(inForce) \/ Log(b) = announced

(* The elements of a sequence with one more.                                *)
LEMMA AppendSet ==
    ASSUME NEW S, NEW q \in Seq(S), NEW x \in S
    PROVE  ToSet(Append(q, x)) = ToSet(q) \cup {x} /\ Append(q, x) \in Seq(S) /\ Append(q, x) # q
<1>1. Len(q) \in Nat /\ DOMAIN q = 1..Len(q) /\ DOMAIN Append(q, x) = 1..(Len(q) + 1)
  OBVIOUS
<1>2. \A i \in 1..Len(q) : Append(q, x)[i] = q[i]
  OBVIOUS
<1>3. Append(q, x)[Len(q) + 1] = x
  OBVIOUS
<1>4. 1..(Len(q) + 1) = (1..Len(q)) \cup {Len(q) + 1}
  BY <1>1
<1>5. Append(q, x) # q
  <2>1. Len(q) + 1 \in DOMAIN Append(q, x) /\ Len(q) + 1 \notin DOMAIN q
    BY <1>1
  <2> QED BY <2>1
<1> DEFINE r == Append(q, x)
           n == Len(q)
<1>6. ToSet(r) = ToSet(q) \cup {x}
  <2>1. DOMAIN r = DOMAIN q \cup {n + 1} /\ r[n + 1] = x /\ \A i \in DOMAIN q : r[i] = q[i]
    BY <1>1, <1>2, <1>3, <1>4
  <2> HIDE DEF r, n
  <2> QED BY <2>1 DEF ToSet
<1> QED BY <1>5, <1>6

(* What the token has in force is what the chain tells.                     *)
LEMMA InForceIs ==
    ASSUME ChainOK, TokenOK
    PROVE  ToSet(InForceAt(Clock)) = Effective
<1>1. CASE announced # NoChange /\ announced.effectiveAt <= Clock
  <2>1. PICK b \in DOMAIN chain : Alive(b) /\ announced = Log(b)
    BY <1>1 DEF TokenOK
  <2>2. announced \in Change
    BY <1>1, <2>1, ChainIs
  <2>3. ToSet(InForceAt(Clock)) = ToSet(inForce) \cup {announced}
    BY <1>1, <2>2, AppendSet DEF InForceAt, TokenOK
  <2> QED BY <1>1, <2>1, <2>3 DEF TokenOK, Effective
<1>2. CASE ~(announced # NoChange /\ announced.effectiveAt <= Clock)
  <2>1. ToSet(InForceAt(Clock)) = ToSet(inForce)
    BY <1>2 DEF InForceAt
  <2>2. \A b \in DOMAIN chain : Alive(b) => Log(b) # NoChange
    BY DEF Alive
  <2> QED BY <1>2, <2>1, <2>2 DEF TokenOK, Effective
<1> QED BY <1>1, <1>2

-----------------------------------------------------------------------------
(* A block more.                                                            *)
Extends(t, log) ==
    /\ t \in Nat /\ Clock <= t
    /\ log \in Change \cup {NoChange}
    /\ log # NoChange => /\ log.blockNumber = Len(chain) + 1 /\ log.scheduledAt = t
                         /\ log.effectiveAt >= t /\ log.effectiveAt <= t + MaxNotice
    /\ chain' = Append(chain, [timestamp |-> t, log |-> log])

(* What a block adds, with an announcement or without.                      *)
LEMMA MineExtends ==
    ASSUME ChainOK, TokenOK, Mine
    PROVE  /\ \E t, log : /\ Extends(t, log)
                          /\ inForce' = InForceAt(t)
                          /\ announced' = IF log # NoChange THEN log
                                          ELSE IF inForce' = inForce THEN announced ELSE NoChange
           /\ logCache' = logCache /\ decided' = decided
<1>1. Clock \in Nat /\ Len(chain) \in Nat
  BY ChainIs
<1>2. PICK t \in Clock..(Clock + MaxSteps) :
        /\ inForce' = InForceAt(t)
        /\ \/ /\ chain' = Append(chain, [timestamp |-> t, log |-> NoChange])
              /\ announced' = IF inForce' = inForce THEN announced ELSE NoChange
           \/ \E x \in Multipliers, notice \in 0..MaxNotice :
                 /\ chain' = Append(chain, [timestamp |-> t, log |->
                               [oldMultiplier |-> MultiplierIn(inForce'), newMultiplier |-> x,
                                effectiveAt |-> t + notice, scheduledAt |-> t,
                                blockNumber |-> Len(chain) + 1]])
                 /\ announced' = [oldMultiplier |-> MultiplierIn(inForce'), newMultiplier |-> x,
                                effectiveAt |-> t + notice, scheduledAt |-> t,
                                blockNumber |-> Len(chain) + 1]
        /\ UNCHANGED <<logCache, decided>>
  BY DEF Mine
<1>3. t \in Nat /\ Clock <= t
  BY <1>1, <1>2, CorporateActionAssumption
<1>4. CASE /\ chain' = Append(chain, [timestamp |-> t, log |-> NoChange])
           /\ announced' = IF inForce' = inForce THEN announced ELSE NoChange
  <2>1. Extends(t, NoChange)
    BY <1>3, <1>4 DEF Extends
  <2> QED BY <1>2, <1>4, <2>1
<1>5. ASSUME NEW x \in Multipliers, NEW notice \in 0..MaxNotice,
             chain' = Append(chain, [timestamp |-> t, log |->
                               [oldMultiplier |-> MultiplierIn(inForce'), newMultiplier |-> x,
                                effectiveAt |-> t + notice, scheduledAt |-> t,
                                blockNumber |-> Len(chain) + 1]]),
             announced' = [oldMultiplier |-> MultiplierIn(inForce'), newMultiplier |-> x,
                                effectiveAt |-> t + notice, scheduledAt |-> t,
                                blockNumber |-> Len(chain) + 1]
      PROVE  /\ Extends(t, announced') /\ announced' # NoChange
  <2>1. inForce' \in Seq(Change)
    <3>1. CASE announced # NoChange /\ announced.effectiveAt <= t
      <4>1. announced \in Change
        BY <3>1, ChainIs DEF TokenOK
      <4> QED BY <1>2, <3>1, <4>1, AppendSet DEF InForceAt, TokenOK
    <3>2. CASE ~(announced # NoChange /\ announced.effectiveAt <= t)
      BY <1>2, <3>2 DEF InForceAt, TokenOK
    <3> QED BY <3>1, <3>2
  <2>2. MultiplierIn(inForce') \in Nat
    <3> DEFINE past == inForce'
    <3> SUFFICES MultiplierIn(past) \in Nat
      OBVIOUS
    <3>1. past \in Seq(Change)
      BY <2>1
    <3> HIDE DEF past
    <3>2. CASE past = <<>>
      <4>1. Multipliers \in SUBSET Nat /\ Multipliers # {}
        BY CorporateActionAssumption
      <4>2. FirstMultiplier \in Nat
        BY <4>1, SmallestNumber DEF FirstMultiplier
      <4> QED BY <3>2, <4>2 DEF MultiplierIn
    <3>3. CASE past # <<>>
      <4>1. Last(past) \in Change
        BY <3>1, <3>3 DEF Last
      <4>2. Last(past).newMultiplier \in Nat
        BY <4>1 DEF Change
      <4> QED BY <3>3, <4>2 DEF MultiplierIn
    <3> QED BY <3>2, <3>3
  <2>3. x \in Nat /\ notice \in Nat /\ notice <= MaxNotice /\ t + notice \in Nat /\ MaxNotice \in Nat
    BY <1>3, <1>5, CorporateActionAssumption
  <2> DEFINE old == MultiplierIn(inForce')
             change == [oldMultiplier |-> old, newMultiplier |-> x, effectiveAt |-> t + notice,
                        scheduledAt |-> t, blockNumber |-> Len(chain) + 1]
  <2> HIDE DEF old
  <2>4. change \in Change
    BY <1>1, <1>3, <2>2, <2>3 DEF Change, old
  <2>5. change # NoChange
    BY <2>3 DEF NoChange
  <2>6. /\ change.blockNumber = Len(chain) + 1 /\ change.scheduledAt = t
        /\ change.effectiveAt >= t /\ change.effectiveAt <= t + MaxNotice
    BY <1>3, <2>3
  <2>7. announced' = change /\ chain' = Append(chain, [timestamp |-> t, log |-> change])
    BY <1>5 DEF old
  <2> HIDE DEF change
  <2> QED BY <1>3, <2>4, <2>5, <2>6, <2>7 DEF Extends
<1> QED BY <1>2, <1>4, <1>5

(* The chain with that block is a chain as before.                          *)
LEMMA ExtendsIs ==
    ASSUME ChainOK, NEW t, NEW log, Extends(t, log), NEW m, m = Len(chain) + 1
    PROVE  /\ ChainOK'
           /\ Len(chain') = m /\ DOMAIN chain' = (DOMAIN chain) \cup {m}
           /\ \A b \in DOMAIN chain : b < m /\ Log(b)' = Log(b) /\ Time(b)' = Time(b)
           /\ Log(m)' = log /\ Time(m)' = t
           /\ Clock' = t
<1> DEFINE n == Len(chain)
           new == [timestamp |-> t, log |-> log]
<1>0. /\ n \in Nat \ {0} /\ DOMAIN chain = 1..n /\ chain \in Seq(Block)
      /\ Clock = Time(n) /\ \A b \in DOMAIN chain : Time(b) \in Nat /\ Time(b) <= Clock
  BY ChainIs DEF ChainOK
<1>1. new \in Block /\ chain' = Append(chain, new)
  BY DEF Extends, Block
<1>2. new.timestamp = t /\ new.log = log
  OBVIOUS
<1> HIDE DEF new
<1>3. /\ chain' \in Seq(Block) /\ chain' # <<>>
      /\ Len(chain') = n + 1 /\ DOMAIN chain' = 1..(n + 1)
      /\ \A b \in 1..n : chain'[b] = chain[b]
      /\ chain'[n + 1] = new
      /\ m = n + 1
  BY <1>0, <1>1
<1> HIDE DEF n
<1>4. /\ \A b \in DOMAIN chain : Log(b)' = Log(b) /\ Time(b)' = Time(b)
      /\ Log(m)' = log /\ Time(m)' = t
  BY <1>0, <1>2, <1>3 DEF Log, Time
<1>5. DOMAIN chain' = (DOMAIN chain) \cup {m}
  BY <1>0, <1>3
<1>6. \A a, b \in DOMAIN chain' : a <= b => Time(a)' <= Time(b)'
  <2> SUFFICES ASSUME NEW a \in DOMAIN chain', NEW b \in DOMAIN chain', a <= b
               PROVE  Time(a)' <= Time(b)'
    OBVIOUS
  <2>1. CASE b \in DOMAIN chain
    <3>1. a \in DOMAIN chain
      BY <1>0, <1>3, <2>1
    <3>2. Time(a) <= Time(b)
      BY <2>1, <3>1 DEF ChainOK
    <3> QED BY <1>4, <2>1, <3>1, <3>2
  <2>2. CASE b = m
    <3>1. CASE a = m
      BY <1>4, <2>2, <3>1 DEF Extends
    <3>2. CASE a \in DOMAIN chain
      <4>1. Time(a) \in Nat /\ Time(a) <= Clock /\ Clock <= t /\ Clock \in Nat /\ t \in Nat
        BY <1>0, <3>2, ChainIs DEF Extends
      <4>2. Time(a)' = Time(a) /\ Time(b)' = t
        BY <1>4, <2>2, <3>2
      <4> QED BY <4>1, <4>2
    <3> QED BY <1>5, <3>1, <3>2
  <2> QED BY <1>5, <2>1, <2>2
<1>7. \A b \in DOMAIN chain' : Log(b)' # NoChange =>
          /\ Log(b)'.blockNumber = b /\ Log(b)'.scheduledAt = Time(b)'
          /\ Log(b)'.effectiveAt >= Time(b)' /\ Log(b)'.effectiveAt <= Time(b)' + MaxNotice
  BY <1>3, <1>4, <1>5 DEF ChainOK, Extends, n
<1>8. Clock' = t
  BY <1>0, <1>2, <1>3 DEF Clock, Last
<1>9. ChainOK'
  BY <1>3, <1>6, <1>7 DEF ChainOK
<1> QED BY <1>0, <1>3, <1>4, <1>5, <1>8, <1>9 DEF n

(* Which announcements a block more leaves.                                 *)
LEMMA AliveAfter ==
    ASSUME ChainOK, NEW t, NEW log, Extends(t, log), NEW m, m = Len(chain) + 1
    PROVE  /\ \A b \in DOMAIN chain :
                 Alive(b)' <=> Alive(b) /\ (log # NoChange => Log(b).effectiveAt <= t)
           /\ Alive(m)' <=> log # NoChange
<1>1. /\ DOMAIN chain' = (DOMAIN chain) \cup {m}
      /\ \A b \in DOMAIN chain : b < m /\ Log(b)' = Log(b) /\ Time(b)' = Time(b)
      /\ Log(m)' = log /\ Time(m)' = t
  BY ExtendsIs
<1>2. m \in Nat /\ DOMAIN chain \in SUBSET Nat
  BY ChainIs
<1>3. log # NoChange => log.scheduledAt = t
  BY DEF Extends
<1>4. ASSUME NEW b \in DOMAIN chain
      PROVE  Alive(b)' <=> Alive(b) /\ (log # NoChange => Log(b).effectiveAt <= t)
  <2>1. Alive(b)' <=> /\ Log(b) # NoChange
                      /\ \A d \in DOMAIN chain' : d > b /\ Log(d)' # NoChange =>
                                          Log(b).effectiveAt <= Log(d)'.scheduledAt
    BY <1>1 DEF Alive
  <2>2. Alive(b) <=> /\ Log(b) # NoChange
                     /\ \A d \in DOMAIN chain : d > b /\ Log(d) # NoChange =>
                                          Log(b).effectiveAt <= Log(d).scheduledAt
    BY DEF Alive
  <2>3. \A d \in DOMAIN chain' : d \in DOMAIN chain \/ d = m
    BY <1>1
  <2>4. m > b
    BY <1>1, <1>2
  <2> QED BY <1>1, <1>3, <2>1, <2>2, <2>3, <2>4
<1>5. Alive(m)' <=> log # NoChange
  <2>1. \A d \in DOMAIN chain' : ~(d > m)
    BY <1>1, <1>2
  <2>2. Alive(m)' <=> /\ Log(m)' # NoChange
                      /\ \A d \in DOMAIN chain' : d > m /\ Log(d)' # NoChange =>
                                          Log(m)'.effectiveAt <= Log(d)'.scheduledAt
    BY DEF Alive
  <2> QED BY <1>1, <2>1, <2>2
<1> QED BY <1>4, <1>5

(* The token and its logs agree after every block.                          *)
LEMMA TokenKept ==
    ASSUME ChainOK, TokenOK, Mine
    PROVE  TokenOK'
<1>1. PICK t, log : /\ Extends(t, log)
                    /\ inForce' = InForceAt(t)
                    /\ announced' = IF log # NoChange THEN log
                                    ELSE IF inForce' = inForce THEN announced ELSE NoChange
  BY MineExtends
<1>0. PICK m : m = Len(chain) + 1
  OBVIOUS
<1>2. /\ DOMAIN chain' = (DOMAIN chain) \cup {m}
      /\ \A b \in DOMAIN chain : b < m /\ Log(b)' = Log(b)
      /\ Log(m)' = log /\ Clock' = t
  BY <1>0, <1>1, ExtendsIs
<1>3. /\ \A b \in DOMAIN chain :
            Alive(b)' <=> Alive(b) /\ (log # NoChange => Log(b).effectiveAt <= t)
      /\ Alive(m)' <=> log # NoChange
  BY <1>0, <1>1, AliveAfter
<1>4. /\ t \in Nat /\ Clock \in Nat /\ Clock <= t /\ m \in Nat /\ DOMAIN chain \in SUBSET Nat
      /\ log # NoChange => log \in Change
  BY <1>0, <1>1, ChainIs DEF Extends
<1> DEFINE TakesEffect == announced # NoChange /\ announced.effectiveAt <= t
<1>5. TakesEffect => announced \in Change
  BY ChainIs DEF TokenOK
<1>6. /\ inForce' \in Seq(Change)
      /\ TakesEffect => ToSet(inForce') = ToSet(inForce) \cup {announced} /\ inForce' # inForce
      /\ ~TakesEffect => inForce' = inForce
  <2>1. CASE TakesEffect
    BY <1>1, <1>5, <2>1, AppendSet DEF InForceAt, TokenOK
  <2>2. CASE ~TakesEffect
    BY <1>1, <2>2 DEF InForceAt, TokenOK
  <2> QED BY <2>1, <2>2
<1>7. ASSUME NEW c \in ToSet(inForce') PROVE \E b \in DOMAIN chain' : /\ Alive(b)' /\ c = Log(b)'
                                                                      /\ c.effectiveAt <= Clock'
  <2>1. \E b \in DOMAIN chain : Alive(b) /\ c = Log(b) /\ c.effectiveAt <= t
    <3>1. CASE c \in ToSet(inForce)
      <4>1. PICK b \in DOMAIN chain : Alive(b) /\ c = Log(b) /\ c.effectiveAt <= Clock
        BY <3>1 DEF TokenOK
      <4>2. c.effectiveAt \in Nat
        BY <4>1, LogIs DEF Alive
      <4> QED BY <1>4, <4>1, <4>2
    <3>2. CASE TakesEffect /\ c = announced
      BY <3>2 DEF TokenOK
    <3> QED BY <1>6, <1>7, <3>1, <3>2
  <2>2. PICK b \in DOMAIN chain : Alive(b) /\ c = Log(b) /\ c.effectiveAt <= t
    BY <2>1
  <2> QED BY <1>2, <1>3, <2>2
<1>8. \/ announced' = NoChange
      \/ \E b \in DOMAIN chain' : /\ Alive(b)' /\ announced' = Log(b)'
                                  /\ \A d \in DOMAIN chain' : d > b => Log(d)' = NoChange
  <2>1. CASE log # NoChange
    <3>1. \A d \in DOMAIN chain' : ~(d > m)
      BY <1>2, <1>4
    <3>2. m \in DOMAIN chain' /\ Alive(m)' /\ announced' = Log(m)'
      BY <1>1, <1>2, <1>3, <2>1
    <3> QED BY <3>1, <3>2
  <2>2. CASE log = NoChange /\ announced' = announced /\ announced # NoChange
    <3>1. PICK b \in DOMAIN chain : /\ Alive(b) /\ announced = Log(b)
                                    /\ \A d \in DOMAIN chain : d > b => Log(d) = NoChange
      BY <2>2 DEF TokenOK
    <3>2. b \in DOMAIN chain' /\ Alive(b)' /\ announced' = Log(b)'
      BY <1>2, <1>3, <2>2, <3>1
    <3>3. \A d \in DOMAIN chain' : d > b => Log(d)' = NoChange
      BY <1>2, <2>2, <3>1
    <3> QED BY <3>2, <3>3
  <2> QED BY <1>1, <2>1, <2>2
<1>9. ASSUME NEW b \in DOMAIN chain', Alive(b)' PROVE Log(b)' \in ToSet(inForce') \/ Log(b)' = announced'
  <2>1. CASE b = m
    BY <1>1, <1>2, <1>3, <1>9, <2>1
  <2>2. CASE b \in DOMAIN chain
    <3>1. Alive(b) /\ Log(b)' = Log(b) /\ (log # NoChange => Log(b).effectiveAt <= t)
      BY <1>2, <1>3, <1>9, <2>2
    <3>2. Log(b) \in ToSet(inForce) \/ Log(b) = announced
      BY <2>2, <3>1 DEF TokenOK
    <3>3. CASE Log(b) \in ToSet(inForce)
      BY <1>6, <3>1, <3>3
    <3>4. CASE Log(b) = announced
      <4>1. announced # NoChange
        BY <3>1, <3>4 DEF Alive
      <4>2. TakesEffect => Log(b)' \in ToSet(inForce')
        BY <1>6, <3>1, <3>4
      <4>3. ~TakesEffect => log = NoChange /\ announced' = announced
        BY <1>1, <1>6, <3>1, <3>4, <4>1
      <4> QED BY <3>1, <3>4, <4>2, <4>3
    <3> QED BY <3>2, <3>3, <3>4
  <2> QED BY <1>2, <2>1, <2>2
<1> QED BY <1>6, <1>7, <1>8, <1>9 DEF TokenOK

(* What a block more adds to the changes in force is not older than the     *)
(* block before it, and takes nothing away.                                 *)
LEMMA EffectiveGrows ==
    ASSUME ChainOK, TokenOK, Mine
    PROVE  /\ Effective \subseteq Effective'
           /\ \A c \in Effective' \ Effective : c.effectiveAt >= Clock
<1>1. PICK t, log : Extends(t, log)
  BY MineExtends
<1>0. PICK m : m = Len(chain) + 1
  OBVIOUS
<1>2. /\ DOMAIN chain' = (DOMAIN chain) \cup {m}
      /\ \A b \in DOMAIN chain : b < m /\ Log(b)' = Log(b)
      /\ Log(m)' = log /\ Clock' = t
  BY <1>0, <1>1, ExtendsIs
<1>3. /\ \A b \in DOMAIN chain :
            Alive(b)' <=> Alive(b) /\ (log # NoChange => Log(b).effectiveAt <= t)
      /\ Alive(m)' <=> log # NoChange
  BY <1>0, <1>1, AliveAfter
<1>4. /\ t \in Nat /\ Clock \in Nat /\ Clock <= t
      /\ log # NoChange => log \in Change /\ log.effectiveAt >= t /\ log.effectiveAt \in Nat
  BY <1>1, ChainIs DEF Extends, Change
<1>5. ASSUME NEW c \in Effective PROVE c \in Effective'
  <2>1. PICK b \in DOMAIN chain : Alive(b) /\ c = Log(b) /\ Log(b).effectiveAt <= Clock
    BY <1>5 DEF Effective
  <2>2. Log(b).effectiveAt \in Nat
    BY <2>1, LogIs DEF Alive
  <2>3. Log(b).effectiveAt <= t
    BY <1>4, <2>1, <2>2
  <2>4. b \in DOMAIN chain' /\ Alive(b)' /\ c = Log(b)' /\ Log(b)'.effectiveAt <= Clock'
    BY <1>2, <1>3, <2>1, <2>3
  <2> QED BY <2>4 DEF Effective
<1>6. ASSUME NEW c \in Effective', c \notin Effective PROVE c.effectiveAt >= Clock
  <2>1. PICK b \in DOMAIN chain' : Alive(b)' /\ c = Log(b)' /\ Log(b)'.effectiveAt <= Clock'
    BY <1>6 DEF Effective
  <2>2. CASE b = m
    BY <1>2, <1>3, <1>4, <2>1, <2>2
  <2>3. CASE b \in DOMAIN chain
    <3>1. Alive(b) /\ c = Log(b)
      BY <1>2, <1>3, <2>1, <2>3
    <3>2. Log(b).effectiveAt \in Nat
      BY <2>3, <3>1, LogIs DEF Alive
    <3>3. ~(Log(b).effectiveAt <= Clock)
      BY <1>6, <2>3, <3>1 DEF Effective
    <3> QED BY <1>4, <3>1, <3>2, <3>3
  <2> QED BY <1>2, <2>1, <2>2, <2>3
<1> QED BY <1>5, <1>6

(* The cache has the logs of its blocks; those of later ones may be there   *)
(* too, after a node that lags set it back.                                 *)
CacheOK == logCache # NoCache =>
    /\ logCache \in [fromBlock : Nat \ {0}, toBlock : Nat \ {0}, changes : Seq(Change)]
    /\ logCache.toBlock <= Len(chain)
    /\ Holds(logCache.changes, logCache.fromBlock, logCache.toBlock)

(* A list of logs is what it was when blocks come after.                    *)
LEMMA HoldsStill ==
    ASSUME ChainOK, NEW t, NEW log, Extends(t, log),
           NEW list, NEW first \in Nat \ {0}, NEW last \in Nat, last <= Len(chain),
           Holds(list, first, last)
    PROVE  Holds(list, first, last)'
<1>0. PICK m : m = Len(chain) + 1
  OBVIOUS
<1>1. /\ DOMAIN chain' = (DOMAIN chain) \cup {m}
      /\ \A b \in DOMAIN chain : Log(b)' = Log(b)
  BY <1>0, ExtendsIs
<1>2. \A b \in first..last : b \in DOMAIN chain
  BY ChainIs
<1> QED BY <1>1, <1>2 DEF Holds

(* The cached logs stay right while the chain grows.                        *)
LEMMA CacheKept ==
    ASSUME ChainOK, TokenOK, CacheOK, Mine
    PROVE  CacheOK'
<1>1. PICK t, log : Extends(t, log)
  BY MineExtends
<1>2. logCache' = logCache
  BY MineExtends
<1>3. ASSUME logCache # NoCache
      PROVE  /\ logCache \in [fromBlock : Nat \ {0}, toBlock : Nat \ {0}, changes : Seq(Change)]
             /\ logCache.toBlock <= Len(chain')
             /\ Holds(logCache.changes, logCache.fromBlock, logCache.toBlock)'
  <2> DEFINE list == logCache.changes
             first == logCache.fromBlock
             last == logCache.toBlock
  <2>1. /\ first \in Nat \ {0} /\ last \in Nat /\ last <= Len(chain)
        /\ Holds(list, first, last)
    BY <1>3 DEF CacheOK
  <2>2. PICK l, f, u : l = list /\ f = first /\ u = last
    OBVIOUS
  <2>3. Holds(l, f, u)'
    BY <1>1, <2>1, <2>2, HoldsStill
  <2>4. Len(chain') = Len(chain) + 1 /\ Len(chain) \in Nat
    BY <1>1, ExtendsIs, ChainIs
  <2>5. last <= Len(chain')
    <3> HIDE DEF last
    <3> QED BY <2>1, <2>4
  <2>6. Holds(list, first, last)'
    BY <1>2, <2>2, <2>3
  <2> QED BY <1>3, <2>5, <2>6 DEF CacheOK
<1> QED BY <1>2, <1>3 DEF CacheOK

(* A list that is extended by the logs of the blocks after it.              *)
LEMMA HoldsExtended ==
    ASSUME ChainOK, NEW list, NEW scan, NEW first \in Nat \ {0}, NEW last \in Nat \ {0},
           NEW latest \in Nat,
           Holds(list, first, last), Holds(scan, last + 1, latest),
           \A i \in DOMAIN scan : scan[i].blockNumber >= last + 1
    PROVE  Holds(list \o scan, first, latest)
<1> DEFINE r == list \o scan
           n == Len(list)
           k == Len(scan)
<1>1. /\ list \in Seq(Change) /\ scan \in Seq(Change) /\ n \in Nat /\ k \in Nat
      /\ DOMAIN list = 1..n /\ DOMAIN scan = 1..k
  BY DEF Holds
<1>2. /\ r \in Seq(Change) /\ DOMAIN r = 1..(n + k)
      /\ \A i \in 1..n : r[i] = list[i]
      /\ \A i \in 1..k : r[n + i] = scan[i]
  <2>1. r \in Seq(Change) /\ Len(r) = n + k
    BY <1>1
  <2>2. \A i \in 1..(n + k) : r[i] = IF i <= n THEN list[i] ELSE scan[i - n]
    BY <1>1
  <2>3. DOMAIN r = 1..(n + k)
    BY <2>1
  <2> HIDE DEF r, n, k
  <2>4. \A i \in 1..n : r[i] = list[i]
    BY <1>1, <2>2
  <2>5. \A i \in 1..k : r[n + i] = scan[i]
    <3> TAKE i \in 1..k
    <3>1. n + i \in 1..(n + k) /\ ~(n + i <= n) /\ (n + i) - n = i
      BY <1>1
    <3> QED BY <2>2, <3>1
  <2> QED BY <2>1, <2>3, <2>4, <2>5
<1> HIDE DEF r, n, k
<1>3. \A i \in DOMAIN r : i \in 1..n \/ \E j \in 1..k : i = n + j
  <2> TAKE i \in DOMAIN r
  <2>1. i \in 1..n \/ (i - n \in 1..k /\ i = n + (i - n))
    BY <1>1, <1>2
  <2> QED BY <2>1
<1>4. \A i \in DOMAIN r : \E b \in DOMAIN chain : Log(b) # NoChange /\ r[i] = Log(b)
  <2> TAKE i \in DOMAIN r
  <2>1. CASE i \in 1..n
    BY <1>1, <1>2, <2>1 DEF Holds
  <2>2. ASSUME NEW j \in 1..k, i = n + j PROVE \E b \in DOMAIN chain : Log(b) # NoChange /\ r[i] = Log(b)
    BY <1>1, <1>2, <2>2 DEF Holds
  <2> QED BY <1>3, <2>1, <2>2
<1>5. ASSUME NEW b \in first..latest, Log(b) # NoChange
      PROVE  \E i \in DOMAIN r : /\ r[i] = Log(b)
                                 /\ \A j \in DOMAIN r : j > i => r[j].blockNumber > b
  <2>1. CASE b \in first..last
    <3>1. PICK i \in DOMAIN list : /\ list[i] = Log(b)
                                   /\ \A j \in DOMAIN list : j > i => list[j].blockNumber > b
      BY <1>5, <2>1 DEF Holds
    <3>2. i \in DOMAIN r /\ r[i] = Log(b)
      BY <1>1, <1>2, <3>1
    <3>3. ASSUME NEW j \in DOMAIN r, j > i PROVE r[j].blockNumber > b
      <4>1. CASE j \in 1..n
        BY <1>1, <1>2, <3>1, <3>3, <4>1
      <4>2. ASSUME NEW x \in 1..k, j = n + x PROVE r[j].blockNumber > b
        <5>1. r[j] = scan[x] /\ scan[x] \in Change
          BY <1>1, <1>2, <4>2
        <5>2. scan[x].blockNumber >= last + 1 /\ scan[x].blockNumber \in Nat
          BY <1>1, <5>1 DEF Change
        <5>3. b <= last /\ b \in Int
          BY <2>1
        <5> QED BY <5>1, <5>2, <5>3
      <4> QED BY <1>3, <4>1, <4>2
    <3> QED BY <3>2, <3>3
  <2>2. CASE b \in (last + 1)..latest
    <3>1. PICK i \in DOMAIN scan : /\ scan[i] = Log(b)
                                   /\ \A j \in DOMAIN scan : j > i => scan[j].blockNumber > b
      BY <1>5, <2>2 DEF Holds
    <3>2. n + i \in DOMAIN r /\ r[n + i] = Log(b)
      <4>1. i \in 1..k
        BY <1>1, <3>1
      <4>2. n + i \in 1..(n + k)
        BY <1>1, <4>1
      <4> QED BY <1>2, <3>1, <4>1, <4>2
    <3>3. ASSUME NEW j \in DOMAIN r, j > n + i PROVE r[j].blockNumber > b
      <4>1. CASE j \in 1..n
        BY <1>1, <3>1, <3>3, <4>1
      <4>2. ASSUME NEW x \in 1..k, j = n + x PROVE r[j].blockNumber > b
        <5>1. x > i
          BY <1>1, <3>1, <3>3, <4>2
        <5> QED BY <1>1, <1>2, <3>1, <4>2, <5>1
      <4> QED BY <1>3, <4>1, <4>2
    <3> QED BY <3>2, <3>3
  <2> QED BY <2>1, <2>2
<1>6. Holds(r, first, latest)
  BY <1>2, <1>4, <1>5 DEF Holds
<1> QED BY <1>6 DEF r

(* What fetchChanges returns, wherever its cache came from.                 *)
LEMMA FetchedIs ==
    ASSUME ChainOK, CacheOK, NEW from \in DOMAIN chain, NEW latest \in DOMAIN chain
    PROVE  /\ Fetched(from, latest) \in
                 [fromBlock : Nat \ {0}, toBlock : Nat \ {0}, changes : Seq(Change)]
           /\ Fetched(from, latest).toBlock = latest
           /\ Fetched(from, latest).fromBlock <= from
           /\ Holds(Fetched(from, latest).changes, Fetched(from, latest).fromBlock, latest)
<1>1. /\ from \in Nat \ {0} /\ latest \in Nat \ {0} /\ latest <= Len(chain) /\ latest \in 0..Len(chain)
      /\ Len(chain) \in Nat
  BY ChainIs
<1>2. CASE Reaches(from)
  <2> DEFINE list  == logCache.changes
             first == logCache.fromBlock
             last  == logCache.toBlock
             scan  == Scan(last + 1, latest)
  <2>1. /\ logCache \in [fromBlock : Nat \ {0}, toBlock : Nat \ {0}, changes : Seq(Change)]
        /\ Holds(list, first, last) /\ first <= from
    BY <1>2 DEF CacheOK, Reaches
  <2>2. first \in Nat \ {0} /\ last \in Nat \ {0} /\ list \in Seq(Change)
    BY <2>1
  <2>3. /\ Holds(scan, last + 1, latest)
        /\ \A i \in DOMAIN scan : scan[i].blockNumber >= last + 1
    <3>1. last + 1 \in Nat \ {0}
      <4> HIDE DEF last
      <4> QED BY <2>2
    <3> HIDE DEF last
    <3> QED BY <1>1, <3>1, ScanHolds
  <2> HIDE DEF scan
  <2>4. Holds(list \o scan, first, latest)
    <3> HIDE DEF list, first, last
    <3> QED BY <1>1, <2>1, <2>2, <2>3, HoldsExtended
  <2>5. Fetched(from, latest) = [logCache EXCEPT !.changes = list \o scan, !.toBlock = latest]
    BY <1>2 DEF Fetched, scan
  <2>6. list \o scan \in Seq(Change)
    BY <2>4 DEF Holds
  <2> DEFINE both == list \o scan
  <2>7. both \in Seq(Change) /\ Holds(both, first, latest)
    BY <2>4, <2>6
  <2>8. Fetched(from, latest) = [logCache EXCEPT !.changes = both, !.toBlock = latest]
    BY <2>5
  <2> HIDE DEF both
  <2>9. /\ Fetched(from, latest) \in
                 [fromBlock : Nat \ {0}, toBlock : Nat \ {0}, changes : Seq(Change)]
        /\ Fetched(from, latest).toBlock = latest
        /\ Fetched(from, latest).fromBlock = first
        /\ Fetched(from, latest).changes = both
    BY <1>1, <2>1, <2>7, <2>8
  <2> QED BY <2>1, <2>7, <2>9
<1>3. CASE ~Reaches(from)
  <2> DEFINE scan == Scan(from, latest)
  <2>1. Holds(scan, from, latest)
    BY <1>1, ScanHolds
  <2>2. Fetched(from, latest) = [fromBlock |-> from, toBlock |-> latest, changes |-> scan]
    BY <1>3 DEF Fetched
  <2> HIDE DEF scan
  <2>3. scan \in Seq(Change)
    BY <2>1 DEF Holds
  <2>4. /\ Fetched(from, latest) \in
                 [fromBlock : Nat \ {0}, toBlock : Nat \ {0}, changes : Seq(Change)]
        /\ Fetched(from, latest).toBlock = latest
        /\ Fetched(from, latest).fromBlock = from
        /\ Fetched(from, latest).changes = scan
    BY <1>1, <2>2, <2>3
  <2> QED BY <1>1, <2>1, <2>4
<1> QED BY <1>2, <1>3

(* The least of a set of numbers.                                           *)
LEMMA SmallestIs ==
    ASSUME NEW S \in SUBSET Nat, S # {}
    PROVE  Min(S) \in S /\ \A x \in S : Min(S) <= x
  BY SmallestNumber DEF Min

(* The instant of the earliest change.                                      *)
LEMMA EarliestIs ==
    ASSUME NEW C \in SUBSET Change, C # {}
    PROVE  /\ Earliest(C) \in Nat
           /\ \E c \in C : Earliest(C) = c.effectiveAt
           /\ \A c \in C : Earliest(C) <= c.effectiveAt
<1> DEFINE S == {c.effectiveAt : c \in C}
<1>1. \A c \in C : c.effectiveAt \in Nat
  BY DEF Change
<1>2. S \in SUBSET Nat /\ S # {}
  BY <1>1
<1>3. Earliest(C) = Min(S)
  BY DEF Earliest
<1>4. \A c \in C : c.effectiveAt \in S
  OBVIOUS
<1>5. \A x \in S : \E c \in C : x = c.effectiveAt
  OBVIOUS
<1> HIDE DEF S
<1>6. Min(S) \in S /\ \A x \in S : Min(S) <= x
  BY <1>2, SmallestIs
<1> QED BY <1>2, <1>3, <1>4, <1>5, <1>6

(* The changes in force are changes, and not of the future.                 *)
LEMMA EffectiveIs ==
    ASSUME ChainOK
    PROVE  /\ Effective \in SUBSET Change
           /\ \A c \in Effective : c.effectiveAt \in Nat /\ c.effectiveAt <= Clock
<1> SUFFICES ASSUME NEW c \in Effective
             PROVE  c \in Change /\ c.effectiveAt \in Nat /\ c.effectiveAt <= Clock
  OBVIOUS
<1>1. PICK b \in DOMAIN chain : Alive(b) /\ c = Log(b) /\ Log(b).effectiveAt <= Clock
  BY DEF Effective
<1> QED BY <1>1, LogIs DEF Alive

-----------------------------------------------------------------------------
(* A change that the replay leaves and that is long in force took effect:   *)
(* an announcement that replaced it is older than the blocks the node may   *)
(* not know yet.                                                            *)
LEMMA ReplayIsSound ==
    ASSUME ChainOK, NEW from \in DOMAIN chain, NEW latest \in DOMAIN chain,
           NEW list, NEW first \in Nat \ {0}, first <= from,
           Holds(list, first, latest), Time(latest) >= Clock - NodeLag,
           NEW c \in Live(list, from), Ripe(c)
    PROVE  c \in Effective
<1>0. /\ from \in Nat /\ latest \in Nat /\ DOMAIN chain \in SUBSET Nat /\ Clock \in Nat
      /\ list \in Seq(Change) /\ Len(list) \in Nat /\ DOMAIN list = 1..Len(list)
      /\ Time(latest) \in Nat
      /\ NodeLag \in Nat /\ ActionGrace \in Nat /\ NodeLag <= ActionGrace
  BY ChainIs, CorporateActionAssumption DEF Holds
<1>1. PICK i \in DOMAIN list :
         /\ c = list[i] /\ list[i].blockNumber >= from
         /\ \A j \in (i + 1)..Len(list) : list[j].blockNumber >= from =>
                                             list[i].effectiveAt <= list[j].scheduledAt
  <2>1. c \in Standing(list, from, Len(list))
    BY <1>0, LiveIs
  <2> QED BY <1>0, <2>1 DEF Standing
<1>2. PICK b \in DOMAIN chain : Log(b) # NoChange /\ c = Log(b)
  BY <1>1 DEF Holds
<1>3. c.blockNumber = b /\ b \in Nat /\ c.effectiveAt \in Nat /\ b >= from
  BY <1>0, <1>1, <1>2, LogIs
<1>4. c.effectiveAt <= Clock /\ c.effectiveAt <= Time(latest)
  BY <1>0, <1>3 DEF Ripe
<1>5. Alive(b)
  <2> SUFFICES ASSUME NEW d \in DOMAIN chain, d > b, Log(d) # NoChange,
                      ~(Log(b).effectiveAt <= Log(d).scheduledAt)
               PROVE  FALSE
    BY <1>2 DEF Alive
  <2>1. Log(d).scheduledAt = Time(d) /\ Time(d) \in Nat /\ Log(d).blockNumber = d /\ d \in Nat
    BY <1>0, ChainIs, LogIs
  <2>2. Time(d) < Time(latest)
    BY <1>0, <1>2, <1>3, <1>4, <2>1
  <2>3. ~(latest <= d)
    <3>1. latest <= d => Time(latest) <= Time(d)
      BY DEF ChainOK
    <3> QED BY <1>0, <2>1, <2>2, <3>1
  <2>4. d \in first..latest
    BY <1>0, <1>3, <2>1, <2>3
  <2>5. PICK j \in DOMAIN list : /\ list[j] = Log(d)
                                 /\ \A k \in DOMAIN list : k > j => list[k].blockNumber > d
    BY <2>4 DEF Holds
  <2>6. j \in Nat /\ i \in Nat
    BY <1>0
  <2>7. ~(i > j)
    <3>1. i > j => b > d
      BY <1>1, <1>3, <2>5
    <3> QED BY <1>3, <2>1, <3>1
  <2>8. i # j
    BY <1>1, <1>3, <2>1, <2>5
  <2>9. j \in (i + 1)..Len(list)
    BY <1>0, <2>6, <2>7, <2>8
  <2>10. list[j].blockNumber >= from
    BY <1>0, <1>3, <2>1, <2>5
  <2> QED BY <1>1, <1>2, <2>5, <2>9, <2>10
<1> QED BY <1>2, <1>4, <1>5 DEF Effective

(* A change that took effect before the block the node knows, and after the *)
(* window opened, is what the replay leaves.                                *)
LEMMA ReplayIsComplete ==
    ASSUME ChainOK, NEW opened \in Nat, NEW latest \in DOMAIN chain,
           NEW list, NEW first \in Nat \ {0}, first <= BlockAt(opened - Lookback),
           Holds(list, first, latest),
           NEW c \in Effective, c.effectiveAt >= opened, c.effectiveAt < Time(latest)
    PROVE  c \in Live(list, BlockAt(opened - Lookback))
<1>1. PICK from : from = BlockAt(opened - Lookback)
  OBVIOUS
<1>2. /\ latest \in Nat /\ DOMAIN chain \in SUBSET Nat /\ Time(latest) \in Nat
      /\ list \in Seq(Change) /\ Len(list) \in Nat /\ DOMAIN list = 1..Len(list)
      /\ Lookback \in Nat /\ MaxNotice \in Nat /\ MaxNotice < Lookback
      /\ \A b \in DOMAIN chain : b >= 1 /\ Time(b) \in Nat
  BY ChainIs, CorporateActionAssumption DEF Holds
<1>3. from \in DOMAIN chain /\ (from = 1 \/ Time(from) <= opened - Lookback)
  <2>1. opened - Lookback \in Int
    BY <1>2
  <2> QED BY <1>1, <2>1, BlockFound
<1>4. PICK b \in DOMAIN chain : Alive(b) /\ c = Log(b)
  BY DEF Effective
<1>5. /\ Log(b) # NoChange /\ c.blockNumber = b /\ c.effectiveAt \in Nat
      /\ c.effectiveAt >= Time(b) /\ c.effectiveAt <= Time(b) + MaxNotice
  BY <1>4, LogIs DEF Alive
<1>6. b >= from
  <2>1. CASE from = 1
    BY <1>2, <2>1
  <2>2. CASE Time(from) <= opened - Lookback
    <3>1. Time(from) < Time(b)
      BY <1>2, <1>3, <1>5, <2>2
    <3>2. b <= from => Time(b) <= Time(from)
      BY <1>3 DEF ChainOK
    <3> QED BY <1>2, <1>3, <3>1, <3>2
  <2> QED BY <1>3, <2>1, <2>2
<1>7. b <= latest
  <2>1. Time(b) < Time(latest)
    BY <1>2, <1>5
  <2>2. latest <= b => Time(latest) <= Time(b)
    BY DEF ChainOK
  <2> QED BY <1>2, <2>1, <2>2
<1>8. b \in first..latest
  BY <1>1, <1>2, <1>3, <1>6, <1>7
<1>9. PICK i \in DOMAIN list : /\ list[i] = Log(b)
                               /\ \A j \in DOMAIN list : j > i => list[j].blockNumber > b
  BY <1>5, <1>8 DEF Holds
<1>10. ASSUME NEW j \in (i + 1)..Len(list) PROVE list[i].effectiveAt <= list[j].scheduledAt
  <2>1. j \in DOMAIN list /\ j > i
    BY <1>2
  <2>2. PICK d \in DOMAIN chain : Log(d) # NoChange /\ list[j] = Log(d)
    BY <2>1 DEF Holds
  <2>3. d > b
    BY <1>9, <2>1, <2>2, LogIs
  <2> QED BY <1>4, <1>9, <2>2, <2>3 DEF Alive
<1>11. c \in Standing(list, from, Len(list))
  <2>1. list[i].blockNumber >= from /\ i \in 1..Len(list) /\ c = list[i]
    BY <1>2, <1>4, <1>5, <1>6, <1>9
  <2> QED BY <1>10, <2>1 DEF Standing
<1>12. from \in Nat
  BY <1>2, <1>3
<1> QED BY <1>1, <1>2, <1>11, <1>12, LiveIs

(* The changes in force that an event asks for.                             *)
Asked(q) == {c \in Effective : Qualifies(c, q)}

AnswerOK(d) ==
    /\ d.question \in Questions
    /\ IF d.outcome
       THEN Asked(d.question) # {} /\ d.occurredAt = Earliest(Asked(d.question)) /\ d.occurredAt <= Clock
       ELSE /\ Asked(d.question) = {}
            /\ d.occurredAt = d.question.windowEnd /\ d.question.windowEnd < Clock

DecidedOK == \A d \in decided : AnswerOK(d)

(* The token is what its logs tell, the cached logs are those of its blocks *)
(* in order, and every answer is right and about what is past.              *)
ActionInv == ChainOK /\ TokenOK /\ CacheOK /\ DecidedOK

(* What an observation answers is right when it is answered, with any       *)
(* cache that holds the logs and any node that lags no more than it may.    *)
LEMMA AnswersAreRight ==
    ASSUME ChainOK, NEW q \in Questions, NEW latest \in DOMAIN chain,
           NEW list, NEW first \in Nat \ {0}, first <= BlockAt(q.windowStart - Lookback),
           Holds(list, first, latest), Time(latest) >= Clock - NodeLag,
           NEW d \in Answers(q, Live(list, BlockAt(q.windowStart - Lookback)))
    PROVE  AnswerOK(d)
<1>1. PICK live : live = Live(list, BlockAt(q.windowStart - Lookback))
  OBVIOUS
<1>2. /\ q.windowStart \in Nat /\ q.windowEnd \in Nat /\ Clock \in Nat
      /\ NodeLag \in Nat /\ ActionGrace \in Nat /\ NodeLag <= ActionGrace /\ Lookback \in Nat
      /\ Time(latest) \in Nat
  BY ChainIs, CorporateActionAssumption
<1> DEFINE ripe == {c \in live : Qualifies(c, q) /\ Ripe(c)}
<1>3. \A c \in ripe : c \in Asked(q)
  <2>1. BlockAt(q.windowStart - Lookback) \in DOMAIN chain
    <3>1. q.windowStart - Lookback \in Int
      BY <1>2
    <3> QED BY <3>1, BlockFound
  <2> TAKE c \in ripe
  <2>2. c \in Effective
    BY <1>1, <2>1, ReplayIsSound
  <2> QED BY <2>2 DEF Asked
<1>4. ASSUME NEW c \in Asked(q), c.effectiveAt + ActionGrace < Clock PROVE c \in ripe
  <2>1. c \in Effective /\ Qualifies(c, q) /\ c.effectiveAt \in Nat
    BY EffectiveIs DEF Asked
  <2>2. c.effectiveAt < Time(latest) /\ c.effectiveAt >= q.windowStart
    BY <1>2, <1>4, <2>1 DEF Qualifies
  <2>3. c \in live
    BY <1>1, <1>2, <2>1, <2>2, ReplayIsComplete
  <2>4. Ripe(c)
    BY <1>2, <1>4, <2>1 DEF Ripe
  <2> QED BY <2>1, <2>3, <2>4
<1>5. /\ Asked(q) \in SUBSET Change
      /\ \A c \in Asked(q) : c.effectiveAt \in Nat /\ c.effectiveAt <= Clock /\ Qualifies(c, q)
  BY EffectiveIs DEF Asked
<1>6. ripe # {} => d = [question |-> q, outcome |-> TRUE, occurredAt |-> Earliest(ripe)]
  BY <1>1 DEF Answers
<1>7. ripe = {} => /\ Clock > q.windowEnd + ActionGrace
                   /\ d = [question |-> q, outcome |-> FALSE, occurredAt |-> q.windowEnd]
  BY <1>1 DEF Answers
<1>8. \A c \in ripe : Ripe(c)
  OBVIOUS
<1> HIDE DEF ripe
<1>9. CASE ripe # {}
  <2>1. ripe \in SUBSET Change /\ Asked(q) # {}
    BY <1>3, <1>5, <1>9
  <2>2. /\ Earliest(ripe) \in Nat
        /\ \E c \in ripe : Earliest(ripe) = c.effectiveAt
        /\ \A c \in ripe : Earliest(ripe) <= c.effectiveAt
    BY <1>9, <2>1, EarliestIs
  <2>3. /\ Earliest(Asked(q)) \in Nat
        /\ \E c \in Asked(q) : Earliest(Asked(q)) = c.effectiveAt
        /\ \A c \in Asked(q) : Earliest(Asked(q)) <= c.effectiveAt
    BY <1>5, <2>1, EarliestIs
  <2>4. PICK c \in ripe : Earliest(ripe) = c.effectiveAt
    BY <2>2
  <2>5. PICK a \in Asked(q) : Earliest(Asked(q)) = a.effectiveAt
    BY <2>3
  <2>6. a.effectiveAt <= c.effectiveAt /\ c.effectiveAt + ActionGrace <= Clock
        /\ a.effectiveAt \in Nat /\ c.effectiveAt \in Nat
    BY <1>3, <1>5, <1>8, <2>3, <2>4, <2>5 DEF Ripe
  <2>7. c.effectiveAt <= a.effectiveAt
    <3>1. CASE a.effectiveAt < c.effectiveAt
      <4>1. a.effectiveAt + ActionGrace < Clock
        BY <1>2, <2>6, <3>1
      <4>2. a \in ripe
        BY <1>4, <4>1
      <4> QED BY <2>2, <2>4, <4>2
    <3> QED BY <2>6, <3>1
  <2>8. Earliest(ripe) = Earliest(Asked(q)) /\ Earliest(ripe) <= Clock
    BY <1>2, <2>4, <2>5, <2>6, <2>7
  <2>9. d.question = q /\ d.outcome = TRUE /\ d.occurredAt = Earliest(ripe)
    BY <1>6, <1>9
  <2> QED BY <2>1, <2>8, <2>9 DEF AnswerOK
<1>10. CASE ripe = {}
  <2>1. Asked(q) = {}
    <3> SUFFICES ASSUME NEW c \in Asked(q) PROVE FALSE
      OBVIOUS
    <3>1. c.effectiveAt <= q.windowEnd /\ c.effectiveAt \in Nat
      BY <1>5 DEF Qualifies
    <3>2. c.effectiveAt + ActionGrace < Clock
      BY <1>2, <1>7, <1>10, <3>1
    <3> QED BY <1>4, <1>10, <3>2
  <2>2. q.windowEnd < Clock
    BY <1>2, <1>7, <1>10
  <2>3. d.question = q /\ d.outcome = FALSE /\ d.occurredAt = q.windowEnd
    BY <1>7, <1>10
  <2> QED BY <2>1, <2>2, <2>3 DEF AnswerOK
<1> QED BY <1>9, <1>10

(* An answer stays right: what takes effect later is later than what it     *)
(* names, and than its window.                                              *)
LEMMA AnswersStayRight ==
    ASSUME ChainOK, TokenOK, Mine, NEW d, AnswerOK(d)
    PROVE  AnswerOK(d)'
<1> DEFINE q == d.question
<1>1. Effective \subseteq Effective' /\ \A c \in Effective' \ Effective : c.effectiveAt >= Clock
  BY EffectiveGrows
<1>2. ChainOK' /\ Clock' \in Nat /\ Clock \in Nat /\ Clock <= Clock'
  <2>1. PICK t, log : Extends(t, log)
    BY MineExtends
  <2>2. ChainOK' /\ Clock' = t
    BY <2>1, ExtendsIs
  <2> QED BY <2>1, <2>2, ChainIs DEF Extends
<1>3. \A c : Qualifies(c, q)' <=> Qualifies(c, q)
  BY DEF Qualifies, ChangeBps
<1>4. Asked(q) \in SUBSET Change
  BY EffectiveIs DEF Asked
<1>5. Asked(q)' \in SUBSET Change /\ \A c \in Asked(q)' : c.effectiveAt \in Nat
  <2>1. Effective' \in SUBSET Change
    <3> SUFFICES ASSUME NEW c \in Effective' PROVE c \in Change
      OBVIOUS
    <3>1. PICK b \in DOMAIN chain' : chain'[b].log # NoChange /\ c = chain'[b].log
      BY DEF Effective, Alive, Log
    <3>2. chain'[b] \in Block
      BY <1>2, <3>1 DEF ChainOK
    <3> QED BY <3>1, <3>2 DEF Block
  <2> QED BY <2>1 DEF Asked, Change
<1>6. /\ Asked(q) \subseteq Asked(q)'
      /\ \A c \in Asked(q)' : c \in Asked(q) \/ (c.effectiveAt >= Clock /\ Qualifies(c, q))
  BY <1>1, <1>3 DEF Asked
<1>7. q.windowEnd \in Nat
  BY CorporateActionAssumption DEF AnswerOK
<1>8. CASE d.outcome
  <2>1. Asked(q) # {} /\ d.occurredAt = Earliest(Asked(q)) /\ d.occurredAt <= Clock
    BY <1>8 DEF AnswerOK
  <2>2. PICK e, f : e = Earliest(Asked(q)) /\ f = Earliest(Asked(q)')
    OBVIOUS
  <2>3. e \in Nat /\ (\E c \in Asked(q) : e = c.effectiveAt) /\ \A c \in Asked(q) : e <= c.effectiveAt
    BY <1>4, <2>1, <2>2, EarliestIs
  <2>4. Asked(q)' # {}
    BY <1>6, <2>1
  <2>5. f \in Nat /\ (\E c \in Asked(q)' : f = c.effectiveAt) /\ \A c \in Asked(q)' : f <= c.effectiveAt
    <3>1. PICK C : C = Asked(q)'
      OBVIOUS
    <3>2. C \in SUBSET Change /\ C # {} /\ f = Earliest(C)
      BY <1>5, <2>2, <2>4, <3>1
    <3>3. f \in Nat /\ (\E c \in C : f = c.effectiveAt) /\ \A c \in C : f <= c.effectiveAt
      BY <3>2, EarliestIs
    <3> QED BY <3>1, <3>3
  <2>6. f <= e
    BY <1>6, <2>3, <2>5
  <2>7. e <= f
    <3>1. PICK c \in Asked(q)' : f = c.effectiveAt
      BY <2>5
    <3>2. CASE c \in Asked(q)
      BY <2>3, <3>1, <3>2
    <3>3. CASE c.effectiveAt >= Clock
      BY <1>2, <2>1, <2>2, <2>3, <2>5, <3>1, <3>3
    <3> QED BY <1>6, <3>1, <3>2, <3>3
  <2>8. e = f
    BY <2>3, <2>5, <2>6, <2>7
  <2>9. d.occurredAt = Earliest(Asked(q)') /\ d.occurredAt <= Clock'
    BY <1>2, <2>1, <2>2, <2>3, <2>8
  <2>10. Earliest(Asked(q)') = Earliest(Asked(q))'
    BY DEF Earliest
  <2> QED BY <1>8, <2>4, <2>9, <2>10 DEF AnswerOK
<1>9. CASE ~d.outcome
  <2>1. Asked(q) = {} /\ d.occurredAt = q.windowEnd /\ q.windowEnd < Clock
    BY <1>9 DEF AnswerOK
  <2>2. Asked(q)' = {}
    <3> SUFFICES ASSUME NEW c \in Asked(q)' PROVE FALSE
      OBVIOUS
    <3>1. c.effectiveAt >= Clock /\ c.effectiveAt <= q.windowEnd /\ c.effectiveAt \in Nat
      BY <1>5, <1>6, <2>1 DEF Qualifies
    <3> QED BY <1>2, <1>7, <2>1, <3>1
  <2> QED BY <1>2, <1>7, <1>9, <2>1, <2>2 DEF AnswerOK
<1> QED BY <1>8, <1>9

-----------------------------------------------------------------------------
(* The invariant holds of the first block.                                  *)
LEMMA ActionInvInit == ActionInit => ActionInv
<1> SUFFICES ASSUME ActionInit PROVE ActionInv
  OBVIOUS
<1> DEFINE first == [timestamp |-> 0, log |-> NoChange]
<1>1. chain = <<first>> /\ inForce = <<>> /\ announced = NoChange /\ logCache = NoCache /\ decided = {}
  BY DEF ActionInit
<1>2. first \in Block /\ first.timestamp = 0 /\ first.log = NoChange
  BY DEF Block
<1> HIDE DEF first
<1>3. /\ chain \in Seq(Block) /\ chain # <<>> /\ DOMAIN chain = {1} /\ chain[1] = first
  BY <1>1, <1>2
<1>4. Time(1) = 0 /\ Log(1) = NoChange
  BY <1>2, <1>3 DEF Time, Log
<1>5. ChainOK
  BY <1>3, <1>4 DEF ChainOK
<1>6. TokenOK
  BY <1>1, <1>3, <1>4 DEF TokenOK, Alive, ToSet
<1>7. CacheOK /\ DecidedOK
  BY <1>1 DEF CacheOK, DecidedOK
<1> QED BY <1>5, <1>6, <1>7 DEF ActionInv

(* Every step keeps it: a block, an observation, a restart.                 *)
LEMMA ActionInvStep == ActionInv /\ [ActionStep]_actionVars => ActionInv'
<1> SUFFICES ASSUME ActionInv, [ActionStep]_actionVars PROVE ActionInv'
  OBVIOUS
<1> USE DEF ActionInv
<1>1. ASSUME Mine PROVE ActionInv'
  <2>1. ChainOK'
    <3>1. PICK t, log : Extends(t, log)
      BY <1>1, MineExtends
    <3> QED BY <3>1, ExtendsIs
  <2>2. TokenOK'
    BY <1>1, TokenKept
  <2>3. CacheOK'
    BY <1>1, CacheKept
  <2>4. DecidedOK'
    <3>1. decided' = decided
      BY <1>1, MineExtends
    <3>2. \A d \in decided : AnswerOK(d)'
      BY <1>1, AnswersStayRight DEF DecidedOK
    <3> QED BY <3>1, <3>2 DEF DecidedOK
  <2> QED BY <2>1, <2>2, <2>3, <2>4
<1>2. ASSUME chain' = chain, inForce' = inForce, announced' = announced
      PROVE  ChainOK' /\ TokenOK' /\ \A d : AnswerOK(d)' <=> AnswerOK(d)
  BY <1>2 DEF ChainOK, TokenOK, Alive, Log, Time, AnswerOK, Asked, Effective, Clock,
              Qualifies, ChangeBps, Earliest
<1>3. ASSUME NEW q \in Questions, ObserveAction(q) PROVE ActionInv'
  <2>1. chain' = chain /\ inForce' = inForce /\ announced' = announced
    BY <1>3 DEF ObserveAction
  <2>2. PICK from : from = BlockAt(q.windowStart - Lookback)
    OBVIOUS
  <2>3. PICK latest \in DOMAIN chain :
           /\ Time(latest) >= Clock - NodeLag
           /\ logCache' = Fetched(from, latest)
           /\ decided' = decided \cup Answers(q, Live(logCache'.changes, from))
    BY <1>3, <2>2 DEF ObserveAction, Time
  <2>4. from \in DOMAIN chain
    <3>1. q.windowStart - Lookback \in Int
      BY CorporateActionAssumption
    <3> QED BY <2>2, <3>1, BlockFound
  <2>5. /\ logCache' \in [fromBlock : Nat \ {0}, toBlock : Nat \ {0}, changes : Seq(Change)]
        /\ logCache'.toBlock = latest /\ logCache'.fromBlock <= from
        /\ Holds(logCache'.changes, logCache'.fromBlock, latest)
    BY <2>3, <2>4, FetchedIs
  <2>6. PICK list, first : list = logCache'.changes /\ first = logCache'.fromBlock
    OBVIOUS
  <2>7. first \in Nat \ {0} /\ Holds(list, first, latest) /\ first <= from
    BY <2>5, <2>6
  <2>8. CacheOK'
    <3>1. Holds(list, first, latest)'
      BY <2>1, <2>7 DEF Holds, Log
    <3>2. latest <= Len(chain')
      BY <2>1, ChainIs
    <3> QED BY <2>5, <2>6, <3>1, <3>2 DEF CacheOK
  <2>9. \A d \in decided' : AnswerOK(d)
    <3>1. \A d \in Answers(q, Live(list, from)) : AnswerOK(d)
      BY <2>2, <2>3, <2>7, AnswersAreRight
    <3> QED BY <2>3, <2>6, <3>1 DEF DecidedOK
  <2>10. DecidedOK'
    BY <1>2, <2>1, <2>9 DEF DecidedOK
  <2> QED BY <1>2, <2>1, <2>8, <2>10
<1>4. ASSUME Forget PROVE ActionInv'
  BY <1>2, <1>4 DEF Forget, CacheOK, DecidedOK
<1>5. ASSUME UNCHANGED actionVars PROVE ActionInv'
  <2>1. chain' = chain /\ inForce' = inForce /\ announced' = announced
        /\ logCache' = logCache /\ decided' = decided
    BY <1>5 DEF actionVars
  <2>2. CacheOK'
    BY <2>1 DEF CacheOK, Holds, Log
  <2> QED BY <1>2, <2>1, <2>2 DEF DecidedOK
<1> QED BY <1>1, <1>3, <1>4, <1>5 DEF ActionStep

(* Every answer of decideCorporateAction is what happened to the token, of  *)
(* any questions, multipliers, times of blocks and notices shorter than the *)
(* lookback, for nodes that lag less than the grace: DecidedAsHappened.     *)
THEOREM ChangesAsAnswered == ActionSpec => []DecidedAsHappened
<1>1. ActionInv => DecidedAsHappened
  <2> SUFFICES ASSUME ActionInv PROVE DecidedAsHappened
    OBVIOUS
  <2>1. ToSet(InForceAt(Clock)) = Effective
    BY InForceIs DEF ActionInv
  <2> QED BY <2>1 DEF ActionInv, DecidedOK, AnswerOK, Asked, DecidedAsHappened
<1> QED BY <1>1, ActionInvInit, ActionInvStep, PTL DEF ActionSpec
=============================================================================
