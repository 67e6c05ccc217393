----------------------------- MODULE MarketLister -----------------------------
(***************************************************************************)
(* resolver/node/lister.ts: the keeper's node opens a range market on      *)
(* every feed whose last one is about to resolve.  Which those are it      *)
(* learns from the MarketCreated logs, whoever created the market, and     *)
(* remembers.  Creating the boundary events and the market are two calls,  *)
(* each of which may fail, or be mined although the node is told nothing.  *)
(***************************************************************************)
EXTENDS Integers, SequencesExt

CONSTANTS
    Feeds,          \* listedFeeds, in the order of the catalog, which has no feed twice
    WeekdaysOnly,   \* the feeds that do not trade at weekends
    DayLength, CloseTime, MinLead, DueLead,   \* 24, 20, 3 and 1 hours
    FirstDay,       \* the weekday at time 0; 0 = Sunday
    MaxPerPass,     \* cfg.maxPerPass
    MaxTime,        \* bound: the time
    MaxFaults       \* bound: calls that fail, receipts lost, restarts

ASSUME ListerAssumption ==
    /\ Feeds \in Seq(Range(Feeds)) /\ \A i, j \in DOMAIN Feeds : Feeds[i] = Feeds[j] => i = j
    /\ WeekdaysOnly \subseteq Range(Feeds)
    /\ {CloseTime, MinLead, DueLead, FirstDay, MaxPerPass, MaxTime, MaxFaults} \subseteq Nat
    /\ DayLength \in Nat \ {0} /\ CloseTime < DayLength
    /\ DueLead < MinLead /\ MinLead <= DayLength

VARIABLES
    time,
    listings,    \* the MarketCreated logs: a feed, an instant T, and who
    latestAt,    \* of each feed, the latest T it knows of; 0 for none
    scanned,     \* how many logs it has seen
    pass,        \* the pass under way, or NoPass
    unanswered,  \* createMarket calls that may still be mined
    faults, blind   \* how many faults, and whether one hid a market from the node

listerVars == <<time, listings, latestAt, scanned, pass, unanswered, faults, blind>>

FeedSet == Range(Feeds)
NoPass == [due |-> {}]
Nowhere == [f \in FeedSet |-> 0]

ListerInit == /\ time = 0
              /\ listings = <<>>
              /\ latestAt = Nowhere
              /\ scanned = 0
              /\ pass = NoPass
              /\ unanswered = {}
              /\ faults = 0
              /\ blind = FALSE

-----------------------------------------------------------------------------
Weekday(t) == ((t \div DayLength) + FirstDay) % 7

(* nextClose: the first close far enough ahead, on a day the feed trades.   *)
NextClose(now, f) ==
    LET Closes == {t \in now..(now + 5 * DayLength) :
                      /\ t % DayLength = CloseTime
                      /\ t >= now + MinLead
                      /\ f \in WeekdaysOnly => Weekday(t) \notin {0, 6}}
    IN  Min(Closes)

(* The chain: time passes, a user creates a market, a call is mined late.   *)
TimePasses == /\ time < MaxTime
              /\ time' = time + 1
              /\ UNCHANGED <<listings, latestAt, scanned, pass, unanswered, faults, blind>>

UserCreates == /\ \A i \in DOMAIN listings : listings[i].mine
               /\ \E f \in FeedSet : listings' = Append(listings,
                     [feed |-> f, at |-> NextClose(time, f), mine |-> FALSE])
               /\ UNCHANGED <<time, latestAt, scanned, pass, unanswered, faults, blind>>

MinedLate(call) == /\ call \in unanswered
                   /\ call.at > time
                   /\ listings' = Append(listings, call)
                   /\ unanswered' = unanswered \ {call}
                   /\ UNCHANGED <<time, latestAt, scanned, pass, faults, blind>>

-----------------------------------------------------------------------------
(* scan, for the logs in ids: if reading the spec of one fails, it is taken *)
(* for something else and not looked at again.                              *)
Scanned(ids) ==
    [f \in FeedSet |-> Max({latestAt[f]} \cup {listings[i].at : i \in {j \in ids : listings[j].feed = f}})]

Due_InTime(f, latest) == latest[f] <= time + MinLead + DueLead  \* mutant: before the last one closes
Due(f, latest) == latest[f] <= time + DueLead

StartPass ==
    /\ pass = NoPass
    /\ LET new == (scanned + 1)..Len(listings) IN
       \E hidden \in SUBSET new :
          LET latest == Scanned(new \ hidden) IN
          /\ hidden # {} => faults < MaxFaults
          /\ faults' = IF hidden = {} THEN faults ELSE faults + 1
          /\ blind' = (blind \/ hidden # {})
          /\ latestAt' = latest
          /\ pass' = [due |-> {f \in FeedSet : Due(f, latest)},
                      now |-> time, events |-> FALSE, done |-> 0]
    /\ scanned' = Len(listings)
    /\ UNCHANGED <<time, listings, unanswered>>

First(due) == Feeds[Min({i \in DOMAIN Feeds : Feeds[i] \in due})]
Over(p) == p.due = {} \/ p.done = MaxPerPass
Skip(p) == [p EXCEPT !.due = @ \ {First(@)}, !.events = FALSE]
After(p) == IF Over(p) THEN NoPass ELSE p
Target == NextClose(pass.now, First(pass.due))

(* list, for the first feed that is due: createEvents.                      *)
CreateEvents == /\ pass.due # {} /\ ~pass.events
                /\ pass' = [pass EXCEPT !.events = TRUE]
                /\ UNCHANGED <<time, listings, latestAt, scanned, unanswered, faults, blind>>

(* createMarket, which is refused once T is over.  The yes/no market that   *)
(* follows changes nothing here, nor does it matter whether it fails.       *)
CreateMarket ==
    /\ pass.due # {} /\ pass.events
    /\ Target > time
    /\ listings' = Append(listings, [feed |-> First(pass.due), at |-> Target, mine |-> TRUE])
    /\ latestAt' = [latestAt EXCEPT ![First(pass.due)] = Target]
    /\ pass' = After(Skip([pass EXCEPT !.done = @ + 1]))
    /\ UNCHANGED <<time, scanned, unanswered, faults, blind>>

(* The feed is stale, or a call fails, and the next feed is due.            *)
GiveUp == /\ pass.due # {}
          /\ \/ faults < MaxFaults /\ faults' = faults + 1
             \/ pass.events /\ Target <= time /\ UNCHANGED faults
          /\ pass' = After(Skip(pass))
          /\ UNCHANGED <<time, listings, latestAt, scanned, unanswered, blind>>

(* The node is told nothing of a createMarket that is still mined.          *)
LoseReceipt ==
    /\ pass.due # {} /\ pass.events /\ Target > time
    /\ faults < MaxFaults /\ faults' = faults + 1
    /\ pass' = After(Skip(pass))
    /\ unanswered' = unanswered \cup {[feed |-> First(pass.due), at |-> Target, mine |-> TRUE]}
    /\ blind' = TRUE
    /\ UNCHANGED <<time, listings, latestAt, scanned>>

(* Nothing is left to list.                                                 *)
EndPass == /\ pass # NoPass /\ Over(pass)
           /\ pass' = NoPass
           /\ UNCHANGED <<time, listings, latestAt, scanned, unanswered, faults, blind>>

(* ensureCollateral fails, or the process dies.                             *)
Restart == /\ faults < MaxFaults /\ faults' = faults + 1
           /\ latestAt' = Nowhere
           /\ scanned' = 0
           /\ pass' = NoPass
           /\ UNCHANGED <<time, listings, unanswered, blind>>

ListerStep == \/ TimePasses \/ UserCreates
              \/ \E call \in unanswered : MinedLate(call)
              \/ StartPass \/ CreateEvents \/ CreateMarket \/ GiveUp \/ LoseReceipt \/ EndPass \/ Restart

ListerSpec == ListerInit /\ [][ListerStep]_listerVars

-----------------------------------------------------------------------------
(* The node opens no second range market on a feed for the same close,      *)
(* across passes, days, restarts and failed calls, unless it was not told   *)
(* of a market: its own call was lost, or a log could not be read.          *)
NotListedTwice ==
    \A i, j \in DOMAIN listings :
        i < j /\ listings[i].feed = listings[j].feed /\ listings[i].at = listings[j].at
              /\ listings[i].mine /\ listings[j].mine
           => blind
=============================================================================
