----------------------------- MODULE MCObservers -----------------------------
(* Small instances of the adapters that search and replay the past of their *)
(* sources, and of the lister.  They share nothing, so one is at work in    *)
(* each behaviour.                                                          *)
EXTENDS PriceAtAdapter, CorporateActionAdapter, MarketLister

observerVars == <<priceVars, actionVars, listerVars>>

ObserversInit == PriceInit /\ ActionInit /\ ListerInit

ObserversNext == \/ PriceStep /\ UNCHANGED <<actionVars, listerVars>>
                 \/ ActionStep /\ UNCHANGED <<priceVars, listerVars>>
                 \/ ListerStep /\ UNCHANGED <<priceVars, actionVars>>

ObserversSpec == ObserversInit /\ [][ObserversNext]_observerVars

AtWork == {who \in {"price", "action", "lister"} :
              \/ who = "price" /\ (seconds > 0 \/ Cardinality(Rounds) > 1)
              \/ who = "action" /\ Len(chain) > 1
              \/ who = "lister" /\ <<time, listings, pass, faults>> # <<0, <<>>, NoPass, 0>>}

(* Two windows, so that the logs kept for one may be too few for the other. *)
MCQuestions == {[windowStart |-> 2, windowEnd |-> 2, minChangeBps |-> 500],
                [windowStart |-> 3, windowEnd |-> 4, minChangeBps |-> 500]}
MCFeeds == <<1, 2>>

(* A feed publishes when the price moves, in at most two phases, and starts *)
(* below the threshold.                                                     *)
LastPrice(f) == LET phase == f[Len(f)] IN phase[Len(phase)].answer
PriceMoves == /\ feed'[1][1].answer < Threshold
              /\ feed' # feed => LastPrice(feed') # LastPrice(feed) /\ Len(feed') <= 2

(* A node that lags sets the cache back only near the end of the chain.     *)

FewLogs ==
    /\ Len(Logs(chain')) <= 2
    /\ logCache' # NoCache => Len(logCache'.changes) <= 3
    /\ logCache' # NoCache /\ logCache # NoCache /\ logCache'.toBlock < logCache.toBlock
          => Len(chain) >= MaxBlocks - 1

OneAtWork == Cardinality(AtWork') <= 1 /\ PriceMoves /\ FewLogs
=============================================================================
