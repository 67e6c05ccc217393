---------------------------- MODULE Applications ----------------------------
(***************************************************************************)
(* The vault and the three kinds of markets over one bus and one clock.    *)
(* Markets and distribution markets pay their fees to the vault; community *)
(* markets know neither it nor the bus.                                    *)
(***************************************************************************)
EXTENDS Market, DistributionMarket, CommunityMarket

communityVars == <<pool, staked, objected, paid, poolHeld>>
appVars == <<vars, now, marketVars, distVars, communityVars>>

AppInit == VaultInit /\ ClockInit /\ MarketInit /\ DistInit /\ CommunityInit

AppNext ==
    \/ /\ WorldStep \/ VaultStep \/ ConsumerStep
       /\ UNCHANGED <<now, marketVars, distVars, communityVars>>
    \/ MarketStep /\ UNCHANGED <<distVars, communityVars>>
    \/ DistStep /\ UNCHANGED <<marketVars, communityVars>>
    \/ CommunityStep /\ UNCHANGED <<vars, marketVars, distVars>>
    \/ Advance /\ UNCHANGED <<vars, marketVars, distVars, communityVars>>

AppSpec == AppInit /\ [][AppNext]_appVars

(* Time passes, and somebody with a stake in a community market asks for    *)
(* what its creator did not do: the refund, or the result that stood.       *)
AppFairSpec == /\ AppSpec
               /\ WF_appVars(Advance /\ UNCHANGED <<vars, marketVars, distVars, communityVars>>)
               /\ \A m \in PoolIds :
                     WF_appVars(CloseStep(m) /\ UNCHANGED <<vars, marketVars, distVars>>)
=============================================================================
