---------------------------- MODULE MCRewardsDuty ----------------------------
EXTENDS RewardsDuty, TLC

(* One event, of which the only resolver is the node.                       *)
MCEvents == {1}
MCComposites == {}
MCOperands == <<>>
MCGroups == SUBSET Resolvers
=============================================================================
