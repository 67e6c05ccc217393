---------------------------- MODULE OutcomeFeed ----------------------------
(***************************************************************************)
(* What the bus promises to the applications that read it: every id reads  *)
(* as pending until, at most once, it gets an answer or becomes void, and  *)
(* what was read once is read forever.  Ids settle one at a time, because  *)
(* no transaction decides two of them.  EventBus implements it.            *)
(***************************************************************************)
CONSTANT Ids

VARIABLE view     \* view[id]: what an application reads for id

Views == {"Pending", "True", "False", "Voided"}

Init == view = [id \in Ids |-> "Pending"]

Settle(id, v) == /\ view[id] = "Pending"
                 /\ view' = [view EXCEPT ![id] = v]

Next == \E id \in Ids, v \in Views : Settle(id, v)

Spec == Init /\ [][Next]_view
=============================================================================
