----------------------------- MODULE MCEventBus -----------------------------
(* Small instances of the composer and the bus.  The ids of events and of   *)
(* composites are interleaved, so that sorting operands moves both kinds.   *)
EXTENDS EventBus

MCOneEvent == {3}
MCThreeComposites == {1, 2, 5}
MCSomeOps == {"And", "Not", "Before"}
=============================================================================
