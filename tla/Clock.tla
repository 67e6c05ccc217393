-------------------------------- MODULE Clock --------------------------------
(* block.timestamp, as the contracts that applications build on read it.    *)
EXTENDS Integers

CONSTANT MaxTime   \* bound: the time at which the clock stops
ASSUME ClockAssumption == MaxTime \in Nat

VARIABLE now

ClockInit == now = 0
Advance   == now < MaxTime /\ now' = now + 1
=============================================================================
