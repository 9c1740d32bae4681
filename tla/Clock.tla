------------------------------- MODULE Clock --------------------------------
(***************************************************************************)
(* The clock that the parts of the notifier share (time.Now), in ticks.    *)
(***************************************************************************)
EXTENDS Integers

CONSTANT MaxTime   \* bound on the clock

VARIABLE now

Time == 0..MaxTime

Advance == now < MaxTime /\ now' = now + 1

=============================================================================
