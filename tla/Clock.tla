------------------------------- MODULE Clock -------------------------------
(***************************************************************************)
(* time.time(), in ticks.  The parts that read it share nothing else.      *)
(***************************************************************************)
EXTENDS Integers

CONSTANT MaxTime    \* bound on the clock

ASSUME ClockAssumption == MaxTime \in Nat

VARIABLE now

Times == 0..MaxTime

Advance == now < MaxTime /\ now' = now + 1
============================================================================
