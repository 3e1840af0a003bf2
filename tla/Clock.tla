------------------------------- MODULE Clock -------------------------------
(***************************************************************************)
(* The wall clock that the timed parts of the core read with Date.now().   *)
(* It only moves forward; what a component does between two ticks happens  *)
(* in the same instant.                                                    *)
(***************************************************************************)
EXTENDS Naturals

CONSTANT MaxTime      \* bound: the last instant

ASSUME ClockAssumption == MaxTime \in Nat

VARIABLE now

Time == 0..MaxTime

(* What is left of a span that began at t.                                  *)
Since(t) == IF t > now THEN 0 ELSE now - t

Advance == now < MaxTime /\ now' = now + 1
=============================================================================
