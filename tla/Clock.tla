--------------------------------- MODULE Clock ---------------------------------
(***************************************************************************)
(* The clock of the biometric-auth process (time.Now), which its limiter   *)
(* and its lockout read: a number of ticks that only grows.                *)
(***************************************************************************)
EXTENDS Naturals

CONSTANT MaxTime    \* bound: how far the clock runs

ASSUME ClockAssumption == MaxTime \in Nat

VARIABLE now        \* the clock

Advance == now < MaxTime /\ now' = now + 1

=============================================================================
