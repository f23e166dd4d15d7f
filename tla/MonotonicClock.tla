----------------------------- MODULE MonotonicClock -----------------------------
(***************************************************************************)
(* std::time::Instant as the plugins use it: a request reads the clock and *)
(* uses the reading later, when other requests may have used newer ones.   *)
(* duration_since of a later instant is zero.                              *)
(***************************************************************************)
EXTENDS Integers

CONSTANT MaxClock   \* bound: ticks

ASSUME ClockAssumption == MaxClock \in Nat

VARIABLE clock

AtLeastZero(n) == IF n > 0 THEN n ELSE 0

Since(now, instant) == AtLeastZero(now - instant)

ClockTicks ==
  /\ clock < MaxClock
  /\ clock' = clock + 1
================================================================================
