------------------------------- MODULE Clocks -------------------------------
(***************************************************************************)
(* The wrapping millisecond counter the timers of bm-wire are read on.     *)
(* UnsignedRemaining is a slip: a plausible mistake, which nothing uses.   *)
(***************************************************************************)
EXTENDS Integers

CONSTANT ClockWrap  \* 2^32: the range of the clock

ASSUME ClockAssumption == ClockWrap \in Nat \ {0}

Clock == 0..ClockWrap - 1

\* util::time_remaining: a signed difference, so late by half the range is early.
UnsignedRemaining(start, current, timeout) ==  \* slip
  LET end == (start + timeout) % ClockWrap IN IF end < current THEN 0 ELSE end - current
TimeRemaining(start, current, timeout) ==
  LET left == (start + timeout - current) % ClockWrap
  IN  IF 2 * left >= ClockWrap THEN 0 ELSE left
=============================================================================
