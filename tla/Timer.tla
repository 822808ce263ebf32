------------------------------- MODULE Timer -------------------------------
(***************************************************************************)
(* lib/pt/timer.c on the clock of pt-clock.c: microseconds since the start *)
(* of the probe, modulo the range of clock_time_t.                         *)
(***************************************************************************)
EXTENDS Naturals

CONSTANT ClockMod       \* 2^32

\* Mutation: points in time are compared instead of differences.
ExpiredByOrder(start, interval, now) == now >= (start + interval) % ClockMod

\* timer_expired: the difference is one too large, and the comparison strict.
Expired(start, interval, now) ==
  LET diff == ((now + ClockMod - start) + 1) % ClockMod
  IN  interval < diff
=============================================================================
