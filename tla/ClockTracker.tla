----------------------------- MODULE ClockTracker -----------------------------
(***************************************************************************)
(* How omv_player/clock.rs reads the engine's playback clock: each sample  *)
(* is the first, goes on from the last one, is the timer's return from the *)
(* end of a loop to its start, or is a seek.                               *)
(***************************************************************************)
EXTENDS Integers

CONSTANTS HeadGuard,   \* head_guard_ms: how far into the next pass a sample
                       \* may be and still count as the return of the timer
          TailGuard    \* tail_guard_ms: how early before the end it may leave

ASSUME GuardAssumption == HeadGuard \in Nat /\ TailGuard \in Nat

NoSample == -1   \* last_clock_ms is None

PosPart(x) == IF x > 0 THEN x ELSE 0

IsWrap(last, clock, loopEnabled, duration) ==
    /\ loopEnabled
    /\ clock <= HeadGuard
    /\ last >= PosPart(duration - TailGuard)

ClockEvent(last, clock, loopEnabled, duration) ==
    IF last = NoSample THEN "FirstSample"
    ELSE IF IsWrap(last, clock, loopEnabled, duration) THEN "Wrapped"
    ELSE IF clock >= last THEN "Advanced"
    ELSE "Seeked"

==============================================================================
