---------------------------- MODULE MCTimerQueue ----------------------------
(* Two timers, one-shot or repeating at each tick, over a short time span. *)
EXTENDS TimerQueue
=============================================================================
