---------------------------- MODULE MCTimerQueue ----------------------------
(* TimerQueue and its properties for TLC. *)
EXTENDS TimerQueueProps

MCDelays == {-1, 3}
(* Half a microsecond before now, half a one and two from now. *)
MCSeconds == {-1, 1, 4}
MCJumps == {-2, 2}
=============================================================================
