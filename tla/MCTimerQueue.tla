--------------------------- MODULE MCTimerQueue ---------------------------
(* Three timers, the one with the middle address repeating.                *)
EXTENDS TimerQueue

MCTimers == {1, 2, 3}
MCRepeating == {2}
=============================================================================
