---------------------------- MODULE MCTimerQueue ----------------------------
(* Small instances of TimerQueue for TLC. *)
EXTENDS TimerQueue

\* A timer that is already due and one in the future
SomeDelays == {-1, 2}
=============================================================================
