-------------------------- MODULE MCLosTimerWheel --------------------------
(* An instance of LosTimerWheel for TLC. *)
EXTENDS LosTimerWheel

CONSTANTS a, b, c, d

FourTasks == {a, b, c, d}
=============================================================================
