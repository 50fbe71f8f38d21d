----------------------------- MODULE MCLosSwtmr -----------------------------
(* An instance of LosSwtmr for TLC. *)
EXTENDS LosSwtmr, TLC

CONSTANTS t1, t2, t3

ThreeTimers == {t1, t2, t3}
Periods == {1, 2, 3}

\* The control blocks are alike.
SwapTimers == Permutations(ThreeTimers)
=============================================================================
