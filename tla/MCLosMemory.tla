---------------------------- MODULE MCLosMemory ----------------------------
(* An instance of LosMemory for TLC. *)
EXTENDS LosMemory

Asked == {1, 4, 9}
Pairs == {2}
=============================================================================
