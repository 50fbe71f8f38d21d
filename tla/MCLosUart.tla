------------------------------ MODULE MCLosUart ------------------------------
(* An instance of LosUart for TLC. *)
EXTENDS LosUart

Sizes == {1, 3}
=============================================================================
