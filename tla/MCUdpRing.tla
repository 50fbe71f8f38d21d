------------------------------ MODULE MCUdpRing ------------------------------
(* Instances of UdpRing for TLC. *)
EXTENDS UdpRing

CONSTANTS p1, p2

TwoPackets == {p1, p2}
=============================================================================
