---------------------------- MODULE MCTransport ----------------------------
(* Instances of Transport for TLC.                                         *)
EXTENDS Transport
CONSTANTS p1, p2, v1, c1, c2
=============================================================================
