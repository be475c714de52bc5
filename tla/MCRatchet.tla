----------------------------- MODULE MCRatchet -----------------------------
(* Instances of Ratchet for TLC.                                           *)
EXTENDS Ratchet
=============================================================================
