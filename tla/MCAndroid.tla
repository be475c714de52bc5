------------------------------ MODULE MCAndroid ------------------------------
(* Instances of Android for TLC.  One peer is two contacts: of its code and *)
(* of its request.                                                          *)
EXTENDS Android
CONSTANTS p1
=============================================================================
