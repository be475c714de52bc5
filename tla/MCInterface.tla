---------------------------- MODULE MCInterface ----------------------------
(* Instances of Interface for TLC.                                         *)
EXTENDS Interface, TLC
CONSTANTS p1, p2
\* Nothing tells one peer from another.
Symmetry == Permutations(Peer)
=============================================================================
