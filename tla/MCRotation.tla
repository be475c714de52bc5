---------------------------- MODULE MCRotation ----------------------------
(* Instances of Rotation for TLC.                                          *)
EXTENDS Rotation, TLC
CONSTANTS alice, bob, carol
\* Nothing tells one user from another.
Symmetry == Permutations(User)
=============================================================================
