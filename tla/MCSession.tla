----------------------------- MODULE MCSession -----------------------------
(* Instances of Session for TLC.                                           *)
EXTENDS Session, TLC
CONSTANTS alice, bob, carol
\* Nothing tells one user from another.
Symmetry == Permutations(User)
=============================================================================
