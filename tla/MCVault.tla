------------------------------ MODULE MCVault ------------------------------
(* Instances of Vault for TLC.                                             *)
EXTENDS Vault
CONSTANTS d1, d2  \* two payloads

\* Not a power cut and a restore in one behaviour; the proofs have both.
OneFault == ~(tampered /\ cut)
=============================================================================
