----------------------------- MODULE Handshake -----------------------------
(***************************************************************************)
(* Identity keys, bundles, signatures and the X3DH handshake of op4-core   *)
(* (crypto/keys.rs, crypto/handshake.rs, identity/revocation.rs), with     *)
(* symbolic cryptography: a public key is named like its secret, the       *)
(* Diffie-Hellman output of two keys is the set of both, a KEM ciphertext  *)
(* opens to its secret with one key only, and hashing is injective.        *)
(***************************************************************************)
EXTENDS Naturals, Sequences

CONSTANT Zero   \* no key: an absent secret, [0u8; 32] in a bundle, no prekey

\* The n-th identity of user u.  A vault from before the ratchet secret was
\* introduced has none.
KemKey(u, n) == [of |-> u, n |-> n, use |-> "kem"]
SigningKey(u, n) == [of |-> u, n |-> n, use |-> "sign"]
RatchetKey(u, n) == [of |-> u, n |-> n, use |-> "ratchet"]
GenerateKeys(u, n) ==
  [kem |-> KemKey(u, n), sign |-> SigningKey(u, n), ratchet |-> RatchetKey(u, n)]

\* Mutant: a vault without a ratchet secret has no secret to answer with.
RatchetSecretOnly(keys) == keys.ratchet

\* load_ratchet_secret
RatchetSecret(keys) == IF keys.ratchet = Zero THEN keys.kem ELSE keys.ratchet

\* from_keypairs_with_opks; the ratchet key is published with the same fallback.
BundleFrom(keys, addr, opks) ==
  [kem |-> keys.kem, sign |-> keys.sign,
   ratchet |-> IF keys.ratchet = Zero THEN keys.kem ELSE keys.ratchet,
   addr |-> addr, opks |-> opks]

\* The bundle an old version of the program published has no ratchet key.
OldBundle(b) == [b EXCEPT !.ratchet = Zero]

\* What the fingerprint is computed over.
Fingerprint(b) == <<b.kem, b.sign, b.ratchet, b.opks>>

-----------------------------------------------------------------------------
DH(a, b) == {a, b}

\* hybrid_kem_encapsulate with the ephemeral key of the handshake.
Encapsulate(b, eph) == [dh |-> DH(eph, b.kem), to |-> b.kem, secret |-> eph]

\* hybrid_kem_decapsulate: the wrong key yields another secret, not an error.
Decapsulate(keys, eph, ct) ==
  [dh |-> DH(keys.kem, eph), to |-> keys.kem,
   secret |-> IF ct.to = keys.kem THEN ct.secret ELSE Zero]

\* Alice's view of Bob's ratchet key, also where her ratchet starts.
SignedPrekey(b) == IF b.ratchet = Zero THEN b.kem ELSE b.ratchet

\* combine_dh_outputs
SessionKey(dh1, dh2, dh3, dh4, dh5) == <<dh1, dh2, dh3, dh4, dh5>>

\* perform_handshake_alice: the message and the key.
AliceKey(keys, b, eph) ==
  SessionKey(DH(keys.kem, b.kem), DH(eph, b.kem), DH(eph, SignedPrekey(b)),
             Encapsulate(b, eph),
             IF b.opks = <<>> THEN Zero ELSE DH(eph, Head(b.opks)))

InitMessage(keys, addr, b, eph) ==
  [identity |-> BundleFrom(keys, addr, <<>>), eph |-> eph, ct |-> Encapsulate(b, eph),
   mac |-> AliceKey(keys, b, eph), opk |-> IF b.opks = <<>> THEN Zero ELSE Head(b.opks)]

\* perform_handshake_bob: the key he computes, ...
BobKey(keys, m) ==
  SessionKey(DH(keys.kem, m.identity.kem), DH(keys.kem, m.eph), DH(RatchetSecret(keys), m.eph),
             Decapsulate(keys, m.eph, m.ct),
             IF m.opk = Zero THEN Zero ELSE DH(m.opk, m.eph))

\* ... and whether he accepts: he needs the prekey, and the MAC must verify.
BobAccepts(keys, opks, m) ==
  /\ m.opk # Zero => \E i \in DOMAIN opks : opks[i] = m.opk
  /\ m.mac = BobKey(keys, m)

-----------------------------------------------------------------------------
\* hybrid_sign and hybrid_verify
Sign(keys, body) == [by |-> keys.sign, body |-> body]
Verifies(b, body, sig) == sig = [by |-> b.sign, body |-> body]

\* RevocationCertificate::create; new is Zero for a key without a successor.
CertificateBody(b, seq, new) ==
  [fingerprint |-> Fingerprint(b), revoked |-> b.kem, seq |-> seq, new |-> new]
Certificate(keys, seq, new) ==
  LET body == CertificateBody(BundleFrom(keys, Zero, <<>>), seq, new) IN
  [body |-> body, sig |-> Sign(keys, body)]

\* RevocationCertificate::verify
CertificateVerifies(cert, b) == Verifies(b, cert.body, cert.sig)
=============================================================================
