-------------------------------- MODULE Wire --------------------------------
(***************************************************************************)
(* The sizes in bytes of what op4 writes on the wire, and what the padding *)
(* of op4-core/src/network/message.rs does to a ciphertext.  The encoding  *)
(* (postcard) writes fixed arrays as they are, and a vector after its      *)
(* length as a variable-length integer.                                    *)
(***************************************************************************)
EXTENDS Naturals

BlockSize == 512                    \* BLOCK_SIZE
MaxPayload == 8 * BlockSize         \* MAX_PAYLOAD
MaxWireBytes == MaxPayload + 512    \* MAX_WIRE_BYTES

KeyLen == 32                        \* an X25519 or Ed25519 key, a hash, a MAC
OnionLen == 68                      \* "<56 characters>.onion:14101"
SealLen(n) == 12 + n + 16           \* aead_encrypt: nonce, ciphertext and tag

IntLen(n) == IF n < 128 THEN 1 ELSE IF n < 16384 THEN 2 ELSE 3
VecLen(n) == IntLen(n) + n
ArraysLen(k, n) == IntLen(k) + k * n

\* PublicKeyBundle with k one-time prekeys: version, address, X25519, ML-KEM,
\* Ed25519, ML-DSA and ratchet keys, prekeys and their four-byte ids.
BundleLen(k) ==
  1 + VecLen(OnionLen) + KeyLen + VecLen(1184) + KeyLen + VecLen(1952) + KeyLen
    + ArraysLen(k, KeyLen) + ArraysLen(k, 4)

SignatureLen == VecLen(64) + VecLen(3309)

\* WireMessage: type, header, ciphertext, MAC.
WireLen(ct) == 1 + (KeyLen + 1 + 1) + VecLen(ct) + KeyLen

\* HandshakeInitMessage with a first message of p bytes.
HandshakeLen(p, opk) ==
  WireLen(BundleLen(0) + KeyLen + VecLen(1088) + VecLen(SealLen(p)) + KeyLen
            + (IF opk THEN 1 + 4 ELSE 1))

\* SignedOpkRefresh with k prekeys.
RefreshLen(k) ==
  WireLen(KeyLen + ArraysLen(k, KeyLen) + ArraysLen(k, 4) + SignatureLen)

\* SealedBundleRequest, and SealedBundleResponse with k prekeys.
RequestLen == WireLen(KeyLen + VecLen(SealLen(VecLen(OnionLen) + KeyLen)))
ResponseLen(k) == WireLen(KeyLen + VecLen(SealLen(BundleLen(k))))

\* RevocationCertificate: version, fingerprint of 79 characters, revoked key,
\* reason, sequence number, the optional new bundle, signature.
CertificateLen(seq, rotation) ==
  WireLen(1 + VecLen(79) + KeyLen + 1 + IntLen(seq)
            + (IF rotation THEN 1 + BundleLen(0) ELSE 1) + SignatureLen)

\* with_padding: truncated to MAX_PAYLOAD, then filled up with random bytes.
Padded(n) ==
  LET kept == IF n > MaxPayload THEN MaxPayload ELSE n IN
  IF kept % BlockSize = 0 THEN kept ELSE kept + (BlockSize - (kept % BlockSize))

DataLen(p) == WireLen(Padded(SealLen(p)))

\* Nothing removes the padding again: a receiver gets the ciphertext that was
\* sealed only if there was nothing to pad and nothing to cut off.
Intact(p) == Padded(SealLen(p)) = SealLen(p)

\* from_bytes drops what is longer.
Fits(len) == len <= MaxWireBytes
=============================================================================
