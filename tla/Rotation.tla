----------------------------- MODULE Rotation -----------------------------
(***************************************************************************)
(* Key rotation and retirement in the terminal client                      *)
(* (op4-tui/src/ui/app.rs), and what they do to the keys and addresses     *)
(* that others hold: a certificate signed with the old key brings the new  *)
(* bundle, a contact code brings whatever its program showed, and the      *)
(* address of the hidden service follows from the keys the program was     *)
(* started with (op4-tui/src/network/nym_client.rs).                       *)
(*                                                                         *)
(* Frames are lost, repeated and reordered, and reach a program only at    *)
(* the address it serves.  A program may be closed, or killed, also within *)
(* a rotation.  The sequence number is the one every save increments.      *)
(***************************************************************************)
EXTENDS Handshake, Wire, SequencesExt, FiniteSets

CONSTANTS
  User,
  WireCap,      \* what a receiver accepts: MAX_WIRE_BYTES in the code
  MaxContacts,  \* bound: entries of a list of contacts
  MaxKeys,      \* bound: identities a user draws
  MaxOps        \* bound: what users do

ASSUME RotationConstants ==
  /\ WireCap \in Nat /\ MaxContacts \in Nat /\ MaxKeys \in Nat \ {0} /\ MaxOps \in Nat

VARIABLES
  mem,       \* the unlocked payload of each user
  disk,      \* the payload as last saved
  service,   \* the address of each user's hidden service
  net,       \* every certificate sent so far
  codes,     \* every contact code a program has shown
  drawn,     \* how many identities each user has drawn
  ops,       \* bounds what users do
  killed     \* history: users whose program was killed in a rotation

vars == <<mem, disk, service, net, codes, drawn, ops, killed>>

\* derive_onion_key, from both secrets.
OnionAddress(keys) == [of |-> keys.kem.of, kem |-> keys.kem.n, sign |-> keys.sign.n]

\* build_our_bundle.  Prekeys are left to module Session.
OurBundle(v) == BundleFrom(v.keys, v.addr, <<>>)
Code(u, v) == [by |-> u, bundle |-> OurBundle(v)]

FirstKeys(u, old) ==
  IF old THEN [GenerateKeys(u, 1) EXCEPT !.ratchet = Zero] ELSE GenerateKeys(u, 1)
FirstVault(u, old) ==
  [keys |-> FirstKeys(u, old), addr |-> OnionAddress(FirstKeys(u, old)), seq |-> 1,
   contacts |-> <<>>]

\* Some vaults, and the codes their owners gave away, are from an old version.
Init ==
  /\ \E old \in SUBSET User :
       /\ mem = [u \in User |-> FirstVault(u, u \in old)]
       /\ codes = {Code(u, mem[u]) : u \in User}
                    \cup {[by |-> u, bundle |-> OldBundle(OurBundle(mem[u]))] : u \in old}
  /\ disk = mem
  /\ service = [u \in User |-> mem[u].addr]
  /\ net = {} /\ drawn = [u \in User |-> 1] /\ ops = 0 /\ killed = {}

-----------------------------------------------------------------------------
Op == ops < MaxOps /\ ops' = ops + 1

\* Mutant: the sequence number is not incremented.
SavedSame(v) == v

Saved(v) == [v EXCEPT !.seq = @ + 1]

Save(u, v) ==
  /\ mem' = [mem EXCEPT ![u] = Saved(v)]
  /\ disk' = [disk EXCEPT ![u] = Saved(v)]

\* StoredContact::new
AddByCode(u, c) ==
  /\ Op /\ c.by # u /\ Len(mem[u].contacts) < MaxContacts
  /\ Save(u, [mem[u] EXCEPT !.contacts = Append(@, [bundle |-> c.bundle, lastSeq |-> 0])])
  /\ UNCHANGED <<service, net, codes, drawn, killed>>

Delete(u, i) ==
  /\ Op
  /\ Save(u, [mem[u] EXCEPT !.contacts = RemoveAt(@, i)])
  /\ UNCHANGED <<service, net, codes, drawn, killed>>

\* One certificate, to the address of every contact.
Broadcast(u, new) ==
  {[to |-> mem[u].contacts[i].bundle.addr, cert |-> Certificate(mem[u].keys, mem[u].seq, new),
    len |-> CertificateLen(mem[u].seq, new # Zero)] : i \in DOMAIN mem[u].contacts}

NewKeys(u) == GenerateKeys(u, drawn[u] + 1)

DrawKeys(u) ==
  /\ drawn[u] < MaxKeys
  /\ drawn' = [drawn EXCEPT ![u] = @ + 1]

\* Mutant: the ratchet secret is not replaced.
RotatedPartly(v, keys) == [v EXCEPT !.keys.kem = keys.kem, !.keys.sign = keys.sign]

Rotated(v, keys) == [v EXCEPT !.keys = keys]

\* rotate_keys: the new bundle has the address the program serves now, is sent
\* before anything is saved, and becomes the code that is shown.
Rotate(u) ==
  /\ Op /\ DrawKeys(u)
  /\ net' = net \cup Broadcast(u, BundleFrom(NewKeys(u), mem[u].addr, <<>>))
  /\ LET v == Rotated(mem[u], NewKeys(u)) IN
     /\ Save(u, v)
     /\ codes' = codes \cup {Code(u, v)}
  /\ UNCHANGED <<service, killed>>

\* A start: the address follows from the keys; it is not saved at once.
StartFrom(u, v) ==
  LET addr == OnionAddress(v.keys)
      here == [v EXCEPT !.addr = addr]
  IN  /\ mem' = [mem EXCEPT ![u] = here]
      /\ disk' = [disk EXCEPT ![u] = v]
      /\ service' = [service EXCEPT ![u] = addr]
      /\ codes' = codes \cup {Code(u, here)}

\* Killed after the broadcast and before the save, and started again.
RotateKilled(u) ==
  /\ Op /\ DrawKeys(u)
  /\ net' = net \cup Broadcast(u, BundleFrom(NewKeys(u), mem[u].addr, <<>>))
  /\ StartFrom(u, disk[u])
  /\ killed' = killed \cup {u}

\* revoke_key: nothing of one's own changes.
Revoke(u) ==
  /\ Op
  /\ net' = net \cup Broadcast(u, Zero)
  /\ Save(u, mem[u])
  /\ UNCHANGED <<service, codes, drawn, killed>>

\* Closed, with the final save, or killed.
Restart(u, clean) ==
  /\ Op
  /\ StartFrom(u, IF clean THEN Saved(mem[u]) ELSE disk[u])
  /\ UNCHANGED <<net, drawn, killed>>

-----------------------------------------------------------------------------
\* Mutant: the contact is found by its owner, and the signature not verified.
RevokedByOwner(v, cert) ==
  SelectInSubSeq(v.contacts, 1, Len(v.contacts),
                 LAMBDA c : c.bundle.kem.of = cert.body.revoked.of)

\* The first entry with the revoked key, if the signature is by its signing key.
Revoked(v, cert) ==
  LET i == SelectInSubSeq(v.contacts, 1, Len(v.contacts),
                          LAMBDA c : c.bundle.kem = cert.body.revoked)
  IN  IF i # 0 /\ CertificateVerifies(cert, v.contacts[i].bundle) THEN i ELSE 0

Stale(v, i, cert) == cert.body.seq <= v.contacts[i].lastSeq

Applied(v, i, cert) ==
  IF cert.body.new = Zero THEN [v EXCEPT !.contacts = RemoveAt(@, i)]
  ELSE [v EXCEPT !.contacts[i] = [bundle |-> cert.body.new, lastSeq |-> cert.body.seq]]

\* handle_inbound_revocation
Receive(u, m) ==
  LET i == Revoked(mem[u], m.cert) IN
  /\ m.to = service[u] /\ m.len <= WireCap
  /\ i # 0 /\ ~Stale(mem[u], i, m.cert)
  /\ Save(u, Applied(mem[u], i, m.cert))
  /\ UNCHANGED <<service, net, codes, drawn, ops, killed>>

UserStep(u) ==
  \/ \E c \in codes : AddByCode(u, c)
  \/ \E i \in DOMAIN mem[u].contacts : Delete(u, i)
  \/ Rotate(u) \/ RotateKilled(u) \/ Revoke(u)
  \/ \E clean \in BOOLEAN : Restart(u, clean)

Next == \E u \in User : UserStep(u) \/ \E m \in net : Receive(u, m)

Spec == Init /\ [][Next]_vars

-----------------------------------------------------------------------------
(* Properties.                                                             *)

Keys(u) == {FirstKeys(u, TRUE)} \cup {GenerateKeys(u, n) : n \in 1..MaxKeys}
Address(u) == {OnionAddress(k) : k \in Keys(u)}

TypeOK ==
  /\ \A u \in User : \A v \in {mem[u], disk[u]} :
       /\ v.keys \in Keys(u) /\ v.addr \in Address(u) /\ v.seq \in Nat
       /\ \A c \in Range(v.contacts) : c.bundle.kem.of \in User \ {u} /\ c.lastSeq \in Nat
       /\ Len(v.contacts) <= MaxContacts
  /\ \A u \in User : service[u] \in Address(u) /\ drawn[u] \in 1..MaxKeys
  /\ killed \subseteq User /\ ops \in 0..MaxOps

\* Whatever certificates are repeated or late, an entry that stays never gets an
\* older key of its owner for a newer one, and never another user's.
KeysForward ==
  \A u \in User : LET s == mem[u].contacts  t == mem'[u].contacts IN
    Len(s) = Len(t) => \A i \in DOMAIN s :
      /\ s[i].bundle.kem.of = t[i].bundle.kem.of
      /\ s[i].bundle.kem.n <= t[i].bundle.kem.n
NoKeyRollback == [][KeysForward]_vars

\* A certificate for the key an entry has is never taken for a stale one: who
\* missed none of them follows every rotation.
ChainUnbroken ==
  \A u \in User : \A m \in net :
    LET i == Revoked(mem[u], m.cert) IN i # 0 => ~Stale(mem[u], i, m.cert)

\* The newest identity of u that others can hold.
Newest(u, b) == b.kem.of = u /\ b.kem.n = drawn[u]

\* Who has the newest bundle of u can open a session with u, from whatever
\* version it came and whether or not u has restarted: u's vault on disk has all
\* secrets.  Only a kill within the rotation loses them.
HandshakeAgrees ==
  \A w \in User, u \in User \ killed : \A i \in DOMAIN mem[w].contacts :
    LET b == mem[w].contacts[i].bundle
        m == InitMessage(mem[w].keys, mem[w].addr, b, [eph |-> w])
    IN  Newest(u, b) => BobAccepts(disk[u].keys, <<>>, m) /\ BobAccepts(mem[u].keys, <<>>, m)

\* "Your contact code changes - share the new one with your contacts": a code
\* with the keys a user has leads to the user.
NewCodeWorks ==
  \A u \in User : \A c \in codes :
    c.by = u /\ c.bundle.kem = mem[u].keys.kem => c.bundle.addr = service[u]
=============================================================================
