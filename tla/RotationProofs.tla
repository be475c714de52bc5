--------------------------- MODULE RotationProofs ---------------------------
(***************************************************************************)
(* Proofs about Rotation, for any users, any number of identities and any  *)
(* number of operations.  What is proved rests on where the bundles and    *)
(* certificates that circulate come from.                                  *)
(***************************************************************************)
EXTENDS Rotation, SequenceTheorems, WellFoundedInduction, TLAPS

-----------------------------------------------------------------------------
(* Lists: the first position with a property, which is what                *)
(* Iterator::position returns, and Vec::remove at a position.              *)

\* A set of natural numbers that is not empty has a least element.
LEMMA LeastElement ==
  ASSUME NEW S \in SUBSET Nat, S # {}
  PROVE  Min(S) \in S /\ \A y \in S : Min(S) <= y
<1>1. IsWellFoundedOn(OpToRel(<, Nat), Nat)
  BY NatLessThanWellFounded
<1>2. PICK x \in S : \A y \in S : <<y, x>> \notin OpToRel(<, Nat)
  BY <1>1, WFMin
<1>3. ASSUME NEW y \in S  PROVE  x <= y
  <2>1. y < x => <<y, x>> \in {ss \in Nat \X Nat : ss[1] < ss[2]}
    OBVIOUS
  <2> QED
    BY <1>2, <2>1 DEF OpToRel
<1> QED
  BY <1>3 DEF Min

\* Removing an entry leaves the others, in their order.
LEMMA RemoveAtIsSeq ==
  ASSUME NEW S, NEW s \in Seq(S), NEW i \in 1..Len(s)
  PROVE  /\ RemoveAt(s, i) \in Seq(S) /\ Len(RemoveAt(s, i)) = Len(s) - 1
         /\ \A j \in 1..Len(s) - 1 : RemoveAt(s, i)[j] = IF j < i THEN s[j] ELSE s[j + 1]
<1>1. Len(s) \in Nat /\ \A j \in 1..Len(s) : s[j] \in S
  BY ElementOfSeq, LenProperties
<1> DEFINE a == SubSeq(s, 1, i - 1)
           b == SubSeq(s, i + 1, Len(s))
<1>2. a \in Seq(S) /\ Len(a) = i - 1 /\ \A j \in 1..i - 1 : a[j] = s[j]
  <2>1. \A j \in 1..(i - 1) : s[j] \in S
    BY <1>1
  <2>2. /\ a \in Seq(S) /\ Len(a) = IF 1 <= i - 1 THEN (i - 1) - 1 + 1 ELSE 0
        /\ \A j \in 1..(i - 1) - 1 + 1 : a[j] = s[1 + j - 1]
    BY <1>1, <2>1, SubSeqProperties
  <2> HIDE DEF a
  <2> QED
    BY <1>1, <2>2
<1>3. b \in Seq(S) /\ Len(b) = Len(s) - i /\ \A j \in 1..Len(s) - i : b[j] = s[i + j]
  <2>1. \A j \in (i + 1)..Len(s) : s[j] \in S
    BY <1>1
  <2>2. /\ b \in Seq(S) /\ Len(b) = IF i + 1 <= Len(s) THEN Len(s) - (i + 1) + 1 ELSE 0
        /\ \A j \in 1..Len(s) - (i + 1) + 1 : b[j] = s[(i + 1) + j - 1]
    BY <1>1, <2>1, SubSeqProperties
  <2> HIDE DEF b
  <2> QED
    BY <1>1, <2>2
<1>4. RemoveAt(s, i) = a \o b
  BY DEF RemoveAt
<1> HIDE DEF a, b
<1>5. /\ a \o b \in Seq(S) /\ Len(a \o b) = Len(a) + Len(b)
      /\ \A j \in 1..Len(a) + Len(b) : (a \o b)[j] = IF j <= Len(a) THEN a[j] ELSE b[j - Len(a)]
  BY <1>2, <1>3, ConcatProperties
<1>6. ASSUME NEW j \in 1..Len(s) - 1
      PROVE  (a \o b)[j] = IF j < i THEN s[j] ELSE s[j + 1]
  <2>1. CASE j < i
    BY <1>1, <1>2, <1>3, <1>5, <2>1
  <2>2. CASE j >= i
    <3>1. PICK k \in 1..Len(s) - i : k = j - (i - 1) /\ i + k = j + 1
      BY <1>1, <2>2
    <3>2. (a \o b)[j] = b[k]
      BY <1>1, <1>2, <1>3, <1>5, <2>2, <3>1
    <3>3. b[k] = s[j + 1]
      BY <1>3, <3>1
    <3> QED
      BY <2>2, <3>2, <3>3
  <2>3. j < i \/ j >= i
    BY <1>1
  <2> QED
    BY <2>1, <2>2, <2>3
<1> QED
  BY <1>1, <1>2, <1>3, <1>4, <1>5, <1>6

-----------------------------------------------------------------------------
KemKeys == {KemKey(u, n) : u \in User, n \in 1..MaxKeys}
Addresses == UNION {Address(u) : u \in User}

\* The bundles that can be in circulation, contacts and payloads.
AnyBundle ==
  [kem : KemKeys, sign : {SigningKey(u, n) : u \in User, n \in 1..MaxKeys},
   ratchet : {RatchetKey(u, n) : u \in User, n \in 1..MaxKeys} \cup KemKeys \cup {Zero},
   addr : Addresses, opks : {<<>>}]
AnyContact == [bundle : AnyBundle, lastSeq : Nat]
Payload ==
  [keys : UNION {Keys(u) : u \in User}, addr : Addresses, seq : Nat \ {0},
   contacts : Seq(AnyContact)]

Shape ==
  /\ mem \in [User -> Payload] /\ disk \in [User -> Payload]
  /\ service \in [User -> Addresses] /\ drawn \in [User -> 1..MaxKeys]
  /\ codes \subseteq [by : User, bundle : AnyBundle]
  /\ killed \subseteq User /\ ops \in 0..MaxOps

\* A bundle that its owner has published: the keys were drawn, and as long as the
\* owner holds them, the ratchet key in it is the one the owner answers with.
Genuine(b) ==
  /\ b \in AnyBundle /\ b.kem.n <= drawn[b.kem.of]
  /\ b.kem = disk[b.kem.of].keys.kem => SignedPrekey(b) = RatchetSecret(disk[b.kem.of].keys)

\* An entry of a list of contacts, with the number of the certificate it is from.
Known(u) ==
  {c \in AnyContact :
     /\ c.bundle.kem.of # u /\ Genuine(c.bundle)
     /\ c.lastSeq = 0 \/ \E m \in net :
          /\ m.cert.body.new # Zero
          /\ m.cert.body.new.kem = c.bundle.kem /\ m.cert.body.seq = c.lastSeq}

\* In memory and on disk are the same keys, number and contacts; only a kill in a
\* rotation leaves a user without the newest keys.
OwnInv ==
  \A u \in User :
    /\ mem[u].keys \in Keys(u) /\ disk[u].keys = mem[u].keys
    /\ disk[u].seq = mem[u].seq /\ disk[u].contacts = mem[u].contacts
    /\ mem[u].addr \in Address(u) /\ disk[u].addr \in Address(u) /\ service[u] \in Address(u)
    /\ mem[u].keys.kem.n <= drawn[u]
    /\ u \notin killed => mem[u].keys.kem.n = drawn[u]
    /\ mem[u].contacts \in Seq(Known(u)) /\ Len(mem[u].contacts) <= MaxContacts

CodeInv == \A c \in codes : c.bundle.kem.of = c.by /\ Genuine(c.bundle)

\* Certificates: numbers below that of their owner, from an older key to a newer
\* one, and numbered in the order of the keys.
CertInv ==
  /\ \A m \in net : LET b == m.cert.body  o == m.cert.body.revoked.of IN
       /\ b.revoked \in KemKeys /\ b.revoked.n <= drawn[o]
       /\ b.seq \in Nat \ {0} /\ b.seq <= mem[o].seq
       /\ b.new # Zero =>
            /\ Genuine(b.new) /\ b.new.kem.of = o /\ b.revoked.n < b.new.kem.n
            /\ b.new.kem = mem[o].keys.kem => b.seq < mem[o].seq
  /\ \A m, l \in net :
       m.cert.body.new # Zero /\ l.cert.body.revoked = m.cert.body.new.kem =>
         m.cert.body.seq < l.cert.body.seq

RotationInv == Shape /\ OwnInv /\ CodeInv /\ CertInv

\* What every step of u has in common: u keeps the keys, and may lose a new
\* identity in a kill, or gets the new ones with a higher number; what u sends is
\* signed by the keys and numbered as of before the step; what u shows has the
\* keys after it.
StepOf(u) ==
  /\ Shape'
  /\ \A x \in User \ {u} :
       /\ mem'[x] = mem[x] /\ disk'[x] = disk[x] /\ service'[x] = service[x]
       /\ drawn'[x] = drawn[x]
  /\ disk'[u].keys = mem'[u].keys /\ disk'[u].seq = mem'[u].seq
  /\ disk'[u].contacts = mem'[u].contacts /\ mem'[u].keys \in Keys(u)
  /\ mem'[u].addr \in Address(u) /\ disk'[u].addr \in Address(u) /\ service'[u] \in Address(u)
  /\ mem[u].seq <= mem'[u].seq /\ killed \subseteq killed' /\ killed' \subseteq killed \cup {u}
  /\ \/ mem'[u].keys = mem[u].keys /\ drawn'[u] = drawn[u]
     \/ mem'[u].keys = mem[u].keys /\ drawn'[u] = drawn[u] + 1 /\ u \in killed'
     \/ mem'[u].keys = NewKeys(u) /\ drawn'[u] = drawn[u] + 1 /\ mem[u].seq < mem'[u].seq
  /\ net \subseteq net'
  /\ \A m \in net' \ net :
       \/ m.cert = Certificate(mem[u].keys, mem[u].seq, Zero)
       \/ /\ drawn'[u] = drawn[u] + 1
          /\ m.cert = Certificate(mem[u].keys, mem[u].seq,
                                  BundleFrom(NewKeys(u), mem[u].addr, <<>>))
  /\ \A c \in codes' \ codes : c.by = u /\ c.bundle = OurBundle(mem'[u])

-----------------------------------------------------------------------------
(* Keys, bundles, payloads and entries.                                    *)

\* The n-th identity is one of the user's, and is told by its number.
LEMMA GeneratedKeys ==
  ASSUME NEW u \in User, NEW n \in 1..MaxKeys
  PROVE  /\ GenerateKeys(u, n) \in Keys(u)
         /\ GenerateKeys(u, n).kem = KemKey(u, n)
BY DEF Keys, GenerateKeys

\* The keys of a user at the first start, whatever the version.
LEMMA FirstKeysOf ==
  ASSUME NEW u \in User, NEW old \in BOOLEAN
  PROVE  FirstKeys(u, old) \in Keys(u) /\ FirstKeys(u, old).kem = KemKey(u, 1)
BY RotationConstants DEF Keys, FirstKeys, GenerateKeys

\* Keys name their user and their number, and the KEM key is determined by both.
LEMMA KeysOf ==
  ASSUME NEW u \in User, NEW k \in Keys(u)
  PROVE  /\ k.kem \in KemKeys /\ k.kem.of = u /\ k.kem.n \in 1..MaxKeys
         /\ k.kem = KemKey(u, k.kem.n)
         /\ OnionAddress(k) \in Address(u) /\ Address(u) \subseteq Addresses
<1>1. PICK n \in 1..MaxKeys : k.kem = KemKey(u, n)
  <2>1. CASE k = FirstKeys(u, TRUE)
    <3>1. k.kem = KemKey(u, 1)
      BY <2>1 DEF FirstKeys, GenerateKeys
    <3> QED
      BY <3>1, RotationConstants
  <2>2. CASE \E n \in 1..MaxKeys : k = GenerateKeys(u, n)
    BY <2>2, GeneratedKeys
  <2> QED
    BY <2>1, <2>2 DEF Keys
<1>2. k.kem.of = u /\ k.kem.n = n
  BY <1>1 DEF KemKey
<1> QED
  BY <1>1, <1>2 DEF KemKeys, Address, Addresses

\* The bundle of a user's keys, and what the user answers with.
LEMMA BundleOf ==
  ASSUME NEW u \in User, NEW k \in Keys(u), NEW addr \in Addresses
  PROVE  /\ BundleFrom(k, addr, <<>>) \in AnyBundle
         /\ BundleFrom(k, addr, <<>>).kem = k.kem
         /\ SignedPrekey(BundleFrom(k, addr, <<>>)) = RatchetSecret(k)
<1>1. k.kem \in KemKeys
  BY KeysOf
<1>2. PICK n \in 1..MaxKeys : k.sign = SigningKey(u, n) /\ k.ratchet \in {RatchetKey(u, n), Zero}
  <2>1. CASE k = FirstKeys(u, TRUE)
    BY <2>1, RotationConstants DEF FirstKeys, GenerateKeys
  <2>2. CASE \E n \in 1..MaxKeys : k = GenerateKeys(u, n)
    BY <2>2 DEF GenerateKeys
  <2> QED
    BY <2>1, <2>2 DEF Keys
<1>3. SignedPrekey(BundleFrom(k, addr, <<>>)) = RatchetSecret(k)
  BY DEF SignedPrekey, BundleFrom, RatchetSecret
<1> QED
  BY <1>1, <1>2, <1>3 DEF BundleFrom, AnyBundle

\* The KEM key of a bundle is told by its user and its number.
LEMMA BundleKey ==
  ASSUME NEW k \in KemKeys
  PROVE  k.of \in User /\ k.n \in 1..MaxKeys /\ k = KemKey(k.of, k.n)
BY DEF KemKeys, KemKey

\* A save increments the number and changes nothing else.
LEMMA SavedPayload ==
  ASSUME NEW v \in Payload
  PROVE  /\ Saved(v) \in Payload /\ Saved(v).seq = v.seq + 1
         /\ Saved(v).keys = v.keys /\ Saved(v).addr = v.addr
         /\ Saved(v).contacts = v.contacts
BY DEF Saved, Payload

\* The entry a certificate is for has the revoked key, and its signing key signed.
LEMMA RevokedEntry ==
  ASSUME NEW v, NEW S, v.contacts \in Seq(S), NEW cert, Revoked(v, cert) # 0
  PROVE  LET i == Revoked(v, cert) IN
         /\ i \in 1..Len(v.contacts) /\ v.contacts[i] \in S
         /\ v.contacts[i].bundle.kem = cert.body.revoked
<1> DEFINE I == {i \in 1..Len(v.contacts) : v.contacts[i].bundle.kem = cert.body.revoked}
<1>1. Revoked(v, cert) = Min(I) /\ I # {}
  BY DEF Revoked, SelectInSubSeq
<1>2. I \in SUBSET Nat
  BY LenProperties
<1>3. Min(I) \in I
  BY <1>1, <1>2, LeastElement
<1> HIDE DEF I
<1>4. Revoked(v, cert) \in I
  BY <1>1, <1>3
<1>5. /\ Revoked(v, cert) \in 1..Len(v.contacts)
      /\ v.contacts[Revoked(v, cert)].bundle.kem = cert.body.revoked
  BY <1>4 DEF I
<1>6. v.contacts[Revoked(v, cert)] \in S
  BY <1>5, ElementOfSeq
<1> QED
  BY <1>5, <1>6, ZenonT(30)

-----------------------------------------------------------------------------
(* What a step leaves true.                                                *)

\* The newest identity of the user of a step.
LEMMA NewestKeys ==
  ASSUME RotationInv, NEW u \in User, StepOf(u), drawn'[u] = drawn[u] + 1
  PROVE  /\ NewKeys(u) \in Keys(u) /\ NewKeys(u).kem.n = drawn[u] + 1
         /\ NewKeys(u).kem.of = u
<1>1. drawn[u] \in Nat /\ drawn[u] + 1 \in 1..MaxKeys
  BY DEF RotationInv, Shape, StepOf
<1>2. NewKeys(u) \in Keys(u) /\ NewKeys(u).kem = KemKey(u, drawn[u] + 1)
  BY <1>1, GeneratedKeys DEF NewKeys
<1> QED
  BY <1>2 DEF KemKey

\* A step takes from no user the keys that others hold, except for newer ones.
LEMMA KeysStep ==
  ASSUME RotationInv, NEW u \in User, StepOf(u), NEW x \in User
  PROVE  /\ drawn[x] \in Nat /\ drawn'[x] \in Nat /\ drawn[x] <= drawn'[x]
         /\ disk[x].keys = mem[x].keys /\ disk'[x].keys = mem'[x].keys
         /\ mem[x].seq \in Nat \ {0} /\ mem'[x].seq \in Nat /\ mem[x].seq <= mem'[x].seq
         /\ \/ mem'[x].keys = mem[x].keys
            \/ mem'[x].keys.kem.n = drawn[x] + 1 /\ drawn'[x] = drawn[x] + 1
<1>1. drawn[x] \in Nat /\ drawn'[x] \in Nat /\ mem[x] \in Payload /\ mem'[x] \in Payload
  BY DEF RotationInv, Shape, StepOf
<1>2. disk[x].keys = mem[x].keys /\ mem[x].seq \in Nat \ {0} /\ mem'[x].seq \in Nat
  BY <1>1 DEF RotationInv, OwnInv, Payload
<1>3. CASE x # u
  BY <1>1, <1>2, <1>3 DEF StepOf
<1>4. CASE x = u
  BY <1>1, <1>2, <1>4, NewestKeys DEF StepOf
<1> QED
  BY <1>3, <1>4

\* What was published stays so.
LEMMA GenuineStays ==
  ASSUME RotationInv, NEW u \in User, StepOf(u), NEW b, Genuine(b)
  PROVE  Genuine(b)'
<1>1. b.kem.of \in User /\ b.kem.n \in Nat
  BY BundleKey DEF Genuine, AnyBundle
<1> QED
  BY <1>1, KeysStep DEF Genuine

\* Entries stay such that a certificate that was sent explains them.
LEMMA KnownStays ==
  ASSUME RotationInv, NEW u \in User, StepOf(u), NEW x \in User
  PROVE  Known(x) \subseteq Known(x)'
<1> SUFFICES ASSUME NEW c \in Known(x)  PROVE c \in Known(x)'
  OBVIOUS
<1>1. Genuine(c.bundle)'
  BY GenuineStays DEF Known
<1>2. net \subseteq net'
  BY DEF StepOf
<1> QED
  BY <1>1, <1>2 DEF Known

\* Codes lead to what their user published.
LEMMA CodesStay ==
  ASSUME RotationInv, NEW u \in User, StepOf(u)
  PROVE  CodeInv'
<1> SUFFICES ASSUME NEW c \in codes'  PROVE c.bundle.kem.of = c.by /\ Genuine(c.bundle)'
  BY DEF CodeInv
<1>1. CASE c \in codes
  BY <1>1, GenuineStays DEF RotationInv, CodeInv
<1>2. CASE c \notin codes
  <2>1. c.by = u /\ c.bundle = BundleFrom(mem'[u].keys, mem'[u].addr, <<>>)
    BY <1>2 DEF StepOf, OurBundle
  <2>2. mem'[u].keys \in Keys(u) /\ mem'[u].addr \in Addresses
    BY KeysOf DEF StepOf
  <2>3. /\ c.bundle \in AnyBundle /\ c.bundle.kem = mem'[u].keys.kem
        /\ SignedPrekey(c.bundle) = RatchetSecret(mem'[u].keys)
    BY <2>1, <2>2, BundleOf
  <2>4. mem'[u].keys.kem.of = u
    BY <2>2, KeysOf
  <2>5. mem'[u].keys.kem.n <= drawn'[u]
    <3>1. mem[u].keys.kem.n <= drawn[u] /\ mem[u].keys.kem.n \in Nat
      BY KeysOf DEF RotationInv, OwnInv
    <3> QED
      BY <3>1, KeysStep
  <2> QED
    BY <2>1, <2>3, <2>4, <2>5, KeysStep DEF Genuine
<1> QED
  BY <1>1, <1>2

\* What is sent in a step: revoked are the keys of before, with the number of
\* before, and a new bundle has keys nobody has seen.
LEMMA CertificateSent ==
  ASSUME RotationInv, NEW u \in User, StepOf(u), NEW m \in net' \ net
  PROVE  LET b == m.cert.body IN
         /\ b.revoked = mem[u].keys.kem /\ b.seq = mem[u].seq
         /\ b.new # Zero => /\ Genuine(b.new)' /\ b.new.kem.of = u
                            /\ b.new.kem.n = drawn[u] + 1 /\ drawn'[u] = drawn[u] + 1
<1>1. CASE m.cert = Certificate(mem[u].keys, mem[u].seq, Zero)
  BY <1>1 DEF Certificate, CertificateBody, BundleFrom
<1> DEFINE new == BundleFrom(NewKeys(u), mem[u].addr, <<>>)
<1>2. CASE drawn'[u] = drawn[u] + 1 /\ m.cert = Certificate(mem[u].keys, mem[u].seq, new)
  <2>1. NewKeys(u) \in Keys(u) /\ NewKeys(u).kem.n = drawn[u] + 1 /\ NewKeys(u).kem.of = u
    BY <1>2, NewestKeys
  <2>2. mem[u].addr \in Addresses
    BY DEF RotationInv, Shape, Payload
  <2>3. /\ new \in AnyBundle /\ new.kem = NewKeys(u).kem
        /\ SignedPrekey(new) = RatchetSecret(NewKeys(u))
    BY <2>1, <2>2, BundleOf
  <2>4. disk'[u].keys = NewKeys(u) \/ disk'[u].keys.kem.n # drawn[u] + 1
    <3>1. mem[u].keys.kem.n <= drawn[u] /\ mem[u].keys.kem.n \in Nat
      BY KeysOf DEF RotationInv, OwnInv
    <3> QED
      BY <3>1, KeysStep DEF StepOf
  <2>5. m.cert.body.revoked = mem[u].keys.kem /\ m.cert.body.seq = mem[u].seq
        /\ m.cert.body.new = new
    BY <1>2 DEF Certificate, CertificateBody, BundleFrom
  <2> HIDE DEF new
  <2> DEFINE n == m.cert.body.new
  <2>6. /\ n \in AnyBundle /\ n.kem = NewKeys(u).kem /\ n.kem.of = u
        /\ n.kem.n = drawn[u] + 1 /\ SignedPrekey(n) = RatchetSecret(NewKeys(u))
    BY <2>1, <2>3, <2>5
  <2> HIDE DEF n
  <2>7. Genuine(n)'
    BY <1>2, <2>4, <2>6, KeysStep DEF Genuine
  <2> QED
    BY <1>2, <2>5, <2>6, <2>7 DEF n
<1> QED
  BY <1>1, <1>2 DEF StepOf

\* Certificates stay numbered in the order of the keys.
LEMMA CertificatesStay ==
  ASSUME RotationInv, NEW u \in User, StepOf(u)
  PROVE  CertInv'
<1>1. mem[u].keys.kem \in KemKeys /\ mem[u].keys.kem.of = u
      /\ mem[u].keys.kem.n \in Nat /\ mem[u].keys.kem.n <= drawn[u]
  BY KeysOf DEF RotationInv, OwnInv
<1>2. net \subseteq net'
  BY DEF StepOf
<1>3. ASSUME NEW m \in net'
      PROVE  LET b == m.cert.body  o == m.cert.body.revoked.of IN
             /\ b.revoked \in KemKeys /\ b.revoked.n <= drawn'[o]
             /\ b.seq \in Nat \ {0} /\ b.seq <= mem'[o].seq
             /\ b.new # Zero =>
                  /\ Genuine(b.new)' /\ b.new.kem.of = o /\ b.revoked.n < b.new.kem.n
                  /\ b.new.kem = mem'[o].keys.kem => b.seq < mem'[o].seq
  <2> DEFINE b == m.cert.body
             o == b.revoked.of
  <2>1. CASE m \in net
    <3>1. /\ b.revoked \in KemKeys /\ b.revoked.n <= drawn[o]
          /\ b.seq \in Nat \ {0} /\ b.seq <= mem[o].seq
          /\ b.new # Zero =>
               /\ Genuine(b.new) /\ b.new.kem.of = o /\ b.revoked.n < b.new.kem.n
               /\ b.new.kem = mem[o].keys.kem => b.seq < mem[o].seq
      BY <2>1 DEF RotationInv, CertInv
    <3>2. o \in User /\ b.revoked.n \in Nat
      BY <3>1, BundleKey
    <3>3. b.new # Zero => Genuine(b.new)' /\ b.new.kem.n \in Nat /\ b.new.kem.n <= drawn[o]
      <4>1. b.new # Zero => Genuine(b.new)'
        BY <3>1, GenuineStays
      <4>2. b.new # Zero =>
              b.new.kem \in KemKeys /\ b.new.kem.n <= drawn[b.new.kem.of]
        BY <3>1 DEF Genuine, AnyBundle
      <4>3. b.new # Zero => b.new.kem.n \in Nat
        BY <4>2, BundleKey
      <4> HIDE DEF b, o
      <4> QED
        BY <3>1, <4>1, <4>2, <4>3
    <3> HIDE DEF b, o
    <3>4. /\ b.revoked.n <= drawn'[o] /\ b.seq <= mem'[o].seq
          /\ b.new # Zero /\ b.new.kem = mem'[o].keys.kem => b.seq < mem'[o].seq
      BY <3>1, <3>2, <3>3, KeysStep
    <3> QED
      BY <3>1, <3>3, <3>4 DEF b, o
  <2>2. CASE m \notin net
    <3>1. /\ b.revoked = mem[u].keys.kem /\ b.seq = mem[u].seq
          /\ b.new # Zero => /\ Genuine(b.new)' /\ b.new.kem.of = u
                             /\ b.new.kem.n = drawn[u] + 1 /\ drawn'[u] = drawn[u] + 1
      BY <2>2, CertificateSent
    <3>2. o = u
      BY <3>1, <1>1
    <3> HIDE DEF b, o
    <3>3. mem'[u].keys.kem.n = drawn[u] + 1 => mem[u].seq < mem'[u].seq
      BY <1>1, KeysStep DEF StepOf
    <3>4. /\ b.revoked \in KemKeys /\ b.revoked.n <= drawn'[o]
          /\ b.seq \in Nat \ {0} /\ b.seq <= mem'[o].seq
      BY <3>1, <3>2, <1>1, KeysStep
    <3>5. b.new # Zero =>
            /\ Genuine(b.new)' /\ b.new.kem.of = o /\ b.revoked.n < b.new.kem.n
            /\ b.new.kem = mem'[o].keys.kem => b.seq < mem'[o].seq
      BY <3>1, <3>2, <3>3, <1>1, KeysStep
    <3> QED
      BY <3>4, <3>5 DEF b, o
  <2> QED
    BY <2>1, <2>2
<1>4. ASSUME NEW m \in net', NEW l \in net', m.cert.body.new # Zero,
             l.cert.body.revoked = m.cert.body.new.kem
      PROVE  m.cert.body.seq < l.cert.body.seq
  <2> DEFINE new == m.cert.body.new
  <2>1. CASE m \in net /\ l \in net
    BY <1>4, <2>1 DEF RotationInv, CertInv
  <2>2. CASE m \in net /\ l \notin net
    <3>1. l.cert.body.revoked = mem[u].keys.kem /\ l.cert.body.seq = mem[u].seq
      BY <2>2, CertificateSent
    <3>2. new.kem.of = m.cert.body.revoked.of
          /\ (new.kem = mem[m.cert.body.revoked.of].keys.kem =>
                m.cert.body.seq < mem[m.cert.body.revoked.of].seq)
      BY <2>2, <1>4 DEF RotationInv, CertInv
    <3> QED
      BY <3>1, <3>2, <1>1, <1>4
  <2>3. CASE m \notin net
    <3>1. new.kem.of = u /\ new.kem.n = drawn[u] + 1
      BY <2>3, <1>4, CertificateSent
    <3>2. CASE l \in net
      <4>1. l.cert.body.revoked.n <= drawn[l.cert.body.revoked.of]
        BY <3>2 DEF RotationInv, CertInv
      <4> QED
        BY <3>1, <4>1, <1>4, KeysStep
    <3>3. CASE l \notin net
      <4>1. l.cert.body.revoked = mem[u].keys.kem
        BY <3>3, CertificateSent
      <4> QED
        BY <3>1, <4>1, <1>1, <1>4, KeysStep
    <3> QED
      BY <3>2, <3>3
  <2> QED
    BY <2>1, <2>2, <2>3
<1> QED
  BY <1>3, <1>4 DEF CertInv

\* The payloads of all users stay in order, if the contacts of the one who steps do.
LEMMA OwnStays ==
  ASSUME RotationInv, NEW u \in User, StepOf(u),
         mem'[u].contacts \in Seq(Known(u)'), Len(mem'[u].contacts) <= MaxContacts
  PROVE  OwnInv'
<1> SUFFICES ASSUME NEW x \in User
             PROVE  /\ mem'[x].keys \in Keys(x) /\ disk'[x].keys = mem'[x].keys
                    /\ disk'[x].seq = mem'[x].seq /\ disk'[x].contacts = mem'[x].contacts
                    /\ mem'[x].addr \in Address(x) /\ disk'[x].addr \in Address(x)
                    /\ service'[x] \in Address(x)
                    /\ mem'[x].keys.kem.n <= drawn'[x]
                    /\ x \notin killed' => mem'[x].keys.kem.n = drawn'[x]
                    /\ mem'[x].contacts \in Seq(Known(x)')
                    /\ Len(mem'[x].contacts) <= MaxContacts
  BY DEF OwnInv
<1>1. CASE x # u
  <2>1. mem[x].contacts \in Seq(Known(x)')
    BY KnownStays, SeqMonotonic DEF RotationInv, OwnInv
  <2>2. /\ mem'[x] = mem[x] /\ disk'[x] = disk[x] /\ service'[x] = service[x]
        /\ drawn'[x] = drawn[x] /\ (x \in killed <=> x \in killed')
    BY <1>1 DEF StepOf
  <2> QED
    BY <2>1, <2>2 DEF RotationInv, OwnInv
<1>2. CASE x = u
  <2>1. mem[u].keys.kem.n <= drawn[u] /\ mem[u].keys.kem.n \in Nat
        /\ (u \notin killed => mem[u].keys.kem.n = drawn[u])
    BY KeysOf DEF RotationInv, OwnInv
  <2>2. mem'[u].keys.kem.n <= drawn'[u]
    BY <2>1, KeysStep
  <2>3. u \notin killed' => mem'[u].keys.kem.n = drawn'[u]
    BY <2>1, KeysStep, NewestKeys DEF StepOf
  <2> QED
    BY <1>2, <2>2, <2>3 DEF StepOf
<1> QED
  BY <1>1, <1>2

\* The invariant is kept by such a step, if the contacts are accounted for.
LEMMA InvStays ==
  ASSUME RotationInv, NEW u \in User, StepOf(u),
         mem'[u].contacts \in Seq(Known(u)'), Len(mem'[u].contacts) <= MaxContacts
  PROVE  RotationInv'
BY CodesStay, CertificatesStay, OwnStays DEF RotationInv, StepOf

-----------------------------------------------------------------------------
(* Every operation is such a step.                                         *)

\* A save leaves the same payload in memory and on disk, and changes no other.
LEMMA SaveEffect ==
  ASSUME RotationInv, NEW u \in User, NEW v \in Payload, Save(u, v)
  PROVE  /\ mem' \in [User -> Payload] /\ disk' \in [User -> Payload]
         /\ \A x \in User \ {u} : mem'[x] = mem[x] /\ disk'[x] = disk[x]
         /\ disk'[u] = mem'[u] /\ mem'[u].keys = v.keys /\ mem'[u].addr = v.addr
         /\ mem'[u].seq = v.seq + 1 /\ mem'[u].contacts = v.contacts
<1>1. Saved(v) \in Payload
  BY SavedPayload
<1>2. mem \in [User -> Payload] /\ disk \in [User -> Payload]
  BY DEF RotationInv, Shape
<1>3. mem' = [mem EXCEPT ![u] = Saved(v)] /\ disk' = [disk EXCEPT ![u] = Saved(v)]
  BY DEF Save
<1>4. /\ mem' \in [User -> Payload] /\ disk' \in [User -> Payload]
      /\ \A x \in User \ {u} : mem'[x] = mem[x] /\ disk'[x] = disk[x]
      /\ disk'[u] = Saved(v) /\ mem'[u] = Saved(v)
  BY <1>1, <1>2, <1>3
<1> QED
  BY <1>4, SavedPayload

\* After a start the address follows from the keys, in memory.
LEMMA StartEffect ==
  ASSUME RotationInv, NEW u \in User, NEW v \in Payload, v.keys \in Keys(u), StartFrom(u, v)
  PROVE  /\ mem' \in [User -> Payload] /\ disk' \in [User -> Payload]
         /\ service' \in [User -> Addresses] /\ codes' \subseteq [by : User, bundle : AnyBundle]
         /\ \A x \in User \ {u} :
              mem'[x] = mem[x] /\ disk'[x] = disk[x] /\ service'[x] = service[x]
         /\ disk'[u] = v /\ mem'[u].keys = v.keys /\ mem'[u].seq = v.seq
         /\ mem'[u].contacts = v.contacts
         /\ mem'[u].addr \in Address(u) /\ service'[u] \in Address(u)
         /\ \A c \in codes' \ codes : c.by = u /\ c.bundle = OurBundle(mem'[u])
<1> DEFINE addr == OnionAddress(v.keys)
           here == [v EXCEPT !.addr = addr]
<1>1. addr \in Address(u) /\ addr \in Addresses
  BY KeysOf
<1>2. /\ mem \in [User -> Payload] /\ disk \in [User -> Payload]
      /\ service \in [User -> Addresses] /\ codes \subseteq [by : User, bundle : AnyBundle]
  BY DEF RotationInv, Shape
<1>3. /\ mem' = [mem EXCEPT ![u] = here] /\ disk' = [disk EXCEPT ![u] = v]
      /\ service' = [service EXCEPT ![u] = addr] /\ codes' = codes \cup {Code(u, here)}
  BY DEF StartFrom
<1> HIDE DEF addr
<1>4. /\ here \in Payload /\ here.keys = v.keys /\ here.seq = v.seq
      /\ here.contacts = v.contacts /\ here.addr = addr
  BY <1>1 DEF Payload
<1> HIDE DEF here
<1>5. /\ mem' \in [User -> Payload] /\ disk' \in [User -> Payload]
      /\ service' \in [User -> Addresses]
      /\ \A x \in User \ {u} :
           mem'[x] = mem[x] /\ disk'[x] = disk[x] /\ service'[x] = service[x]
      /\ disk'[u] = v /\ mem'[u] = here /\ service'[u] = addr
  BY <1>1, <1>2, <1>3, <1>4
<1>6. Code(u, here).by = u /\ Code(u, here).bundle = OurBundle(here)
      /\ Code(u, here) \in [by : User, bundle : AnyBundle]
  BY <1>1, <1>4, BundleOf DEF Code, OurBundle
<1> QED
  BY <1>1, <1>2, <1>3, <1>4, <1>5, <1>6

\* What the invariant says of the payload of a user.
LEMMA OwnPayload ==
  ASSUME RotationInv, NEW u \in User
  PROVE  /\ mem[u] \in Payload /\ disk[u] \in Payload /\ mem[u].keys \in Keys(u)
         /\ disk[u].keys = mem[u].keys /\ disk[u].seq = mem[u].seq /\ mem[u].seq \in Nat
         /\ disk[u].contacts = mem[u].contacts /\ mem[u].contacts \in Seq(AnyContact)
         /\ mem[u].contacts \in Seq(Known(u)) /\ Len(mem[u].contacts) \in Nat
         /\ Len(mem[u].contacts) <= MaxContacts
         /\ mem[u].addr \in Address(u) /\ disk[u].addr \in Address(u)
         /\ service[u] \in Address(u)
<1>1. mem[u] \in Payload /\ disk[u] \in Payload
  BY DEF RotationInv, Shape
<1>2. mem[u].seq \in Nat /\ mem[u].contacts \in Seq(AnyContact)
  BY <1>1 DEF Payload
<1> QED
  BY <1>1, <1>2, LenProperties DEF RotationInv, OwnInv

\* The keys, number and address of a user who saves other contacts are as before.
LEMMA ContactsStep ==
  ASSUME RotationInv, NEW u \in User, NEW v \in Payload, Save(u, v),
         v.keys = mem[u].keys, v.addr = mem[u].addr, v.seq = mem[u].seq,
         service' = service, drawn' = drawn, codes' = codes, killed' = killed,
         ops' \in 0..MaxOps, net \subseteq net',
         \A m \in net' \ net : m.cert = Certificate(mem[u].keys, mem[u].seq, Zero)
  PROVE  StepOf(u) /\ mem'[u].contacts = v.contacts
<1>1. Shape'
  BY SaveEffect DEF RotationInv, Shape
<1> QED
  BY <1>1, SaveEffect, OwnPayload DEF StepOf

\* A code enters the list of contacts as its user published it.
LEMMA AddStep ==
  ASSUME RotationInv, NEW u \in User, NEW c \in codes, AddByCode(u, c)
  PROVE  RotationInv' /\ StepOf(u) /\ Len(mem'[u].contacts) # Len(mem[u].contacts)
<1> DEFINE e == [bundle |-> c.bundle, lastSeq |-> 0]
           v == [mem[u] EXCEPT !.contacts = Append(mem[u].contacts, e)]
<1>1. e \in Known(u) /\ e \in AnyContact
  BY DEF AddByCode, RotationInv, CodeInv, Known, Genuine, AnyContact
<1>2. Save(u, v) /\ Len(mem[u].contacts) < MaxContacts
  BY DEF AddByCode
<1> DEFINE t == Append(mem[u].contacts, e)
<1> HIDE DEF e
<1>3. t \in Seq(AnyContact) /\ t \in Seq(Known(u)) /\ Len(t) = Len(mem[u].contacts) + 1
  BY <1>1, OwnPayload, AppendProperties
<1>4. /\ v \in Payload /\ v.keys = mem[u].keys /\ v.addr = mem[u].addr
      /\ v.seq = mem[u].seq /\ v.contacts = t
  BY <1>3, OwnPayload DEF Payload
<1> HIDE DEF v, t
<1>5. Len(t) <= MaxContacts
  BY <1>2, <1>3, OwnPayload, RotationConstants
<1>6. ops' \in 0..MaxOps
  BY RotationConstants DEF AddByCode, Op, RotationInv, Shape
<1>7. StepOf(u) /\ mem'[u].contacts = v.contacts
  BY <1>2, <1>4, <1>6, ContactsStep DEF AddByCode
<1>8. mem'[u].contacts \in Seq(Known(u)')
  BY <1>3, <1>4, <1>7, KnownStays, SeqMonotonic
<1> QED
  BY <1>3, <1>4, <1>5, <1>7, <1>8, OwnPayload, InvStays

\* A removed entry leaves the others.
LEMMA DeleteStep ==
  ASSUME RotationInv, NEW u \in User, NEW i \in DOMAIN mem[u].contacts, Delete(u, i)
  PROVE  RotationInv' /\ StepOf(u) /\ Len(mem'[u].contacts) # Len(mem[u].contacts)
<1> DEFINE v == [mem[u] EXCEPT !.contacts = RemoveAt(mem[u].contacts, i)]
<1>1. i \in 1..Len(mem[u].contacts)
  BY OwnPayload, LenProperties
<1>2. Save(u, v)
  BY DEF Delete
<1>3. /\ RemoveAt(mem[u].contacts, i) \in Seq(AnyContact)
      /\ RemoveAt(mem[u].contacts, i) \in Seq(Known(u))
      /\ Len(RemoveAt(mem[u].contacts, i)) = Len(mem[u].contacts) - 1
  BY <1>1, OwnPayload, RemoveAtIsSeq
<1>4. /\ v \in Payload /\ v.keys = mem[u].keys /\ v.addr = mem[u].addr
      /\ v.seq = mem[u].seq /\ v.contacts = RemoveAt(mem[u].contacts, i)
  BY <1>3, OwnPayload DEF Payload
<1> HIDE DEF v
<1>5. ops' \in 0..MaxOps
  BY RotationConstants DEF Delete, Op, RotationInv, Shape
<1>6. StepOf(u) /\ mem'[u].contacts = v.contacts
  BY <1>2, <1>4, <1>5, ContactsStep DEF Delete
<1>7. mem'[u].contacts \in Seq(Known(u)')
  BY <1>3, <1>4, <1>6, KnownStays, SeqMonotonic
<1> QED
  BY <1>3, <1>4, <1>6, <1>7, OwnPayload, RotationConstants, InvStays

\* A revocation is sent to every contact, and changes nothing of one's own.
LEMMA RevokeStep ==
  ASSUME RotationInv, NEW u \in User, Revoke(u)
  PROVE  RotationInv' /\ StepOf(u) /\ mem'[u].contacts = mem[u].contacts
<1>1. Save(u, mem[u])
  BY DEF Revoke
<1>2. ops' \in 0..MaxOps
  BY RotationConstants DEF Revoke, Op, RotationInv, Shape
<1>3. /\ net \subseteq net'
      /\ \A m \in net' \ net : m.cert = Certificate(mem[u].keys, mem[u].seq, Zero)
  BY DEF Revoke, Broadcast
<1>4. mem[u] \in Payload
  BY OwnPayload
<1>5. StepOf(u) /\ mem'[u].contacts = mem[u].contacts
  BY <1>1, <1>2, <1>3, <1>4, ContactsStep DEF Revoke
<1>6. mem'[u].contacts \in Seq(Known(u)')
  BY <1>5, OwnPayload, KnownStays, SeqMonotonic
<1> QED
  BY <1>5, <1>6, OwnPayload, InvStays

\* What a rotation sends, whether or not it is completed.
LEMMA RotationSent ==
  ASSUME RotationInv, NEW u \in User, DrawKeys(u),
         net' = net \cup Broadcast(u, BundleFrom(NewKeys(u), mem[u].addr, <<>>))
  PROVE  /\ drawn' \in [User -> 1..MaxKeys] /\ drawn'[u] = drawn[u] + 1
         /\ \A x \in User \ {u} : drawn'[x] = drawn[x]
         /\ NewKeys(u) \in Keys(u) /\ net \subseteq net'
         /\ \A m \in net' \ net :
              m.cert = Certificate(mem[u].keys, mem[u].seq,
                                   BundleFrom(NewKeys(u), mem[u].addr, <<>>))
<1>1. drawn \in [User -> 1..MaxKeys] /\ drawn[u] \in 1..MaxKeys /\ drawn[u] < MaxKeys
  BY DEF RotationInv, Shape, DrawKeys
<1>2. drawn[u] + 1 \in 1..MaxKeys
  BY <1>1, RotationConstants
<1>3. /\ drawn' \in [User -> 1..MaxKeys] /\ drawn'[u] = drawn[u] + 1
      /\ \A x \in User \ {u} : drawn'[x] = drawn[x]
  BY <1>1, <1>2 DEF DrawKeys
<1>4. NewKeys(u) \in Keys(u)
  BY <1>2, GeneratedKeys DEF NewKeys
<1>5. /\ net \subseteq net'
      /\ \A m \in net' \ net :
           m.cert = Certificate(mem[u].keys, mem[u].seq,
                                BundleFrom(NewKeys(u), mem[u].addr, <<>>))
  BY DEF Broadcast
<1> QED
  BY <1>3, <1>4, <1>5

\* A rotation: the new keys, with a higher number than the certificate has.
LEMMA RotateStep ==
  ASSUME RotationInv, NEW u \in User, Rotate(u)
  PROVE  RotationInv' /\ StepOf(u) /\ mem'[u].contacts = mem[u].contacts
<1> DEFINE v == [mem[u] EXCEPT !.keys = NewKeys(u)]
<1>1. Save(u, v) /\ codes' = codes \cup {Code(u, v)} /\ DrawKeys(u)
      /\ net' = net \cup Broadcast(u, BundleFrom(NewKeys(u), mem[u].addr, <<>>))
      /\ service' = service /\ killed' = killed
  BY DEF Rotate, Rotated
<1>2. ops' \in 0..MaxOps
  BY RotationConstants DEF Rotate, Op, RotationInv, Shape
<1>3. NewKeys(u) \in Keys(u)
  BY <1>1, RotationSent
<1>4. /\ v \in Payload /\ v.keys = NewKeys(u) /\ v.addr = mem[u].addr
      /\ v.seq = mem[u].seq /\ v.contacts = mem[u].contacts
  BY <1>3, OwnPayload DEF Payload
<1> HIDE DEF v
<1>5. /\ mem' \in [User -> Payload] /\ disk' \in [User -> Payload]
      /\ \A x \in User \ {u} : mem'[x] = mem[x] /\ disk'[x] = disk[x]
      /\ disk'[u] = mem'[u] /\ mem'[u].keys = NewKeys(u) /\ mem'[u].addr = mem[u].addr
      /\ mem'[u].seq = mem[u].seq + 1 /\ mem'[u].contacts = mem[u].contacts
  BY <1>1, <1>4, SaveEffect
<1>6. Code(u, v) = [by |-> u, bundle |-> OurBundle(mem'[u])]
      /\ Code(u, v) \in [by : User, bundle : AnyBundle]
  <2>1. OurBundle(mem'[u]) = OurBundle(v) /\ Code(u, v) = [by |-> u, bundle |-> OurBundle(v)]
    BY <1>4, <1>5 DEF Code, OurBundle
  <2>2. OurBundle(v) \in AnyBundle
    BY <1>3, <1>4, OwnPayload, KeysOf, BundleOf DEF OurBundle
  <2> QED
    BY <2>1, <2>2
<1>7. codes' \subseteq [by : User, bundle : AnyBundle]
      /\ \A c \in codes' \ codes : c.by = u /\ c.bundle = OurBundle(mem'[u])
  BY <1>1, <1>6 DEF RotationInv, Shape
<1>8. Shape'
  BY <1>1, <1>2, <1>5, <1>7, RotationSent DEF RotationInv, Shape
<1>9. StepOf(u)
  BY <1>1, <1>3, <1>5, <1>7, <1>8, RotationSent, OwnPayload DEF StepOf
<1>10. mem'[u].contacts \in Seq(Known(u)')
  BY <1>5, <1>9, OwnPayload, KnownStays, SeqMonotonic
<1> QED
  BY <1>5, <1>9, <1>10, OwnPayload, InvStays

\* A rotation that a kill cuts short: the keys of before, with the new ones sent.
LEMMA RotateKilledStep ==
  ASSUME RotationInv, NEW u \in User, RotateKilled(u)
  PROVE  RotationInv' /\ StepOf(u) /\ mem'[u].contacts = mem[u].contacts
<1>1. StartFrom(u, disk[u]) /\ DrawKeys(u) /\ killed' = killed \cup {u}
      /\ net' = net \cup Broadcast(u, BundleFrom(NewKeys(u), mem[u].addr, <<>>))
  BY DEF RotateKilled
<1>2. ops' \in 0..MaxOps
  BY RotationConstants DEF RotateKilled, Op, RotationInv, Shape
<1>3. disk[u] \in Payload /\ disk[u].keys \in Keys(u)
  BY OwnPayload
<1>4. Shape'
  BY <1>1, <1>2, <1>3, StartEffect, RotationSent DEF RotationInv, Shape
<1>5. StepOf(u)
  BY <1>1, <1>3, <1>4, StartEffect, RotationSent, OwnPayload DEF StepOf
<1>6. mem'[u].contacts = mem[u].contacts
  BY <1>1, <1>3, StartEffect, OwnPayload
<1>7. mem'[u].contacts \in Seq(Known(u)')
  BY <1>5, <1>6, OwnPayload, KnownStays, SeqMonotonic
<1> QED
  BY <1>5, <1>6, <1>7, OwnPayload, InvStays

\* A restart: the same keys and contacts, at the address that follows from them.
LEMMA RestartStep ==
  ASSUME RotationInv, NEW u \in User, NEW clean \in BOOLEAN, Restart(u, clean)
  PROVE  RotationInv' /\ StepOf(u) /\ mem'[u].contacts = mem[u].contacts
<1>1. PICK v \in {Saved(mem[u]), disk[u]} :
        StartFrom(u, v) /\ net' = net /\ drawn' = drawn /\ killed' = killed
  BY DEF Restart
<1>2. ops' \in 0..MaxOps
  BY RotationConstants DEF Restart, Op, RotationInv, Shape
<1>3. /\ v \in Payload /\ v.keys \in Keys(u) /\ v.keys = mem[u].keys
      /\ v.addr \in Address(u) /\ v.contacts = mem[u].contacts /\ mem[u].seq <= v.seq
  BY OwnPayload, SavedPayload
<1>4. Shape'
  BY <1>1, <1>2, <1>3, StartEffect DEF RotationInv, Shape
<1>5. StepOf(u)
  BY <1>1, <1>3, <1>4, StartEffect DEF StepOf
<1>6. mem'[u].contacts = mem[u].contacts
  BY <1>1, <1>3, StartEffect
<1>7. mem'[u].contacts \in Seq(Known(u)')
  BY <1>5, <1>6, OwnPayload, KnownStays, SeqMonotonic
<1> QED
  BY <1>5, <1>6, <1>7, OwnPayload, InvStays

\* What a certificate that is applied says: of the entry it is for, a newer key
\* of the same user.
LEMMA CertificateFor ==
  ASSUME RotationInv, NEW u \in User, NEW m \in net, Revoked(mem[u], m.cert) # 0
  PROVE  LET i == Revoked(mem[u], m.cert)
             c == mem[u].contacts[i]
             b == m.cert.body IN
         /\ i \in 1..Len(mem[u].contacts) /\ c \in Known(u) /\ c.bundle.kem = b.revoked
         /\ b.revoked \in KemKeys /\ b.revoked.of # u /\ b.seq \in Nat \ {0}
         /\ b.new # Zero => /\ Genuine(b.new) /\ b.new.kem.of = b.revoked.of
                            /\ b.revoked.n < b.new.kem.n
<1> DEFINE i == Revoked(mem[u], m.cert)
<1>1. i \in 1..Len(mem[u].contacts) /\ mem[u].contacts[i] \in Known(u)
      /\ mem[u].contacts[i].bundle.kem = m.cert.body.revoked
  BY OwnPayload, RevokedEntry
<1> HIDE DEF i
<1>2. mem[u].contacts[i].bundle.kem.of # u
  BY <1>1 DEF Known
<1> QED
  BY <1>1, <1>2 DEF i, RotationInv, CertInv

\* A certificate removes an entry, or replaces it by what the certificate has.
LEMMA ReceiveEffect ==
  ASSUME RotationInv, NEW u \in User, NEW m \in net, Receive(u, m)
  PROVE  LET i == Revoked(mem[u], m.cert)
             s == mem[u].contacts
             new == [bundle |-> m.cert.body.new, lastSeq |-> m.cert.body.seq] IN
         /\ StepOf(u)
         /\ \/ mem'[u].contacts = RemoveAt(s, i)
            \/ /\ mem'[u].contacts = [s EXCEPT ![i] = new] /\ new \in Known(u)
               /\ m.cert.body.new # Zero
<1> DEFINE i == Revoked(mem[u], m.cert)
           s == mem[u].contacts
           new == [bundle |-> m.cert.body.new, lastSeq |-> m.cert.body.seq]
           v == Applied(mem[u], i, m.cert)
<1>1. i \in 1..Len(s) /\ Save(u, v)
  BY CertificateFor DEF Receive
<1>2. ops' \in 0..MaxOps
  BY DEF Receive, RotationInv, Shape
<1>3. mem[u] \in Payload /\ s \in Seq(AnyContact)
  BY OwnPayload
<1>4. CASE m.cert.body.new = Zero
  <2> DEFINE t == RemoveAt(s, i)
  <2>1. t \in Seq(AnyContact)
    BY <1>1, <1>3, RemoveAtIsSeq
  <2>2. v = [mem[u] EXCEPT !.contacts = t]
    BY <1>4 DEF Applied
  <2> HIDE DEF t, v, i
  <2>3. /\ v \in Payload /\ v.keys = mem[u].keys /\ v.addr = mem[u].addr
        /\ v.seq = mem[u].seq /\ v.contacts = t
    BY <1>3, <2>1, <2>2 DEF Payload
  <2>4. StepOf(u) /\ mem'[u].contacts = t
    BY <1>1, <1>2, <2>3, ContactsStep DEF Receive
  <2> QED
    BY <2>4 DEF t, i
<1>5. CASE m.cert.body.new # Zero
  <2> DEFINE t == [s EXCEPT ![i] = new]
  <2>1. new \in Known(u) /\ new \in AnyContact
    <3>1. /\ m.cert.body.seq \in Nat /\ Genuine(m.cert.body.new)
          /\ m.cert.body.new.kem.of # u
      BY <1>1, <1>5, CertificateFor DEF Receive
    <3>2. new \in AnyContact
      BY <3>1 DEF Genuine, AnyContact
    <3> QED
      BY <1>5, <3>1, <3>2 DEF Known
  <2>2. v = [mem[u] EXCEPT !.contacts = t]
    BY <1>5 DEF Applied
  <2> HIDE DEF v, i, new
  <2>3. t \in Seq(AnyContact)
    BY <1>1, <1>3, <2>1, ExceptSeq
  <2> HIDE DEF t
  <2>4. /\ v \in Payload /\ v.keys = mem[u].keys /\ v.addr = mem[u].addr
        /\ v.seq = mem[u].seq /\ v.contacts = t
    BY <1>3, <2>2, <2>3 DEF Payload
  <2>5. StepOf(u) /\ mem'[u].contacts = t
    BY <1>1, <1>2, <2>4, ContactsStep DEF Receive
  <2> QED
    BY <1>5, <2>1, <2>5 DEF t, i, new
<1> QED
  BY <1>4, <1>5

\* What a certificate leaves in the list of contacts is accounted for.
LEMMA ReceiveStep ==
  ASSUME RotationInv, NEW u \in User, NEW m \in net, Receive(u, m)
  PROVE  RotationInv'
<1> DEFINE i == Revoked(mem[u], m.cert)
           s == mem[u].contacts
           new == [bundle |-> m.cert.body.new, lastSeq |-> m.cert.body.seq]
<1>1. i \in 1..Len(s) /\ s \in Seq(Known(u)) /\ Len(s) \in Nat /\ Len(s) <= MaxContacts
  BY OwnPayload, CertificateFor DEF Receive
<1>2. StepOf(u) /\ \/ mem'[u].contacts = RemoveAt(s, i)
                   \/ mem'[u].contacts = [s EXCEPT ![i] = new] /\ new \in Known(u)
  BY ReceiveEffect
<1> HIDE DEF i, s, new
<1>3. /\ mem'[u].contacts \in Seq(Known(u))
      /\ Len(mem'[u].contacts) = Len(s) \/ Len(mem'[u].contacts) = Len(s) - 1
  <2>1. CASE mem'[u].contacts = RemoveAt(s, i)
    BY <1>1, <2>1, RemoveAtIsSeq
  <2>2. CASE mem'[u].contacts = [s EXCEPT ![i] = new] /\ new \in Known(u)
    BY <1>1, <2>2, ExceptSeq
  <2> QED
    BY <1>2, <2>1, <2>2
<1>4. mem'[u].contacts \in Seq(Known(u)')
  BY <1>2, <1>3, KnownStays, SeqMonotonic
<1>5. Len(mem'[u].contacts) <= MaxContacts
  BY <1>1, <1>3, RotationConstants
<1> QED
  BY <1>2, <1>4, <1>5, InvStays

-----------------------------------------------------------------------------
(* The theorems.                                                           *)

\* At the start everyone has the first keys, and nobody any contact.
LEMMA InvInit == Init => RotationInv
<1> SUFFICES ASSUME Init  PROVE RotationInv
  OBVIOUS
<1>1. PICK old \in SUBSET User :
        /\ mem = [u \in User |-> FirstVault(u, u \in old)]
        /\ codes = {Code(u, mem[u]) : u \in User}
                     \cup {[by |-> u, bundle |-> OldBundle(OurBundle(mem[u]))] : u \in old}
  BY DEF Init
<1>2. /\ disk = mem /\ service = [u \in User |-> mem[u].addr] /\ net = {}
      /\ drawn = [u \in User |-> 1] /\ ops = 0 /\ killed = {}
  BY DEF Init
<1>3. ASSUME NEW u \in User
      PROVE  /\ mem[u] \in Payload /\ mem[u].keys \in Keys(u) /\ mem[u].keys.kem = KemKey(u, 1)
             /\ mem[u].addr \in Address(u) /\ mem[u].contacts = <<>> /\ mem[u].seq = 1
             /\ u \in old => mem[u].keys.ratchet = Zero
  <2>1. PICK k \in Keys(u) :
          /\ mem[u] = [keys |-> k, addr |-> OnionAddress(k), seq |-> 1, contacts |-> <<>>]
          /\ k.kem = KemKey(u, 1) /\ (u \in old => k.ratchet = Zero)
    <3>1. CASE u \in old
      <4>1. mem[u] = FirstVault(u, TRUE)
        BY <1>1, <3>1, Zenon
      <4>2. FirstKeys(u, TRUE) \in Keys(u) /\ FirstKeys(u, TRUE).kem = KemKey(u, 1)
            /\ FirstKeys(u, TRUE).ratchet = Zero
        BY DEF Keys, FirstKeys, GenerateKeys
      <4> QED
        BY <4>1, <4>2, Zenon DEF FirstVault
    <3>2. CASE u \notin old
      <4>1. mem[u] = [keys |-> GenerateKeys(u, 1), addr |-> OnionAddress(GenerateKeys(u, 1)),
                      seq |-> 1, contacts |-> <<>>]
        BY <1>1, <3>2 DEF FirstVault, FirstKeys
      <4> QED
        BY <3>2, <4>1, RotationConstants, GeneratedKeys
    <3> QED
      BY <3>1, <3>2
  <2> QED
    BY <2>1, KeysOf, EmptySeq DEF Payload
<1>4. ASSUME NEW u \in User
      PROVE  /\ mem[u].keys.kem.of = u /\ mem[u].keys.kem.n = 1 /\ drawn[u] = 1
             /\ Address(u) \subseteq Addresses
  <2>1. KemKey(u, 1).of = u /\ KemKey(u, 1).n = 1
    BY DEF KemKey
  <2> QED
    BY <1>2, <1>3, <2>1, KeysOf
<1>5. CodeInv /\ codes \subseteq [by : User, bundle : AnyBundle]
  <2> SUFFICES ASSUME NEW c \in codes
               PROVE  c.bundle.kem.of = c.by /\ Genuine(c.bundle)
                      /\ c \in [by : User, bundle : AnyBundle]
    BY DEF CodeInv
  <2>1. ASSUME NEW u \in User
        PROVE  LET k == mem[u].keys  b == OurBundle(mem[u]) IN
               /\ b \in AnyBundle /\ b.kem = k.kem /\ SignedPrekey(b) = RatchetSecret(k)
    BY <1>3, <1>4, BundleOf DEF OurBundle
  <2>2. CASE \E u \in User : c = Code(u, mem[u])
    BY <2>1, <2>2, <1>2, <1>4 DEF Code, Genuine
  <2>3. CASE \E u \in old : c = [by |-> u, bundle |-> OldBundle(OurBundle(mem[u]))]
    <3>1. PICK u \in old : c = [by |-> u, bundle |-> OldBundle(OurBundle(mem[u]))]
      BY <2>3
    <3>2. u \in User
      OBVIOUS
    <3> DEFINE b == OurBundle(mem[u])
    <3>3. b \in AnyBundle /\ b.kem = mem[u].keys.kem
      BY <3>2, <2>1
    <3> HIDE DEF b
    <3>4. /\ OldBundle(b) \in AnyBundle /\ OldBundle(b).kem = b.kem
          /\ SignedPrekey(OldBundle(b)) = b.kem
      BY <3>3 DEF OldBundle, AnyBundle, SignedPrekey
    <3>5. RatchetSecret(mem[u].keys) = b.kem
      BY <3>1, <3>2, <3>3, <1>3 DEF RatchetSecret
    <3>6. c = [by |-> u, bundle |-> OldBundle(b)]
      BY <3>1 DEF b
    <3> QED
      BY <3>2, <3>3, <3>4, <3>5, <3>6, <1>2, <1>4 DEF Genuine
  <2> QED
    BY <1>1, <2>2, <2>3 DEF Code
<1>6. Shape
  BY <1>1, <1>2, <1>3, <1>4, <1>5, RotationConstants DEF Shape
<1>7. OwnInv
  <2>1. ASSUME NEW u \in User
        PROVE  mem[u].contacts \in Seq(Known(u)) /\ Len(mem[u].contacts) <= MaxContacts
    <3>1. <<>> \in Seq(Known(u)) /\ Len(<<>>) = 0
      BY EmptySeq
    <3>2. 0 <= MaxContacts
      BY RotationConstants
    <3> QED
      BY <1>3, <3>1, <3>2, Zenon
  <2>2. ASSUME NEW u \in User
        PROVE  service[u] = mem[u].addr /\ mem[u].keys.kem.n = drawn[u] /\ drawn[u] \in Nat
    BY <1>2, <1>4
  <2>3. disk = mem
    BY <1>2
  <2> QED
    BY <1>3, <2>1, <2>2, <2>3 DEF OwnInv
<1> QED
  BY <1>2, <1>5, <1>6, <1>7 DEF RotationInv, CertInv

\* Every step keeps the invariant.
LEMMA InvNext ==
  ASSUME RotationInv, [Next]_vars
  PROVE  RotationInv'
<1>1. CASE UNCHANGED vars
  <2>1. \A b : Genuine(b)' <=> Genuine(b)
    BY <1>1 DEF vars, Genuine
  <2>2. \A x \in User : Known(x)' = Known(x)
    BY <1>1, <2>1 DEF vars, Known
  <2>3. Shape' /\ CodeInv' /\ CertInv'
    BY <1>1, <2>1 DEF vars, RotationInv, Shape, CodeInv, CertInv
  <2>4. OwnInv'
    BY <1>1, <2>2 DEF vars, RotationInv, OwnInv
  <2> QED
    BY <2>3, <2>4 DEF RotationInv
<1>2. ASSUME NEW u \in User, UserStep(u)  PROVE RotationInv'
  BY <1>2, AddStep, DeleteStep, RotateStep, RotateKilledStep, RevokeStep, RestartStep
     DEF UserStep
<1>3. ASSUME NEW u \in User, NEW m \in net, Receive(u, m)  PROVE RotationInv'
  BY <1>3, ReceiveStep
<1> QED
  BY <1>1, <1>2, <1>3 DEF Next

\* The invariant holds in every state.
LEMMA Invariant == Spec => []RotationInv
<1>1. RotationInv /\ [Next]_vars => RotationInv'
  BY InvNext
<1> QED
  BY <1>1, InvInit, PTL DEF Spec

\* Everything has its type: every user holds keys of their own, and no entry of a
\* list of contacts is of its owner.
THEOREM TypesCorrect == Spec => []TypeOK
<1>1. RotationInv => TypeOK
  <2> SUFFICES ASSUME RotationInv  PROVE TypeOK
    OBVIOUS
  <2>1. ASSUME NEW u \in User, NEW v \in {mem[u], disk[u]}
        PROVE  /\ v.keys \in Keys(u) /\ v.addr \in Address(u) /\ v.seq \in Nat
               /\ \A c \in Range(v.contacts) : c.bundle.kem.of \in User \ {u} /\ c.lastSeq \in Nat
               /\ Len(v.contacts) <= MaxContacts
    <3>1. ASSUME NEW c \in Range(v.contacts)
          PROVE  c.bundle.kem.of \in User \ {u} /\ c.lastSeq \in Nat
      <4>1. c \in Known(u)
        BY OwnPayload, ElementOfSeq, LenProperties DEF Range
      <4> QED
        BY <4>1, BundleKey DEF Known, AnyContact, AnyBundle
    <3> QED
      BY <3>1, OwnPayload
  <2>2. ASSUME NEW u \in User
        PROVE  service[u] \in Address(u) /\ drawn[u] \in 1..MaxKeys
    BY OwnPayload DEF RotationInv, Shape
  <2> QED
    BY <2>1, <2>2 DEF TypeOK, RotationInv, Shape
<1> QED
  BY <1>1, Invariant, PTL

\* Whoever missed no certificate follows every rotation: a certificate for the key
\* of an entry has a higher number than the one the entry is from.
THEOREM ChainNeverBreaks == Spec => []ChainUnbroken
<1>1. RotationInv => ChainUnbroken
  <2> SUFFICES ASSUME RotationInv, NEW u \in User, NEW m \in net, Revoked(mem[u], m.cert) # 0
               PROVE  ~Stale(mem[u], Revoked(mem[u], m.cert), m.cert)
    BY DEF ChainUnbroken
  <2> DEFINE c == mem[u].contacts[Revoked(mem[u], m.cert)]
  <2>1. c \in Known(u) /\ c.bundle.kem = m.cert.body.revoked /\ m.cert.body.seq \in Nat \ {0}
    BY CertificateFor
  <2>2. CASE c.lastSeq = 0
    BY <2>1, <2>2 DEF Stale
  <2>3. CASE c.lastSeq # 0
    <3>1. PICK l \in net : /\ l.cert.body.new # Zero /\ l.cert.body.new.kem = c.bundle.kem
                           /\ l.cert.body.seq = c.lastSeq
      BY <2>1, <2>3 DEF Known
    <3>2. l.cert.body.seq < m.cert.body.seq /\ l.cert.body.seq \in Nat
      BY <2>1, <3>1 DEF RotationInv, CertInv
    <3> QED
      BY <2>1, <3>1, <3>2 DEF Stale
  <2> QED
    BY <2>2, <2>3
<1> QED
  BY <1>1, Invariant, PTL

\* Whatever certificates are lost, late or repeated, an entry never gets another
\* user's key, nor an older key of its own user.
THEOREM KeysNeverRollBack == Spec => NoKeyRollback
<1>1. ASSUME RotationInv, Next, NEW x \in User,
             Len(mem[x].contacts) = Len(mem'[x].contacts), NEW j \in DOMAIN mem[x].contacts
      PROVE  /\ mem[x].contacts[j].bundle.kem.of = mem'[x].contacts[j].bundle.kem.of
             /\ mem[x].contacts[j].bundle.kem.n <= mem'[x].contacts[j].bundle.kem.n
  <2>1. mem[x].contacts[j].bundle.kem.n \in Nat
    <3>1. mem[x].contacts[j] \in AnyContact
      BY <1>1, OwnPayload, ElementOfSeq, LenProperties
    <3>2. mem[x].contacts[j].bundle.kem \in KemKeys
      BY <3>1 DEF AnyContact, AnyBundle
    <3> QED
      BY <3>2, BundleKey
  <2>2. CASE mem'[x].contacts = mem[x].contacts
    BY <2>1, <2>2
  <2>3. ASSUME NEW u \in User, UserStep(u)  PROVE mem'[x].contacts = mem[x].contacts
    <3>1. /\ StepOf(u)
          /\ \/ mem'[u].contacts = mem[u].contacts
             \/ Len(mem'[u].contacts) # Len(mem[u].contacts)
      BY <1>1, <2>3, AddStep, DeleteStep, RotateStep, RotateKilledStep, RevokeStep,
         RestartStep DEF UserStep
    <3> QED
      BY <1>1, <3>1 DEF StepOf
  <2>4. ASSUME NEW u \in User, NEW m \in net, Receive(u, m)
        PROVE  /\ mem[x].contacts[j].bundle.kem.of = mem'[x].contacts[j].bundle.kem.of
               /\ mem[x].contacts[j].bundle.kem.n <= mem'[x].contacts[j].bundle.kem.n
    <3> DEFINE i == Revoked(mem[u], m.cert)
               s == mem[u].contacts
               new == [bundle |-> m.cert.body.new, lastSeq |-> m.cert.body.seq]
    <3>1. StepOf(u) /\ \/ mem'[u].contacts = RemoveAt(s, i)
                       \/ mem'[u].contacts = [s EXCEPT ![i] = new] /\ m.cert.body.new # Zero
      BY <1>1, <2>4, ReceiveEffect
    <3>2. CASE x # u
      BY <2>2, <3>1, <3>2 DEF StepOf
    <3>3. CASE x = u
      <4>1. i \in 1..Len(s) /\ s \in Seq(AnyContact) /\ Len(s) \in Nat
        BY <1>1, <2>4, OwnPayload, CertificateFor DEF Receive
      <4>2. s[i].bundle.kem = m.cert.body.revoked
            /\ (m.cert.body.new # Zero =>
                  /\ Genuine(m.cert.body.new)
                  /\ m.cert.body.new.kem.of = m.cert.body.revoked.of
                  /\ m.cert.body.revoked.n < m.cert.body.new.kem.n)
        BY <1>1, <2>4, CertificateFor DEF Receive
      <4>3. CASE mem'[u].contacts = RemoveAt(s, i)
        <5>1. Len(RemoveAt(s, i)) = Len(s) - 1
          BY <4>1, RemoveAtIsSeq
        <5> HIDE DEF i
        <5> QED
          BY <1>1, <3>3, <4>1, <4>3, <5>1
      <4>4. CASE mem'[u].contacts = [s EXCEPT ![i] = new] /\ m.cert.body.new # Zero
        <5> HIDE DEF i, new
        <5>1. j \in 1..Len(s) /\ mem'[x].contacts[j] = IF j = i THEN new ELSE s[j]
          BY <3>3, <4>1, <4>4, LenProperties
        <5>2. new.bundle = m.cert.body.new
          BY DEF new
        <5>3. CASE j = i
          <6>1. s[j].bundle.kem = m.cert.body.revoked
            BY <4>2, <5>3
          <6>2. mem'[x].contacts[j].bundle = m.cert.body.new
            BY <5>1, <5>2, <5>3
          <6>3. m.cert.body.new.kem.n \in Nat
            <7>1. m.cert.body.new.kem \in KemKeys
              BY <4>2, <4>4 DEF Genuine, AnyBundle
            <7> QED
              BY <7>1, BundleKey
          <6> QED
            BY <2>1, <3>3, <4>2, <4>4, <6>1, <6>2, <6>3
        <5>4. CASE j # i
          BY <2>1, <3>3, <5>1, <5>4
        <5> QED
          BY <5>3, <5>4
      <4> QED
        BY <3>1, <4>3, <4>4
    <3> QED
      BY <3>2, <3>3
  <2> QED
    BY <1>1, <2>2, <2>3, <2>4 DEF Next
<1>2. RotationInv /\ [Next]_vars => [KeysForward]_vars
  BY <1>1 DEF KeysForward
<1> QED
  BY <1>2, Invariant, PTL DEF Spec, NoKeyRollback

\* Who has the newest bundle of a user agrees with the user on a session key,
\* from whatever version the bundle is, unless a kill in a rotation lost the keys.
THEOREM HandshakesAgree == Spec => []HandshakeAgrees
<1>1. RotationInv => HandshakeAgrees
  <2> SUFFICES ASSUME RotationInv, NEW w \in User, NEW u \in User \ killed,
                      NEW i \in DOMAIN mem[w].contacts,
                      Newest(u, mem[w].contacts[i].bundle)
               PROVE  LET m == InitMessage(mem[w].keys, mem[w].addr,
                                           mem[w].contacts[i].bundle, [eph |-> w]) IN
                      BobAccepts(disk[u].keys, <<>>, m) /\ BobAccepts(mem[u].keys, <<>>, m)
    BY Zenon DEF HandshakeAgrees
  <2> DEFINE k == mem[u].keys
             b == mem[w].contacts[i].bundle
             m == InitMessage(mem[w].keys, mem[w].addr, b, [eph |-> w])
  <2>1. Genuine(b) /\ b \in AnyBundle
    <3>1. mem[w].contacts[i] \in Known(w)
      BY OwnPayload, ElementOfSeq, LenProperties
    <3> QED
      BY <3>1, Zenon DEF Known, Genuine
  <2>2. k = disk[u].keys /\ k \in Keys(u) /\ k.kem.n = drawn[u]
    BY OwnPayload DEF RotationInv, OwnInv
  <2>3. b.kem = k.kem
    <3>1. b.kem \in KemKeys /\ b.kem.of = u /\ b.kem.n = drawn[u]
      BY <2>1 DEF Newest, AnyBundle
    <3>2. b.kem = KemKey(u, drawn[u])
      BY <3>1, BundleKey
    <3> QED
      BY <2>2, <3>2, KeysOf
  <2>4. SignedPrekey(b) = RatchetSecret(k) /\ b.opks = <<>>
    BY <2>1, <2>2, <2>3 DEF Genuine, Newest, AnyBundle
  <2> HIDE DEF b, k
  <2>5. /\ m.opk = Zero /\ m.eph = [eph |-> w] /\ m.identity.kem = mem[w].keys.kem
        /\ m.ct = Encapsulate(b, [eph |-> w]) /\ m.mac = AliceKey(mem[w].keys, b, [eph |-> w])
    BY <2>4 DEF InitMessage, BundleFrom
  <2>6. Decapsulate(k, m.eph, m.ct) = m.ct
    <3>1. Encapsulate(b, m.eph) = [dh |-> {m.eph, k.kem}, to |-> k.kem, secret |-> m.eph]
      BY <2>3 DEF Encapsulate, DH
    <3>2. {m.eph, k.kem} = {k.kem, m.eph}
      OBVIOUS
    <3>3. m.ct = [dh |-> {m.eph, k.kem}, to |-> k.kem, secret |-> m.eph]
      BY <2>5, <3>1
    <3> HIDE DEF m
    <3> QED
      BY <3>2, <3>3 DEF Decapsulate, DH
  <2> HIDE DEF m
  <2>7. AliceKey(mem[w].keys, b, [eph |-> w]) = BobKey(k, m)
    BY <2>3, <2>4, <2>5, <2>6 DEF AliceKey, BobKey, SessionKey, DH
  <2>8. BobAccepts(k, <<>>, m)
    BY <2>5, <2>7 DEF BobAccepts
  <2> QED
    BY <2>2, <2>8 DEF m, b, k
<1> QED
  BY <1>1, Invariant, PTL

-----------------------------------------------------------------------------
(* The handshake and the certificates alone, for any keys.                 *)

\* Bob computes the key that Alice sealed her first message with exactly if her bundle
\* has his key and the ratchet key he answers with (perform_handshake_alice and _bob);
\* of the one-time prekey both have the same.
THEOREM KeysAgree ==
  ASSUME NEW alice, NEW bob, NEW b, NEW addr, NEW eph,
         b.opks # <<>> => Head(b.opks) # Zero
  PROVE  LET m == InitMessage(alice, addr, b, eph) IN
         m.mac = BobKey(bob, m) <=> b.kem = bob.kem /\ SignedPrekey(b) = RatchetSecret(bob)
<1> DEFINE m == InitMessage(alice, addr, b, eph)
           opk == IF b.opks = <<>> THEN Zero ELSE Head(b.opks)
<1>1. \A x, y, z : {x, y} = {z, x} <=> y = z
  OBVIOUS
<1>2. /\ m.identity.kem = alice.kem /\ m.eph = eph /\ m.opk = opk
      /\ m.ct = Encapsulate(b, eph) /\ m.mac = AliceKey(alice, b, eph)
  BY DEF InitMessage, BundleFrom
<1> HIDE DEF m
<1> DEFINE last == IF opk = Zero THEN Zero ELSE DH(opk, eph)
<1>3. AliceKey(alice, b, eph) =
        <<DH(alice.kem, b.kem), DH(eph, b.kem), DH(eph, SignedPrekey(b)), Encapsulate(b, eph), last>>
  <2>1. (IF b.opks = <<>> THEN Zero ELSE DH(eph, Head(b.opks))) = last
    BY DEF DH
  <2> HIDE DEF last
  <2> QED
    BY <2>1 DEF AliceKey, SessionKey
<1>4. BobKey(bob, m) =
        <<DH(bob.kem, alice.kem), DH(bob.kem, eph), DH(RatchetSecret(bob), eph),
          Decapsulate(bob, eph, Encapsulate(b, eph)), last>>
  <2>1. (IF m.opk = Zero THEN Zero ELSE DH(m.opk, m.eph)) = last
    BY <1>2
  <2> HIDE DEF last, opk
  <2> QED
    BY <1>2, <2>1 DEF BobKey, SessionKey
<1> HIDE DEF last
<1>5. ASSUME AliceKey(alice, b, eph) = BobKey(bob, m)
      PROVE  b.kem = bob.kem /\ SignedPrekey(b) = RatchetSecret(bob)
  <2>1. /\ DH(alice.kem, b.kem) = DH(bob.kem, alice.kem)
        /\ DH(eph, SignedPrekey(b)) = DH(RatchetSecret(bob), eph)
    BY <1>3, <1>4, <1>5
  <2> QED
    BY <1>1, <2>1 DEF DH
<1>6. ASSUME b.kem = bob.kem, SignedPrekey(b) = RatchetSecret(bob)
      PROVE  AliceKey(alice, b, eph) = BobKey(bob, m)
  <2>1. \A x, y : DH(x, y) = DH(y, x)
    BY DEF DH
  <2>2. Decapsulate(bob, eph, Encapsulate(b, eph)) = Encapsulate(b, eph)
    BY <1>6, <2>1 DEF Decapsulate, Encapsulate
  <2> QED
    BY <1>3, <1>4, <1>6, <2>1, <2>2
<1> QED
  BY <1>2, <1>5, <1>6 DEF m

\* A certificate that announces a new bundle is longer than any receiver accepts
\* (MAX_WIRE_BYTES), one that retires a key never is.
THEOREM OnlyRetirementsFit ==
  \A seq \in Nat : ~Fits(CertificateLen(seq, TRUE)) /\ Fits(CertificateLen(seq, FALSE))
<1> SUFFICES ASSUME NEW seq \in Nat
             PROVE  ~Fits(CertificateLen(seq, TRUE)) /\ Fits(CertificateLen(seq, FALSE))
  OBVIOUS
<1>1. BundleLen(0) = 3308 /\ SignatureLen = 3376
  BY DEF BundleLen, SignatureLen, VecLen, IntLen, ArraysLen, KeyLen, OnionLen
<1>2. IntLen(seq) \in 1..3 /\ VecLen(79) = 80
  BY DEF IntLen, VecLen
<1> DEFINE x == 1 + 80 + 32 + 1 + IntLen(seq) + (1 + 3308) + 3376
           y == 1 + 80 + 32 + 1 + IntLen(seq) + 1 + 3376
<1>3. CertificateLen(seq, TRUE) = WireLen(x) /\ CertificateLen(seq, FALSE) = WireLen(y)
  BY <1>1, <1>2 DEF CertificateLen, KeyLen
<1>4. x \in 6800..6803 /\ y \in 3492..3494
  BY <1>2
<1> HIDE DEF x, y
<1>5. WireLen(x) \in Nat /\ WireLen(x) > 4608 /\ WireLen(y) <= 4608
  BY <1>4 DEF WireLen, VecLen, IntLen, KeyLen
<1>6. \A n \in Nat : Fits(n) <=> n <= 4608
  BY DEF Fits, MaxWireBytes, MaxPayload, BlockSize
<1>7. WireLen(y) \in Nat
  BY <1>4 DEF WireLen, VecLen, IntLen, KeyLen
<1>8. ~Fits(WireLen(x)) /\ Fits(WireLen(y))
  BY <1>5, <1>6, <1>7
<1> QED
  BY <1>3, <1>8
=============================================================================
