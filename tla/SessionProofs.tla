---------------------------- MODULE SessionProofs ----------------------------
(***************************************************************************)
(* Proofs about Session, for any users, batches of prekeys, texts and      *)
(* bounds.  What is proved rests on two things: where the prekeys that are *)
(* on offer come from, and that a conversation is kept under the bundle    *)
(* its contact was added with.                                             *)
(***************************************************************************)
EXTENDS Session, SequenceTheorems, WellFoundedInduction, TLAPS

-----------------------------------------------------------------------------
(* Lists: the first position with a property, which is what                *)
(* Iterator::position returns, and Vec::remove at a position.              *)

\* A set of natural numbers that is not empty has a least element.
LEMMA LeastElement ==
  ASSUME NEW S \in SUBSET Nat, S # {}
  PROVE  Min(S) \in S /\ \A y \in S : Min(S) <= y
<1>1. IsWellFoundedOn(OpToRel(<, Nat), Nat)
  BY NatLessThanWellFounded
<1>2. PICK x \in S : \A y \in S : <<y, x>> \notin OpToRel(<, Nat)
  BY <1>1, WFMin
<1>3. ASSUME NEW y \in S  PROVE  x <= y
  <2>1. y < x => <<y, x>> \in {ss \in Nat \X Nat : ss[1] < ss[2]}
    OBVIOUS
  <2> QED
    BY <1>2, <2>1 DEF OpToRel
<1> QED
  BY <1>3 DEF Min

\* Removing an entry leaves the others, in their order.
LEMMA RemoveAtIsSeq ==
  ASSUME NEW S, NEW s \in Seq(S), NEW i \in 1..Len(s)
  PROVE  /\ RemoveAt(s, i) \in Seq(S) /\ Len(RemoveAt(s, i)) = Len(s) - 1
         /\ \A j \in 1..Len(s) - 1 : RemoveAt(s, i)[j] = IF j < i THEN s[j] ELSE s[j + 1]
<1>1. Len(s) \in Nat /\ \A j \in 1..Len(s) : s[j] \in S
  BY ElementOfSeq, LenProperties
<1> DEFINE a == SubSeq(s, 1, i - 1)
           b == SubSeq(s, i + 1, Len(s))
<1>2. a \in Seq(S) /\ Len(a) = i - 1 /\ \A j \in 1..i - 1 : a[j] = s[j]
  <2>1. \A j \in 1..(i - 1) : s[j] \in S
    BY <1>1
  <2>2. /\ a \in Seq(S) /\ Len(a) = IF 1 <= i - 1 THEN (i - 1) - 1 + 1 ELSE 0
        /\ \A j \in 1..(i - 1) - 1 + 1 : a[j] = s[1 + j - 1]
    BY <1>1, <2>1, SubSeqProperties
  <2> HIDE DEF a
  <2> QED
    BY <1>1, <2>2
<1>3. b \in Seq(S) /\ Len(b) = Len(s) - i /\ \A j \in 1..Len(s) - i : b[j] = s[i + j]
  <2>1. \A j \in (i + 1)..Len(s) : s[j] \in S
    BY <1>1
  <2>2. /\ b \in Seq(S) /\ Len(b) = IF i + 1 <= Len(s) THEN Len(s) - (i + 1) + 1 ELSE 0
        /\ \A j \in 1..Len(s) - (i + 1) + 1 : b[j] = s[(i + 1) + j - 1]
    BY <1>1, <2>1, SubSeqProperties
  <2> HIDE DEF b
  <2> QED
    BY <1>1, <2>2
<1>4. RemoveAt(s, i) = a \o b
  BY DEF RemoveAt
<1> HIDE DEF a, b
<1>5. /\ a \o b \in Seq(S) /\ Len(a \o b) = Len(a) + Len(b)
      /\ \A j \in 1..Len(a) + Len(b) : (a \o b)[j] = IF j <= Len(a) THEN a[j] ELSE b[j - Len(a)]
  BY <1>2, <1>3, ConcatProperties
<1>6. ASSUME NEW j \in 1..Len(s) - 1
      PROVE  (a \o b)[j] = IF j < i THEN s[j] ELSE s[j + 1]
  <2>1. CASE j < i
    BY <1>1, <1>2, <1>3, <1>5, <2>1
  <2>2. CASE j >= i
    <3>1. PICK k \in 1..Len(s) - i : k = j - (i - 1) /\ i + k = j + 1
      BY <1>1, <2>2
    <3>2. (a \o b)[j] = b[k]
      BY <1>1, <1>2, <1>3, <1>5, <2>2, <3>1
    <3>3. b[k] = s[j + 1]
      BY <1>3, <3>1
    <3> QED
      BY <2>2, <3>2, <3>3
  <2>3. j < i \/ j >= i
    BY <1>1
  <2> QED
    BY <2>1, <2>2, <2>3
<1> QED
  BY <1>1, <1>2, <1>3, <1>4, <1>5, <1>6

\* Removing a value takes one entry away, if there is one; from a list without
\* duplicates it takes the value away, and leaves no duplicates.
LEMMA RemoveFirstIsSeq ==
  ASSUME NEW S, NEW s \in Seq(S), NEW e
  PROVE  LET r == RemoveFirst(s, e) IN
         /\ r \in Seq(S) /\ Len(r) = IF e \in ToSet(s) THEN Len(s) - 1 ELSE Len(s)
         /\ e \notin ToSet(s) => r = s
         /\ IsInjective(s) => IsInjective(r) /\ ToSet(r) = ToSet(s) \ {e}
<1>1. Len(s) \in Nat /\ DOMAIN s = 1..Len(s)
  BY LenProperties
<1>2. CASE e \notin ToSet(s)
  <2>1. RemoveFirst(s, e) = s
    BY <1>1, <1>2 DEF RemoveFirst, ToSet
  <2> QED
    BY <1>2, <2>1
<1>3. CASE e \in ToSet(s)
  <2> DEFINE I == {i \in 1..Len(s) : s[i] = e}
             i == Min(I)
             r == RemoveAt(s, i)
  <2>1. I # {} /\ I \in SUBSET Nat
    BY <1>1, <1>3 DEF ToSet
  <2>2. i \in 1..Len(s) /\ s[i] = e
    <3>1. Min(I) \in I
      BY <2>1, LeastElement
    <3> QED
      BY <3>1
  <2>3. RemoveFirst(s, e) = r
    BY <2>1 DEF RemoveFirst, SelectInSeq
  <2> HIDE DEF i
  <2>4. /\ r \in Seq(S) /\ Len(r) = Len(s) - 1
        /\ \A j \in 1..Len(s) - 1 : r[j] = IF j < i THEN s[j] ELSE s[j + 1]
    BY <2>2, RemoveAtIsSeq
  <2> HIDE DEF r
  <2>5. DOMAIN r = 1..Len(s) - 1
    BY <2>4, LenProperties
  <2>6. ASSUME IsInjective(s)  PROVE IsInjective(r) /\ ToSet(r) = ToSet(s) \ {e}
    <3>1. \A j, k \in 1..Len(s) : s[j] = s[k] => j = k
      BY <1>1, <2>6 DEF IsInjective
    <3>2. IsInjective(r)
      BY <1>1, <2>2, <2>4, <2>5, <3>1 DEF IsInjective
    <3>3. ASSUME NEW x \in ToSet(r)  PROVE x \in ToSet(s) \ {e}
      <4>1. PICK j \in 1..Len(s) - 1 : x = r[j]
        BY <2>5 DEF ToSet
      <4>2. PICK k \in 1..Len(s) : x = s[k] /\ k # i
        BY <1>1, <2>2, <2>4, <4>1
      <4> QED
        BY <1>1, <2>2, <3>1, <4>2 DEF ToSet
    <3>4. ASSUME NEW x \in ToSet(s) \ {e}  PROVE x \in ToSet(r)
      <4>1. PICK k \in 1..Len(s) : x = s[k]
        BY <1>1 DEF ToSet
      <4>2. CASE k < i
        <5>1. k \in DOMAIN r /\ r[k] = x
          BY <1>1, <2>2, <2>4, <2>5, <4>1, <4>2
        <5> QED
          BY <5>1 DEF ToSet
      <4>3. CASE k > i
        <5>1. k - 1 \in DOMAIN r /\ r[k - 1] = x
          BY <1>1, <2>2, <2>4, <2>5, <4>1, <4>3
        <5> QED
          BY <5>1 DEF ToSet
      <4> QED
        BY <1>1, <2>2, <3>4, <4>1, <4>2, <4>3
    <3>5. ToSet(r) = ToSet(s) \ {e}
      BY <3>3, <3>4
    <3> QED
      BY <3>2, <3>5
  <2> QED
    BY <1>3, <2>3, <2>4, <2>6
<1> QED
  BY <1>2, <1>3

-----------------------------------------------------------------------------
ConvMap == UNION {[D -> Conv] : D \in SUBSET Bundle}
Vault == [opks : Seq(Nat), contacts : Seq(Contact), convs : ConvMap]
Ram == [pending : Seq(PendingHandshake), asked : Seq(User), code : Seq(Nat)]
Sizes == OpkThreshold + 1..OpkThreshold + OpkBatch

Shape ==
  /\ mem \in [User -> Vault] /\ disk \in [User -> Vault] /\ ram \in [User -> Ram]
  /\ \A u \in User : /\ Len(mem[u].opks) \in Sizes /\ Len(disk[u].opks) \in Sizes
                     /\ Len(ram[u].pending) <= MaxPending
  /\ drawn \in [User -> Nat] /\ ops \in 0..MaxOps
  /\ heard \in [User -> SUBSET Root] /\ killed \subseteq User

\* What u's vault can still answer, or has answered.
Pool(u) == ToSet(mem[u].opks) \cup {r.opk : r \in heard[u]}

\* The prekeys of a bundle can be answered, unless its owner was killed.
Honoured(b) ==
  b \in Bundle /\ (b.who \notin killed => \A i \in DOMAIN b.opks : b.opks[i] \in Pool(b.who))

\* Contacts keep the user they were added for.
Good == {c \in Contact : c.bundle.who = c.id.who /\ Honoured(c.bundle)}

FrameOK(m) ==
  /\ m.type \in {"Handshake", "Data", "OpkRefresh", "BundleRequest", "BundleResponse"}
  /\ m.type \in {"Handshake", "Data"} => m.root \in Root /\ m.text \in Text
  /\ m.type \in {"OpkRefresh", "BundleResponse"} => Honoured(m.bundle)

OfferInv ==
  /\ \A b \in codes : Honoured(b)
  /\ \A m \in net : FrameOK(m)
  /\ \A u \in User : mem[u].contacts \in Seq(Good)

\* The session of a conversation of u with who.
SessionWith(u, who, s) ==
  s = NoSession \/ (s.root.from = u /\ s.root.to = who)
    \/ (s.root.from = who /\ s.root \in heard[u])

SessionsWith(u) ==
  \A id \in DOMAIN mem[u].convs : SessionWith(u, id.who, mem[u].convs[id].sess)

PendingHeard(u) == \A i \in DOMAIN ram[u].pending : ram[u].pending[i].root \in heard[u]

ConvInv ==
  \A u \in User :
    /\ SessionsWith(u) /\ PendingHeard(u)
    /\ mem[u].contacts = disk[u].contacts /\ mem[u].convs = disk[u].convs

\* The prekeys of a user who was not killed: drawn once, and used once.
FreshInv ==
  \A u \in User \ killed :
    /\ IsInjective(mem[u].opks) /\ ToSet(mem[u].opks) \subseteq 1..drawn[u]
    /\ \A r \in heard[u] : r.opk # NoOpk => r.opk \notin ToSet(mem[u].opks)
    /\ \A r \in heard[u] : r.opk # NoOpk => r.opk <= drawn[u]
    /\ \A r, q \in heard[u] : r.opk = q.opk /\ r.opk # NoOpk => r = q

SessionInv == Shape /\ OfferInv /\ ConvInv /\ FreshInv

\* What every step of u has in common.  Either the prekeys stay, and no session
\* key heard of uses one; or one is used up by a session key that is heard of, and
\* what is new was never drawn before.
PrekeysKept(u) ==
  /\ mem'[u].opks = mem[u].opks
  /\ \A r \in heard'[u] \ heard[u] : r.opk = NoOpk

PrekeyUsed(u) ==
  \E r \in Root : \E F \in SUBSET (drawn[u] + 1..drawn'[u]) :
    /\ r.opk \in ToSet(mem[u].opks) /\ heard'[u] = heard[u] \cup {r}
    /\ IsInjective(mem'[u].opks)
    /\ ToSet(mem'[u].opks) = (ToSet(mem[u].opks) \ {r.opk}) \cup F

StepOf(u) ==
  /\ Shape'
  /\ \A x \in User \ {u} :
       /\ mem'[x] = mem[x] /\ disk'[x] = disk[x] /\ ram'[x] = ram[x]
       /\ drawn'[x] = drawn[x] /\ heard'[x] = heard[x]
  /\ killed \subseteq killed' /\ killed' \subseteq killed \cup {u}
  /\ drawn[u] <= drawn'[u] /\ heard[u] \subseteq heard'[u]
  /\ mem'[u].contacts = disk'[u].contacts /\ mem'[u].convs = disk'[u].convs
  /\ u \notin killed' => PrekeysKept(u) \/ PrekeyUsed(u)

-----------------------------------------------------------------------------
(* What a step leaves true.                                                *)

\* A prekey that can be answered, or was, stays so.
LEMMA PoolStays ==
  ASSUME SessionInv, NEW u \in User, StepOf(u), NEW w \in User \ killed'
  PROVE  Pool(w) \subseteq Pool(w)'
<1>1. CASE w # u
  BY <1>1 DEF StepOf, Pool
<1>2. CASE w = u
  <2>1. CASE PrekeysKept(u)
    BY <1>2, <2>1 DEF StepOf, PrekeysKept, Pool
  <2>2. CASE PrekeyUsed(u)
    BY <1>2, <2>2 DEF PrekeyUsed, Pool
  <2> QED
    BY <1>2, <2>1, <2>2 DEF StepOf
<1> QED
  BY <1>1, <1>2

\* So a bundle that was honoured still is.
LEMMA HonouredStays ==
  ASSUME SessionInv, NEW u \in User, StepOf(u), NEW b, Honoured(b)
  PROVE  Honoured(b)'
<1>1. b.who \in User
  BY DEF Honoured, Bundle
<1>2. b.who \notin killed' => b.who \notin killed
  BY DEF StepOf
<1> QED
  BY <1>1, <1>2, PoolStays DEF Honoured

\* And a contact that was good still is.
LEMMA GoodStays ==
  ASSUME SessionInv, NEW u \in User, StepOf(u)
  PROVE  Good \subseteq Good'
BY HonouredStays DEF Good

\* Prekeys are drawn once and used once.
LEMMA FreshStays ==
  ASSUME SessionInv, NEW u \in User, StepOf(u)
  PROVE  FreshInv'
<1> SUFFICES ASSUME NEW w \in User \ killed'
             PROVE  /\ IsInjective(mem'[w].opks) /\ ToSet(mem'[w].opks) \subseteq 1..drawn'[w]
                    /\ \A r \in heard'[w] : r.opk # NoOpk => r.opk \notin ToSet(mem'[w].opks)
                    /\ \A r \in heard'[w] : r.opk # NoOpk => r.opk <= drawn'[w]
                    /\ \A r, q \in heard'[w] : r.opk = q.opk /\ r.opk # NoOpk => r = q
  BY DEF FreshInv
<1>1. /\ IsInjective(mem[w].opks) /\ ToSet(mem[w].opks) \subseteq 1..drawn[w]
      /\ \A r \in heard[w] : r.opk # NoOpk => r.opk \notin ToSet(mem[w].opks)
      /\ \A r \in heard[w] : r.opk # NoOpk => r.opk <= drawn[w]
      /\ \A r, q \in heard[w] : r.opk = q.opk /\ r.opk # NoOpk => r = q
  BY DEF SessionInv, FreshInv, StepOf
<1>2. drawn[w] \in Nat /\ drawn'[w] \in Nat /\ drawn[w] <= drawn'[w]
      /\ heard[w] \subseteq Root /\ heard'[w] \subseteq Root
  <2>1. w \in User /\ drawn \in [User -> Nat] /\ drawn' \in [User -> Nat]
        /\ heard \in [User -> SUBSET Root] /\ heard' \in [User -> SUBSET Root]
    BY DEF SessionInv, Shape, StepOf
  <2>2. drawn[w] \in Nat /\ drawn'[w] \in Nat /\ heard[w] \in SUBSET Root /\ heard'[w] \in SUBSET Root
    BY <2>1, ZenonT(30)
  <2>3. CASE w = u
    BY <2>2, <2>3 DEF StepOf
  <2>4. CASE w # u
    <3>1. drawn'[w] = drawn[w]
      BY <2>4 DEF StepOf
    <3> QED
      BY <2>2, <3>1
  <2> QED
    BY <2>2, <2>3, <2>4
<1>3. \A r \in Root : r.opk \in Nat \cup {NoOpk}
  BY DEF Root
<1>4. CASE w # u
  BY <1>1, <1>4 DEF StepOf
<1>5. CASE w = u /\ PrekeysKept(u)
  BY <1>1, <1>2, <1>3, <1>5 DEF PrekeysKept
<1>6. CASE w = u /\ PrekeyUsed(u)
  <2>1. PICK r \in Root : \E F \in SUBSET (drawn[w] + 1..drawn'[w]) :
          /\ r.opk \in ToSet(mem[w].opks) /\ heard'[w] = heard[w] \cup {r}
          /\ IsInjective(mem'[w].opks)
          /\ ToSet(mem'[w].opks) = (ToSet(mem[w].opks) \ {r.opk}) \cup F
    BY <1>6 DEF PrekeyUsed
  <2>2. PICK F \in SUBSET (drawn[w] + 1..drawn'[w]) :
          /\ r.opk \in ToSet(mem[w].opks) /\ heard'[w] = heard[w] \cup {r}
          /\ IsInjective(mem'[w].opks)
          /\ ToSet(mem'[w].opks) = (ToSet(mem[w].opks) \ {r.opk}) \cup F
    BY <2>1
  <2>3. r.opk \in 1..drawn[w]
    BY <1>1, <2>2
  <2>4. ToSet(mem'[w].opks) \subseteq 1..drawn'[w]
    <3>1. ToSet(mem[w].opks) \ {r.opk} \subseteq 1..drawn'[w]
      <4>1. 1..drawn[w] \subseteq 1..drawn'[w]
        BY <1>2
      <4> QED
        BY <1>1, <4>1
    <3>2. F \subseteq 1..drawn'[w]
      <4>1. drawn[w] + 1..drawn'[w] \subseteq 1..drawn'[w]
        BY <1>2
      <4> QED
        BY <4>1
    <3> QED
      BY <2>2, <3>1, <3>2, Zenon
  <2>5. ASSUME NEW q \in heard'[w], q.opk # NoOpk
        PROVE  q.opk \notin ToSet(mem'[w].opks) /\ q.opk <= drawn'[w]
    <3>1. q.opk \in Nat /\ q.opk <= drawn[w] /\ q.opk \notin ToSet(mem[w].opks) \ {r.opk}
      BY <1>1, <1>2, <1>3, <2>2, <2>3, <2>5
    <3>2. q.opk \notin F
      BY <1>2, <3>1
    <3> QED
      BY <1>2, <2>2, <3>1, <3>2
  <2>6. ASSUME NEW p \in heard'[w], NEW q \in heard'[w], p.opk = q.opk, p.opk # NoOpk
        PROVE  p = q
    BY <1>1, <2>2, <2>6
  <2> QED
    BY <2>2, <2>4, <2>5, <2>6
<1> QED
  BY <1>4, <1>5, <1>6 DEF StepOf

\* The invariant is kept by a step whose new codes, frames, contacts, sessions and
\* requests are as they should be.
LEMMA InvStays ==
  ASSUME SessionInv, NEW u \in User, StepOf(u),
         \A b \in codes' \ codes : Honoured(b)',
         \A m \in net' \ net : FrameOK(m)',
         mem'[u].contacts \in Seq(Good'), SessionsWith(u)', PendingHeard(u)'
  PROVE  SessionInv'
<1>1. Shape'
  BY DEF StepOf
<1>2. \A b \in codes' : Honoured(b)'
  BY HonouredStays DEF SessionInv, OfferInv
<1>3. ASSUME NEW m \in net'  PROVE FrameOK(m)'
  <2>1. CASE m \notin net
    BY <2>1
  <2>2. CASE m \in net
    <3>1. FrameOK(m)
      BY <2>2 DEF SessionInv, OfferInv
    <3> QED
      BY <3>1, HonouredStays DEF FrameOK
  <2> QED
    BY <2>1, <2>2
<1>4. ASSUME NEW w \in User  PROVE mem'[w].contacts \in Seq(Good')
  <2>1. CASE w = u
    BY <2>1
  <2>2. CASE w # u
    <3>1. mem'[w] = mem[w]
      BY <2>2 DEF StepOf
    <3>2. mem[w].contacts \in Seq(Good)
      BY DEF SessionInv, OfferInv
    <3>3. Good \subseteq Good'
      BY GoodStays
    <3>4. mem[w].contacts \in Seq(Good')
      BY <3>2, <3>3, SeqMonotonic
    <3> QED
      BY <3>1, <3>4
  <2> QED
    BY <2>1, <2>2
<1>5. ASSUME NEW w \in User
      PROVE  /\ SessionsWith(w)' /\ PendingHeard(w)'
             /\ mem'[w].contacts = disk'[w].contacts /\ mem'[w].convs = disk'[w].convs
  <2>1. CASE w = u
    BY <2>1 DEF StepOf
  <2>2. CASE w # u
    <3>1. mem'[w] = mem[w] /\ disk'[w] = disk[w] /\ ram'[w] = ram[w] /\ heard'[w] = heard[w]
      BY <2>2 DEF StepOf
    <3>2. /\ SessionsWith(w) /\ PendingHeard(w)
          /\ mem[w].contacts = disk[w].contacts /\ mem[w].convs = disk[w].convs
      BY DEF SessionInv, ConvInv
    <3> QED
      BY <3>1, <3>2 DEF SessionsWith, PendingHeard, SessionWith
  <2> QED
    BY <2>1, <2>2
<1>6. FreshInv'
  BY FreshStays
<1> QED
  BY <1>1, <1>2, <1>3, <1>4, <1>5, <1>6 DEF SessionInv, OfferInv, ConvInv

-----------------------------------------------------------------------------
(* The operations of the vault.                                            *)

\* A user has a conversation under every name, if only an empty one.
LEMMA ConversationIsConv ==
  ASSUME NEW v \in Vault, NEW id
  PROVE  Conversation(v, id) \in Conv
<1>1. [sess |-> NoSession, log |-> <<>>] \in Conv
  BY EmptySeq DEF Conv
<1>2. PICK D \in SUBSET Bundle : v.convs \in [D -> Conv]
  BY DEF Vault, ConvMap
<1> QED
  BY <1>1, <1>2 DEF Conversation

\* Writing a conversation changes no other, and nothing else in the vault.
LEMMA PutIsVault ==
  ASSUME NEW v \in Vault, NEW id \in Bundle, NEW c \in Conv
  PROVE  LET w == PutConversation(v, id, c) IN
         /\ w \in Vault /\ w.opks = v.opks /\ w.contacts = v.contacts
         /\ DOMAIN w.convs = DOMAIN v.convs \cup {id}
         /\ \A x \in DOMAIN w.convs : w.convs[x] = IF x = id THEN c ELSE v.convs[x]
<1>1. PICK D \in SUBSET Bundle : v.convs \in [D -> Conv]
  BY DEF Vault, ConvMap
<1> DEFINE f == [x \in DOMAIN v.convs \cup {id} |-> IF x = id THEN c ELSE v.convs[x]]
<1>2. f = [x \in {id} \cup D |-> IF x = id THEN c ELSE v.convs[x]]
  BY <1>1
<1>3. f \in [{id} \cup D -> Conv]
  BY <1>1, <1>2
<1>4. f \in ConvMap
  BY <1>3 DEF ConvMap
<1>5. PutConversation(v, id, c) = [v EXCEPT !.convs = f]
  BY DEF PutConversation
<1>6. DOMAIN f = DOMAIN v.convs \cup {id} /\ \A x \in DOMAIN f : f[x] = IF x = id THEN c ELSE v.convs[x]
  OBVIOUS
<1> HIDE DEF f
<1>7. PICK w : w = [v EXCEPT !.convs = f]
  OBVIOUS
<1>8. w \in Vault /\ w.opks = v.opks /\ w.contacts = v.contacts /\ w.convs = f
  BY <1>4, <1>7 DEF Vault
<1>9. /\ DOMAIN w.convs = DOMAIN v.convs \cup {id}
      /\ \A x \in DOMAIN w.convs : w.convs[x] = IF x = id THEN c ELSE v.convs[x]
  BY <1>6, <1>8
<1>10. PutConversation(v, id, c) = w
  BY <1>5, <1>7
<1> QED
  BY <1>8, <1>9, <1>10, Zenon

\* A new contact comes last.
LEMMA AddIsVault ==
  ASSUME NEW v \in Vault, NEW b \in Bundle, NEW S, v.contacts \in Seq(S), NewContact(b) \in S
  PROVE  LET w == AddContact(v, b) IN
         /\ w \in Vault /\ w.opks = v.opks /\ w.convs = v.convs
         /\ w.contacts \in Seq(S)
<1>1. NewContact(b) \in Contact
  BY DEF NewContact, Contact
<1>2. Append(v.contacts, NewContact(b)) \in Seq(Contact)
  BY <1>1, AppendProperties DEF Vault
<1>3. Append(v.contacts, NewContact(b)) \in Seq(S)
  BY AppendProperties
<1> QED
  BY <1>2, <1>3 DEF Vault, AddContact

\* A batch of prekeys is new, and comes after the others.
LEMMA BatchIsNew ==
  ASSUME NEW v \in Vault, NEW n \in Nat
  PROVE  LET w == GenerateOpks(v, n) IN
         /\ w \in Vault /\ w.contacts = v.contacts /\ w.convs = v.convs
         /\ Len(w.opks) = Len(v.opks) + OpkBatch
         /\ ToSet(w.opks) = ToSet(v.opks) \cup (n + 1..n + OpkBatch)
         /\ IsInjective(v.opks) /\ ToSet(v.opks) \subseteq 1..n => IsInjective(w.opks)
<1> DEFINE s == v.opks
           t == [i \in 1..OpkBatch |-> n + i]
           w == GenerateOpks(v, n)
<1>1. OpkBatch \in Nat /\ s \in Seq(Nat) /\ v.opks = s
  BY SessionConstants DEF Vault
<1>2. t \in Seq(Nat) /\ Len(t) = OpkBatch /\ \A i \in 1..OpkBatch : t[i] = n + i
  <2>1. \A i \in 1..OpkBatch : n + i \in Nat
    BY <1>1
  <2>2. t \in Seq(Nat)
    BY <1>1, <2>1, IsASeq
  <2>3. DOMAIN t = 1..Len(t) /\ DOMAIN t = 1..OpkBatch /\ Len(t) \in Nat
    BY <2>2, LenProperties
  <2> QED
    BY <1>1, <2>2, <2>3
<1>3. w = [v EXCEPT !.opks = s \o t]
  BY DEF GenerateOpks
<1> HIDE DEF s, t
<1>4. /\ s \o t \in Seq(Nat) /\ Len(s \o t) = Len(s) + OpkBatch
      /\ \A i \in 1..Len(s) + OpkBatch : (s \o t)[i] = IF i <= Len(s) THEN s[i] ELSE t[i - Len(s)]
  <2>1. s \in Seq(Nat) /\ t \in Seq(Nat)
    BY <1>1, <1>2
  <2>2. /\ s \o t \in Seq(Nat) /\ Len(s \o t) = Len(s) + Len(t)
        /\ \A i \in 1..Len(s) + Len(t) : (s \o t)[i] = IF i <= Len(s) THEN s[i] ELSE t[i - Len(s)]
    BY <2>1, ConcatProperties, Zenon
  <2> QED
    BY <1>2, <2>2, Zenon
<1>5. Len(s) \in Nat /\ DOMAIN s = 1..Len(s) /\ DOMAIN (s \o t) = 1..Len(s) + OpkBatch
      /\ \A i \in 1..Len(s) : s[i] \in Nat
  BY <1>1, <1>4, LenProperties, ElementOfSeq
<1>6. /\ \A i \in 1..Len(s) : (s \o t)[i] = s[i]
      /\ \A i \in 1..OpkBatch : Len(s) + i \in 1..Len(s) + OpkBatch /\ (s \o t)[Len(s) + i] = n + i
      /\ \A i \in 1..Len(s) + OpkBatch : i \in 1..Len(s) \/ \E j \in 1..OpkBatch : i = Len(s) + j
  <2>1. \A i \in 1..Len(s) : (s \o t)[i] = s[i]
    BY <1>1, <1>4, <1>5
  <2>2. ASSUME NEW i \in 1..OpkBatch
        PROVE  Len(s) + i \in 1..Len(s) + OpkBatch /\ (s \o t)[Len(s) + i] = n + i
    <3>1. Len(s) + i \in 1..Len(s) + OpkBatch /\ ~(Len(s) + i <= Len(s)) /\ (Len(s) + i) - Len(s) = i
      BY <1>1, <1>5
    <3> QED
      BY <1>2, <1>4, <3>1
  <2>3. ASSUME NEW i \in 1..Len(s) + OpkBatch
        PROVE  i \in 1..Len(s) \/ \E j \in 1..OpkBatch : i = Len(s) + j
    <3>1. i \notin 1..Len(s) => i - Len(s) \in 1..OpkBatch /\ i = Len(s) + (i - Len(s))
      BY <1>1, <1>5
    <3> QED
      BY <3>1
  <2> QED
    BY <2>1, <2>2, <2>3
<1>7. ToSet(s \o t) = ToSet(s) \cup (n + 1..n + OpkBatch)
  <2>1. ASSUME NEW x \in ToSet(s \o t)  PROVE x \in ToSet(s) \cup (n + 1..n + OpkBatch)
    <3>1. PICK i \in 1..Len(s) + OpkBatch : x = (s \o t)[i]
      BY <1>5 DEF ToSet
    <3>2. CASE i \in 1..Len(s)
      BY <1>5, <1>6, <3>1, <3>2 DEF ToSet
    <3>3. ASSUME NEW j \in 1..OpkBatch, i = Len(s) + j  PROVE x \in n + 1..n + OpkBatch
      <4>1. x = n + j
        BY <1>6, <3>1, <3>3
      <4> QED
        BY <1>1, <4>1
    <3> QED
      BY <1>6, <3>2, <3>3
  <2>2. ToSet(s) \subseteq ToSet(s \o t)
    <3>1. 1..Len(s) \subseteq DOMAIN (s \o t)
      BY <1>1, <1>5
    <3> QED
      BY <1>5, <1>6, <3>1 DEF ToSet
  <2>3. ASSUME NEW x \in n + 1..n + OpkBatch  PROVE x \in ToSet(s \o t)
    <3>1. x - n \in 1..OpkBatch /\ x = n + (x - n)
      BY <1>1
    <3>2. x = (s \o t)[Len(s) + (x - n)] /\ Len(s) + (x - n) \in DOMAIN (s \o t)
      BY <1>5, <1>6, <3>1
    <3> QED
      BY <3>2 DEF ToSet
  <2> QED
    BY <2>1, <2>2, <2>3
<1>8. ASSUME IsInjective(s), ToSet(s) \subseteq 1..n  PROVE IsInjective(s \o t)
  <2>1. \A i \in 1..Len(s) : s[i] <= n
    BY <1>5, <1>8 DEF ToSet
  <2>2. \A i, j \in 1..Len(s) : s[i] = s[j] => i = j
    BY <1>5, <1>8 DEF IsInjective
  <2>3. SUFFICES ASSUME NEW i \in 1..Len(s) + OpkBatch, NEW j \in 1..Len(s) + OpkBatch,
                        (s \o t)[i] = (s \o t)[j]
                 PROVE  i = j
    BY <1>5 DEF IsInjective
  <2>4. CASE i \in 1..Len(s) /\ j \in 1..Len(s)
    BY <1>6, <2>2, <2>3, <2>4
  <2>5. ASSUME NEW a \in 1..Len(s), NEW c \in 1..OpkBatch  PROVE (s \o t)[a] # (s \o t)[Len(s) + c]
    BY <1>1, <1>5, <1>6, <2>1
  <2>6. ASSUME NEW a \in 1..OpkBatch, NEW c \in 1..OpkBatch, i = Len(s) + a, j = Len(s) + c
        PROVE  i = j
    <3>1. n + a = n + c
      BY <1>6, <2>3, <2>6
    <3>2. a = c
      BY <3>1
    <3> QED
      BY <2>6, <3>2
  <2>7. CASE i \in 1..Len(s) /\ j \notin 1..Len(s)
    <3>1. PICK c \in 1..OpkBatch : j = Len(s) + c
      BY <1>6, <2>7
    <3> QED
      BY <2>3, <2>5, <2>7, <3>1
  <2>8. CASE i \notin 1..Len(s) /\ j \in 1..Len(s)
    <3>1. PICK c \in 1..OpkBatch : i = Len(s) + c
      BY <1>6, <2>8
    <3>2. (s \o t)[j] # (s \o t)[i]
      BY <2>5, <2>8, <3>1
    <3> QED
      BY <2>3, <3>2
  <2>9. CASE i \notin 1..Len(s) /\ j \notin 1..Len(s)
    <3>1. PICK a \in 1..OpkBatch : i = Len(s) + a
      BY <1>6, <2>9
    <3>2. PICK c \in 1..OpkBatch : j = Len(s) + c
      BY <1>6, <2>9
    <3> QED
      BY <2>6, <3>1, <3>2
  <2> QED
    BY <2>4, <2>7, <2>8, <2>9
<1>9. w \in Vault /\ w.contacts = v.contacts /\ w.convs = v.convs /\ w.opks = s \o t
  BY <1>3, <1>4 DEF Vault
<1> HIDE DEF w
<1>10. /\ w \in Vault /\ w.contacts = v.contacts /\ w.convs = v.convs
       /\ Len(w.opks) = Len(v.opks) + OpkBatch
       /\ ToSet(w.opks) = ToSet(v.opks) \cup (n + 1..n + OpkBatch)
       /\ IsInjective(v.opks) /\ ToSet(v.opks) \subseteq 1..n => IsInjective(w.opks)
  BY <1>1, <1>4, <1>7, <1>8, <1>9
<1> QED
  BY <1>10 DEF w

\* The prekeys t are s without k, and perhaps some of the next few.
Renewed(s, k, t, n, few) ==
  IsInjective(t) /\ \E F \in SUBSET (n + 1..n + few) : ToSet(t) = (ToSet(s) \ {k}) \cup F

\* What using the prekey k makes of the vault v, when n keys were drawn before.
Used(v, k, n, w) ==
  /\ w.v \in Vault /\ w.v.contacts = v.contacts /\ w.v.convs = v.convs
  /\ Len(w.v.opks) \in Sizes /\ w.new \in Nat /\ (k = NoOpk => w.v.opks = v.opks)
  /\ IsInjective(v.opks) /\ ToSet(v.opks) \subseteq 1..n /\ k # NoOpk =>
       Renewed(v.opks, k, w.v.opks, n, w.new)

\* Using a prekey takes it out of the vault, and may bring a batch in.
LEMMA UseIsVault ==
  ASSUME NEW v \in Vault, Len(v.opks) \in Sizes, NEW k \in Nat \cup {NoOpk}, NEW n \in Nat,
         k # NoOpk => k \in ToSet(v.opks), NEW w, w = UsePrekey(v, k, n)
  PROVE  Used(v, k, n, w)
<1> DEFINE rest == ConsumeOpk(v, k)
           low == k # NoOpk /\ OpksLow(rest)
<1>1. v.opks \in Seq(Nat) /\ OpkBatch \in Nat /\ OpkThreshold \in Nat /\ OpkThreshold < OpkBatch
      /\ NoOpk \notin Nat /\ Len(v.opks) \in Nat
  BY SessionConstants, LenProperties DEF Vault
<1>2. /\ RemoveFirst(v.opks, k) \in Seq(Nat)
      /\ Len(RemoveFirst(v.opks, k)) = IF k \in ToSet(v.opks) THEN Len(v.opks) - 1 ELSE Len(v.opks)
      /\ k \notin ToSet(v.opks) => RemoveFirst(v.opks, k) = v.opks
      /\ IsInjective(v.opks) => /\ IsInjective(RemoveFirst(v.opks, k))
                                /\ ToSet(RemoveFirst(v.opks, k)) = ToSet(v.opks) \ {k}
  <2> DEFINE s == v.opks
  <2>1. s \in Seq(Nat)
    BY <1>1
  <2> HIDE DEF s
  <2>2. LET r == RemoveFirst(s, k) IN
         /\ r \in Seq(Nat) /\ Len(r) = IF k \in ToSet(s) THEN Len(s) - 1 ELSE Len(s)
         /\ k \notin ToSet(s) => r = s
         /\ IsInjective(s) => IsInjective(r) /\ ToSet(r) = ToSet(s) \ {k}
    BY <2>1, RemoveFirstIsSeq
  <2> QED
    BY <2>2 DEF s
<1>3. rest \in Vault /\ rest.opks = RemoveFirst(v.opks, k)
      /\ rest.contacts = v.contacts /\ rest.convs = v.convs
  BY <1>2 DEF ConsumeOpk, Vault
<1>4. w = [v |-> IF low THEN GenerateOpks(rest, n) ELSE rest, new |-> IF low THEN OpkBatch ELSE 0]
  BY DEF UsePrekey
<1>5. low <=> k # NoOpk /\ Len(rest.opks) <= OpkThreshold
  BY DEF OpksLow
<1> HIDE DEF rest, low
<1>6. k = NoOpk => k \notin ToSet(v.opks)
  BY <1>1, ElementOfSeq, LenProperties DEF ToSet
<1>7. CASE ~low
  <2>1. w.v = rest /\ w.new = 0
    BY <1>4, <1>7
  <2>2. Len(rest.opks) \in Sizes
    <3>1. k = NoOpk => rest.opks = v.opks
      BY <1>2, <1>3, <1>6
    <3>2. k # NoOpk => ~(Len(rest.opks) <= OpkThreshold) /\ Len(rest.opks) = Len(v.opks) - 1
      BY <1>2, <1>3, <1>5, <1>7
    <3>3. Len(v.opks) <= OpkThreshold + OpkBatch
      BY <1>1 DEF Sizes
    <3>4. PICK x : x = Len(rest.opks)
      OBVIOUS
    <3>5. k # NoOpk => x \in Int /\ x > OpkThreshold /\ x <= OpkThreshold + OpkBatch
      BY <1>1, <3>2, <3>3, <3>4
    <3>6. k # NoOpk => x \in Sizes
      BY <1>1, <3>5 DEF Sizes
    <3> QED
      BY <3>1, <3>4, <3>6
  <2>3. {} \in SUBSET (n + 1..n + 0)
    OBVIOUS
  <2>4. /\ w.v \in Vault /\ w.v.contacts = v.contacts /\ w.v.convs = v.convs
        /\ Len(w.v.opks) \in Sizes /\ w.new \in Nat /\ (k = NoOpk => w.v.opks = v.opks)
    BY <1>2, <1>3, <1>6, <2>1, <2>2
  <2>5. ASSUME IsInjective(v.opks)
        PROVE  IsInjective(w.v.opks) /\ ToSet(w.v.opks) = (ToSet(v.opks) \ {k}) \cup {}
    BY <1>2, <1>3, <2>1, <2>5
  <2> QED
    BY <2>1, <2>3, <2>4, <2>5 DEF Renewed, Used
<1>8. CASE low
  <2> DEFINE g == GenerateOpks(rest, n)
  <2>1. /\ g \in Vault /\ g.contacts = rest.contacts /\ g.convs = rest.convs
        /\ Len(g.opks) = Len(rest.opks) + OpkBatch
        /\ ToSet(g.opks) = ToSet(rest.opks) \cup (n + 1..n + OpkBatch)
        /\ IsInjective(rest.opks) /\ ToSet(rest.opks) \subseteq 1..n => IsInjective(g.opks)
    BY <1>3, BatchIsNew
  <2> HIDE DEF g
  <2>2. w.v = g /\ w.new = OpkBatch
    BY <1>4, <1>8 DEF g
  <2>3. k # NoOpk /\ Len(rest.opks) <= OpkThreshold /\ Len(rest.opks) = Len(v.opks) - 1
    BY <1>2, <1>3, <1>5, <1>8
  <2>4. Len(g.opks) \in Sizes
    <3>1. PICK x : x = Len(v.opks)
      OBVIOUS
    <3>2. x \in Nat /\ x >= OpkThreshold + 1 /\ x - 1 <= OpkThreshold
      BY <1>1, <2>3, <3>1 DEF Sizes
    <3>3. (x - 1) + OpkBatch \in Sizes
      BY <1>1, <3>2 DEF Sizes
    <3> QED
      BY <2>1, <2>3, <3>1, <3>3
  <2>5. ASSUME IsInjective(v.opks), ToSet(v.opks) \subseteq 1..n
        PROVE  /\ IsInjective(w.v.opks)
               /\ ToSet(w.v.opks) = (ToSet(v.opks) \ {k}) \cup (n + 1..n + w.new)
    BY <1>2, <1>3, <2>1, <2>2, <2>5
  <2>6. (n + 1..n + w.new) \in SUBSET (n + 1..n + w.new)
    OBVIOUS
  <2>7. /\ w.v \in Vault /\ w.v.contacts = v.contacts /\ w.v.convs = v.convs
        /\ Len(w.v.opks) \in Sizes /\ w.new \in Nat /\ k # NoOpk
    BY <1>1, <1>3, <2>1, <2>2, <2>3, <2>4
  <2> QED
    BY <2>5, <2>6, <2>7 DEF Renewed, Used
<1> QED
  BY <1>7, <1>8

-----------------------------------------------------------------------------
(* What the steps have in common.                                          *)

\* A step of u, from what it makes of u's part of the state: v in memory, d on
\* disk, r in the rest of the memory, n keys drawn, and the session keys H heard of.
LEMMA IsStep ==
  ASSUME SessionInv, NEW u \in User, NEW v \in Vault, NEW d \in Vault, NEW r \in Ram,
         NEW n \in Nat, NEW H \in SUBSET Root,
         mem' = [mem EXCEPT ![u] = v], disk' = [disk EXCEPT ![u] = d],
         ram' = [ram EXCEPT ![u] = r], drawn' = [drawn EXCEPT ![u] = @ + n],
         heard' = [heard EXCEPT ![u] = @ \cup H], ops' \in 0..MaxOps,
         killed \subseteq killed', killed' \subseteq killed \cup {u},
         Len(v.opks) \in Sizes, Len(d.opks) \in Sizes, Len(r.pending) <= MaxPending,
         d.contacts = v.contacts, d.convs = v.convs,
         u \notin killed' => PrekeysKept(u) \/ PrekeyUsed(u)
  PROVE  StepOf(u)
<1>1. /\ mem \in [User -> Vault] /\ disk \in [User -> Vault] /\ ram \in [User -> Ram]
      /\ drawn \in [User -> Nat] /\ heard \in [User -> SUBSET Root] /\ killed \subseteq User
  BY DEF SessionInv, Shape
<1>2. /\ mem'[u] = v /\ disk'[u] = d /\ ram'[u] = r
      /\ drawn'[u] = drawn[u] + n /\ heard'[u] = heard[u] \cup H
  BY <1>1
<1>3. \A x \in User \ {u} : /\ mem'[x] = mem[x] /\ disk'[x] = disk[x] /\ ram'[x] = ram[x]
                            /\ drawn'[x] = drawn[x] /\ heard'[x] = heard[x]
  BY <1>1
<1>4. /\ mem' \in [User -> Vault] /\ disk' \in [User -> Vault] /\ ram' \in [User -> Ram]
      /\ killed' \subseteq User
  BY <1>1
<1>5. drawn[u] \in Nat /\ drawn' \in [User -> Nat] /\ drawn[u] <= drawn'[u]
  BY <1>1, <1>2
<1>6. heard' \in [User -> SUBSET Root]
  BY <1>1
<1>7. ASSUME NEW x \in User
      PROVE  /\ Len(mem'[x].opks) \in Sizes /\ Len(disk'[x].opks) \in Sizes
             /\ Len(ram'[x].pending) <= MaxPending
  <2>1. /\ Len(mem[x].opks) \in Sizes /\ Len(disk[x].opks) \in Sizes
        /\ Len(ram[x].pending) <= MaxPending
    BY DEF SessionInv, Shape
  <2> QED
    BY <1>2, <1>3, <2>1
<1>8. Shape'
  BY <1>4, <1>5, <1>6, <1>7 DEF Shape
<1> QED
  BY <1>2, <1>3, <1>5, <1>8 DEF StepOf

\* The bundle of u as it now is can be answered.
LEMMA OwnHonoured ==
  ASSUME NEW u \in User, Shape', NEW s, s = mem'[u].opks
  PROVE  Honoured(BundleOf(u, s))'
<1>1. mem'[u] \in Vault
  BY DEF Shape
<1>2. s \in Seq(Nat)
  BY <1>1 DEF Vault
<1>3. BundleOf(u, s) \in Bundle /\ BundleOf(u, s).who = u /\ BundleOf(u, s).opks = s
  BY <1>2 DEF BundleOf, Bundle
<1>4. \A i \in DOMAIN s : s[i] \in ToSet(mem'[u].opks)
  BY DEF ToSet
<1>5. \A i \in DOMAIN s : s[i] \in Pool(u)'
  BY <1>4 DEF Pool
<1> QED
  BY <1>3, <1>5 DEF Honoured

\* The contacts that are there stay good.
LEMMA ContactsStay ==
  ASSUME SessionInv, NEW u \in User, StepOf(u)
  PROVE  mem[u].contacts \in Seq(Good')
<1>1. mem[u].contacts \in Seq(Good) /\ Good \subseteq Good'
  BY GoodStays DEF SessionInv, OfferInv
<1> QED
  BY <1>1, SeqMonotonic

\* A session that is with who stays so.
LEMMA SessionStays ==
  ASSUME SessionInv, NEW u \in User, StepOf(u), NEW who, NEW s, SessionWith(u, who, s)
  PROVE  SessionWith(u, who, s)'
BY DEF SessionWith, StepOf

\* The sessions stay where the conversations do.
LEMMA SessionsStay ==
  ASSUME SessionInv, NEW u \in User, StepOf(u), mem'[u].convs = mem[u].convs
  PROVE  SessionsWith(u)'
<1>1. SessionsWith(u)
  BY DEF SessionInv, ConvInv
<1> QED
  BY <1>1, SessionStays DEF SessionsWith

\* A conversation with c in it, whose session is with the user it is kept for.
LEMMA SessionsPut ==
  ASSUME SessionInv, NEW u \in User, StepOf(u), NEW v \in Vault, v.convs = mem[u].convs,
         NEW id \in Bundle, NEW c \in Conv, SessionWith(u, id.who, c.sess)',
         mem'[u] = PutConversation(v, id, c)
  PROVE  SessionsWith(u)'
<1>1. SessionsWith(u)
  BY DEF SessionInv, ConvInv
<1>2. /\ DOMAIN mem'[u].convs = DOMAIN mem[u].convs \cup {id}
      /\ \A x \in DOMAIN mem'[u].convs : mem'[u].convs[x] = IF x = id THEN c ELSE mem[u].convs[x]
  BY PutIsVault
<1>3. ASSUME NEW x \in DOMAIN mem'[u].convs, NEW s, s = mem'[u].convs[x].sess
      PROVE  SessionWith(u, x.who, s)'
  <2>1. CASE x = id
    BY <1>2, <1>3, <2>1
  <2>2. CASE x # id
    <3>1. x \in DOMAIN mem[u].convs /\ s = mem[u].convs[x].sess
      BY <1>2, <1>3, <2>2
    <3>2. SessionWith(u, x.who, s)
      BY <1>1, <3>1 DEF SessionsWith
    <3> QED
      BY <3>2, SessionStays
  <2> QED
    BY <2>1, <2>2
<1> QED
  BY <1>3 DEF SessionsWith

\* The requests that are there stay heard of.
LEMMA PendingStays ==
  ASSUME SessionInv, NEW u \in User, StepOf(u), ram'[u].pending = ram[u].pending
  PROVE  PendingHeard(u)'
BY DEF PendingHeard, SessionInv, ConvInv, StepOf

\* The request that came first is dealt with.
LEMMA PendingTail ==
  ASSUME SessionInv, NEW u \in User, StepOf(u), ram[u].pending # <<>>,
         ram'[u].pending = Tail(ram[u].pending)
  PROVE  PendingHeard(u)'
<1>1. ram[u].pending \in Seq(PendingHandshake)
  BY DEF SessionInv, Shape, Ram
<1>2. PendingHeard(u)
  BY DEF SessionInv, ConvInv
<1> DEFINE s == ram[u].pending
<1>3. /\ Len(s) \in Nat /\ DOMAIN s = 1..Len(s) /\ Len(Tail(s)) = Len(s) - 1
      /\ \A i \in 1..Len(Tail(s)) : Tail(s)[i] = s[i + 1]
      /\ DOMAIN Tail(s) = 1..Len(Tail(s))
  BY <1>1, HeadTailProperties, LenProperties
<1> HIDE DEF s
<1>4. \A i \in DOMAIN Tail(s) : i + 1 \in DOMAIN s /\ Tail(s)[i] = s[i + 1]
  BY <1>3
<1>5. \A i \in DOMAIN s : s[i].root \in heard[u]
  BY <1>2 DEF PendingHeard, s
<1>6. heard[u] \subseteq heard'[u]
  BY DEF StepOf
<1>7. \A i \in DOMAIN ram'[u].pending : ram'[u].pending[i].root \in heard'[u]
  BY <1>4, <1>5, <1>6 DEF s
<1> QED
  BY <1>7 DEF PendingHeard

\* A step that leaves contacts, conversations and requests alone.
LEMMA QuietStep ==
  ASSUME SessionInv, NEW u \in User, StepOf(u),
         mem'[u].contacts = mem[u].contacts, mem'[u].convs = mem[u].convs,
         ram'[u].pending = ram[u].pending,
         \A b \in codes' \ codes : Honoured(b)',
         \A m \in net' \ net : FrameOK(m)'
  PROVE  SessionInv'
BY ContactsStay, SessionsStay, PendingStays, InvStays

\* What the invariant says of a user and of the contacts.
LEMMA Parts ==
  ASSUME SessionInv, NEW u \in User
  PROVE  /\ mem[u] \in Vault /\ disk[u] \in Vault /\ ram[u] \in Ram
         /\ Len(mem[u].opks) \in Sizes /\ Len(disk[u].opks) \in Sizes
         /\ Len(ram[u].pending) <= MaxPending
         /\ drawn[u] \in Nat /\ heard[u] \in SUBSET Root
         /\ mem[u].contacts = disk[u].contacts /\ mem[u].convs = disk[u].convs
         /\ \A i \in DOMAIN mem[u].contacts : mem[u].contacts[i] \in Good
<1>1. /\ mem \in [User -> Vault] /\ disk \in [User -> Vault] /\ ram \in [User -> Ram]
      /\ drawn \in [User -> Nat] /\ heard \in [User -> SUBSET Root]
  BY DEF SessionInv, Shape
<1>2. /\ Len(mem[u].opks) \in Sizes /\ Len(disk[u].opks) \in Sizes
      /\ Len(ram[u].pending) <= MaxPending
  BY DEF SessionInv, Shape
<1>3. mem[u].contacts = disk[u].contacts /\ mem[u].convs = disk[u].convs
  BY DEF SessionInv, ConvInv
<1>4. mem[u].contacts \in Seq(Good)
  BY DEF SessionInv, OfferInv
<1>5. \A i \in DOMAIN mem[u].contacts : mem[u].contacts[i] \in Good
  BY <1>4, LenProperties, ElementOfSeq
<1> QED
  BY <1>1, <1>2, <1>3, <1>5

\* A step of the user: the vault v is in memory and on disk, the prekeys stay.
LEMMA UserStepIs ==
  ASSUME SessionInv, NEW u \in User, Op, NEW v \in Vault, Save(u, v), NEW r \in Ram,
         ram' = [ram EXCEPT ![u] = r], NEW n \in Nat, drawn' = [drawn EXCEPT ![u] = @ + n],
         UNCHANGED <<heard, killed>>, v.opks = mem[u].opks, Len(r.pending) <= MaxPending
  PROVE  StepOf(u) /\ mem'[u] = v /\ ram'[u] = r
<1>1. mem \in [User -> Vault] /\ ram \in [User -> Ram] /\ heard \in [User -> SUBSET Root]
      /\ ops \in 0..MaxOps /\ MaxOps \in Nat
  BY SessionConstants DEF SessionInv, Shape
<1>2. mem' = [mem EXCEPT ![u] = v] /\ disk' = [disk EXCEPT ![u] = v]
  BY DEF Save
<1>3. mem'[u] = v /\ ram'[u] = r
  BY <1>1, <1>2
<1>4. heard' = [heard EXCEPT ![u] = @ \cup {}] /\ killed' = killed /\ {} \in SUBSET Root
  BY <1>1
<1>5. ops' \in 0..MaxOps
  BY <1>1 DEF Op
<1>6. PrekeysKept(u)
  BY <1>3, <1>4 DEF PrekeysKept
<1>7. Len(v.opks) \in Sizes
  BY Parts
<1>8. StepOf(u)
  BY <1>2, <1>4, <1>5, <1>6, <1>7, IsStep
<1> QED
  BY <1>3, <1>8

-----------------------------------------------------------------------------
(* What users do.                                                          *)

\* A contact added by a code, of whatever age, can be answered.
LEMMA AddByCodeStep ==
  ASSUME SessionInv, NEW u \in User, NEW b \in codes, AddByCode(u, b)
  PROVE  SessionInv'
<1> DEFINE v == AddContact(mem[u], b)
<1>1. Honoured(b) /\ b \in Bundle
  BY DEF SessionInv, OfferInv, Honoured
<1>2. mem[u] \in Vault /\ ram[u] \in Ram /\ Len(ram[u].pending) <= MaxPending
      /\ ram \in [User -> Ram] /\ drawn \in [User -> Nat]
  BY Parts DEF SessionInv, Shape
<1>3. NewContact(b) \in Contact /\ NewContact(b).bundle = b /\ NewContact(b).id = b
  BY <1>1 DEF NewContact, Contact
<1>4. v \in Vault /\ v.opks = mem[u].opks /\ v.convs = mem[u].convs
  <2>1. mem[u].contacts \in Seq(Contact)
    BY <1>2 DEF Vault
  <2> QED
    BY <1>1, <1>2, <1>3, <2>1, AddIsVault
<1> HIDE DEF v
<1>5. Op /\ Save(u, v) /\ UNCHANGED <<ram, net, codes, drawn, heard, killed>>
  BY DEF AddByCode, v
<1>6. ram' = [ram EXCEPT ![u] = ram[u]] /\ drawn' = [drawn EXCEPT ![u] = @ + 0]
  BY <1>2, <1>5
<1>7. StepOf(u) /\ mem'[u] = v /\ ram'[u] = ram[u]
  BY <1>2, <1>4, <1>5, <1>6, UserStepIs
<1>8. NewContact(b) \in Good'
  BY <1>1, <1>3, <1>7, HonouredStays DEF Good
<1>9. v.contacts \in Seq(Good')
  BY <1>1, <1>2, <1>7, <1>8, ContactsStay, AddIsVault DEF v
<1> QED
  BY <1>4, <1>5, <1>7, <1>9, SessionsStay, PendingStays, InvStays

\* Asking for a bundle changes no contact, no conversation and no request.
LEMMA ScanBootstrapStep ==
  ASSUME SessionInv, NEW u \in User, NEW w \in User, ScanBootstrap(u, w)
  PROVE  SessionInv'
<1> DEFINE r == [ram[u] EXCEPT !.asked = Append(@, w)]
<1>1. /\ mem[u] \in Vault /\ disk[u] \in Vault /\ ram[u] \in Ram
      /\ mem \in [User -> Vault] /\ disk \in [User -> Vault] /\ ram \in [User -> Ram]
      /\ drawn \in [User -> Nat] /\ heard \in [User -> SUBSET Root]
      /\ ops \in 0..MaxOps /\ MaxOps \in Nat
  BY SessionConstants, Parts DEF SessionInv, Shape
<1>2. r \in Ram /\ r.pending = ram[u].pending
  <2>1. Append(ram[u].asked, w) \in Seq(User)
    BY <1>1, AppendProperties DEF Ram
  <2> QED
    BY <1>1, <2>1 DEF Ram
<1> HIDE DEF r
<1>3. /\ Op /\ ram' = [ram EXCEPT ![u] = r] /\ net' = net \cup {RequestFrame(u, w)}
      /\ UNCHANGED <<mem, disk, codes, drawn, heard, killed>>
  <2>1. ram' = [ram EXCEPT ![u].asked = Append(@, w)]
    BY DEF ScanBootstrap
  <2> QED
    BY <1>1, <2>1 DEF ScanBootstrap, r
<1>4. mem' = [mem EXCEPT ![u] = mem[u]] /\ disk' = [disk EXCEPT ![u] = disk[u]]
      /\ drawn' = [drawn EXCEPT ![u] = @ + 0] /\ heard' = [heard EXCEPT ![u] = @ \cup {}]
  BY <1>1, <1>3
<1>5. PrekeysKept(u)
  BY <1>3 DEF PrekeysKept
<1>6. ops' \in 0..MaxOps
  BY <1>1, <1>3 DEF Op
<1>7. StepOf(u)
  <2>1. /\ Len(mem[u].opks) \in Sizes /\ Len(disk[u].opks) \in Sizes /\ Len(r.pending) <= MaxPending
        /\ disk[u].contacts = mem[u].contacts /\ disk[u].convs = mem[u].convs
    BY <1>2, Parts
  <2>2. {} \in SUBSET Root /\ killed' = killed
    BY <1>3
  <2> QED
    BY <1>1, <1>2, <1>3, <1>4, <1>5, <1>6, <2>1, <2>2, IsStep
<1>8. \A m \in net' \ net : FrameOK(m)'
  <2>1. FrameOK(RequestFrame(u, w))'
    BY DEF FrameOK, RequestFrame
  <2> QED
    BY <1>3, <2>1
<1>9. ram'[u].pending = ram[u].pending
  BY <1>1, <1>2, <1>3
<1> QED
  BY <1>3, <1>7, <1>8, <1>9, QuietStep

\* A message is written: it is kept with a session that is with the user of the
\* conversation, and a frame goes out.
LEMMA SendStep ==
  ASSUME SessionInv, NEW u \in User, NEW id \in Bundle, NEW c \in Conv, NEW m,
         Op, Save(u, PutConversation(mem[u], id, c)), net' = net \cup {m},
         drawn' = [drawn EXCEPT ![u] = @ + 1], UNCHANGED <<ram, codes, heard, killed>>,
         m.type \in {"Handshake", "Data"}, m.root \in Root, m.text \in Text,
         SessionWith(u, id.who, c.sess)
  PROVE  SessionInv'
<1> DEFINE v == PutConversation(mem[u], id, c)
<1>1. mem[u] \in Vault /\ ram[u] \in Ram /\ Len(ram[u].pending) <= MaxPending
      /\ ram \in [User -> Ram]
  BY Parts DEF SessionInv, Shape
<1>2. v \in Vault /\ v.opks = mem[u].opks /\ v.contacts = mem[u].contacts
  BY <1>1, PutIsVault
<1>3. Save(u, v)
  OBVIOUS
<1> HIDE DEF v
<1>4. ram' = [ram EXCEPT ![u] = ram[u]]
  BY <1>1
<1>5. StepOf(u) /\ mem'[u] = v /\ ram'[u] = ram[u]
  BY <1>1, <1>2, <1>3, <1>4, UserStepIs
<1>6. SessionsWith(u)'
  <2>1. SessionWith(u, id.who, c.sess)'
    BY <1>5, SessionStays
  <2> QED
    BY <1>1, <1>5, <2>1, SessionsPut DEF v
<1>7. \A x \in net' \ net : FrameOK(x)'
  <2>1. FrameOK(m)'
    BY DEF FrameOK
  <2> QED
    BY <2>1
<1> QED
  BY <1>2, <1>5, <1>6, <1>7, ContactsStay, PendingStays, InvStays

\* A handshake goes to the contact's user, and the session with it is kept.
LEMMA SendFirstStep ==
  ASSUME SessionInv, NEW u \in User, NEW i \in DOMAIN mem[u].contacts, NEW p \in Texts,
         SendFirst(u, i, p)
  PROVE  SessionInv'
<1> DEFINE c == mem[u].contacts[i]
           conv == Conversation(mem[u], c.id)
           r == AliceRoot(u, c.bundle, drawn[u] + 1)
           m == HandshakeFrame(r, p)
           new == [sess |-> [root |-> r, send |-> TRUE], log |-> Append(conv.log, m.text)]
<1>1. mem[u] \in Vault /\ drawn[u] \in Nat /\ c \in Contact /\ c.bundle.who = c.id.who
  BY Parts DEF SessionInv, Shape, Good
<1>2. c.id \in Bundle /\ c.bundle \in Bundle /\ c.bundle.who \in User /\ c.bundle.opks \in Seq(Nat)
  BY <1>1 DEF Contact, Bundle
<1>3. conv \in Conv
  BY <1>1, ConversationIsConv
<1> HIDE DEF c, conv
<1>4. r \in Root /\ r.from = u /\ r.to = c.bundle.who /\ r.eph \in Nat
  <2>1. c.bundle.opks # <<>> => Head(c.bundle.opks) \in Nat
    BY <1>2, HeadTailProperties
  <2>2. drawn[u] + 1 \in Nat
    BY <1>1
  <2> QED
    BY <1>2, <2>1, <2>2 DEF AliceRoot, Root
<1> HIDE DEF r
<1>5. m.type = "Handshake" /\ m.root = r /\ m.text \in Text
  BY <1>4 DEF HandshakeFrame, Text
<1> HIDE DEF m
<1>6. new \in Conv
  <2>1. Append(conv.log, m.text) \in Seq(Text)
    BY <1>3, <1>5, AppendProperties DEF Conv
  <2> QED
    BY <1>4, <2>1 DEF Conv
<1>7. new.sess.root = r
  OBVIOUS
<1>8. SessionWith(u, c.id.who, new.sess)
  BY <1>1, <1>4, <1>7 DEF SessionWith
<1> HIDE DEF new
<1>9. /\ Op /\ Save(u, PutConversation(mem[u], c.id, new)) /\ net' = net \cup {m}
      /\ drawn' = [drawn EXCEPT ![u] = @ + 1] /\ UNCHANGED <<ram, codes, heard, killed>>
  BY DEF SendFirst, c, conv, r, m, new
<1> QED
  BY <1>2, <1>4, <1>5, <1>6, <1>8, <1>9, SendStep

\* A message over a session changes the log only.
LEMMA SendMoreStep ==
  ASSUME SessionInv, NEW u \in User, NEW i \in DOMAIN mem[u].contacts, NEW p \in Texts,
         SendMore(u, i, p)
  PROVE  SessionInv'
<1> PICK c : c = mem[u].contacts[i]
  OBVIOUS
<1> DEFINE conv == Conversation(mem[u], c.id)
           m == DataFrame(u, c.bundle.who, conv.sess.root, c.id, drawn[u] + 1, p)
           new == [conv EXCEPT !.log = Append(@, m.text)]
<1>1. mem[u] \in Vault /\ drawn[u] \in Nat /\ c \in Contact
  BY Parts DEF SessionInv, Shape, Good
<1>2. c.id \in Bundle
  BY <1>1 DEF Contact
<1>3. conv \in Conv
  BY <1>1, ConversationIsConv, Zenon
<1>4. conv.sess # NoSession /\ Op /\ Save(u, PutConversation(mem[u], c.id, new)) /\ net' = net \cup {m}
      /\ drawn' = [drawn EXCEPT ![u] = @ + 1] /\ UNCHANGED <<ram, codes, heard, killed>>
  BY Zenon DEF SendMore
<1>5. SessionWith(u, c.id.who, conv.sess)
  <2>1. c.id \in DOMAIN mem[u].convs /\ conv = mem[u].convs[c.id]
    BY <1>4, Zenon DEF Conversation
  <2>2. SessionsWith(u)
    BY DEF SessionInv, ConvInv
  <2> QED
    BY <2>1, <2>2, Zenon DEF SessionsWith
<1> HIDE DEF conv
<1>6. conv.sess.root \in Root
  BY <1>3, <1>4 DEF Conv
<1>7. m.type = "Data" /\ m.root \in Root /\ m.text \in Text
  <2>1. drawn[u] + 1 \in Nat
    BY <1>1
  <2> QED
    BY <1>6, <2>1 DEF DataFrame, Text
<1> HIDE DEF m
<1>8. new \in Conv /\ new.sess = conv.sess
  <2>1. Append(conv.log, m.text) \in Seq(Text)
    BY <1>3, <1>7, AppendProperties DEF Conv
  <2> QED
    BY <1>3, <2>1 DEF Conv
<1> HIDE DEF new
<1> QED
  BY <1>2, <1>4, <1>5, <1>7, <1>8, SendStep

\* The session of a request that is accepted was derived from a handshake of the
\* user who becomes a contact.
LEMMA AcceptStep ==
  ASSUME SessionInv, NEW u \in User, Accept(u)
  PROVE  SessionInv'
<1>1. mem[u] \in Vault /\ ram[u] \in Ram /\ Len(ram[u].pending) <= MaxPending
      /\ ram \in [User -> Ram] /\ drawn \in [User -> Nat]
      /\ ram[u].pending # <<>> /\ ram[u].pending \in Seq(PendingHandshake)
  BY Parts DEF SessionInv, Shape, Accept, Ram
<1>2. PICK p : p = Head(ram[u].pending)
  OBVIOUS
<1>3. PICK b : b = BundleOf(p.root.from, <<>>)
  OBVIOUS
<1>4. p \in PendingHandshake /\ p.root \in heard[u]
      /\ Tail(ram[u].pending) \in Seq(PendingHandshake) /\ Len(Tail(ram[u].pending)) <= MaxPending
  <2>1. /\ Len(ram[u].pending) \in Nat /\ DOMAIN ram[u].pending = 1..Len(ram[u].pending)
        /\ Tail(ram[u].pending) \in Seq(PendingHandshake)
        /\ Len(Tail(ram[u].pending)) = Len(ram[u].pending) - 1 /\ Len(ram[u].pending) # 0
        /\ p \in PendingHandshake
    BY <1>1, <1>2, HeadTailProperties, LenProperties, EmptySeq
  <2>2. p = ram[u].pending[1] /\ 1 \in DOMAIN ram[u].pending
    BY <1>1, <1>2, <2>1
  <2>3. PendingHeard(u)
    BY DEF SessionInv, ConvInv
  <2>4. MaxPending \in Nat
    BY SessionConstants
  <2> QED
    BY <1>1, <2>1, <2>2, <2>3, <2>4 DEF PendingHeard
<1>5. p.root \in Root /\ p.text \in Text /\ b \in Bundle /\ b.who = p.root.from /\ b.opks = <<>>
  <2>1. p.root \in Root /\ p.text \in Text
    BY <1>4 DEF PendingHandshake
  <2> QED
    BY <1>3, <2>1, EmptySeq DEF Root, Bundle, BundleOf
<1>6. PICK c : c = [sess |-> [root |-> p.root, send |-> FALSE], log |-> <<p.text>>]
  OBVIOUS
<1>7. c \in Conv /\ c.sess.root = p.root
  BY <1>5, <1>6 DEF Conv
<1> DEFINE a == AddContact(mem[u], b)
           v == PutConversation(a, b, c)
           r == [ram[u] EXCEPT !.pending = Tail(@)]
<1>8. NewContact(b) \in Contact /\ NewContact(b).bundle = b /\ NewContact(b).id = b
  BY <1>5 DEF NewContact, Contact
<1>9. a \in Vault /\ a.opks = mem[u].opks /\ a.convs = mem[u].convs
  <2>1. mem[u].contacts \in Seq(Contact)
    BY <1>1 DEF Vault
  <2> QED
    BY <1>1, <1>5, <1>8, <2>1, AddIsVault
<1> HIDE DEF a
<1>10. v \in Vault /\ v.opks = a.opks /\ v.contacts = a.contacts
  BY <1>5, <1>7, <1>9, PutIsVault
<1> HIDE DEF v
<1>11. r \in Ram /\ r.pending = Tail(ram[u].pending)
  BY <1>1, <1>4 DEF Ram
<1> HIDE DEF r
<1>12. Op /\ Save(u, v) /\ ram' = [ram EXCEPT ![u] = r]
       /\ UNCHANGED <<net, codes, drawn, heard, killed>>
  <2>1. Op /\ Save(u, v) /\ ram' = [ram EXCEPT ![u].pending = Tail(@)]
        /\ UNCHANGED <<net, codes, drawn, heard, killed>>
    BY <1>2, <1>3, <1>6 DEF Accept, a, v
  <2>2. [ram EXCEPT ![u].pending = Tail(@)] = [ram EXCEPT ![u] = r]
    BY <1>1 DEF r
  <2> QED
    BY <2>1, <2>2
<1>13. drawn' = [drawn EXCEPT ![u] = @ + 0]
  BY <1>1, <1>12
<1>14. StepOf(u) /\ mem'[u] = v /\ ram'[u] = r
  <2>1. Len(r.pending) <= MaxPending /\ v.opks = mem[u].opks /\ UNCHANGED <<heard, killed>>
    BY <1>4, <1>9, <1>10, <1>11, <1>12
  <2>2. v \in Vault /\ r \in Ram /\ 0 \in Nat /\ Op /\ Save(u, v) /\ ram' = [ram EXCEPT ![u] = r]
    BY <1>10, <1>11, <1>12
  <2> QED
    BY <1>1, <1>13, <2>1, <2>2, UserStepIs
<1>15. v.contacts \in Seq(Good')
  <2>1. Honoured(b)'
    BY <1>5 DEF Honoured
  <2>2. NewContact(b) \in Good'
    BY <1>8, <2>1 DEF Good
  <2> QED
    BY <1>1, <1>5, <1>10, <1>14, <2>2, ContactsStay, AddIsVault DEF a
<1>16. SessionsWith(u)'
  <2>1. SessionWith(u, b.who, c.sess)
    BY <1>4, <1>5, <1>7 DEF SessionWith
  <2>2. SessionWith(u, b.who, c.sess)'
    BY <1>14, <2>1, SessionStays
  <2> QED
    BY <1>5, <1>7, <1>9, <1>14, <2>2, SessionsPut DEF v
<1>17. PendingHeard(u)'
  BY <1>1, <1>11, <1>14, PendingTail
<1> QED
  BY <1>12, <1>14, <1>15, <1>16, <1>17, InvStays

\* A request that is turned down is gone, and nothing else changes.
LEMMA RejectStep ==
  ASSUME SessionInv, NEW u \in User, Reject(u)
  PROVE  SessionInv'
<1> DEFINE r == [ram[u] EXCEPT !.pending = Tail(@)]
<1>1. /\ mem[u] \in Vault /\ disk[u] \in Vault /\ ram[u] \in Ram
      /\ mem \in [User -> Vault] /\ disk \in [User -> Vault] /\ ram \in [User -> Ram]
      /\ drawn \in [User -> Nat] /\ heard \in [User -> SUBSET Root]
      /\ ops \in 0..MaxOps /\ MaxOps \in Nat /\ MaxPending \in Nat
      /\ Len(ram[u].pending) <= MaxPending
      /\ ram[u].pending # <<>> /\ ram[u].pending \in Seq(PendingHandshake)
  BY SessionConstants, Parts DEF SessionInv, Shape, Reject, Ram
<1>2. r \in Ram /\ r.pending = Tail(ram[u].pending) /\ Len(r.pending) <= MaxPending
  <2>1. /\ Len(ram[u].pending) \in Nat /\ Tail(ram[u].pending) \in Seq(PendingHandshake)
        /\ Len(Tail(ram[u].pending)) = Len(ram[u].pending) - 1
    BY <1>1, HeadTailProperties, LenProperties
  <2>2. r \in Ram /\ r.pending = Tail(ram[u].pending)
    BY <1>1, <2>1 DEF Ram
  <2> HIDE DEF r
  <2>3. Len(Tail(ram[u].pending)) <= MaxPending
    BY <1>1, <2>1
  <2> QED
    BY <2>2, <2>3
<1> HIDE DEF r
<1>3. Op /\ ram' = [ram EXCEPT ![u] = r] /\ UNCHANGED <<mem, disk, net, codes, drawn, heard, killed>>
  <2>1. ram' = [ram EXCEPT ![u].pending = Tail(@)]
    BY DEF Reject
  <2> QED
    BY <1>1, <2>1 DEF Reject, r
<1>4. mem' = [mem EXCEPT ![u] = mem[u]] /\ disk' = [disk EXCEPT ![u] = disk[u]]
      /\ drawn' = [drawn EXCEPT ![u] = @ + 0] /\ heard' = [heard EXCEPT ![u] = @ \cup {}]
  BY <1>1, <1>3
<1>5. PrekeysKept(u)
  BY <1>3 DEF PrekeysKept
<1>6. ops' \in 0..MaxOps
  BY <1>1, <1>3 DEF Op
<1>7. StepOf(u) /\ ram'[u] = r
  <2>1. /\ Len(mem[u].opks) \in Sizes /\ Len(disk[u].opks) \in Sizes
        /\ disk[u].contacts = mem[u].contacts /\ disk[u].convs = mem[u].convs
    BY Parts
  <2>2. {} \in SUBSET Root /\ killed \subseteq killed' /\ killed' \subseteq killed \cup {u} /\ 0 \in Nat
    BY <1>3
  <2>3. ram' = [ram EXCEPT ![u] = r] /\ r \in Ram /\ Len(r.pending) <= MaxPending
    BY <1>2, <1>3
  <2>4. StepOf(u)
    BY <1>1, <1>4, <1>5, <1>6, <2>1, <2>2, <2>3, IsStep, ZenonT(30)
  <2> QED
    BY <1>1, <2>3, <2>4
<1>8. mem'[u].contacts \in Seq(Good')
  BY <1>3, <1>7, ContactsStay
<1> QED
  BY <1>1, <1>2, <1>3, <1>7, <1>8, PendingTail, SessionsStay, InvStays

\* A contact that is deleted leaves its conversation behind.
LEMMA DeleteStep ==
  ASSUME SessionInv, NEW u \in User, NEW i \in DOMAIN mem[u].contacts, Delete(u, i)
  PROVE  SessionInv'
<1> DEFINE v == [mem[u] EXCEPT !.contacts = RemoveAt(@, i)]
<1>1. mem[u] \in Vault /\ ram[u] \in Ram /\ Len(ram[u].pending) <= MaxPending
      /\ ram \in [User -> Ram] /\ drawn \in [User -> Nat]
      /\ mem[u].contacts \in Seq(Contact) /\ i \in 1..Len(mem[u].contacts)
  <2>1. mem[u].contacts \in Seq(Contact)
    BY Parts DEF Vault
  <2> QED
    BY <2>1, Parts, LenProperties DEF SessionInv, Shape
<1>2. v \in Vault /\ v.opks = mem[u].opks /\ v.convs = mem[u].convs
      /\ v.contacts = RemoveAt(mem[u].contacts, i)
  <2>1. RemoveAt(mem[u].contacts, i) \in Seq(Contact)
    BY <1>1, RemoveAtIsSeq
  <2> QED
    BY <1>1, <2>1 DEF Vault
<1> HIDE DEF v
<1>3. Op /\ Save(u, v) /\ UNCHANGED <<ram, net, codes, drawn, heard, killed>>
  BY DEF Delete, v
<1>4. ram' = [ram EXCEPT ![u] = ram[u]] /\ drawn' = [drawn EXCEPT ![u] = @ + 0]
  BY <1>1, <1>3
<1>5. StepOf(u) /\ mem'[u] = v /\ ram'[u] = ram[u]
  BY <1>1, <1>2, <1>3, <1>4, UserStepIs
<1>6. v.contacts \in Seq(Good')
  BY <1>1, <1>2, <1>5, ContactsStay, RemoveAtIsSeq
<1> QED
  BY <1>2, <1>3, <1>5, <1>6, SessionsStay, PendingStays, InvStays

\* The program starts with what it had, or with what was last saved: the same
\* contacts and conversations, the prekeys perhaps not.
LEMMA RestartStep ==
  ASSUME SessionInv, NEW u \in User, NEW clean \in BOOLEAN, Restart(u, clean)
  PROVE  SessionInv'
<1>1. PICK v : v = IF clean THEN mem[u] ELSE disk[u]
  OBVIOUS
<1> DEFINE r == FreshRam(v)
<1>2. /\ v \in Vault /\ Len(v.opks) \in Sizes /\ mem \in [User -> Vault] /\ ram \in [User -> Ram]
      /\ v.contacts = mem[u].contacts /\ v.convs = mem[u].convs
      /\ drawn \in [User -> Nat] /\ heard \in [User -> SUBSET Root]
      /\ ops \in 0..MaxOps /\ MaxOps \in Nat
  BY <1>1, SessionConstants, Parts DEF SessionInv, Shape
<1>3. r \in Ram /\ r.pending = <<>> /\ Len(r.pending) <= MaxPending
  BY <1>2, EmptySeq, SessionConstants DEF FreshRam, Ram, Vault
<1> HIDE DEF r
<1>4. /\ Op /\ Save(u, v) /\ ram' = [ram EXCEPT ![u] = r]
      /\ codes' = codes \cup {BundleOf(u, v.opks)}
      /\ killed' = IF clean THEN killed ELSE killed \cup {u}
      /\ UNCHANGED <<net, drawn, heard>>
  BY <1>1 DEF Restart, r
<1>5. mem' = [mem EXCEPT ![u] = v] /\ disk' = [disk EXCEPT ![u] = v]
      /\ drawn' = [drawn EXCEPT ![u] = @ + 0] /\ heard' = [heard EXCEPT ![u] = @ \cup {}]
  BY <1>2, <1>4 DEF Save
<1>6. mem'[u] = v /\ ram'[u] = r
  BY <1>2, <1>4, <1>5
<1>7. u \notin killed' => PrekeysKept(u)
  BY <1>1, <1>4, <1>6 DEF PrekeysKept
<1>8. StepOf(u)
  <2>1. ops' \in 0..MaxOps
    BY <1>2, <1>4 DEF Op
  <2>2. {} \in SUBSET Root /\ killed \subseteq killed' /\ killed' \subseteq killed \cup {u}
    BY <1>4
  <2> QED
    BY <1>2, <1>3, <1>4, <1>5, <1>7, <2>1, <2>2, IsStep
<1>9. \A b \in codes' \ codes : Honoured(b)'
  <2>1. Honoured(BundleOf(u, v.opks))'
    BY <1>6, <1>8, OwnHonoured DEF StepOf
  <2> QED
    BY <1>4, <2>1
<1>10. PendingHeard(u)'
  <2>1. DOMAIN ram'[u].pending = {}
    BY <1>3, <1>6
  <2> QED
    BY <2>1 DEF PendingHeard
<1> QED
  BY <1>2, <1>4, <1>6, <1>8, <1>9, <1>10, ContactsStay, SessionsStay, InvStays

-----------------------------------------------------------------------------
(* Frames that arrive.                                                     *)

\* The effect of a handler, applied.
LEMMA ApplyIs ==
  ASSUME SessionInv, NEW u \in User, NEW m, NEW e, Apply(u, e, m),
         e.v \in Vault, Len(e.v.opks) \in Sizes, e.r \in Ram, Len(e.r.pending) <= MaxPending,
         e.new \in Nat, m.type = "Handshake" => m.root \in Root,
         \/ e.save = TRUE
         \/ e.save = FALSE /\ e.v.contacts = mem[u].contacts /\ e.v.convs = mem[u].convs,
         u \notin killed => PrekeysKept(u) \/ PrekeyUsed(u)
  PROVE  /\ StepOf(u) /\ mem'[u] = e.v /\ ram'[u] = e.r
         /\ net' = net \cup e.out /\ codes' = codes /\ killed' = killed
<1> DEFINE d == IF e.save THEN e.v ELSE disk[u]
           H == IF m.type = "Handshake" /\ e # Nothing(mem[u], ram[u]) THEN {m.root} ELSE {}
<1>1. /\ mem[u] \in Vault /\ disk[u] \in Vault
      /\ mem \in [User -> Vault] /\ disk \in [User -> Vault] /\ ram \in [User -> Ram]
      /\ drawn \in [User -> Nat] /\ heard \in [User -> SUBSET Root]
      /\ ops \in 0..MaxOps /\ Len(disk[u].opks) \in Sizes
      /\ mem[u].contacts = disk[u].contacts /\ mem[u].convs = disk[u].convs
  BY Parts DEF SessionInv, Shape
<1>2. /\ mem' = [mem EXCEPT ![u] = e.v]
      /\ disk' = IF e.save THEN [disk EXCEPT ![u] = e.v] ELSE disk
      /\ ram' = [ram EXCEPT ![u] = e.r] /\ net' = net \cup e.out
      /\ drawn' = [drawn EXCEPT ![u] = @ + e.new]
      /\ heard' = IF m.type = "Handshake" /\ e # Nothing(mem[u], ram[u])
                  THEN [heard EXCEPT ![u] = @ \cup {m.root}] ELSE heard
      /\ UNCHANGED <<codes, ops, killed>>
  BY DEF Apply
<1>3. disk' = [disk EXCEPT ![u] = d] /\ d \in Vault /\ Len(d.opks) \in Sizes
      /\ d.contacts = e.v.contacts /\ d.convs = e.v.convs
  <2>1. CASE e.save = TRUE
    BY <1>1, <1>2, <2>1
  <2>2. CASE e.save = FALSE /\ e.v.contacts = mem[u].contacts /\ e.v.convs = mem[u].convs
    BY <1>1, <1>2, <2>2
  <2> QED
    BY <2>1, <2>2
<1>4. heard' = [heard EXCEPT ![u] = @ \cup H] /\ H \in SUBSET Root
  <2>1. CASE m.type = "Handshake" /\ e # Nothing(mem[u], ram[u])
    BY <1>1, <1>2, <2>1
  <2>2. CASE ~(m.type = "Handshake" /\ e # Nothing(mem[u], ram[u]))
    BY <1>1, <1>2, <2>2
  <2> QED
    BY <2>1, <2>2
<1> HIDE DEF d, H
<1>5. StepOf(u)
  <2>1. ops' \in 0..MaxOps /\ killed \subseteq killed' /\ killed' \subseteq killed \cup {u}
    BY <1>1, <1>2
  <2>2. u \notin killed' => PrekeysKept(u) \/ PrekeyUsed(u)
    BY <1>2
  <2>3. mem' = [mem EXCEPT ![u] = e.v] /\ ram' = [ram EXCEPT ![u] = e.r]
        /\ drawn' = [drawn EXCEPT ![u] = @ + e.new]
    BY <1>2
  <2> QED
    BY <1>1, <1>3, <1>4, <2>1, <2>2, <2>3, IsStep
<1> QED
  BY <1>1, <1>2, <1>5

\* The first contact with the sender's key.
LEMMA SenderFound ==
  ASSUME NEW v \in Vault, NEW who, SenderPositions(v, who) # {}
  PROVE  /\ Min(SenderPositions(v, who)) \in DOMAIN v.contacts
         /\ v.contacts[Min(SenderPositions(v, who))].bundle.who = who
<1>1. SenderPositions(v, who) = {i \in DOMAIN v.contacts : v.contacts[i].bundle.who = who}
  BY DEF SenderPositions, Positions
<1>2. DOMAIN v.contacts \in SUBSET Nat
  <2>1. v.contacts \in Seq(Contact)
    BY DEF Vault
  <2>2. DOMAIN v.contacts = 1..Len(v.contacts) /\ Len(v.contacts) \in Nat
    BY <2>1, LenProperties
  <2> QED
    BY <2>2
<1>3. SenderPositions(v, who) \in SUBSET Nat
  BY <1>1, <1>2
<1>4. Min(SenderPositions(v, who)) \in SenderPositions(v, who)
  BY <1>3, LeastElement
<1> QED
  BY <1>1, <1>4

\* A frame that is dropped changes nothing.
LEMMA NothingStep ==
  ASSUME SessionInv, NEW u \in User, NEW m \in net, Apply(u, Nothing(mem[u], ram[u]), m)
  PROVE  SessionInv'
<1>1. PICK e : e = Nothing(mem[u], ram[u])
  OBVIOUS
<1>2. e.v = mem[u] /\ e.r = ram[u] /\ e.out = {} /\ e.new = 0 /\ e.save = FALSE
  BY <1>1 DEF Nothing, Effect
<1>3. /\ mem[u] \in Vault /\ ram[u] \in Ram /\ Len(mem[u].opks) \in Sizes
      /\ Len(ram[u].pending) <= MaxPending /\ mem \in [User -> Vault]
      /\ heard \in [User -> SUBSET Root]
  BY Parts DEF SessionInv, Shape
<1>4. Apply(u, e, m)
  BY <1>1
<1>5. PrekeysKept(u)
  BY <1>1, <1>2, <1>3, <1>4 DEF PrekeysKept, Apply
<1>6. m.type = "Handshake" => m.root \in Root
  BY DEF SessionInv, OfferInv, FrameOK
<1>7. StepOf(u) /\ mem'[u] = e.v /\ ram'[u] = e.r /\ net' = net \cup e.out /\ codes' = codes
  <2>1. /\ e.v \in Vault /\ Len(e.v.opks) \in Sizes /\ e.r \in Ram /\ Len(e.r.pending) <= MaxPending
        /\ e.new \in Nat
    BY <1>2, <1>3
  <2>2. e.save = FALSE /\ e.v.contacts = mem[u].contacts /\ e.v.convs = mem[u].convs
    BY <1>2, Zenon
  <2> QED
    BY <1>4, <1>5, <1>6, <2>1, <2>2, ApplyIs
<1> QED
  BY <1>2, <1>7, QuietStep

\* The effect of a handler that uses no prekey.
LEMMA DeliverIs ==
  ASSUME SessionInv, NEW u \in User, NEW m, NEW e, Apply(u, e, m),
         e.v \in Vault, e.r \in Ram, e.v.opks = mem[u].opks, e.new = 0,
         Len(e.r.pending) <= MaxPending, m.type # "Handshake",
         \/ e.save = TRUE
         \/ e.save = FALSE /\ e.v.contacts = mem[u].contacts /\ e.v.convs = mem[u].convs
  PROVE  /\ StepOf(u) /\ mem'[u] = e.v /\ ram'[u] = e.r
         /\ net' = net \cup e.out /\ codes' = codes /\ killed' = killed
<1>1. Len(e.v.opks) \in Sizes /\ mem \in [User -> Vault] /\ heard \in [User -> SUBSET Root]
      /\ e.new \in Nat
  BY Parts DEF SessionInv, Shape
<1>2. PrekeysKept(u)
  <2>1. mem' = [mem EXCEPT ![u] = e.v] /\ heard' = heard
    BY DEF Apply
  <2> QED
    BY <1>1, <2>1 DEF PrekeysKept
<1> QED
  BY <1>1, <1>2, ApplyIs

\* Whoever asks for the bundle gets what can be answered.
LEMMA BundleRequestStep ==
  ASSUME SessionInv, NEW u \in User, NEW m \in net, m.type = "BundleRequest",
         Apply(u, HandleBundleRequest(u, mem[u], ram[u], m), m)
  PROVE  SessionInv'
<1>1. PICK f : f = ResponseFrame(u, m.from, mem[u].opks)
  OBVIOUS
<1>2. PICK e : e = Effect(mem[u], ram[u], {f}, 0, FALSE)
  OBVIOUS
<1>3. mem[u] \in Vault /\ ram[u] \in Ram /\ Len(ram[u].pending) <= MaxPending
  BY Parts
<1>4. StepOf(u) /\ mem'[u] = mem[u] /\ ram'[u] = ram[u] /\ net' = net \cup {f} /\ codes' = codes
  <2>1. Apply(u, e, m)
    BY <1>1, <1>2 DEF HandleBundleRequest
  <2>2. e.v = mem[u] /\ e.r = ram[u] /\ e.out = {f} /\ e.new = 0
    BY <1>2 DEF Effect
  <2>3. e.save = FALSE
    BY <1>2, Zenon DEF Effect
  <2> QED
    BY <1>3, <2>1, <2>2, <2>3, DeliverIs
<1>5. FrameOK(f)'
  <2>1. PICK s : s = mem[u].opks
    OBVIOUS
  <2>2. Honoured(BundleOf(u, s))'
    BY <1>4, <2>1, OwnHonoured DEF StepOf
  <2>3. f.type = "BundleResponse" /\ f.bundle = BundleOf(u, s)
    BY <1>1, <2>1 DEF ResponseFrame
  <2> QED
    BY <2>2, <2>3 DEF FrameOK
<1> QED
  BY <1>4, <1>5, QuietStep

\* The bundle that was asked for makes a contact that can be answered.
LEMMA BundleResponseStep ==
  ASSUME SessionInv, NEW u \in User, NEW m \in net, m.type = "BundleResponse",
         Apply(u, HandleBundleResponse(mem[u], ram[u], m), m)
  PROVE  SessionInv'
<1>1. mem[u] \in Vault /\ ram[u] \in Ram /\ Len(ram[u].pending) <= MaxPending
      /\ mem[u].contacts \in Seq(Contact) /\ ram[u].asked \in Seq(User)
  BY Parts DEF Vault, Ram
<1>2. PICK b : b = m.bundle
  OBVIOUS
<1>3. Honoured(b) /\ b \in Bundle
  BY <1>2 DEF SessionInv, OfferInv, FrameOK, Honoured
<1> DEFINE I == {i \in DOMAIN ram[u].asked : ram[u].asked[i] = b.who}
           v == AddContact(mem[u], b)
           r == Answered(ram[u], Min(I))
<1>4. HandleBundleResponse(mem[u], ram[u], m) =
        IF I = {} THEN Nothing(mem[u], ram[u]) ELSE Effect(v, r, {}, 0, TRUE)
  BY <1>2 DEF HandleBundleResponse, Positions, BootstrapCode
<1>5. CASE I = {}
  BY <1>4, <1>5, NothingStep
<1>6. CASE I # {}
  <2>1. Min(I) \in 1..Len(ram[u].asked)
    <3>1. DOMAIN ram[u].asked = 1..Len(ram[u].asked) /\ Len(ram[u].asked) \in Nat
      BY <1>1, LenProperties
    <3>2. I \in SUBSET Nat /\ I \subseteq 1..Len(ram[u].asked)
      BY <3>1
    <3> HIDE DEF I
    <3>3. Min(I) \in I
      BY <1>6, <3>2, LeastElement
    <3> QED
      BY <3>2, <3>3
  <2>2. PICK k \in 1..Len(ram[u].asked) : k = Min(I)
    BY <2>1
  <2>3. r \in Ram /\ r.pending = ram[u].pending
    <3>1. RemoveAt(ram[u].asked, k) \in Seq(User)
      BY <1>1, RemoveAtIsSeq
    <3> QED
      BY <1>1, <2>2, <3>1 DEF Answered, Ram
  <2>4. NewContact(b) \in Contact /\ NewContact(b).bundle = b /\ NewContact(b).id = b
    BY <1>3 DEF NewContact, Contact
  <2>5. v \in Vault /\ v.opks = mem[u].opks /\ v.convs = mem[u].convs
    BY <1>1, <1>3, <2>4, AddIsVault
  <2>6. PICK e : e = Effect(v, r, {}, 0, TRUE) /\ Apply(u, e, m)
    BY <1>4, <1>6
  <2> HIDE DEF v, r, I
  <2>7. StepOf(u) /\ mem'[u] = v /\ ram'[u] = r /\ net' = net /\ codes' = codes
    <3>1. e.v = v /\ e.r = r /\ e.out = {} /\ e.new = 0
      BY <2>6 DEF Effect
    <3>2. e.save = TRUE
      BY <2>6, Zenon DEF Effect
    <3>3. /\ e.v \in Vault /\ e.r \in Ram /\ e.v.opks = mem[u].opks /\ e.new = 0
          /\ Len(e.r.pending) <= MaxPending /\ m.type # "Handshake" /\ Apply(u, e, m)
      BY <1>1, <2>3, <2>5, <2>6, <3>1
    <3>4. /\ StepOf(u) /\ mem'[u] = e.v /\ ram'[u] = e.r
          /\ net' = net \cup e.out /\ codes' = codes
      BY <3>2, <3>3, DeliverIs
    <3> QED
      BY <3>1, <3>4
  <2>8. NewContact(b) \in Good'
    BY <1>3, <2>4, <2>7, HonouredStays DEF Good
  <2>9. v.contacts \in Seq(Good')
    BY <1>1, <1>3, <2>7, <2>8, ContactsStay, AddIsVault DEF v
  <2> QED
    BY <2>3, <2>5, <2>7, <2>9, SessionsStay, PendingStays, InvStays
<1> QED
  BY <1>5, <1>6

\* The list of the sender's entry is replaced by one that can be answered.
LEMMA OpkRefreshStep ==
  ASSUME SessionInv, NEW u \in User, NEW m \in net, m.type = "OpkRefresh",
         Apply(u, HandleOpkRefresh(mem[u], ram[u], m), m)
  PROVE  SessionInv'
<1>1. mem[u] \in Vault /\ ram[u] \in Ram /\ Len(ram[u].pending) <= MaxPending
      /\ mem[u].contacts \in Seq(Contact)
      /\ \A i \in DOMAIN mem[u].contacts : mem[u].contacts[i] \in Good
  BY Parts DEF Vault
<1>2. PICK b : b = m.bundle
  OBVIOUS
<1>3. Honoured(b) /\ b \in Bundle
  BY <1>2 DEF SessionInv, OfferInv, FrameOK, Honoured
<1>4. CASE SenderPositions(mem[u], b.who) = {}
  BY <1>2, <1>4, NothingStep DEF HandleOpkRefresh
<1>5. CASE SenderPositions(mem[u], b.who) # {}
  <2>1. PICK i : i = Min(SenderPositions(mem[u], b.who))
    OBVIOUS
  <2>2. i \in DOMAIN mem[u].contacts /\ mem[u].contacts[i].bundle.who = b.who
    BY <1>1, <1>5, <2>1, SenderFound
  <2>3. PICK c : c = mem[u].contacts[i]
    OBVIOUS
  <2>4. c \in Contact /\ c.bundle.who = c.id.who /\ c.bundle.who = b.who
    BY <1>1, <2>2, <2>3 DEF Good
  <2>5. PICK n : n = ApplyOpkRefresh(c, b.opks)
    OBVIOUS
  <2>6. n \in Contact /\ n.bundle = b /\ n.id = c.id
    <3>1. [c.bundle EXCEPT !.opks = b.opks] = b
      BY <1>3, <2>4 DEF Contact, Bundle
    <3>2. n = [c EXCEPT !.bundle = b]
      BY <2>4, <2>5, <3>1 DEF ApplyOpkRefresh, Contact
    <3> QED
      BY <1>3, <2>4, <3>2 DEF Contact
  <2> DEFINE v == [mem[u] EXCEPT !.contacts = [@ EXCEPT ![i] = n]]
  <2>7. HandleOpkRefresh(mem[u], ram[u], m) = Effect(v, ram[u], {}, 0, TRUE)
    <3>1. [mem[u] EXCEPT !.contacts[i] = ApplyOpkRefresh(@, b.opks)] = v
      BY <1>1, <2>2, <2>3, <2>5 DEF Vault
    <3> QED
      BY <1>2, <1>5, <2>1, <3>1 DEF HandleOpkRefresh
  <2>8. i \in 1..Len(mem[u].contacts)
    BY <1>1, <2>2, LenProperties
  <2>9. v \in Vault /\ v.opks = mem[u].opks /\ v.convs = mem[u].convs
        /\ v.contacts = [mem[u].contacts EXCEPT ![i] = n]
    <3>1. [mem[u].contacts EXCEPT ![i] = n] \in Seq(Contact)
      BY <1>1, <2>6, <2>8, ExceptSeq
    <3> QED
      BY <1>1, <3>1 DEF Vault
  <2>10. PICK e : e = Effect(v, ram[u], {}, 0, TRUE) /\ Apply(u, e, m)
    BY <2>7
  <2> HIDE DEF v
  <2>11. StepOf(u) /\ mem'[u] = v /\ ram'[u] = ram[u] /\ net' = net /\ codes' = codes
    <3>1. e.v = v /\ e.r = ram[u] /\ e.out = {} /\ e.new = 0
      BY <2>10 DEF Effect
    <3>2. e.save = TRUE
      BY <2>10, Zenon DEF Effect
    <3>3. /\ e.v \in Vault /\ e.r \in Ram /\ e.v.opks = mem[u].opks /\ e.new = 0
          /\ Len(e.r.pending) <= MaxPending /\ m.type # "Handshake" /\ Apply(u, e, m)
      BY <1>1, <2>9, <2>10, <3>1
    <3>4. /\ StepOf(u) /\ mem'[u] = e.v /\ ram'[u] = e.r
          /\ net' = net \cup e.out /\ codes' = codes
      BY <3>2, <3>3, DeliverIs
    <3> QED
      BY <3>1, <3>4
  <2>12. v.contacts \in Seq(Good')
    <3>1. n \in Good'
      BY <1>3, <2>4, <2>6, <2>11, HonouredStays DEF Good
    <3> QED
      BY <2>8, <2>9, <2>11, <3>1, ContactsStay, ExceptSeq
  <2> QED
    BY <2>9, <2>11, <2>12, SessionsStay, PendingStays, InvStays
<1> QED
  BY <1>4, <1>5

\* A message is shown in the conversation whose session opens it, and the session
\* stays.
LEMMA DataStep ==
  ASSUME SessionInv, NEW u \in User, NEW m \in net, m.type = "Data",
         Apply(u, HandleData(mem[u], ram[u], m), m)
  PROVE  SessionInv'
<1>1. mem[u] \in Vault /\ ram[u] \in Ram /\ Len(ram[u].pending) <= MaxPending
      /\ mem[u].contacts \in Seq(Contact) /\ m.text \in Text
  BY Parts DEF Vault, SessionInv, OfferInv, FrameOK
<1> DEFINE I == {i \in DOMAIN mem[u].contacts :
                   /\ Conversation(mem[u], mem[u].contacts[i].id).sess # NoSession
                   /\ Conversation(mem[u], mem[u].contacts[i].id).sess.root = m.root
                   /\ m.intact}
           new(id) == [sess |-> [root |-> m.root, send |-> TRUE],
                       log |-> Append(Conversation(mem[u], id).log, m.text)]
<1>2. HandleData(mem[u], ram[u], m) =
        IF I = {} \/ ~MacVerifies(mem[u].contacts[Min(I)].id, m) THEN Nothing(mem[u], ram[u])
        ELSE Effect(PutConversation(mem[u], mem[u].contacts[Min(I)].id,
                                    new(mem[u].contacts[Min(I)].id)), ram[u], {}, 0, TRUE)
  BY Zenon DEF HandleData, Positions
<1>3. CASE I = {} \/ ~MacVerifies(mem[u].contacts[Min(I)].id, m)
  <2>1. HandleData(mem[u], ram[u], m) = Nothing(mem[u], ram[u])
    BY <1>2, <1>3, Zenon
  <2> QED
    BY <2>1, NothingStep
<1>4. CASE ~(I = {} \/ ~MacVerifies(mem[u].contacts[Min(I)].id, m))
  <2>1. Min(I) \in I
    <3>1. DOMAIN mem[u].contacts = 1..Len(mem[u].contacts) /\ Len(mem[u].contacts) \in Nat
      BY <1>1, LenProperties
    <3>2. I \in SUBSET Nat
      BY <3>1
    <3> HIDE DEF I
    <3> QED
      BY <1>4, <3>2, LeastElement
  <2>2. PICK id : id = mem[u].contacts[Min(I)].id
    OBVIOUS
  <2>3. PICK c : c = new(id)
    OBVIOUS
  <2>4. id \in Bundle /\ Conversation(mem[u], id).sess # NoSession
        /\ Conversation(mem[u], id).sess.root = m.root
    <3>1. Min(I) \in DOMAIN mem[u].contacts /\ Conversation(mem[u], id).sess # NoSession
          /\ Conversation(mem[u], id).sess.root = m.root
      BY <2>1, <2>2
    <3> HIDE DEF I
    <3>2. PICK x : x = mem[u].contacts[Min(I)]
      OBVIOUS
    <3>3. x \in Contact
      BY <1>1, <3>1, <3>2, LenProperties, ElementOfSeq
    <3>4. x.id \in Bundle
      BY <3>3 DEF Contact
    <3> QED
      BY <2>2, <3>1, <3>2, <3>4
  <2>5. HandleData(mem[u], ram[u], m) = Effect(PutConversation(mem[u], id, c), ram[u], {}, 0, TRUE)
    BY <1>2, <1>4, <2>2, <2>3, Zenon
  <2> HIDE DEF I
  <2>6. Conversation(mem[u], id) \in Conv
    BY <1>1, ConversationIsConv
  <2>7. c \in Conv /\ c.sess.root = m.root
    <3>1. Append(Conversation(mem[u], id).log, m.text) \in Seq(Text)
      BY <1>1, <2>6, AppendProperties DEF Conv
    <3>2. m.root \in Root
      BY <2>4, <2>6 DEF Conv
    <3> QED
      BY <2>3, <3>1, <3>2 DEF Conv
  <2>8. SessionWith(u, id.who, c.sess)
    <3>1. id \in DOMAIN mem[u].convs /\ Conversation(mem[u], id) = mem[u].convs[id]
      BY <2>4 DEF Conversation
    <3>2. SessionsWith(u)
      BY DEF SessionInv, ConvInv
    <3>3. SessionWith(u, id.who, mem[u].convs[id].sess)
      BY <3>1, <3>2 DEF SessionsWith
    <3> QED
      BY <2>4, <2>7, <3>1, <3>3 DEF SessionWith
  <2> DEFINE v == PutConversation(mem[u], id, c)
  <2>9. v \in Vault /\ v.opks = mem[u].opks /\ v.contacts = mem[u].contacts
    BY <1>1, <2>4, <2>7, PutIsVault
  <2>10. PICK e : e = Effect(v, ram[u], {}, 0, TRUE) /\ Apply(u, e, m)
    BY <2>5
  <2> HIDE DEF v
  <2>11. StepOf(u) /\ mem'[u] = v /\ ram'[u] = ram[u] /\ net' = net /\ codes' = codes
    <3>1. e.v = v /\ e.r = ram[u] /\ e.out = {} /\ e.new = 0
      BY <2>10 DEF Effect
    <3>2. e.save = TRUE
      BY <2>10, Zenon DEF Effect
    <3>3. /\ e.v \in Vault /\ e.r \in Ram /\ e.v.opks = mem[u].opks /\ e.new = 0
          /\ Len(e.r.pending) <= MaxPending /\ m.type # "Handshake" /\ Apply(u, e, m)
      BY <1>1, <2>9, <2>10, <3>1
    <3>4. /\ StepOf(u) /\ mem'[u] = e.v /\ ram'[u] = e.r
          /\ net' = net \cup e.out /\ codes' = codes
      BY <3>2, <3>3, DeliverIs
    <3> QED
      BY <3>1, <3>4
  <2>12. SessionsWith(u)'
    <3>1. SessionWith(u, id.who, c.sess)'
      BY <2>8, <2>11, SessionStays
    <3> QED
      BY <1>1, <2>4, <2>7, <2>11, <3>1, SessionsPut DEF v
  <2> QED
    BY <2>9, <2>11, <2>12, ContactsStay, PendingStays, InvStays
<1> QED
  BY <1>3, <1>4

\* A request comes last; the oldest makes room for it.
LEMMA QueueIs ==
  ASSUME NEW r \in Ram, Len(r.pending) <= MaxPending, NEW m, m.root \in Root, m.text \in Text
  PROVE  LET q == QueueRequest(r, m) IN
         /\ q \in Ram /\ Len(q.pending) <= MaxPending
         /\ \A i \in DOMAIN q.pending :
              q.pending[i].root = m.root \/ \E j \in DOMAIN r.pending : q.pending[i] = r.pending[j]
<1> DEFINE p == [root |-> m.root, text |-> m.text]
           s == r.pending
           t == IF Len(s) >= MaxPending THEN Tail(s) ELSE s
           q == QueueRequest(r, m)
<1>1. p \in PendingHandshake /\ p.root = m.root
  BY DEF PendingHandshake
<1>2. s \in Seq(PendingHandshake) /\ Len(s) \in Nat /\ DOMAIN s = 1..Len(s)
      /\ MaxPending \in Nat \ {0} /\ Len(s) <= MaxPending
  BY SessionConstants, LenProperties DEF Ram
<1>3. q = [r EXCEPT !.pending = Append(t, p)]
  BY DEF QueueRequest
<1> HIDE DEF p, s, q
<1>4. /\ t \in Seq(PendingHandshake) /\ Len(t) < MaxPending
      /\ \A i \in DOMAIN t : \E j \in DOMAIN s : t[i] = s[j]
  <2>1. CASE Len(s) >= MaxPending
    <3>1. s # <<>>
      BY <1>2, <2>1, EmptySeq
    <3>2. /\ Tail(s) \in Seq(PendingHandshake) /\ Len(Tail(s)) = Len(s) - 1
          /\ \A i \in 1..Len(Tail(s)) : Tail(s)[i] = s[i + 1]
      BY <1>2, <3>1, HeadTailProperties
    <3>3. DOMAIN Tail(s) = 1..Len(Tail(s))
      BY <3>2, LenProperties
    <3>4. \A i \in DOMAIN Tail(s) : i + 1 \in DOMAIN s /\ Tail(s)[i] = s[i + 1]
      BY <1>2, <3>2, <3>3
    <3> QED
      BY <1>2, <2>1, <3>2, <3>4
  <2>2. CASE ~(Len(s) >= MaxPending)
    BY <1>2, <2>2
  <2> QED
    BY <2>1, <2>2
<1> HIDE DEF t
<1>5. /\ Append(t, p) \in Seq(PendingHandshake) /\ Len(Append(t, p)) = Len(t) + 1
      /\ \A i \in 1..Len(t) : Append(t, p)[i] = t[i]
      /\ Append(t, p)[Len(t) + 1] = p
  BY <1>1, <1>4, AppendProperties
<1>6. Len(t) \in Nat /\ DOMAIN t = 1..Len(t) /\ DOMAIN Append(t, p) = 1..Len(t) + 1
  BY <1>4, <1>5, LenProperties
<1>7. q \in Ram /\ q.pending = Append(t, p)
  BY <1>3, <1>5 DEF Ram
<1>8. Len(q.pending) <= MaxPending
  BY <1>2, <1>4, <1>5, <1>6, <1>7
<1>9. ASSUME NEW i \in DOMAIN q.pending
      PROVE  q.pending[i].root = m.root \/ \E j \in DOMAIN r.pending : q.pending[i] = r.pending[j]
  <2>1. i \in 1..Len(t) \/ i = Len(t) + 1
    BY <1>6, <1>7
  <2>2. CASE i \in 1..Len(t)
    BY <1>4, <1>5, <1>6, <1>7, <2>2 DEF s
  <2>3. CASE i = Len(t) + 1
    BY <1>1, <1>5, <1>7, <2>3
  <2> QED
    BY <2>1, <2>2, <2>3
<1> QED
  BY <1>7, <1>8, <1>9 DEF q

\* The handshake m is one that the keys of u open: w is what using its prekey makes
\* of the vault, and e the effect of the whole.
Hears(u, m, w, e) ==
  /\ m.type = "Handshake" /\ BobAgrees(u, mem[u], m)
  /\ w = UsePrekey(mem[u], m.root.opk, drawn[u])
  /\ Apply(u, e, m) /\ e # Nothing(mem[u], ram[u]) /\ e.new = w.new
  /\ e.out = IF w.new > 0 THEN BroadcastOpkRefresh(u, w.v) ELSE {}

\* What hearing of a session key comes to, whoever the sender is.
LEMMA HandshakeUses ==
  ASSUME SessionInv, NEW u \in User, NEW m, NEW w, NEW e, Hears(u, m, w, e), m.root \in Root,
         e.v \in Vault, e.r \in Ram, Len(e.r.pending) <= MaxPending, e.v.opks = w.v.opks,
         \/ e.save = TRUE
         \/ e.save = FALSE /\ e.v.contacts = mem[u].contacts /\ e.v.convs = mem[u].convs
  PROVE  /\ StepOf(u) /\ mem'[u] = e.v /\ ram'[u] = e.r /\ codes' = codes
         /\ m.root \in heard'[u] /\ \A x \in net' \ net : FrameOK(x)'
<1>1. /\ mem[u] \in Vault /\ Len(mem[u].opks) \in Sizes /\ drawn[u] \in Nat
      /\ m.root.opk \in Nat \cup {NoOpk}
      /\ mem \in [User -> Vault] /\ drawn \in [User -> Nat] /\ heard \in [User -> SUBSET Root]
  BY Parts DEF SessionInv, Shape, Root
<1>2. m.root.opk # NoOpk => m.root.opk \in ToSet(mem[u].opks)
  BY DEF BobAgrees, Hears
<1> PICK k : k = m.root.opk
  OBVIOUS
<1>3. Used(mem[u], k, drawn[u], w)
  BY <1>1, <1>2, UseIsVault DEF Hears
<1>4. mem'[u] = e.v /\ heard'[u] = heard[u] \cup {m.root} /\ drawn'[u] = drawn[u] + w.new
  <2>1. mem' = [mem EXCEPT ![u] = e.v] /\ drawn' = [drawn EXCEPT ![u] = @ + e.new]
        /\ heard' = [heard EXCEPT ![u] = @ \cup {m.root}] /\ e.new = w.new
    BY DEF Apply, Hears
  <2> QED
    BY <1>1, <2>1
<1>5. ASSUME u \notin killed  PROVE PrekeysKept(u) \/ PrekeyUsed(u)
  <2>1. CASE k = NoOpk
    BY <1>3, <1>4, <2>1 DEF PrekeysKept, Used
  <2>2. CASE k # NoOpk
    <3>1. IsInjective(mem[u].opks) /\ ToSet(mem[u].opks) \subseteq 1..drawn[u]
      BY <1>5 DEF SessionInv, FreshInv
    <3>2. PICK F \in SUBSET (drawn[u] + 1..drawn[u] + w.new) :
            IsInjective(w.v.opks) /\ ToSet(w.v.opks) = (ToSet(mem[u].opks) \ {k}) \cup F
      BY <1>3, <2>2, <3>1 DEF Renewed, Used
    <3>3. /\ k \in ToSet(mem[u].opks) /\ IsInjective(mem'[u].opks)
          /\ ToSet(mem'[u].opks) = (ToSet(mem[u].opks) \ {k}) \cup F
      BY <1>2, <1>3, <1>4, <2>2, <3>1, <3>2
    <3>4. F \in SUBSET (drawn[u] + 1..drawn'[u])
      BY <1>4, <3>2
    <3> QED
      BY <1>4, <3>3, <3>4 DEF PrekeyUsed
  <2> QED
    BY <2>1, <2>2
<1>6. /\ StepOf(u) /\ mem'[u] = e.v /\ ram'[u] = e.r
      /\ net' = net \cup e.out /\ codes' = codes
  <2>1. Len(e.v.opks) \in Sizes /\ e.new \in Nat
    BY <1>3 DEF Used, Hears
  <2> QED
    BY <1>1, <1>5, <2>1, ApplyIs DEF Hears
<1>7. ASSUME NEW x \in net' \ net  PROVE FrameOK(x)'
  <2>1. x \in BroadcastOpkRefresh(u, w.v)
    BY <1>6, <1>7 DEF Hears
  <2>2. PICK to : x = RefreshFrame(u, to, w.v.opks)
    BY <2>1 DEF BroadcastOpkRefresh
  <2>3. PICK s : s = w.v.opks
    OBVIOUS
  <2>4. Honoured(BundleOf(u, s))'
    BY <1>6, <2>3, OwnHonoured DEF StepOf
  <2>5. x.type = "OpkRefresh" /\ x.bundle = BundleOf(u, s)
    BY <2>2, <2>3 DEF RefreshFrame
  <2> QED
    BY <2>4, <2>5 DEF FrameOK
<1> QED
  BY <1>4, <1>6, <1>7

\* From a known sender the session is replaced, with the one just derived.
LEMMA KnownStep ==
  ASSUME SessionInv, NEW u \in User, NEW m \in net, NEW w, NEW e, Hears(u, m, w, e),
         NEW i \in DOMAIN w.v.contacts, w.v.contacts[i].bundle.who = m.root.from,
         e.v = KnownSender(w.v, i, m), e.r = ram[u], e.save = TRUE
  PROVE  SessionInv'
<1>1. m.root \in Root /\ m.text \in Text
  BY DEF SessionInv, OfferInv, FrameOK, Hears
<1>2. /\ mem[u] \in Vault /\ Len(mem[u].opks) \in Sizes /\ drawn[u] \in Nat
      /\ m.root.opk \in Nat \cup {NoOpk} /\ ram[u] \in Ram /\ Len(ram[u].pending) <= MaxPending
      /\ \A j \in DOMAIN mem[u].contacts : mem[u].contacts[j] \in Good
  BY <1>1, Parts DEF Root
<1>3. Used(mem[u], m.root.opk, drawn[u], w)
  BY <1>2, UseIsVault DEF BobAgrees, Hears
<1>4. w.v \in Vault /\ w.v.contacts = mem[u].contacts /\ w.v.convs = mem[u].convs
  BY <1>3 DEF Used
<1>5. PICK id : id = w.v.contacts[i].id
  OBVIOUS
<1>6. id \in Bundle /\ id.who = m.root.from
  BY <1>2, <1>4, <1>5 DEF Good, Contact
<1>7. PICK c : c = [sess |-> [root |-> m.root, send |-> FALSE],
                    log |-> Append(Conversation(w.v, id).log, m.text)]
  OBVIOUS
<1>8. c \in Conv /\ c.sess.root = m.root
  <2>1. Conversation(w.v, id) \in Conv
    BY <1>4, ConversationIsConv
  <2>2. Append(Conversation(w.v, id).log, m.text) \in Seq(Text)
    BY <1>1, <2>1, AppendProperties DEF Conv
  <2> QED
    BY <1>1, <1>7, <2>2 DEF Conv
<1>9. e.v = PutConversation(w.v, id, c)
  BY <1>5, <1>7 DEF KnownSender
<1>10. e.v \in Vault /\ e.v.opks = w.v.opks /\ e.v.contacts = w.v.contacts
  BY <1>4, <1>6, <1>8, <1>9, PutIsVault
<1>11. /\ StepOf(u) /\ mem'[u] = e.v /\ ram'[u] = e.r /\ codes' = codes
       /\ m.root \in heard'[u] /\ \A x \in net' \ net : FrameOK(x)'
  <2>1. e.r \in Ram /\ Len(e.r.pending) <= MaxPending
    BY <1>2
  <2> QED
    BY <1>1, <1>10, <2>1, HandshakeUses
<1>12. SessionsWith(u)'
  <2>1. SessionWith(u, id.who, c.sess)'
    BY <1>6, <1>8, <1>11 DEF SessionWith
  <2> QED
    BY <1>4, <1>6, <1>8, <1>9, <1>11, <2>1, SessionsPut
<1>13. PendingHeard(u)'
  BY <1>11, PendingStays
<1> QED
  BY <1>4, <1>10, <1>11, <1>12, <1>13, ContactsStay, InvStays

\* From an unknown sender the handshake becomes a request.
LEMMA UnknownStep ==
  ASSUME SessionInv, NEW u \in User, NEW m \in net, NEW w, NEW e, Hears(u, m, w, e),
         e.v = w.v, e.r = QueueRequest(ram[u], m), e.save = FALSE
  PROVE  SessionInv'
<1>1. m.root \in Root /\ m.text \in Text
  BY DEF SessionInv, OfferInv, FrameOK, Hears
<1>2. /\ mem[u] \in Vault /\ Len(mem[u].opks) \in Sizes /\ drawn[u] \in Nat
      /\ m.root.opk \in Nat \cup {NoOpk} /\ ram[u] \in Ram /\ Len(ram[u].pending) <= MaxPending
  BY <1>1, Parts DEF Root
<1>3. Used(mem[u], m.root.opk, drawn[u], w)
  BY <1>2, UseIsVault DEF BobAgrees, Hears
<1>4. w.v \in Vault /\ w.v.contacts = mem[u].contacts /\ w.v.convs = mem[u].convs
  BY <1>3 DEF Used
<1>5. PICK r : r = ram[u]
  OBVIOUS
<1>6. /\ e.r \in Ram /\ Len(e.r.pending) <= MaxPending
      /\ \A i \in DOMAIN e.r.pending :
           e.r.pending[i].root = m.root \/ \E j \in DOMAIN r.pending : e.r.pending[i] = r.pending[j]
  BY <1>1, <1>2, <1>5, QueueIs
<1>7. /\ StepOf(u) /\ mem'[u] = e.v /\ ram'[u] = e.r /\ codes' = codes
      /\ m.root \in heard'[u] /\ \A x \in net' \ net : FrameOK(x)'
  <2>1. e.v \in Vault /\ e.v.opks = w.v.opks
        /\ e.v.contacts = mem[u].contacts /\ e.v.convs = mem[u].convs
    BY <1>4
  <2> QED
    BY <1>1, <1>6, <2>1, HandshakeUses
<1>8. PendingHeard(u)'
  <2>1. \A j \in DOMAIN r.pending : r.pending[j].root \in heard[u]
    BY <1>5 DEF SessionInv, ConvInv, PendingHeard
  <2>2. heard[u] \subseteq heard'[u]
    BY <1>7 DEF StepOf
  <2>3. \A i \in DOMAIN e.r.pending : e.r.pending[i].root \in heard'[u]
    BY <1>6, <1>7, <2>1, <2>2
  <2> QED
    BY <1>7, <2>3 DEF PendingHeard
<1> QED
  BY <1>4, <1>7, <1>8, ContactsStay, SessionsStay, InvStays

\* A handshake is dropped, or replaces a session, or becomes a request.
LEMMA HandshakeStep ==
  ASSUME SessionInv, NEW u \in User, NEW m \in net, m.type = "Handshake",
         Apply(u, HandleHandshake(u, mem[u], ram[u], m, drawn[u]), m)
  PROVE  SessionInv'
<1>1. PICK e : e = HandleHandshake(u, mem[u], ram[u], m, drawn[u])
  OBVIOUS
<1>2. Apply(u, e, m)
  BY <1>1
<1>3. CASE e = Nothing(mem[u], ram[u])
  BY <1>2, <1>3, NothingStep
<1>4. CASE e # Nothing(mem[u], ram[u])
  <2>1. PICK w : w = UsePrekey(mem[u], m.root.opk, drawn[u])
    OBVIOUS
  <2>2. PICK d : d = DeliverHandshake(w.v, ram[u], m)
    OBVIOUS
  <2>3. BobAgrees(u, mem[u], m)
        /\ e = Effect(d.v, d.r, IF w.new > 0 THEN BroadcastOpkRefresh(u, w.v) ELSE {}, w.new, d.save)
    BY <1>1, <1>4, <2>1, <2>2, Zenon DEF HandleHandshake
  <2>4. e.v = d.v /\ e.r = d.r /\ e.new = w.new
        /\ e.out = IF w.new > 0 THEN BroadcastOpkRefresh(u, w.v) ELSE {}
    BY <2>3, Zenon DEF Effect
  <2>5. e.save = d.save
    BY <2>3, Zenon DEF Effect
  <2>6. Hears(u, m, w, e)
    BY <1>2, <1>4, <2>1, <2>3, <2>4, Zenon DEF Hears
  <2> DEFINE known == SenderPositions(w.v, m.root.from)
  <2>7. d = IF known # {} THEN [v |-> KnownSender(w.v, Min(known), m), r |-> ram[u], save |-> TRUE]
            ELSE [v |-> w.v, r |-> QueueRequest(ram[u], m), save |-> FALSE]
    BY <2>2, Zenon DEF DeliverHandshake
  <2>8. CASE known # {}
    <3>1. w.v \in Vault
      <4>1. m.root \in Root
        BY DEF SessionInv, OfferInv, FrameOK
      <4>2. /\ mem[u] \in Vault /\ Len(mem[u].opks) \in Sizes /\ drawn[u] \in Nat
            /\ m.root.opk \in Nat \cup {NoOpk}
        BY <4>1, Parts DEF Root
      <4> QED
        BY <2>1, <2>3, <4>2, UseIsVault DEF BobAgrees, Used
    <3>2. PICK i : i = Min(known)
      OBVIOUS
    <3>3. i \in DOMAIN w.v.contacts /\ w.v.contacts[i].bundle.who = m.root.from
      BY <2>8, <3>1, <3>2, SenderFound
    <3> HIDE DEF known
    <3>4. d = [v |-> KnownSender(w.v, i, m), r |-> ram[u], save |-> TRUE]
      BY <2>7, <2>8, <3>2, Zenon
    <3>5. e.v = KnownSender(w.v, i, m) /\ e.r = ram[u] /\ e.save = TRUE
      BY <2>4, <2>5, <3>4, Zenon
    <3> QED
      BY <2>6, <3>3, <3>5, KnownStep
  <2>9. CASE known = {}
    <3> HIDE DEF known
    <3>1. d = [v |-> w.v, r |-> QueueRequest(ram[u], m), save |-> FALSE]
      BY <2>7, <2>9, Zenon
    <3>2. e.v = w.v /\ e.r = QueueRequest(ram[u], m) /\ e.save = FALSE
      BY <2>4, <2>5, <3>1, Zenon
    <3> QED
      BY <2>6, <3>2, UnknownStep
  <2> QED
    BY <2>8, <2>9
<1> QED
  BY <1>3, <1>4

\* Whatever arrives, and however often.
LEMMA ReceiveStep ==
  ASSUME SessionInv, NEW u \in User, NEW m \in net, Receive(u, m)
  PROVE  SessionInv'
<1>1. Apply(u, Handle(u, mem[u], ram[u], m, drawn[u]), m)
  BY DEF Receive
<1>2. m.type \in {"Handshake", "Data", "OpkRefresh", "BundleRequest", "BundleResponse"}
  BY DEF SessionInv, OfferInv, FrameOK
<1>3. CASE ~Fits(m.len)
  BY <1>1, <1>3, NothingStep DEF Handle
<1>4. CASE Fits(m.len) /\ m.type = "Handshake"
  BY <1>1, <1>4, HandshakeStep DEF Handle
<1>5. CASE Fits(m.len) /\ m.type = "Data"
  BY <1>1, <1>5, DataStep DEF Handle
<1>6. CASE Fits(m.len) /\ m.type = "OpkRefresh"
  BY <1>1, <1>6, OpkRefreshStep DEF Handle
<1>7. CASE Fits(m.len) /\ m.type = "BundleRequest"
  BY <1>1, <1>7, BundleRequestStep DEF Handle
<1>8. CASE Fits(m.len) /\ m.type = "BundleResponse"
  BY <1>1, <1>8, BundleResponseStep DEF Handle
<1> QED
  BY <1>2, <1>3, <1>4, <1>5, <1>6, <1>7, <1>8

-----------------------------------------------------------------------------
(* The theorems.                                                           *)

\* A first run: a batch of prekeys, and nothing else.
LEMMA InvInit ==
  ASSUME Init
  PROVE  SessionInv
<1>1. OpkBatch \in Nat /\ OpkThreshold \in Nat /\ OpkThreshold < OpkBatch /\ MaxPending \in Nat \ {0}
      /\ MaxOps \in Nat
  BY SessionConstants
<1>2. FirstBatch \in Seq(Nat) /\ Len(FirstBatch) = OpkBatch
      /\ DOMAIN FirstBatch = 1..OpkBatch /\ \A i \in 1..OpkBatch : FirstBatch[i] = i
  <2>1. \A i \in 1..OpkBatch : i \in Nat
    OBVIOUS
  <2>2. FirstBatch \in Seq(Nat)
    BY <1>1, <2>1, IsASeq DEF FirstBatch
  <2>3. DOMAIN FirstBatch = 1..OpkBatch /\ \A i \in 1..OpkBatch : FirstBatch[i] = i
    BY DEF FirstBatch
  <2>4. DOMAIN FirstBatch = 1..Len(FirstBatch) /\ Len(FirstBatch) \in Nat
    BY <2>2, LenProperties
  <2> QED
    BY <1>1, <2>2, <2>3, <2>4
<1>3. NewVault \in Vault /\ NewVault.opks = FirstBatch /\ NewVault.contacts = <<>>
      /\ DOMAIN NewVault.convs = {}
  <2>1. << >> \in [{} -> Conv]
    OBVIOUS
  <2>2. << >> \in ConvMap
    BY <2>1 DEF ConvMap
  <2> QED
    BY <1>2, <2>2, EmptySeq DEF NewVault, Vault
<1>4. FreshRam(NewVault) \in Ram /\ FreshRam(NewVault).pending = <<>>
  BY <1>2, <1>3, EmptySeq DEF FreshRam, Ram
<1>5. ASSUME NEW u \in User
      PROVE  /\ mem[u] = NewVault /\ disk[u] = NewVault /\ ram[u] = FreshRam(NewVault)
             /\ drawn[u] = OpkBatch /\ heard[u] = {}
  BY DEF Init
<1>6. Shape
  <2>1. Len(FirstBatch) \in Sizes
    BY <1>1, <1>2 DEF Sizes
  <2>2. ASSUME NEW u \in User
        PROVE  /\ Len(mem[u].opks) \in Sizes /\ Len(disk[u].opks) \in Sizes
               /\ Len(ram[u].pending) <= MaxPending
    BY <1>1, <1>3, <1>4, <1>5, <2>1
  <2>3. /\ mem \in [User -> Vault] /\ disk \in [User -> Vault] /\ ram \in [User -> Ram]
        /\ drawn \in [User -> Nat] /\ ops \in 0..MaxOps
        /\ heard \in [User -> SUBSET Root] /\ killed \subseteq User
    BY <1>1, <1>3, <1>4 DEF Init
  <2> QED
    BY <2>2, <2>3 DEF Shape
<1>7. OfferInv
  <2>1. ASSUME NEW u \in User  PROVE Honoured(BundleOf(u, FirstBatch))
    <3>1. BundleOf(u, FirstBatch) \in Bundle /\ BundleOf(u, FirstBatch).who = u
          /\ BundleOf(u, FirstBatch).opks = FirstBatch
      BY <1>2 DEF BundleOf, Bundle
    <3>2. \A i \in DOMAIN FirstBatch : FirstBatch[i] \in Pool(u)
      BY <1>3, <1>5 DEF Pool, ToSet
    <3> QED
      BY <3>1, <3>2 DEF Honoured
  <2>2. \A b \in codes : Honoured(b)
    BY <2>1 DEF Init
  <2>3. \A u \in User : mem[u].contacts \in Seq(Good)
    BY <1>3, <1>5, EmptySeq
  <2>4. net = {}
    BY DEF Init
  <2> QED
    BY <2>2, <2>3, <2>4 DEF OfferInv
<1>8. ConvInv
  <2>1. ASSUME NEW u \in User
        PROVE  /\ SessionsWith(u) /\ PendingHeard(u)
               /\ mem[u].contacts = disk[u].contacts /\ mem[u].convs = disk[u].convs
    BY <1>3, <1>4, <1>5 DEF SessionsWith, PendingHeard
  <2> QED
    BY <2>1 DEF ConvInv
<1>9. FreshInv
  <2>1. IsInjective(FirstBatch)
    BY <1>2 DEF IsInjective
  <2>2. ToSet(FirstBatch) \subseteq 1..OpkBatch
    BY <1>2 DEF ToSet
  <2> QED
    BY <1>3, <1>5, <2>1, <2>2 DEF FreshInv
<1> QED
  BY <1>6, <1>7, <1>8, <1>9 DEF SessionInv

\* Whatever a user does.
LEMMA UserStepInv ==
  ASSUME SessionInv, NEW u \in User, UserStep(u)
  PROVE  SessionInv'
<1>1. CASE \E b \in codes : AddByCode(u, b)
  BY <1>1, AddByCodeStep
<1>2. CASE \E w \in User : ScanBootstrap(u, w)
  BY <1>2, ScanBootstrapStep
<1>3. CASE \E i \in DOMAIN mem[u].contacts :
             Delete(u, i) \/ \E p \in Texts : SendFirst(u, i, p) \/ SendMore(u, i, p)
  <2>1. PICK i \in DOMAIN mem[u].contacts :
          Delete(u, i) \/ \E p \in Texts : SendFirst(u, i, p) \/ SendMore(u, i, p)
    BY <1>3
  <2>2. CASE Delete(u, i)
    BY <2>2, DeleteStep
  <2>3. ASSUME NEW p \in Texts, SendFirst(u, i, p)  PROVE SessionInv'
    BY <2>3, SendFirstStep
  <2>4. ASSUME NEW p \in Texts, SendMore(u, i, p)  PROVE SessionInv'
    BY <2>4, SendMoreStep
  <2> QED
    BY <2>1, <2>2, <2>3, <2>4
<1>4. CASE Accept(u)
  BY <1>4, AcceptStep
<1>5. CASE Reject(u)
  BY <1>5, RejectStep
<1>6. CASE \E clean \in BOOLEAN : Restart(u, clean)
  BY <1>6, RestartStep
<1> QED
  BY <1>1, <1>2, <1>3, <1>4, <1>5, <1>6 DEF UserStep

\* Every step, stuttering included.
LEMMA InvNext ==
  ASSUME SessionInv, [Next]_vars
  PROVE  SessionInv'
<1>1. CASE Next
  BY <1>1, UserStepInv, ReceiveStep DEF Next
<1>2. CASE UNCHANGED vars
  <2>1. UNCHANGED <<mem, disk, ram, net, codes, drawn, ops, heard, killed>>
    BY <1>2 DEF vars
  <2>2. Shape' /\ FreshInv'
    BY <2>1 DEF SessionInv, Shape, FreshInv
  <2>3. \A u \in User : Pool(u)' = Pool(u)
    BY <2>1 DEF Pool
  <2>4. \A b : Honoured(b) => Honoured(b)'
    BY <2>1, <2>3 DEF Honoured, Bundle
  <2>5. Good' = Good
    <3>1. \A b : Honoured(b)' => Honoured(b)
      BY <2>1, <2>3 DEF Honoured, Bundle
    <3> QED
      BY <2>4, <3>1 DEF Good
  <2>6. OfferInv'
    BY <2>1, <2>4, <2>5 DEF SessionInv, OfferInv, FrameOK
  <2>7. ConvInv'
    BY <2>1 DEF SessionInv, ConvInv, SessionsWith, SessionWith, PendingHeard
  <2> QED
    BY <2>2, <2>6, <2>7 DEF SessionInv
<1> QED
  BY <1>1, <1>2

\* What the theorems below rest on holds in every state.
THEOREM Invariance == Spec => []SessionInv
<1>1. Init => SessionInv
  BY InvInit
<1>2. SessionInv /\ [Next]_vars => SessionInv'
  BY InvNext
<1> QED
  BY <1>1, <1>2, PTL DEF Spec

\* The shape is the type of the state.
LEMMA ShapeIsType ==
  ASSUME SessionInv
  PROVE  TypeOK
<1>1. /\ mem \in [User -> Vault] /\ disk \in [User -> Vault] /\ ram \in [User -> Ram]
      /\ \A u \in User : /\ Len(mem[u].opks) \in Sizes /\ Len(disk[u].opks) \in Sizes
                         /\ Len(ram[u].pending) <= MaxPending
      /\ drawn \in [User -> Nat] /\ ops \in 0..MaxOps
      /\ heard \in [User -> SUBSET Root] /\ killed \subseteq User
  BY DEF SessionInv, Shape
<1>2. ASSUME NEW v \in Vault, Len(v.opks) \in Sizes
      PROVE  /\ v.opks \in Seq(Nat) /\ v.contacts \in Seq(Contact)
             /\ DOMAIN v.convs \subseteq Bundle /\ Range(v.convs) \subseteq Conv
             /\ Len(v.opks) \in OpkThreshold + 1..OpkThreshold + OpkBatch
  <2>1. PICK D \in SUBSET Bundle : v.convs \in [D -> Conv]
    BY DEF Vault, ConvMap
  <2>2. Len(v.opks) \in OpkThreshold + 1..OpkThreshold + OpkBatch
    BY <1>2, Zenon DEF Sizes
  <2> QED
    BY <2>1, <2>2 DEF Vault, Range
<1>3. \A v \in Range(mem) \cup Range(disk) : v \in Vault /\ Len(v.opks) \in Sizes
  BY <1>1 DEF Range
<1>4. \A r \in Range(ram) : /\ r.pending \in Seq(PendingHandshake) /\ Len(r.pending) <= MaxPending
                            /\ r.asked \in Seq(User) /\ r.code \in Seq(Nat)
  <2>1. \A r \in Range(ram) : r \in Ram /\ Len(r.pending) <= MaxPending
    BY <1>1 DEF Range
  <2> QED
    BY <2>1 DEF Ram
<1>5. codes \subseteq Bundle
  BY DEF SessionInv, OfferInv, Honoured
<1> QED
  BY <1>1, <1>2, <1>3, <1>4, <1>5 DEF TypeOK

\* The state has the types it should; in particular a pool never runs dry and never
\* outgrows its bound, and the requests never outgrow theirs.
THEOREM TypesCorrect == Spec => []TypeOK
BY Invariance, ShapeIsType, PTL

\* Prekeys drawn once and used once serve once.
LEMMA FreshServesOnce ==
  ASSUME SessionInv
  PROVE  OpkServesOnce
BY DEF SessionInv, FreshInv, OpkServesOnce

\* "Each OPK is used at most once": however often a handshake arrives, and however
\* many users were given a prekey, it goes into one session key of its owner.
THEOREM PrekeysServeOnce == Spec => []OpkServesOnce
BY Invariance, FreshServesOnce, PTL

\* A conversation is found under the bundle its contact was added with, which names
\* the contact's user.
LEMMA SessionsMatch ==
  ASSUME SessionInv
  PROVE  SessionIsWithContact
<1> SUFFICES ASSUME NEW u \in User, NEW i \in DOMAIN mem[u].contacts
             PROVE  LET c == mem[u].contacts[i]
                        s == Conversation(mem[u], c.id).sess
                    IN  s = NoSession \/ (s.root.from = u /\ s.root.to = c.bundle.who)
                          \/ (s.root.from = c.bundle.who /\ s.root \in heard[u])
  BY DEF SessionIsWithContact
<1>1. PICK c : c = mem[u].contacts[i]
  OBVIOUS
<1>2. PICK s : s = Conversation(mem[u], c.id).sess
  OBVIOUS
<1>3. c.bundle.who = c.id.who
  BY <1>1, Parts DEF Good
<1>4. SessionsWith(u)
  BY DEF SessionInv, ConvInv
<1>5. SessionWith(u, c.id.who, s)
  <2>1. CASE c.id \in DOMAIN mem[u].convs
    BY <1>2, <1>4, <2>1 DEF Conversation, SessionsWith
  <2>2. CASE c.id \notin DOMAIN mem[u].convs
    BY <1>2, <2>2 DEF Conversation, SessionWith
  <2> QED
    BY <2>1, <2>2
<1> QED
  BY <1>1, <1>2, <1>3, <1>5 DEF SessionWith

\* A message shown or written under a contact belongs to a session with that contact.
THEOREM SessionsWithTheirContacts == Spec => []SessionIsWithContact
BY Invariance, SessionsMatch, PTL

\* Whatever is on offer was honoured when it went out, and still is.
LEMMA OffersInPool ==
  ASSUME SessionInv
  PROVE  OffersHonoured
<1> SUFFICES ASSUME NEW u \in User \ killed, NEW k \in Offered(u)
             PROVE  k \in Pool(u)
  BY DEF OffersHonoured, Pool
<1>1. ASSUME NEW b, Honoured(b), b.who = u, k \in ToSet(b.opks)  PROVE k \in Pool(u)
  BY <1>1 DEF Honoured, ToSet
<1>2. CASE \E b \in codes : b.who = u /\ k \in ToSet(b.opks)
  BY <1>1, <1>2 DEF SessionInv, OfferInv
<1>3. CASE \E m \in net : /\ m.type \in {"OpkRefresh", "BundleResponse"}
                          /\ m.bundle.who = u /\ k \in ToSet(m.bundle.opks)
  BY <1>1, <1>3 DEF SessionInv, OfferInv, FrameOK
<1>4. CASE \E w \in User : \E c \in ToSet(mem[w].contacts) :
             c.bundle.who = u /\ k \in ToSet(c.bundle.opks)
  <2>1. PICK w \in User : \E c \in ToSet(mem[w].contacts) :
          c.bundle.who = u /\ k \in ToSet(c.bundle.opks)
    BY <1>4
  <2>2. PICK c \in ToSet(mem[w].contacts) : c.bundle.who = u /\ k \in ToSet(c.bundle.opks)
    BY <2>1
  <2>3. c \in Good
    BY <2>2, Parts DEF ToSet
  <2> QED
    BY <1>1, <2>2, <2>3 DEF Good
<1> QED
  BY <1>2, <1>3, <1>4 DEF Offered

\* A prekey that a code, a frame or a contact list still offers can be answered by
\* its owner, or was, unless the owner's program was killed.
THEOREM OffersAreHonoured == Spec => []OffersHonoured
BY Invariance, OffersInPool, PTL

\* Contacts and conversations are saved in the step that changes them.
LEMMA DiskIsCurrent ==
  ASSUME SessionInv
  PROVE  NothingToLose
BY DEF SessionInv, ConvInv, NothingToLose

\* At every moment a kill would cost no contact, no session and no message.
THEOREM KillCostsNothing == Spec => []NothingToLose
BY Invariance, DiskIsCurrent, PTL

-----------------------------------------------------------------------------
(* What the wire does to messages of any length.                           *)

\* Padding adds less than a block, and leaves at most the payload's size.
LEMMA PaddedBounds ==
  ASSUME NEW n \in Nat
  PROVE  /\ Padded(n) \in Nat /\ Padded(n) <= MaxPayload
         /\ Padded(n) = n <=> n <= MaxPayload /\ n % BlockSize = 0
<1> DEFINE kept == IF n > MaxPayload THEN MaxPayload ELSE n
           r == kept % BlockSize
           q == kept \div BlockSize
<1>1. MaxPayload = 4096 /\ BlockSize = 512
  BY DEF MaxPayload, BlockSize
<1>2. kept \in Nat /\ kept <= 4096
  BY <1>1
<1>3. r \in 0..511 /\ q \in Nat /\ kept = 512 * q + r
  BY <1>1, <1>2
<1>4. Padded(n) = IF r = 0 THEN kept ELSE kept + (512 - r)
  BY <1>1 DEF Padded
<1>5. r # 0 => q < 8
  BY <1>2, <1>3
<1>6. Padded(n) \in Nat /\ Padded(n) <= 4096
  <2> HIDE DEF kept, r, q
  <2> QED
    BY <1>2, <1>3, <1>4, <1>5
<1>7. CASE n > MaxPayload
  <2>1. Padded(n) # n
    BY <1>1, <1>6, <1>7
  <2> QED
    BY <1>1, <1>6, <1>7, <2>1
<1>8. CASE n <= MaxPayload
  <2>1. kept = n
    BY <1>1, <1>8
  <2>2. r = n % BlockSize
    BY <2>1
  <2> HIDE DEF kept, r, q
  <2>3. Padded(n) = n <=> r = 0
    BY <1>2, <1>3, <1>4, <2>1
  <2> QED
    BY <1>1, <1>6, <1>8, <2>2, <2>3
<1> QED
  BY <1>1, <1>7, <1>8

\* A text arrives as it was sealed (with_padding, from_bytes) only if, with nonce and
\* tag, it fills whole blocks and is not cut off.
THEOREM IntactWhen ==
  \A p \in Nat : Intact(p) <=> p + 28 <= 4096 /\ (p + 28) % 512 = 0
<1> SUFFICES ASSUME NEW p \in Nat
             PROVE  Intact(p) <=> p + 28 <= 4096 /\ (p + 28) % 512 = 0
  OBVIOUS
<1>1. SealLen(p) = p + 28 /\ p + 28 \in Nat
  BY DEF SealLen
<1>2. Padded(p + 28) = p + 28 <=> p + 28 <= MaxPayload /\ (p + 28) % BlockSize = 0
  BY <1>1, PaddedBounds
<1> QED
  BY <1>1, <1>2 DEF Intact, MaxPayload, BlockSize

\* However long a text is, the receiver does not drop its Data message for its length
\* (MAX_WIRE_BYTES).
THEOREM DataAlwaysFits ==
  \A p \in Nat : Fits(DataLen(p))
<1> SUFFICES ASSUME NEW p \in Nat PROVE Fits(DataLen(p))
  OBVIOUS
<1> DEFINE ct == Padded(SealLen(p))
<1>1. SealLen(p) \in Nat
  BY DEF SealLen
<1>2. ct \in Nat /\ ct <= 4096
  BY <1>1, PaddedBounds DEF MaxPayload, BlockSize
<1>3. DataLen(p) = WireLen(ct)
  BY DEF DataLen
<1> HIDE DEF ct
<1>4. WireLen(ct) <= 4608
  BY <1>2 DEF WireLen, VecLen, IntLen, KeyLen
<1> QED
  BY <1>3, <1>4 DEF Fits, MaxWireBytes, MaxPayload, BlockSize
=============================================================================
