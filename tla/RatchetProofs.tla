---------------------------- MODULE RatchetProofs ----------------------------
(***************************************************************************)
(* Proofs about Ratchet, for any MAX_SKIP and any lifetime of keys, and    *)
(* any number of messages.                                                 *)
(*                                                                         *)
(* The key pairs of both peers are made in turn: each derives the next     *)
(* root key from the latest of both sides.  With the pairs numbered in     *)
(* that order, the number of a chain's key pair says what its root key is. *)
(***************************************************************************)
EXTENDS Ratchet, Integers, FiniteSetTheorems, SequenceTheorems, TLAPS

\* bob's first pair is 0, alice's 1, bob's next 2, and so on.
Turn(q) == IF q[1] = "alice" THEN 2 * q[2] - 1 ELSE 2 * q[2]

\* The i-th DH output is of the pairs i and i - 1; a root key is made of the first k.
Output(i) == {q \in Pub : Turn(q) \in {i - 1, i}}
RootAt(k) == [i \in 1..k |-> Output(i)]
ChainAt(k, n) == [root |-> RootAt(k), step |-> n]

\* A message, by the chain it belongs to and its place there.
TurnOf(p, i) == Turn(sent[p][i].dh)
Place(p, i) == sent[p][i].n
Before(p, i, c, n) == TurnOf(p, i) < c \/ (TurnOf(p, i) = c /\ Place(p, i) < n)

Now(p) == Turn(st[p].dhs)

\* What a peer holds, by the number of its key pair.
Own(p) ==
  /\ st[p].dhs[1] = p /\ Now(p) \in Nat
  /\ st[p].rk = RootAt(Now(p))
  /\ st[p].cks = IF Now(p) = 0 THEN NoKey ELSE ChainAt(Now(p), st[p].ns)
  /\ st[p].ckr = IF Now(p) <= 1 THEN NoKey ELSE ChainAt(Now(p) - 1, st[p].nr)
  /\ Now(p) <= 1 => st[p].nr = 0
  /\ Now(p) = 0 => st[p].dhr = NoKey
  /\ Now(p) # 0 => /\ st[p].dhr \in Pub
                   /\ st[p].dhr[1] = Other(p) /\ Turn(st[p].dhr) = Now(p) - 1

\* A peer is at most one turn ahead, and has not read more than the other sent.
Beside(p) ==
  /\ Now(p) <= Now(Other(p)) + 1
  /\ Now(Other(p)) = Now(p) - 1 => st[p].nr <= st[Other(p)].ns

\* The i-th message of p has its key from a chain of p, comes after those sent
\* before it, and says how long the chain before was.
Sound(p, i) ==
  /\ sent[p][i].dh[1] = p /\ TurnOf(p, i) \in 1..Now(p)
  /\ sent[p][i].mk = ChainAt(TurnOf(p, i), Place(p, i))
  /\ TurnOf(p, i) = Now(p) => Place(p, i) < st[p].ns /\ sent[p][i].pn = st[p].pn
  /\ TurnOf(p, i) = Now(p) - 2 => Place(p, i) < st[p].pn
  /\ \A j \in 1..Len(sent[p]) : TurnOf(p, j) = TurnOf(p, i) - 2 => Place(p, j) < sent[p][i].pn
  /\ \A j \in 1..i - 1 : Before(p, j, TurnOf(p, i), Place(p, i))

\* The places of chain c below n are those of messages before the i-th.
NoGap(p, i, c, n) ==
  \A k \in 0..n - 1 : \E j \in 1..i - 1 : TurnOf(p, j) = c /\ Place(p, j) = k

Complete(p, i) ==
  NoGap(p, i, TurnOf(p, i), Place(p, i)) /\ NoGap(p, i, TurnOf(p, i) - 2, sent[p][i].pn)

Log(p) ==
  /\ \A i \in 1..Len(sent[p]) : Sound(p, i) /\ Complete(p, i)
  /\ NoGap(p, Len(sent[p]) + 1, Now(p), st[p].ns)
  /\ NoGap(p, Len(sent[p]) + 1, Now(p) - 2, st[p].pn)

\* The receiver is past the i-th message of p: it has read or skipped it.
Past(p, i) == Before(p, i, Now(Other(p)) - 1, st[Other(p)].nr)

\* Where there was one, the receiver noted what it did with it.
Noted(p, i) == <<p, i>> \in accepted \/ passed[<<p, i>>] # NoKey

\* The key of the i-th message of p set aside at t, the one that was, and for
\* which messages it is still there.
KeyAt(p, i, t) == [dh |-> sent[p][i].dh, n |-> sent[p][i].n, at |-> t, mk |-> sent[p][i].mk]
KeyFor(p, i) == KeyAt(p, i, passed[<<p, i>>])
Kept(p) ==
  {i \in 1..Len(sent[p]) :
     /\ <<p, i>> \notin accepted /\ passed[<<p, i>>] # NoKey
     /\ passed[<<p, i>>] + MaxAge >= st[Other(p)].total}

\* What was read, what was skipped, and for what a key is set aside.
Read(p) ==
  /\ \A i \in 1..MaxSends : Noted(p, i) => i <= Len(sent[p]) /\ Past(p, i)
  /\ \A i \in 1..Len(sent[p]) : Past(p, i) => Noted(p, i)
  /\ st[Other(p)].skipped = {KeyFor(p, i) : i \in Kept(p)}

Shape == TypeOK /\ \A p \in Peer : Len(sent[p]) <= MaxSends
KeysInv == \A p \in Peer : Own(p) /\ Beside(p)
SentInv == \A p \in Peer : Log(p)
ReadInv == \A p \in Peer : Read(p)
RatchetInv == Shape /\ KeysInv /\ SentInv /\ ReadInv

-----------------------------------------------------------------------------
(* Key pairs in turn.                                                      *)

\* The peer and the turn of a key pair say which it is.
LEMMA PairOfTurn ==
  ASSUME NEW q \in Pub, NEW r \in Pub, q[1] = r[1], Turn(q) = Turn(r)
  PROVE  q = r
BY DEF Pub, Peer, Turn

\* The pairs of two successive turns are of different peers, and make the output.
LEMMA OutputOfPairs ==
  ASSUME NEW q \in Pub, NEW r \in Pub, q[1] # r[1], Turn(r) = Turn(q) + 1
  PROVE  DH(q, r) = Output(Turn(r)) /\ DH(r, q) = Output(Turn(r))
<1>1. q[2] \in Nat /\ r[2] \in Nat /\ q[1] \in Peer /\ r[1] \in Peer
  BY DEF Pub
<1>2. ASSUME NEW x \in Pub, Turn(x) \in {Turn(r) - 1, Turn(r)}  PROVE x \in {q, r}
  <2>1. x[2] \in Nat /\ x[1] \in Peer
    BY DEF Pub
  <2>2. CASE x[1] = q[1]
    <3>1. Turn(x) = Turn(q)
      BY <1>1, <1>2, <2>1, <2>2 DEF Turn, Peer
    <3> QED
      BY <2>2, <3>1, PairOfTurn
  <2>3. CASE x[1] = r[1]
    <3>1. Turn(x) = Turn(r)
      BY <1>1, <1>2, <2>1, <2>3 DEF Turn, Peer
    <3> QED
      BY <2>3, <3>1, PairOfTurn
  <2> QED
    BY <1>1, <2>1, <2>2, <2>3 DEF Peer
<1>3. Turn(q) = Turn(r) - 1
  BY <1>1 DEF Turn
<1> QED
  BY <1>2, <1>3 DEF DH, Output

\* One more output makes the next root key.
LEMMA NextRoot ==
  ASSUME NEW k \in Nat
  PROVE  /\ RootAt(k) \in Root /\ Len(RootAt(k)) = k
         /\ KdfRk(RootAt(k), Output(k + 1)) = RootAt(k + 1)
<1>1. \A i : Output(i) \in SUBSET Pub
  BY DEF Output
<1>2. RootAt(k) \in Seq(SUBSET Pub) /\ Len(RootAt(k)) = k
  BY <1>1 DEF RootAt
<1>3. RootAt(k + 1) \in Seq(SUBSET Pub) /\ Len(RootAt(k + 1)) = k + 1
  BY <1>1 DEF RootAt
<1>4. Append(RootAt(k), Output(k + 1)) = RootAt(k + 1)
  <2> DEFINE a == Append(RootAt(k), Output(k + 1))
  <2>1. a \in Seq(SUBSET Pub) /\ Len(a) = k + 1
    BY <1>1, <1>2
  <2>2. \A i \in 1..k + 1 : a[i] = RootAt(k + 1)[i]
    BY <1>1, <1>2 DEF RootAt
  <2> QED
    BY <1>3, <2>1, <2>2, SeqEqual
<1> QED
  BY <1>2, <1>4 DEF Root, KdfRk

\* Chains of different turns have different roots.
LEMMA RootsDiffer ==
  ASSUME NEW k \in Nat, NEW l \in Nat, RootAt(k) = RootAt(l)
  PROVE  k = l
BY NextRoot

\* The state, by field.
LEMMA Fields ==
  ASSUME RatchetInv, NEW p \in Peer
  PROVE  /\ Other(p) \in Peer /\ Other(p) # p /\ Other(Other(p)) = p
         /\ st[p] \in State /\ sent[p] \in Seq(Message)
         /\ Len(sent[p]) \in 0..MaxSends
         /\ \A i \in 1..Len(sent[p]) : sent[p][i] \in Message /\ <<p, i>> \in DOMAIN passed
         /\ \A i \in 1..MaxSends : passed[<<p, i>>] \in Nat \cup {NoKey}
         /\ DOMAIN passed = Peer \X (1..MaxSends)
<1>1. Other(p) \in Peer /\ Other(p) # p /\ Other(Other(p)) = p
  BY DEF Peer, Other
<1>2. st[p] \in State /\ sent[p] \in Seq(Message) /\ Len(sent[p]) <= MaxSends
  BY DEF RatchetInv, Shape, TypeOK
<1>3. passed \in [Peer \X (1..MaxSends) -> Nat \cup {NoKey}]
  BY DEF RatchetInv, Shape, TypeOK
<1>4. Len(sent[p]) \in 0..MaxSends
  BY <1>2, LenProperties, RatchetConstants
<1>5. \A i \in 1..Len(sent[p]) : sent[p][i] \in Message /\ i \in 1..MaxSends
  BY <1>2, <1>4, ElementOfSeq, RatchetConstants
<1> QED
  BY <1>1, <1>2, <1>3, <1>4, <1>5

\* Pairs of different owners have turns of different parity.
LEMMA TurnsDiffer ==
  ASSUME NEW q \in Pub, NEW r \in Pub
  PROVE  /\ Turn(q) \in Int
         /\ q[1] # r[1] => Turn(q) # Turn(r) /\ Turn(q) # Turn(r) - 2 /\ Turn(q) # Turn(r) + 2
         /\ q[1] = r[1] => Turn(q) # Turn(r) - 1 /\ Turn(q) # Turn(r) + 1
<1>1. q[2] \in Nat /\ r[2] \in Nat /\ q[1] \in Peer /\ r[1] \in Peer
  BY DEF Pub
<1>2. Turn(q) \in {2 * q[2] - 1, 2 * q[2]} /\ Turn(r) \in {2 * r[2] - 1, 2 * r[2]}
  BY DEF Turn
<1>3. CASE q[1] = r[1]
  <2>1. \/ Turn(q) = 2 * q[2] - 1 /\ Turn(r) = 2 * r[2] - 1
        \/ Turn(q) = 2 * q[2] /\ Turn(r) = 2 * r[2]
    BY <1>3 DEF Turn
  <2> QED
    BY <1>1, <1>3, <2>1
<1>4. CASE q[1] # r[1]
  <2>1. \/ Turn(q) = 2 * q[2] - 1 /\ Turn(r) = 2 * r[2]
        \/ Turn(q) = 2 * q[2] /\ Turn(r) = 2 * r[2] - 1
    BY <1>1, <1>4 DEF Turn, Peer
  <2> QED
    BY <1>1, <1>4, <2>1
<1> QED
  BY <1>3, <1>4

\* An owner's later turn is that of a later pair.
LEMMA TurnsGrow ==
  ASSUME NEW q \in Pub, NEW r \in Pub, q[1] = r[1], Turn(q) < Turn(r)
  PROVE  q[2] < r[2]
<1>1. q[2] \in Nat /\ r[2] \in Nat
  BY DEF Pub
<1>2. CASE q[1] = "alice"
  BY <1>1, <1>2 DEF Turn
<1>3. CASE q[1] # "alice"
  BY <1>1, <1>3 DEF Turn
<1> QED
  BY <1>2, <1>3

\* And a later pair has a later turn.
LEMMA PairsGrow ==
  ASSUME NEW q \in Pub, NEW r \in Pub, q[1] = r[1], q[2] < r[2]
  PROVE  Turn(q) < Turn(r)
<1>1. q[2] \in Nat /\ r[2] \in Nat
  BY DEF Pub
<1>2. CASE q[1] = "alice"
  BY <1>1, <1>2 DEF Turn
<1>3. CASE q[1] # "alice"
  BY <1>1, <1>3 DEF Turn
<1> QED
  BY <1>2, <1>3

\* What is known of the i-th message of p and of its receiver.
LEMMA OfMessage ==
  ASSUME RatchetInv, NEW p \in Peer, NEW i \in 1..Len(sent[p])
  PROVE  /\ sent[p][i] \in Message /\ sent[p][i].dh \in Pub /\ Place(p, i) \in Nat
         /\ sent[p][i].pn \in Nat /\ sent[p][i].mk \in Chain
         /\ Sound(p, i) /\ Complete(p, i)
         /\ Now(p) \in Nat /\ Now(Other(p)) \in Nat
         /\ TurnOf(p, i) \in Nat /\ TurnOf(p, i) # 0
         /\ TurnOf(p, i) <= Now(Other(p)) + 1 /\ TurnOf(p, i) # Now(Other(p))
         /\ TurnOf(p, i) # Now(Other(p)) - 2 /\ TurnOf(p, i) # Now(p) - 1
<1>1. Other(p) \in Peer /\ Other(p) # p /\ sent[p][i] \in Message
      /\ st[p] \in State /\ st[Other(p)] \in State
  BY Fields
<1>2. sent[p][i].dh \in Pub /\ Place(p, i) \in Nat /\ sent[p][i].pn \in Nat
      /\ sent[p][i].mk \in Chain
  BY <1>1 DEF Message, Place
<1>3. Sound(p, i) /\ Complete(p, i)
  BY DEF RatchetInv, SentInv, Log
<1>4. Own(p) /\ Own(Other(p)) /\ Beside(p)
  BY <1>1 DEF RatchetInv, KeysInv
<1>5. Now(p) \in Nat /\ Now(Other(p)) \in Nat /\ Now(p) <= Now(Other(p)) + 1
  BY <1>4 DEF Own, Beside
<1>6. TurnOf(p, i) \in Nat /\ TurnOf(p, i) # 0 /\ TurnOf(p, i) <= Now(p)
  BY <1>3, <1>5 DEF Sound
<1>7. /\ sent[p][i].dh[1] = p /\ st[p].dhs[1] = p /\ st[Other(p)].dhs[1] = Other(p)
      /\ st[p].dhs \in Pub /\ st[Other(p)].dhs \in Pub
  BY <1>1, <1>3, <1>4 DEF Sound, Own, State
<1>8. TurnOf(p, i) # Now(Other(p)) /\ TurnOf(p, i) # Now(Other(p)) - 2
  BY <1>1, <1>2, <1>7, TurnsDiffer DEF TurnOf, Now
<1>9. TurnOf(p, i) # Now(p) - 1
  BY <1>1, <1>2, <1>7, TurnsDiffer DEF TurnOf, Now
<1> QED
  BY <1>1, <1>2, <1>3, <1>5, <1>6, <1>8, <1>9

\* Messages come in the order of their chains and places, which name them.
LEMMA InOrder ==
  ASSUME RatchetInv, NEW p \in Peer, NEW i \in 1..Len(sent[p]), NEW j \in 1..Len(sent[p])
  PROVE  /\ j < i <=> Before(p, j, TurnOf(p, i), Place(p, i))
         /\ j = i <=> TurnOf(p, j) = TurnOf(p, i) /\ Place(p, j) = Place(p, i)
         /\ j <= i <=> Before(p, j, TurnOf(p, i), Place(p, i) + 1)
<1>1. /\ TurnOf(p, i) \in Nat /\ Place(p, i) \in Nat /\ Sound(p, i)
      /\ TurnOf(p, j) \in Nat /\ Place(p, j) \in Nat /\ Sound(p, j)
  BY OfMessage
<1>2. j < i => Before(p, j, TurnOf(p, i), Place(p, i))
  BY <1>1 DEF Sound
<1>3. i < j => Before(p, i, TurnOf(p, j), Place(p, j))
  BY <1>1 DEF Sound
<1>4. i \in Nat /\ j \in Nat
  OBVIOUS
<1>5. CASE j < i
  BY <1>1, <1>2, <1>4, <1>5 DEF Before
<1>6. CASE i < j
  BY <1>1, <1>3, <1>4, <1>6 DEF Before
<1>7. CASE i = j
  BY <1>1, <1>4, <1>7 DEF Before
<1> QED
  BY <1>4, <1>5, <1>6, <1>7

\* The key that is set aside for a message is the only one with its name.
LEMMA KeyNames ==
  ASSUME RatchetInv, NEW p \in Peer, NEW i \in 1..Len(sent[p]), NEW j \in 1..Len(sent[p]),
         sent[p][j].dh = sent[p][i].dh, sent[p][j].n = sent[p][i].n
  PROVE  j = i
BY InOrder DEF TurnOf, Place

\* Whoever is past a message is past those before it.
LEMMA PastDown ==
  ASSUME RatchetInv, NEW p \in Peer, NEW i \in 1..Len(sent[p]), NEW j \in 1..i, Past(p, i)
  PROVE  Past(p, j)
<1>1. j \in 1..Len(sent[p]) /\ i \in Nat /\ j \in Nat /\ (j < i \/ j = i)
  BY Fields
<1>2. CASE j < i
  <2>1. Before(p, j, TurnOf(p, i), Place(p, i))
    BY <1>1, <1>2, InOrder
  <2>2. /\ TurnOf(p, i) \in Nat /\ Place(p, i) \in Nat /\ TurnOf(p, j) \in Nat
        /\ Place(p, j) \in Nat /\ Now(Other(p)) \in Nat /\ st[Other(p)].nr \in Nat
    BY <1>1, OfMessage, Fields DEF State
  <2> QED
    BY <2>1, <2>2 DEF Past, Before
<1> QED
  BY <1>1, <1>2

-----------------------------------------------------------------------------
(* The steps of ratchet_decrypt.                                           *)

\* The keys of the places from a to before b of chain c, set aside at t.
ChainKeys(dh, c, a, b, t) ==
  {[dh |-> dh, n |-> n, at |-> t, mk |-> ChainAt(c, n)] : n \in a..b - 1}

\* Everything but the receiving chain, the counter and the buffer is the same.
SameSending(s, t) ==
  t.dhs = s.dhs /\ t.rk = s.rk /\ t.cks = s.cks /\ t.ns = s.ns /\ t.pn = s.pn

\* The receiving chain c of s is now at place n, and the keys on the way are set aside.
Reached(s, t, c, n) ==
  /\ SameSending(s, t) /\ t.dhr = s.dhr /\ t.total = s.total
  /\ t.nr = n /\ t.ckr = ChainAt(c, n)
  /\ t.skipped = s.skipped \cup ChainKeys(s.dhr, c, s.nr, n, s.total)

\* A chain key of a peer is a chain key.
LEMMA ChainAtIsChain ==
  ASSUME NEW c \in Nat, NEW n \in Nat
  PROVE  ChainAt(c, n) \in Chain /\ ChainAt(c, n) # NoKey
<1>1. RootAt(c) \in Root
  BY NextRoot
<1>2. ChainAt(c, n) \in Chain
  BY <1>1 DEF ChainAt, Chain
<1> QED
  BY <1>2, NoKeyIsNone

\* A chain key names its chain and its place.
LEMMA ChainNames ==
  ASSUME NEW c \in Nat, NEW n \in Nat, NEW d \in Nat, NEW m \in Nat, ChainAt(c, n) = ChainAt(d, m)
  PROVE  c = d /\ n = m
BY RootsDiffer DEF ChainAt

\* The keys that skip_message_keys sets aside.
LEMMA SkippedAre ==
  ASSUME NEW s \in State, NEW c \in Nat, NEW n \in Nat, s.ckr = ChainAt(c, s.nr), s.dhr \in Pub
  PROVE  /\ SkippedKeys(s, n) = ChainKeys(s.dhr, c, s.nr, n, s.total)
         /\ SkippedKeys(s, n) \in SUBSET Skipped
<1>1. s.nr \in Nat /\ s.total \in Nat
  BY DEF State
<1>2. ASSUME NEW k \in s.nr..n - 1
      PROVE  [s.ckr EXCEPT !.step = @ + (k - s.nr)] = ChainAt(c, k)
  BY <1>1 DEF ChainAt
<1>3. \A k \in s.nr..n - 1 : k \in Nat /\ ChainAt(c, k) \in Chain
  BY <1>1, ChainAtIsChain
<1>4. SkippedKeys(s, n) = ChainKeys(s.dhr, c, s.nr, n, s.total)
  BY <1>2 DEF SkippedKeys, ChainKeys
<1>5. ChainKeys(s.dhr, c, s.nr, n, s.total) \in SUBSET Skipped
  BY <1>1, <1>3 DEF ChainKeys, Skipped
<1> QED
  BY <1>4, <1>5

\* skip_message_keys reaches a place that is ahead and within MAX_SKIP.
LEMMA SkipAhead ==
  ASSUME NEW s \in State, NEW c \in Nat, NEW n \in Nat, s.ckr = ChainAt(c, s.nr), s.dhr \in Pub,
         s.nr < n, n <= s.nr + MaxSkip
  PROVE  \E t \in State : SkipMessageKeys(s, n) = Ok(t) /\ Reached(s, t, c, n)
<1> DEFINE t == [s EXCEPT !.skipped = @ \cup SkippedKeys(s, n),
                          !.ckr.step = @ + (n - s.nr), !.nr = n]
<1>1. s.nr \in Nat /\ s.ckr # NoKey /\ s.dhr # NoKey
  BY ChainAtIsChain, NoKeyIsNone DEF State
<1>2. SkipMessageKeys(s, n) = Ok(t)
  BY <1>1, RatchetConstants DEF SkipMessageKeys
<1>3. [s.ckr EXCEPT !.step = @ + (n - s.nr)] = ChainAt(c, n)
  BY <1>1 DEF ChainAt
<1>4. t = [s EXCEPT !.skipped = s.skipped \cup SkippedKeys(s, n), !.ckr = ChainAt(c, n), !.nr = n]
  BY <1>3 DEF State
<1>5. t \in State
  <2>1. ChainAt(c, n) \in Chain
    BY ChainAtIsChain
  <2>2. s.skipped \cup SkippedKeys(s, n) \in SUBSET Skipped
    BY SkippedAre DEF State
  <2> QED
    BY <1>4, <2>1, <2>2 DEF State
<1>6. Reached(s, t, c, n)
  BY <1>4, SkippedAre DEF State, Reached, SameSending
<1> HIDE DEF t
<1> QED
  BY <1>2, <1>5, <1>6

\* skip_message_keys does nothing about a place that is not ahead.
LEMMA SkipBehind ==
  ASSUME NEW s \in State, NEW n \in Nat, n <= s.nr
  PROVE  SkipMessageKeys(s, n) = Ok(s)
<1>1. s.nr \in Nat
  BY DEF State
<1> QED
  BY <1>1, RatchetConstants DEF SkipMessageKeys

\* skip_message_keys refuses a gap of more than MAX_SKIP.
LEMMA SkipTooFar ==
  ASSUME NEW s \in State, NEW n \in Nat, s.nr + MaxSkip < n
  PROVE  SkipMessageKeys(s, n) = Err(s)
BY DEF SkipMessageKeys

\* The chain c of s gave the key of place n, the keys before it are set aside and
\* the expired ones removed.
Opened(s, t, c, n) ==
  /\ SameSending(s, t) /\ t.dhr = s.dhr /\ t.total = s.total + 1
  /\ t.nr = n + 1 /\ t.ckr = ChainAt(c, n + 1)
  /\ t.skipped = {k \in s.skipped \cup ChainKeys(s.dhr, c, s.nr, n, s.total) :
                    k.at + MaxAge >= s.total + 1}

\* Receiving counts and removes expired keys.
LEMMA ReceivedIs ==
  ASSUME NEW s \in State
  PROVE  /\ Received(s) \in State
         /\ SameSending(s, Received(s))
         /\ Received(s).dhr = s.dhr /\ Received(s).nr = s.nr /\ Received(s).ckr = s.ckr
         /\ Received(s).total = s.total + 1
         /\ Received(s).skipped = {k \in s.skipped : k.at + MaxAge >= s.total + 1}
<1>1. Received(s) = [s EXCEPT !.total = s.total + 1,
                              !.skipped = {k \in s.skipped : k.at + MaxAge >= s.total + 1}]
  BY DEF Received, Purge, State
<1>2. s.total + 1 \in Nat /\ {k \in s.skipped : k.at + MaxAge >= s.total + 1} \in SUBSET Skipped
  BY DEF State
<1> QED
  BY <1>1, <1>2 DEF State, SameSending

\* The next message of a chain opens.
LEMMA OpenNext ==
  ASSUME NEW s \in State, NEW c \in Nat, NEW m \in Message, s.ckr = ChainAt(c, s.nr), s.dhr \in Pub,
         s.nr <= m.n, m.n <= s.nr + MaxSkip, m.mk = ChainAt(c, m.n)
  PROVE  \E t \in State : DecryptCurrent(s, m) = Ok(t) /\ Opened(s, t, c, m.n)
<1>1. m.n \in Nat /\ s.nr \in Nat /\ s.skipped \in SUBSET Skipped
  BY DEF Message, State
<1>2. \E u \in State : SkipMessageKeys(s, m.n) = Ok(u) /\ Reached(s, u, c, m.n)
  <2>1. CASE s.nr < m.n
    BY <1>1, <2>1, SkipAhead
  <2>2. CASE s.nr = m.n
    <3>1. ChainKeys(s.dhr, c, s.nr, m.n, s.total) = {}
      BY <1>1, <2>2 DEF ChainKeys
    <3>2. Reached(s, s, c, m.n)
      BY <2>2, <3>1 DEF Reached, SameSending
    <3> QED
      BY <1>1, <2>2, <3>2, SkipBehind
  <2> QED
    BY <1>1, <2>1, <2>2
<1>3. PICK u \in State : SkipMessageKeys(s, m.n) = Ok(u) /\ Reached(s, u, c, m.n)
  BY <1>2
<1> DEFINE v == [u EXCEPT !.ckr = NextChain(@), !.nr = @ + 1]
<1>4. u.ckr = m.mk /\ u.ckr # NoKey /\ u.nr = m.n
  BY <1>1, <1>3, ChainAtIsChain DEF Reached
<1>5. DecryptCurrent(s, m) = Ok(Received(v))
  <2>1. SkipMessageKeys(s, m.n).ok /\ SkipMessageKeys(s, m.n).s = u
    BY <1>3 DEF Ok
  <2>2. DecryptCurrent(s, m) = Open(v, u.ckr, m)
    BY <1>4, <2>1 DEF DecryptCurrent
  <2> HIDE DEF v
  <2> QED
    BY <1>4, <2>2 DEF Open
<1>6. NextChain(u.ckr) = ChainAt(c, m.n + 1)
  BY <1>1, <1>3 DEF Reached, NextChain, ChainAt
<1>7. v = [u EXCEPT !.ckr = ChainAt(c, m.n + 1), !.nr = m.n + 1]
  BY <1>4, <1>6 DEF State
<1>8. v \in State
  <2>1. ChainAt(c, m.n + 1) \in Chain /\ m.n + 1 \in Nat
    BY <1>1, ChainAtIsChain
  <2> QED
    BY <1>7, <2>1 DEF State
<1>9. /\ SameSending(u, v) /\ v.dhr = u.dhr /\ v.total = u.total /\ v.skipped = u.skipped
      /\ v.nr = m.n + 1 /\ v.ckr = ChainAt(c, m.n + 1)
  BY <1>7 DEF State, SameSending
<1> HIDE DEF v
<1>10. Received(v) \in State /\ Opened(s, Received(v), c, m.n)
  BY <1>3, <1>8, <1>9, ReceivedIs DEF Opened, Reached, SameSending
<1> QED
  BY <1>5, <1>10

\* What skip_message_keys leaves alone, whichever the chain.
LEMMA SkipKeeps ==
  ASSUME NEW s \in State, NEW n \in Nat, SkipMessageKeys(s, n).ok
  PROVE  \E t \in State :
           /\ SkipMessageKeys(s, n) = Ok(t)
           /\ SameSending(s, t) /\ t.dhr = s.dhr /\ n <= s.nr + MaxSkip
           /\ s.ckr \in Chain => /\ t.ckr \in Chain /\ t.ckr.root = s.ckr.root
                                 /\ t.ckr.step >= s.ckr.step
<1>1. s.nr \in Nat /\ n <= s.nr + MaxSkip /\ s.total \in Nat
  BY RatchetConstants DEF SkipMessageKeys, Err, State
<1>2. CASE n <= s.nr
  <2>1. SkipMessageKeys(s, n) = Ok(s)
    BY <1>2, SkipBehind
  <2>2. s.ckr \in Chain => s.ckr.step >= s.ckr.step
    BY DEF Chain
  <2> QED
    BY <1>1, <2>1, <2>2 DEF SameSending
<1>3. CASE s.nr < n
  <2> DEFINE t == [s EXCEPT !.skipped = @ \cup SkippedKeys(s, n),
                            !.ckr.step = @ + (n - s.nr), !.nr = n]
             ck == [s.ckr EXCEPT !.step = @ + (n - s.nr)]
  <2>1. NoKey \notin {s.ckr, s.dhr}
    BY <1>1, <1>3 DEF SkipMessageKeys, Err
  <2>2. SkipMessageKeys(s, n) = Ok(t)
    BY <1>1, <1>3, <2>1, RatchetConstants DEF SkipMessageKeys
  <2>3. s.ckr \in Chain /\ s.dhr \in Pub
    BY <2>1 DEF State
  <2>4. ck \in Chain /\ ck.root = s.ckr.root /\ ck.step >= s.ckr.step
    BY <1>1, <1>3, <2>3 DEF Chain
  <2>5. SkippedKeys(s, n) \in SUBSET Skipped
    <3>1. ASSUME NEW k \in s.nr..n - 1
          PROVE  k \in Nat /\ [s.ckr EXCEPT !.step = @ + (k - s.nr)] \in Chain
      BY <1>1, <2>3 DEF Chain
    <3> QED
      BY <1>1, <2>3, <3>1 DEF SkippedKeys, Skipped
  <2>6. t = [s EXCEPT !.skipped = s.skipped \cup SkippedKeys(s, n), !.ckr = ck, !.nr = n]
    BY DEF State
  <2>7. s.skipped \cup SkippedKeys(s, n) \in SUBSET Skipped
    BY <2>5 DEF State
  <2> HIDE DEF ck
  <2>8. t \in State
    BY <2>4, <2>6, <2>7 DEF State
  <2>9. t.ckr = ck /\ t.dhr = s.dhr /\ SameSending(s, t)
    BY <2>6 DEF State, SameSending
  <2> HIDE DEF t
  <2> QED
    BY <1>1, <2>2, <2>4, <2>8, <2>9
<1> QED
  BY <1>1, <1>2, <1>3

\* A message opens only with a key of the receiving chain, at its place or later.
LEMMA OpenOnly ==
  ASSUME NEW s \in State, NEW m \in Message, s.ckr \in Chain, DecryptCurrent(s, m).ok
  PROVE  m.n <= s.nr + MaxSkip /\ m.mk.root = s.ckr.root /\ m.mk.step >= s.ckr.step
<1>1. SkipMessageKeys(s, m.n).ok
  BY DEF DecryptCurrent
<1>2. PICK t \in State :
        /\ SkipMessageKeys(s, m.n) = Ok(t)
        /\ SameSending(s, t) /\ t.dhr = s.dhr /\ m.n <= s.nr + MaxSkip
        /\ s.ckr \in Chain => /\ t.ckr \in Chain /\ t.ckr.root = s.ckr.root
                              /\ t.ckr.step >= s.ckr.step
  BY <1>1, SkipKeeps DEF Message
<1>3. SkipMessageKeys(s, m.n).s = t
  BY <1>2 DEF Ok
<1>4. t.ckr = m.mk
  BY <1>1, <1>3 DEF DecryptCurrent, Open, Err
<1> QED
  BY <1>2, <1>4

\* dh_ratchet_step, in general: the receiving chain is the one after the root key.
LEMMA StepInGeneral ==
  ASSUME NEW s \in State, NEW q \in Pub, s.dhs[1] \in Peer, s.dhs[2] \in Nat
  PROVE  /\ DhRatchetStep(s, q) \in State
         /\ DhRatchetStep(s, q).ckr = ChainOf(KdfRk(s.rk, DH(s.dhs, q)))
         /\ DhRatchetStep(s, q).ckr \in Chain
         /\ DhRatchetStep(s, q).rk
              = KdfRk(KdfRk(s.rk, DH(s.dhs, q)), DH(FreshDhs(s), q))
         /\ DhRatchetStep(s, q).cks = ChainOf(DhRatchetStep(s, q).rk)
         /\ DhRatchetStep(s, q).dhs = FreshDhs(s) /\ DhRatchetStep(s, q).dhr = q
         /\ DhRatchetStep(s, q).ns = 0 /\ DhRatchetStep(s, q).nr = 0
         /\ DhRatchetStep(s, q).pn = s.ns /\ DhRatchetStep(s, q).total = s.total
         /\ DhRatchetStep(s, q).skipped = s.skipped
<1> DEFINE rk1 == KdfRk(s.rk, DH(s.dhs, q))
           rk2 == KdfRk(rk1, DH(FreshDhs(s), q))
<1>1. FreshDhs(s) \in Pub /\ s.dhs \in Pub /\ s.rk \in Root
  BY DEF FreshDhs, Pub, State
<1>2. rk1 \in Root
  BY <1>1 DEF KdfRk, Root, DH
<1>3. rk2 \in Root
  BY <1>1, <1>2 DEF KdfRk, Root, DH
<1>4. ChainOf(rk1) \in Chain /\ ChainOf(rk2) \in Chain
  BY <1>2, <1>3 DEF ChainOf, Chain
<1>5. DhRatchetStep(s, q) =
        [s EXCEPT !.pn = s.ns, !.ns = 0, !.nr = 0, !.dhr = q, !.dhs = FreshDhs(s),
                  !.rk = rk2, !.ckr = ChainOf(rk1), !.cks = ChainOf(rk2)]
  BY DEF DhRatchetStep
<1> HIDE DEF rk1, rk2
<1>6. /\ DhRatchetStep(s, q).ckr = ChainOf(rk1) /\ DhRatchetStep(s, q).rk = rk2
      /\ DhRatchetStep(s, q).cks = ChainOf(rk2)
      /\ DhRatchetStep(s, q).dhs = FreshDhs(s) /\ DhRatchetStep(s, q).dhr = q
      /\ DhRatchetStep(s, q).ns = 0 /\ DhRatchetStep(s, q).nr = 0
      /\ DhRatchetStep(s, q).pn = s.ns /\ DhRatchetStep(s, q).total = s.total
      /\ DhRatchetStep(s, q).skipped = s.skipped
  BY <1>5 DEF State
<1>7. DhRatchetStep(s, q) \in State
  <2>1. s.ns \in Nat /\ 0 \in Nat /\ s.total \in Nat /\ s.skipped \in SUBSET Skipped
    BY DEF State
  <2>2. DhRatchetStep(s, q) =
          [dhs |-> FreshDhs(s), dhr |-> q, rk |-> rk2, cks |-> ChainOf(rk2), ckr |-> ChainOf(rk1),
           ns |-> 0, nr |-> 0, pn |-> s.ns, total |-> s.total, skipped |-> s.skipped]
    BY <1>5 DEF State
  <2> QED
    BY <1>1, <1>3, <1>4, <2>1, <2>2 DEF State
<1> QED
  BY <1>4, <1>6, <1>7 DEF rk1, rk2

\* dh_ratchet_step with the key pair of the next turn: one chain, and then another.
LEMMA StepOfTurn ==
  ASSUME NEW s \in State, NEW q \in Pub, NEW k \in Nat,
         s.rk = RootAt(k), Turn(s.dhs) = k, q[1] # s.dhs[1], Turn(q) = k + 1
  PROVE  /\ FreshDhs(s) \in Pub /\ FreshDhs(s)[1] = s.dhs[1] /\ Turn(FreshDhs(s)) = k + 2
         /\ DhRatchetStep(s, q).ckr = ChainAt(k + 1, 0)
         /\ DhRatchetStep(s, q).rk = RootAt(k + 2)
         /\ DhRatchetStep(s, q).cks = ChainAt(k + 2, 0)
<1>1. s.dhs \in Pub /\ s.dhs[1] \in Peer /\ s.dhs[2] \in Nat
  BY DEF State, Pub
<1>2. FreshDhs(s) \in Pub /\ FreshDhs(s)[1] = s.dhs[1] /\ FreshDhs(s)[2] = s.dhs[2] + 1
  BY <1>1 DEF FreshDhs, Pub
<1>3. Turn(FreshDhs(s)) = k + 2
  <2>1. Turn(FreshDhs(s)) = Turn(s.dhs) + 2
    <3>1. CASE s.dhs[1] = "alice"
      BY <1>1, <1>2, <3>1 DEF Turn
    <3>2. CASE s.dhs[1] # "alice"
      BY <1>1, <1>2, <3>2 DEF Turn
    <3> QED
      BY <3>1, <3>2
  <2> QED
    BY <2>1
<1>4. DH(s.dhs, q) = Output(k + 1) /\ DH(FreshDhs(s), q) = Output(k + 2)
  BY <1>1, <1>2, <1>3, OutputOfPairs
<1>5. KdfRk(s.rk, DH(s.dhs, q)) = RootAt(k + 1)
  BY <1>4, NextRoot
<1>6. KdfRk(RootAt(k + 1), DH(FreshDhs(s), q)) = RootAt(k + 2)
  BY <1>4, NextRoot
<1>7. DhRatchetStep(s, q).ckr = ChainOf(RootAt(k + 1))
      /\ DhRatchetStep(s, q).rk = RootAt(k + 2)
      /\ DhRatchetStep(s, q).cks = ChainOf(DhRatchetStep(s, q).rk)
  BY <1>1, <1>5, <1>6, StepInGeneral
<1> QED
  BY <1>2, <1>3, <1>7 DEF ChainOf, ChainAt

-----------------------------------------------------------------------------
(* A message arrives.                                                      *)

\* The messages that the i-th one of p overtakes, and the keys set aside for them.
Skips(p, i) == {j \in 1..i - 1 : ~Past(p, j)}
KeysAt(p, J, t) == {KeyAt(p, j, t) : j \in J}
Fresh(p, i) == KeysAt(p, Skips(p, i), st[Other(p)].total)

\* The messages before the i-th one that belong to chain c, from place a on.
OfChain(p, i, c, a) == {j \in 1..i - 1 : TurnOf(p, j) = c /\ Place(p, j) >= a}

\* The state after the i-th message of p was read from the receiver's chains.
Advances(p, i, t) ==
  /\ t.dhr = sent[p][i].dh /\ t.total = st[Other(p)].total + 1
  /\ t.nr = Place(p, i) + 1 /\ t.ckr = ChainAt(TurnOf(p, i), Place(p, i) + 1)
  /\ t.skipped = {k \in st[Other(p)].skipped \cup Fresh(p, i) :
                    k.at + MaxAge >= st[Other(p)].total + 1}
  /\ \/ TurnOf(p, i) = Now(Other(p)) - 1 /\ SameSending(st[Other(p)], t)
     \/ /\ TurnOf(p, i) = Now(Other(p)) + 1
        /\ t.dhs \in Pub /\ t.dhs[1] = Other(p) /\ Turn(t.dhs) = Now(Other(p)) + 2
        /\ t.rk = RootAt(Now(Other(p)) + 2) /\ t.cks = ChainAt(Now(Other(p)) + 2, 0)
        /\ t.ns = 0 /\ t.pn = st[Other(p)].ns

\* Before the i-th message, exactly the places below n of the chain c of key dh were used.
Used(p, i, dh, c, n) ==
  /\ dh \in Pub /\ dh[1] = p /\ Turn(dh) = c /\ c \in Nat /\ n \in Nat
  /\ NoGap(p, i, c, n) /\ \A j \in 1..i - 1 : TurnOf(p, j) = c => Place(p, j) < n

\* The keys of a chain that come before the i-th message are those of the
\* messages sent before it in that chain.
LEMMA KeysOfChain ==
  ASSUME RatchetInv, NEW p \in Peer, NEW i \in 1..Len(sent[p]),
         NEW dh, NEW c, NEW n, Used(p, i, dh, c, n), NEW a \in Nat, NEW t \in Nat
  PROVE  ChainKeys(dh, c, a, n, t) = KeysAt(p, OfChain(p, i, c, a), t)
<1> DEFINE J == {j \in 1..i - 1 : TurnOf(p, j) = c /\ Place(p, j) >= a}
<1>1. /\ i \in Nat /\ \A j \in 1..i - 1 : j \in 1..Len(sent[p])
      /\ dh \in Pub /\ dh[1] = p /\ Turn(dh) = c /\ c \in Nat /\ n \in Nat
  BY Fields DEF Used
<1>2. ASSUME NEW j \in 1..i - 1, TurnOf(p, j) = c
      PROVE  /\ KeyAt(p, j, t)
                  = [dh |-> dh, n |-> Place(p, j), at |-> t, mk |-> ChainAt(c, Place(p, j))]
             /\ Place(p, j) \in Nat
  <2>1. /\ sent[p][j].dh \in Pub /\ Place(p, j) \in Nat /\ sent[p][j].dh[1] = p
        /\ sent[p][j].mk = ChainAt(c, Place(p, j))
    <3>1. j \in 1..Len(sent[p])
      BY <1>1
    <3>2. sent[p][j].dh \in Pub /\ Place(p, j) \in Nat /\ Sound(p, j)
      BY <3>1, OfMessage
    <3> QED
      BY <1>2, <3>2 DEF Sound
  <2>2. sent[p][j].dh = dh
    BY <1>1, <1>2, <2>1, PairOfTurn DEF TurnOf
  <2> QED
    BY <2>1, <2>2 DEF KeyAt, Place
<1>3. ASSUME NEW k \in a..n - 1
      PROVE  \E j \in J : [dh |-> dh, n |-> k, at |-> t, mk |-> ChainAt(c, k)] = KeyAt(p, j, t)
  <2>1. PICK j \in 1..i - 1 : TurnOf(p, j) = c /\ Place(p, j) = k
    BY <1>3 DEF NoGap, Used
  <2> QED
    BY <1>2, <1>3, <2>1
<1>4. ASSUME NEW j \in J
      PROVE  \E k \in a..n - 1 :
               KeyAt(p, j, t) = [dh |-> dh, n |-> k, at |-> t, mk |-> ChainAt(c, k)]
  <2>1. j \in 1..i - 1 /\ TurnOf(p, j) = c /\ Place(p, j) >= a
    BY <1>4
  <2>2. Place(p, j) \in a..n - 1
    BY <1>1, <1>2, <2>1 DEF Used
  <2> QED
    BY <1>2, <2>1, <2>2
<1> HIDE DEF J
<1>5. ChainKeys(dh, c, a, n, t) = {KeyAt(p, j, t) : j \in J}
  BY <1>3, <1>4 DEF ChainKeys
<1> QED
  BY <1>5 DEF J, KeysAt, OfChain

\* What is known of the receiver of p's messages.
LEMMA OfReceiver ==
  ASSUME RatchetInv, NEW p \in Peer
  PROVE  /\ st[Other(p)] \in State /\ st[Other(p)].dhs \in Pub
         /\ st[Other(p)].dhs[1] = Other(p) /\ Other(p) # p
         /\ st[Other(p)].dhs[1] \in Peer /\ st[Other(p)].dhs[2] \in Nat
         /\ Now(Other(p)) \in Nat /\ st[Other(p)].rk = RootAt(Now(Other(p)))
         /\ st[Other(p)].nr \in Nat /\ st[Other(p)].total \in Nat /\ st[Other(p)].ns \in Nat
         /\ st[Other(p)].skipped \in SUBSET Skipped
         /\ Now(Other(p)) > 1 => st[Other(p)].ckr = ChainAt(Now(Other(p)) - 1, st[Other(p)].nr)
         /\ Now(Other(p)) <= 1 => st[Other(p)].nr = 0
         /\ Now(Other(p)) = 0 => st[Other(p)].dhr = NoKey
         /\ Now(Other(p)) # 0 => /\ st[Other(p)].dhr \in Pub /\ st[Other(p)].dhr[1] = p
                                 /\ Turn(st[Other(p)].dhr) = Now(Other(p)) - 1
<1>1. Other(p) \in Peer /\ Other(p) # p /\ Other(Other(p)) = p /\ st[Other(p)] \in State
  BY Fields
<1>2. Own(Other(p))
  BY <1>1 DEF RatchetInv, KeysInv
<1>3. /\ st[Other(p)].dhs \in Pub /\ st[Other(p)].nr \in Nat /\ st[Other(p)].total \in Nat
      /\ st[Other(p)].ns \in Nat /\ st[Other(p)].skipped \in SUBSET Skipped
  BY <1>1 DEF State
<1>4. st[Other(p)].dhs[1] \in Peer /\ st[Other(p)].dhs[2] \in Nat
  BY <1>3 DEF Pub
<1> QED
  BY <1>1, <1>2, <1>3, <1>4 DEF Own

\* The buffer has a key for the message if there is one set aside for it.
LEMMA Hits ==
  ASSUME RatchetInv, NEW p \in Peer, NEW i \in 1..Len(sent[p])
  PROVE  {k \in st[Other(p)].skipped : k.dh = sent[p][i].dh /\ k.n = sent[p][i].n}
           = IF i \in Kept(p) THEN {KeyFor(p, i)} ELSE {}
<1>1. st[Other(p)].skipped = {KeyFor(p, j) : j \in Kept(p)}
  BY DEF RatchetInv, ReadInv, Read
<1>2. \A j \in Kept(p) : j \in 1..Len(sent[p])
  BY DEF Kept
<1>3. \A j : KeyFor(p, j).dh = sent[p][j].dh /\ KeyFor(p, j).n = sent[p][j].n
  BY DEF KeyFor, KeyAt
<1>4. \A j \in Kept(p) : sent[p][j].dh = sent[p][i].dh /\ sent[p][j].n = sent[p][i].n => j = i
  BY <1>2, KeyNames
<1> QED
  BY <1>1, <1>3, <1>4

\* A message whose key is set aside is read with it.
LEMMA ReadKept ==
  ASSUME RatchetInv, NEW p \in Peer, NEW i \in Kept(p)
  PROVE  Decrypt(st[Other(p)], sent[p][i])
           = Ok(Received(TakeSkipped(st[Other(p)], KeyFor(p, i))))
<1>1. i \in 1..Len(sent[p])
  BY DEF Kept
<1>2. {k \in st[Other(p)].skipped : k.dh = sent[p][i].dh /\ k.n = sent[p][i].n} = {KeyFor(p, i)}
  BY <1>1, Hits
<1>3. KeyFor(p, i).mk = sent[p][i].mk
  BY DEF KeyFor, KeyAt
<1>4. (CHOOSE k \in {KeyFor(p, i)} : TRUE) = KeyFor(p, i)
  OBVIOUS
<1>5. Decrypt(st[Other(p)], sent[p][i])
        = Open(TakeSkipped(st[Other(p)], KeyFor(p, i)), KeyFor(p, i).mk, sent[p][i])
  BY <1>2, <1>4 DEF Decrypt
<1> QED
  BY <1>3, <1>5 DEF Open

\* Without a key set aside, a message of the current chain is read from the chain.
LEMMA NotKept ==
  ASSUME RatchetInv, NEW p \in Peer, NEW i \in 1..Len(sent[p]), i \notin Kept(p)
  PROVE  Decrypt(st[Other(p)], sent[p][i])
           = IF st[Other(p)].dhr = sent[p][i].dh THEN DecryptCurrent(st[Other(p)], sent[p][i])
             ELSE IF SkipMessageKeys(st[Other(p)], sent[p][i].pn).ok
             THEN DecryptCurrent(DhRatchetStep(SkipMessageKeys(st[Other(p)], sent[p][i].pn).s,
                                               sent[p][i].dh), sent[p][i])
             ELSE SkipMessageKeys(st[Other(p)], sent[p][i].pn)
<1>1. {k \in st[Other(p)].skipped : k.dh = sent[p][i].dh /\ k.n = sent[p][i].n} = {}
  BY Hits
<1> QED
  BY <1>1 DEF Decrypt

\* A message of the chain the receiver is reading.
LEMMA InChain ==
  ASSUME RatchetInv, NEW p \in Peer, NEW i \in 1..Len(sent[p]), i \notin Kept(p),
         TurnOf(p, i) = Now(Other(p)) - 1
  PROVE  /\ Decrypt(st[Other(p)], sent[p][i]).ok
              => /\ ~Past(p, i)
                 /\ \E t \in State : Decrypt(st[Other(p)], sent[p][i]) = Ok(t) /\ Advances(p, i, t)
         /\ ~Past(p, i) => Decrypt(st[Other(p)], sent[p][i]).ok \/ OutOfReach(p, i)
<1> DEFINE s == st[Other(p)]
           m == sent[p][i]
           c == TurnOf(p, i)
<1>1. /\ m \in Message /\ m.dh \in Pub /\ m.n \in Nat /\ Place(p, i) = m.n
      /\ c \in Nat /\ c # 0 /\ m.dh[1] = p /\ m.mk = ChainAt(c, m.n)
      /\ NoGap(p, i, c, m.n) /\ \A j \in 1..i - 1 : Before(p, j, c, m.n)
  BY OfMessage DEF Sound, Complete, Place
<1>2. /\ s \in State /\ s.ckr = ChainAt(c, s.nr) /\ s.dhr \in Pub /\ s.nr \in Nat
      /\ s.dhr[1] = p /\ Turn(s.dhr) = c /\ s.total \in Nat
  BY <1>1, OfReceiver
<1>3. s.dhr = m.dh
  BY <1>1, <1>2, PairOfTurn DEF TurnOf
<1>4. Decrypt(s, m) = DecryptCurrent(s, m)
  BY <1>3, NotKept
<1>5. Past(p, i) <=> m.n < s.nr
  BY <1>1 DEF Past, Before
<1>6. ASSUME DecryptCurrent(s, m).ok  PROVE s.nr <= m.n /\ m.n <= s.nr + MaxSkip
  <2>1. m.n <= s.nr + MaxSkip /\ m.mk.step >= s.ckr.step
    BY <1>1, <1>2, <1>6, ChainAtIsChain, OpenOnly
  <2> QED
    BY <1>1, <1>2, <2>1 DEF ChainAt
<1>7. \A j \in 1..i - 1 : /\ j \in 1..Len(sent[p]) /\ TurnOf(p, j) \in Nat /\ Place(p, j) \in Nat
  <2>1. i \in Nat /\ \A j \in 1..i - 1 : j \in 1..Len(sent[p])
    BY Fields
  <2> QED
    BY <2>1, OfMessage
<1>8. ChainKeys(s.dhr, c, s.nr, m.n, s.total) = Fresh(p, i)
  <2>1. Used(p, i, s.dhr, c, m.n)
    BY <1>1, <1>2, <1>7 DEF Before, Used
  <2>2. \A j \in 1..i - 1 : ~Past(p, j) <=> TurnOf(p, j) = c /\ Place(p, j) >= s.nr
    <3> TAKE j \in 1..i - 1
    <3>1. Past(p, j) <=> TurnOf(p, j) < c \/ (TurnOf(p, j) = c /\ Place(p, j) < s.nr)
      BY DEF Past, Before
    <3>2. TurnOf(p, j) <= c
      BY <1>1, <1>7 DEF Before
    <3> QED
      BY <1>1, <1>2, <1>7, <3>1, <3>2
  <2>3. Skips(p, i) = OfChain(p, i, c, s.nr)
    BY <2>2 DEF Skips, OfChain
  <2>4. ChainKeys(s.dhr, c, s.nr, m.n, s.total) = KeysAt(p, OfChain(p, i, c, s.nr), s.total)
    BY <1>2, <2>1, KeysOfChain
  <2> QED
    BY <2>3, <2>4 DEF Fresh
<1>9. ASSUME s.nr <= m.n, m.n <= s.nr + MaxSkip
      PROVE  \E t \in State : DecryptCurrent(s, m) = Ok(t) /\ Advances(p, i, t)
  <2>1. PICK t \in State : DecryptCurrent(s, m) = Ok(t) /\ Opened(s, t, c, m.n)
    BY <1>1, <1>2, <1>9, OpenNext
  <2>2. Advances(p, i, t)
    BY <1>1, <1>3, <1>8, <2>1 DEF Opened, Advances
  <2> QED
    BY <2>1, <2>2
<1>10. ASSUME ~Past(p, i)  PROVE DecryptCurrent(s, m).ok \/ OutOfReach(p, i)
  <2>1. CASE m.n <= s.nr + MaxSkip
    <3>1. s.nr <= m.n
      BY <1>1, <1>2, <1>5, <1>10
    <3>2. PICK t \in State : DecryptCurrent(s, m) = Ok(t)
      BY <1>9, <2>1, <3>1
    <3> QED
      BY <3>2 DEF Ok
  <2>2. CASE s.nr + MaxSkip < m.n
    BY <1>3, <2>2 DEF OutOfReach
  <2> QED
    BY <1>1, <1>2, <2>1, <2>2, RatchetConstants
<1> QED
  BY <1>1, <1>2, <1>4, <1>5, <1>6, <1>9, <1>10

\* A message of an older chain whose key is not set aside cannot be read.
LEMMA InOldChain ==
  ASSUME RatchetInv, NEW p \in Peer, NEW i \in 1..Len(sent[p]), i \notin Kept(p),
         TurnOf(p, i) < Now(Other(p)) - 1
  PROVE  Past(p, i) /\ ~Decrypt(st[Other(p)], sent[p][i]).ok
<1> DEFINE s == st[Other(p)]
           m == sent[p][i]
           c == TurnOf(p, i)
<1>1. /\ m \in Message /\ m.dh \in Pub /\ m.pn \in Nat /\ c \in Nat /\ Place(p, i) \in Nat
      /\ m.mk = ChainAt(c, Place(p, i))
  BY OfMessage DEF Sound
<1>2. /\ s \in State /\ Now(Other(p)) \in Nat /\ s.rk = RootAt(Now(Other(p)))
      /\ s.dhs[1] \in Peer /\ s.dhs[2] \in Nat
      /\ Now(Other(p)) # 0 => Turn(s.dhr) = Now(Other(p)) - 1
  BY OfReceiver
<1>3. s.dhr # m.dh
  BY <1>1, <1>2 DEF TurnOf
<1>4. SUFFICES ASSUME Decrypt(s, m).ok  PROVE FALSE
  BY DEF Past, Before
<1>5. /\ SkipMessageKeys(s, m.pn).ok
      /\ DecryptCurrent(DhRatchetStep(SkipMessageKeys(s, m.pn).s, m.dh), m).ok
  BY <1>3, <1>4, NotKept
<1>6. PICK u \in State : SkipMessageKeys(s, m.pn) = Ok(u) /\ SameSending(s, u)
  BY <1>1, <1>2, <1>5, SkipKeeps
<1>7. SkipMessageKeys(s, m.pn).s = u /\ u.rk = s.rk /\ u.dhs = s.dhs
  BY <1>6 DEF Ok, SameSending
<1> DEFINE v == DhRatchetStep(u, m.dh)
<1>8. v \in State /\ v.ckr \in Chain /\ v.ckr = ChainOf(KdfRk(u.rk, DH(u.dhs, m.dh)))
  BY <1>1, <1>2, <1>7, StepInGeneral
<1>9. DecryptCurrent(v, m).ok
  BY <1>5, <1>7
<1> HIDE DEF v
<1>10. m.mk.root = v.ckr.root
  BY <1>1, <1>8, <1>9, OpenOnly
<1>11. RootAt(c) = Append(s.rk, DH(s.dhs, m.dh))
  BY <1>1, <1>7, <1>8, <1>10 DEF ChainAt, ChainOf, KdfRk
<1>12. /\ RootAt(c) \in Seq(SUBSET Pub) /\ Len(RootAt(c)) = c
       /\ s.rk \in Seq(SUBSET Pub) /\ Len(s.rk) = Now(Other(p))
  BY <1>1, <1>2, NextRoot DEF Root
<1>13. DH(s.dhs, m.dh) \in SUBSET Pub
  BY <1>1, <1>2, OfReceiver DEF DH
<1> HIDE DEF s, m, c
<1>14. Len(Append(s.rk, DH(s.dhs, m.dh))) = Now(Other(p)) + 1
  BY <1>12, <1>13
<1> QED
  BY <1>2, <1>11, <1>12, <1>14 DEF c

\* The keys of the current chain that are set aside when the next one begins.
ClosingKeys(p, i) ==
  IF Now(Other(p)) <= 1 THEN {}
  ELSE ChainKeys(st[Other(p)].dhr, Now(Other(p)) - 1, st[Other(p)].nr, sent[p][i].pn,
                 st[Other(p)].total)

\* A message of a chain that the receiver does not know overtakes what is left of
\* the chain before it and what comes before the message in the new one.
LEMMA FreshInNewChain ==
  ASSUME RatchetInv, NEW p \in Peer, NEW i \in 1..Len(sent[p]),
         TurnOf(p, i) = Now(Other(p)) + 1
  PROVE  /\ Now(Other(p)) <= 1 => sent[p][i].pn = 0
         /\ Fresh(p, i) = ClosingKeys(p, i)
              \cup ChainKeys(sent[p][i].dh, TurnOf(p, i), 0, Place(p, i), st[Other(p)].total)
<1> DEFINE s == st[Other(p)]
           m == sent[p][i]
           c == TurnOf(p, i)
           now == Now(Other(p))
<1>1. /\ m.dh \in Pub /\ m.pn \in Nat /\ Place(p, i) \in Nat /\ c \in Nat /\ m.dh[1] = p
      /\ NoGap(p, i, c, Place(p, i)) /\ NoGap(p, i, c - 2, m.pn)
      /\ \A j \in 1..i - 1 : Before(p, j, c, Place(p, i))
      /\ \A j \in 1..Len(sent[p]) : TurnOf(p, j) = c - 2 => Place(p, j) < m.pn
  BY OfMessage DEF Sound, Complete
<1>2. /\ now \in Nat /\ s.nr \in Nat /\ s.total \in Nat
      /\ now <= 1 => s.nr = 0
      /\ now # 0 => s.dhr \in Pub /\ s.dhr[1] = p /\ Turn(s.dhr) = now - 1
  BY OfReceiver
<1>3. \A j \in 1..i - 1 : /\ j \in 1..Len(sent[p]) /\ TurnOf(p, j) \in Nat /\ TurnOf(p, j) # 0
                          /\ Place(p, j) \in Nat /\ TurnOf(p, j) # now
  <2>1. i \in Nat /\ \A j \in 1..i - 1 : j \in 1..Len(sent[p])
    BY Fields
  <2> QED
    BY <2>1, OfMessage
<1>4. now <= 1 => m.pn = 0
  <2>1. SUFFICES ASSUME now <= 1, m.pn # 0  PROVE FALSE
    OBVIOUS
  <2>2. 0 \in 0..m.pn - 1
    BY <1>1, <2>1
  <2>3. PICK j \in 1..i - 1 : TurnOf(p, j) = c - 2
    BY <1>1, <2>2 DEF NoGap
  <2> QED
    BY <1>2, <1>3, <2>1, <2>3
<1>5. \A j \in 1..i - 1 : Before(p, j, c, Place(p, i)) /\ (Past(p, j) <=> Before(p, j, now - 1, s.nr))
  BY <1>1 DEF Past
<1>6. Skips(p, i) = OfChain(p, i, c, 0) \cup OfChain(p, i, now - 1, s.nr)
  <2>1. ASSUME NEW j \in 1..i - 1
        PROVE  ~Past(p, j) <=> \/ TurnOf(p, j) = c /\ Place(p, j) >= 0
                               \/ TurnOf(p, j) = now - 1 /\ Place(p, j) >= s.nr
    <3>1. /\ TurnOf(p, j) \in Nat /\ TurnOf(p, j) # now /\ Place(p, j) \in Nat
          /\ TurnOf(p, j) < c \/ (TurnOf(p, j) = c /\ Place(p, j) < Place(p, i))
      BY <1>3, <1>5 DEF Before
    <3>2. Past(p, j) <=> \/ TurnOf(p, j) < now - 1
                         \/ TurnOf(p, j) = now - 1 /\ Place(p, j) < s.nr
      BY <1>5 DEF Before
    <3> QED
      BY <1>1, <1>2, <3>1, <3>2
  <2> QED
    BY <2>1 DEF Skips, OfChain
<1>7. KeysAt(p, OfChain(p, i, c, 0), s.total) = ChainKeys(m.dh, c, 0, Place(p, i), s.total)
  <2>1. Used(p, i, m.dh, c, Place(p, i))
    BY <1>1, <1>3 DEF Used, Before, TurnOf
  <2> QED
    BY <1>2, <2>1, KeysOfChain
<1>8. KeysAt(p, OfChain(p, i, now - 1, s.nr), s.total) = ClosingKeys(p, i)
  <2>1. CASE now <= 1
    <3>1. OfChain(p, i, now - 1, s.nr) = {}
      BY <1>2, <1>3, <2>1 DEF OfChain
    <3> QED
      BY <2>1, <3>1 DEF KeysAt, ClosingKeys
  <2>2. CASE ~(now <= 1)
    <3>1. now - 1 \in Nat /\ now # 0 /\ c - 2 = now - 1
      BY <1>2, <2>2
    <3>2. Used(p, i, s.dhr, now - 1, m.pn)
      BY <1>1, <1>2, <1>3, <3>1 DEF Used
    <3> QED
      BY <1>2, <2>2, <3>2, KeysOfChain DEF ClosingKeys
  <2> QED
    BY <2>1, <2>2
<1>9. Fresh(p, i) = KeysAt(p, OfChain(p, i, c, 0), s.total)
                      \cup KeysAt(p, OfChain(p, i, now - 1, s.nr), s.total)
  BY <1>6 DEF Fresh, KeysAt
<1> QED
  BY <1>4, <1>7, <1>8, <1>9

\* Closing the chain that the receiver reads sets aside what is left of it.
LEMMA Closing ==
  ASSUME RatchetInv, NEW p \in Peer, NEW i \in 1..Len(sent[p]),
         TurnOf(p, i) = Now(Other(p)) + 1, sent[p][i].pn <= st[Other(p)].nr + MaxSkip
  PROVE  \E u \in State :
           /\ SkipMessageKeys(st[Other(p)], sent[p][i].pn) = Ok(u)
           /\ SameSending(st[Other(p)], u) /\ u.total = st[Other(p)].total
           /\ u.skipped = st[Other(p)].skipped \cup ClosingKeys(p, i)
<1> DEFINE s == st[Other(p)]
           n == sent[p][i].pn
           now == Now(Other(p))
<1>1. /\ s \in State /\ n \in Nat /\ s.nr \in Nat /\ now \in Nat
      /\ now <= 1 => s.nr = 0 /\ n = 0
      /\ now > 1 => s.dhr \in Pub /\ now - 1 \in Nat /\ s.ckr = ChainAt(now - 1, s.nr)
  <2>1. n \in Nat /\ (now <= 1 => n = 0)
    BY OfMessage, FreshInNewChain
  <2> QED
    BY <2>1, OfReceiver
<1>2. CASE n <= s.nr
  <2>1. ClosingKeys(p, i) = {}
    BY <1>1, <1>2 DEF ClosingKeys, ChainKeys
  <2>2. SkipMessageKeys(s, n) = Ok(s)
    BY <1>1, <1>2, SkipBehind
  <2> QED
    BY <1>1, <2>1, <2>2 DEF SameSending
<1>3. CASE s.nr < n
  <2>1. now > 1
    BY <1>1, <1>3
  <2>2. PICK u \in State : SkipMessageKeys(s, n) = Ok(u) /\ Reached(s, u, now - 1, n)
    BY <1>1, <1>3, <2>1, SkipAhead
  <2>3. u.skipped = s.skipped \cup ClosingKeys(p, i)
    BY <1>1, <2>1, <2>2 DEF Reached, ClosingKeys
  <2> QED
    BY <2>2, <2>3 DEF Reached
<1> QED
  BY <1>1, <1>2, <1>3

\* A message of a chain that the receiver does not know yet.
LEMMA InNewChain ==
  ASSUME RatchetInv, NEW p \in Peer, NEW i \in 1..Len(sent[p]), i \notin Kept(p),
         TurnOf(p, i) = Now(Other(p)) + 1
  PROVE  /\ ~Past(p, i)
         /\ Decrypt(st[Other(p)], sent[p][i]).ok
              => \E t \in State : Decrypt(st[Other(p)], sent[p][i]) = Ok(t) /\ Advances(p, i, t)
         /\ Decrypt(st[Other(p)], sent[p][i]).ok \/ OutOfReach(p, i)
<1> DEFINE s == st[Other(p)]
           m == sent[p][i]
           c == TurnOf(p, i)
           now == Now(Other(p))
           InReach == m.pn <= s.nr + MaxSkip /\ m.n <= MaxSkip
<1>1. /\ m \in Message /\ m.dh \in Pub /\ m.pn \in Nat /\ m.n \in Nat /\ Place(p, i) = m.n
      /\ c \in Nat /\ m.dh[1] = p /\ m.mk = ChainAt(c, m.n) /\ Turn(m.dh) = c
  BY OfMessage DEF Sound, Place, TurnOf
<1>2. /\ s \in State /\ now \in Nat /\ s.nr \in Nat /\ s.total \in Nat
      /\ s.dhs \in Pub /\ s.dhs[1] = Other(p) /\ Other(p) # p
      /\ s.dhs[1] \in Peer /\ s.dhs[2] \in Nat /\ s.rk = RootAt(now) /\ Turn(s.dhs) = now
      /\ now = 0 => s.dhr = NoKey
      /\ now # 0 => s.dhr \in Pub /\ s.dhr[1] = p /\ Turn(s.dhr) = now - 1
  BY OfReceiver DEF Now
<1>3. s.dhr # m.dh
  BY <1>1, <1>2, NoKeyIsNone
<1>4. ~Past(p, i)
  BY <1>1, <1>2 DEF Past, Before
<1>5. ASSUME NEW u \in State, SameSending(s, u)
      PROVE  LET v == DhRatchetStep(u, m.dh) IN
               /\ v \in State /\ v.dhr = m.dh /\ v.total = u.total /\ v.skipped = u.skipped
               /\ v.dhs \in Pub /\ v.dhs[1] = Other(p) /\ Turn(v.dhs) = now + 2
               /\ v.rk = RootAt(now + 2) /\ v.cks = ChainAt(now + 2, 0)
               /\ v.ckr = ChainAt(c, 0) /\ v.nr = 0 /\ v.ns = 0 /\ v.pn = s.ns
  <2>1. u.dhs = s.dhs /\ u.rk = s.rk /\ u.ns = s.ns
    BY <1>5 DEF SameSending
  <2>2. u.rk = RootAt(now) /\ Turn(u.dhs) = now /\ m.dh[1] # u.dhs[1] /\ Turn(m.dh) = now + 1
        /\ u.dhs[1] \in Peer /\ u.dhs[2] \in Nat
    BY <1>1, <1>2, <2>1
  <2>3. FreshDhs(u)[1] = u.dhs[1] /\ u.dhs[1] = Other(p)
    BY <1>2, <2>1 DEF FreshDhs
  <2>4. /\ FreshDhs(u) \in Pub /\ Turn(FreshDhs(u)) = now + 2
        /\ DhRatchetStep(u, m.dh).ckr = ChainAt(now + 1, 0)
        /\ DhRatchetStep(u, m.dh).rk = RootAt(now + 2)
        /\ DhRatchetStep(u, m.dh).cks = ChainAt(now + 2, 0)
    BY <1>1, <1>2, <2>2, StepOfTurn
  <2>5. /\ DhRatchetStep(u, m.dh) \in State
        /\ DhRatchetStep(u, m.dh).dhs = FreshDhs(u) /\ DhRatchetStep(u, m.dh).dhr = m.dh
        /\ DhRatchetStep(u, m.dh).ns = 0 /\ DhRatchetStep(u, m.dh).nr = 0
        /\ DhRatchetStep(u, m.dh).pn = u.ns /\ DhRatchetStep(u, m.dh).total = u.total
        /\ DhRatchetStep(u, m.dh).skipped = u.skipped
    BY <1>1, <2>2, StepInGeneral
  <2> QED
    BY <2>1, <2>3, <2>4, <2>5
<1>6. ASSUME InReach
      PROVE  \E t \in State : Decrypt(s, m) = Ok(t) /\ Advances(p, i, t)
  <2>1. PICK u \in State :
          /\ SkipMessageKeys(s, m.pn) = Ok(u) /\ SameSending(s, u) /\ u.total = s.total
          /\ u.skipped = s.skipped \cup ClosingKeys(p, i)
    BY <1>6, Closing
  <2>2. SkipMessageKeys(s, m.pn).ok /\ SkipMessageKeys(s, m.pn).s = u
    BY <2>1 DEF Ok
  <2>3. Decrypt(s, m) = DecryptCurrent(DhRatchetStep(u, m.dh), m)
    BY <1>3, <2>2, NotKept
  <2>4. PICK v : v = DhRatchetStep(u, m.dh)
    OBVIOUS
  <2>5. /\ v \in State /\ v.dhr = m.dh /\ v.total = s.total
        /\ v.skipped = s.skipped \cup ClosingKeys(p, i)
        /\ v.dhs \in Pub /\ v.dhs[1] = Other(p) /\ Turn(v.dhs) = now + 2
        /\ v.rk = RootAt(now + 2) /\ v.cks = ChainAt(now + 2, 0)
        /\ v.ckr = ChainAt(c, 0) /\ v.nr = 0 /\ v.ns = 0 /\ v.pn = s.ns
    BY <1>5, <2>1, <2>4
  <2>6. PICK t \in State : DecryptCurrent(v, m) = Ok(t) /\ Opened(v, t, c, m.n)
    BY <1>1, <1>6, <2>5, RatchetConstants, OpenNext
  <2>7. v.skipped \cup ChainKeys(v.dhr, c, v.nr, m.n, v.total) = s.skipped \cup Fresh(p, i)
    BY <1>1, <2>5, FreshInNewChain
  <2>8. Advances(p, i, t)
    BY <1>1, <2>5, <2>6, <2>7 DEF Advances, Opened, SameSending
  <2> QED
    BY <2>3, <2>4, <2>6, <2>8
<1>7. ASSUME Decrypt(s, m).ok  PROVE InReach
  <2>1. SkipMessageKeys(s, m.pn).ok
    BY <1>3, <1>7, NotKept
  <2>2. PICK u \in State :
          SkipMessageKeys(s, m.pn) = Ok(u) /\ SameSending(s, u) /\ m.pn <= s.nr + MaxSkip
    BY <1>1, <1>2, <2>1, SkipKeeps
  <2>3. SkipMessageKeys(s, m.pn).s = u
    BY <2>2 DEF Ok
  <2>4. PICK v : v = DhRatchetStep(u, m.dh)
    OBVIOUS
  <2>5. v \in State /\ v.ckr = ChainAt(c, 0) /\ v.nr = 0
    BY <1>5, <2>2, <2>4
  <2>6. DecryptCurrent(v, m).ok
    BY <1>3, <1>7, <2>1, <2>3, <2>4, NotKept
  <2>7. m.n <= 0 + MaxSkip
    BY <1>1, <2>5, <2>6, ChainAtIsChain, OpenOnly
  <2> QED
    BY <2>2, <2>7, RatchetConstants
<1>8. ASSUME ~InReach  PROVE OutOfReach(p, i)
  <2>1. s.nr + MaxSkip < m.pn \/ MaxSkip < m.n
    BY <1>1, <1>2, <1>8, RatchetConstants
  <2>2. s.dhr = NoKey \/ s.dhr[2] < m.dh[2]
    <3>1. CASE now # 0
      <4>1. s.dhr \in Pub /\ s.dhr[1] = m.dh[1] /\ Turn(s.dhr) < Turn(m.dh)
        BY <1>1, <1>2, <3>1
      <4> QED
        BY <1>1, <4>1, TurnsGrow
    <3> QED
      BY <1>2, <3>1
  <2> QED
    BY <1>3, <2>1, <2>2 DEF OutOfReach
<1>9. (\E t \in State : Decrypt(s, m) = Ok(t)) => Decrypt(s, m).ok
  BY DEF Ok
<1> QED
  BY <1>4, <1>6, <1>7, <1>8, <1>9

\* What becomes of a message for which no key is set aside.
LEMMA Arrival ==
  ASSUME RatchetInv, NEW p \in Peer, NEW i \in 1..Len(sent[p]), i \notin Kept(p)
  PROVE  /\ Decrypt(st[Other(p)], sent[p][i]).ok
              => /\ ~Past(p, i)
                 /\ \E t \in State : Decrypt(st[Other(p)], sent[p][i]) = Ok(t) /\ Advances(p, i, t)
         /\ ~Past(p, i) => Decrypt(st[Other(p)], sent[p][i]).ok \/ OutOfReach(p, i)
<1>1. /\ TurnOf(p, i) \in Nat /\ Now(Other(p)) \in Nat
      /\ TurnOf(p, i) <= Now(Other(p)) + 1 /\ TurnOf(p, i) # Now(Other(p))
  BY OfMessage
<1>2. CASE TurnOf(p, i) = Now(Other(p)) - 1
  BY <1>2, InChain
<1>3. CASE TurnOf(p, i) = Now(Other(p)) + 1
  BY <1>3, InNewChain
<1>4. CASE TurnOf(p, i) < Now(Other(p)) - 1
  BY <1>4, InOldChain
<1> QED
  BY <1>1, <1>2, <1>3, <1>4

-----------------------------------------------------------------------------
(* The properties follow.                                                  *)

\* A message on the wire, by sender and number.
LEMMA WireIs ==
  ASSUME RatchetInv, NEW x \in OnWire
  PROVE  /\ x[1] \in Peer /\ x[2] \in 1..Len(sent[x[1]]) /\ x = <<x[1], x[2]>>
         /\ x[2] \in 1..MaxSends
BY Fields DEF OnWire

\* A message that was read is on the wire, and its receiver is past it.
LEMMA AcceptedIs ==
  ASSUME RatchetInv, NEW x \in accepted
  PROVE  /\ x \in OnWire /\ x[1] \in Peer /\ x[2] \in 1..Len(sent[x[1]])
         /\ x = <<x[1], x[2]>> /\ Past(x[1], x[2]) /\ x[2] \notin Kept(x[1])
<1>1. x[1] \in Peer /\ x[2] \in 1..MaxSends /\ x = <<x[1], x[2]>>
  BY DEF RatchetInv, Shape, TypeOK
<1>2. Noted(x[1], x[2])
  BY <1>1 DEF Noted
<1>3. x[2] <= Len(sent[x[1]]) /\ Past(x[1], x[2])
  BY <1>1, <1>2 DEF RatchetInv, ReadInv, Read
<1>4. x[2] \in 1..Len(sent[x[1]])
  BY <1>1, <1>3, Fields
<1>5. x \in OnWire
  BY <1>1, <1>4, Fields DEF OnWire
<1>6. x[2] \notin Kept(x[1])
  BY <1>1 DEF Kept
<1> QED
  BY <1>1, <1>3, <1>4, <1>5, <1>6

\* The receiver is past what it read and has no key set aside for it.
LEMMA NoReplay ==
  ASSUME RatchetInv
  PROVE  ReplayRejected
<1>1. ASSUME NEW x \in accepted, Accepts(x[1], x[2])  PROVE FALSE
  <2>1. x[1] \in Peer /\ x[2] \in 1..Len(sent[x[1]]) /\ Past(x[1], x[2]) /\ x[2] \notin Kept(x[1])
    BY AcceptedIs
  <2> QED
    BY <1>1, <2>1, Arrival DEF Accepts
<1> QED
  BY <1>1 DEF ReplayRejected

\* A key that was noted is set aside for as long as it has not expired.
LEMMA KeptOrExpired ==
  ASSUME RatchetInv, NEW x \in OnWire, x \notin accepted
  PROVE  /\ x[2] \in Kept(x[1]) <=> passed[x] # NoKey /\ ~Expired(x)
         /\ passed[x] # NoKey <=> Past(x[1], x[2])
<1>1. /\ x[1] \in Peer /\ x[2] \in 1..Len(sent[x[1]]) /\ x = <<x[1], x[2]>>
      /\ x[2] \in 1..MaxSends
  BY WireIs
<1>2. passed[x] \in Nat \cup {NoKey} /\ st[Other(x[1])].total \in Nat
  BY <1>1, Fields, OfReceiver
<1>3. Noted(x[1], x[2]) <=> passed[x] # NoKey
  BY <1>1 DEF Noted
<1>4. Noted(x[1], x[2]) <=> Past(x[1], x[2])
  BY <1>1 DEF RatchetInv, ReadInv, Read
<1>5. x[2] \in Kept(x[1]) <=> passed[x] # NoKey /\ passed[x] + MaxAge >= st[Other(x[1])].total
  BY <1>1 DEF Kept
<1> QED
  BY <1>2, <1>3, <1>4, <1>5, RatchetConstants DEF Expired

\* A message that was not read is ahead of the receiver or has its key set aside.
LEMMA InReachReadable ==
  ASSUME RatchetInv
  PROVE  Readable /\ ExpiredUnreadable
<1>1. ASSUME NEW x \in OnWire \ accepted
      PROVE  /\ Accepts(x[1], x[2]) \/ OutOfReach(x[1], x[2]) \/ Expired(x)
             /\ Expired(x) => ~Accepts(x[1], x[2])
  <2>1. /\ x \in OnWire /\ x \notin accepted /\ x[1] \in Peer /\ x[2] \in 1..Len(sent[x[1]])
        /\ x[2] \in DOMAIN sent[x[1]]
    BY <1>1, WireIs DEF OnWire
  <2>2. CASE x[2] \in Kept(x[1])
    <3>1. Accepts(x[1], x[2])
      <4>1. PICK t : Decrypt(st[Other(x[1])], sent[x[1]][x[2]]) = Ok(t)
        BY <2>1, <2>2, ReadKept
      <4> QED
        BY <2>1, <4>1 DEF Accepts, Ok
    <3> QED
      BY <2>1, <2>2, <3>1, KeptOrExpired
  <2>3. CASE x[2] \notin Kept(x[1])
    <3>1. CASE Past(x[1], x[2])
      <4>1. ~Accepts(x[1], x[2])
        BY <2>1, <2>3, <3>1, Arrival DEF Accepts
      <4> QED
        BY <2>1, <2>3, <3>1, <4>1, KeptOrExpired
    <3>2. CASE ~Past(x[1], x[2])
      <4>1. Accepts(x[1], x[2]) \/ OutOfReach(x[1], x[2])
        BY <2>1, <2>3, <3>2, Arrival DEF Accepts
      <4>2. ~Expired(x)
        BY <2>1, <3>2, KeptOrExpired DEF Expired
      <4> QED
        BY <4>1, <4>2
    <3> QED
      BY <3>1, <3>2
  <2> QED
    BY <2>2, <2>3
<1> QED
  BY <1>1 DEF Readable, ExpiredUnreadable

\* A set with another element for each number of an interval has as many.
LEMMA AtLeast ==
  ASSUME NEW lo \in Int, NEW hi \in Int, NEW T, IsFiniteSet(T), NEW f \in [lo..hi -> T],
         \A k, l \in lo..hi : f[k] = f[l] => k = l
  PROVE  Cardinality(T) >= hi - lo + 1
<1>1. f \in Injection(lo..hi, T)
  BY DEF Injection, IsInjective
<1>2. Cardinality(lo..hi) <= Cardinality(T)
  BY <1>1, FS_Injection
<1>3. Cardinality(lo..hi) = IF lo > hi THEN 0 ELSE hi - lo + 1
  BY FS_Interval
<1>4. Cardinality(T) \in Nat
  BY FS_CardinalityType
<1> QED
  BY <1>2, <1>3, <1>4

\* The messages before the i-th that were not read.
Unread(p, i) == {j \in 1..i - 1 : <<p, j>> \notin accepted}

\* The places of a chain that the receiver is not past are those of unread messages.
LEMMA UnreadOfChain ==
  ASSUME RatchetInv, NEW p \in Peer, NEW i \in 1..Len(sent[p]), NEW c, NEW lo \in Nat, NEW n \in Nat,
         NoGap(p, i, c, n),
         \A j \in 1..i - 1 : TurnOf(p, j) = c /\ Place(p, j) >= lo => ~Past(p, j)
  PROVE  Cardinality(Unread(p, i)) \in Nat /\ Cardinality(Unread(p, i)) >= n - lo
<1> DEFINE At(k) == CHOOSE j \in 1..i - 1 : TurnOf(p, j) = c /\ Place(p, j) = k
           f == [k \in lo..n - 1 |-> At(k)]
<1>1. ASSUME NEW k \in lo..n - 1
      PROVE  At(k) \in Unread(p, i) /\ Place(p, At(k)) = k
  <2>1. k \in 0..n - 1 /\ k >= lo
    OBVIOUS
  <2>2. \E j \in 1..i - 1 : TurnOf(p, j) = c /\ Place(p, j) = k
    BY <2>1 DEF NoGap
  <2>3. At(k) \in 1..i - 1 /\ TurnOf(p, At(k)) = c /\ Place(p, At(k)) = k
    BY <2>2
  <2> HIDE DEF At
  <2>4. ~Past(p, At(k))
    BY <2>1, <2>3
  <2>5. <<p, At(k)>> \notin accepted
    <3>1. \A x \in accepted : Past(x[1], x[2])
      BY AcceptedIs
    <3> QED
      BY <2>4, <3>1
  <2> QED
    BY <2>3, <2>5 DEF Unread
<1>2. f \in [lo..n - 1 -> Unread(p, i)]
  BY <1>1
<1>3. \A k, l \in lo..n - 1 : f[k] = f[l] => k = l
  <2>1. \A k \in lo..n - 1 : Place(p, f[k]) = k
    BY <1>1
  <2> QED
    BY <2>1
<1>4. IsFiniteSet(Unread(p, i))
  <2>1. IsFiniteSet(1..i - 1)
    BY FS_Interval
  <2> QED
    BY <2>1, FS_Subset DEF Unread
<1>5. Cardinality(Unread(p, i)) \in Nat
  BY <1>4, FS_CardinalityType
<1> HIDE DEF f
<1>6. Cardinality(Unread(p, i)) >= (n - 1) - lo + 1
  BY <1>2, <1>3, <1>4, AtLeast
<1> QED
  BY <1>5, <1>6

\* More places than MAX_SKIP beyond the one the receiver is at.
LEMMA MoreThan ==
  ASSUME NEW unread \in Nat, NEW n \in Nat, NEW lo \in Nat, unread >= n - lo, lo + MaxSkip < n
  PROVE  unread > MaxSkip
BY RatchetConstants

\* Only more than MAX_SKIP unread messages put one out of reach.
LEMMA OutOfReachIsFar ==
  ASSUME RatchetInv, NEW p \in Peer, NEW i \in 1..Len(sent[p]), OutOfReach(p, i)
  PROVE  Cardinality(Unread(p, i)) > MaxSkip
<1> DEFINE s == st[Other(p)]
           m == sent[p][i]
           c == TurnOf(p, i)
           now == Now(Other(p))
<1>1. /\ m.dh \in Pub /\ m.dh[1] = p /\ m.pn \in Nat /\ m.n \in Nat /\ Place(p, i) = m.n
      /\ NoGap(p, i, c, m.n) /\ NoGap(p, i, c - 2, m.pn)
      /\ c = Turn(m.dh) /\ c \in Nat /\ c # 0 /\ c <= now + 1 /\ c # now
  BY OfMessage DEF Sound, Complete, Place, TurnOf
<1>2. /\ now \in Nat /\ s.nr \in Nat /\ (now = 0 => s.dhr = NoKey)
      /\ now # 0 => s.dhr \in Pub /\ s.dhr[1] = p /\ Turn(s.dhr) = now - 1
  BY OfReceiver
<1>3. \A j \in 1..i - 1 : TurnOf(p, j) \in Nat /\ Place(p, j) \in Nat
  <2>1. \A j \in 1..i - 1 : j \in 1..Len(sent[p])
    BY Fields
  <2> QED
    BY <2>1, OfMessage
<1>4. \A j \in 1..i - 1 :
        /\ TurnOf(p, j) = now - 1 /\ Place(p, j) >= s.nr => ~Past(p, j)
        /\ TurnOf(p, j) = now + 1 => ~Past(p, j)
  BY <1>2, <1>3 DEF Past, Before
<1>5. MaxSkip \in Nat
  BY RatchetConstants
<1>6. CASE s.dhr = m.dh
  <2>1. c = now - 1 /\ s.nr + MaxSkip < m.n
    BY <1>1, <1>2, <1>6, NoKeyIsNone DEF OutOfReach
  <2>2. \A j \in 1..i - 1 : TurnOf(p, j) = c /\ Place(p, j) >= s.nr => ~Past(p, j)
    BY <1>4, <2>1
  <2>3. Cardinality(Unread(p, i)) \in Nat /\ Cardinality(Unread(p, i)) >= m.n - s.nr
    BY <1>1, <1>2, <2>2, UnreadOfChain
  <2> QED
    BY <1>1, <1>2, <2>1, <2>3, MoreThan
<1>7. CASE s.dhr # m.dh
  <2>1. s.nr + MaxSkip < m.pn \/ MaxSkip < m.n
    BY <1>7 DEF OutOfReach
  <2>2. c = now + 1
    <3>1. CASE now = 0
      BY <1>1, <3>1
    <3>2. CASE now # 0
      <4>1. s.dhr[2] < m.dh[2]
        BY <1>2, <1>7, <3>2, NoKeyIsNone DEF OutOfReach
      <4>2. Turn(s.dhr) < Turn(m.dh)
        BY <1>1, <1>2, <3>2, <4>1, PairsGrow
      <4> QED
        BY <1>1, <1>2, <3>2, <4>2
    <3> QED
      BY <3>1, <3>2
  <2>3. CASE MaxSkip < m.n
    <3>1. \A j \in 1..i - 1 : TurnOf(p, j) = c /\ Place(p, j) >= 0 => ~Past(p, j)
      BY <1>4, <2>2
    <3>2. Cardinality(Unread(p, i)) \in Nat /\ Cardinality(Unread(p, i)) >= m.n - 0
      BY <1>1, <3>1, UnreadOfChain
    <3> QED
      BY <1>1, <1>5, <2>3, <3>2, MoreThan
  <2>4. CASE s.nr + MaxSkip < m.pn
    <3>1. \A j \in 1..i - 1 : TurnOf(p, j) = c - 2 /\ Place(p, j) >= s.nr => ~Past(p, j)
      BY <1>2, <1>4, <2>2
    <3>2. Cardinality(Unread(p, i)) \in Nat /\ Cardinality(Unread(p, i)) >= m.pn - s.nr
      BY <1>1, <1>2, <3>1, UnreadOfChain
    <3> QED
      BY <1>1, <1>2, <2>4, <3>2, MoreThan
  <2> QED
    BY <2>1, <2>3, <2>4
<1> QED
  BY <1>6, <1>7

\* What is neither readable nor expired is out of reach, which takes too many losses.
LEMMA FewLosses ==
  ASSUME RatchetInv
  PROVE  FewLossesHarmless
<1>1. ASSUME NEW x \in OnWire \ accepted, Cardinality(Unread(x[1], x[2])) <= MaxSkip
      PROVE  Accepts(x[1], x[2]) \/ Expired(x)
  <2>1. x \in OnWire /\ x[1] \in Peer /\ x[2] \in 1..Len(sent[x[1]])
    BY WireIs
  <2>2. Accepts(x[1], x[2]) \/ OutOfReach(x[1], x[2]) \/ Expired(x)
    BY InReachReadable DEF Readable
  <2>3. ASSUME OutOfReach(x[1], x[2])  PROVE FALSE
    <3>1. Cardinality(Unread(x[1], x[2])) > MaxSkip
      BY <2>1, <2>3, OutOfReachIsFar
    <3>2. IsFiniteSet(1..x[2] - 1)
      BY <2>1, FS_Interval
    <3>3. Cardinality(Unread(x[1], x[2])) \in Nat
      BY <3>2, FS_Subset, FS_CardinalityType DEF Unread
    <3> QED
      BY <1>1, <3>1, <3>3, RatchetConstants
  <2> QED
    BY <2>2, <2>3
<1> QED
  BY <1>1 DEF FewLossesHarmless, Unread

\* The keys that the state of a peer gives away, with the chains by number.
LEMMA GivesAway ==
  ASSUME RatchetInv, NEW p \in Peer, NEW c \in Nat, NEW n \in Nat,
         Derives(st[p], ChainAt(c, n))
  PROVE  \/ c = Now(p) /\ n >= st[p].ns
         \/ c = Now(p) - 1 /\ n >= st[p].nr
         \/ c = Now(p) + 1
         \/ \E k \in st[p].skipped : k.mk = ChainAt(c, n)
<1>1. /\ Own(p) /\ Now(p) \in Nat /\ st[p].ns \in Nat /\ st[p].nr \in Nat
      /\ st[p].rk = RootAt(Now(p))
  <2>1. Own(p) /\ st[p] \in State
    BY Fields DEF RatchetInv, KeysInv
  <2> QED
    BY <2>1 DEF Own, State
<1>2. ChainAt(c, n).root = RootAt(c) /\ ChainAt(c, n).step = n
  BY DEF ChainAt
<1>3. ASSUME NEW ck \in {st[p].cks, st[p].ckr} \ {NoKey}, RootAt(c) = ck.root, n >= ck.step
      PROVE  (c = Now(p) /\ n >= st[p].ns) \/ (c = Now(p) - 1 /\ n >= st[p].nr)
  <2>1. CASE ck = st[p].cks
    <3>1. ck = ChainAt(Now(p), st[p].ns)
      BY <1>1, <1>3, <2>1 DEF Own
    <3> QED
      BY <1>1, <1>3, <3>1, RootsDiffer DEF ChainAt
  <2>2. CASE ck = st[p].ckr
    <3>1. ck = ChainAt(Now(p) - 1, st[p].nr) /\ Now(p) - 1 \in Nat
      BY <1>1, <1>3, <2>2 DEF Own
    <3> QED
      BY <1>1, <1>3, <3>1, RootsDiffer DEF ChainAt
  <2> QED
    BY <1>3, <2>1, <2>2
<1>4. Len(RootAt(c)) = c /\ Len(st[p].rk) = Now(p)
  BY <1>1, NextRoot
<1> QED
  BY <1>2, <1>3, <1>4 DEF Derives

\* What a peer holds is ahead of what it sent and read, in chains of its own.
LEMMA KeysAreGone ==
  ASSUME RatchetInv
  PROVE  ForwardSecrecy
<1>1. ASSUME NEW q \in Peer, NEW k \in st[q].skipped
      PROVE  \E j \in Kept(Other(q)) :
               /\ Other(q) \in Peer /\ j \in 1..Len(sent[Other(q)])
               /\ k.mk = ChainAt(TurnOf(Other(q), j), Place(Other(q), j))
  <2>1. Other(q) \in Peer /\ Other(Other(q)) = q
    BY Fields
  <2>2. PICK j \in Kept(Other(q)) : k = KeyFor(Other(q), j)
    BY <1>1, <2>1 DEF RatchetInv, ReadInv, Read
  <2>3. j \in 1..Len(sent[Other(q)])
    BY DEF Kept
  <2>4. sent[Other(q)][j].mk = ChainAt(TurnOf(Other(q), j), Place(Other(q), j))
    BY <2>1, <2>3, OfMessage DEF Sound
  <2> QED
    BY <2>1, <2>2, <2>3, <2>4 DEF KeyFor, KeyAt
<1>2. ASSUME NEW p \in Peer, NEW i \in 1..Len(sent[p])
      PROVE  ~Derives(st[p], sent[p][i].mk)
  <2>1. /\ TurnOf(p, i) \in Nat /\ Place(p, i) \in Nat /\ Now(p) \in Nat /\ Sound(p, i)
        /\ TurnOf(p, i) # Now(p) - 1 /\ sent[p][i].dh \in Pub
        /\ sent[p][i].mk = ChainAt(TurnOf(p, i), Place(p, i)) /\ sent[p][i].dh[1] = p
    BY OfMessage DEF Sound
  <2>2. /\ TurnOf(p, i) <= Now(p) /\ (TurnOf(p, i) = Now(p) => Place(p, i) < st[p].ns)
        /\ st[p].ns \in Nat
    BY <2>1, Fields DEF Sound, State
  <2>3. ASSUME NEW k \in st[p].skipped, k.mk = ChainAt(TurnOf(p, i), Place(p, i))
        PROVE  FALSE
    <3>1. PICK j \in Kept(Other(p)) :
            /\ Other(p) \in Peer /\ j \in 1..Len(sent[Other(p)])
            /\ k.mk = ChainAt(TurnOf(Other(p), j), Place(Other(p), j))
      BY <1>1
    <3>2. /\ TurnOf(Other(p), j) \in Nat /\ Place(Other(p), j) \in Nat
          /\ sent[Other(p)][j].dh \in Pub /\ sent[Other(p)][j].dh[1] = Other(p)
      BY <3>1, OfMessage DEF Sound
    <3>3. TurnOf(Other(p), j) = TurnOf(p, i)
      <4>1. ChainAt(TurnOf(Other(p), j), Place(Other(p), j)) = ChainAt(TurnOf(p, i), Place(p, i))
        BY <2>3, <3>1
      <4> QED
        BY <2>1, <3>2, <4>1, ChainNames
    <3>4. Other(p) # p
      BY Fields
    <3> QED
      BY <2>1, <3>2, <3>3, <3>4, TurnsDiffer DEF TurnOf
  <2> QED
    BY <2>1, <2>2, <2>3, GivesAway
<1>3. ASSUME NEW x \in accepted
      PROVE  ~Derives(st[Other(x[1])], sent[x[1]][x[2]].mk)
  <2>1. /\ x[1] \in Peer /\ x[2] \in 1..Len(sent[x[1]]) /\ Past(x[1], x[2])
        /\ x[2] \notin Kept(x[1]) /\ Other(x[1]) \in Peer /\ Other(Other(x[1])) = x[1]
    BY AcceptedIs, Fields
  <2>2. PICK p \in Peer, i \in 1..Len(sent[x[1]]) : p = x[1] /\ i = x[2]
    BY <2>1
  <2>3. /\ TurnOf(p, i) \in Nat /\ Place(p, i) \in Nat /\ Now(Other(p)) \in Nat
        /\ TurnOf(p, i) # Now(Other(p))
        /\ sent[p][i].mk = ChainAt(TurnOf(p, i), Place(p, i))
    <3>1. i \in 1..Len(sent[p])
      BY <2>2
    <3> QED
      BY <3>1, OfMessage DEF Sound
  <2>4. /\ TurnOf(p, i) <= Now(Other(p)) - 1
        /\ TurnOf(p, i) = Now(Other(p)) - 1 => Place(p, i) < st[Other(p)].nr
        /\ st[Other(p)].nr \in Nat
    BY <2>1, <2>2, <2>3, OfReceiver DEF Past, Before
  <2>5. ASSUME NEW k \in st[Other(p)].skipped, k.mk = ChainAt(TurnOf(p, i), Place(p, i))
        PROVE  FALSE
    <3>1. PICK j \in Kept(p) :
            j \in 1..Len(sent[p]) /\ k.mk = ChainAt(TurnOf(p, j), Place(p, j))
      BY <1>1, <2>1, <2>2
    <3>2. TurnOf(p, j) \in Nat /\ Place(p, j) \in Nat
      BY <3>1, OfMessage
    <3>3. TurnOf(p, j) = TurnOf(p, i) /\ Place(p, j) = Place(p, i)
      <4>1. ChainAt(TurnOf(p, j), Place(p, j)) = ChainAt(TurnOf(p, i), Place(p, i))
        BY <2>5, <3>1
      <4> QED
        BY <2>3, <3>2, <4>1, ChainNames
    <3> QED
      BY <2>1, <2>2, <3>1, <3>3, InOrder
  <2>6. ~Derives(st[Other(p)], ChainAt(TurnOf(p, i), Place(p, i)))
    BY <2>1, <2>2, <2>3, <2>4, <2>5, GivesAway
  <2> QED
    BY <2>2, <2>3, <2>6
<1>4. \A x \in OnWire : x[1] \in Peer /\ x[2] \in 1..Len(sent[x[1]])
  BY WireIs
<1> QED
  BY <1>2, <1>3, <1>4 DEF ForwardSecrecy

-----------------------------------------------------------------------------
(* The steps keep the invariant.                                           *)

\* With the same messages on the wire, what is said of them stays.
LEMMA SameWire ==
  ASSUME NEW p, sent'[p] = sent[p]
  PROVE  /\ \A i : TurnOf(p, i)' = TurnOf(p, i) /\ Place(p, i)' = Place(p, i)
         /\ \A i, c, n : Before(p, i, c, n)' <=> Before(p, i, c, n)
         /\ \A i, c, n : NoGap(p, i, c, n)' <=> NoGap(p, i, c, n)
         /\ \A i : Complete(p, i)' <=> Complete(p, i)
         /\ \A i, t : KeyAt(p, i, t)' = KeyAt(p, i, t)
<1>1. \A i : TurnOf(p, i)' = TurnOf(p, i) /\ Place(p, i)' = Place(p, i)
  BY DEF TurnOf, Place
<1>2. \A i, c, n : Before(p, i, c, n)' <=> Before(p, i, c, n)
  BY <1>1 DEF Before
<1>3. \A i, c, n : NoGap(p, i, c, n)' <=> NoGap(p, i, c, n)
  BY <1>1 DEF NoGap
<1>4. \A i : Complete(p, i)' <=> Complete(p, i)
  BY <1>1, <1>3 DEF Complete
<1>5. \A i, t : KeyAt(p, i, t)' = KeyAt(p, i, t)
  BY DEF KeyAt
<1> QED
  BY <1>1, <1>2, <1>3, <1>4, <1>5

\* A peer's log is in order as long as its sending side stays.
LEMMA LogStays ==
  ASSUME NEW p \in Peer, Log(p), sent'[p] = sent[p],
         st'[p].dhs = st[p].dhs, st'[p].ns = st[p].ns, st'[p].pn = st[p].pn
  PROVE  Log(p)'
<1>1. Now(p)' = Now(p)
  BY DEF Now
<1>2. ASSUME NEW i, Sound(p, i)  PROVE Sound(p, i)'
  <2>1. \A j : TurnOf(p, j)' = TurnOf(p, j) /\ Place(p, j)' = Place(p, j)
    BY SameWire
  <2>2. (sent[p][i].dh[1] = p /\ TurnOf(p, i) \in 1..Now(p))'
    BY <1>1, <1>2, <2>1 DEF Sound
  <2>3. (sent[p][i].mk = ChainAt(TurnOf(p, i), Place(p, i)))'
    BY <1>2, <2>1 DEF Sound
  <2>4. (TurnOf(p, i) = Now(p) => Place(p, i) < st[p].ns /\ sent[p][i].pn = st[p].pn)'
    BY <1>1, <1>2, <2>1 DEF Sound
  <2>5. (TurnOf(p, i) = Now(p) - 2 => Place(p, i) < st[p].pn)'
    BY <1>1, <1>2, <2>1 DEF Sound
  <2>6. (\A j \in 1..Len(sent[p]) : TurnOf(p, j) = TurnOf(p, i) - 2 => Place(p, j) < sent[p][i].pn)'
    BY <1>2, <2>1 DEF Sound
  <2>7. (\A j \in 1..i - 1 : Before(p, j, TurnOf(p, i), Place(p, i)))'
    BY <1>2, <2>1 DEF Sound, Before
  <2> QED
    BY <2>2, <2>3, <2>4, <2>5, <2>6, <2>7 DEF Sound
<1> QED
  BY <1>1, <1>2, SameWire DEF Log

\* What a peer holds stays right as long as no key changes.
LEMMA OwnStays ==
  ASSUME NEW p \in Peer, Own(p), SameSending(st[p], st'[p]), st'[p].dhr = st[p].dhr,
         st'[p].nr = st[p].nr, st'[p].ckr = st[p].ckr
  PROVE  Own(p)'
<1>1. Now(p)' = Now(p)
  BY DEF Now, SameSending
<1> QED
  BY <1>1 DEF Own, SameSending

\* What was read stays as it was while nothing arrives from that peer.
LEMMA ReadStays ==
  ASSUME NEW p \in Peer, Read(p), sent'[p] = sent[p],
         st'[Other(p)].dhs = st[Other(p)].dhs, st'[Other(p)].nr = st[Other(p)].nr,
         st'[Other(p)].total = st[Other(p)].total,
         st'[Other(p)].skipped = st[Other(p)].skipped,
         \A i : <<p, i>> \in accepted' <=> <<p, i>> \in accepted,
         \A i \in 1..MaxSends : passed'[<<p, i>>] = passed[<<p, i>>],
         Len(sent[p]) \in 0..MaxSends
  PROVE  Read(p)'
<1>1. Now(Other(p))' = Now(Other(p))
  BY DEF Now
<1>2. \A i : Past(p, i)' <=> Past(p, i)
  BY <1>1, SameWire DEF Past
<1>3. \A i \in 1..MaxSends : Noted(p, i)' <=> Noted(p, i)
  BY DEF Noted
<1>4. \A i \in 1..Len(sent[p]) : i \in 1..MaxSends
  BY RatchetConstants
<1>5. Kept(p)' = Kept(p)
  BY <1>4 DEF Kept
<1>6. \A i \in Kept(p) : KeyFor(p, i)' = KeyFor(p, i)
  BY <1>4, SameWire DEF KeyFor, Kept
<1>7. {KeyFor(p, i) : i \in Kept(p)}' = {KeyFor(p, i) : i \in Kept(p)}
  BY <1>5, <1>6
<1> QED
  BY <1>2, <1>3, <1>4, <1>7 DEF Read

\* The history of what was overtaken.
Noting(p, i) ==
  [x \in DOMAIN passed |->
     IF x[1] = p /\ x[2] < i /\ x \notin accepted /\ passed[x] = NoKey
     THEN st[Other(p)].total ELSE passed[x]]

\* A message was read and the receiver keeps the state t.
Reads(p, i, t) ==
  /\ i \in 1..Len(sent[p]) /\ t \in State /\ sent' = sent
  /\ st' = [st EXCEPT ![Other(p)] = t] /\ accepted' = accepted \cup {<<p, i>>}
  /\ passed' = Noting(p, i)
  /\ \/ i \in Kept(p) /\ t = Received(TakeSkipped(st[Other(p)], KeyFor(p, i)))
     \/ i \notin Kept(p) /\ ~Past(p, i) /\ Advances(p, i, t)

\* An arrival changes nothing, or the message is read.
LEMMA DeliverIs ==
  ASSUME RatchetInv, NEW p \in Peer, NEW i \in 1..MaxSends, Deliver(p, i)
  PROVE  UNCHANGED vars \/ \E t \in State : Reads(p, i, t)
<1>1. i \in 1..Len(sent[p]) /\ sent' = sent
  BY Fields DEF Deliver
<1>2. PICK d : /\ d = Decrypt(st[Other(p)], sent[p][i])
               /\ st' = [st EXCEPT ![Other(p)] = Stored(@, d)]
               /\ accepted' = IF d.ok THEN accepted \cup {<<p, i>>} ELSE accepted
               /\ passed' = [x \in DOMAIN passed |->
                    IF d.ok /\ x[1] = p /\ x[2] < i /\ x \notin accepted /\ passed[x] = NoKey
                    THEN st[Other(p)].total ELSE passed[x]]
  BY DEF Deliver
<1>3. Other(p) \in Peer /\ st \in [Peer -> State] /\ passed = [x \in DOMAIN passed |-> passed[x]]
  BY Fields DEF RatchetInv, Shape, TypeOK
<1>4. CASE ~d.ok
  <2>1. st' = st
    BY <1>2, <1>3, <1>4 DEF Stored
  <2>2. passed' = passed
    BY <1>2, <1>3, <1>4
  <2> QED
    BY <1>1, <1>2, <1>4, <2>1, <2>2 DEF vars
<1>5. CASE d.ok
  <2>1. PICK t \in State :
          /\ d = Ok(t)
          /\ \/ i \in Kept(p) /\ t = Received(TakeSkipped(st[Other(p)], KeyFor(p, i)))
             \/ i \notin Kept(p) /\ ~Past(p, i) /\ Advances(p, i, t)
    <3>1. CASE i \in Kept(p)
      <4>1. TakeSkipped(st[Other(p)], KeyFor(p, i)) \in State
        BY <1>3 DEF TakeSkipped, State
      <4> QED
        BY <1>2, <3>1, <4>1, ReadKept, ReceivedIs
    <3>2. CASE i \notin Kept(p)
      BY <1>1, <1>2, <1>5, <3>2, Arrival
    <3> QED
      BY <3>1, <3>2
  <2>2. d.s = t
    BY <2>1 DEF Ok
  <2>3. st' = [st EXCEPT ![Other(p)] = t]
    BY <1>2, <1>5, <2>2 DEF Stored
  <2>4. passed' = Noting(p, i)
    BY <1>2, <1>5 DEF Noting
  <2> QED
    BY <1>1, <1>2, <1>5, <2>1, <2>3, <2>4 DEF Reads
<1> QED
  BY <1>4, <1>5

\* What a receipt changes.
LEMMA ReceiptIs ==
  ASSUME RatchetInv, NEW p \in Peer, NEW i, NEW t, Reads(p, i, t)
  PROVE  /\ i \in 1..Len(sent[p]) /\ i \in 1..MaxSends /\ t \in State
         /\ st'[Other(p)] = t /\ st'[p] = st[p] /\ t.total = st[Other(p)].total + 1
         /\ \/ /\ i \in Kept(p) /\ SameSending(st[Other(p)], t) /\ t.dhr = st[Other(p)].dhr
               /\ t.nr = st[Other(p)].nr /\ t.ckr = st[Other(p)].ckr
               /\ t.skipped = {k \in st[Other(p)].skipped \ {KeyFor(p, i)} :
                                 k.at + MaxAge >= st[Other(p)].total + 1}
            \/ i \notin Kept(p) /\ ~Past(p, i) /\ Advances(p, i, t)
<1>1. /\ Other(p) \in Peer /\ Other(p) # p /\ st \in [Peer -> State]
      /\ i \in 1..MaxSends /\ i \in 1..Len(sent[p]) /\ t \in State
  BY Fields DEF Reads, RatchetInv, Shape, TypeOK
<1>2. st'[Other(p)] = t /\ st'[p] = st[p]
  BY <1>1 DEF Reads
<1>3. CASE i \in Kept(p)
  <2>1. PICK u : u = TakeSkipped(st[Other(p)], KeyFor(p, i))
    OBVIOUS
  <2>2. t = Received(u)
    BY <1>3, <2>1 DEF Reads
  <2>3. /\ u \in State /\ SameSending(st[Other(p)], u) /\ u.dhr = st[Other(p)].dhr
        /\ u.nr = st[Other(p)].nr /\ u.ckr = st[Other(p)].ckr /\ u.total = st[Other(p)].total
        /\ u.skipped = st[Other(p)].skipped \ {KeyFor(p, i)}
    <3>1. st[Other(p)] \in State
      BY <1>1
    <3> QED
      BY <2>1, <3>1 DEF TakeSkipped, State, SameSending
  <2> QED
    BY <1>1, <1>2, <1>3, <2>2, <2>3, ReceivedIs DEF SameSending
<1>4. CASE i \notin Kept(p)
  BY <1>1, <1>2, <1>4 DEF Reads, Advances
<1> QED
  BY <1>3, <1>4

\* A receipt keeps the types.
LEMMA ReadsShape ==
  ASSUME RatchetInv, NEW p \in Peer, NEW i, NEW t, Reads(p, i, t)
  PROVE  Shape'
<1>1. /\ Other(p) \in Peer /\ st \in [Peer -> State] /\ t \in State /\ i \in 1..MaxSends
      /\ st[Other(p)].total \in Nat
      /\ accepted \subseteq Peer \X (1..MaxSends)
      /\ passed \in [Peer \X (1..MaxSends) -> Nat \cup {NoKey}]
  BY ReceiptIs, Fields, OfReceiver DEF RatchetInv, Shape, TypeOK
<1>2. st' \in [Peer -> State]
  BY <1>1 DEF Reads
<1>3. accepted' \subseteq Peer \X (1..MaxSends)
  BY <1>1 DEF Reads
<1>4. passed' \in [Peer \X (1..MaxSends) -> Nat \cup {NoKey}]
  BY <1>1 DEF Reads, Noting
<1> QED
  BY <1>2, <1>3, <1>4 DEF Reads, RatchetInv, Shape, TypeOK

\* The receiver's keys after a message was read from its chains.
LEMMA AdvanceOwn ==
  ASSUME RatchetInv, NEW p \in Peer, NEW i \in 1..Len(sent[p]), NEW t \in State,
         Advances(p, i, t), st'[Other(p)] = t
  PROVE  Own(Other(p))'
<1>1. /\ sent[p][i].dh \in Pub /\ Place(p, i) \in Nat /\ TurnOf(p, i) \in Nat
      /\ TurnOf(p, i) # 0 /\ sent[p][i].dh[1] = p /\ Turn(sent[p][i].dh) = TurnOf(p, i)
  BY OfMessage DEF Sound, TurnOf
<1>2. /\ Other(p) \in Peer /\ Other(Other(p)) = p /\ Own(Other(p)) /\ Now(Other(p)) \in Nat
      /\ st[Other(p)].dhs[1] = Other(p)
  BY Fields, OfReceiver DEF RatchetInv, KeysInv
<1>3. /\ t.dhr = sent[p][i].dh /\ t.nr = Place(p, i) + 1
      /\ t.ckr = ChainAt(TurnOf(p, i), Place(p, i) + 1)
  BY DEF Advances
<1>4. CASE TurnOf(p, i) = Now(Other(p)) - 1 /\ SameSending(st[Other(p)], t)
  <2>1. /\ Now(Other(p))' = Now(Other(p)) /\ Now(Other(p)) > 1
        /\ t.rk = st[Other(p)].rk /\ t.cks = st[Other(p)].cks /\ t.ns = st[Other(p)].ns
        /\ t.dhs = st[Other(p)].dhs
    BY <1>1, <1>2, <1>4 DEF Now, SameSending
  <2> QED
    BY <1>1, <1>2, <1>3, <1>4, <2>1 DEF Own
<1>5. CASE /\ TurnOf(p, i) = Now(Other(p)) + 1
           /\ t.dhs \in Pub /\ t.dhs[1] = Other(p) /\ Turn(t.dhs) = Now(Other(p)) + 2
           /\ t.rk = RootAt(Now(Other(p)) + 2) /\ t.cks = ChainAt(Now(Other(p)) + 2, 0)
           /\ t.ns = 0 /\ t.pn = st[Other(p)].ns
  <2>1. PICK n \in Nat : n = Now(Other(p))
    BY <1>2
  <2>2. Now(Other(p))' = n + 2
    BY <1>5, <2>1 DEF Now
  <2> QED
    BY <1>1, <1>2, <1>3, <1>5, <2>1, <2>2 DEF Own
<1> QED
  BY <1>4, <1>5 DEF Advances

\* A receipt keeps the peers in turn.
LEMMA ReadsKeys ==
  ASSUME RatchetInv, NEW p \in Peer, NEW i, NEW t, Reads(p, i, t)
  PROVE  KeysInv'
<1>1. /\ i \in 1..Len(sent[p]) /\ t \in State /\ st'[Other(p)] = t /\ st'[p] = st[p]
      /\ \/ /\ i \in Kept(p) /\ SameSending(st[Other(p)], t) /\ t.dhr = st[Other(p)].dhr
            /\ t.nr = st[Other(p)].nr /\ t.ckr = st[Other(p)].ckr
         \/ i \notin Kept(p) /\ ~Past(p, i) /\ Advances(p, i, t)
  BY ReceiptIs
<1>2. /\ Other(p) \in Peer /\ Other(Other(p)) = p /\ \A q \in Peer : q = p \/ q = Other(p)
      /\ Own(p) /\ Own(Other(p)) /\ Beside(p) /\ Beside(Other(p))
      /\ Now(p) \in Nat /\ Now(Other(p)) \in Nat /\ st[p].ns \in Nat
  BY Fields, OfReceiver DEF RatchetInv, KeysInv, Peer, Other, Own, State
<1>3. Now(p)' = Now(p)
  BY <1>1 DEF Now
<1>4. Own(p)'
  BY <1>1, <1>2, <1>3 DEF Own
<1>5. CASE i \in Kept(p)
  <2>1. Own(Other(p))'
    BY <1>1, <1>2, <1>5, OwnStays
  <2>2. Now(Other(p))' = Now(Other(p)) /\ t.nr = st[Other(p)].nr /\ t.ns = st[Other(p)].ns
    BY <1>1, <1>5 DEF Now, SameSending
  <2>3. Beside(p)' /\ Beside(Other(p))'
    BY <1>1, <1>2, <1>3, <2>2 DEF Beside
  <2> QED
    BY <1>2, <1>4, <2>1, <2>3 DEF KeysInv
<1>6. CASE i \notin Kept(p)
  <2>1. Own(Other(p))'
    BY <1>1, <1>6, AdvanceOwn
  <2>2. /\ TurnOf(p, i) \in Nat /\ Place(p, i) \in Nat /\ TurnOf(p, i) <= Now(p)
        /\ TurnOf(p, i) = Now(p) => Place(p, i) < st[p].ns
    BY <1>1, OfMessage DEF Sound
  <2>3. t.nr = Place(p, i) + 1
    BY <1>1, <1>6 DEF Advances
  <2>4. CASE TurnOf(p, i) = Now(Other(p)) - 1 /\ SameSending(st[Other(p)], t)
    <3>1. Now(Other(p))' = Now(Other(p)) /\ t.ns = st[Other(p)].ns
      BY <1>1, <2>4 DEF Now, SameSending
    <3>2. Beside(p)' /\ Beside(Other(p))'
      BY <1>1, <1>2, <1>3, <2>2, <2>3, <2>4, <3>1 DEF Beside
    <3> QED
      BY <1>2, <1>4, <2>1, <3>2 DEF KeysInv
  <2>5. CASE TurnOf(p, i) = Now(Other(p)) + 1 /\ Turn(t.dhs) = Now(Other(p)) + 2
    <3>1. Now(Other(p))' = Now(Other(p)) + 2
      BY <1>1, <2>5 DEF Now
    <3>2. Beside(p)' /\ Beside(Other(p))'
      BY <1>1, <1>2, <1>3, <2>2, <2>3, <2>5, <3>1 DEF Beside
    <3> QED
      BY <1>2, <1>4, <2>1, <3>2 DEF KeysInv
  <2> QED
    BY <1>1, <1>6, <2>4, <2>5 DEF Advances
<1> QED
  BY <1>5, <1>6

\* A receipt keeps both logs in order: a turn closes the receiver's own chain.
LEMMA ReadsSent ==
  ASSUME RatchetInv, NEW p \in Peer, NEW i, NEW t, Reads(p, i, t)
  PROVE  SentInv'
<1>1. /\ i \in 1..Len(sent[p]) /\ t \in State /\ st'[Other(p)] = t /\ st'[p] = st[p]
      /\ sent' = sent /\ (SameSending(st[Other(p)], t) \/ Advances(p, i, t))
  BY ReceiptIs DEF Reads
<1>2. /\ Other(p) \in Peer /\ \A q \in Peer : q = p \/ q = Other(p)
      /\ Log(p) /\ Log(Other(p)) /\ Now(Other(p)) \in Nat
  BY Fields, OfReceiver DEF RatchetInv, SentInv, Peer, Other
<1>3. Log(p)'
  BY <1>1, <1>2, LogStays
<1>4. CASE SameSending(st[Other(p)], t)
  <2>1. Log(Other(p))'
    BY <1>1, <1>2, <1>4, LogStays DEF SameSending
  <2> QED
    BY <1>2, <1>3, <2>1 DEF SentInv
<1>5. CASE /\ Turn(t.dhs) = Now(Other(p)) + 2 /\ t.ns = 0 /\ t.pn = st[Other(p)].ns
  <2>1. PICK q \in Peer : q = Other(p)
    BY <1>2
  <2>2. Now(q)' = Now(q) + 2 /\ Now(q) \in Nat /\ Log(q) /\ st'[q].ns = 0 /\ st'[q].pn = st[q].ns
    BY <1>1, <1>2, <1>5, <2>1 DEF Now
  <2>3. \A j : TurnOf(q, j)' = TurnOf(q, j) /\ Place(q, j)' = Place(q, j)
    BY <1>1, SameWire
  <2>4. ASSUME NEW j \in 1..Len(sent[q])  PROVE Sound(q, j)'
    <3>1. Sound(q, j) /\ TurnOf(q, j) \in Nat /\ Place(q, j) \in Nat
      BY OfMessage
    <3>2. (sent[q][j].dh[1] = q /\ TurnOf(q, j) \in 1..Now(q))'
      BY <1>1, <2>2, <2>3, <3>1 DEF Sound
    <3>3. (sent[q][j].mk = ChainAt(TurnOf(q, j), Place(q, j)))'
      BY <1>1, <2>3, <3>1 DEF Sound
    <3>4. (TurnOf(q, j) = Now(q) => Place(q, j) < st[q].ns /\ sent[q][j].pn = st[q].pn)'
      BY <2>2, <2>3, <3>1 DEF Sound
    <3>5. (TurnOf(q, j) = Now(q) - 2 => Place(q, j) < st[q].pn)'
      BY <2>2, <2>3, <3>1 DEF Sound
    <3>6. (\A k \in 1..Len(sent[q]) :
             TurnOf(q, k) = TurnOf(q, j) - 2 => Place(q, k) < sent[q][j].pn)'
      BY <1>1, <2>3, <3>1 DEF Sound
    <3>7. (\A k \in 1..j - 1 : Before(q, k, TurnOf(q, j), Place(q, j)))'
      BY <1>1, <2>3, <3>1 DEF Sound, Before
    <3> QED
      BY <3>2, <3>3, <3>4, <3>5, <3>6, <3>7 DEF Sound
  <2>5. \A j \in 1..Len(sent[q]) : Complete(q, j)'
    BY <1>1, <2>2, SameWire DEF Log
  <2>6. NoGap(q, Len(sent[q]) + 1, Now(q), st[q].ns)'
    BY <2>2 DEF NoGap
  <2>7. NoGap(q, Len(sent[q]) + 1, Now(q) - 2, st[q].pn)'
    <3>1. NoGap(q, Len(sent[q]) + 1, Now(q), st[q].ns)
      BY <2>2 DEF Log
    <3> QED
      BY <1>1, <2>2, <2>3, <3>1 DEF NoGap
  <2>8. Log(q)'
    BY <1>1, <2>4, <2>5, <2>6, <2>7 DEF Log
  <2> QED
    BY <1>2, <1>3, <2>1, <2>8 DEF SentInv
<1> QED
  BY <1>1, <1>4, <1>5 DEF Advances

\* The history entries of p after a receipt.
LEMMA NotingIs ==
  ASSUME RatchetInv, NEW p \in Peer, NEW i, NEW t, Reads(p, i, t), NEW j \in 1..MaxSends
  PROVE  /\ passed'[<<p, j>>]
              = IF j < i /\ ~Noted(p, j) THEN st[Other(p)].total ELSE passed[<<p, j>>]
         /\ passed'[<<Other(p), j>>] = passed[<<Other(p), j>>]
         /\ <<p, j>> \in accepted' <=> j = i \/ <<p, j>> \in accepted
         /\ <<Other(p), j>> \in accepted' <=> <<Other(p), j>> \in accepted
         /\ Noted(p, j)' <=> j <= i \/ Noted(p, j)
<1>1. /\ <<p, j>> \in DOMAIN passed /\ <<Other(p), j>> \in DOMAIN passed /\ Other(p) # p
      /\ st[Other(p)].total \in Nat /\ st[Other(p)].total # NoKey /\ i \in Nat /\ j \in Nat
  BY Fields, OfReceiver, ReceiptIs, NoKeyIsNone
<1>2. passed'[<<p, j>>] = IF j < i /\ ~Noted(p, j) THEN st[Other(p)].total ELSE passed[<<p, j>>]
  BY <1>1 DEF Reads, Noting, Noted
<1>3. passed'[<<Other(p), j>>] = passed[<<Other(p), j>>]
  BY <1>1 DEF Reads, Noting
<1>4. <<p, j>> \in accepted' <=> j = i \/ <<p, j>> \in accepted
  BY DEF Reads
<1>5. <<Other(p), j>> \in accepted' <=> <<Other(p), j>> \in accepted
  BY <1>1 DEF Reads
<1>6. Noted(p, j)' <=> j <= i \/ Noted(p, j)
  <2>1. CASE j < i /\ ~Noted(p, j)
    BY <1>1, <1>2, <1>4, <2>1 DEF Noted
  <2>2. CASE ~(j < i /\ ~Noted(p, j))
    <3>1. Noted(p, j)' <=> j = i \/ Noted(p, j)
      BY <1>2, <1>4, <2>2 DEF Noted
    <3> QED
      BY <1>1, <2>2, <3>1
  <2> QED
    BY <2>1, <2>2
<1> QED
  BY <1>2, <1>3, <1>4, <1>5, <1>6

\* What is known of the messages of p that were read or overtaken.
LEMMA NotedIs ==
  ASSUME RatchetInv, NEW p \in Peer
  PROVE  /\ \A j \in 1..MaxSends : Noted(p, j) => j \in 1..Len(sent[p]) /\ Past(p, j)
         /\ \A j \in 1..Len(sent[p]) : j \in 1..MaxSends /\ (Past(p, j) <=> Noted(p, j))
         /\ \A j \in 1..MaxSends : passed[<<p, j>>] \in Nat \cup {NoKey}
         /\ st[Other(p)].skipped = {KeyFor(p, j) : j \in Kept(p)}
<1>1. Read(p) /\ Len(sent[p]) \in 0..MaxSends
  BY Fields DEF RatchetInv, ReadInv
<1>2. \A j \in 1..Len(sent[p]) : j \in 1..MaxSends
  BY <1>1, RatchetConstants
<1> QED
  BY <1>1, <1>2, Fields DEF Read

\* The key set aside was used: it is gone, and so are the expired ones.
LEMMA KeptRead ==
  ASSUME RatchetInv, NEW p \in Peer, NEW i \in Kept(p), NEW t, Reads(p, i, t)
  PROVE  Read(p)'
<1>1. /\ i \in 1..Len(sent[p]) /\ t \in State /\ st'[Other(p)] = t
      /\ t.total = st[Other(p)].total + 1 /\ SameSending(st[Other(p)], t)
      /\ t.nr = st[Other(p)].nr /\ sent' = sent
      /\ t.skipped = {k \in st[Other(p)].skipped \ {KeyFor(p, i)} :
                        k.at + MaxAge >= st[Other(p)].total + 1}
  BY ReceiptIs DEF Reads
<1>2. i \in Nat /\ Past(p, i) /\ Noted(p, i) /\ st[Other(p)].total \in Nat
  BY <1>1, NotedIs, OfReceiver DEF Kept, Noted
<1>3. \A j \in 1..Len(sent[p]) : j <= i => Noted(p, j)
  <2> TAKE j \in 1..Len(sent[p])
  <2>1. HAVE j <= i
  <2>2. j \in 1..i
    BY <1>2, <2>1
  <2> QED
    BY <1>1, <1>2, <2>2, PastDown, NotedIs
<1>4. \A j \in 1..MaxSends : /\ passed'[<<p, j>>] = passed[<<p, j>>]
                             /\ Noted(p, j)' <=> Noted(p, j)
  <2> TAKE j \in 1..MaxSends
  <2>1. j <= i => j \in 1..Len(sent[p])
    BY <1>1, <1>2
  <2>2. j <= i => Noted(p, j)
    BY <1>3, <2>1
  <2>3. /\ passed'[<<p, j>>]
             = IF j < i /\ ~Noted(p, j) THEN st[Other(p)].total ELSE passed[<<p, j>>]
        /\ Noted(p, j)' <=> j <= i \/ Noted(p, j)
    BY NotingIs
  <2> QED
    BY <1>2, <2>2, <2>3
<1>5. \A j : Past(p, j)' <=> Past(p, j)
  <2>1. Now(Other(p))' = Now(Other(p))
    BY <1>1 DEF Now, SameSending
  <2>2. \A j : TurnOf(p, j)' = TurnOf(p, j) /\ Place(p, j)' = Place(p, j)
    BY <1>1, SameWire
  <2> QED
    BY <1>1, <2>1, <2>2 DEF Past, Before
<1>6. Kept(p)' = {j \in Kept(p) \ {i} : passed[<<p, j>>] + MaxAge >= st[Other(p)].total + 1}
  <2>1. \A j \in 1..Len(sent[p]) : /\ j \in 1..MaxSends
                                   /\ passed[<<p, j>>] \in Nat \cup {NoKey}
                                   /\ <<p, j>> \in accepted' <=> j = i \/ <<p, j>> \in accepted
    BY NotedIs, NotingIs
  <2>2. \A j \in 1..Len(sent[p]) :
          passed[<<p, j>>] # NoKey /\ passed[<<p, j>>] + MaxAge >= st[Other(p)].total + 1
            => passed[<<p, j>>] + MaxAge >= st[Other(p)].total
    BY <1>2, <2>1, RatchetConstants
  <2> QED
    BY <1>1, <1>4, <2>1, <2>2 DEF Kept
<1>7. \A j \in Kept(p) : /\ KeyFor(p, j)' = KeyFor(p, j) /\ KeyFor(p, j).at = passed[<<p, j>>]
                         /\ KeyFor(p, j) = KeyFor(p, i) => j = i
  <2> TAKE j \in Kept(p)
  <2>1. j \in 1..Len(sent[p]) /\ j \in 1..MaxSends
    BY NotedIs DEF Kept
  <2>2. KeyFor(p, j)' = KeyFor(p, j)
    BY <1>1, <1>4, <2>1 DEF KeyFor, KeyAt
  <2> QED
    BY <1>1, <2>1, <2>2, KeyNames DEF KeyFor, KeyAt
<1>8. st[Other(p)].skipped = {KeyFor(p, j) : j \in Kept(p)}
  BY NotedIs
<1>9. t.skipped = {KeyFor(p, j) : j \in Kept(p)}'
  <2>1. PICK K : K = {j \in Kept(p) \ {i} : passed[<<p, j>>] + MaxAge >= st[Other(p)].total + 1}
    OBVIOUS
  <2>2. \A j \in K : j \in Kept(p)
    BY <2>1
  <2>3. {KeyFor(p, j) : j \in Kept(p)}' = {KeyFor(p, j) : j \in K}
    BY <1>6, <1>7, <2>1, <2>2
  <2>4. t.skipped = {KeyFor(p, j) : j \in K}
    <3>1. \A k \in t.skipped : \E j \in K : k = KeyFor(p, j)
      BY <1>1, <1>7, <1>8, <2>1
    <3>2. \A j \in K : KeyFor(p, j) \in t.skipped
      BY <1>1, <1>7, <1>8, <2>1
    <3> QED
      BY <3>1, <3>2
  <2> QED
    BY <2>3, <2>4
<1>10. (\A j \in 1..MaxSends : Noted(p, j) => j <= Len(sent[p]) /\ Past(p, j))'
  <2>1. \A j \in 1..MaxSends : Noted(p, j) => j <= Len(sent[p]) /\ Past(p, j)
    BY Fields, NotedIs
  <2> QED
    BY <1>1, <1>4, <1>5, <2>1
<1>11. (\A j \in 1..Len(sent[p]) : Past(p, j) => Noted(p, j))'
  BY <1>1, <1>4, <1>5, NotedIs
<1> QED
  BY <1>1, <1>9, <1>10, <1>11 DEF Read

\* A message was read from the receiver's chains: what it overtook was noted, and
\* for those keys are set aside.
LEMMA AdvanceRead ==
  ASSUME RatchetInv, NEW p \in Peer, NEW i, NEW t, Reads(p, i, t), i \notin Kept(p)
  PROVE  Read(p)'
<1>1. /\ i \in 1..Len(sent[p]) /\ t \in State /\ st'[Other(p)] = t
      /\ t.total = st[Other(p)].total + 1 /\ ~Past(p, i) /\ sent' = sent
      /\ t.nr = Place(p, i) + 1 /\ Now(Other(p))' = TurnOf(p, i) + 1
      /\ t.skipped = {k \in st[Other(p)].skipped \cup Fresh(p, i) :
                        k.at + MaxAge >= st[Other(p)].total + 1}
  <2>1. /\ i \in 1..Len(sent[p]) /\ t \in State /\ st'[Other(p)] = t
        /\ t.total = st[Other(p)].total + 1 /\ ~Past(p, i) /\ sent' = sent
        /\ Advances(p, i, t)
    BY ReceiptIs DEF Reads
  <2>2. Now(Other(p)) \in Nat /\ TurnOf(p, i) \in Nat
    BY <2>1, OfMessage
  <2>3. Now(Other(p))' = TurnOf(p, i) + 1
    BY <2>1, <2>2 DEF Advances, Now, SameSending
  <2> QED
    BY <2>1, <2>3 DEF Advances
<1>2. /\ i \in Nat /\ TurnOf(p, i) \in Nat /\ Place(p, i) \in Nat /\ Len(sent[p]) \in Nat
      /\ st[Other(p)].total \in Nat /\ st[Other(p)].total # NoKey
  BY <1>1, OfMessage, OfReceiver, Fields, NoKeyIsNone
<1>3. ASSUME NEW j \in 1..Len(sent[p])  PROVE Past(p, j)' <=> j <= i
  <2>1. Past(p, j)' <=> Before(p, j, TurnOf(p, i), Place(p, i) + 1)
    <3>1. TurnOf(p, j)' = TurnOf(p, j) /\ Place(p, j)' = Place(p, j)
      BY <1>1, SameWire
    <3> QED
      BY <1>1, <1>2, <3>1 DEF Past, Before
  <2> QED
    BY <1>1, <2>1, InOrder
<1>4. \A j \in 1..Len(sent[p]) : Past(p, j) => j < i
  <2> TAKE j \in 1..Len(sent[p])
  <2>1. i <= j => i \in 1..j
    BY <1>1, <1>2
  <2>2. Past(p, j) => ~(i <= j)
    BY <1>1, <2>1, PastDown
  <2> QED
    BY <1>2, <2>2
<1>5. \A j \in 1..MaxSends : Noted(p, j)' <=> j <= i \/ Noted(p, j)
  BY NotingIs
<1>6. \A j \in 1..MaxSends : Noted(p, j) => j \in 1..Len(sent[p]) /\ j < i
  BY <1>4, NotedIs
<1>7. \A j \in 1..MaxSends : Noted(p, j)' <=> j <= i
  BY <1>2, <1>5, <1>6
<1>8. \A j \in 1..Len(sent[p]) : j \in 1..MaxSends
  BY NotedIs
<1>9. (\A j \in 1..MaxSends : Noted(p, j) => j <= Len(sent[p]) /\ Past(p, j))'
  <2>1. \A j \in 1..MaxSends : j <= i => j \in 1..Len(sent[p])
    BY <1>1, <1>2
  <2> QED
    BY <1>1, <1>2, <1>3, <1>7, <2>1
<1>10. (\A j \in 1..Len(sent[p]) : Past(p, j) => Noted(p, j))'
  BY <1>1, <1>3, <1>7, <1>8
<1>11. ASSUME NEW j \in Kept(p), passed[<<p, j>>] + MaxAge >= st[Other(p)].total + 1
       PROVE  j \in Kept(p)' /\ KeyFor(p, j)' = KeyFor(p, j)
  <2>1. j \in 1..Len(sent[p]) /\ j \in 1..MaxSends /\ j # i /\ Noted(p, j)
    BY <1>8 DEF Kept, Noted
  <2>2. passed'[<<p, j>>] = passed[<<p, j>>] /\ (<<p, j>> \in accepted' <=> <<p, j>> \in accepted)
    BY <2>1, NotingIs
  <2> QED
    BY <1>1, <1>11, <2>1, <2>2 DEF Kept, KeyFor, KeyAt
<1>12. ASSUME NEW j \in Skips(p, i)
       PROVE  j \in Kept(p)' /\ KeyFor(p, j)' = KeyAt(p, j, st[Other(p)].total)
  <2>1. j \in 1..Len(sent[p]) /\ j \in 1..MaxSends /\ j < i /\ ~Past(p, j)
    BY <1>1, <1>2, <1>8 DEF Skips
  <2>2. ~Noted(p, j)
    BY <2>1, NotedIs
  <2>3. passed'[<<p, j>>] = st[Other(p)].total /\ <<p, j>> \notin accepted'
    <3>1. <<p, j>> \notin accepted
      BY <2>2 DEF Noted
    <3>2. j # i
      BY <1>2, <2>1
    <3>3. j \in 1..MaxSends
      BY <2>1
    <3>4. passed'[<<p, j>>] = st[Other(p)].total
      BY <2>1, <2>2, <3>3, NotingIs
    <3>5. accepted' = accepted \cup {<<p, i>>}
      BY DEF Reads
    <3> QED
      BY <3>1, <3>2, <3>4, <3>5
  <2>4. st[Other(p)].total + MaxAge >= st[Other(p)].total + 1
    BY <1>2, RatchetConstants
  <2> QED
    BY <1>1, <1>2, <2>1, <2>3, <2>4 DEF Kept, KeyFor, KeyAt
<1>13. ASSUME NEW j, j \in Kept(p)'
       PROVE  \/ j \in Kept(p) /\ passed[<<p, j>>] + MaxAge >= st[Other(p)].total + 1
              \/ j \in Skips(p, i)
  <2>1. /\ j \in 1..Len(sent[p]) /\ j \in 1..MaxSends
        /\ <<p, j>> \notin accepted' /\ passed'[<<p, j>>] # NoKey
        /\ passed'[<<p, j>>] + MaxAge >= st[Other(p)].total + 1
    BY <1>1, <1>8, <1>13 DEF Kept
  <2>2. j # i /\ <<p, j>> \notin accepted
    BY <2>1, NotingIs
  <2>3. CASE Noted(p, j)
    <3>1. passed'[<<p, j>>] = passed[<<p, j>>] /\ passed[<<p, j>>] \in Nat
      BY <2>1, <2>2, <2>3, NotingIs, NotedIs DEF Noted
    <3> QED
      BY <1>2, <2>1, <2>2, <3>1, RatchetConstants DEF Kept
  <2>4. CASE ~Noted(p, j)
    <3>1. j < i
      BY <2>1, <2>4, NotingIs DEF Noted
    <3>2. ~Past(p, j)
      BY <2>1, <2>4, NotedIs
    <3> QED
      BY <1>2, <2>1, <3>1, <3>2 DEF Skips
  <2> QED
    BY <2>3, <2>4
<1>14. PICK K : K = Kept(p)'
  OBVIOUS
<1>15. t.skipped = {KeyFor(p, j)' : j \in K}
  <2>1. st[Other(p)].skipped = {KeyFor(p, j) : j \in Kept(p)}
    BY NotedIs
  <2>2. \A j : KeyFor(p, j).at = passed[<<p, j>>]
    BY DEF KeyFor, KeyAt
  <2>3. \A j, u : KeyAt(p, j, u).at = u
    BY DEF KeyAt
  <2>4. Fresh(p, i) = {KeyAt(p, j, st[Other(p)].total) : j \in Skips(p, i)}
    BY DEF Fresh, KeysAt
  <2>5. \A k \in t.skipped : \E j \in K : k = KeyFor(p, j)'
    <3> TAKE k \in t.skipped
    <3>1. CASE k \in st[Other(p)].skipped
      <4>1. PICK j \in Kept(p) : k = KeyFor(p, j)
        BY <2>1, <3>1
      <4>2. passed[<<p, j>>] + MaxAge >= st[Other(p)].total + 1
        BY <1>1, <2>2, <4>1
      <4> QED
        BY <1>11, <1>14, <4>1, <4>2
    <3>2. CASE k \in Fresh(p, i)
      <4>1. PICK j \in Skips(p, i) : k = KeyAt(p, j, st[Other(p)].total)
        BY <2>4, <3>2
      <4> QED
        BY <1>12, <1>14, <4>1
    <3> QED
      BY <1>1, <3>1, <3>2
  <2>6. \A j \in K : KeyFor(p, j)' \in t.skipped
    <3> TAKE j \in K
    <3>1. CASE j \in Kept(p) /\ passed[<<p, j>>] + MaxAge >= st[Other(p)].total + 1
      <4>1. KeyFor(p, j)' = KeyFor(p, j)
        BY <1>11, <3>1
      <4> QED
        BY <1>1, <2>1, <2>2, <3>1, <4>1
    <3>2. CASE j \in Skips(p, i)
      <4>1. KeyFor(p, j)' = KeyAt(p, j, st[Other(p)].total)
        BY <1>12, <3>2
      <4>2. st[Other(p)].total + MaxAge >= st[Other(p)].total + 1
        BY <1>2, RatchetConstants
      <4> QED
        BY <1>1, <2>3, <2>4, <3>2, <4>1, <4>2
    <3> QED
      BY <1>13, <1>14, <3>1, <3>2
  <2> QED
    BY <2>5, <2>6
<1>16. (st[Other(p)].skipped = {KeyFor(p, j) : j \in Kept(p)})'
  BY <1>1, <1>14, <1>15
<1> QED
  BY <1>9, <1>10, <1>16 DEF Read

\* A receipt keeps the invariant.
LEMMA ReadsKeep ==
  ASSUME RatchetInv, NEW p \in Peer, NEW i, NEW t, Reads(p, i, t)
  PROVE  RatchetInv'
<1>1. /\ Other(p) \in Peer /\ Other(Other(p)) = p /\ \A q \in Peer : q = p \/ q = Other(p)
  BY Fields DEF Peer, Other
<1>2. Read(p)'
  BY KeptRead, AdvanceRead
<1>3. Read(Other(p))'
  <2>1. PICK q \in Peer : q = Other(p) /\ Other(q) = p
    BY <1>1
  <2>2. Read(q) /\ sent' = sent /\ st'[p] = st[p] /\ Len(sent[q]) \in 0..MaxSends
    BY ReceiptIs, Fields DEF RatchetInv, ReadInv, Reads
  <2>3. \A j \in 1..MaxSends : passed'[<<q, j>>] = passed[<<q, j>>]
    BY <2>1, NotingIs
  <2>4. \A j : <<q, j>> \in accepted' <=> <<q, j>> \in accepted
    BY <2>1, Fields DEF Reads
  <2>5. Read(q)'
    BY <2>1, <2>2, <2>3, <2>4, ReadStays
  <2> QED
    BY <2>1, <2>5
<1>4. ReadInv'
  BY <1>1, <1>2, <1>3 DEF ReadInv
<1> QED
  BY <1>4, ReadsShape, ReadsKeys, ReadsSent DEF RatchetInv

\* The message that a peer sends.
NextMessage(p) == [dh |-> st[p].dhs, pn |-> st[p].pn, n |-> st[p].ns, mk |-> st[p].cks]

\* What sending changes.
LEMMA SendIs ==
  ASSUME RatchetInv, NEW p \in Peer, Send(p)
  PROVE  /\ accepted' = accepted /\ passed' = passed
         /\ st'[p] \in State /\ \A q \in Peer : q # p => st'[q] = st[q] /\ sent'[q] = sent[q]
         /\ st' \in [Peer -> State] /\ sent' \in [Peer -> Seq(Message)]
         /\ st'[p].dhs = st[p].dhs /\ st'[p].dhr = st[p].dhr /\ st'[p].rk = st[p].rk
         /\ st'[p].ckr = st[p].ckr /\ st'[p].nr = st[p].nr /\ st'[p].pn = st[p].pn
         /\ st'[p].total = st[p].total /\ st'[p].skipped = st[p].skipped
         /\ st'[p].ns = st[p].ns + 1 /\ st'[p].cks = ChainAt(Now(p), st[p].ns + 1)
         /\ Now(p) # 0 /\ st[p].cks = ChainAt(Now(p), st[p].ns)
         /\ Len(sent[p]) < MaxSends /\ Len(sent'[p]) = Len(sent[p]) + 1
         /\ \A i \in 1..Len(sent[p]) : sent'[p][i] = sent[p][i]
         /\ sent'[p][Len(sent[p]) + 1] = NextMessage(p)
<1>1. /\ st \in [Peer -> State] /\ sent \in [Peer -> Seq(Message)] /\ st[p] \in State
      /\ sent[p] \in Seq(Message) /\ Own(p)
  BY DEF RatchetInv, Shape, TypeOK, KeysInv
<1>2. /\ accepted' = accepted /\ passed' = passed /\ Len(sent[p]) < MaxSends
      /\ sent' = [sent EXCEPT ![p] = Append(@, NextMessage(p))]
      /\ st' = [st EXCEPT ![p] = RatchetEncrypt(@)] /\ st[p].cks # NoKey
  BY DEF Send, NextMessage
<1>3. Now(p) # 0 /\ Now(p) \in Nat /\ st[p].ns \in Nat /\ st[p].cks = ChainAt(Now(p), st[p].ns)
  BY <1>1, <1>2 DEF Own, State
<1>4. NextChain(st[p].cks) = ChainAt(Now(p), st[p].ns + 1)
  BY <1>3 DEF NextChain, ChainAt
<1>5. st'[p] = [st[p] EXCEPT !.cks = ChainAt(Now(p), st[p].ns + 1), !.ns = st[p].ns + 1]
  BY <1>1, <1>2, <1>4 DEF RatchetEncrypt
<1>6. st'[p] \in State
  <2>1. ChainAt(Now(p), st[p].ns + 1) \in Chain /\ st[p].ns + 1 \in Nat
    BY <1>3, ChainAtIsChain
  <2> QED
    BY <1>1, <1>5, <2>1 DEF State
<1>7. NextMessage(p) \in Message
  <2>1. st[p].cks \in Chain
    BY <1>3, ChainAtIsChain
  <2> QED
    BY <1>1, <2>1 DEF NextMessage, Message, State
<1>8. sent'[p] = Append(sent[p], NextMessage(p))
  BY <1>1, <1>2
<1>9. /\ Append(sent[p], NextMessage(p)) \in Seq(Message)
      /\ Len(sent'[p]) = Len(sent[p]) + 1
      /\ \A i \in 1..Len(sent[p]) : sent'[p][i] = sent[p][i]
      /\ sent'[p][Len(sent[p]) + 1] = NextMessage(p)
  BY <1>1, <1>7, <1>8, AppendProperties
<1>10. sent' \in [Peer -> Seq(Message)]
  BY <1>1, <1>2, <1>9
<1>11. st' \in [Peer -> State]
  BY <1>1, <1>2, <1>6
<1>12. \A q \in Peer : q # p => st'[q] = st[q] /\ sent'[q] = sent[q]
  BY <1>1, <1>2
<1>13. /\ st'[p].dhs = st[p].dhs /\ st'[p].dhr = st[p].dhr /\ st'[p].rk = st[p].rk
       /\ st'[p].ckr = st[p].ckr /\ st'[p].nr = st[p].nr /\ st'[p].pn = st[p].pn
       /\ st'[p].total = st[p].total /\ st'[p].skipped = st[p].skipped
       /\ st'[p].ns = st[p].ns + 1 /\ st'[p].cks = ChainAt(Now(p), st[p].ns + 1)
  BY <1>1, <1>5 DEF State
<1> QED
  BY <1>2, <1>3, <1>6, <1>9, <1>10, <1>11, <1>12, <1>13

\* The messages of p after sending: the old ones and the new one.
LEMMA SendWire ==
  ASSUME RatchetInv, NEW p \in Peer, Send(p), NEW L, L = Len(sent[p])
  PROVE  /\ L \in Nat /\ Now(p)' = Now(p)
         /\ \A i \in 1..L : TurnOf(p, i)' = TurnOf(p, i) /\ Place(p, i)' = Place(p, i)
         /\ TurnOf(p, L + 1)' = Now(p) /\ Place(p, L + 1)' = st[p].ns
<1>1. L \in Nat
  BY Fields
<1>2. Now(p)' = Now(p)
  BY SendIs DEF Now
<1>3. \A i \in 1..L : TurnOf(p, i)' = TurnOf(p, i) /\ Place(p, i)' = Place(p, i)
  BY SendIs DEF TurnOf, Place
<1>4. TurnOf(p, L + 1)' = Now(p) /\ Place(p, L + 1)' = st[p].ns
  <2>1. sent'[p][L + 1] = NextMessage(p)
    BY SendIs
  <2>2. NextMessage(p).dh = st[p].dhs /\ NextMessage(p).n = st[p].ns
    BY DEF NextMessage
  <2> QED
    BY <2>1, <2>2 DEF TurnOf, Place, Now
<1> QED
  BY <1>1, <1>2, <1>3, <1>4

\* The new message takes the next place of the sender's chain.
LEMMA SendLog ==
  ASSUME RatchetInv, NEW p \in Peer, Send(p)
  PROVE  Log(p)'
<1>1. PICK L \in Nat : L = Len(sent[p])
  BY Fields
<1>2. /\ Now(p)' = Now(p) /\ Len(sent'[p]) = L + 1
      /\ \A i \in 1..L : TurnOf(p, i)' = TurnOf(p, i) /\ Place(p, i)' = Place(p, i)
      /\ \A i \in 1..L : sent'[p][i] = sent[p][i]
      /\ TurnOf(p, L + 1)' = Now(p) /\ Place(p, L + 1)' = st[p].ns
      /\ sent'[p][L + 1] = NextMessage(p)
      /\ st'[p].ns = st[p].ns + 1 /\ st'[p].pn = st[p].pn
  BY <1>1, SendIs, SendWire
<1>3. PICK now \in Nat, ns \in Nat, pn \in Nat : now = Now(p) /\ ns = st[p].ns /\ pn = st[p].pn
  <2>1. Own(p) /\ st[p] \in State
    BY Fields DEF RatchetInv, KeysInv
  <2> QED
    BY <2>1 DEF Own, State
<1>4. /\ Log(p) /\ now # 0 /\ st[p].dhs[1] = p /\ st[p].cks = ChainAt(now, ns)
      /\ NoGap(p, L + 1, now, ns) /\ NoGap(p, L + 1, now - 2, pn)
  BY <1>1, <1>3, SendIs DEF RatchetInv, SentInv, Log, KeysInv, Own
<1>5. ASSUME NEW i \in 1..L
      PROVE  Sound(p, i) /\ Complete(p, i) /\ TurnOf(p, i) \in Nat /\ Place(p, i) \in Nat
             /\ i \in Nat /\ TurnOf(p, i) <= now
  <2>1. Sound(p, i) /\ Complete(p, i) /\ TurnOf(p, i) \in Nat /\ Place(p, i) \in Nat
    BY <1>1, OfMessage
  <2> QED
    BY <1>3, <2>1 DEF Sound
<1>6. ASSUME NEW i \in 1..L + 1, NEW c, NEW n, NoGap(p, i, c, n)
      PROVE  \A k \in 0..n - 1 : \E j \in 1..i - 1 :
               j \in 1..L /\ TurnOf(p, j)' = c /\ Place(p, j)' = k
  <2> TAKE k \in 0..n - 1
  <2>1. PICK j \in 1..i - 1 : TurnOf(p, j) = c /\ Place(p, j) = k
    BY <1>6 DEF NoGap
  <2>2. j \in 1..L
    BY <1>6, <2>1
  <2> QED
    BY <1>2, <2>1, <2>2
<1>7. ASSUME NEW i \in 1..L
      PROVE  Sound(p, i)' /\ Complete(p, i)'
  <2>1. Sound(p, i) /\ Complete(p, i) /\ i \in 1..L + 1
    BY <1>5
  <2>2. (sent[p][i].dh[1] = p /\ TurnOf(p, i) \in 1..Now(p))'
    BY <1>2, <2>1 DEF Sound
  <2>3. (sent[p][i].mk = ChainAt(TurnOf(p, i), Place(p, i)))'
    BY <1>2, <2>1 DEF Sound
  <2>4. (TurnOf(p, i) = Now(p) => Place(p, i) < st[p].ns /\ sent[p][i].pn = st[p].pn)'
    <3>1. TurnOf(p, i) = now => Place(p, i) < ns /\ sent[p][i].pn = pn
      BY <1>3, <2>1 DEF Sound
    <3>2. Place(p, i) < ns => Place(p, i) < ns + 1
      BY <1>5
    <3> QED
      BY <1>2, <1>3, <3>1, <3>2
  <2>5. (TurnOf(p, i) = Now(p) - 2 => Place(p, i) < st[p].pn)'
    BY <1>2, <2>1 DEF Sound
  <2>6. (\A j \in 1..Len(sent[p]) : TurnOf(p, j) = TurnOf(p, i) - 2 => Place(p, j) < sent[p][i].pn)'
    <3>1. \A j \in 1..L : TurnOf(p, j) = TurnOf(p, i) - 2 => Place(p, j) < sent[p][i].pn
      BY <1>1, <2>1 DEF Sound
    <3>2. now # TurnOf(p, i) - 2
      BY <1>5
    <3>3. \A j \in 1..L + 1 : j \in 1..L \/ j = L + 1
      OBVIOUS
    <3> QED
      BY <1>2, <1>3, <3>1, <3>2, <3>3
  <2>7. (\A j \in 1..i - 1 : Before(p, j, TurnOf(p, i), Place(p, i)))'
    <3>1. \A j \in 1..i - 1 : j \in 1..L
      OBVIOUS
    <3> QED
      BY <1>2, <2>1, <3>1 DEF Sound, Before
  <2>8. NoGap(p, i, TurnOf(p, i), Place(p, i))'
    <3>1. NoGap(p, i, TurnOf(p, i), Place(p, i))
      BY <2>1 DEF Complete
    <3>2. \A k \in 0..Place(p, i) - 1 : \E j \in 1..i - 1 :
            TurnOf(p, j)' = TurnOf(p, i) /\ Place(p, j)' = k
      BY <1>6, <2>1, <3>1
    <3> QED
      BY <1>2, <3>2 DEF NoGap
  <2>9. NoGap(p, i, TurnOf(p, i) - 2, sent[p][i].pn)'
    <3>1. NoGap(p, i, TurnOf(p, i) - 2, sent[p][i].pn)
      BY <2>1 DEF Complete
    <3>2. \A k \in 0..sent[p][i].pn - 1 : \E j \in 1..i - 1 :
            TurnOf(p, j)' = TurnOf(p, i) - 2 /\ Place(p, j)' = k
      BY <1>6, <2>1, <3>1
    <3> QED
      BY <1>2, <3>2 DEF NoGap
  <2> QED
    BY <2>2, <2>3, <2>4, <2>5, <2>6, <2>7, <2>8, <2>9 DEF Sound, Complete
<1>8. Sound(p, L + 1)'
  <2>1. (sent[p][L + 1].dh[1] = p /\ TurnOf(p, L + 1) \in 1..Now(p))'
    BY <1>2, <1>3, <1>4 DEF NextMessage
  <2>2. (sent[p][L + 1].mk = ChainAt(TurnOf(p, L + 1), Place(p, L + 1)))'
    BY <1>2, <1>3, <1>4 DEF NextMessage
  <2>3. (TurnOf(p, L + 1) = Now(p) => Place(p, L + 1) < st[p].ns /\ sent[p][L + 1].pn = st[p].pn)'
    BY <1>2, <1>3 DEF NextMessage
  <2>4. (TurnOf(p, L + 1) = Now(p) - 2 => Place(p, L + 1) < st[p].pn)'
    BY <1>2, <1>3
  <2>5. \A j \in 1..L : TurnOf(p, j) = now - 2 => Place(p, j) < pn
    BY <1>3, <1>5 DEF Sound
  <2>6. (\A j \in 1..Len(sent[p]) :
           TurnOf(p, j) = TurnOf(p, L + 1) - 2 => Place(p, j) < sent[p][L + 1].pn)'
    <3>1. \A j \in 1..L + 1 : j \in 1..L \/ j = L + 1
      OBVIOUS
    <3>2. NextMessage(p).pn = pn
      BY <1>3 DEF NextMessage
    <3> QED
      BY <1>2, <1>3, <2>5, <3>1, <3>2
  <2>7. (\A j \in 1..L + 1 - 1 : Before(p, j, TurnOf(p, L + 1), Place(p, L + 1)))'
    <3>1. \A j \in 1..L : TurnOf(p, j) < now \/ (TurnOf(p, j) = now /\ Place(p, j) < ns)
      BY <1>3, <1>5 DEF Sound
    <3> QED
      BY <1>2, <1>3, <3>1 DEF Before
  <2> QED
    BY <2>1, <2>2, <2>3, <2>4, <2>6, <2>7 DEF Sound
<1>9. Complete(p, L + 1)'
  <2>1. NextMessage(p).pn = pn
    BY <1>3 DEF NextMessage
  <2>2. L + 1 \in 1..L + 1
    OBVIOUS
  <2>3. NoGap(p, L + 1, TurnOf(p, L + 1), Place(p, L + 1))'
    BY <1>2, <1>3, <1>4, <1>6, <2>2 DEF NoGap
  <2>4. NoGap(p, L + 1, TurnOf(p, L + 1) - 2, sent[p][L + 1].pn)'
    BY <1>2, <1>3, <1>4, <1>6, <2>1, <2>2 DEF NoGap
  <2> QED
    BY <2>3, <2>4 DEF Complete
<1>10. \A k \in 0..ns : \E j \in 1..L + 1 : TurnOf(p, j)' = now /\ Place(p, j)' = k
  <2> TAKE k \in 0..ns
  <2>1. CASE k = ns
    <3>1. L + 1 \in 1..L + 1 /\ TurnOf(p, L + 1)' = now /\ Place(p, L + 1)' = k
      BY <1>2, <1>3, <2>1
    <3> QED
      BY <3>1
  <2>2. CASE k # ns
    <3>1. k \in 0..ns - 1 /\ L + 1 \in 1..L + 1 /\ \A j \in 1..L + 1 - 1 : j \in 1..L + 1
      BY <2>2
    <3>2. \E j \in 1..L + 1 - 1 : TurnOf(p, j)' = now /\ Place(p, j)' = k
      BY <1>4, <1>6, <3>1
    <3> QED
      BY <3>1, <3>2
  <2> QED
    BY <2>1, <2>2
<1>11. \A k \in 0..pn - 1 : \E j \in 1..L + 1 : TurnOf(p, j)' = now - 2 /\ Place(p, j)' = k
  <2> TAKE k \in 0..pn - 1
  <2>1. L + 1 \in 1..L + 1 /\ \A j \in 1..L + 1 - 1 : j \in 1..L + 1
    OBVIOUS
  <2>2. \E j \in 1..L + 1 - 1 : TurnOf(p, j)' = now - 2 /\ Place(p, j)' = k
    BY <1>4, <1>6, <2>1
  <2> QED
    BY <2>1, <2>2
<1>12. NoGap(p, Len(sent[p]) + 1, Now(p), st[p].ns)'
  BY <1>2, <1>3, <1>10 DEF NoGap
<1>13. NoGap(p, Len(sent[p]) + 1, Now(p) - 2, st[p].pn)'
  BY <1>2, <1>3, <1>11 DEF NoGap
<1>14. (\A i \in 1..Len(sent[p]) : Sound(p, i) /\ Complete(p, i))'
  <2>1. \A i \in 1..L + 1 : i \in 1..L \/ i = L + 1
    OBVIOUS
  <2> QED
    BY <1>2, <1>7, <1>8, <1>9, <2>1
<1> QED
  BY <1>12, <1>13, <1>14 DEF Log

\* Nobody has read or overtaken the message that was just sent.
LEMMA SendRead ==
  ASSUME RatchetInv, NEW p \in Peer, Send(p)
  PROVE  Read(p)'
<1>1. PICK L \in Nat : L = Len(sent[p])
  BY Fields
<1>2. /\ Now(p)' = Now(p) /\ Len(sent'[p]) = L + 1 /\ L < MaxSends
      /\ \A i \in 1..L : TurnOf(p, i)' = TurnOf(p, i) /\ Place(p, i)' = Place(p, i)
      /\ \A i \in 1..L : sent'[p][i] = sent[p][i]
      /\ TurnOf(p, L + 1)' = Now(p) /\ Place(p, L + 1)' = st[p].ns
      /\ st'[Other(p)] = st[Other(p)] /\ accepted' = accepted /\ passed' = passed
  <2>1. /\ Len(sent'[p]) = L + 1 /\ L < MaxSends
        /\ \A i \in 1..L : sent'[p][i] = sent[p][i]
        /\ accepted' = accepted /\ passed' = passed
    BY <1>1, SendIs
  <2>2. st'[Other(p)] = st[Other(p)]
    BY SendIs, Fields
  <2> QED
    BY <1>1, <2>1, <2>2, SendWire
<1>3. /\ Now(Other(p)) \in Nat /\ Now(p) \in Nat /\ st[p].ns \in Nat
      /\ st[Other(p)].nr \in Nat /\ Beside(Other(p)) /\ Other(Other(p)) = p
  <2>1. Own(p) /\ st[p] \in State /\ Beside(Other(p)) /\ Other(Other(p)) = p
    BY Fields DEF RatchetInv, KeysInv
  <2> QED
    BY <2>1, OfReceiver DEF Own, State
<1>4. Now(Other(p))' = Now(Other(p))
  BY <1>2 DEF Now
<1>5. \A i \in 1..L : Past(p, i)' <=> Past(p, i)
  BY <1>2, <1>4 DEF Past, Before
<1>6. ~Past(p, L + 1)'
  BY <1>2, <1>3, <1>4 DEF Past, Before, Beside
<1>7. \A i : Noted(p, i)' <=> Noted(p, i)
  BY <1>2 DEF Noted
<1>8. L + 1 \in 1..MaxSends /\ \A i \in 1..L + 1 : i \in 1..L \/ i = L + 1
  BY <1>2, RatchetConstants
<1>9. \A i \in 1..MaxSends : Noted(p, i) => i \in 1..L /\ Past(p, i)
  BY <1>1, NotedIs
<1>10. ~Noted(p, L + 1)
  BY <1>8, <1>9
<1>11. Kept(p)' = Kept(p)
  BY <1>1, <1>2, <1>8, <1>10 DEF Kept, Noted
<1>12. \A i \in Kept(p) : KeyFor(p, i)' = KeyFor(p, i)
  BY <1>1, <1>2 DEF Kept, KeyFor, KeyAt
<1>13. (st[Other(p)].skipped = {KeyFor(p, i) : i \in Kept(p)})'
  <2>1. {KeyFor(p, i) : i \in Kept(p)}' = {KeyFor(p, i) : i \in Kept(p)}
    BY <1>11, <1>12
  <2> QED
    BY <1>2, <2>1, NotedIs
<1>14. (\A i \in 1..MaxSends : Noted(p, i) => i <= Len(sent[p]) /\ Past(p, i))'
  BY <1>2, <1>5, <1>7, <1>9
<1>15. (\A i \in 1..Len(sent[p]) : Past(p, i) => Noted(p, i))'
  BY <1>1, <1>2, <1>5, <1>6, <1>7, <1>8, NotedIs
<1> QED
  BY <1>13, <1>14, <1>15 DEF Read

\* Sending keeps the invariant.
LEMMA SendKeeps ==
  ASSUME RatchetInv, NEW p \in Peer, Send(p)
  PROVE  RatchetInv'
<1>1. PICK q \in Peer : q = Other(p) /\ p = Other(q) /\ q # p
  BY Fields
<1>2. \A r \in Peer : r = p \/ r = q
  BY <1>1 DEF Peer, Other
<1>3. /\ accepted' = accepted /\ passed' = passed
      /\ st'[q] = st[q] /\ sent'[q] = sent[q]
      /\ st' \in [Peer -> State] /\ sent' \in [Peer -> Seq(Message)]
      /\ st'[p].dhs = st[p].dhs /\ st'[p].dhr = st[p].dhr /\ st'[p].rk = st[p].rk
      /\ st'[p].ckr = st[p].ckr /\ st'[p].nr = st[p].nr /\ st'[p].pn = st[p].pn
      /\ st'[p].total = st[p].total /\ st'[p].skipped = st[p].skipped
      /\ st'[p].ns = st[p].ns + 1 /\ st'[p].cks = ChainAt(Now(p), st[p].ns + 1)
      /\ Now(p) # 0 /\ Len(sent[p]) < MaxSends /\ Len(sent'[p]) = Len(sent[p]) + 1
  BY <1>1, SendIs
<1>4. /\ Own(p) /\ Own(q) /\ Beside(p) /\ Beside(q) /\ Log(q) /\ Read(q)
      /\ Len(sent[p]) \in 0..MaxSends /\ Len(sent[q]) \in 0..MaxSends
      /\ st[p].ns \in Nat /\ st[q].nr \in Nat
  BY Fields DEF RatchetInv, KeysInv, SentInv, ReadInv, State
<1>5. Shape'
  <2>1. \A r \in Peer : Len(sent'[r]) <= MaxSends
    <3>1. Len(sent'[p]) <= MaxSends
      BY <1>3, <1>4, RatchetConstants
    <3>2. Len(sent'[q]) <= MaxSends
      BY <1>3, <1>4, RatchetConstants
    <3> QED
      BY <1>2, <3>1, <3>2
  <2> QED
    BY <1>3, <2>1 DEF RatchetInv, Shape, TypeOK
<1>6. Now(p)' = Now(p) /\ Now(q)' = Now(q)
  BY <1>3 DEF Now
<1>7. Own(p)' /\ Own(q)'
  BY <1>3, <1>4, <1>6 DEF Own
<1>8. Beside(p)' /\ Beside(q)'
  BY <1>1, <1>3, <1>4, <1>6 DEF Beside
<1>9. Log(p)' /\ Log(q)'
  BY <1>3, <1>4, SendLog, LogStays
<1>10. Read(p)' /\ Read(q)'
  BY <1>1, <1>3, <1>4, SendRead, ReadStays
<1> QED
  BY <1>2, <1>5, <1>7, <1>8, <1>9, <1>10 DEF RatchetInv, KeysInv, SentInv, ReadInv

-----------------------------------------------------------------------------
(* The theorems.                                                           *)

\* The peers start with keys of the turns 1 and 0, and nothing sent.
LEMMA InitInv ==
  ASSUME Init
  PROVE  RatchetInv
<1> DEFINE a == <<"alice", 1>>
           b == <<"bob", 0>>
<1>1. /\ st["alice"] = InitAlice(a, b) /\ st["bob"] = InitBob(b)
      /\ st = [p \in Peer |-> st[p]] /\ sent["alice"] = <<>> /\ sent["bob"] = <<>>
      /\ Other("alice") = "bob" /\ Other("bob") = "alice"
  BY DEF Init, Peer, Other
<1>2. a \in Pub /\ b \in Pub /\ a[1] = "alice" /\ b[1] = "bob" /\ Turn(a) = 1 /\ Turn(b) = 0
  BY DEF Pub, Peer, Turn
<1>3. RootAt(0) = <<>> /\ RootAt(0) \in Root
  <2>1. RootAt(0) \in Root /\ Len(RootAt(0)) = 0
    BY NextRoot
  <2> QED
    BY <2>1, EmptySeq DEF Root
<1>4. KdfRk(<<>>, DH(a, b)) = RootAt(1)
  BY <1>2, <1>3, NextRoot, OutputOfPairs
<1>5. RootAt(1) \in Root /\ ChainAt(1, 0) \in Chain /\ ChainOf(RootAt(1)) = ChainAt(1, 0)
  BY NextRoot, ChainAtIsChain DEF ChainOf, ChainAt
<1> HIDE DEF a, b
<1>6. st["alice"] = [dhs |-> a, dhr |-> b, rk |-> RootAt(1), cks |-> ChainAt(1, 0), ckr |-> NoKey,
                     ns |-> 0, nr |-> 0, pn |-> 0, total |-> 0, skipped |-> {}]
  BY <1>1, <1>4, <1>5 DEF InitAlice
<1>7. st["bob"] = [dhs |-> b, dhr |-> NoKey, rk |-> RootAt(0), cks |-> NoKey, ckr |-> NoKey,
                   ns |-> 0, nr |-> 0, pn |-> 0, total |-> 0, skipped |-> {}]
  BY <1>1, <1>3 DEF InitBob
<1>8. st["alice"] \in State /\ st["bob"] \in State
  BY <1>2, <1>3, <1>5, <1>6, <1>7 DEF State
<1>9. Now("alice") = 1 /\ Now("bob") = 0
  BY <1>2, <1>6, <1>7 DEF Now
<1>10. Shape
  <2>1. st \in [Peer -> State]
    BY <1>1, <1>8 DEF Peer
  <2>2. sent \in [Peer -> Seq(Message)]
    BY DEF Init
  <2>3. \A p \in Peer : Len(sent[p]) <= MaxSends
    BY <1>1, RatchetConstants DEF Peer
  <2> QED
    BY <2>1, <2>2, <2>3 DEF Shape, TypeOK, Init
<1>11. KeysInv
  <2>1. Own("alice")
    BY <1>1, <1>2, <1>6, <1>9 DEF Own
  <2>2. Own("bob")
    BY <1>2, <1>7, <1>9 DEF Own
  <2>3. Beside("alice") /\ Beside("bob")
    BY <1>1, <1>6, <1>7, <1>9 DEF Beside
  <2> QED
    BY <2>1, <2>2, <2>3 DEF KeysInv, Peer
<1>12. SentInv
  <2>1. Log("alice") /\ Log("bob")
    BY <1>1, <1>6, <1>7 DEF Log, NoGap
  <2> QED
    BY <2>1 DEF SentInv, Peer
<1>13. ReadInv
  <2>1. ASSUME NEW p \in Peer  PROVE Read(p)
    <3>1. sent[p] = <<>> /\ st[Other(p)].skipped = {}
      BY <1>1, <1>6, <1>7 DEF Peer
    <3>2. \A i \in 1..MaxSends : ~Noted(p, i)
      BY DEF Init, Noted
    <3>3. Kept(p) = {}
      BY <3>1 DEF Kept
    <3> QED
      BY <3>1, <3>2, <3>3 DEF Read
  <2> QED
    BY <2>1 DEF ReadInv
<1> QED
  BY <1>10, <1>11, <1>12, <1>13 DEF RatchetInv

\* What the invariant says does not depend on anything but the variables.
LEMMA StutterKeeps ==
  ASSUME RatchetInv, UNCHANGED vars
  PROVE  RatchetInv'
<1>1. \A p \in Peer : /\ sent'[p] = sent[p] /\ st'[p] = st[p]
                      /\ Other(p) \in Peer /\ Len(sent[p]) \in 0..MaxSends
  BY Fields DEF vars
<1>2. \A p \in Peer : Now(p)' = Now(p)
  BY <1>1 DEF Now
<1>3. Shape'
  BY DEF RatchetInv, Shape, TypeOK, vars
<1>4. ASSUME NEW p \in Peer  PROVE Own(p)' /\ Beside(p)' /\ Log(p)' /\ Read(p)'
  <2>1. Own(p) /\ Beside(p) /\ Log(p) /\ Read(p)
    BY DEF RatchetInv, KeysInv, SentInv, ReadInv
  <2>2. Own(p)' /\ Beside(p)'
    BY <1>1, <1>2, <2>1 DEF Own, Beside
  <2>3. Log(p)'
    BY <1>1, <2>1, LogStays
  <2>4. Read(p)'
    BY <1>1, <2>1, ReadStays DEF vars
  <2> QED
    BY <2>2, <2>3, <2>4
<1> QED
  BY <1>3, <1>4 DEF RatchetInv, KeysInv, SentInv, ReadInv

\* The invariant holds in every state of two ratchets over any network.
THEOREM Invariance == Spec => []RatchetInv
<1>1. Init => RatchetInv
  BY InitInv
<1>2. ASSUME RatchetInv, [Next]_vars  PROVE RatchetInv'
  <2>1. ASSUME NEW p \in Peer, Send(p)  PROVE RatchetInv'
    BY <1>2, <2>1, SendKeeps
  <2>2. ASSUME NEW p \in Peer, NEW i \in 1..MaxSends, Deliver(p, i)  PROVE RatchetInv'
    <3>1. UNCHANGED vars \/ \E t \in State : Reads(p, i, t)
      BY <1>2, <2>2, DeliverIs
    <3> QED
      BY <1>2, <3>1, StutterKeeps, ReadsKeep
  <2>3. CASE UNCHANGED vars
    BY <1>2, <2>3, StutterKeeps
  <2> QED
    BY <1>2, <2>1, <2>2, <2>3 DEF Next
<1> QED
  BY <1>1, <1>2, PTL DEF Spec

\* Counters, keys, buffers and logs have their types.
THEOREM TypesCorrect == Spec => []TypeOK
<1>1. RatchetInv => TypeOK
  BY DEF RatchetInv, Shape
<1> QED
  BY <1>1, Invariance, PTL

\* A message that was decrypted is not decrypted again.
THEOREM NeverReadTwice == Spec => []ReplayRejected
BY Invariance, NoReplay, PTL

\* Reordering, losses, repetitions and turns of the ratchet make no message
\* unreadable whose gap is within MAX_SKIP and whose key has not expired.
THEOREM InReachIsReadable == Spec => []Readable
<1>1. RatchetInv => Readable
  BY InReachReadable
<1> QED
  BY <1>1, Invariance, PTL

\* Past its lifetime a key that was set aside no longer opens its message.
THEOREM ExpiredIsGone == Spec => []ExpiredUnreadable
<1>1. RatchetInv => ExpiredUnreadable
  BY InReachReadable
<1> QED
  BY <1>1, Invariance, PTL

\* It takes more than MAX_SKIP unread messages before one to put it out of reach,
\* whichever chains they were sent in.
THEOREM FewLossesAreHarmless == Spec => []FewLossesHarmless
BY Invariance, FewLosses, PTL

\* No stored state gives away the key of a message that was sent or read.
THEOREM ForwardSecret == Spec => []ForwardSecrecy
BY Invariance, KeysAreGone, PTL

=============================================================================
