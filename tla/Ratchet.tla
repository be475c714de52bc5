------------------------------ MODULE Ratchet ------------------------------
(***************************************************************************)
(* The Double Ratchet of op4-core/src/crypto/ratchet.rs between two peers  *)
(* whose network may delay, reorder, repeat and lose messages.             *)
(*                                                                         *)
(* Cryptography is symbolic.  A public key is the pair of its owner and a  *)
(* counter, a DH output is the set of the two public keys, a root key is   *)
(* the sequence of DH outputs it was derived from, and a message key is a  *)
(* chain (the root key it was split from) and the number of KDF_CK steps.  *)
(* A message opens only under the key it was encrypted with.               *)
(*                                                                         *)
(* As in handle_inbound_data (op4-tui/src/ui/app.rs) a peer decrypts with  *)
(* a copy of its stored state and stores the copy only if that succeeded.  *)
(***************************************************************************)
EXTENDS Naturals, Sequences, FiniteSets

CONSTANTS
  MaxSkip,  \* MAX_SKIP
  MaxAge,   \* SKIPPED_KEY_MAX_AGE
  MaxSends, \* bound: messages a peer sends
  NoKey     \* None

ASSUME RatchetConstants ==
  /\ MaxSkip \in Nat \ {0}
  /\ MaxAge \in Nat \ {0}
  /\ MaxSends \in Nat

Peer == {"alice", "bob"}
Other(p) == IF p = "alice" THEN "bob" ELSE "alice"

Pub == Peer \X Nat
Root == Seq(SUBSET Pub)
Chain == [root : Root, step : Nat]           \* a chain key; its message key too
Skipped == [dh : Pub, n : Nat, at : Nat, mk : Chain]
Message == [dh : Pub, pn : Nat, n : Nat, mk : Chain]

ASSUME NoKeyIsNone == NoKey \notin Pub /\ NoKey \notin Chain /\ NoKey \notin Nat

State == [dhs : Pub, dhr : Pub \cup {NoKey}, rk : Root,
          cks : Chain \cup {NoKey}, ckr : Chain \cup {NoKey},
          ns : Nat, nr : Nat, pn : Nat, total : Nat, skipped : SUBSET Skipped]

VARIABLES
  st,       \* the stored RatchetState of each peer
  sent,     \* what each peer sent, in order
  accepted, \* history: <<sender, position>> of the messages that were decrypted
  passed    \* history: what the receiver had counted when it first decrypted a
            \* later message of the same sender

vars == <<st, sent, accepted, passed>>

TypeOK ==
  /\ st \in [Peer -> State]
  /\ sent \in [Peer -> Seq(Message)]
  /\ accepted \subseteq Peer \X (1..MaxSends)
  /\ passed \in [Peer \X (1..MaxSends) -> Nat \cup {NoKey}]

-----------------------------------------------------------------------------
(* Keys.                                                                   *)

DH(a, b) == {a, b}
KdfRk(rk, dh) == Append(rk, dh)
ChainOf(rk) == [root |-> rk, step |-> 0]
NextChain(ck) == [ck EXCEPT !.step = @ + 1]
FreshDhs(s) == <<s.dhs[1], s.dhs[2] + 1>>

InitAlice(dhs, bobPub) ==
  LET rk == KdfRk(<<>>, DH(dhs, bobPub)) IN
  [dhs |-> dhs, dhr |-> bobPub, rk |-> rk, cks |-> ChainOf(rk), ckr |-> NoKey,
   ns |-> 0, nr |-> 0, pn |-> 0, total |-> 0, skipped |-> {}]

InitBob(dhs) ==
  [dhs |-> dhs, dhr |-> NoKey, rk |-> <<>>, cks |-> NoKey, ckr |-> NoKey,
   ns |-> 0, nr |-> 0, pn |-> 0, total |-> 0, skipped |-> {}]

\* Both run with the session key of the handshake as root key.
Init ==
  /\ st = [p \in Peer |-> IF p = "alice" THEN InitAlice(<<"alice", 1>>, <<"bob", 0>>)
                          ELSE InitBob(<<"bob", 0>>)]
  /\ sent = [p \in Peer |-> <<>>]
  /\ accepted = {}
  /\ passed = [x \in Peer \X (1..MaxSends) |-> NoKey]

-----------------------------------------------------------------------------
(* Receiving.  Each step yields the state it leaves and whether it failed. *)

Ok(s) == [ok |-> TRUE, s |-> s]
Err(s) == [ok |-> FALSE, s |-> s]

\* Mutant: the skipped key stays in the buffer.
TakeSkippedKept(s, k) == s

TakeSkipped(s, k) == [s EXCEPT !.skipped = @ \ {k}]

\* Mutant: skipped keys never expire.
PurgeNothing(s) == s

\* purge_expired_skipped_keys, with total_recv - SKIPPED_KEY_MAX_AGE saturating.
Purge(s) ==
  [s EXCEPT !.skipped = {k \in @ : k.at + MaxAge >= s.total}]

\* Mutant: the loop starts one key early.
SkippedKeysEarly(s, until) ==
  {[dh |-> s.dhr, n |-> n, at |-> s.total,
    mk |-> [s.ckr EXCEPT !.step = @ + (n - s.nr)]] : n \in s.nr - 1..until - 1}

\* Mutant: one key too many is skipped.
SkippedKeysOneMore(s, until) ==
  {[dh |-> s.dhr, n |-> n, at |-> s.total,
    mk |-> [s.ckr EXCEPT !.step = @ + (n - s.nr)]] : n \in s.nr..until}

SkippedKeys(s, until) ==
  {[dh |-> s.dhr, n |-> n, at |-> s.total,
    mk |-> [s.ckr EXCEPT !.step = @ + (n - s.nr)]] : n \in s.nr..until - 1}

\* skip_message_keys: TooManySkipped, NoChainKey, or the keys are buffered.
SkipMessageKeys(s, until) ==
  IF s.nr + MaxSkip < until \/ (s.nr < until /\ NoKey \in {s.ckr, s.dhr})
    THEN Err(s)
  ELSE IF s.nr >= until THEN Ok(s)
  ELSE Ok([s EXCEPT !.skipped = @ \cup SkippedKeys(s, until),
                    !.ckr.step = @ + (until - s.nr),
                    !.nr = until])

\* Mutant: the previous chain's length is not announced to the peer.
DhRatchetStepNoPn(s, peerPub) ==
  LET rk1 == KdfRk(s.rk, DH(s.dhs, peerPub))
      rk2 == KdfRk(rk1, DH(FreshDhs(s), peerPub))
  IN  [s EXCEPT !.ns = 0, !.nr = 0, !.dhr = peerPub,
                !.dhs = FreshDhs(s), !.rk = rk2,
                !.ckr = ChainOf(rk1), !.cks = ChainOf(rk2)]

\* dh_ratchet_step: the receiving chain with the old secret, then a fresh one.
DhRatchetStep(s, peerPub) ==
  LET rk1 == KdfRk(s.rk, DH(s.dhs, peerPub))
      rk2 == KdfRk(rk1, DH(FreshDhs(s), peerPub))
  IN  [s EXCEPT !.pn = s.ns, !.ns = 0, !.nr = 0, !.dhr = peerPub,
                !.dhs = FreshDhs(s), !.rk = rk2,
                !.ckr = ChainOf(rk1), !.cks = ChainOf(rk2)]

\* A successful decryption counts, and may make skipped keys expire.
Received(s) == Purge([s EXCEPT !.total = @ + 1])

\* Decryption under a key taken out of the state s.
Open(s, mk, m) == IF mk = m.mk THEN Ok(Received(s)) ELSE Err(s)

\* Steps 3 and 4 of ratchet_decrypt: reach header.n, then the next chain key.
DecryptCurrent(s, m) ==
  LET reached == SkipMessageKeys(s, m.n) IN
  IF ~reached.ok THEN reached
  ELSE IF reached.s.ckr = NoKey THEN Err(reached.s)
  ELSE Open([reached.s EXCEPT !.ckr = NextChain(@), !.nr = @ + 1], reached.s.ckr, m)

\* ratchet_decrypt.
Decrypt(s, m) ==
  LET hits == {k \in s.skipped : k.dh = m.dh /\ k.n = m.n} IN
  IF hits # {} THEN LET k == CHOOSE k \in hits : TRUE
                    IN  Open(TakeSkipped(s, k), k.mk, m)
  ELSE IF s.dhr = m.dh THEN DecryptCurrent(s, m)
  ELSE LET closed == SkipMessageKeys(s, m.pn) IN
       IF closed.ok THEN DecryptCurrent(DhRatchetStep(closed.s, m.dh), m)
       ELSE closed

-----------------------------------------------------------------------------
(* Actions.                                                                *)

\* ratchet_encrypt: the state after it.
RatchetEncrypt(s) == [s EXCEPT !.cks = NextChain(@), !.ns = @ + 1]

\* A peer without a sending chain (the responder, at first) gets NoChainKey.
Send(p) ==
  /\ Len(sent[p]) < MaxSends
  /\ st[p].cks # NoKey
  /\ sent' = [sent EXCEPT ![p] =
       Append(@, [dh |-> st[p].dhs, pn |-> st[p].pn, n |-> st[p].ns, mk |-> st[p].cks])]
  /\ st' = [st EXCEPT ![p] = RatchetEncrypt(@)]
  /\ UNCHANGED <<accepted, passed>>

\* Mutant: the state is stored whether or not the message was authentic.
StoredAlways(s, d) == d.s

\* What is kept of the state s after the attempt d.
Stored(s, d) == IF d.ok THEN d.s ELSE s

\* The i-th message of p arrives, perhaps not for the first time.
Deliver(p, i) ==
  /\ i \in DOMAIN sent[p]
  /\ \E d \in {Decrypt(st[Other(p)], sent[p][i])} :
        /\ st' = [st EXCEPT ![Other(p)] = Stored(@, d)]
        /\ accepted' = IF d.ok THEN accepted \cup {<<p, i>>} ELSE accepted
        /\ passed' = [x \in DOMAIN passed |->
             IF d.ok /\ x[1] = p /\ x[2] < i /\ x \notin accepted /\ passed[x] = NoKey
             THEN st[Other(p)].total ELSE passed[x]]
  /\ UNCHANGED sent

Next == \E p \in Peer : Send(p) \/ \E i \in 1..MaxSends : Deliver(p, i)

Spec == Init /\ [][Next]_vars

\* The receiver would decrypt the i-th message of p, were it to arrive.
Accepts(p, i) == i \in DOMAIN sent[p] /\ Decrypt(st[Other(p)], sent[p][i]).ok

-----------------------------------------------------------------------------
(* Properties.                                                             *)

OnWire == {x \in Peer \X (1..MaxSends) : x[2] \in DOMAIN sent[x[1]]}

\* A message that was decrypted is never decrypted again, however often the
\* outbox of its sender repeats it.
ReplayRejected == \A x \in accepted : ~Accepts(x[1], x[2])

\* The gap before the message exceeds MAX_SKIP: in the current chain of the
\* receiver, or before or in a chain it has not seen.
OutOfReach(p, i) ==
  LET s == st[Other(p)]
      m == sent[p][i]
  IN  IF s.dhr = m.dh THEN s.nr + MaxSkip < m.n
      ELSE /\ s.dhr = NoKey \/ s.dhr[2] < m.dh[2]
           /\ s.nr + MaxSkip < m.pn \/ MaxSkip < m.n

\* The key that was set aside for the message is past its lifetime: MaxAge
\* messages were read after the one that overtook it.
Expired(x) == passed[x] # NoKey /\ passed[x] + MaxAge < st[Other(x[1])].total

\* A message that was not decrypted yet can be, whatever was reordered, lost or
\* repeated and whichever peer turned the ratchet meanwhile, unless the gap
\* before it is too large or its key has expired.
Readable ==
  \A x \in OnWire \ accepted :
    Accepts(x[1], x[2]) \/ OutOfReach(x[1], x[2]) \/ Expired(x)

\* A key set aside does not outlive SKIPPED_KEY_MAX_AGE receipts: a message that
\* was overtaken longer ago is no longer readable, and its key is gone.
ExpiredUnreadable == \A x \in OnWire \ accepted : Expired(x) => ~Accepts(x[1], x[2])

\* The keys that a state gives away: those of its chains from here on, of the
\* next receiving chain, and those it has buffered.
Derives(s, mk) ==
  \/ \E ck \in {s.cks, s.ckr} \ {NoKey} : mk.root = ck.root /\ mk.step >= ck.step
  \/ /\ Len(mk.root) = Len(s.rk) + 1
     /\ SubSeq(mk.root, 1, Len(s.rk)) = s.rk
     /\ s.dhs \in mk.root[Len(mk.root)]
  \/ \E k \in s.skipped : k.mk = mk

\* Forward secrecy: the stored state of a peer gives away neither the key of a
\* message it sent nor that of a message it decrypted.
ForwardSecrecy ==
  /\ \A x \in OnWire : ~Derives(st[x[1]], sent[x[1]][x[2]].mk)
  /\ \A x \in accepted : ~Derives(st[Other(x[1])], sent[x[1]][x[2]].mk)

\* The receiver is locked out of a direction by losses only, and only by more than
\* MAX_SKIP of them: while no more of the messages before it were not read, a message
\* can be read, whichever chains they were in and however often the ratchet turned.
FewLossesHarmless ==
  \A x \in OnWire \ accepted :
    Cardinality({j \in 1..x[2] - 1 : <<x[1], j>> \notin accepted}) <= MaxSkip
      => Accepts(x[1], x[2]) \/ Expired(x)
=============================================================================
