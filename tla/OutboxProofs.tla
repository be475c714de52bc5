---------------------------- MODULE OutboxProofs ----------------------------
(***************************************************************************)
(* Proofs about Outbox, for any messages, contacts, channels and bounds.   *)
(* Its properties rest on where a message can be while the loop is between *)
(* two steps: OutboxInv says so.                                           *)
(***************************************************************************)
EXTENDS Outbox, FiniteSetTheorems, SequenceTheorems, TLAPS

(***************************************************************************)
(* What removing entries does to their indices.  The loop of app.rs knows  *)
(* an entry by its index only, so all of its bookkeeping rests on          *)
(* rebase_outbox_indices naming the place an entry moved to.               *)
(***************************************************************************)

\* How many members of L are at or below i.
Rank(L, i) == Cardinality({k \in L : k <= i})

\* Indices are finitely many.
LEMMA SubsetOfInterval ==
  ASSUME NEW n \in Nat, NEW L \in SUBSET (1..n)
  PROVE  IsFiniteSet(L) /\ Cardinality(L) \in Nat
<1>1. IsFiniteSet(1..n)
  BY FS_Interval
<1>2. IsFiniteSet(L)
  BY <1>1, FS_Subset
<1> QED BY <1>2, FS_CardinalityType

\* A member of L has a rank between 1 and the size of L, and a larger member
\* a larger rank.
LEMMA RankGrows ==
  ASSUME NEW n \in Nat, NEW L \in SUBSET (1..n), NEW i \in L
  PROVE  /\ IsFiniteSet(L) /\ Cardinality(L) \in Nat
         /\ Rank(L, i) \in 1..Cardinality(L)
         /\ \A j \in L : i < j => Rank(L, i) < Rank(L, j)
<1> DEFINE Below(j) == {k \in L : k <= j}
<1>1. IsFiniteSet(L) /\ Cardinality(L) \in Nat
  BY SubsetOfInterval
<1>2. \A j \in L : /\ IsFiniteSet(Below(j)) /\ Cardinality(Below(j)) \in Nat
                   /\ Cardinality(Below(j)) <= Cardinality(L)
  BY <1>1, FS_Subset, FS_CardinalityType
<1>3. Cardinality(Below(i)) # 0
  <2>1. i \in Below(i)
    OBVIOUS
  <2> QED BY <2>1, <1>2, FS_EmptySet
<1>4. ASSUME NEW j \in L, i < j PROVE Cardinality(Below(i)) < Cardinality(Below(j))
  <2>1. (\A k \in L : k <= i => k <= j) /\ j <= j /\ ~(j <= i)
    BY <1>4
  <2>2. j \in Below(j) /\ j \notin Below(i) /\ Below(i) \subseteq Below(j)
    BY <2>1, <1>4, Zenon
  <2>3. Cardinality(Below(i)) <= Cardinality(Below(j))
    BY <2>2, <1>2, FS_Subset
  <2>4. Cardinality(Below(i)) # Cardinality(Below(j))
    BY <2>2, <1>2, FS_Subset
  <2> QED BY <2>3, <2>4, <1>2
<1> QED BY <1>1, <1>2, <1>3, <1>4 DEF Rank

\* Every number from 1 to the size of L is the rank of exactly one member.
LEMMA RankOnto ==
  ASSUME NEW n \in Nat, NEW L \in SUBSET (1..n), NEW r \in 1..Cardinality(L)
  PROVE  \E i \in L : Rank(L, i) = r /\ \A j \in L : Rank(L, j) = r => j = i
<1> DEFINE f == [i \in L |-> Rank(L, i)]
           T == 1..Cardinality(L)
<1>1. IsFiniteSet(L) /\ Cardinality(L) \in Nat
  BY SubsetOfInterval
<1>2. \A i, j \in L : f[i] = f[j] => i = j
  <2> SUFFICES ASSUME NEW i \in L, NEW j \in L, f[i] = f[j], i # j PROVE FALSE
    OBVIOUS
  <2>1. i < j \/ j < i
    OBVIOUS
  <2>2. Rank(L, i) < Rank(L, j) \/ Rank(L, j) < Rank(L, i)
    BY <2>1, RankGrows
  <2>3. Rank(L, i) \in Int /\ Rank(L, i) = Rank(L, j)
    BY RankGrows
  <2> QED BY <2>2, <2>3
<1>3. f \in Injection(L, T)
  <2>1. f \in [L -> T]
    BY RankGrows
  <2> QED BY <2>1, <1>2 DEF Injection, IsInjective
<1>4. IsFiniteSet(T) /\ Cardinality(T) = Cardinality(L)
  BY <1>1, FS_Interval
<1>5. f \in Surjection(L, T)
  BY <1>1, <1>3, <1>4, FS_Injection
<1>6. PICK i \in L : f[i] = r
  BY <1>5 DEF Surjection
<1> QED BY <1>2, <1>6

\* rebase_outbox_indices counts what was removed below an index; what is left
\* up to that index is the rest.
LEMMA RebaseIsRank ==
  ASSUME NEW n \in Nat, NEW D \in SUBSET (1..n), NEW i \in (1..n) \ D
  PROVE  Rebase(i, D) = Rank((1..n) \ D, i)
<1> DEFINE E == {r \in D : r < i}
           B == {k \in (1..n) \ D : k <= i}
<1>1. IsFiniteSet(1..i) /\ Cardinality(1..i) = i
  BY FS_Interval
<1>2. E \in SUBSET (1..i) /\ B \in SUBSET (1..i)
  <2>1. \A k \in 1..n : k < i \/ k <= i => k \in 1..i
    OBVIOUS
  <2> QED BY <2>1
<1>3. /\ IsFiniteSet(E) /\ Cardinality(E) \in Nat
      /\ IsFiniteSet(B) /\ Cardinality(B) \in Nat
  BY <1>2, SubsetOfInterval
<1>4. E \cup B = 1..i
  <2>1. ASSUME NEW k \in 1..i PROVE k \in E \/ k \in B
    <3>1. k \in 1..n /\ (k < i \/ k = i)
      OBVIOUS
    <3> QED BY <3>1
  <2> QED BY <2>1, <1>2
<1>5. E \cap B = {}
  OBVIOUS
<1> HIDE DEF E, B
<1>6. Cardinality(E \cup B) = Cardinality(E) + Cardinality(B) - Cardinality(E \cap B)
  BY <1>3, FS_Union
<1>7. Cardinality(E \cup B) = i
  BY <1>1, <1>4, Zenon
<1>8. Cardinality(E \cap B) = 0
  BY <1>5, FS_EmptySet, Zenon
<1>9. Cardinality(B) = i - Cardinality(E)
  BY <1>3, <1>6, <1>7, <1>8
<1> QED BY <1>9 DEF Rebase, Rank, E, B

-----------------------------------------------------------------------------

\* Removing the entries in D from the outbox keeps every other entry, at the
\* index Rebase gives it, in the same order, and adds none.
THEOREM Removal ==
  ASSUME NEW S, NEW q \in Seq(S), NEW D \in SUBSET (DOMAIN q)
  PROVE  LET p == RemoveIndices(q, D)
             left == DOMAIN q \ D
         IN  /\ p \in Seq(S)
             /\ \A i \in left : /\ Rebase(i, D) \in DOMAIN p
                                /\ p[Rebase(i, D)] = q[i]
             /\ \A i, j \in left : i < j => Rebase(i, D) < Rebase(j, D)
             /\ \A k \in DOMAIN p : \E i \in left : Rebase(i, D) = k
<1> DEFINE n == Len(q)
           left == (1..n) \ D
           p == RemoveIndices(q, D)
<1>1. n \in Nat /\ DOMAIN q = 1..n /\ D \in SUBSET (1..n) /\ left \in SUBSET (1..n)
  OBVIOUS
<1>2. \A i \in left : Rebase(i, D) = Rank(left, i)
  BY <1>1, RebaseIsRank
<1>3. Cardinality(left) \in Nat
  BY <1>1, SubsetOfInterval
<1>4. p = [k \in 1..Cardinality(left) |-> q[CHOOSE i \in left : Rank(left, i) = k]]
  BY <1>1 DEF RemoveIndices, Rank
<1>5. ASSUME NEW k \in 1..Cardinality(left)
      PROVE  \E i \in left : Rank(left, i) = k /\ p[k] = q[i]
  <2>1. PICK i \in left : /\ Rank(left, i) = k
                          /\ \A j \in left : Rank(left, j) = k => j = i
    BY <1>1, RankOnto
  <2>2. (CHOOSE j \in left : Rank(left, j) = k) = i
    BY <2>1
  <2> QED BY <2>1, <2>2, <1>4
<1>6. ASSUME NEW i \in left
      PROVE  Rank(left, i) \in 1..Cardinality(left) /\ p[Rank(left, i)] = q[i]
  <2>1. Rank(left, i) \in 1..Cardinality(left)
    BY <1>1, RankGrows
  <2>2. PICK j \in left : /\ Rank(left, j) = Rank(left, i)
                          /\ \A k \in left : Rank(left, k) = Rank(left, i) => k = j
    BY <1>1, <2>1, RankOnto
  <2>3. i = j
    BY <2>2
  <2>4. (CHOOSE k \in left : Rank(left, k) = Rank(left, i)) = i
    BY <2>2, <2>3
  <2> QED BY <2>1, <2>4, <1>4
<1>7. \A i, j \in left : i < j => Rank(left, i) < Rank(left, j)
  BY <1>1, RankGrows
<1>8. \A k \in 1..Cardinality(left) : p[k] \in S
  BY <1>1, <1>5
<1>9. p \in Seq(S) /\ DOMAIN p = 1..Cardinality(left)
  <2> HIDE DEF p, left, n
  <2>1. p = [k \in 1..Cardinality(left) |-> p[k]]
    BY <1>4
  <2>2. p \in [1..Cardinality(left) -> S]
    BY <2>1, <1>8
  <2> QED BY <2>2, <1>3
<1>10. \A i \in left : Rebase(i, D) \in DOMAIN p /\ p[Rebase(i, D)] = q[i]
  BY <1>2, <1>6, <1>9
<1>11. \A i, j \in left : i < j => Rebase(i, D) < Rebase(j, D)
  BY <1>2, <1>7
<1>12. \A k \in DOMAIN p : \E i \in left : Rebase(i, D) = k
  BY <1>2, <1>5, <1>9
<1> QED BY <1>1, <1>9, <1>10, <1>11, <1>12

---------------------------------------------------------------------------

\* No message is twice in a queue.
Distinct(q) == \A i, j \in DOMAIN q : q[i].msg = q[j].msg => i = j

\* A channel is in use from the send until its confirmation is drained; the
\* queue holds each waiting channel once; what was written is on the wire.
ChannelInv ==
  /\ \A r \in Rx : payload[r] = NoMsg <=> rxState[r] = "free"
  /\ \A r \in Rx : rxState[r] # "free" => \E p \in pendingConfirms : p.rx = r
  /\ \A i \in DOMAIN sendQ : sendQ[i] # Cover => rxState[sendQ[i]] = "queued"
  /\ \A i, j \in DOMAIN sendQ : sendQ[i] = sendQ[j] /\ sendQ[i] # Cover => i = j
  /\ \A r \in Rx : rxState[r] \in {"written", "ok"} => payload[r] \in wire

\* What the loop is about to hand over is not under way.
LoopInv ==
  /\ pc = "off" => outbox = <<>> /\ pendingConfirms = {} /\ sendQ = <<>>
  /\ pc = "flush" => toSend \subseteq DOMAIN outbox \ inFlight
  /\ pc # "flush" => toSend = {}
  /\ pc \in {"compose_save", "handoff"} =>
       outbox # <<>> /\ Len(outbox) \notin inFlight

\* A message that is anywhere was composed, and is in a queue once.
MessageInv ==
  /\ Distinct(outbox) /\ Distinct(savedOutbox)
  /\ \A m \in wire \cup expired \cup MsgsOf(outbox) \cup MsgsOf(savedOutbox) : key[m] # 0

BookInv == TypeOK /\ TrackedEntries /\ ChannelInv /\ LoopInv /\ MessageInv

\* The entries that some save has written: while send_message saves, all but
\* the one it has just appended.
Committed == IF pc = "compose_save" THEN 1..Len(outbox) - 1 ELSE DOMAIN outbox

\* Nothing leaves before the ratchet that encrypted it is on disk.
RatchetInv ==
  /\ pc \notin {"off", "compose_save"} => savedRatchet = ratchet
  /\ pc = "compose_save" => \A c \in Contact : savedRatchet[c] <= ratchet[c]
  /\ \A i \in Committed : key[outbox[i].msg] <= savedRatchet[Addressee[outbox[i].msg]]
  /\ \A m \in MsgsOf(outbox) : key[m] <= ratchet[Addressee[m]]
  /\ \A m \in wire \cup MsgsOf(savedOutbox) : key[m] <= savedRatchet[Addressee[m]]
  /\ \A m, n \in wire \cup MsgsOf(outbox) \cup MsgsOf(savedOutbox) :
       Addressee[m] = Addressee[n] /\ key[m] = key[n] => m = n

\* The outbox in memory and the one on disk differ in what is being composed
\* and in what was sent or given up.
QueueInv ==
  /\ \A i \in Committed : outbox[i].msg \in MsgsOf(savedOutbox)
  /\ pc = "compose_save" => outbox[Len(outbox)].msg \notin wire \cup expired
  /\ pc # "off" => MsgsOf(savedOutbox) \ MsgsOf(outbox) \subseteq wire \cup expired

OutboxInv == BookInv /\ RatchetInv /\ QueueInv

-----------------------------------------------------------------------------
(* The operators on entries and queues.                                    *)

\* A queue of entries carries messages.
LEMMA QueueEntries ==
  ASSUME NEW q \in Seq(Entry), NEW i \in DOMAIN q
  PROVE  q[i] \in Entry /\ q[i].msg \in Msg /\ i \in Nat \ {0}
<1>1. q[i] \in Entry /\ i \in Nat \ {0}
  OBVIOUS
<1> QED BY <1>1 DEF Entry

\* The empty queues and the fresh channels that a process starts with.
LEMMA FreshTypes ==
  /\ <<>> \in Seq(Entry) /\ <<>> \in Seq(Rx \cup {Cover})
  /\ Len(<<>>) = 0 /\ DOMAIN <<>> = {} /\ 0 <= QueueCap
  /\ [r \in Rx |-> "free"] \in [Rx -> RxState]
  /\ [r \in Rx |-> NoMsg] \in [Rx -> Msg \cup {NoMsg}]
  /\ [c \in Contact |-> 0] \in [Contact -> Nat]
  /\ [c \in Contact |-> 0] \in [Contact -> 0..MaxDelay]
  /\ 0 \in 0..RetryInterval - 1
BY OutboxConstants DEF RxState

\* Counting an age or a retry leaves the message and the type of an entry.
LEMMA CountedEntry ==
  ASSUME NEW e \in Entry
  PROVE  /\ [e EXCEPT !.age = CountTo(@ + 1, MaxSeqGap)] \in Entry
         /\ [e EXCEPT !.age = CountTo(@ + 1, MaxSeqGap)].msg = e.msg
         /\ [e EXCEPT !.retries = CountTo(@ + 1, RetryBound)] \in Entry
         /\ [e EXCEPT !.retries = CountTo(@ + 1, RetryBound)].msg = e.msg
<1>1. CountTo(e.age + 1, MaxSeqGap) \in 0..MaxSeqGap
  BY OutboxConstants DEF Entry, CountTo
<1>2. CountTo(e.retries + 1, RetryBound) \in 0..RetryBound
  BY OutboxConstants DEF Entry, CountTo
<1> QED BY <1>1, <1>2 DEF Entry

\* A save leaves every message at its index.
LEMMA AgedQueue ==
  ASSUME NEW q \in Seq(Entry)
  PROVE  /\ Aged(q) \in Seq(Entry)
         /\ DOMAIN Aged(q) = DOMAIN q /\ Len(Aged(q)) = Len(q)
         /\ \A i \in DOMAIN q : Aged(q)[i].msg = q[i].msg
         /\ MsgsOf(Aged(q)) = MsgsOf(q)
<1>1. DOMAIN Aged(q) = 1..Len(q) /\ Len(q) \in Nat
  BY DEF Aged
<1>2. ASSUME NEW i \in 1..Len(q)
      PROVE  Aged(q)[i] \in Entry /\ Aged(q)[i].msg = q[i].msg
  <2>1. q[i] \in Entry
    OBVIOUS
  <2>2. Aged(q)[i] = [q[i] EXCEPT !.age = CountTo(@ + 1, MaxSeqGap)]
    BY DEF Aged
  <2> QED BY <2>1, <2>2, CountedEntry
<1>3. Aged(q) \in [1..Len(q) -> Entry]
  <2>1. Aged(q) = [i \in 1..Len(q) |-> Aged(q)[i]]
    BY DEF Aged
  <2> QED BY <2>1, <1>2
<1> HIDE DEF Aged
<1>4. Aged(q) \in Seq(Entry) /\ Len(Aged(q)) = Len(q)
  BY <1>1, <1>3
<1> QED BY <1>1, <1>2, <1>4 DEF MsgsOf

\* prune_outbox and drain_pending_confirms keep the messages they do not
\* remove, and a queue without duplicates stays one.
LEMMA RemovalMessages ==
  ASSUME NEW q \in Seq(Entry), NEW D \in SUBSET (DOMAIN q)
  PROVE  LET p == RemoveIndices(q, D)
         IN  /\ p \in Seq(Entry)
             /\ MsgsOf(p) = {q[i].msg : i \in DOMAIN q \ D}
             /\ Distinct(q) => Distinct(p)
<1> DEFINE p == RemoveIndices(q, D)
           left == DOMAIN q \ D
<1>1. p \in Seq(Entry)
  BY Removal
<1>2. \A i \in left : Rebase(i, D) \in DOMAIN p /\ p[Rebase(i, D)] = q[i]
  BY Removal
<1>3. \A k \in DOMAIN p : \E i \in left : Rebase(i, D) = k
  BY Removal
<1> HIDE DEF p
<1>4. MsgsOf(p) = {q[i].msg : i \in left}
  BY <1>2, <1>3 DEF MsgsOf
<1>5. Distinct(q) => Distinct(p)
  BY <1>2, <1>3 DEF Distinct
<1> QED BY <1>1, <1>4, <1>5 DEF p

\* Composing appends a message to the outbox.
LEMMA AppendedMessage ==
  ASSUME NEW q \in Seq(Entry), NEW m \in Msg
  PROVE  LET p == Append(q, [msg |-> m, retries |-> 0, age |-> 0])
         IN  /\ p \in Seq(Entry) /\ p # <<>>
             /\ Len(p) = Len(q) + 1 /\ DOMAIN p = 1..Len(q) + 1
             /\ \A i \in DOMAIN q : p[i] = q[i]
             /\ p[Len(q) + 1].msg = m
             /\ MsgsOf(p) = MsgsOf(q) \cup {m}
<1> DEFINE e == [msg |-> m, retries |-> 0, age |-> 0]
           p == Append(q, e)
<1>1. e \in Entry /\ e.msg = m
  BY OutboxConstants DEF Entry
<1> HIDE DEF e
<1>2. /\ p \in Seq(Entry) /\ Len(p) = Len(q) + 1 /\ DOMAIN p = 1..Len(q) + 1
      /\ \A i \in 1..Len(q) : p[i] = q[i]
      /\ p[Len(q) + 1] = e
  BY <1>1, AppendProperties
<1> HIDE DEF p
<1>3. p # <<>>
  BY <1>2
<1>4. MsgsOf(p) = MsgsOf(q) \cup {m}
  <2>1. DOMAIN p = DOMAIN q \cup {Len(q) + 1}
    BY <1>2
  <2> QED BY <2>1, <1>1, <1>2 DEF MsgsOf
<1> QED BY <1>1, <1>2, <1>3, <1>4 DEF p, e

-----------------------------------------------------------------------------
(* What the two compound steps of the loop do.                             *)

\* A send that finds room takes a channel that is not in use; the index it is
\* sent for and the channel are remembered together.
LEMMA Sent ==
  ASSUME TypeOK, NEW i \in DOMAIN outbox, TrySend(i)
  PROVE  \/ UNCHANGED <<sendQ, rxState, payload, pendingConfirms, inFlight>>
         \/ \E r \in Rx :
              /\ rxState[r] = "free" /\ Len(sendQ) < QueueCap
              /\ sendQ' = Append(sendQ, r)
              /\ rxState' = [rxState EXCEPT ![r] = "queued"]
              /\ payload' = [payload EXCEPT ![r] = outbox[i].msg]
              /\ pendingConfirms' = pendingConfirms \cup {[idx |-> i, rx |-> r]}
              /\ inFlight' = inFlight \cup {i}
<1>1. CASE Len(sendQ) < QueueCap
  <2> DEFINE r == CHOOSE x \in Rx : x \in FreeRx
  <2>1. FreeRx # {} => r \in Rx /\ rxState[r] = "free"
    BY DEF FreeRx
  <2>2. ~(Len(sendQ) >= QueueCap)
    BY <1>1, OutboxConstants DEF TypeOK
  <2> QED BY <1>1, <2>1, <2>2 DEF TrySend
<1>2. CASE ~(Len(sendQ) < QueueCap)
  BY <1>2 DEF TrySend, netVars
<1> QED BY <1>1, <1>2

\* drain_pending_confirms removes what was delivered from the outbox; the
\* confirmations still awaited are moved to where their entries went.
LEMMA Drained ==
  ASSUME TypeOK, TrackedEntries, MessageInv, Drain
  PROVE  LET left == DOMAIN outbox \ Delivered
             open == pendingConfirms \ Confirms({"ok", "failed"})
             At(i) == Rebase(i, Delivered)
         IN  /\ outbox' \in Seq(Entry) /\ Distinct(outbox')
             /\ MsgsOf(outbox') = {outbox[i].msg : i \in left}
             /\ pendingConfirms' = {[idx |-> At(p.idx), rx |-> p.rx] : p \in open}
             /\ inFlight' = {At(p.idx) : p \in open}
             /\ \A p \in open : p.idx \in left
             /\ \A i \in left : /\ At(i) \in DOMAIN outbox'
                                /\ outbox'[At(i)].msg = outbox[i].msg
             /\ \A i, j \in left : At(i) = At(j) => i = j
<1> DEFINE left == DOMAIN outbox \ Delivered
           open == pendingConfirms \ Confirms({"ok", "failed"})
           At(i) == Rebase(i, Delivered)
           q == CountFailures
<1>1. /\ outbox \in Seq(Entry) /\ DOMAIN outbox = 1..Len(outbox) /\ Len(outbox) \in Nat
      /\ pendingConfirms \subseteq [idx : Nat \ {0}, rx : Rx]
  BY DEF TypeOK
<1>2. /\ q \in Seq(Entry) /\ DOMAIN q = DOMAIN outbox
      /\ \A i \in DOMAIN outbox : q[i].msg = outbox[i].msg
  <2>1. ASSUME NEW i \in DOMAIN outbox
        PROVE  q[i] \in Entry /\ q[i].msg = outbox[i].msg
    <3>1. outbox[i] \in Entry
      BY <1>1
    <3>2. q[i] = IF i \in Failed
                   THEN [outbox[i] EXCEPT !.retries = CountTo(@ + 1, RetryBound)]
                   ELSE outbox[i]
      BY DEF CountFailures
    <3> QED BY <3>1, <3>2, CountedEntry
  <2>2. q = [i \in 1..Len(outbox) |-> q[i]]
    BY <1>1 DEF CountFailures
  <2> HIDE DEF q
  <2>3. q \in [1..Len(outbox) -> Entry]
    BY <1>1, <2>1, <2>2
  <2> QED BY <1>1, <2>1, <2>3
<1>3. Distinct(q)
  BY <1>2 DEF MessageInv, Distinct
<1>4. Delivered \in SUBSET (DOMAIN q)
  BY <1>2 DEF Delivered, Indices, Confirms, TrackedEntries
<1>5. outbox' = RemoveIndices(q, Delivered)
  BY DEF Drain
<1>6. MsgsOf(outbox') = {outbox[i].msg : i \in left}
  <2>1. MsgsOf(outbox') = {q[i].msg : i \in left}
    BY <1>2, <1>4, <1>5, RemovalMessages
  <2> QED BY <2>1, <1>2
<1>7. outbox' \in Seq(Entry) /\ Distinct(outbox')
  BY <1>2, <1>3, <1>4, <1>5, RemovalMessages
<1>8. \A i \in left : At(i) \in DOMAIN outbox' /\ outbox'[At(i)].msg = outbox[i].msg
  BY <1>2, <1>4, <1>5, Removal
<1>9. \A i, j \in left : At(i) = At(j) => i = j
  BY <1>1, <1>7, <1>8 DEF MessageInv, Distinct
<1>10. \A p \in open : p.idx \in left
  BY DEF Delivered, Indices, Confirms, TrackedEntries
<1>11. pendingConfirms' = {[idx |-> At(p.idx), rx |-> p.rx] : p \in open}
  <2>1. \A p \in open : [p EXCEPT !.idx = Rebase(@, Delivered)]
                          = [idx |-> At(p.idx), rx |-> p.rx]
    BY <1>1
  <2> QED BY <2>1 DEF Drain
<1>12. inFlight' = {At(p.idx) : p \in open}
  <2>1. StillInFlight = {p.idx : p \in open}
    BY DEF StillInFlight, Delivered, Failed, Indices, Confirms, TrackedEntries
  <2> QED BY <2>1 DEF Drain
<1> QED BY <1>6, <1>7, <1>8, <1>9, <1>10, <1>11, <1>12

-----------------------------------------------------------------------------
(* Types.                                                                  *)

\* The initial state satisfies the invariant of the bookkeeping.
LEMMA InitBook == Init => BookInv
<1> SUFFICES ASSUME Init PROVE BookInv
  OBVIOUS
<1>1. TypeOK
  <2>1. savedRatchet \in [Contact -> Nat] /\ key \in [Msg -> Nat]
    BY DEF Init
  <2> QED BY <2>1, FreshTypes DEF Init, TypeOK, Step
<1>2. TrackedEntries
  BY DEF Init, TrackedEntries, Indices
<1>3. ChannelInv
  BY DEF Init, ChannelInv
<1>4. LoopInv
  BY DEF Init, LoopInv
<1>5. MessageInv
  BY DEF Init, MessageInv, Distinct, MsgsOf
<1> QED BY <1>1, <1>2, <1>3, <1>4, <1>5 DEF BookInv

\* Every step keeps the types.
LEMMA TypeStep == BookInv /\ [Next]_vars => TypeOK'
<1> SUFFICES ASSUME BookInv, [Next]_vars PROVE TypeOK'
  OBVIOUS
<1> USE DEF BookInv, appVars, netVars, diskVars, ghostVars
<1>0. TypeOK /\ {"off", "prune_save", "collect", "flush", "keys", "other_save",
                 "compose_save", "handoff", "drain", "drain_save", "tick",
                 "exit_save"} = Step
  BY DEF Step
<1>1. CASE UNCHANGED vars
  BY <1>1 DEF vars, TypeOK
<1>2. CASE Start
  <2>1. PrunedIndices(savedOutbox) \in SUBSET (DOMAIN savedOutbox)
    BY DEF PrunedIndices
  <2>2. outbox' \in Seq(Entry)
    BY <2>1, <1>2, RemovalMessages DEF Start, TypeOK
  <2>3. expired' \subseteq Msg
    <3>1. \A i \in DOMAIN savedOutbox : savedOutbox[i].msg \in Msg
      BY QueueEntries DEF TypeOK
    <3> QED BY <2>1, <3>1, <1>2 DEF Start, TypeOK
  <2> QED BY <1>0, <1>2, <2>2, <2>3 DEF Start, TypeOK
<1>3. CASE Save
  <2>1. outbox' \in Seq(Entry)
    BY <1>3, AgedQueue DEF Save, TypeOK
  <2>2. pc' \in Step
    BY <1>0, <1>3 DEF Save, AfterSave
  <2> QED BY <1>3, <2>1, <2>2 DEF Save, TypeOK
<1>4. CASE Collect
  BY <1>0, <1>4 DEF Collect, TypeOK, Due
<1>5. ASSUME NEW i \in DOMAIN outbox, TrySend(i),
             UNCHANGED <<running, outbox, ratchet, backoff, retryTick, diskVars, ghostVars>>,
             pc' \in Step, toSend' \subseteq Nat \ {0}
      PROVE  TypeOK'
  <2>1. CASE UNCHANGED <<sendQ, rxState, payload, pendingConfirms, inFlight>>
    BY <1>5, <2>1 DEF TypeOK
  <2>2. ASSUME NEW r \in Rx, Len(sendQ) < QueueCap, sendQ' = Append(sendQ, r),
               rxState' = [rxState EXCEPT ![r] = "queued"],
               payload' = [payload EXCEPT ![r] = outbox[i].msg],
               pendingConfirms' = pendingConfirms \cup {[idx |-> i, rx |-> r]},
               inFlight' = inFlight \cup {i}
        PROVE  TypeOK'
    <3>1. sendQ' \in Seq(Rx \cup {Cover}) /\ Len(sendQ') <= QueueCap
      BY <2>2, OutboxConstants, AppendProperties DEF TypeOK
    <3>2. outbox[i].msg \in Msg /\ i \in Nat \ {0}
      BY QueueEntries DEF TypeOK
    <3>3. rxState' \in [Rx -> RxState] /\ payload' \in [Rx -> Msg \cup {NoMsg}]
      BY <2>2, <3>2 DEF TypeOK, RxState
    <3>4. [idx |-> i, rx |-> r] \in [idx : Nat \ {0}, rx : Rx]
      BY <3>2
    <3>5. pendingConfirms' \subseteq [idx : Nat \ {0}, rx : Rx] /\ inFlight' \subseteq Nat \ {0}
      BY <2>2, <3>2, <3>4 DEF TypeOK
    <3> QED BY <1>5, <3>1, <3>3, <3>5 DEF TypeOK
  <2> QED BY <1>5, <2>1, <2>2, Sent
<1>6. CASE FlushOne
  BY <1>6, <1>5 DEF FlushOne, LoopInv, TypeOK
<1>7. CASE FlushEnd \/ NoKey \/ OtherEdit
  BY <1>0, <1>7 DEF FlushEnd, EndPass, NoKey, OtherEdit, TypeOK
<1>8. CASE Quit
  BY <1>0, <1>8 DEF Quit, TypeOK
<1>9. ASSUME NEW m \in Msg, Compose(m) PROVE TypeOK'
  <2>1. outbox' \in Seq(Entry)
    BY <1>9, AppendedMessage DEF Compose, TypeOK
  <2>2. ratchet' \in [Contact -> Nat] /\ key' \in [Msg -> Nat]
    <3>1. Addressee[m] \in Contact /\ ratchet[Addressee[m]] + 1 \in Nat
      BY OutboxConstants DEF TypeOK
    <3> QED BY <1>9, <3>1 DEF Compose, TypeOK
  <2> QED BY <1>0, <1>9, <2>1, <2>2 DEF Compose, TypeOK
<1>10. CASE Handoff
  <2>1. Len(outbox) \in DOMAIN outbox
    BY <1>10 DEF Handoff, LoopInv, TypeOK
  <2> QED BY <1>0, <1>5, <1>10, <2>1 DEF Handoff, TypeOK
<1>11. CASE Drain
  <2> DEFINE left == DOMAIN outbox \ Delivered
             open == pendingConfirms \ Confirms({"ok", "failed"})
             At(i) == Rebase(i, Delivered)
  <2>1. /\ outbox' \in Seq(Entry)
        /\ pendingConfirms' = {[idx |-> At(p.idx), rx |-> p.rx] : p \in open}
        /\ inFlight' = {At(p.idx) : p \in open}
        /\ \A p \in open : At(p.idx) \in DOMAIN outbox'
    BY <1>11, Drained
  <2>2. \A p \in open : At(p.idx) \in Nat \ {0} /\ p.rx \in Rx
    BY <2>1 DEF TypeOK
  <2>3. pendingConfirms' \subseteq [idx : Nat \ {0}, rx : Rx] /\ inFlight' \subseteq Nat \ {0}
    BY <2>1, <2>2
  <2>4. rxState' \in [Rx -> RxState] /\ payload' \in [Rx -> Msg \cup {NoMsg}]
    BY <1>11 DEF Drain, TypeOK, RxState
  <2>5. backoff' \in [Contact -> 0..MaxDelay] /\ pc' \in Step
    BY <1>0, <1>11 DEF Drain
  <2> QED BY <1>11, <2>1, <2>3, <2>4, <2>5 DEF Drain, TypeOK
<1>12. CASE Tick
  <2>1. retryTick' \in 0..RetryInterval - 1
    BY <1>12, OutboxConstants DEF Tick, TypeOK
  <2>2. backoff' \in [Contact -> 0..MaxDelay]
    BY <1>12, OutboxConstants DEF Tick, TypeOK
  <2> QED BY <1>0, <1>12, <2>1, <2>2 DEF Tick, EndPass, TypeOK
<1>13. CASE Exit \/ Killed
  <2>1. savedOutbox' \in Seq(Entry) /\ savedRatchet' \in [Contact -> Nat]
    BY <1>13, AgedQueue DEF Exit, Killed, TypeOK
  <2>2. ProcessEnds
    BY <1>13 DEF Exit, Killed
  <2> QED BY <1>0, <2>1, <2>2, FreshTypes DEF ProcessEnds, TypeOK
<1>14. CASE Spawn
  <2>1. /\ Head(sendQ) \in Rx \cup {Cover} /\ Tail(sendQ) \in Seq(Rx \cup {Cover})
        /\ Len(Tail(sendQ)) = Len(sendQ) - 1 /\ Len(sendQ) \in Nat
    BY <1>14, HeadTailProperties DEF Spawn, TypeOK
  <2>2. rxState' \in [Rx -> RxState]
    BY <1>14, <2>1 DEF Spawn, TypeOK, RxState
  <2>3. sendQ' \in Seq(Rx \cup {Cover}) /\ Len(sendQ') <= QueueCap
    BY <1>14, <2>1, OutboxConstants DEF Spawn, TypeOK
  <2> QED BY <1>14, <2>2, <2>3 DEF Spawn, TypeOK
<1>15. CASE SendCover
  <2>1. sendQ' \in Seq(Rx \cup {Cover}) /\ Len(sendQ') <= QueueCap
    BY <1>15, OutboxConstants, AppendProperties DEF SendCover, TypeOK
  <2> QED BY <1>15, <2>1 DEF SendCover, TypeOK
<1>16. ASSUME NEW r \in Rx, Task(r) PROVE TypeOK'
  <2>1. rxState' \in [Rx -> RxState]
    BY <1>16 DEF Task, WriteFrame, Confirm, Fails, ConnectFails, WriteFails, TaskEnds,
                 TypeOK, RxState
  <2>2. wire' \subseteq Msg
    BY <1>16, OutboxConstants DEF Task, WriteFrame, Confirm, Fails, ConnectFails, WriteFails,
                 TaskEnds, TypeOK, ChannelInv
  <2> QED
    BY <1>16, <2>1, <2>2 DEF Task, WriteFrame, Confirm, Fails, ConnectFails, WriteFails,
                             TaskEnds, TypeOK
<1> QED
  BY <1>1, <1>2, <1>3, <1>4, <1>6, <1>7, <1>8, <1>9, <1>10, <1>11, <1>12, <1>13, <1>14,
     <1>15, <1>16 DEF Next, Loop

-----------------------------------------------------------------------------
(* The bookkeeping.                                                        *)

\* flush_outbox and send_message hand over entries that are not under way.
LEMMA HandOver ==
  ASSUME BookInv, FlushOne \/ Handoff
  PROVE  \E i \in DOMAIN outbox \ inFlight :
           TrySend(i) /\ UNCHANGED <<running, outbox, ratchet, savedOutbox, savedRatchet,
                                     key, wire, expired>>
<1>1. CASE FlushOne
  BY <1>1 DEF FlushOne, BookInv, LoopInv, diskVars, ghostVars
<1>2. CASE Handoff
  <2>1. Len(outbox) \in DOMAIN outbox \ inFlight
    BY <1>2 DEF Handoff, BookInv, LoopInv, TypeOK
  <2> QED BY <1>2, <2>1 DEF Handoff, diskVars, ghostVars
<1> QED BY <1>1, <1>2

\* The channels of the queue, the tasks and the loop agree after every step.
LEMMA ChannelStep == BookInv /\ [Next]_vars => ChannelInv'
<1> SUFFICES ASSUME BookInv, [Next]_vars PROVE ChannelInv'
  OBVIOUS
<1> USE DEF appVars, netVars, diskVars, ghostVars
<1>0. TypeOK /\ ChannelInv /\ TrackedEntries
  BY DEF BookInv
<1>1. CASE UNCHANGED <<sendQ, rxState, payload, pendingConfirms, wire>>
  BY <1>0, <1>1 DEF ChannelInv
<1>2. CASE \/ Start \/ Save \/ Collect \/ FlushEnd \/ NoKey \/ OtherEdit \/ Quit \/ Tick
           \/ (\E m \in Msg : Compose(m)) \/ UNCHANGED vars
  BY <1>1, <1>2 DEF Start, Save, Collect, FlushEnd, NoKey, OtherEdit, Quit, Tick, Compose, vars
<1>3. CASE FlushOne \/ Handoff
  <2>1. PICK i \in DOMAIN outbox \ inFlight : TrySend(i) /\ wire' = wire
    BY <1>3, HandOver
  <2>2. CASE UNCHANGED <<sendQ, rxState, payload, pendingConfirms, inFlight>>
    BY <1>1, <2>1, <2>2
  <2>3. ASSUME NEW r \in Rx, rxState[r] = "free", sendQ' = Append(sendQ, r),
               rxState' = [rxState EXCEPT ![r] = "queued"],
               payload' = [payload EXCEPT ![r] = outbox[i].msg],
               pendingConfirms' = pendingConfirms \cup {[idx |-> i, rx |-> r]}
        PROVE  ChannelInv'
    <3>1. outbox[i].msg \in Msg /\ outbox[i].msg # NoMsg
      BY <1>0, QueueEntries, OutboxConstants DEF TypeOK
    <3>2. /\ DOMAIN sendQ' = 1..Len(sendQ) + 1 /\ DOMAIN sendQ = 1..Len(sendQ)
          /\ \A k \in 1..Len(sendQ) : sendQ'[k] = sendQ[k]
          /\ sendQ'[Len(sendQ) + 1] = r /\ Len(sendQ) \in Nat
          /\ \A k \in 1..Len(sendQ) : sendQ[k] \in Rx \cup {Cover}
      BY <1>0, <2>3, AppendProperties, LenProperties DEF TypeOK
    <3>3. \A s \in Rx : /\ payload'[s] = (IF s = r THEN outbox[i].msg ELSE payload[s])
                        /\ rxState'[s] = (IF s = r THEN "queued" ELSE rxState[s])
      BY <1>0, <2>3 DEF TypeOK
    <3>4. \A k \in 1..Len(sendQ) : sendQ[k] # r
      BY <1>0, <2>3, <3>2, OutboxConstants DEF ChannelInv
    <3>5. \A s \in Rx : payload'[s] = NoMsg <=> rxState'[s] = "free"
      BY <1>0, <3>1, <3>3 DEF ChannelInv
    <3>6. \A s \in Rx : rxState'[s] # "free" => \E p \in pendingConfirms' : p.rx = s
      <4>1. [idx |-> i, rx |-> r] \in pendingConfirms' /\ [idx |-> i, rx |-> r].rx = r
        BY <2>3
      <4>2. \A p \in pendingConfirms : p \in pendingConfirms'
        BY <2>3
      <4> QED BY <1>0, <3>3, <4>1, <4>2 DEF ChannelInv
    <3>7. \A k \in DOMAIN sendQ' : sendQ'[k] # Cover => rxState'[sendQ'[k]] = "queued"
      BY <1>0, <3>2, <3>3, <3>4 DEF ChannelInv
    <3>8. \A k, l \in DOMAIN sendQ' : sendQ'[k] = sendQ'[l] /\ sendQ'[k] # Cover => k = l
      BY <1>0, <3>2, <3>4 DEF ChannelInv
    <3>9. \A s \in Rx : rxState'[s] \in {"written", "ok"} => payload'[s] \in wire'
      BY <1>0, <2>1, <3>3 DEF ChannelInv
    <3> QED BY <3>5, <3>6, <3>7, <3>8, <3>9 DEF ChannelInv
  <2> QED BY <1>0, <2>1, <2>2, <2>3, Sent
<1>4. CASE Drain
  <2> DEFINE open == pendingConfirms \ Confirms({"ok", "failed"})
  <2>1. pendingConfirms' = {[idx |-> Rebase(p.idx, Delivered), rx |-> p.rx] : p \in open}
    BY <1>0, <1>4, Drained DEF BookInv
  <2>2. /\ \A r \in Rx : /\ rxState[r] \in {"ok", "failed"} =>
                              rxState'[r] = "free" /\ payload'[r] = NoMsg
                         /\ rxState[r] \notin {"ok", "failed"} =>
                              rxState'[r] = rxState[r] /\ payload'[r] = payload[r]
        /\ sendQ' = sendQ /\ wire' = wire
    BY <1>4 DEF Drain
  <2>3. \A r \in Rx : rxState'[r] # "free" => \E p \in pendingConfirms' : p.rx = r
    <3> SUFFICES ASSUME NEW r \in Rx, rxState'[r] # "free"
                 PROVE  \E p \in pendingConfirms' : p.rx = r
      OBVIOUS
    <3>1. rxState[r] \notin {"ok", "failed"} /\ rxState[r] # "free"
      BY <2>2
    <3>2. PICK p \in pendingConfirms : p.rx = r
      BY <1>0, <3>1 DEF ChannelInv
    <3>3. p \in open
      BY <3>1, <3>2 DEF Confirms
    <3>4. [idx |-> Rebase(p.idx, Delivered), rx |-> p.rx] \in pendingConfirms'
      BY <2>1, <3>3
    <3> QED BY <3>2, <3>4
  <2>4. \A i \in DOMAIN sendQ : sendQ[i] \in Rx \cup {Cover}
    BY <1>0 DEF TypeOK
  <2> QED BY <1>0, <2>2, <2>3, <2>4 DEF ChannelInv
<1>5. CASE Exit \/ Killed
  BY <1>5, FreshTypes DEF Exit, Killed, ProcessEnds, ChannelInv
<1>6. CASE Spawn
  <2>1. /\ sendQ' = Tail(sendQ) /\ DOMAIN sendQ = 1..Len(sendQ) /\ Len(sendQ) \in Nat \ {0}
        /\ DOMAIN sendQ' = 1..Len(sendQ) - 1 /\ Head(sendQ) = sendQ[1]
        /\ \A k \in DOMAIN sendQ' : sendQ'[k] = sendQ[k + 1] /\ k + 1 \in DOMAIN sendQ
        /\ \A k \in DOMAIN sendQ : sendQ[k] \in Rx \cup {Cover}
    BY <1>0, <1>6, HeadTailProperties DEF Spawn, TypeOK
  <2>2. \A k, l \in DOMAIN sendQ' : sendQ'[k] = sendQ'[l] /\ sendQ'[k] # Cover => k = l
    BY <1>0, <2>1 DEF ChannelInv
  <2>3. \A k \in DOMAIN sendQ' : sendQ'[k] # Cover => sendQ'[k] # Head(sendQ)
    BY <1>0, <2>1 DEF ChannelInv
  <2>4. CASE Head(sendQ) = Cover
    BY <1>0, <1>6, <2>1, <2>2, <2>4 DEF Spawn, ChannelInv
  <2>5. CASE Head(sendQ) # Cover
    <3> DEFINE h == Head(sendQ)
    <3>1. h \in Rx /\ rxState[h] = "queued"
      BY <1>0, <2>1, <2>5 DEF ChannelInv
    <3>2. \A s \in Rx : rxState'[s] = IF s = h THEN "running" ELSE rxState[s]
      BY <1>0, <1>6, <2>5 DEF Spawn, TypeOK
    <3>3. UNCHANGED <<payload, pendingConfirms, wire>>
      BY <1>6 DEF Spawn
    <3>4. \A k \in DOMAIN sendQ' : sendQ'[k] # Cover => rxState'[sendQ'[k]] = "queued"
      BY <1>0, <2>1, <2>3, <3>2 DEF ChannelInv
    <3> QED BY <1>0, <2>2, <3>1, <3>2, <3>3, <3>4 DEF ChannelInv
  <2> QED BY <2>4, <2>5
<1>7. CASE SendCover
  <2>1. /\ DOMAIN sendQ' = 1..Len(sendQ) + 1 /\ DOMAIN sendQ = 1..Len(sendQ)
        /\ \A k \in 1..Len(sendQ) : sendQ'[k] = sendQ[k]
        /\ sendQ'[Len(sendQ) + 1] = Cover /\ Len(sendQ) \in Nat
    BY <1>0, <1>7, AppendProperties, LenProperties DEF SendCover, TypeOK
  <2> QED BY <1>0, <1>7, <2>1 DEF SendCover, ChannelInv
<1>8. ASSUME NEW r \in Rx, Task(r) PROVE ChannelInv'
  <2>1. /\ \A s \in Rx : s # r => rxState'[s] = rxState[s]
        /\ rxState[r] \in {"running", "written"}
        /\ rxState'[r] \in {"written", "ok", "failed"}
        /\ rxState'[r] \in {"written", "ok"} => payload[r] \in wire'
        /\ wire \subseteq wire' /\ UNCHANGED <<sendQ, payload, pendingConfirms>>
    BY <1>0, <1>8 DEF Task, WriteFrame, Confirm, Fails, ConnectFails, WriteFails, TaskEnds,
                      TypeOK, ChannelInv
  <2>2. \A k \in DOMAIN sendQ : sendQ[k] # Cover => sendQ[k] \in Rx /\ sendQ[k] # r
    BY <1>0, <2>1 DEF TypeOK, ChannelInv
  <2> QED BY <1>0, <2>1, <2>2 DEF ChannelInv
<1> QED BY <1>2, <1>3, <1>4, <1>5, <1>6, <1>7, <1>8 DEF Next, Loop

\* Indices kept for confirmations keep naming the entries that were sent.
LEMMA TrackedStep == BookInv /\ [Next]_vars => TrackedEntries'
<1> SUFFICES ASSUME BookInv, [Next]_vars PROVE TrackedEntries'
  OBVIOUS
<1> USE DEF appVars, netVars, diskVars, ghostVars
<1>0. /\ TypeOK /\ ChannelInv /\ TrackedEntries /\ LoopInv
      /\ pendingConfirms \subseteq [idx : Nat \ {0}, rx : Rx]
  BY DEF BookInv, TypeOK
<1>1. ASSUME UNCHANGED <<pendingConfirms, inFlight>>,
             \A p \in pendingConfirms :
               /\ payload'[p.rx] = payload[p.rx]
               /\ p.idx \in DOMAIN outbox' /\ outbox'[p.idx].msg = outbox[p.idx].msg
      PROVE  TrackedEntries'
  BY <1>0, <1>1 DEF TrackedEntries, Indices
<1>2. CASE UNCHANGED <<pendingConfirms, inFlight, outbox, payload>>
  BY <1>0, <1>2 DEF TrackedEntries, Indices
<1>3. CASE \/ Collect \/ FlushEnd \/ NoKey \/ OtherEdit \/ Quit \/ Tick \/ Spawn \/ SendCover
           \/ (\E r \in Rx : Task(r)) \/ UNCHANGED vars
  BY <1>2, <1>3 DEF Collect, FlushEnd, NoKey, OtherEdit, Quit, Tick, Spawn, SendCover, Task,
                    WriteFrame, Confirm, Fails, ConnectFails, WriteFails, TaskEnds, vars
<1>4. CASE Start
  BY <1>0, <1>1, <1>4 DEF Start, LoopInv
<1>5. CASE Save
  <2>1. DOMAIN outbox' = DOMAIN outbox /\ \A i \in DOMAIN outbox : outbox'[i].msg = outbox[i].msg
    BY <1>0, <1>5, AgedQueue DEF Save, TypeOK
  <2> QED BY <1>0, <1>1, <1>5, <2>1 DEF Save, TrackedEntries
<1>6. ASSUME NEW m \in Msg, Compose(m) PROVE TrackedEntries'
  <2>1. \A i \in DOMAIN outbox : i \in DOMAIN outbox' /\ outbox'[i] = outbox[i]
    BY <1>0, <1>6, AppendedMessage DEF Compose, TypeOK
  <2> QED BY <1>0, <1>1, <1>6, <2>1 DEF Compose, TrackedEntries
<1>7. CASE FlushOne \/ Handoff
  <2>1. PICK i \in DOMAIN outbox \ inFlight : TrySend(i) /\ outbox' = outbox
    BY <1>7, HandOver
  <2>2. CASE UNCHANGED <<sendQ, rxState, payload, pendingConfirms, inFlight>>
    BY <1>2, <2>1, <2>2
  <2>3. ASSUME NEW r \in Rx, rxState[r] = "free",
               payload' = [payload EXCEPT ![r] = outbox[i].msg],
               pendingConfirms' = pendingConfirms \cup {[idx |-> i, rx |-> r]},
               inFlight' = inFlight \cup {i}
        PROVE  TrackedEntries'
    <3> DEFINE new == [idx |-> i, rx |-> r]
    <3>1. \A p \in pendingConfirms : p.idx # i /\ p.rx # r
      <4> SUFFICES ASSUME NEW p \in pendingConfirms PROVE p.idx # i /\ p.rx # r
        OBVIOUS
      <4>1. p.idx \in inFlight
        BY <1>0 DEF TrackedEntries, Indices
      <4>2. payload[p.rx] = outbox[p.idx].msg /\ p.idx \in DOMAIN outbox /\ p.rx \in Rx
        BY <1>0 DEF TrackedEntries
      <4>3. payload[p.rx] # NoMsg
        BY <1>0, <4>2, QueueEntries, OutboxConstants DEF TypeOK
      <4> QED BY <1>0, <2>3, <4>1, <4>2, <4>3 DEF ChannelInv
    <3>2. new.idx = i /\ new.rx = r
      OBVIOUS
    <3>3. payload'[r] = outbox[i].msg /\ \A s \in Rx : s # r => payload'[s] = payload[s]
      BY <1>0, <2>3 DEF TypeOK
    <3> HIDE DEF new
    <3>4. pendingConfirms' = pendingConfirms \cup {new}
      BY <2>3 DEF new
    <3>5. inFlight' = Indices(pendingConfirms')
      BY <1>0, <2>3, <3>2, <3>4 DEF TrackedEntries, Indices
    <3>6. \A p \in pendingConfirms' : p.idx \in DOMAIN outbox' /\ payload'[p.rx] = outbox'[p.idx].msg
      BY <1>0, <2>1, <3>1, <3>2, <3>3, <3>4 DEF TrackedEntries
    <3>7. \A p, q \in pendingConfirms' : p.idx = q.idx \/ p.rx = q.rx => p = q
      BY <1>0, <3>1, <3>2, <3>4 DEF TrackedEntries
    <3> QED BY <3>5, <3>6, <3>7 DEF TrackedEntries, Indices
  <2> QED BY <1>0, <2>1, <2>2, <2>3, Sent
<1>8. CASE Drain
  <2> DEFINE left == DOMAIN outbox \ Delivered
             open == pendingConfirms \ Confirms({"ok", "failed"})
             At(i) == Rebase(i, Delivered)
             Moved(p) == [idx |-> At(p.idx), rx |-> p.rx]
  <2>1. /\ pendingConfirms' = {Moved(p) : p \in open} /\ inFlight' = {At(p.idx) : p \in open}
        /\ \A p \in open : p.idx \in left
        /\ \A i \in left : At(i) \in DOMAIN outbox' /\ outbox'[At(i)].msg = outbox[i].msg
        /\ \A i, j \in left : At(i) = At(j) => i = j
    BY <1>0, <1>8, Drained DEF BookInv
  <2>2. \A p \in open : p \in pendingConfirms /\ p.rx \in Rx /\ payload'[p.rx] = payload[p.rx]
    BY <1>0, <1>8 DEF Drain, Confirms
  <2>3. \A p \in open : Moved(p).idx = At(p.idx) /\ Moved(p).rx = p.rx
    OBVIOUS
  <2> HIDE DEF Moved, At, open, left
  <2>4. inFlight' = Indices(pendingConfirms')
    BY <2>1, <2>3 DEF Indices
  <2>5. \A p \in pendingConfirms' : p.idx \in DOMAIN outbox' /\ payload'[p.rx] = outbox'[p.idx].msg
    BY <1>0, <2>1, <2>2, <2>3 DEF TrackedEntries
  <2>6. \A p, q \in open : Moved(p).idx = Moved(q).idx \/ Moved(p).rx = Moved(q).rx => p = q
    BY <1>0, <2>1, <2>2, <2>3 DEF TrackedEntries
  <2>7. \A p, q \in pendingConfirms' : p.idx = q.idx \/ p.rx = q.rx => p = q
    BY <2>1, <2>6
  <2> QED BY <2>4, <2>5, <2>7 DEF TrackedEntries, Indices
<1>9. CASE Exit \/ Killed
  BY <1>9 DEF Exit, Killed, ProcessEnds, TrackedEntries, Indices
<1> QED BY <1>3, <1>4, <1>5, <1>6, <1>7, <1>8, <1>9 DEF Next, Loop

\* The loop hands over what is not under way, and nothing while it is off.
LEMMA LoopStep == BookInv /\ [Next]_vars => LoopInv'
<1> SUFFICES ASSUME BookInv, [Next]_vars PROVE LoopInv'
  OBVIOUS
<1> USE DEF appVars, netVars, diskVars, ghostVars
<1>0. TypeOK /\ TrackedEntries /\ LoopInv
  BY DEF BookInv
<1>1. CASE UNCHANGED vars
  BY <1>0, <1>1 DEF vars, LoopInv
<1>2. CASE Start
  BY <1>0, <1>2 DEF Start, LoopInv
<1>3. CASE Save
  <2>1. Len(outbox') = Len(outbox) /\ outbox' \in Seq(Entry)
    BY <1>0, <1>3, AgedQueue DEF Save, TypeOK
  <2>2. pc = "compose_save" => outbox' # <<>>
    BY <1>0, <1>3, <2>1 DEF LoopInv, TypeOK
  <2> QED BY <1>0, <1>3, <2>1, <2>2 DEF Save, AfterSave, LoopInv
<1>4. CASE Collect
  BY <1>0, <1>4 DEF Collect, Due, LoopInv
<1>5. CASE FlushOne \/ Handoff
  <2>1. PICK i \in DOMAIN outbox \ inFlight : TrySend(i) /\ outbox' = outbox
    BY <1>5, HandOver
  <2>2. inFlight' \subseteq inFlight \cup {i}
    BY <1>0, <2>1, Sent
  <2>3. CASE FlushOne
    <3>1. PICK j \in toSend : TrySend(j) /\ toSend' = toSend \ {j} /\ UNCHANGED <<pc, outbox>>
      BY <2>3 DEF FlushOne
    <3>2. j \in DOMAIN outbox /\ pc = "flush"
      BY <1>0, <2>3, <3>1 DEF FlushOne, LoopInv
    <3>3. inFlight' \subseteq inFlight \cup {j}
      BY <1>0, <3>1, <3>2, Sent
    <3> QED BY <1>0, <3>1, <3>2, <3>3 DEF LoopInv
  <2>4. CASE Handoff
    BY <1>0, <2>4 DEF Handoff, LoopInv
  <2> QED BY <1>5, <2>3, <2>4
<1>6. CASE FlushEnd \/ NoKey \/ OtherEdit \/ Quit \/ Tick
  BY <1>0, <1>6 DEF FlushEnd, EndPass, NoKey, OtherEdit, Quit, Tick, LoopInv
<1>7. ASSUME NEW m \in Msg, Compose(m) PROVE LoopInv'
  <2>1. outbox' # <<>> /\ Len(outbox') = Len(outbox) + 1
    <3>1. outbox \in Seq(Entry)
      BY <1>0 DEF TypeOK
    <3>2. outbox' = Append(outbox, [msg |-> m, retries |-> 0, age |-> 0])
      BY <1>7 DEF Compose
    <3> QED BY <3>1, <3>2, AppendedMessage
  <2>2. Len(outbox) + 1 \notin inFlight
    BY <1>0 DEF TrackedEntries, Indices, TypeOK
  <2> QED BY <1>0, <1>7, <2>1, <2>2 DEF Compose, LoopInv
<1>8. CASE Drain
  BY <1>0, <1>8 DEF Drain, LoopInv
<1>9. CASE Exit \/ Killed
  BY <1>9 DEF Exit, Killed, ProcessEnds, LoopInv
<1>10. CASE Spawn \/ SendCover
  BY <1>0, <1>10 DEF Spawn, SendCover, LoopInv
<1>11. ASSUME NEW r \in Rx, Task(r) PROVE LoopInv'
  BY <1>0, <1>11 DEF Task, WriteFrame, Confirm, Fails, ConnectFails, WriteFails, TaskEnds,
                     LoopInv
<1> QED
  BY <1>1, <1>2, <1>3, <1>4, <1>5, <1>6, <1>7, <1>8, <1>9, <1>10, <1>11 DEF Next, Loop

\* What a channel carries is the message of an entry that is under way.
LEMMA Carried ==
  ASSUME BookInv, NEW r \in Rx, rxState[r] # "free"
  PROVE  \E i \in DOMAIN outbox : i \in inFlight /\ payload[r] = outbox[i].msg
<1>1. PICK p \in pendingConfirms : p.rx = r
  BY DEF BookInv, ChannelInv
<1>2. p.idx \in inFlight
  BY <1>1 DEF BookInv, TrackedEntries, Indices
<1> QED BY <1>1, <1>2 DEF BookInv, TrackedEntries

\* Messages stay composed, and in each queue once.
LEMMA MessageStep == BookInv /\ [Next]_vars => MessageInv'
<1> SUFFICES ASSUME BookInv, [Next]_vars PROVE MessageInv'
  OBVIOUS
<1> USE DEF appVars, netVars, diskVars, ghostVars
<1>0. /\ TypeOK /\ MessageInv /\ TrackedEntries
      /\ outbox \in Seq(Entry) /\ savedOutbox \in Seq(Entry)
  BY DEF BookInv, TypeOK
<1>1. CASE UNCHANGED <<outbox, savedOutbox, key, wire, expired>>
  BY <1>0, <1>1 DEF MessageInv, Distinct, MsgsOf
<1>2. CASE \/ Collect \/ FlushEnd \/ NoKey \/ OtherEdit \/ Quit \/ Tick \/ Spawn \/ SendCover
           \/ FlushOne \/ Handoff \/ UNCHANGED vars
  BY <1>1, <1>2 DEF Collect, FlushEnd, NoKey, OtherEdit, Quit, Tick, Spawn, SendCover,
                    FlushOne, Handoff, vars
<1>3. CASE Start
  <2> DEFINE D == PrunedIndices(savedOutbox)
  <2>1. D \in SUBSET (DOMAIN savedOutbox)
    BY DEF PrunedIndices
  <2>2. /\ MsgsOf(outbox') = {savedOutbox[i].msg : i \in DOMAIN savedOutbox \ D}
        /\ Distinct(savedOutbox) => Distinct(outbox')
    BY <1>0, <1>3, <2>1, RemovalMessages DEF Start
  <2>3. expired' \subseteq expired \cup MsgsOf(savedOutbox)
    BY <1>3, <2>1 DEF Start, MsgsOf
  <2>4. UNCHANGED <<savedOutbox, key, wire>>
    BY <1>3 DEF Start
  <2>5. MsgsOf(outbox') \subseteq MsgsOf(savedOutbox)
    BY <2>2 DEF MsgsOf
  <2> QED BY <1>0, <2>2, <2>3, <2>4, <2>5 DEF MessageInv
<1>4. CASE Save
  <2>1. MsgsOf(outbox') = MsgsOf(outbox) /\ Distinct(outbox')
    BY <1>0, <1>4, AgedQueue DEF Save, MessageInv, Distinct
  <2>2. savedOutbox' \in {outbox', savedOutbox} /\ UNCHANGED ghostVars
    BY <1>4 DEF Save
  <2> QED BY <1>0, <2>1, <2>2 DEF MessageInv
<1>5. ASSUME NEW m \in Msg, Compose(m) PROVE MessageInv'
  <2>1. /\ DOMAIN outbox' = 1..Len(outbox) + 1 /\ DOMAIN outbox = 1..Len(outbox)
        /\ Len(outbox) \in Nat
        /\ \A i \in DOMAIN outbox : outbox'[i] = outbox[i]
        /\ outbox'[Len(outbox) + 1].msg = m
        /\ MsgsOf(outbox') = MsgsOf(outbox) \cup {m}
    BY <1>0, <1>5, AppendedMessage DEF Compose
  <2>2. /\ key[m] = 0 /\ key'[m] # 0 /\ \A n \in Msg : n # m => key'[n] = key[n]
        /\ UNCHANGED <<savedOutbox, wire, expired>>
    <3>1. Addressee[m] \in Contact /\ ratchet[Addressee[m]] + 1 # 0
      BY <1>0, OutboxConstants DEF TypeOK
    <3> QED BY <1>0, <1>5, <3>1 DEF Compose, TypeOK
  <2>3. Distinct(outbox')
    <3>1. \A i \in DOMAIN outbox : outbox'[i].msg # m
      BY <1>0, <2>1, <2>2 DEF MessageInv, MsgsOf
    <3> QED BY <1>0, <2>1, <3>1 DEF MessageInv, Distinct
  <2>4. wire \cup expired \cup MsgsOf(outbox) \cup MsgsOf(savedOutbox) \subseteq Msg
    BY <1>0, QueueEntries DEF TypeOK, MsgsOf
  <2> QED BY <1>0, <2>1, <2>2, <2>3, <2>4 DEF MessageInv
<1>6. CASE Drain
  <2>1. Distinct(outbox') /\ MsgsOf(outbox') = {outbox[i].msg : i \in DOMAIN outbox \ Delivered}
    BY <1>0, <1>6, Drained
  <2>2. MsgsOf(outbox') \subseteq MsgsOf(outbox)
    BY <2>1 DEF MsgsOf
  <2>3. UNCHANGED <<savedOutbox, key, wire, expired>>
    BY <1>6 DEF Drain
  <2> QED BY <1>0, <2>1, <2>2, <2>3 DEF MessageInv
<1>7. CASE Exit \/ Killed
  <2>1. /\ savedOutbox' \in {Aged(outbox), savedOutbox} /\ outbox' = <<>>
        /\ UNCHANGED ghostVars
    BY <1>7 DEF Exit, Killed, ProcessEnds
  <2>2. MsgsOf(Aged(outbox)) = MsgsOf(outbox) /\ Distinct(Aged(outbox))
    BY <1>0, AgedQueue DEF MessageInv, Distinct
  <2>3. MsgsOf(outbox') = {} /\ Distinct(outbox')
    BY <2>1 DEF MsgsOf, Distinct
  <2> QED BY <1>0, <2>1, <2>2, <2>3 DEF MessageInv
<1>8. ASSUME NEW r \in Rx, Task(r) PROVE MessageInv'
  <2>1. UNCHANGED <<outbox, savedOutbox, key, expired>>
    BY <1>8 DEF Task, WriteFrame, Confirm, Fails, ConnectFails, WriteFails, TaskEnds
  <2>2. wire' \subseteq wire \cup {payload[r]} /\ rxState[r] # "free"
    BY <1>8 DEF Task, WriteFrame, Confirm, Fails, ConnectFails, WriteFails, TaskEnds
  <2>3. payload[r] \in MsgsOf(outbox)
    BY <2>2, Carried DEF MsgsOf
  <2> QED BY <1>0, <2>1, <2>2, <2>3 DEF MessageInv
<1> QED BY <1>2, <1>3, <1>4, <1>5, <1>6, <1>7, <1>8 DEF Next, Loop

\* The bookkeeping invariant holds throughout.
THEOREM Bookkeeping == Spec => []BookInv
<1>1. BookInv /\ [Next]_vars => BookInv'
  BY TypeStep, TrackedStep, ChannelStep, LoopStep, MessageStep DEF BookInv
<1> QED BY InitBook, <1>1, PTL DEF Spec

\* Every variable of the outgoing half keeps its type.
THEOREM TypesCorrect == Spec => []TypeOK
BY Bookkeeping, PTL DEF BookInv

\* The indices in pending_confirms and in_flight always name the entries whose
\* payloads were sent, however many entries were removed meanwhile.
THEOREM TrackedAlways == Spec => []TrackedEntries
BY Bookkeeping, PTL DEF BookInv

\* No message is under way twice at the same time.
THEOREM NeverDoubleSend == Spec => []NoDoubleSend
<1>1. BookInv => NoDoubleSend
  <2> SUFFICES ASSUME BookInv, NEW r \in Rx, NEW s \in Rx,
                      payload[r] = payload[s], payload[r] # NoMsg
               PROVE  r = s
    BY DEF NoDoubleSend
  <2>1. PICK p \in pendingConfirms : p.rx = r
    BY DEF BookInv, ChannelInv
  <2>2. PICK q \in pendingConfirms : q.rx = s
    BY DEF BookInv, ChannelInv
  <2>3. p.idx \in DOMAIN outbox /\ q.idx \in DOMAIN outbox
        /\ outbox[p.idx].msg = outbox[q.idx].msg
    BY <2>1, <2>2 DEF BookInv, TrackedEntries
  <2>4. p.idx = q.idx
    BY <2>3 DEF BookInv, MessageInv, Distinct
  <2> QED BY <2>1, <2>2, <2>4 DEF BookInv, TrackedEntries
<1> QED BY <1>1, Bookkeeping, PTL

-----------------------------------------------------------------------------
(* Keys and the disk.  From here on the save within send_message is taken   *)
(* to succeed: the code ignores its error, and what would follow from that  *)
(* is another matter.                                                       *)

\* The messages that the properties speak of are messages.
LEMMA AllMessages ==
  ASSUME TypeOK
  PROVE  /\ wire \cup expired \cup MsgsOf(outbox) \cup MsgsOf(savedOutbox) \subseteq Msg
         /\ \A m \in Msg : /\ Addressee[m] \in Contact /\ key[m] \in Nat
                           /\ ratchet[Addressee[m]] \in Nat
                           /\ savedRatchet[Addressee[m]] \in Nat
<1>1. wire \cup expired \cup MsgsOf(outbox) \cup MsgsOf(savedOutbox) \subseteq Msg
  BY QueueEntries DEF TypeOK, MsgsOf
<1> QED BY <1>1, OutboxConstants DEF TypeOK

\* No ratchet position is used twice, neither by what went out nor by what
\* waits in memory or on disk.
LEMMA RatchetStep ==
  ASSUME "compose_save" \notin FailingSaves, BookInv, RatchetInv, [Next]_vars
  PROVE  RatchetInv'
<1> USE DEF appVars, netVars, diskVars, ghostVars
<1>0. TypeOK /\ outbox \in Seq(Entry) /\ savedOutbox \in Seq(Entry)
  BY DEF BookInv, TypeOK
<1>a. /\ wire \cup expired \cup MsgsOf(outbox) \cup MsgsOf(savedOutbox) \subseteq Msg
      /\ \A m \in Msg : /\ Addressee[m] \in Contact /\ key[m] \in Nat
                        /\ ratchet[Addressee[m]] \in Nat
                        /\ savedRatchet[Addressee[m]] \in Nat
  BY <1>0, AllMessages
<1>1. ASSUME UNCHANGED <<outbox, ratchet, savedOutbox, savedRatchet, key, wire>>,
             pc' = pc \/ (pc \notin {"off", "compose_save"} /\ pc' \notin {"off", "compose_save"})
      PROVE  RatchetInv'
  <2>1. UNCHANGED <<MsgsOf(outbox), MsgsOf(savedOutbox), Committed>>
    BY <1>1 DEF MsgsOf, Committed
  <2> QED BY <1>1, <2>1 DEF RatchetInv
<1>2. CASE \/ Collect \/ FlushEnd \/ NoKey \/ OtherEdit \/ Quit \/ Tick \/ Spawn \/ SendCover
           \/ FlushOne \/ Handoff \/ UNCHANGED vars
  BY <1>1, <1>2 DEF Collect, FlushEnd, EndPass, NoKey, OtherEdit, Quit, Tick, Spawn, SendCover,
                    FlushOne, Handoff, vars
<1>3. ASSUME pc' \notin {"off", "compose_save"}, savedRatchet' = ratchet', UNCHANGED <<key, wire>>,
             MsgsOf(outbox') \cup MsgsOf(savedOutbox')
               \subseteq MsgsOf(outbox) \cup MsgsOf(savedOutbox),
             \A c \in Contact : savedRatchet[c] <= savedRatchet'[c],
             \A m \in MsgsOf(outbox') : key[m] <= ratchet'[Addressee[m]],
             \A m \in MsgsOf(savedOutbox') : key[m] <= savedRatchet'[Addressee[m]],
             savedRatchet' \in [Contact -> Nat]
      PROVE  RatchetInv'
  <2>1. \A i \in DOMAIN outbox' : outbox'[i].msg \in MsgsOf(outbox')
    BY DEF MsgsOf
  <2>2. \A m \in wire : key[m] <= savedRatchet'[Addressee[m]]
    <3> SUFFICES ASSUME NEW m \in wire PROVE key[m] <= savedRatchet'[Addressee[m]]
      OBVIOUS
    <3>1. /\ m \in Msg /\ Addressee[m] \in Contact /\ key[m] \in Nat
          /\ savedRatchet[Addressee[m]] \in Nat /\ savedRatchet'[Addressee[m]] \in Nat
      BY <1>a, <1>3
    <3>2. key[m] <= savedRatchet[Addressee[m]]
      BY DEF RatchetInv
    <3>3. savedRatchet[Addressee[m]] <= savedRatchet'[Addressee[m]]
      BY <1>3, <3>1
    <3> QED BY <3>1, <3>2, <3>3
  <2> QED BY <1>3, <2>1, <2>2 DEF RatchetInv, Committed
<1>4. CASE Start
  <2>1. PrunedIndices(savedOutbox) \in SUBSET (DOMAIN savedOutbox)
    BY DEF PrunedIndices
  <2>2. MsgsOf(outbox') = {savedOutbox[i].msg : i \in DOMAIN savedOutbox \ PrunedIndices(savedOutbox)}
    BY <1>0, <1>4, <2>1, RemovalMessages DEF Start
  <2>3. MsgsOf(outbox') \subseteq MsgsOf(savedOutbox)
    BY <2>2 DEF MsgsOf
  <2>4. savedRatchet \in [Contact -> Nat] /\ \A c \in Contact : savedRatchet[c] <= savedRatchet[c]
    BY <1>0 DEF TypeOK
  <2>5. /\ UNCHANGED <<savedOutbox, savedRatchet, key, wire>> /\ ratchet' = savedRatchet
        /\ pc' \notin {"off", "compose_save"}
    BY <1>4 DEF Start
  <2>6. \A m \in MsgsOf(savedOutbox) : key[m] <= savedRatchet[Addressee[m]]
    BY DEF RatchetInv
  <2> QED BY <1>3, <2>3, <2>4, <2>5, <2>6
<1>5. CASE Save
  <2>1. /\ MsgsOf(outbox') = MsgsOf(outbox) /\ pc' \notin {"off", "compose_save"}
        /\ UNCHANGED <<key, wire, ratchet>> /\ ratchet \in [Contact -> Nat]
        /\ \A m \in MsgsOf(outbox) : key[m] <= ratchet[Addressee[m]]
    BY <1>0, <1>5, AgedQueue DEF Save, AfterSave, RatchetInv, TypeOK
  <2>2. \A c \in Contact : savedRatchet[c] <= ratchet[c]
    BY <1>0, <1>5 DEF Save, RatchetInv, TypeOK
  <2>3. CASE savedOutbox' = outbox' /\ savedRatchet' = ratchet
    BY <1>3, <2>1, <2>2, <2>3
  <2>4. CASE pc \in FailingSaves /\ UNCHANGED diskVars
    <3>1. savedRatchet = ratchet
      BY <1>5, <2>4 DEF Save, RatchetInv
    <3>2. \A m \in MsgsOf(savedOutbox) : key[m] <= savedRatchet[Addressee[m]]
      BY DEF RatchetInv
    <3> QED BY <1>3, <2>1, <2>2, <2>4, <3>1, <3>2
  <2> QED BY <1>5, <2>3, <2>4 DEF Save
<1>6. ASSUME NEW m \in Msg, Compose(m) PROVE RatchetInv'
  <2> DEFINE c == Addressee[m]
             all == wire \cup MsgsOf(outbox) \cup MsgsOf(savedOutbox)
  <2>1. /\ DOMAIN outbox' = 1..Len(outbox) + 1 /\ DOMAIN outbox = 1..Len(outbox)
        /\ Len(outbox) \in Nat /\ Len(outbox') = Len(outbox) + 1
        /\ \A i \in DOMAIN outbox : outbox'[i] = outbox[i]
        /\ MsgsOf(outbox') = MsgsOf(outbox) \cup {m}
    BY <1>0, <1>6, AppendedMessage DEF Compose
  <2>2. /\ c \in Contact /\ ratchet[c] \in Nat /\ savedRatchet = ratchet
        /\ key[m] = 0 /\ key'[m] = ratchet[c] + 1 /\ \A n \in Msg : n # m => key'[n] = key[n]
        /\ ratchet'[c] = ratchet[c] + 1 /\ \A d \in Contact : d # c => ratchet'[d] = ratchet[d]
        /\ UNCHANGED <<savedOutbox, savedRatchet, wire>> /\ pc' = "compose_save"
    BY <1>0, <1>6, OutboxConstants DEF Compose, TypeOK, RatchetInv
  <2>3. m \notin all
    BY <2>2 DEF BookInv, MessageInv
  <2>4. \A n \in all : /\ n \in Msg /\ n # m /\ key'[n] = key[n]
                       /\ key[n] <= savedRatchet[Addressee[n]]
    <3>1. all \subseteq Msg
      BY <1>a
    <3>2. \A n \in all : key[n] <= savedRatchet[Addressee[n]]
      BY <2>2 DEF RatchetInv
    <3> QED BY <2>2, <2>3, <3>1, <3>2
  <2>5. ASSUME NEW d \in Contact PROVE savedRatchet'[d] <= ratchet'[d]
    <3>1. ratchet[d] \in Nat /\ savedRatchet'[d] = ratchet[d]
      BY <1>0, <2>2 DEF TypeOK
    <3> QED BY <2>2, <3>1
  <2>6. \A i \in DOMAIN outbox : outbox[i].msg \in MsgsOf(outbox)
    BY DEF MsgsOf
  <2>7. \A i \in Committed' : key'[outbox'[i].msg] <= savedRatchet'[Addressee[outbox'[i].msg]]
    <3>1. Committed' = DOMAIN outbox
      BY <2>1, <2>2 DEF Committed
    <3> QED BY <2>1, <2>2, <2>4, <2>6, <3>1
  <2>8. \A n \in all : key'[n] <= ratchet'[Addressee[n]]
    BY <1>a, <2>2, <2>4
  <2>9. \A n \in all : ~(Addressee[n] = c /\ key'[n] = key'[m])
    BY <1>a, <2>2, <2>4
  <2>10. \A n \in MsgsOf(outbox') : key'[n] <= ratchet'[Addressee[n]]
    BY <2>1, <2>2, <2>8
  <2>11. \A n \in wire' \cup MsgsOf(savedOutbox') : key'[n] <= savedRatchet'[Addressee[n]]
    BY <2>2, <2>4
  <2>12. \A k, n \in all : Addressee[k] = Addressee[n] /\ key'[k] = key'[n] => k = n
    BY <2>4 DEF RatchetInv
  <2>13. wire' \cup MsgsOf(outbox') \cup MsgsOf(savedOutbox') = all \cup {m}
    BY <2>1, <2>2
  <2>14. \A k, n \in all \cup {m} : Addressee[k] = Addressee[n] /\ key'[k] = key'[n] => k = n
    BY <2>9, <2>12
  <2> HIDE DEF all
  <2> QED BY <2>2, <2>5, <2>7, <2>10, <2>11, <2>13, <2>14 DEF RatchetInv
<1>7. CASE Drain
  <2>1. MsgsOf(outbox') = {outbox[i].msg : i \in DOMAIN outbox \ Delivered}
    BY <1>0, <1>7, Drained DEF BookInv
  <2>2. MsgsOf(outbox') \subseteq MsgsOf(outbox)
    BY <2>1 DEF MsgsOf
  <2>3. /\ UNCHANGED <<savedOutbox, savedRatchet, ratchet, key, wire>> /\ savedRatchet = ratchet
        /\ pc' \notin {"off", "compose_save"} /\ savedRatchet \in [Contact -> Nat]
    BY <1>0, <1>7 DEF Drain, RatchetInv, TypeOK
  <2>4. /\ \A m \in MsgsOf(outbox) : key[m] <= ratchet[Addressee[m]]
        /\ \A m \in MsgsOf(savedOutbox) : key[m] <= savedRatchet[Addressee[m]]
        /\ \A c \in Contact : savedRatchet[c] <= savedRatchet[c]
    BY <2>3 DEF RatchetInv
  <2> QED BY <1>3, <2>2, <2>3, <2>4
<1>8. CASE Exit \/ Killed
  <2>1. /\ pc' = "off" /\ outbox' = <<>> /\ UNCHANGED <<key, wire>>
        /\ \/ UNCHANGED <<savedOutbox, savedRatchet>>
           \/ pc = "exit_save" /\ savedOutbox' = Aged(outbox) /\ savedRatchet' = ratchet
    BY <1>8 DEF Exit, Killed, ProcessEnds
  <2>2. MsgsOf(outbox') = {} /\ Committed' = {}
    BY <2>1 DEF MsgsOf, Committed
  <2>3. MsgsOf(Aged(outbox)) = MsgsOf(outbox)
    BY <1>0, AgedQueue
  <2>4. /\ savedRatchet' = savedRatchet
        /\ \/ MsgsOf(savedOutbox') = MsgsOf(savedOutbox)
           \/ MsgsOf(savedOutbox') = MsgsOf(outbox) /\ savedRatchet = ratchet
    BY <2>1, <2>3 DEF RatchetInv
  <2> QED BY <2>1, <2>2, <2>4 DEF RatchetInv
<1>9. ASSUME NEW r \in Rx, Task(r) PROVE RatchetInv'
  <2>1. /\ UNCHANGED <<pc, outbox, savedOutbox, ratchet, savedRatchet, key>>
        /\ wire' \subseteq wire \cup {payload[r]} /\ rxState[r] # "free"
    BY <1>9 DEF Task, WriteFrame, Confirm, Fails, ConnectFails, WriteFails, TaskEnds
  <2>2. PICK i \in DOMAIN outbox : i \in inFlight /\ payload[r] = outbox[i].msg
    BY <2>1, Carried
  <2>3. i \in Committed
    BY <1>0, <2>2 DEF Committed, BookInv, LoopInv
  <2>4. payload[r] \in MsgsOf(outbox) /\ key[payload[r]] <= savedRatchet[Addressee[payload[r]]]
    BY <2>2, <2>3 DEF MsgsOf, RatchetInv
  <2>5. UNCHANGED <<MsgsOf(outbox), MsgsOf(savedOutbox), Committed>>
    BY <2>1 DEF MsgsOf, Committed
  <2> QED BY <2>1, <2>4, <2>5 DEF RatchetInv
<1> QED BY <1>2, <1>4, <1>5, <1>6, <1>7, <1>8, <1>9 DEF Next, Loop

\* The outbox on disk differs from the one in memory in nothing that matters.
LEMMA QueueStep ==
  ASSUME "compose_save" \notin FailingSaves, BookInv, QueueInv, [Next]_vars
  PROVE  QueueInv'
<1> USE DEF appVars, netVars, diskVars, ghostVars
<1> DEFINE Mem == MsgsOf(outbox)
           Disk == MsgsOf(savedOutbox)
<1>0. TypeOK /\ outbox \in Seq(Entry) /\ savedOutbox \in Seq(Entry)
  BY DEF BookInv, TypeOK
<1>1. ASSUME UNCHANGED <<outbox, savedOutbox, wire, expired>>,
             pc' = pc \/ (pc \notin {"off", "compose_save"} /\ pc' \notin {"off", "compose_save"})
      PROVE  QueueInv'
  <2>1. UNCHANGED <<Mem, Disk, Committed>>
    BY <1>1 DEF MsgsOf, Committed
  <2> QED BY <1>1, <2>1 DEF QueueInv
<1>2. CASE \/ Collect \/ FlushEnd \/ NoKey \/ OtherEdit \/ Quit \/ Tick \/ Spawn \/ SendCover
           \/ FlushOne \/ Handoff \/ UNCHANGED vars
  BY <1>1, <1>2 DEF Collect, FlushEnd, EndPass, NoKey, OtherEdit, Quit, Tick, Spawn, SendCover,
                    FlushOne, Handoff, vars
<1>3. ASSUME pc' \notin {"off", "compose_save"}, Mem' \subseteq Disk',
             Disk' \ Mem' \subseteq wire' \cup expired'
      PROVE  QueueInv'
  <2>1. \A i \in DOMAIN outbox' : outbox'[i].msg \in Mem'
    BY DEF MsgsOf
  <2> QED BY <1>3, <2>1 DEF QueueInv, Committed
<1>4. pc # "compose_save" => Mem \subseteq Disk
  BY DEF QueueInv, Committed, MsgsOf
<1>5. CASE Start
  <2> DEFINE D == PrunedIndices(savedOutbox)
  <2>1. D \in SUBSET (DOMAIN savedOutbox)
    BY DEF PrunedIndices
  <2>2. Mem' = {savedOutbox[i].msg : i \in DOMAIN savedOutbox \ D}
    BY <1>0, <1>5, <2>1, RemovalMessages DEF Start
  <2>3. /\ savedOutbox' = savedOutbox /\ pc' \notin {"off", "compose_save"}
        /\ expired' = expired \cup {savedOutbox[i].msg : i \in D}
    BY <1>5 DEF Start
  <2>4. Disk' = {savedOutbox[i].msg : i \in DOMAIN savedOutbox}
    BY <2>3 DEF MsgsOf
  <2> HIDE DEF D, Mem, Disk
  <2>5. Mem' \subseteq Disk' /\ Disk' \ Mem' \subseteq expired'
    BY <2>2, <2>3, <2>4
  <2> QED BY <1>3, <2>3, <2>5
<1>6. CASE Save
  <2>1. /\ Mem' = Mem /\ pc' \notin {"off", "compose_save"} /\ pc # "off"
        /\ UNCHANGED <<wire, expired>>
    BY <1>0, <1>6, AgedQueue DEF Save, AfterSave
  <2>2. CASE savedOutbox' = outbox'
    BY <1>3, <2>1, <2>2
  <2>3. CASE pc \in FailingSaves /\ UNCHANGED diskVars
    <3>1. Mem \subseteq Disk /\ Disk' = Disk
      BY <1>4, <2>3 DEF MsgsOf
    <3> QED BY <1>3, <2>1, <3>1 DEF QueueInv
  <2> QED BY <1>6, <2>2, <2>3 DEF Save
<1>7. ASSUME NEW m \in Msg, Compose(m) PROVE QueueInv'
  <2>1. /\ DOMAIN outbox = 1..Len(outbox) /\ Len(outbox) \in Nat /\ Len(outbox') = Len(outbox) + 1
        /\ \A i \in DOMAIN outbox : outbox'[i] = outbox[i]
        /\ outbox'[Len(outbox) + 1].msg = m
        /\ Mem' = Mem \cup {m}
    BY <1>0, <1>7, AppendedMessage DEF Compose
  <2>2. pc = "keys" /\ pc' = "compose_save" /\ UNCHANGED <<savedOutbox, wire, expired>>
    BY <1>7 DEF Compose
  <2>3. m \notin wire \cup expired
    BY <1>7 DEF Compose, BookInv, MessageInv
  <2>4. Committed' = DOMAIN outbox /\ Disk' = Disk
    BY <2>1, <2>2 DEF Committed, MsgsOf
  <2>5. \A i \in DOMAIN outbox : outbox[i].msg \in Mem
    BY DEF MsgsOf
  <2> QED BY <1>4, <2>1, <2>2, <2>3, <2>4, <2>5 DEF QueueInv
<1>8. CASE Drain
  <2>1. Mem' = {outbox[i].msg : i \in DOMAIN outbox \ Delivered}
    BY <1>0, <1>8, Drained DEF BookInv
  <2>2. \A i \in Delivered : i \in DOMAIN outbox /\ outbox[i].msg \in wire
    BY <1>0 DEF Delivered, Indices, Confirms, BookInv, TrackedEntries, ChannelInv, TypeOK
  <2>3. Mem' \subseteq Mem /\ Mem \ Mem' \subseteq wire
    BY <2>1, <2>2 DEF MsgsOf
  <2>4. /\ UNCHANGED <<savedOutbox, wire, expired>> /\ pc \notin {"off", "compose_save"}
        /\ pc' \notin {"off", "compose_save"}
    BY <1>8 DEF Drain
  <2>5. Disk' = Disk
    BY <2>4 DEF MsgsOf
  <2>6. Disk \ Mem \subseteq wire \cup expired
    BY <2>4 DEF QueueInv
  <2> HIDE DEF Mem, Disk
  <2> QED BY <1>3, <1>4, <2>3, <2>4, <2>5, <2>6
<1>9. CASE Exit \/ Killed
  <2>1. pc' = "off" /\ outbox' = <<>>
    BY <1>9 DEF Exit, Killed, ProcessEnds
  <2>2. Committed' = {}
    BY <2>1 DEF Committed
  <2> QED BY <2>1, <2>2 DEF QueueInv
<1>10. ASSUME NEW r \in Rx, Task(r) PROVE QueueInv'
  <2>1. /\ UNCHANGED <<pc, outbox, savedOutbox, expired>>
        /\ wire \subseteq wire' /\ wire' \subseteq wire \cup {payload[r]} /\ rxState[r] # "free"
    BY <1>10 DEF Task, WriteFrame, Confirm, Fails, ConnectFails, WriteFails, TaskEnds
  <2>2. PICK i \in DOMAIN outbox : i \in inFlight /\ payload[r] = outbox[i].msg
    BY <2>1, Carried
  <2>3. pc = "compose_save" => payload[r] # outbox[Len(outbox)].msg
    <3> SUFFICES ASSUME pc = "compose_save", payload[r] = outbox[Len(outbox)].msg PROVE FALSE
      OBVIOUS
    <3>1. Len(outbox) \in DOMAIN outbox /\ Len(outbox) \notin inFlight
      BY <1>0 DEF BookInv, LoopInv
    <3> QED BY <2>2, <3>1 DEF BookInv, MessageInv, Distinct
  <2>4. UNCHANGED <<Mem, Disk, Committed>>
    BY <2>1 DEF MsgsOf, Committed
  <2> QED BY <2>1, <2>3, <2>4 DEF QueueInv
<1> QED BY <1>2, <1>5, <1>6, <1>7, <1>8, <1>9, <1>10 DEF Next, Loop

\* The whole invariant, when the save within send_message succeeds.
LEMMA Durable ==
  ASSUME "compose_save" \notin FailingSaves
  PROVE  Spec => []OutboxInv
<1>1. Init => OutboxInv
  <2> SUFFICES ASSUME Init PROVE RatchetInv /\ QueueInv
    BY InitBook DEF OutboxInv
  <2>1. MsgsOf(outbox) = {} /\ MsgsOf(savedOutbox) = {} /\ Committed = {} /\ wire = {} /\ pc = "off"
    BY DEF Init, MsgsOf, Committed
  <2> QED BY <2>1 DEF RatchetInv, QueueInv
<1>2. OutboxInv /\ [Next]_vars => OutboxInv'
  BY TypeStep, TrackedStep, ChannelStep, LoopStep, MessageStep, RatchetStep, QueueStep
     DEF OutboxInv, BookInv
<1> QED BY <1>1, <1>2, PTL DEF Spec

\* Two messages under the same ratchet never share a key, over any number of
\* restarts, kills and failures of the other saves.
THEOREM KeysAlwaysUnique ==
  ASSUME "compose_save" \notin FailingSaves
  PROVE  Spec => []UniqueMessageKey
<1>1. OutboxInv => UniqueMessageKey
  BY DEF OutboxInv, RatchetInv, UniqueMessageKey
<1> QED BY <1>1, Durable, PTL

\* The outbox implements the durable queue: what a save adds was never sent or
\* given up, what it drops was, and only what is on disk is sent or given up.
THEOREM OutboxIsDurableQueue ==
  ASSUME "compose_save" \notin FailingSaves
  PROVE  Spec => ImplementsQueue
<1> DEFINE kept == MsgsOf(savedOutbox)
           qvars == <<kept, wire, expired>>
<1>1. Init => Queue!DQInit
  BY DEF Init, Queue!DQInit, MsgsOf
<1>2. OutboxInv /\ [Next]_vars => [Queue!DQNext]_qvars
  <2> SUFFICES ASSUME OutboxInv, [Next]_vars PROVE [Queue!DQNext]_qvars
    OBVIOUS
  <2> USE DEF appVars, netVars, diskVars, ghostVars
  <2>0. /\ BookInv /\ QueueInv /\ TypeOK /\ kept \subseteq Msg /\ MsgsOf(outbox) \subseteq Msg
        /\ outbox \in Seq(Entry)
    BY AllMessages DEF OutboxInv, BookInv, TypeOK
  <2>1. CASE UNCHANGED <<savedOutbox, wire, expired>>
    BY <2>1 DEF MsgsOf
  <2>2. CASE \/ Collect \/ FlushEnd \/ NoKey \/ OtherEdit \/ Quit \/ Tick \/ Spawn \/ SendCover
             \/ FlushOne \/ Handoff \/ Drain \/ (\E m \in Msg : Compose(m)) \/ UNCHANGED vars
    BY <2>1, <2>2 DEF Collect, FlushEnd, NoKey, OtherEdit, Quit, Tick, Spawn, SendCover,
                      FlushOne, Handoff, Drain, Compose, vars
  <2>3. CASE Start
    <3>1. kept' = kept /\ wire' = wire /\ expired \subseteq expired'
      BY <2>3 DEF Start, MsgsOf
    <3>2. expired' \ expired \subseteq kept
      BY <2>3 DEF Start, MsgsOf, PrunedIndices
    <3> QED BY <3>1, <3>2 DEF Queue!DQNext, Queue!Expire
  <2>4. ASSUME pc # "off", kept' = MsgsOf(outbox), UNCHANGED <<wire, expired>>
        PROVE  [Queue!DQNext]_qvars
    <3>1. (kept' \ kept) \cap (wire \cup expired) = {}
      <4> SUFFICES ASSUME NEW i \in DOMAIN outbox, outbox[i].msg \notin kept
                   PROVE  outbox[i].msg \notin wire \cup expired
        BY <2>4 DEF MsgsOf
      <4>1. i \notin Committed
        BY <2>0 DEF QueueInv
      <4>2. pc = "compose_save" /\ i = Len(outbox)
        BY <2>0, <4>1 DEF Committed
      <4> QED BY <2>0, <4>2 DEF QueueInv
    <3>2. kept \ kept' \subseteq wire \cup expired
      BY <2>0, <2>4 DEF QueueInv
    <3> QED BY <2>0, <2>4, <3>1, <3>2 DEF Queue!DQNext, Queue!Commit
  <2>5. CASE Save
    <3>1. MsgsOf(outbox') = MsgsOf(outbox)
      BY <2>0, <2>5, AgedQueue DEF Save
    <3> QED BY <2>1, <2>4, <2>5, <3>1 DEF Save
  <2>6. CASE Exit \/ Killed
    <3>1. MsgsOf(Aged(outbox)) = MsgsOf(outbox)
      BY <2>0, AgedQueue
    <3> QED BY <2>1, <2>4, <2>6, <3>1 DEF Exit, Killed, ProcessEnds
  <2>7. ASSUME NEW r \in Rx, Task(r) PROVE [Queue!DQNext]_qvars
    <3>1. CASE WriteFrame(r)
      <4>1. PICK i \in DOMAIN outbox : i \in inFlight /\ payload[r] = outbox[i].msg
        BY <2>0, <3>1, Carried DEF WriteFrame
      <4>2. i \in Committed
        BY <2>0, <4>1 DEF Committed, BookInv, LoopInv
      <4>3. payload[r] \in kept /\ payload[r] \in Msg
        BY <2>0, <4>1, <4>2 DEF QueueInv
      <4>4. kept' = kept /\ expired' = expired /\ wire' = wire \cup {payload[r]}
        BY <3>1 DEF WriteFrame, MsgsOf
      <4> QED BY <4>3, <4>4 DEF Queue!DQNext, Queue!Transmit
    <3>2. CASE Confirm(r) \/ Fails(r)
      BY <2>1, <3>2 DEF Confirm, Fails, ConnectFails, WriteFails, TaskEnds
    <3> QED BY <2>7, <3>1, <3>2 DEF Task
  <2> QED BY <2>2, <2>3, <2>5, <2>6, <2>7 DEF Next, Loop
<1> QED BY <1>1, <1>2, Durable, PTL DEF Spec, ImplementsQueue, Queue!DQSpec
=============================================================================
