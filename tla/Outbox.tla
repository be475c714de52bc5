------------------------------- MODULE Outbox -------------------------------
(***************************************************************************)
(* The outgoing half of op4-tui: send_message, the outbox in the vault     *)
(* payload, its retries and confirmations (ui/app.rs), and the queue and   *)
(* tasks of the transport that carry the payloads (network/nym_client.rs). *)
(*                                                                         *)
(* One thread runs the loop of app.rs: a key event, then the finished      *)
(* confirmations, then (every RetryInterval passes) a flush of the outbox. *)
(* The transport runs beside it: one task takes items from a bounded queue *)
(* and spawns one task per item, and those run in any order.  Entries are  *)
(* known to the loop by their INDEX in the outbox, which shifts when       *)
(* earlier entries are removed.                                            *)
(*                                                                         *)
(* Saving is one step that replaces what is on disk or fails: Vault shows  *)
(* that save() behaves like that, crashes included.  A message is its      *)
(* encrypted payload, fixed when it is composed.                           *)
(***************************************************************************)
EXTENDS Naturals, Sequences, FiniteSets

CONSTANTS
  Msg,           \* the messages the user writes
  Contact,
  Addressee,     \* the contact each message is for
  Established,   \* contacts whose session exists, the handshake (position 1) done
  Rx,            \* oneshot channels (one is free whenever a send needs it)
  NoMsg,         \* the payload of a channel not in use
  Cover,         \* a queued item without confirmation: cover traffic, broadcasts
  QueueCap,      \* capacity of the transport's queue (64)
  RetryInterval, \* OUTBOX_RETRY_INTERVAL
  MaxRetries,    \* OUTBOX_MAX_RETRIES
  MaxSeqGap,     \* OUTBOX_MAX_SEQ_GAP
  MaxDelay,      \* the cap on the backoff (600)
  RetryBound,    \* bound: retry_count is counted no further than this
  FailingSaves,  \* the steps whose vault.save() may fail
  Crashes,       \* may the process be killed?
  CoverTraffic   \* do other senders put items in the queue?

Step == {"off", "prune_save", "collect", "flush", "keys", "other_save",
         "compose_save", "handoff", "drain", "drain_save", "tick", "exit_save"}
RxState == {"free", "queued", "running", "written", "ok", "failed"}

\* PendingOutbound.  age is sequence - created_seq, counted up to MaxSeqGap.
Entry == [msg : Msg, retries : 0..RetryBound, age : 0..MaxSeqGap]

ASSUME OutboxConstants ==
  /\ Addressee \in [Msg -> Contact]
  /\ Established \subseteq Contact
  /\ NoMsg \notin Msg
  /\ Cover \notin Rx
  /\ IsFiniteSet(Rx)
  /\ QueueCap \in Nat \ {0}
  /\ RetryInterval \in Nat \ {0}
  /\ MaxRetries \in Nat \ {0}
  /\ RetryBound \in Nat /\ RetryBound >= MaxRetries
  /\ MaxSeqGap \in Nat \ {0}
  /\ MaxDelay \in Nat
  /\ FailingSaves \subseteq Step
  /\ {Crashes, CoverTraffic} \subseteq BOOLEAN

VARIABLES
  pc,              \* what the thread of app.rs does next
  running,         \* AppState.running
  outbox,          \* vault.payload.outbox
  ratchet,         \* messages composed under each contact's ratchet, 0: none
  pendingConfirms, \* AppState.pending_confirms: [idx, rx] pairs
  inFlight,        \* AppState.in_flight: outbox indices
  backoff,         \* ticks until each contact may be retried
  retryTick,       \* AppState.retry_tick modulo RetryInterval
  toSend,          \* the indices flush_outbox has still to hand over
  sendQ,           \* the transport's queue
  rxState,         \* what became of the item that confirms on each channel
  payload,         \* and the message it carries
  savedOutbox, savedRatchet, \* the vault on disk
  key,             \* history: position of a message in its ratchet, 0: not composed
  wire,            \* history: messages whose bytes went out
  expired          \* history: messages pruned

appVars == <<running, outbox, ratchet, pendingConfirms, inFlight, backoff,
             retryTick, toSend>>
netVars == <<sendQ, rxState, payload>>
diskVars == <<savedOutbox, savedRatchet>>
ghostVars == <<key, wire, expired>>
vars == <<pc, appVars, netVars, diskVars, ghostVars>>

TypeOK ==
  /\ pc \in Step
  /\ running \in BOOLEAN
  /\ outbox \in Seq(Entry)
  /\ ratchet \in [Contact -> Nat]
  /\ pendingConfirms \subseteq [idx : Nat \ {0}, rx : Rx]
  /\ inFlight \subseteq Nat \ {0}
  /\ backoff \in [Contact -> 0..MaxDelay]
  /\ retryTick \in 0..RetryInterval - 1
  /\ toSend \subseteq Nat \ {0}
  /\ sendQ \in Seq(Rx \cup {Cover})
  /\ Len(sendQ) <= QueueCap
  /\ rxState \in [Rx -> RxState]
  /\ payload \in [Rx -> Msg \cup {NoMsg}]
  /\ savedOutbox \in Seq(Entry)
  /\ savedRatchet \in [Contact -> Nat]
  /\ key \in [Msg -> Nat]
  /\ wire \subseteq Msg
  /\ expired \subseteq Msg

Init ==
  /\ pc = "off" /\ running = FALSE
  /\ outbox = <<>> /\ savedOutbox = <<>>
  /\ ratchet = [c \in Contact |-> 0]
  /\ savedRatchet = [c \in Contact |-> IF c \in Established THEN 1 ELSE 0]
  /\ pendingConfirms = {} /\ inFlight = {} /\ toSend = {}
  /\ backoff = [c \in Contact |-> 0]
  /\ retryTick = 0
  /\ sendQ = <<>>
  /\ rxState = [r \in Rx |-> "free"]
  /\ payload = [r \in Rx |-> NoMsg]
  /\ key = [m \in Msg |-> 0]
  /\ wire = {} /\ expired = {}

-----------------------------------------------------------------------------
(* What the code computes.                                                 *)

MsgsOf(q) == {q[i].msg : i \in DOMAIN q}
To(e) == Addressee[e.msg]

CountTo(n, bound) == IF n < bound THEN n ELSE bound

\* min(1 << min(retry_count, 30), 600): the cap is reached long before 30.
Delay(retries) == LET d == 2^retries IN IF d \in 0..MaxDelay THEN d ELSE MaxDelay

\* The entries of q whose index is not in D, in the same order.
RemoveIndices(q, D) ==
  LET left == DOMAIN q \ D
      Rank(i) == Cardinality({k \in left : k <= i})
  IN  [j \in 1..Cardinality(left) |-> q[CHOOSE i \in left : Rank(i) = j]]

\* Mutant: the tracked indices are left as they were.
RebaseNot(i, D) == i

\* rebase_outbox_indices: where the entry at i is once those in D are removed.
Rebase(i, D) == i - Cardinality({r \in D : r < i})

\* prune_outbox keeps the entries with fewer retries and a smaller age.
Expired(e) == e.retries >= MaxRetries \/ e.age >= MaxSeqGap
PrunedIndices(q) == {i \in DOMAIN q : Expired(q[i])}

\* The sequence number grows with every save(): all entries get older.
Aged(q) ==
  [i \in DOMAIN q |-> [q[i] EXCEPT !.age = CountTo(@ + 1, MaxSeqGap)]]

\* Mutant: the flush does not look at in_flight.
DueInFlightToo ==
  {i \in DOMAIN outbox :
     /\ \A j \in 1..i-1 : To(outbox[j]) # To(outbox[i])
     /\ backoff[To(outbox[i])] = 0}

\* flush_outbox: the first entry of each contact, unless it is in flight or
\* the contact's backoff has not expired.
Due ==
  {i \in DOMAIN outbox :
     /\ \A j \in 1..i-1 : To(outbox[j]) # To(outbox[i])
     /\ i \notin inFlight
     /\ backoff[To(outbox[i])] = 0}

FreeRx == {r \in Rx : rxState[r] = "free"}

\* Mutant: the queue takes any number of items.
TrySendUnbounded(i) ==
  LET r == CHOOSE x \in Rx : x \in FreeRx IN
  /\ FreeRx # {}
  /\ sendQ' = Append(sendQ, r)
  /\ rxState' = [rxState EXCEPT ![r] = "queued"]
  /\ payload' = [payload EXCEPT ![r] = outbox[i].msg]
  /\ pendingConfirms' = pendingConfirms \cup {[idx |-> i, rx |-> r]}
  /\ inFlight' = inFlight \cup {i}

\* send_with_confirm for the entry at index i: a queue that is full refuses.
TrySend(i) ==
  \/ /\ Len(sendQ) < QueueCap
     /\ LET r == CHOOSE x \in Rx : x \in FreeRx IN
        /\ FreeRx # {}
        /\ sendQ' = Append(sendQ, r)
        /\ rxState' = [rxState EXCEPT ![r] = "queued"]
        /\ payload' = [payload EXCEPT ![r] = outbox[i].msg]
        /\ pendingConfirms' = pendingConfirms \cup {[idx |-> i, rx |-> r]}
     /\ inFlight' = inFlight \cup {i}
  \/ /\ Len(sendQ) >= QueueCap
     /\ UNCHANGED <<netVars, pendingConfirms, inFlight>>

\* The end of one pass of the loop.
EndPass == pc' = IF running THEN "keys" ELSE "exit_save"

-----------------------------------------------------------------------------
(* The thread of app.rs.                                                   *)

\* main and run: unlock, a fresh AppState, prune_outbox.
Start ==
  /\ pc = "off"
  /\ running' = TRUE
  /\ outbox' = RemoveIndices(savedOutbox, PrunedIndices(savedOutbox))
  /\ expired' = expired \cup {savedOutbox[i].msg : i \in PrunedIndices(savedOutbox)}
  /\ ratchet' = savedRatchet
  /\ pc' = IF PrunedIndices(savedOutbox) # {} THEN "prune_save" ELSE "collect"
  /\ UNCHANGED <<pendingConfirms, inFlight, backoff, retryTick, toSend, netVars,
                 diskVars, key, wire>>

AfterSave ==
  CASE pc = "prune_save"   -> "collect"
    [] pc = "compose_save" -> "handoff"
    [] pc = "other_save"   -> "drain"
    [] pc = "drain_save"   -> "tick"

\* vault.save().ok(): the sequence number grows, an error is ignored.
Save ==
  /\ pc \in {"prune_save", "compose_save", "other_save", "drain_save"}
  /\ outbox' = Aged(outbox)
  /\ pc' = AfterSave
  /\ \/ savedOutbox' = outbox' /\ savedRatchet' = ratchet
     \/ pc \in FailingSaves /\ UNCHANGED diskVars
  /\ UNCHANGED <<running, ratchet, pendingConfirms, inFlight, backoff, retryTick,
                 toSend, netVars, ghostVars>>

\* flush_outbox, first half.
Collect ==
  /\ pc = "collect"
  /\ toSend' = Due
  /\ pc' = "flush"
  /\ UNCHANGED <<running, outbox, ratchet, pendingConfirms, inFlight, backoff,
                 retryTick, netVars, diskVars, ghostVars>>

\* flush_outbox, second half: one entry handed to the transport.
FlushOne ==
  /\ pc = "flush"
  /\ \E i \in toSend :
       /\ \A j \in toSend : i <= j
       /\ TrySend(i)
       /\ toSend' = toSend \ {i}
  /\ UNCHANGED <<pc, running, outbox, ratchet, backoff, retryTick, diskVars,
                 ghostVars>>

FlushEnd ==
  /\ pc = "flush" /\ toSend = {}
  /\ EndPass
  /\ UNCHANGED <<appVars, netVars, diskVars, ghostVars>>

\* No key, or one that changes nothing here.
NoKey ==
  /\ pc = "keys"
  /\ pc' = "drain"
  /\ UNCHANGED <<appVars, netVars, diskVars, ghostVars>>

Quit ==
  /\ pc = "keys"
  /\ running' = FALSE
  /\ pc' = "drain"
  /\ UNCHANGED <<outbox, ratchet, pendingConfirms, inFlight, backoff, retryTick,
                 toSend, netVars, diskVars, ghostVars>>

\* A key or an inbound message that saves the vault for another reason.
OtherEdit ==
  /\ pc = "keys"
  /\ pc' = "other_save"
  /\ UNCHANGED <<appVars, netVars, diskVars, ghostVars>>

\* Mutant: the payload is handed over before the vault is saved.
ComposeUnsaved(m) ==
  /\ pc = "keys"
  /\ key[m] = 0
  /\ LET c == Addressee[m] IN
     /\ ratchet' = [ratchet EXCEPT ![c] = @ + 1]
     /\ key' = [key EXCEPT ![m] = ratchet[c] + 1]
  /\ outbox' = Append(outbox, [msg |-> m, retries |-> 0, age |-> 0])
  /\ pc' = "handoff"
  /\ UNCHANGED <<running, pendingConfirms, inFlight, backoff, retryTick, toSend,
                 netVars, diskVars, wire, expired>>

\* send_message up to its save: the handshake (key 1) or the next message of
\* the ratchet is encrypted, and the payload goes to the end of the outbox.
Compose(m) ==
  /\ pc = "keys"
  /\ key[m] = 0
  /\ LET c == Addressee[m] IN
     /\ ratchet' = [ratchet EXCEPT ![c] = @ + 1]
     /\ key' = [key EXCEPT ![m] = ratchet[c] + 1]
  /\ outbox' = Append(outbox, [msg |-> m, retries |-> 0, age |-> 0])
  /\ pc' = "compose_save"
  /\ UNCHANGED <<running, pendingConfirms, inFlight, backoff, retryTick, toSend,
                 netVars, diskVars, wire, expired>>

\* send_message after its save: immediate delivery of the new entry.
Handoff ==
  /\ pc = "handoff"
  /\ TrySend(Len(outbox))
  /\ pc' = "drain"
  /\ UNCHANGED <<running, outbox, ratchet, backoff, retryTick, toSend, diskVars,
                 ghostVars>>

\* The indices whose confirmation has one of the given outcomes.
Indices(confirms) == {p.idx : p \in confirms}
Confirms(states) == {p \in pendingConfirms : rxState[p.rx] \in states}

\* Mutant: an entry whose attempt failed is dropped like a delivered one.
DeliveredOrFailed == Indices(Confirms({"ok", "failed"}))

\* Entries confirmed as written leave the outbox, others are counted as failed.
Delivered == Indices(Confirms({"ok"}))
Failed == Indices(Confirms({"failed"}))

\* Mutant: a failed attempt keeps its in-flight mark.
StillInFlightFailed == inFlight \ Delivered

StillInFlight == inFlight \ (Delivered \cup Failed)

\* The retry counts grow; the entry processed last decides the backoff of its
\* contact (the order of pending_confirms is not kept: any of them may).
CountFailures ==
  [i \in DOMAIN outbox |->
     IF i \in Failed
       THEN [outbox[i] EXCEPT !.retries = CountTo(@ + 1, RetryBound)]
       ELSE outbox[i]]

\* drain_pending_confirms.
Drain ==
  /\ pc = "drain"
  /\ LET counted == CountFailures IN
     /\ \E b \in [Contact -> 0..MaxDelay] :
          /\ \A c \in Contact :
               LET ours == {i \in Failed : To(outbox[i]) = c} IN
               IF ours = {} THEN b[c] = backoff[c]
               ELSE \E i \in ours : b[c] = Delay(counted[i].retries)
          /\ backoff' = b
     /\ outbox' = RemoveIndices(counted, Delivered)
  /\ pendingConfirms' =
       {[p EXCEPT !.idx = Rebase(@, Delivered)] :
          p \in pendingConfirms \ Confirms({"ok", "failed"})}
  /\ inFlight' = {Rebase(i, Delivered) : i \in StillInFlight}
  /\ pc' = IF Confirms({"ok", "failed"}) # {} THEN "drain_save" ELSE "tick"
  /\ rxState' = [r \in Rx |-> IF rxState[r] \in {"ok", "failed"} THEN "free" ELSE rxState[r]]
  /\ payload' = [r \in Rx |-> IF rxState[r] \in {"ok", "failed"} THEN NoMsg ELSE payload[r]]
  /\ UNCHANGED <<running, ratchet, retryTick, toSend, sendQ, diskVars, ghostVars>>

Tick ==
  /\ pc = "tick"
  /\ retryTick' = (retryTick + 1) % RetryInterval
  /\ backoff' = [c \in Contact |-> IF backoff[c] = 0 THEN 0 ELSE backoff[c] - 1]
  /\ IF retryTick' = 0 THEN pc' = "collect" ELSE EndPass
  /\ UNCHANGED <<running, outbox, ratchet, pendingConfirms, inFlight, toSend,
                 netVars, diskVars, ghostVars>>

\* The end of the process takes AppState, the queue and the tasks with it.
ProcessEnds ==
  /\ pc' = "off" /\ running' = FALSE
  /\ outbox' = <<>>
  /\ ratchet' = [c \in Contact |-> 0]
  /\ pendingConfirms' = {} /\ inFlight' = {} /\ toSend' = {}
  /\ backoff' = [c \in Contact |-> 0]
  /\ retryTick' = 0
  /\ sendQ' = <<>>
  /\ rxState' = [r \in Rx |-> "free"]
  /\ payload' = [r \in Rx |-> NoMsg]
  /\ UNCHANGED ghostVars

\* The last save and the return from run.
Exit ==
  /\ pc = "exit_save"
  /\ \/ savedOutbox' = Aged(outbox) /\ savedRatchet' = ratchet
     \/ pc \in FailingSaves /\ UNCHANGED diskVars
  /\ ProcessEnds

Killed ==
  /\ Crashes
  /\ pc # "off"
  /\ UNCHANGED diskVars
  /\ ProcessEnds

-----------------------------------------------------------------------------
(* The transport.                                                          *)

\* outbound_loop takes the next item and spawns its task.
Spawn ==
  /\ sendQ # <<>>
  /\ sendQ' = Tail(sendQ)
  /\ rxState' = IF Head(sendQ) = Cover THEN rxState
                ELSE [rxState EXCEPT ![Head(sendQ)] = "running"]
  /\ UNCHANGED <<pc, appVars, payload, diskVars, ghostVars>>

\* The frame is written; the recipient may have it from here on.
WriteFrame(r) ==
  /\ rxState[r] = "running"
  /\ rxState' = [rxState EXCEPT ![r] = "written"]
  /\ wire' = wire \cup {payload[r]}
  /\ UNCHANGED <<pc, appVars, sendQ, payload, diskVars, key, expired>>

\* The task reports success.
Confirm(r) ==
  /\ rxState[r] = "written"
  /\ rxState' = [rxState EXCEPT ![r] = "ok"]
  /\ UNCHANGED <<pc, appVars, sendQ, payload, diskVars, ghostVars>>

TaskEnds(r) ==
  /\ rxState' = [rxState EXCEPT ![r] = "failed"]
  /\ UNCHANGED <<pc, appVars, sendQ, payload, diskVars, ghostVars>>

\* socks5_connect: the proxy or the service behind it refuses, at any exchange.
ConnectFails(r) == rxState[r] = "running" /\ TaskEnds(r)

\* write_frame reports an error after the bytes went out: the loop cannot tell.
WriteFails(r) == rxState[r] = "written" /\ TaskEnds(r)

Fails(r) == ConnectFails(r) \/ WriteFails(r)

\* cover_traffic_loop and the calls of send() without confirmation.
SendCover ==
  /\ CoverTraffic
  /\ pc # "off"
  /\ Len(sendQ) < QueueCap
  /\ sendQ' = Append(sendQ, Cover)
  /\ UNCHANGED <<pc, appVars, rxState, payload, diskVars, ghostVars>>

-----------------------------------------------------------------------------
Loop ==
  \/ Save \/ Collect \/ FlushOne \/ FlushEnd \/ NoKey \/ OtherEdit
  \/ Handoff \/ Drain \/ Tick \/ Exit
  \/ \E m \in Msg : Compose(m)

Task(r) == WriteFrame(r) \/ Confirm(r) \/ Fails(r)

Next ==
  \/ Start \/ Loop \/ Quit \/ Killed
  \/ Spawn \/ SendCover
  \/ \E r \in Rx : Task(r)

Spec == Init /\ [][Next]_vars

\* The user restarts the program, its loop turns, and tokio runs every task.
Fairness ==
  /\ WF_vars(Start) /\ WF_vars(Loop)
  /\ WF_vars(Spawn) /\ \A r \in Rx : WF_vars(Task(r))

LiveSpec == Spec /\ Fairness

-----------------------------------------------------------------------------
(* Properties.                                                             *)

\* The index kept for a confirmation always points at the entry whose payload
\* was sent, whatever was removed from the outbox meanwhile; in_flight holds
\* exactly the indices awaiting a confirmation.  (pending_confirms, in_flight
\* and rebase_outbox_indices.)
TrackedEntries ==
  /\ inFlight = Indices(pendingConfirms)
  /\ \A p \in pendingConfirms :
       /\ p.idx \in DOMAIN outbox
       /\ payload[p.rx] = outbox[p.idx].msg
  /\ \A p, q \in pendingConfirms : p.idx = q.idx \/ p.rx = q.rx => p = q

\* "avoid double-send": no two items under way carry the same message, in
\* particular not the immediate send and a flush of the same entry.
NoDoubleSend ==
  \A r, s \in Rx : payload[r] = payload[s] /\ payload[r] # NoMsg => r = s

\* "Each message is encrypted with a unique key": two messages of a ratchet on
\* the wire never share a position, over restarts too and whatever other saves
\* fail, as long as the one within send_message succeeds.  (Handshakes, at
\* position 1, have a fresh ephemeral key each.)
UniqueMessageKey ==
  \A m, n \in wire :
    Addressee[m] = Addressee[n] /\ key[m] = key[n] /\ key[m] > 1 => m = n

\* The outbox is the durable queue it is said to be.
Queue == INSTANCE DurableQueue WITH kept <- MsgsOf(savedOutbox)
ImplementsQueue == Queue!DQSpec

\* If from some time on attempts succeed and the user lets the program run, the
\* outbox becomes empty and stays so: no entry is passed over by the FIFO scan,
\* its in-flight mark and its backoff for ever, whichever saves fail.
Calm == <>[][~Killed /\ ~Quit /\ \A r \in Rx : ~Fails(r)]_vars
QueueDrains == Calm => <>[](outbox = <<>>)
=============================================================================
