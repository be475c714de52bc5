------------------------------ MODULE Session ------------------------------
(***************************************************************************)
(* How users of the terminal client (op4-tui/src/ui/app.rs) come to share  *)
(* a session: contact codes, bundle requests, handshakes with one-time     *)
(* prekeys, pending requests, prekey refreshes, and the messages after the *)
(* handshake.  Frames may be lost, repeated and reordered; a program may   *)
(* be closed or killed at any moment.                                      *)
(*                                                                         *)
(* A handler is a function of the vault and of the rest of the program's   *)
(* memory that yields both anew, the frames it sends, and whether it       *)
(* saves.  Keys are symbolic: a session key is the record of what went     *)
(* into it, a prekey is a number its owner draws once, a user's identity   *)
(* keys are the user (they change in module Rotation).                     *)
(***************************************************************************)
EXTENDS Sequences, FiniteSets, SequencesExt, Wire

CONSTANTS
  User,
  OpkBatch,      \* OPK_BATCH_SIZE
  OpkThreshold,  \* OPK_REPLENISH_THRESHOLD
  MaxPending,    \* MAX_PENDING_HANDSHAKES
  Texts,         \* the lengths of messages that users write
  NoOpk, NoSession,  \* None
  MaxOps,        \* bound: what users do, kills included
  MaxLog         \* bound: messages in a conversation

ASSUME SessionConstants ==
  /\ OpkBatch \in Nat /\ OpkThreshold \in Nat /\ OpkThreshold < OpkBatch /\ NoOpk \notin Nat
  /\ MaxPending \in Nat \ {0}
  /\ Texts \subseteq Nat /\ MaxOps \in Nat /\ MaxLog \in Nat

VARIABLES
  mem,    \* the unlocked payload of each user
  disk,   \* the payload as last saved
  ram,    \* what is only in memory: requests, and the code shown to others
  net,    \* every frame sent so far
  codes,  \* every contact code a program has shown so far
  drawn,  \* how many keys each user has drawn; key n is the n-th
  ops,    \* bounds what users do
  heard,  \* history: the session keys each user derived from a handshake received
  killed  \* history: users whose program was killed

vars == <<mem, disk, ram, net, codes, drawn, ops, heard, killed>>

Root == [from : User, to : User, opk : Nat \cup {NoOpk}, eph : Nat]
Bundle == [who : User, opks : Seq(Nat)]
Contact == [id : Bundle, bundle : Bundle]    \* id: the hash of the bundle as added
Text == [by : User, n : Nat]
Conv == [sess : [root : Root, send : BOOLEAN] \cup {NoSession}, log : Seq(Text)]
PendingHandshake == [root : Root, text : Text]

BundleOf(u, opks) == [who |-> u, opks |-> opks]
NewContact(b) == [id |-> b, bundle |-> b]

\* AppState::new: nothing pending, and the code of the moment is exported.
FreshRam(v) == [pending |-> <<>>, asked |-> <<>>, code |-> v.opks]

FirstBatch == [i \in 1..OpkBatch |-> i]
NewVault == [opks |-> FirstBatch, contacts |-> <<>>, convs |-> << >>]

Init ==
  /\ mem = [u \in User |-> NewVault] /\ disk = mem
  /\ ram = [u \in User |-> FreshRam(NewVault)]
  /\ codes = {BundleOf(u, FirstBatch) : u \in User}
  /\ drawn = [u \in User |-> OpkBatch]
  /\ net = {} /\ ops = 0 /\ killed = {}
  /\ heard = [u \in User |-> {}]

-----------------------------------------------------------------------------
(* The vault.                                                              *)

Positions(s, Test(_)) == {i \in DOMAIN s : Test(s[i])}

\* find_conversation_by_contact, or what get_or_create_conversation creates.
Conversation(v, id) ==
  IF id \in DOMAIN v.convs THEN v.convs[id] ELSE [sess |-> NoSession, log |-> <<>>]

PutConversation(v, id, c) ==
  [v EXCEPT !.convs = [x \in DOMAIN v.convs \cup {id} |-> IF x = id THEN c ELSE v.convs[x]]]

AddContact(v, b) == [v EXCEPT !.contacts = Append(@, NewContact(b))]

\* Mutant: the prekey stays in the vault.
ConsumeOpkNot(v, k) == v

\* consume_opk_by_id
ConsumeOpk(v, k) == [v EXCEPT !.opks = RemoveFirst(@, k)]

\* Mutant: the prekeys that are left are replaced.
GenerateOpksAnew(v, n) == [v EXCEPT !.opks = [i \in 1..OpkBatch |-> n + i]]

\* generate_opks, where n keys were drawn before.
GenerateOpks(v, n) == [v EXCEPT !.opks = @ \o [i \in 1..OpkBatch |-> n + i]]

\* replenish_opks_if_needed
OpksLow(v) == Len(v.opks) <= OpkThreshold

\* apply_opk_refresh
ApplyOpkRefresh(c, opks) == [c EXCEPT !.bundle.opks = opks]

\* What BootstrapCode::from_bundle keeps of a bundle: address, keys and their
\* hash, but not the prekeys.
BootstrapCode(b) == b.who

-----------------------------------------------------------------------------
(* The frames.                                                             *)

HandshakeFrame(r, p) ==
  [type |-> "Handshake", to |-> r.to, root |-> r, text |-> [by |-> r.from, n |-> r.eph],
   len |-> HandshakeLen(p, r.opk # NoOpk)]
DataFrame(u, to, r, id, n, p) ==
  [type |-> "Data", to |-> to, root |-> r, id |-> id, text |-> [by |-> u, n |-> n],
   intact |-> Intact(p), len |-> DataLen(p)]
RefreshFrame(u, to, opks) ==
  [type |-> "OpkRefresh", to |-> to, bundle |-> BundleOf(u, opks), len |-> RefreshLen(Len(opks))]
RequestFrame(u, to) ==
  [type |-> "BundleRequest", to |-> to, from |-> u, len |-> RequestLen]
ResponseFrame(u, to, opks) ==
  [type |-> "BundleResponse", to |-> to, bundle |-> BundleOf(u, opks), len |-> ResponseLen(Len(opks))]

\* What a handler leaves behind.
Effect(v, r, out, new, save) ==
  [v |-> v, r |-> r, out |-> out, new |-> new, save |-> save]
Nothing(v, r) == Effect(v, r, {}, 0, FALSE)

\* broadcast_opk_refresh
BroadcastOpkRefresh(u, v) ==
  IF v.opks = <<>> THEN {}
  ELSE {RefreshFrame(u, v.contacts[i].bundle.who, v.opks) : i \in DOMAIN v.contacts}

-----------------------------------------------------------------------------
(* The handshake.                                                          *)

\* perform_handshake_alice: the first prekey of the bundle, if it has one, goes in.
AliceRoot(u, b, eph) ==
  [from |-> u, to |-> b.who, eph |-> eph,
   opk |-> IF b.opks = <<>> THEN NoOpk ELSE Head(b.opks)]

\* perform_handshake_bob: an unknown prekey is refused, and with the keys of
\* another user the MAC does not verify.
BobAgrees(u, v, m) ==
  /\ m.root.to = u
  /\ m.root.opk # NoOpk => m.root.opk \in ToSet(v.opks)

\* Mutant: the session goes to the contact listed first.
SenderPositionsAny(v, who) == DOMAIN v.contacts

\* The contacts with the sender's Ed25519 key.
SenderPositions(v, who) == Positions(v.contacts, LAMBDA c : c.bundle.who = who)

\* A known sender: the session is replaced and the message shown.
KnownSender(v, i, m) ==
  LET id == v.contacts[i].id IN
  PutConversation(v, id,
    [sess |-> [root |-> m.root, send |-> FALSE],   \* init_bob has no sending chain
     log |-> Append(Conversation(v, id).log, m.text)])

\* Mutant: one request too many is kept.
QueueRequestLong(r, m) ==
  [r EXCEPT !.pending =
     Append(IF Len(@) > MaxPending THEN Tail(@) ELSE @, [root |-> m.root, text |-> m.text])]

\* An unknown sender: the oldest request makes room for the new one.
QueueRequest(r, m) ==
  [r EXCEPT !.pending =
     Append(IF Len(@) >= MaxPending THEN Tail(@) ELSE @, [root |-> m.root, text |-> m.text])]

\* The prekey is used up, and a batch drawn when the pool runs low.
UsePrekey(v, k, n) ==
  LET rest == ConsumeOpk(v, k)
      low == k # NoOpk /\ OpksLow(rest)
  IN  [v |-> IF low THEN GenerateOpks(rest, n) ELSE rest, new |-> IF low THEN OpkBatch ELSE 0]

\* Mutant: the session with a known sender is not saved.
DeliverHandshakeUnsaved(v, r, m) ==
  LET known == SenderPositions(v, m.root.from) IN
  IF known # {} THEN [v |-> KnownSender(v, Min(known), m), r |-> r, save |-> FALSE]
  ELSE [v |-> v, r |-> QueueRequest(r, m), save |-> FALSE]

DeliverHandshake(v, r, m) ==
  LET known == SenderPositions(v, m.root.from) IN
  IF known # {} THEN [v |-> KnownSender(v, Min(known), m), r |-> r, save |-> TRUE]
  ELSE [v |-> v, r |-> QueueRequest(r, m), save |-> FALSE]

\* handle_inbound_handshake: the refresh goes out before anything is saved, and
\* for an unknown sender nothing is.
HandleHandshake(u, v, r, m, n) ==
  LET used == UsePrekey(v, m.root.opk, n)
      d == DeliverHandshake(used.v, r, m)
  IN  IF ~BobAgrees(u, v, m) THEN Nothing(v, r)
      ELSE Effect(d.v, d.r, IF used.new > 0 THEN BroadcastOpkRefresh(u, used.v) ELSE {},
                  used.new, d.save)

-----------------------------------------------------------------------------
(* The other handlers.                                                     *)

\* verify_message_mac: it covers the id of the contact, which is the sender's on
\* one side and the receiver's on the other.
MacVerifies(id, m) == m.id = id

\* handle_inbound_data: the first session that decrypts decides.
HandleData(v, r, m) ==
  LET opens(c) == /\ Conversation(v, c.id).sess # NoSession
                  /\ Conversation(v, c.id).sess.root = m.root
                  /\ m.intact
      hits == Positions(v.contacts, opens)
      id == v.contacts[Min(hits)].id
  IN  IF hits = {} \/ ~MacVerifies(id, m) THEN Nothing(v, r)
      ELSE Effect(PutConversation(v, id,
             [sess |-> [root |-> m.root, send |-> TRUE],
              log |-> Append(Conversation(v, id).log, m.text)]), r, {}, 0, TRUE)

\* handle_inbound_opk_refresh: the list of the sender's first entry is replaced;
\* nothing says which of two lists is the newer.
HandleOpkRefresh(v, r, m) ==
  LET known == SenderPositions(v, m.bundle.who) IN
  IF known = {} THEN Nothing(v, r)
  ELSE Effect([v EXCEPT !.contacts[Min(known)] = ApplyOpkRefresh(@, m.bundle.opks)], r, {}, 0, TRUE)

\* handle_inbound_bundle_request: whoever has the bootstrap code gets the bundle.
HandleBundleRequest(u, v, r, m) ==
  Effect(v, r, {ResponseFrame(u, m.from, v.opks)}, 0, FALSE)

Answered(r, i) == [r EXCEPT !.asked = RemoveAt(@, i)]

\* handle_inbound_bundle_response: only for a request of this session.
HandleBundleResponse(v, r, m) ==
  LET asked == Positions(r.asked, LAMBDA a : a = BootstrapCode(m.bundle)) IN
  IF asked = {} THEN Nothing(v, r)
  ELSE Effect(AddContact(v, m.bundle), Answered(r, Min(asked)), {}, 0, TRUE)

\* handle_incoming_message, after WireMessage::from_bytes has dropped what is
\* too long.
Handle(u, v, r, m, n) ==
  IF ~Fits(m.len) THEN Nothing(v, r)
  ELSE CASE m.type = "Handshake" -> HandleHandshake(u, v, r, m, n)
         [] m.type = "Data" -> HandleData(v, r, m)
         [] m.type = "OpkRefresh" -> HandleOpkRefresh(v, r, m)
         [] m.type = "BundleRequest" -> HandleBundleRequest(u, v, r, m)
         [] m.type = "BundleResponse" -> HandleBundleResponse(v, r, m)

\* The effect e of a handler on the state; m is the frame that was handled.
Apply(u, e, m) ==
  /\ \A id \in DOMAIN e.v.convs : Len(e.v.convs[id].log) <= MaxLog
  /\ mem' = [mem EXCEPT ![u] = e.v]
  /\ disk' = IF e.save THEN [disk EXCEPT ![u] = e.v] ELSE disk
  /\ ram' = [ram EXCEPT ![u] = e.r]
  /\ net' = net \cup e.out
  /\ drawn' = [drawn EXCEPT ![u] = @ + e.new]
  /\ heard' = IF m.type = "Handshake" /\ e # Nothing(mem[u], ram[u])
              THEN [heard EXCEPT ![u] = @ \cup {m.root}] ELSE heard
  /\ UNCHANGED <<codes, ops, killed>>

Receive(u, m) == m.to = u /\ Apply(u, Handle(u, mem[u], ram[u], m, drawn[u]), m)

-----------------------------------------------------------------------------
(* What users do.  All of it is saved at once, as save() makes atomic and  *)
(* module Outbox takes apart.                                              *)

Op == ops < MaxOps /\ ops' = ops + 1

Save(u, v) == mem' = [mem EXCEPT ![u] = v] /\ disk' = [disk EXCEPT ![u] = v]

\* A contact code, of whatever age, is pasted; it may be there already.
AddByCode(u, b) ==
  /\ Op /\ b.who # u
  /\ Save(u, AddContact(mem[u], b))
  /\ UNCHANGED <<ram, net, codes, drawn, heard, killed>>

\* send_bundle_request, to the user w whose bootstrap code was scanned.
ScanBootstrap(u, w) ==
  /\ Op /\ w # u
  /\ ram' = [ram EXCEPT ![u].asked = Append(@, w)]
  /\ net' = net \cup {RequestFrame(u, w)}
  /\ UNCHANGED <<mem, disk, codes, drawn, heard, killed>>

\* send_message without a session: the handshake carries the first message.
SendFirst(u, i, p) ==
  LET c == mem[u].contacts[i]
      conv == Conversation(mem[u], c.id)
      r == AliceRoot(u, c.bundle, drawn[u] + 1)
      m == HandshakeFrame(r, p)
  IN  /\ Op /\ conv.sess = NoSession
      /\ Save(u, PutConversation(mem[u], c.id,
                   [sess |-> [root |-> r, send |-> TRUE], log |-> Append(conv.log, m.text)]))
      /\ net' = net \cup {m}
      /\ drawn' = [drawn EXCEPT ![u] = @ + 1]
      /\ UNCHANGED <<ram, codes, heard, killed>>

\* send_message over a session; without a sending chain nothing happens.
SendMore(u, i, p) ==
  LET c == mem[u].contacts[i]
      conv == Conversation(mem[u], c.id)
      m == DataFrame(u, c.bundle.who, conv.sess.root, c.id, drawn[u] + 1, p)
  IN  /\ Op /\ conv.sess # NoSession /\ conv.sess.send
      /\ Len(conv.log) < MaxLog
      /\ Save(u, PutConversation(mem[u], c.id, [conv EXCEPT !.log = Append(@, m.text)]))
      /\ net' = net \cup {m}
      /\ drawn' = [drawn EXCEPT ![u] = @ + 1]
      /\ UNCHANGED <<ram, codes, heard, killed>>

\* accept_pending_handshake: a new contact, known before or not; the log starts
\* with its message.
Accept(u) ==
  LET p == Head(ram[u].pending)
      b == BundleOf(p.root.from, <<>>)
  IN  /\ Op /\ ram[u].pending # <<>>
      /\ Save(u, PutConversation(AddContact(mem[u], b), b,
                   [sess |-> [root |-> p.root, send |-> FALSE], log |-> <<p.text>>]))
      /\ ram' = [ram EXCEPT ![u].pending = Tail(@)]
      /\ UNCHANGED <<net, codes, drawn, heard, killed>>

\* Esc in the popup.
Reject(u) ==
  /\ Op /\ ram[u].pending # <<>>
  /\ ram' = [ram EXCEPT ![u].pending = Tail(@)]
  /\ UNCHANGED <<mem, disk, net, codes, drawn, heard, killed>>

\* 'd': the conversation stays in the vault.
Delete(u, i) ==
  /\ Op
  /\ Save(u, [mem[u] EXCEPT !.contacts = RemoveAt(@, i)])
  /\ UNCHANGED <<ram, net, codes, drawn, heard, killed>>

\* The program is closed, or killed without the final save, and started again.
Restart(u, clean) ==
  /\ Op
  /\ LET v == IF clean THEN mem[u] ELSE disk[u] IN
     /\ Save(u, v)
     /\ ram' = [ram EXCEPT ![u] = FreshRam(v)]
     /\ codes' = codes \cup {BundleOf(u, v.opks)}
  /\ killed' = IF clean THEN killed ELSE killed \cup {u}
  /\ UNCHANGED <<net, drawn, heard>>

UserStep(u) ==
  \/ \E b \in codes : AddByCode(u, b)
  \/ \E w \in User : ScanBootstrap(u, w)
  \/ \E i \in DOMAIN mem[u].contacts :
       Delete(u, i) \/ \E p \in Texts : SendFirst(u, i, p) \/ SendMore(u, i, p)
  \/ Accept(u) \/ Reject(u) \/ \E clean \in BOOLEAN : Restart(u, clean)

Next == \E u \in User : UserStep(u) \/ \E m \in net : Receive(u, m)

Spec == Init /\ [][Next]_vars

-----------------------------------------------------------------------------
(* Properties.                                                             *)

TypeOK ==
  /\ \A v \in Range(mem) \cup Range(disk) :
       /\ v.opks \in Seq(Nat) /\ v.contacts \in Seq(Contact)
       /\ DOMAIN v.convs \subseteq Bundle /\ Range(v.convs) \subseteq Conv
       /\ Len(v.opks) \in OpkThreshold + 1..OpkThreshold + OpkBatch
  /\ \A r \in Range(ram) :
       /\ r.pending \in Seq(PendingHandshake) /\ Len(r.pending) <= MaxPending
       /\ r.asked \in Seq(User) /\ r.code \in Seq(Nat)
  /\ codes \subseteq Bundle
  /\ drawn \in [User -> Nat] /\ ops \in 0..MaxOps
  /\ heard \in [User -> SUBSET Root] /\ killed \subseteq User

\* "Each OPK is used at most once and the secret is deleted after use": unless
\* its owner's program was killed, a prekey went into one session key only, and
\* this however many users were given it.
OpkServesOnce ==
  \A u \in User \ killed : \A r, q \in heard[u] : r.opk = q.opk /\ r.opk # NoOpk => r = q

\* The session of a contact is one with that contact: the user started it
\* towards the contact, or derived it from a handshake of the contact.
SessionIsWithContact ==
  \A u \in User : \A i \in DOMAIN mem[u].contacts :
    LET c == mem[u].contacts[i]
        s == Conversation(mem[u], c.id).sess
    IN  s = NoSession \/ (s.root.from = u /\ s.root.to = c.bundle.who)
          \/ (s.root.from = c.bundle.who /\ s.root \in heard[u])

\* The prekeys of u on offer: in codes, in frames, in the lists of contacts.
Offered(u) ==
  UNION ({ToSet(b.opks) : b \in {b \in codes : b.who = u}}
    \cup {ToSet(m.bundle.opks) : m \in {m \in net : m.type \in {"OpkRefresh", "BundleResponse"}
                                                     /\ m.bundle.who = u}}
    \cup UNION {{ToSet(c.bundle.opks) : c \in {c \in ToSet(mem[w].contacts) : c.bundle.who = u}}
                 : w \in User})

\* A prekey that is on offer can be used or has been: its secret was not lost,
\* unless a kill came between announcing new prekeys and saving them.
OffersHonoured ==
  \A u \in User \ killed :
    Offered(u) \subseteq ToSet(mem[u].opks) \cup {r.opk : r \in heard[u]}

\* A kill costs no contact, no session and no message: all of them are on disk.
NothingToLose ==
  \A u \in User : mem[u].contacts = disk[u].contacts /\ mem[u].convs = disk[u].convs

\* "Replying and receiving a reply works correctly" (docs/TESTING.md:108; app.rs:1073
\* too): who has a session can write.
ReplyPossible ==
  \A u \in User : \A i \in DOMAIN mem[u].contacts :
    LET s == Conversation(mem[u], mem[u].contacts[i].id).sess IN s # NoSession => s.send
=============================================================================
