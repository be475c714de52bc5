------------------------------ MODULE Android ------------------------------
(***************************************************************************)
(* The Android application (op4-android).  Everything it decides happens   *)
(* in Op4App::update, once per drawn frame and on one thread: the result   *)
(* of the background bootstrap is taken, the messages received so far are  *)
(* handled one by one, the conversation is reloaded if another contact was *)
(* selected, and then the widgets are drawn, of which the user may have    *)
(* used one.                                                               *)
(* There is no outbox and no final save, the error of a save is dropped    *)
(* everywhere, and the system may kill the application at any moment.      *)
(*                                                                         *)
(* Left out: which form the Contacts tab shows (a form is opened and       *)
(* submitted in one step), whether a contact is marked as verified, and    *)
(* the settings, which nothing reads.                                      *)
(***************************************************************************)
EXTENDS Naturals, Sequences, FiniteSets, SequencesExt, Wire

CONSTANTS
  Peer,
  OpkBatch, OpkThreshold, MaxPending,
  WireCap,       \* MAX_WIRE_BYTES
  IdsAgree,      \* whether a peer's MAC may name the id this user has for that peer
  NoVault, NoOpk, None,
  MaxEvents,     \* bound: clicks and frames
  MaxFrames, MaxBatch, MaxContacts, MaxKills   \* bounds

ASSUME AndroidConstants ==
  /\ OpkBatch \in Nat \ {0} /\ OpkThreshold \in Nat /\ OpkThreshold < OpkBatch
  /\ MaxPending \in Nat \ {0} /\ WireCap \in Nat /\ IdsAgree \in BOOLEAN
  /\ MaxEvents \in Nat /\ MaxFrames \in Nat /\ MaxBatch \in Nat /\ MaxContacts \in Nat /\ MaxKills \in Nat

VARIABLES
  mem,      \* the unlocked payload
  disk,     \* the payload as last saved
  app,      \* the rest of Op4App
  inq,      \* the frames received and not yet handled
  boot,     \* the background bootstrap
  clicks, frames,  \* what bounds users and peers
  drawn,    \* the sessions and texts of this user so far
  sent,     \* history: the frames handed to the transport
  unsaved,  \* history: the sessions sent in since the last save, whose own save failed
  torn,     \* history: the sessions sent in when the application was killed before a save
  heard,    \* history: the prekeys of the requests shown to the user
  kills     \* how often the application was killed

vars == <<mem, disk, app, inq, boot, clicks, frames, drawn, sent, unsaved, torn, heard, kills>>

\* A contact's id is the hash of the bundle as added: one from a request has no prekeys.
Id == Peer \X {"code", "request"}
Text == [us : BOOLEAN, n : Nat]
Session == [us : BOOLEAN, n : Nat, pos : Nat]   \* us: this side can send; pos: what it sent last
Conv == [sess : Session \cup {None}, log : Seq(Text), unread : Nat]
Request == [from : Peer, opk : Nat \cup {NoOpk}, n : Nat]
Received ==
  [type : {"Data", "Rotation", "Retirement", "OpkRefresh", "Handshake"}, from : Peer,
   opk : Nat \cup {NoOpk}, id : (Peer \X {"us", "code", "request"}) \cup {None}, n : Nat, len : Nat]
Vault == [keys : BOOLEAN, opks : SUBSET Nat, last : Nat, addr : BOOLEAN,
          contacts : Seq(Id), convs : [Id -> Conv]]
App == [screen : {"Passphrase", "Main", "Duress", "KeyAlert"}, isNew : BOOLEAN,
        tab : {"Contacts", "Conversation"}, sel : Nat, loaded : Nat \cup {None},
        shown : Seq(Text), pending : Seq(Request),
        code : [addr : BOOLEAN, opks : SUBSET Nat] \cup {None}, up : BOOLEAN]

ASSUME NoneIsNothing ==
  NoVault \notin Vault /\ NoOpk \notin Nat /\ None \notin Nat /\ None \notin Session

\* Op4App::new
NewApp(saved) ==
  [screen |-> "Passphrase", isNew |-> saved = NoVault, tab |-> "Contacts",
   sel |-> 1, loaded |-> None, shown |-> <<>>, pending |-> <<>>, code |-> None, up |-> FALSE]

Init ==
  /\ mem = NoVault /\ disk = NoVault /\ app = NewApp(NoVault)
  /\ inq = <<>> /\ boot = "none"
  /\ clicks = 0 /\ frames = 0 /\ drawn = 0
  /\ sent = {} /\ unsaved = {} /\ torn = {} /\ heard = {} /\ kills = 0

-----------------------------------------------------------------------------
(* A step works on the record of what update may change; d holds all that  *)
(* may be on disk after it, as each of its saves succeeds or fails.        *)

Now == [v |-> mem, d |-> {disk}, a |-> app, sent |-> sent, heard |-> heard]

Saved(s) == [s EXCEPT !.d = @ \cup {s.v}]

\* A conversation that does not exist yet is as good as an empty one.
Conversation(v, id) == v.convs[id]
PutConversation(v, id, c) == [v EXCEPT !.convs[id] = c]

Selected(s) == s.a.sel \in DOMAIN s.v.contacts
SelectedId(s) == s.v.contacts[s.a.sel]

\* refresh_codes: without keys there is no code.
CodesRefreshed(s) ==
  IF s.v.keys THEN [s EXCEPT !.a.code = [addr |-> s.v.addr, opks |-> s.v.opks]] ELSE s

\* Mutant: what is on the screen stays if the same position is selected.
MessagesReloadedOnce(s) ==
  IF ~Selected(s) \/ s.a.loaded = s.a.sel THEN s
  ELSE [s EXCEPT !.a.shown = Conversation(s.v, SelectedId(s)).log, !.a.loaded = s.a.sel]

\* reload_messages: without a contact at the selected position nothing changes.
MessagesReloaded(s) ==
  LET c == Conversation(s.v, SelectedId(s))
      read == [s EXCEPT !.a.shown = c.log, !.a.loaded = s.a.sel]
  IN  IF ~Selected(s) THEN s
      ELSE IF c.unread = 0 THEN read
      ELSE Saved([read EXCEPT !.v = PutConversation(s.v, SelectedId(s), [c EXCEPT !.unread = 0])])

-----------------------------------------------------------------------------
(* What peers send.                                                        *)

Known(s, p) == \E i \in DOMAIN s.v.contacts : s.v.contacts[i][1] = p

\* Mutant: the prekey is used up although there is no room for the request.
HandleHandshakeUsed(s, m) ==
  IF ~s.v.keys \/ (m.opk # NoOpk /\ m.opk \notin s.v.opks) THEN s
  ELSE LET rest == s.v.opks \ {m.opk}
           t == [s EXCEPT !.v.opks = rest] IN
       IF Len(s.a.pending) >= MaxPending THEN t
       ELSE [t EXCEPT !.a.pending = Append(@, [from |-> m.from, opk |-> m.opk, n |-> m.n]),
                      !.heard = @ \cup ({m.opk} \ {NoOpk})]

\* handle_inbound_handshake: always a request, of a known contact too; the
\* prekey is used up in memory, and nobody is told of the new ones.
HandleHandshake(s, m) ==
  LET rest == s.v.opks \ {m.opk}
      low == m.opk # NoOpk /\ Cardinality(rest) <= OpkThreshold
  IN  IF \/ Len(s.a.pending) >= MaxPending \/ ~s.v.keys
         \/ m.opk # NoOpk /\ m.opk \notin s.v.opks
      THEN s
      ELSE [s EXCEPT
        !.v.opks = IF low THEN rest \cup (s.v.last + 1..s.v.last + OpkBatch) ELSE rest,
        !.v.last = IF low THEN @ + OpkBatch ELSE @,
        !.a.pending = Append(@, [from |-> m.from, opk |-> m.opk, n |-> m.n]),
        !.heard = @ \cup ({m.opk} \ {NoOpk})]

\* handle_inbound_data: the first contact whose session opens the message and
\* whose id is in the MAC.  The ratchet that is stored can send from now on.
HandleData(s, m) ==
  LET c == Conversation(s.v, m.id)
      hits == {i \in DOMAIN s.v.contacts : s.v.contacts[i] = m.id /\ c.sess # None}
      log == Append(c.log, [us |-> FALSE, n |-> m.n])
      first == s.a.loaded \in hits /\ \A i \in hits : s.a.loaded <= i
  IN  IF hits = {} THEN s
      ELSE Saved([s EXCEPT
        !.v = PutConversation(@, m.id,
                [sess |-> [c.sess EXCEPT !.us = TRUE], log |-> log, unread |-> c.unread + 1]),
        !.a.shown = IF first THEN log ELSE @])

\* handle_inbound_revocation: the keys of the contact stay as they are, and the
\* alert does not say whose keys changed.
HandleRevocation(s, m) ==
  IF ~Known(s, m.from) THEN s
  ELSE IF m.type = "Retirement" THEN Saved(s)
  ELSE Saved([s EXCEPT !.a.screen = "KeyAlert"])

\* handle_inbound_opk_refresh; which prekeys a contact offers is left out.
HandleOpkRefresh(s, m) ==
  IF Known(s, m.from) THEN Saved(s) ELSE s

\* handle_incoming_message: requests for a bundle are not answered.
Handle(s, m) ==
  IF m.len > WireCap THEN s
  ELSE CASE m.type = "Handshake" -> HandleHandshake(s, m)
         [] m.type = "Data" -> HandleData(s, m)
         [] m.type \in {"Rotation", "Retirement"} -> HandleRevocation(s, m)
         [] m.type = "OpkRefresh" -> HandleOpkRefresh(s, m)
         [] OTHER -> s

-----------------------------------------------------------------------------
(* update, up to the widgets.                                              *)

\* The sessions of what a step handed over and tried to save.
AtStake(t) == IF t.v \in t.d THEN {f.sess.n : f \in t.sent \ sent} ELSE {}

Become(t) ==
  /\ mem' = t.v /\ disk' \in t.d /\ app' = t.a
  /\ sent' = t.sent /\ heard' = t.heard
  /\ unsaved' = IF disk' = t.v THEN {} ELSE unsaved \cup AtStake(t)
  /\ UNCHANGED <<torn, kills>>

Quiet == UNCHANGED <<boot, clicks, frames, drawn>>

\* The bootstrap has ended: the address is saved and goes into the codes.
TakeTransport ==
  /\ boot = "ok" /\ ~app.up
  /\ Become(CodesRefreshed(Saved([Now EXCEPT !.v.addr = TRUE, !.a.up = TRUE])))
  /\ Quiet /\ UNCHANGED inq

\* The loop over the payloads received.
HandleFrame ==
  /\ app.up /\ inq # <<>>
  /\ Become(Handle(Now, Head(inq)))
  /\ inq' = Tail(inq) /\ Quiet

\* What arrives while the widgets are drawn is as if it came after them.
Polled == (boot = "ok" => app.up) /\ (app.up => inq = <<>>)

ReloadedIfChanged(s) ==
  IF s.a.screen = "Main" /\ s.a.tab = "Conversation" /\ s.a.sel # s.a.loaded
  THEN MessagesReloaded(s) ELSE s

\* What the widgets are drawn from.
Ready == ReloadedIfChanged(Now)

Event == clicks + frames < MaxEvents

Clicked ==
  /\ Polled /\ Event /\ clicks' = clicks + 1
  /\ UNCHANGED <<boot, frames, inq>>
Click == Clicked /\ UNCHANGED drawn

\* Nothing was clicked.
Idle == Polled /\ Become(Ready) /\ Quiet /\ UNCHANGED inq

\* The main screen, and the alert over its Contacts tab.
OnMain(s) == s.a.screen \in {"Main", "KeyAlert"}
OnTab(s, t) == OnMain(s) /\ s.a.tab = t
OnContacts(s) == s.a.screen = "Main" /\ s.a.tab = "Contacts"

-----------------------------------------------------------------------------
(* The passphrase screen.                                                  *)

\* A wrong passphrase changes nothing; there is no limit to attempts.  The
\* transport starts in the background, and nobody looks whether there are keys.
Unlock ==
  /\ app.screen = "Passphrase" /\ ~app.isNew
  /\ Become(CodesRefreshed([Now EXCEPT !.v = disk, !.a.screen = "Main"])) /\ boot' = "running"
  /\ UNCHANGED <<inq, clicks, frames, drawn>>

\* The decoy payload, without a transport.
UnlockDuress ==
  /\ app.screen = "Passphrase" /\ ~app.isNew
  /\ Become([Now EXCEPT !.a.screen = "Duress"]) /\ Quiet /\ UNCHANGED inq

\* What VaultUnlocked::create writes, and what is saved next.
EmptyVault == [keys |-> FALSE, opks |-> {}, last |-> 0, addr |-> FALSE, contacts |-> <<>>,
               convs |-> [id \in Id |-> [sess |-> None, log |-> <<>>, unread |-> 0]]]
FirstVault == [EmptyVault EXCEPT !.keys = TRUE, !.opks = 1..OpkBatch, !.last = OpkBatch]

\* The keys come after the vault was created.  If their save fails, or the
\* application is killed before it, the vault that is unlocked next has none.
Create ==
  /\ app.screen = "Passphrase" /\ app.isNew
  /\ Become(CodesRefreshed(Saved(
       [Now EXCEPT !.v = FirstVault, !.d = {EmptyVault}, !.a.screen = "Main"])))
  /\ boot' = "running"
  /\ UNCHANGED <<inq, clicks, frames, drawn>>

-----------------------------------------------------------------------------
(* The contacts tab.                                                       *)

\* The tab bar; the conversation is read anew.
Tab(t) ==
  /\ OnMain(Ready) /\ Click
  /\ LET s == [Ready EXCEPT !.a.tab = t] IN
     Become(IF t = "Conversation" THEN MessagesReloaded(s) ELSE s)

\* A visit to the settings: a threshold is saved, and the button for the code
\* leads to the contacts.  (Rotation and revocation only show that they are missing.)
VisitSettings ==
  OnMain(Ready) /\ Click /\ Become(Saved([Ready EXCEPT !.a.tab = "Contacts"]))

Select(i) ==
  /\ OnContacts(Ready) /\ i \in DOMAIN Ready.v.contacts /\ i # Ready.a.sel
  /\ Click /\ Become([Ready EXCEPT !.a.sel = i])

Verified(s) == IF Selected(s) THEN Saved(s) ELSE s

Verify == OnContacts(Ready) /\ Ready.v.contacts # <<>> /\ Click /\ Become(Verified(Ready))

Without(s) == Saved([s EXCEPT !.v.contacts = RemoveAt(@, s.a.sel)])

\* The position that was loaded may now be another contact's.
Delete ==
  /\ OnContacts(Ready) /\ Selected(Ready)
  /\ Click
  /\ LET t == Without(Ready)
         n == Len(t.v.contacts)
     IN  Become([t EXCEPT !.a.sel = IF n > 0 /\ @ > n THEN n ELSE @])

WithContact(s, id) ==
  [s EXCEPT !.v.contacts = Append(@, id), !.a.sel = Len(s.v.contacts) + 1]

\* A contact code; for a bootstrap code nothing is sent.
AddByCode(p) ==
  /\ OnContacts(Ready) /\ Len(Ready.v.contacts) < MaxContacts
  /\ Click /\ Become(Saved(WithContact(Ready, <<p, "code">>)))

\* accept_pending: a new contact, whose log starts with the message of the request.
\* (There are keys whenever there are requests.)
Accept ==
  LET r == Head(Ready.a.pending)
      id == <<r.from, "request">>
      c == Conversation(Ready.v, id)
      t == WithContact([Ready EXCEPT !.a.pending = Tail(@)], id)
  IN  /\ OnContacts(Ready) /\ Ready.a.pending # <<>>
      /\ Len(Ready.v.contacts) < MaxContacts
      /\ Clicked /\ drawn' = drawn + 1
      /\ Become(Saved([t EXCEPT !.v = PutConversation(@, id,
           [sess |-> [us |-> FALSE, n |-> drawn + 1, pos |-> 0],
            log |-> <<[us |-> FALSE, n |-> r.n]>>, unread |-> c.unread])]))

Reject ==
  /\ OnContacts(Ready) /\ Ready.a.pending # <<>>
  /\ Click /\ Become([Ready EXCEPT !.a.pending = Tail(@)])

\* show_key_alert: both buttons act on the selected contact, and the selection
\* is not adjusted.
AlertAccept ==
  /\ Ready.a.screen = "KeyAlert" /\ Ready.a.tab = "Contacts" /\ Click
  /\ Become([Verified(Ready) EXCEPT !.a.screen = "Main"])
AlertReject ==
  /\ Ready.a.screen = "KeyAlert" /\ Ready.a.tab = "Contacts" /\ Click
  /\ LET s == Ready IN Become([(IF Selected(s) THEN Without(s) ELSE s) EXCEPT !.a.screen = "Main"])

-----------------------------------------------------------------------------
(* The conversation tab.                                                   *)

\* The message is the next position of the session, or the handshake of a new one.
NextSession(s) ==
  LET old == Conversation(s.v, SelectedId(s)).sess IN
  IF old = None THEN [us |-> TRUE, n |-> drawn + 1, pos |-> 0]
  ELSE [old EXCEPT !.pos = @ + 1]

\* There are keys, and no session or one that can send.  (To a contact whose code was made
\* before its transport was up nothing is ever sent.)
MaySend(s) ==
  /\ Selected(s) /\ s.v.keys
  /\ LET old == Conversation(s.v, SelectedId(s)).sess IN old # None => old.us

Advanced(s) ==
  LET id == SelectedId(s) IN
  [s EXCEPT !.v = PutConversation(@, id, [Conversation(@, id) EXCEPT !.sess = NextSession(s)])]

HandedOver(s, t) ==
  [t EXCEPT !.sent = @ \cup {[sess |-> NextSession(s), text |-> drawn + 1]}]

\* Mutant: the vault is saved with the handshake only.
LoggedSavedOnce(t) ==
  LET id == SelectedId(t)
      c == Conversation(t.v, id)
      log == Append(c.log, [us |-> TRUE, n |-> drawn + 1])
      s == [t EXCEPT !.v = PutConversation(@, id, [c EXCEPT !.log = log]), !.a.shown = log]
  IN  IF c.sess.pos = 0 THEN Saved(s) ELSE s

Logged(t) ==
  LET id == SelectedId(t)
      c == Conversation(t.v, id)
      log == Append(c.log, [us |-> TRUE, n |-> drawn + 1])
  IN  Saved([t EXCEPT !.v = PutConversation(@, id, [c EXCEPT !.log = log]), !.a.shown = log])

\* send_message: the session moves on in memory whether or not there is a
\* transport and room in its channel, which cover traffic fills too; log and save
\* are for what was queued.
Send(room) ==
  /\ OnTab(Ready, "Conversation") /\ Ready.v.contacts # <<>>
  /\ Clicked /\ drawn' = drawn + 1
  /\ LET s == Ready
         t == Advanced(s)
     IN  Become(IF ~MaySend(s) THEN s
                ELSE IF s.a.up /\ room THEN Logged(HandedOver(s, t)) ELSE t)

-----------------------------------------------------------------------------
(* Everything else.                                                        *)

Locked == /\ mem' = NoVault /\ app' = NewApp(disk) /\ inq' = <<>>
          /\ boot' = "none" /\ kills < MaxKills /\ kills' = kills + 1
          /\ unsaved' = {} /\ UNCHANGED <<frames, disk, heard>>

\* Whatever a step changed before it was killed is lost like what it was about to.
Kill ==
  /\ app.screen # "Passphrase" /\ Locked /\ torn' = torn \cup unsaved
  /\ UNCHANGED <<clicks, drawn, sent>>

\* Killed between try_send and save: the outbound task may have sent the frame.
KillSending ==
  /\ OnTab(Ready, "Conversation") /\ MaySend(Ready)
  /\ Ready.a.up /\ Polled
  /\ Event /\ clicks' = clicks + 1 /\ drawn' = drawn + 1
  /\ sent' = HandedOver(Ready, Ready).sent
  /\ torn' = torn \cup unsaved \cup {NextSession(Ready).n}
  /\ Locked

\* ArtiTransport::init ends; a failure is not tried again.
Boot(result) ==
  /\ boot = "running" /\ boot' = result
  /\ UNCHANGED <<mem, disk, app, inq, clicks, frames, drawn, sent, unsaved, torn, heard, kills>>

\* inbound_loop; a peer uses a prekey of the code it was given.
Arrive(m) ==
  /\ boot = "ok" /\ Event /\ frames < MaxFrames /\ Len(inq) < MaxBatch
  /\ frames' = frames + 1 /\ inq' = Append(inq, [m EXCEPT !.n = frames + 1])
  /\ UNCHANGED <<mem, disk, app, boot, clicks, drawn, sent, unsaved, torn, heard, kills>>

Frame(type, p, opk, id, len) ==
  [type |-> type, from |-> p, opk |-> opk, id |-> id, n |-> 0, len |-> len]

\* A peer puts the id that it has for this user into the MAC ("us"), which is
\* never the one this user has for the peer.  The others, with IdsAgree, are of
\* peers of which no version exists yet: they lead past the check of the MAC.
Inbound(p) ==
  {Frame("Data", p, NoOpk, <<p, whose>>, DataLen(484)) :
     whose \in {"us"} \cup (IF IdsAgree THEN {"code", "request"} ELSE {})}
  \cup
  {Frame("Rotation", p, NoOpk, None, CertificateLen(0, TRUE)),
   Frame("Retirement", p, NoOpk, None, CertificateLen(0, FALSE)),
   Frame("OpkRefresh", p, NoOpk, None, RefreshLen(OpkBatch))}
  \cup {Frame("Handshake", p, opk, None, HandshakeLen(40, opk # NoOpk)) :
          opk \in (IF mem = NoVault THEN {} ELSE 1..mem.last) \cup {NoOpk}}

User ==
  \/ Unlock \/ UnlockDuress \/ Create
  \/ \E t \in {"Contacts", "Conversation"} : Tab(t)
  \/ VisitSettings
  \/ \E i \in 1..MaxContacts : Select(i)
  \/ Verify \/ Delete \/ \E p \in Peer : AddByCode(p)
  \/ Accept \/ Reject \/ AlertAccept \/ AlertReject
  \/ \E room \in BOOLEAN : Send(room)

Next ==
  \/ TakeTransport \/ HandleFrame \/ Idle \/ User \/ Kill \/ KillSending
  \/ \E result \in {"ok", "failed"} : Boot(result)
  \/ \E p \in Peer : \E m \in Inbound(p) : Arrive(m)

Spec == Init /\ [][Next]_vars

-----------------------------------------------------------------------------
(* Properties.                                                             *)

TypeOK ==
  /\ \A v \in {mem, disk} \ {NoVault} :
       /\ v \in Vault /\ v.opks \subseteq 1..v.last
       /\ IF v.keys THEN Cardinality(v.opks) > OpkThreshold ELSE v.opks = {}
  /\ app \in App /\ Len(app.pending) <= MaxPending
  /\ inq \in Seq(Received)
  /\ boot \in {"none", "running", "ok", "failed"}
  /\ sent \subseteq [sess : Session, text : Nat]
  /\ unsaved \subseteq Nat /\ torn \subseteq Nat /\ heard \subseteq Nat
  /\ {clicks, frames, drawn, kills} \subseteq Nat

\* No position of a session is used for two messages that were handed to the
\* transport, however sends without transport, with a full channel, other saves,
\* failing saves and kills follow each other.  Only a kill can make it happen that
\* comes after a send and before the first save since then that succeeds.
PositionSentOnce ==
  \A f, g \in sent : f.sess = g.sess /\ f.sess.n \notin torn => f = g

\* The messages under a contact's name are those of that contact.  Of a contact
\* added twice only the first entry is kept up to date by handle_inbound_data.
ShownIsCurrent ==
  /\ mem # NoVault /\ OnTab(Now, "Conversation") /\ Selected(Now)
  /\ \A i \in 1..app.sel - 1 : mem.contacts[i] # SelectedId(Now)
  => app.shown = Conversation(mem, SelectedId(Now)).log

\* Unless the application was killed, a prekey is gone only for a request that
\* reached the user: one that finds no room costs its sender nothing.
PrekeySpentOnRequest ==
  mem # NoVault /\ kills = 0 => (1..mem.last) \ mem.opks = heard
=============================================================================
