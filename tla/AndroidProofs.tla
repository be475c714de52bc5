--------------------------- MODULE AndroidProofs ---------------------------
(***************************************************************************)
(* Proofs about Android, for any peers, batches, bounds and frames.  What  *)
(* a step of update does is a change to the record of Now, and each such   *)
(* change keeps the record Good.                                           *)
(***************************************************************************)
EXTENDS Android, Integers, FiniteSetTheorems, SequenceTheorems, TLAPS

\* The conversations that have a session.
Live(convs) == {id \in Id : convs[id].sess # None}

\* Nothing that was handed over is ahead of the session it was sent in, sessions
\* in but apart, and no two conversations share a session.
Behind(convs, out, n, but) ==
  /\ \A id \in Live(convs) : convs[id].sess.n <= n
  /\ \A id \in Live(convs) : \A f \in out :
       f.sess.n = convs[id].sess.n /\ f.sess.n \notin but => f.sess.pos <= convs[id].sess.pos
  /\ \A id, jd \in Live(convs) : convs[id].sess.n = convs[jd].sess.n => id = jd

Once(out, n) ==
  /\ \A f \in out : f.sess.n <= n
  /\ \A f, g \in out : f.sess = g.sess /\ f.sess.n \notin torn => f = g

Stocked(v) ==
  /\ v.opks \subseteq 1..v.last
  /\ IF v.keys THEN Cardinality(v.opks) > OpkThreshold ELSE v.opks = {}

Message == [sess : Session, text : Nat]
Work == [v : Vault, d : SUBSET Vault, a : App, sent : SUBSET Message, heard : SUBSET Nat]

\* What is shown in the tab of conversations was read from the one selected, and
\* is up to date if that is the first entry of its contact.
Foremost(s) == \A i \in 1..s.a.sel - 1 : s.v.contacts[i] # SelectedId(s)

Fresh(s) ==
  OnTab(s, "Conversation") /\ Selected(s) =>
    /\ s.a.loaded = s.a.sel
    /\ Foremost(s) => s.a.shown = s.v.convs[SelectedId(s)].log

\* The memory is behind in torn sessions only; what may be on disk also in those
\* of late, the sessions whose save is not done.
Holds(s, n, late) ==
  /\ s \in Work
  /\ s.a.screen \in {"Main", "KeyAlert"} /\ Len(s.a.pending) <= MaxPending
  /\ Stocked(s.v) /\ \A v \in s.d : Stocked(v)
  /\ Behind(s.v.convs, s.sent, n, torn) /\ Once(s.sent, n)
  /\ \A v \in s.d : Behind(v.convs, s.sent, n, torn \cup late)
  /\ kills = 0 => (1..s.v.last) \ s.v.opks = s.heard

Sane(s, n) == Holds(s, n, unsaved)

Good(s, n) == Sane(s, n) /\ Fresh(s)

\* Before a passphrase opened the vault.
Closed ==
  /\ app.screen \in {"Passphrase", "Duress"} /\ app.tab = "Contacts"
  /\ ~app.up /\ boot = "none" /\ inq = <<>>
  /\ app.screen = "Passphrase" /\ ~app.isNew => disk # NoVault
  /\ disk # NoVault => Behind(disk.convs, sent, drawn, torn)
  /\ Once(sent, drawn) /\ unsaved = {}
  /\ kills = 0 => disk = NoVault /\ heard = {}

AndroidInv ==
  /\ TypeOK
  /\ mem = NoVault => Closed
  /\ mem # NoVault => disk # NoVault /\ Good(Now, drawn)

-----------------------------------------------------------------------------
(* Changes that keep the record Good.                                      *)

\* The record with another vault in memory.
WithVault(s, v) == [s EXCEPT !.v = v]

\* The fields of the record.
LEMMA WorkFields ==
  ASSUME NEW s \in Work
  PROVE  /\ s.v \in Vault /\ s.d \in SUBSET Vault /\ s.a \in App
         /\ s.sent \in SUBSET Message /\ s.heard \in SUBSET Nat
         /\ s.v.contacts \in Seq(Id) /\ s.v.opks \in SUBSET Nat /\ s.v.last \in Nat
         /\ s.v.convs \in [Id -> Conv] /\ s.v.keys \in BOOLEAN
         /\ \A v \in s.d : v \in Vault /\ v.convs \in [Id -> Conv]
         /\ s.a.sel \in Nat /\ s.a.pending \in Seq(Request)
         /\ s.a.loaded \in Nat \cup {None} /\ s.a.shown \in Seq(Text)
BY DEF Work, Vault, App

\* The contact at a position of the list.
LEMMA Contacts ==
  ASSUME NEW s \in Work, NEW i \in DOMAIN s.v.contacts
  PROVE  s.v.contacts[i] \in Id /\ s.v.convs[s.v.contacts[i]] \in Conv
BY WorkFields

\* A conversation as a record of its fields.
LEMMA ConvFields ==
  ASSUME NEW c \in Conv
  PROVE  /\ c.sess \in Session \cup {None} /\ c.log \in Seq(Text) /\ c.unread \in Nat
BY DEF Conv

\* The sessions of live conversations are sessions.
LEMMA LiveSessions ==
  ASSUME NEW convs \in [Id -> Conv], NEW id \in Live(convs)
  PROVE  /\ id \in Id /\ convs[id].sess \in Session
         /\ convs[id].sess.n \in Nat /\ convs[id].sess.pos \in Nat
<1>1. id \in Id /\ convs[id] \in Conv /\ convs[id].sess # None
  BY DEF Live
<1>2. convs[id].sess \in Session
  BY <1>1, ConvFields
<1> QED
  BY <1>1, <1>2 DEF Session

\* Both have a session, of the same number and position.
SamePlace(c, d) == c # None /\ d # None /\ c.n = d.n /\ c.pos = d.pos

\* Putting back a conversation with the same session changes nothing for senders.
LEMMA SameSession ==
  ASSUME NEW convs \in [Id -> Conv], NEW id \in Id, NEW c \in Conv,
         c.sess = convs[id].sess \/ SamePlace(c.sess, convs[id].sess),
         NEW out, NEW n, NEW but, Behind(convs, out, n, but)
  PROVE  /\ [convs EXCEPT ![id] = c] \in [Id -> Conv]
         /\ Behind([convs EXCEPT ![id] = c], out, n, but)
<1> DEFINE d == [convs EXCEPT ![id] = c]
<1>1. d \in [Id -> Conv] /\ d[id] = c /\ \A jd \in Id : jd # id => d[jd] = convs[jd]
  OBVIOUS
<1> HIDE DEF d
<1>2. \A jd \in Live(d) : /\ jd \in Live(convs) /\ d[jd].sess.n = convs[jd].sess.n
                          /\ d[jd].sess.pos = convs[jd].sess.pos
  BY <1>1 DEF Live, SamePlace
<1>3. \A jd \in Live(d) : d[jd].sess.n <= n
  BY <1>2 DEF Behind
<1>4. \A jd \in Live(d) : \A f \in out :
        f.sess.n = d[jd].sess.n /\ f.sess.n \notin but => f.sess.pos <= d[jd].sess.pos
  BY <1>2 DEF Behind
<1>5. \A jd, kd \in Live(d) : d[jd].sess.n = d[kd].sess.n => jd = kd
  BY <1>2 DEF Behind
<1>6. Behind(d, out, n, but)
  BY <1>3, <1>4, <1>5 DEF Behind
<1> QED
  BY <1>1, <1>6 DEF d

\* More may be drawn.
LEMMA BehindGrows ==
  ASSUME NEW convs \in [Id -> Conv], NEW out \in SUBSET Message, NEW n \in Nat, NEW m \in Nat,
         n <= m, NEW but
  PROVE  /\ Behind(convs, out, n, but) => Behind(convs, out, m, but)
         /\ Once(out, n) => Once(out, m)
<1>1. \A f \in out : f.sess.n \in Nat
  BY DEF Message, Session
<1>2. Once(out, n) => Once(out, m)
  BY <1>1 DEF Once
<1>3. \A id \in Live(convs) : convs[id].sess.n \in Nat
  BY LiveSessions
<1>4. Behind(convs, out, n, but) => Behind(convs, out, m, but)
  BY <1>3 DEF Behind
<1> QED
  BY <1>2, <1>4

\* More sessions may be apart.
LEMMA BehindWeakens ==
  ASSUME NEW convs, NEW out, NEW n, NEW but, NEW more, but \subseteq more,
         Behind(convs, out, n, but)
  PROVE  Behind(convs, out, n, more)
BY DEF Behind

\* Saving, which writes down what is in memory.
LEMMA SavedGood ==
  ASSUME NEW s, NEW n
  PROVE  /\ Sane(s, n) => Sane(Saved(s), n)
         /\ Good(s, n) => Good(Saved(s), n)
<1> SUFFICES ASSUME Sane(s, n)
             PROVE  Sane(Saved(s), n) /\ (Fresh(s) => Fresh(Saved(s)))
  BY DEF Good
<1>1. s \in Work /\ s.v \in Vault
  BY WorkFields DEF Sane, Holds
<1>2. /\ Saved(s) \in Work /\ Saved(s).v = s.v /\ Saved(s).d = s.d \cup {s.v}
      /\ Saved(s).a = s.a /\ Saved(s).sent = s.sent /\ Saved(s).heard = s.heard
  BY <1>1 DEF Saved, Work
<1>3. Behind(s.v.convs, s.sent, n, torn \cup unsaved)
  BY BehindWeakens DEF Sane, Holds
<1>4. Sane(Saved(s), n)
  BY <1>2, <1>3 DEF Sane, Holds
<1>5. Fresh(s) => Fresh(Saved(s))
  BY <1>2 DEF Fresh, Foremost, OnTab, OnMain, Selected, SelectedId
<1> QED
  BY <1>4, <1>5

\* A change of the application's own fields.
LEMMA OwnFields ==
  ASSUME NEW s, NEW n, Sane(s, n), NEW a \in App,
         a.screen \in {"Main", "KeyAlert"}, Len(a.pending) <= MaxPending,
         NEW t, t = [s EXCEPT !.a = a]
  PROVE  /\ Sane(t, n) /\ t.v = s.v /\ t.d = s.d /\ t.a = a
         /\ t.sent = s.sent /\ t.heard = s.heard
<1>1. s \in Work
  BY DEF Sane, Holds
<1>2. /\ t \in Work /\ t.v = s.v /\ t.d = s.d /\ t.a = a
      /\ t.sent = s.sent /\ t.heard = s.heard
  BY <1>1 DEF Work
<1> QED
  BY <1>2 DEF Sane, Holds

\* A conversation is put back with the session it had.
LEMMA PutSane ==
  ASSUME NEW s, NEW n, Sane(s, n), NEW id \in Id, NEW c \in Conv,
         c.sess = s.v.convs[id].sess \/ SamePlace(c.sess, s.v.convs[id].sess),
         NEW t, t = WithVault(s, PutConversation(s.v, id, c))
  PROVE  /\ Sane(t, n) /\ t.a = s.a /\ t.v.contacts = s.v.contacts /\ t.d = s.d
         /\ t.v.convs[id] = c /\ \A jd \in Id : jd # id => t.v.convs[jd] = s.v.convs[jd]
         /\ t.sent = s.sent /\ t.heard = s.heard
<1>1. s \in Work /\ s.v \in Vault /\ s.v.convs \in [Id -> Conv]
  BY WorkFields DEF Sane, Holds
<1> DEFINE d == [s.v.convs EXCEPT ![id] = c]
           v == PutConversation(s.v, id, c)
<1>2. d \in [Id -> Conv] /\ Behind(d, s.sent, n, torn)
  BY <1>1, SameSession DEF Sane, Holds
<1>3. d[id] = c /\ \A jd \in Id : jd # id => d[jd] = s.v.convs[jd]
  BY <1>1
<1>4. v = [s.v EXCEPT !.convs = d]
  BY <1>1 DEF PutConversation, Vault
<1> HIDE DEF d
<1>5. /\ v \in Vault /\ v.convs = d /\ v.opks = s.v.opks /\ v.last = s.v.last
      /\ v.contacts = s.v.contacts /\ v.keys = s.v.keys
  BY <1>1, <1>2, <1>4 DEF Vault
<1> HIDE DEF v
<1>6. /\ t \in Work /\ t.v = v /\ t.d = s.d /\ t.a = s.a
      /\ t.sent = s.sent /\ t.heard = s.heard
  BY <1>1, <1>5 DEF Work, WithVault, v
<1>7. Sane(t, n)
  BY <1>2, <1>5, <1>6 DEF Sane, Holds, Stocked
<1> QED
  BY <1>3, <1>5, <1>6, <1>7

\* Loading the messages of the selected contact, whatever was shown before.
LEMMA ReloadGood ==
  ASSUME NEW s, NEW n, Sane(s, n)
  PROVE  Good(MessagesReloaded(s), n)
<1> DEFINE id == SelectedId(s)
           c == Conversation(s.v, id)
           a == [s.a EXCEPT !.shown = c.log, !.loaded = s.a.sel]
           read == [s EXCEPT !.a = a]
           e == [c EXCEPT !.unread = 0]
           t == [read EXCEPT !.v = PutConversation(read.v, id, e)]
<1>1. s \in Work /\ s.a \in App /\ s.v \in Vault /\ s.a.sel \in Nat
  BY WorkFields DEF Sane, Holds
<1>2. CASE ~Selected(s)
  BY <1>2 DEF MessagesReloaded, Good, Fresh
<1>3. CASE Selected(s)
  <2>1. id \in Id /\ c \in Conv /\ c.log \in Seq(Text) /\ c = s.v.convs[id]
    BY <1>1, <1>3, Contacts, ConvFields DEF Selected, SelectedId, Conversation
  <2>2. /\ a \in App /\ a.shown = c.log /\ a.loaded = a.sel /\ a.sel = s.a.sel
        /\ a.screen = s.a.screen /\ a.pending = s.a.pending
    BY <1>1, <2>1 DEF App
  <2>3. e \in Conv /\ e.sess = c.sess /\ e.log = c.log
    BY <2>1 DEF Conv
  <2> HIDE DEF a, c, e, id
  <2>4. Sane(read, n) /\ read.v = s.v /\ read.a = a
    <3>1. s.a.screen \in {"Main", "KeyAlert"} /\ Len(s.a.pending) <= MaxPending
      BY DEF Sane, Holds
    <3> QED
      BY <2>2, <3>1, OwnFields
  <2> HIDE DEF read
  <2>5. /\ Sane(t, n) /\ t.a = a /\ t.v.contacts = s.v.contacts /\ t.v.convs[id] = e
    <3>1. e.sess = read.v.convs[id].sess
      BY <2>1, <2>3, <2>4
    <3>2. t = WithVault(read, PutConversation(read.v, id, e))
      BY DEF WithVault
    <3> HIDE DEF t
    <3>3. Sane(read, n) /\ id \in Id /\ e \in Conv
      BY <2>1, <2>3, <2>4
    <3>4. /\ Sane(t, n) /\ t.a = read.a /\ t.v.contacts = read.v.contacts
          /\ t.v.convs[id] = e
      BY <3>1, <3>2, <3>3, PutSane
    <3> QED
      BY <2>4, <3>4
  <2>6. Good(read, n)
    BY <2>1, <2>2, <2>4 DEF Good, Fresh, SelectedId, id
  <2>7. Good(t, n)
    BY <2>2, <2>3, <2>5 DEF Good, Fresh, SelectedId, id
  <2>8. MessagesReloaded(s) = read \/ MessagesReloaded(s) = Saved(t)
    BY <1>1, <1>3, <2>4 DEF MessagesReloaded, Work, id, c, a, e, read
  <2> QED
    BY <2>6, <2>7, <2>8, SavedGood
<1> QED
  BY <1>2, <1>3

\* On the tab of contacts nothing is promised of the messages.
LEMMA OnContactsGood ==
  ASSUME NEW s, NEW n, Sane(s, n), s.a.tab = "Contacts"
  PROVE  Good(s, n)
BY DEF Good, Fresh, OnTab

\* A change of the list of contacts, and of what is not proved about.
LEMMA ListSane ==
  ASSUME NEW s, NEW n, Sane(s, n), NEW v \in Vault,
         v.convs = s.v.convs, v.opks = s.v.opks, v.last = s.v.last, v.keys = s.v.keys
  PROVE  /\ Sane(WithVault(s, v), n) /\ WithVault(s, v).v = v /\ WithVault(s, v).d = s.d
         /\ WithVault(s, v).a = s.a
         /\ WithVault(s, v).sent = s.sent /\ WithVault(s, v).heard = s.heard
<1> DEFINE t == WithVault(s, v)
<1>1. s \in Work
  BY DEF Sane, Holds
<1>2. /\ t \in Work /\ t.v = v /\ t.d = s.d /\ t.a = s.a
      /\ t.sent = s.sent /\ t.heard = s.heard
  BY <1>1 DEF WithVault, Work
<1> HIDE DEF t
<1>3. Sane(t, n)
  BY <1>2 DEF Sane, Holds, Stocked
<1> QED
  BY <1>2, <1>3 DEF t

\* The prekeys after a request that uses opk, and the number of the last one.
RunsLow(v, opk) == opk # NoOpk /\ Cardinality(v.opks \ {opk}) <= OpkThreshold
OpksAfter(v, opk) ==
  IF RunsLow(v, opk) THEN (v.opks \ {opk}) \cup (v.last + 1..v.last + OpkBatch)
  ELSE v.opks \ {opk}
LastAfter(v, opk) == IF RunsLow(v, opk) THEN v.last + OpkBatch ELSE v.last

\* Prekeys of a request: the one it names goes, and a batch comes if few are left.
LEMMA StockStays ==
  ASSUME NEW v \in Vault, Stocked(v), v.keys, NEW opk \in v.opks \cup {NoOpk}
  PROVE  /\ OpksAfter(v, opk) \in SUBSET Nat /\ LastAfter(v, opk) \in Nat
         /\ OpksAfter(v, opk) \subseteq 1..LastAfter(v, opk)
         /\ Cardinality(OpksAfter(v, opk)) > OpkThreshold
         /\ (1..LastAfter(v, opk)) \ OpksAfter(v, opk) =
              ((1..v.last) \ v.opks) \cup ({opk} \ {NoOpk})
<1> DEFINE rest == v.opks \ {opk}
           low == RunsLow(v, opk)
           opks == OpksAfter(v, opk)
           last == LastAfter(v, opk)
<1>0. /\ low <=> opk # NoOpk /\ Cardinality(rest) <= OpkThreshold
      /\ opks = IF low THEN rest \cup (v.last + 1..v.last + OpkBatch) ELSE rest
      /\ last = IF low THEN v.last + OpkBatch ELSE v.last
  BY DEF RunsLow, OpksAfter, LastAfter
<1> HIDE DEF low, opks, last
<1>1. v.last \in Nat /\ v.opks \subseteq 1..v.last /\ Cardinality(v.opks) > OpkThreshold
  BY DEF Stocked, Vault
<1>2. /\ OpkBatch \in Nat \ {0} /\ OpkThreshold \in Nat /\ OpkThreshold < OpkBatch
      /\ NoOpk \notin Nat
  BY AndroidConstants, NoneIsNothing
<1> DEFINE batch == v.last + 1..v.last + OpkBatch
<1>3. last \in Nat /\ opks \subseteq 1..last
  BY <1>0, <1>1, <1>2
<1>4. opks \in SUBSET Nat
  BY <1>3
<1>5. IsFiniteSet(opks) /\ IsFiniteSet(rest)
  <2>1. IsFiniteSet(1..last) /\ IsFiniteSet(1..v.last)
    <3>1. 1 \in Int /\ last \in Int /\ v.last \in Int
      BY <1>1, <1>3
    <3> QED
      BY <3>1, FS_Interval
  <2> QED
    BY <1>0, <1>1, <1>3, <2>1, FS_Subset
<1>6. Cardinality(opks) > OpkThreshold
  <2>1. CASE low
    <3>1. IsFiniteSet(batch) /\ Cardinality(batch) = OpkBatch
      <4> DEFINE lo == v.last + 1
                 hi == v.last + OpkBatch
      <4>1. lo \in Int /\ hi \in Int /\ ~(lo > hi) /\ hi - lo + 1 = OpkBatch
        BY <1>1, <1>2
      <4> HIDE DEF lo, hi
      <4>2. IsFiniteSet(lo..hi) /\ Cardinality(lo..hi) = OpkBatch
        BY <4>1, FS_Interval
      <4> QED
        BY <4>2 DEF lo, hi
    <3>2. Cardinality(batch) <= Cardinality(opks)
      BY <1>0, <1>5, <2>1, FS_Subset
    <3>3. Cardinality(opks) \in Nat
      BY <1>5, FS_CardinalityType
    <3> QED
      BY <1>2, <3>1, <3>2, <3>3
  <2>2. CASE ~low /\ opk = NoOpk
    <3>1. opks = v.opks
      BY <1>0, <1>1, <1>2, <2>2
    <3> QED
      BY <1>1, <3>1
  <2>3. CASE ~low /\ opk # NoOpk
    <3>1. Cardinality(rest) \in Nat /\ opks = rest
      BY <1>0, <1>5, <2>3, FS_CardinalityType
    <3> QED
      BY <1>0, <1>2, <2>3, <3>1
  <2> QED
    BY <2>1, <2>2, <2>3
<1>7. (1..last) \ opks = ((1..v.last) \ v.opks) \cup ({opk} \ {NoOpk})
  <2>1. CASE low
    <3>1. 1..last = (1..v.last) \cup batch /\ (1..v.last) \cap batch = {}
      BY <1>0, <1>1, <1>2, <2>1
    <3>2. opk \in 1..v.last /\ opk \in v.opks /\ opk # NoOpk
      BY <1>0, <1>1, <2>1
    <3> QED
      BY <1>0, <1>1, <2>1, <3>1, <3>2
  <2>2. CASE ~low
    BY <1>0, <1>1, <1>2, <2>2
  <2> QED
    BY <2>1, <2>2
<1> QED
  BY <1>3, <1>4, <1>6, <1>7 DEF opks, last

\* A request is queued, or refused without a trace.
LEMMA HandshakeGood ==
  ASSUME NEW s, NEW n, Good(s, n),
         NEW m, m.from \in Peer, m.opk \in Nat \cup {NoOpk}, m.n \in Nat
  PROVE  Good(HandleHandshake(s, m), n)
<1> DEFINE opks == OpksAfter(s.v, m.opk)
           last == LastAfter(s.v, m.opk)
           r == [from |-> m.from, opk |-> m.opk, n |-> m.n]
           v == [s.v EXCEPT !.opks = opks, !.last = last]
           a == [s.a EXCEPT !.pending = Append(s.a.pending, r)]
           heardNow == s.heard \cup ({m.opk} \ {NoOpk})
           t == [s EXCEPT !.v = v, !.a = a, !.heard = heardNow]
<1>1. /\ s \in Work /\ s.v \in Vault /\ s.a \in App /\ Sane(s, n) /\ Fresh(s)
      /\ s.a.pending \in Seq(Request) /\ s.heard \in SUBSET Nat
  BY WorkFields DEF Good, Sane, Holds
<1>2. CASE Len(s.a.pending) >= MaxPending \/ ~s.v.keys \/ (m.opk # NoOpk /\ m.opk \notin s.v.opks)
  BY <1>2 DEF HandleHandshake
<1>3. CASE ~(\/ Len(s.a.pending) >= MaxPending \/ ~s.v.keys
             \/ m.opk # NoOpk /\ m.opk \notin s.v.opks)
  <2>1. /\ opks \in SUBSET Nat /\ last \in Nat
        /\ opks \subseteq 1..last /\ Cardinality(opks) > OpkThreshold
        /\ (1..last) \ opks = ((1..s.v.last) \ s.v.opks) \cup ({m.opk} \ {NoOpk})
    <3>1. m.opk \in s.v.opks \cup {NoOpk} /\ Stocked(s.v) /\ s.v.keys
      BY <1>1, <1>3 DEF Sane, Holds
    <3> QED
      BY <1>1, <3>1, StockStays
  <2>2. HandleHandshake(s, m) = t
    BY <1>1, <1>3 DEF HandleHandshake, Work, Vault, App, OpksAfter, LastAfter, RunsLow
  <2>3. r \in Request
    BY DEF Request
  <2>4. a \in App /\ Len(a.pending) <= MaxPending /\ a.screen = s.a.screen
        /\ a.tab = s.a.tab /\ a.sel = s.a.sel /\ a.loaded = s.a.loaded /\ a.shown = s.a.shown
    <3>1. Append(s.a.pending, r) \in Seq(Request)
      BY <1>1, <2>3, AppendProperties
    <3>2. Len(Append(s.a.pending, r)) <= MaxPending
      <4>1. Len(Append(s.a.pending, r)) = Len(s.a.pending) + 1 /\ Len(s.a.pending) \in Nat
        BY <1>1, <2>3, AppendProperties, LenProperties
      <4> QED
        BY <1>3, <4>1, AndroidConstants
    <3> HIDE DEF r
    <3> QED
      BY <1>1, <3>1, <3>2 DEF App
  <2>5. heardNow \in SUBSET Nat /\ (kills = 0 => (1..last) \ opks = heardNow)
    BY <1>1, <2>1 DEF Sane, Holds
  <2> HIDE DEF opks, last, a, heardNow
  <2>6. /\ v \in Vault /\ v.opks = opks /\ v.last = last /\ v.convs = s.v.convs
        /\ v.contacts = s.v.contacts /\ v.keys = s.v.keys
    BY <1>1, <2>1 DEF Vault
  <2> HIDE DEF v
  <2>7. /\ t \in Work /\ t.v = v /\ t.d = s.d /\ t.a = a /\ t.sent = s.sent /\ t.heard = heardNow
    BY <1>1, <2>4, <2>5, <2>6 DEF Work
  <2> HIDE DEF t
  <2>8. Sane(t, n)
    <3>1. Stocked(v)
      BY <1>3, <2>1, <2>6 DEF Stocked
    <3>2. /\ a.screen \in {"Main", "KeyAlert"} /\ \A u \in s.d : Stocked(u)
          /\ Behind(v.convs, s.sent, n, torn) /\ Once(s.sent, n)
          /\ \A u \in s.d : Behind(u.convs, s.sent, n, torn \cup unsaved)
      BY <1>1, <2>4, <2>6 DEF Sane, Holds
    <3>3. kills = 0 => (1..v.last) \ v.opks = heardNow
      BY <2>5, <2>6
    <3> QED
      BY <2>4, <2>7, <3>1, <3>2, <3>3 DEF Sane, Holds
  <2>9. Fresh(t)
    BY <1>1, <2>4, <2>6, <2>7 DEF Fresh, Foremost, OnTab, OnMain, Selected, SelectedId
  <2> QED
    BY <2>2, <2>8, <2>9 DEF Good
<1> QED
  BY <1>2, <1>3

\* A message goes into the conversation, and into what is shown of it.
LEMMA DataGood ==
  ASSUME NEW s, NEW n, Good(s, n), NEW m, m.n \in Nat
  PROVE  Good(HandleData(s, m), n)
<1> DEFINE c == Conversation(s.v, m.id)
           hits == {i \in DOMAIN s.v.contacts : s.v.contacts[i] = m.id /\ c.sess # None}
           log == Append(c.log, [us |-> FALSE, n |-> m.n])
           first == s.a.loaded \in hits /\ \A i \in hits : s.a.loaded <= i
           sess == [c.sess EXCEPT !.us = TRUE]
           e == [sess |-> sess, log |-> log, unread |-> c.unread + 1]
           u == WithVault(s, PutConversation(s.v, m.id, e))
           a == [s.a EXCEPT !.shown = IF first THEN log ELSE s.a.shown]
           t == [u EXCEPT !.a = a]
<1>1. s \in Work /\ s.v \in Vault /\ s.a \in App /\ Sane(s, n) /\ Fresh(s)
  BY WorkFields DEF Good, Sane, Holds
<1>2. CASE hits = {}
  BY <1>2 DEF HandleData
<1>3. CASE hits # {}
  <2>1. /\ m.id \in Id /\ c \in Conv /\ c = s.v.convs[m.id] /\ c.sess # None
        /\ \A i \in DOMAIN s.v.contacts : i \in hits <=> s.v.contacts[i] = m.id
        /\ hits \subseteq DOMAIN s.v.contacts
    BY <1>1, <1>3, Contacts DEF Conversation
  <2>2. log \in Seq(Text)
    <3>1. [us |-> FALSE, n |-> m.n] \in Text
      BY DEF Text
    <3> QED
      BY <2>1, <3>1, ConvFields, AppendProperties
  <2>3. HandleData(s, m) = Saved(t)
    <3>1. HandleData(s, m) =
            Saved([s EXCEPT !.v = PutConversation(@, m.id, e),
                            !.a.shown = IF first THEN log ELSE @])
      BY <1>3 DEF HandleData
    <3> HIDE DEF c, hits, log, e, first
    <3>2. [s EXCEPT !.v = PutConversation(@, m.id, e),
                    !.a.shown = IF first THEN log ELSE @] = t
      BY <1>1 DEF Work, App, WithVault
    <3> QED
      BY <3>1, <3>2
  <2>4. e \in Conv /\ SamePlace(e.sess, c.sess) /\ e.log = log
    <3>1. c.unread + 1 \in Nat /\ c.sess \in Session
      BY <2>1, ConvFields
    <3> HIDE DEF c, log
    <3>2. sess \in Session /\ sess.n = c.sess.n /\ sess.pos = c.sess.pos
      BY <3>1 DEF Session
    <3> HIDE DEF sess
    <3>3. e \in Conv /\ e.sess = sess /\ e.log = log
      BY <2>2, <3>1, <3>2 DEF Conv
    <3> QED
      BY <2>1, <3>2, <3>3, NoneIsNothing DEF SamePlace
  <2>5. \A i \in DOMAIN s.v.contacts : i \in Nat
    BY <1>1, WorkFields, LenProperties
  <2> HIDE DEF hits, log, sess, e
  <2>6. /\ Sane(u, n) /\ u.a = s.a /\ u.v.contacts = s.v.contacts
        /\ u.v.convs[m.id] = e /\ \A id \in Id : id # m.id => u.v.convs[id] = s.v.convs[id]
    <3> HIDE DEF u, c
    <3>1. u = WithVault(s, PutConversation(s.v, m.id, e))
      BY DEF u
    <3>2. SamePlace(e.sess, s.v.convs[m.id].sess)
      BY <2>1, <2>4
    <3> QED
      BY <1>1, <2>1, <2>4, <3>1, <3>2, PutSane
  <2> HIDE DEF u, c, first
  <2>7. /\ a \in App /\ a.screen = s.a.screen /\ a.pending = s.a.pending /\ a.tab = s.a.tab
        /\ a.sel = s.a.sel /\ a.loaded = s.a.loaded
        /\ a.shown = IF first THEN log ELSE s.a.shown
    BY <1>1, <2>2 DEF App
  <2> HIDE DEF a
  <2>8. Sane(t, n) /\ t.v = u.v /\ t.a = a
    <3>1. a.screen \in {"Main", "KeyAlert"} /\ Len(a.pending) <= MaxPending
      BY <1>1, <2>7 DEF Sane, Holds
    <3> QED
      BY <2>6, <2>7, <3>1, OwnFields
  <2> HIDE DEF t
  <2>9. Fresh(t)
    <3> SUFFICES ASSUME OnTab(t, "Conversation"), Selected(t)
                 PROVE  /\ t.a.loaded = t.a.sel
                        /\ Foremost(t) => t.a.shown = t.v.convs[SelectedId(t)].log
      BY DEF Fresh
    <3>1. OnTab(s, "Conversation") /\ Selected(s) /\ SelectedId(t) = SelectedId(s)
      BY <2>6, <2>7, <2>8 DEF OnTab, OnMain, Selected, SelectedId
    <3>2. s.a.loaded = s.a.sel /\ (Foremost(s) => s.a.shown = s.v.convs[SelectedId(s)].log)
      BY <1>1, <3>1 DEF Fresh
    <3>3. t.a.loaded = t.a.sel
      BY <2>7, <2>8, <3>2
    <3>4. ASSUME Foremost(t) PROVE t.a.shown = t.v.convs[SelectedId(t)].log
      <4>1. Foremost(s)
        BY <2>6, <2>7, <2>8, <3>1, <3>4 DEF Foremost
      <4>2. SelectedId(s) \in Id /\ s.a.sel \in DOMAIN s.v.contacts
            /\ SelectedId(s) = s.v.contacts[s.a.sel]
        BY <1>1, <3>1, Contacts DEF Selected, SelectedId
      <4>3. CASE SelectedId(s) = m.id
        <5>1. s.a.loaded \in hits
          BY <2>1, <3>2, <4>2, <4>3
        <5>2. \A i \in hits : s.a.loaded <= i
          <6> SUFFICES ASSUME NEW i \in hits PROVE s.a.sel <= i
            BY <3>2
          <6>1. i \in DOMAIN s.v.contacts /\ s.v.contacts[i] = SelectedId(s)
            BY <2>1, <4>3
          <6>2. i \in Nat /\ s.a.sel \in Nat /\ i \in 1..Len(s.v.contacts)
            BY <1>1, <2>5, <6>1, WorkFields, LenProperties
          <6>3. i \notin 1..s.a.sel - 1
            BY <4>1, <6>1 DEF Foremost
          <6> QED
            BY <6>2, <6>3
        <5>3. first
          BY <5>1, <5>2 DEF first
        <5> QED
          BY <2>4, <2>6, <2>7, <2>8, <3>1, <4>3, <5>3
      <4>4. CASE SelectedId(s) # m.id
        <5>1. ~first
          BY <2>1, <3>2, <4>2, <4>4 DEF first
        <5> QED
          BY <2>6, <2>7, <2>8, <3>1, <3>2, <4>1, <4>2, <4>4, <5>1
      <4> QED
        BY <4>3, <4>4
    <3> QED
      BY <3>3, <3>4
  <2> QED
    BY <2>3, <2>8, <2>9, SavedGood DEF Good
<1> QED
  BY <1>2, <1>3

\* A rotation raises the alert, on whichever tab.
LEMMA RevocationGood ==
  ASSUME NEW s, NEW n, Good(s, n), NEW m
  PROVE  Good(HandleRevocation(s, m), n)
<1> DEFINE a == [s.a EXCEPT !.screen = "KeyAlert"]
           t == [s EXCEPT !.a = a]
<1>1. s \in Work /\ s.a \in App /\ Sane(s, n) /\ Fresh(s)
  BY WorkFields DEF Good, Sane, Holds
<1>2. /\ a \in App /\ a.screen = "KeyAlert" /\ a.pending = s.a.pending /\ a.tab = s.a.tab
      /\ a.sel = s.a.sel /\ a.loaded = s.a.loaded /\ a.shown = s.a.shown
  BY <1>1 DEF App
<1>3. t = [s EXCEPT !.a.screen = "KeyAlert"]
  BY <1>1 DEF Work
<1> HIDE DEF a
<1>4. Sane(t, n) /\ t.v = s.v /\ t.a = a
  <2>1. Len(a.pending) <= MaxPending
    BY <1>1, <1>2 DEF Sane, Holds
  <2> QED
    BY <1>1, <1>2, <2>1, OwnFields
<1> HIDE DEF t
<1>5. Good(t, n)
  <2>1. s.a.screen \in {"Main", "KeyAlert"}
    BY <1>1 DEF Sane, Holds
  <2> QED
    BY <1>1, <1>2, <1>4, <2>1 DEF Good, Fresh, Foremost, OnTab, OnMain, Selected, SelectedId
<1> QED
  BY <1>3, <1>5, SavedGood DEF HandleRevocation

\* Whatever a frame brings.
LEMMA HandleGood ==
  ASSUME NEW s, NEW n, Good(s, n),
         NEW m, m.from \in Peer, m.opk \in Nat \cup {NoOpk}, m.n \in Nat
  PROVE  Good(Handle(s, m), n)
<1>1. Good(HandleOpkRefresh(s, m), n)
  BY SavedGood DEF HandleOpkRefresh
<1> QED
  BY <1>1, HandshakeGood, DataGood, RevocationGood DEF Handle

-----------------------------------------------------------------------------
(* What the user does.                                                     *)

\* With the right messages shown, update finds nothing to load.
LEMMA ReadyIsNow ==
  ASSUME NEW n, Good(Now, n)
  PROVE  Ready = Now
<1>1. Fresh(Now) /\ OnMain(Now) /\ Now.a = app
  BY DEF Good, Sane, Holds, OnMain, Now
<1>2. CASE app.screen = "Main" /\ app.tab = "Conversation" /\ app.sel # app.loaded
  <2>1. ~Selected(Now)
    BY <1>1, <1>2 DEF Fresh, OnTab
  <2> QED
    BY <1>1, <1>2, <2>1 DEF Ready, ReloadedIfChanged, MessagesReloaded
<1>3. CASE ~(app.screen = "Main" /\ app.tab = "Conversation" /\ app.sel # app.loaded)
  BY <1>1, <1>3 DEF Ready, ReloadedIfChanged
<1> QED
  BY <1>2, <1>3

\* Taking a contact out of the list.
LEMMA WithoutSane ==
  ASSUME NEW s, NEW n, Sane(s, n), Selected(s)
  PROVE  /\ Sane(Without(s), n) /\ Without(s).a = s.a
         /\ Len(Without(s).v.contacts) \in Nat
<1> DEFINE list == RemoveAt(s.v.contacts, s.a.sel)
           v == [s.v EXCEPT !.contacts = list]
           t == WithVault(s, v)
<1>1. s \in Work /\ s.v \in Vault /\ s.v.contacts \in Seq(Id) /\ s.a.sel \in Nat
  BY WorkFields DEF Sane, Holds
<1>2. list \in Seq(Id)
  <2>1. /\ Len(s.v.contacts) \in Nat /\ s.a.sel \in 1..Len(s.v.contacts)
        /\ \A i \in 1..Len(s.v.contacts) : s.v.contacts[i] \in Id
    BY <1>1, LenProperties, ElementOfSeq DEF Selected
  <2>2. SubSeq(s.v.contacts, 1, s.a.sel - 1) \in Seq(Id)
    BY <1>1, <2>1, SubSeqProperties
  <2>3. SubSeq(s.v.contacts, s.a.sel + 1, Len(s.v.contacts)) \in Seq(Id)
    BY <1>1, <2>1, SubSeqProperties
  <2> QED
    BY <2>2, <2>3, ConcatProperties DEF RemoveAt
<1>3. Without(s) = Saved(t)
  BY <1>1 DEF Without, WithVault, Work, Vault
<1> HIDE DEF list
<1>4. /\ v \in Vault /\ v.contacts = list /\ v.convs = s.v.convs
      /\ v.opks = s.v.opks /\ v.last = s.v.last /\ v.keys = s.v.keys
  BY <1>1, <1>2 DEF Vault
<1> HIDE DEF v
<1>5. Sane(t, n) /\ t.a = s.a /\ t.v = v
  BY <1>4, ListSane
<1>6. Saved(t).a = t.a /\ Saved(t).v = t.v
  BY <1>5 DEF Saved, Sane, Holds, Work
<1> QED
  BY <1>2, <1>3, <1>4, <1>5, <1>6, SavedGood, LenProperties

\* Adding a contact, which is selected.
LEMMA WithContactSane ==
  ASSUME NEW s, NEW n, Sane(s, n), NEW id \in Id
  PROVE  /\ Sane(WithContact(s, id), n) /\ WithContact(s, id).a.tab = s.a.tab
         /\ WithContact(s, id).v.convs = s.v.convs /\ WithContact(s, id).sent = s.sent
<1> DEFINE v == [s.v EXCEPT !.contacts = Append(s.v.contacts, id)]
           a == [s.a EXCEPT !.sel = Len(s.v.contacts) + 1]
           u == WithVault(s, v)
           t == [u EXCEPT !.a = a]
<1>1. /\ s \in Work /\ s.v \in Vault /\ s.a \in App /\ s.v.contacts \in Seq(Id)
      /\ Len(s.v.contacts) \in Nat
  BY WorkFields, LenProperties DEF Sane, Holds
<1>2. WithContact(s, id) = t
  BY <1>1 DEF WithContact, WithVault, Work, Vault, App
<1>3. /\ v \in Vault /\ v.convs = s.v.convs /\ v.opks = s.v.opks /\ v.last = s.v.last
      /\ v.keys = s.v.keys
  <2>1. Append(s.v.contacts, id) \in Seq(Id)
    BY <1>1, AppendProperties
  <2> QED
    BY <1>1, <2>1 DEF Vault
<1>4. a \in App /\ a.tab = s.a.tab /\ a.screen = s.a.screen /\ a.pending = s.a.pending
  <2> DEFINE pos == Len(s.v.contacts) + 1
  <2>1. pos \in Nat
    BY <1>1
  <2> HIDE DEF pos
  <2>2. [s.a EXCEPT !.sel = pos] \in App
    BY <1>1, <2>1 DEF App
  <2>3. a = [s.a EXCEPT !.sel = pos]
    BY DEF pos
  <2> QED
    BY <1>1, <2>2, <2>3 DEF App
<1> HIDE DEF v, a
<1>5. Sane(u, n) /\ u.v = v /\ u.sent = s.sent
  BY <1>3, ListSane
<1> HIDE DEF u
<1>6. Sane(t, n) /\ t.v = v /\ t.a = a /\ t.sent = s.sent
  <2>1. a.screen \in {"Main", "KeyAlert"} /\ Len(a.pending) <= MaxPending
    BY <1>4 DEF Sane, Holds
  <2> QED
    BY <1>4, <1>5, <2>1, OwnFields
<1> HIDE DEF t
<1> QED
  BY <1>2, <1>3, <1>4, <1>6

-----------------------------------------------------------------------------
(* Sending.                                                                *)

\* What follows a session: its next position, or the session numbered k.
Following(old, k) ==
  IF old = None THEN [us |-> TRUE, n |-> k, pos |-> 0] ELSE [old EXCEPT !.pos = @ + 1]

Ahead(convs, out, id, k, next) ==
  /\ next \in Session /\ next.n <= k
  /\ \A f \in out : f.sess.n = next.n /\ f.sess.n \notin torn => f.sess.pos < next.pos
  /\ \A jd \in Live(convs) : jd # id => convs[jd].sess.n # next.n

\* A session with a new number is ahead of all that was handed over.
LEMMA NewIsAhead ==
  ASSUME NEW convs \in [Id -> Conv], NEW out \in SUBSET Message, NEW n \in Nat,
         Behind(convs, out, n, torn), Once(out, n),
         NEW id \in Id, NEW k \in Nat, n < k, NEW next \in Session, next.n = k
  PROVE  Ahead(convs, out, id, k, next)
<1>1. \A f \in out : f.sess.n \in Nat /\ f.sess.n <= n
  BY DEF Once, Message, Session
<1>2. \A jd \in Live(convs) : convs[jd].sess.n \in Nat /\ convs[jd].sess.n <= n
  BY LiveSessions DEF Behind
<1> QED
  BY <1>1, <1>2 DEF Ahead

\* So is the next position of a session.
LEMMA NextIsAhead ==
  ASSUME NEW convs \in [Id -> Conv], NEW out \in SUBSET Message, NEW n \in Nat,
         Behind(convs, out, n, torn), Once(out, n),
         NEW id \in Id, NEW k \in Nat, n < k, NEW next, next = Following(convs[id].sess, k)
  PROVE  Ahead(convs, out, id, k, next)
<1>1. CASE convs[id].sess = None
  <2>1. next = [us |-> TRUE, n |-> k, pos |-> 0]
    BY <1>1 DEF Following
  <2>2. next \in Session /\ next.n = k
    BY <2>1 DEF Session
  <2> QED
    BY <2>2, NewIsAhead
<1>2. CASE convs[id].sess # None
  <2> DEFINE old == convs[id].sess
  <2>1. id \in Live(convs)
    BY <1>2 DEF Live
  <2>2. old \in Session /\ old.n \in Nat /\ old.pos \in Nat
    BY <2>1, LiveSessions
  <2>3. old.n <= n
    BY <2>1 DEF Behind
  <2>4. next = [old EXCEPT !.pos = old.pos + 1]
    BY <1>2 DEF Following
  <2> HIDE DEF old
  <2>5. next \in Session /\ next.n = old.n /\ next.pos = old.pos + 1
    BY <2>2, <2>4 DEF Session
  <2>6. \A f \in out : f.sess.n = old.n /\ f.sess.n \notin torn => f.sess.pos <= old.pos
    BY <2>1 DEF Behind, old
  <2>7. \A f \in out : f.sess.pos \in Nat
    BY DEF Message, Session
  <2>8. \A jd \in Live(convs) : jd # id => convs[jd].sess.n # old.n
    BY <2>1 DEF Behind, old
  <2>9. next.n <= k
    BY <2>2, <2>3, <2>5
  <2>10. \A f \in out : f.sess.n = next.n /\ f.sess.n \notin torn => f.sess.pos < next.pos
    BY <2>2, <2>5, <2>6, <2>7
  <2>11. \A jd \in Live(convs) : jd # id => convs[jd].sess.n # next.n
    BY <2>5, <2>8
  <2> QED
    BY <2>5, <2>9, <2>10, <2>11 DEF Ahead
<1> QED
  BY <1>1, <1>2

\* So the session can move on, and the message be handed over.
LEMMA MovesOn ==
  ASSUME NEW convs \in [Id -> Conv], NEW out \in SUBSET Message, NEW n \in Nat,
         Behind(convs, out, n, torn), Once(out, n),
         NEW id \in Id, NEW k \in Nat, n < k, NEW next, Ahead(convs, out, id, k, next),
         NEW d \in [Id -> Conv], d[id].sess = next,
         \A jd \in Id : jd # id => d[jd] = convs[jd],
         NEW g \in Message, g.sess = next
  PROVE  /\ Behind(d, out, k, torn) /\ Behind(d, out \cup {g}, k, torn)
         /\ Once(out \cup {g}, k)
<1>1. /\ next \in Session /\ next.n \in Nat /\ next.pos \in Nat /\ next.n <= k
      /\ \A f \in out : f.sess.n = next.n /\ f.sess.n \notin torn => f.sess.pos < next.pos
      /\ \A jd \in Live(convs) : jd # id => convs[jd].sess.n # next.n
  BY DEF Ahead, Session
<1>2. \A f \in out : f.sess.n \in Nat /\ f.sess.n <= n /\ f.sess.pos \in Nat
  BY DEF Once, Message, Session
<1>3. \A jd \in Live(d) : jd # id => jd \in Live(convs) /\ d[jd].sess = convs[jd].sess
  BY DEF Live
<1>4. \A jd \in Live(convs) : convs[jd].sess.n \in Nat /\ convs[jd].sess.n <= n
  BY LiveSessions DEF Behind
<1>5. \A jd \in Live(d) : d[jd].sess.n <= k
  <2> TAKE jd \in Live(d)
  <2>1. CASE jd = id
    BY <1>1, <2>1
  <2>2. CASE jd # id
    BY <1>3, <1>4, <2>2
  <2> QED
    BY <2>1, <2>2
<1>6. ASSUME NEW jd \in Live(d), NEW f \in out \cup {g},
             f.sess.n = d[jd].sess.n, f.sess.n \notin torn
      PROVE  f.sess.pos <= d[jd].sess.pos
  <2>1. CASE f = g /\ jd = id
    BY <1>1, <2>1
  <2>2. CASE f = g /\ jd # id
    BY <1>1, <1>3, <1>6, <2>2
  <2>3. CASE f \in out /\ jd = id
    <3>1. f.sess.pos < next.pos
      BY <1>1, <1>6, <2>3
    <3> QED
      BY <1>1, <1>2, <2>3, <3>1
  <2>4. CASE f \in out /\ jd # id
    BY <1>3, <1>6, <2>4 DEF Behind
  <2> QED
    BY <2>1, <2>2, <2>3, <2>4
<1>7. ASSUME NEW jd \in Live(d), NEW kd \in Live(d), d[jd].sess.n = d[kd].sess.n
      PROVE  jd = kd
  <2>1. CASE jd # id /\ kd # id
    BY <1>3, <1>7, <2>1 DEF Behind
  <2>2. CASE jd = id \/ kd = id
    BY <1>1, <1>3, <1>7, <2>2
  <2> QED
    BY <2>1, <2>2
<1>8. Behind(d, out, k, torn) /\ Behind(d, out \cup {g}, k, torn)
  <2>1. Behind(d, out \cup {g}, k, torn)
    BY <1>5, <1>6, <1>7 DEF Behind
  <2> QED
    BY <2>1 DEF Behind
<1>9. Once(out \cup {g}, k)
  <2>1. \A f \in out \cup {g} : f.sess.n <= k
    BY <1>1, <1>2
  <2>2. ASSUME NEW f \in out \cup {g}, NEW h \in out \cup {g},
               f.sess = h.sess, f.sess.n \notin torn
        PROVE  f = h
    <3>1. ASSUME NEW x \in out, x.sess = next, x.sess.n \notin torn PROVE FALSE
      <4>1. x.sess.pos < next.pos
        BY <1>1, <3>1
      <4> QED
        BY <1>1, <3>1, <4>1
    <3> QED
      BY <2>2, <3>1 DEF Once
  <2> QED
    BY <2>1, <2>2 DEF Once
<1> QED
  BY <1>8, <1>9

\* A conversation is put back with a session ahead of all that was handed over.
LEMMA RenewedSane ==
  ASSUME NEW s, NEW n \in Nat, Sane(s, n), NEW id \in Id, NEW c \in Conv,
         NEW k \in Nat, n < k, Ahead(s.v.convs, s.sent, id, k, c.sess),
         NEW t, t = WithVault(s, PutConversation(s.v, id, c))
  PROVE  /\ Sane(t, k) /\ t.a = s.a /\ t.d = s.d /\ t.sent = s.sent /\ t.heard = s.heard
         /\ t.v.contacts = s.v.contacts /\ t.v.opks = s.v.opks /\ t.v.last = s.v.last
         /\ t.v.keys = s.v.keys
         /\ t.v.convs[id] = c /\ \A jd \in Id : jd # id => t.v.convs[jd] = s.v.convs[jd]
<1>1. /\ s \in Work /\ s.v \in Vault /\ s.v.convs \in [Id -> Conv] /\ s.sent \in SUBSET Message
      /\ \A w \in s.d : w \in Vault /\ w.convs \in [Id -> Conv]
  BY WorkFields DEF Sane, Holds
<1> DEFINE d == [s.v.convs EXCEPT ![id] = c]
           v == PutConversation(s.v, id, c)
<1>2. d \in [Id -> Conv] /\ d[id] = c /\ \A jd \in Id : jd # id => d[jd] = s.v.convs[jd]
  BY <1>1
<1>3. v = [s.v EXCEPT !.convs = d]
  BY <1>1 DEF PutConversation, Vault
<1> HIDE DEF d
<1>4. /\ v \in Vault /\ v.convs = d /\ v.opks = s.v.opks /\ v.last = s.v.last
      /\ v.contacts = s.v.contacts /\ v.keys = s.v.keys
  BY <1>1, <1>2, <1>3 DEF Vault
<1> HIDE DEF v
<1>5. /\ t \in Work /\ t.v = v /\ t.d = s.d /\ t.a = s.a
      /\ t.sent = s.sent /\ t.heard = s.heard
  BY <1>1, <1>4 DEF Work, WithVault, v
<1>6. Behind(s.v.convs, s.sent, n, torn) /\ Once(s.sent, n)
  BY DEF Sane, Holds
<1>7. Behind(d, s.sent, k, torn)
  <2> DEFINE g == [sess |-> c.sess, text |-> 0]
  <2>1. g \in Message /\ g.sess = c.sess
    BY DEF Message, Ahead
  <2> HIDE DEF g
  <2>2. d[id].sess = c.sess
    BY <1>2
  <2> QED
    BY <1>1, <1>2, <1>6, <2>1, <2>2, MovesOn
<1>8. n <= k
  OBVIOUS
<1>9. Once(s.sent, k)
  BY <1>1, <1>6, <1>8, BehindGrows
<1>10. \A w \in s.d : Behind(w.convs, s.sent, k, torn \cup unsaved)
  <2> TAKE w \in s.d
  <2>1. Behind(w.convs, s.sent, n, torn \cup unsaved)
    BY DEF Sane, Holds
  <2> QED
    BY <1>1, <1>8, <2>1, BehindGrows
<1>11. Sane(t, k)
  BY <1>4, <1>5, <1>7, <1>9, <1>10 DEF Sane, Holds, Stocked
<1> QED
  BY <1>2, <1>4, <1>5, <1>11

\* The session moves on in memory, whether or not the message goes out.
LEMMA AdvancedGood ==
  ASSUME NEW s, NEW n \in Nat, n = drawn, Good(s, n), MaySend(s)
  PROVE  /\ Good(Advanced(s), n + 1)
         /\ Advanced(s).a = s.a /\ Advanced(s).v.contacts = s.v.contacts
         /\ Advanced(s).v.opks = s.v.opks /\ Advanced(s).v.last = s.v.last
         /\ Advanced(s).d = s.d /\ Advanced(s).sent = s.sent /\ Advanced(s).heard = s.heard
         /\ SelectedId(s) \in Id /\ NextSession(s) \in Session
         /\ Advanced(s).v.convs[SelectedId(s)].sess = NextSession(s)
         /\ \A jd \in Id : jd # SelectedId(s) => Advanced(s).v.convs[jd] = s.v.convs[jd]
         /\ Ahead(s.v.convs, s.sent, SelectedId(s), n + 1, NextSession(s))
<1> DEFINE id == SelectedId(s)
           next == NextSession(s)
           c == s.v.convs[id]
           e == [c EXCEPT !.sess = next]
           t == Advanced(s)
           k == n + 1
<1>1. /\ s \in Work /\ s.v \in Vault /\ s.v.convs \in [Id -> Conv]
      /\ s.sent \in SUBSET Message /\ Sane(s, n) /\ Fresh(s)
  BY WorkFields DEF Good, Sane, Holds
<1>2. id \in Id /\ c \in Conv
  BY <1>1, Contacts DEF MaySend, Selected, SelectedId
<1>3. next = Following(c.sess, k)
  BY DEF NextSession, Following, Conversation
<1>4. k \in Nat /\ n < k
  OBVIOUS
<1>5. t = WithVault(s, PutConversation(s.v, id, e))
  BY <1>1 DEF Advanced, WithVault, Work, Conversation
<1> HIDE DEF next, k, t
<1>6. Ahead(s.v.convs, s.sent, id, k, next)
  <2>1. Behind(s.v.convs, s.sent, n, torn) /\ Once(s.sent, n)
    BY <1>1 DEF Sane, Holds
  <2> QED
    BY <1>1, <1>2, <1>3, <1>4, <2>1, NextIsAhead
<1>7. next \in Session
  BY <1>6 DEF Ahead
<1>8. e \in Conv /\ e.sess = next /\ e.log = c.log
  BY <1>2, <1>7 DEF Conv
<1> HIDE DEF e, c
<1>9. /\ Sane(t, k) /\ t.a = s.a /\ t.d = s.d /\ t.sent = s.sent /\ t.heard = s.heard
      /\ t.v.contacts = s.v.contacts /\ t.v.opks = s.v.opks /\ t.v.last = s.v.last
      /\ t.v.convs[id] = e /\ \A jd \in Id : jd # id => t.v.convs[jd] = s.v.convs[jd]
  <2>1. Ahead(s.v.convs, s.sent, id, k, e.sess)
    BY <1>6, <1>8
  <2> HIDE DEF id
  <2> QED
    BY <1>1, <1>2, <1>4, <1>5, <1>8, <2>1, RenewedSane
<1>10. Fresh(t)
  <2>1. t.v.convs[id].log = s.v.convs[id].log
    BY <1>8, <1>9 DEF c
  <2> QED
    BY <1>1, <1>9, <2>1 DEF Fresh, Foremost, OnTab, OnMain, Selected, SelectedId
<1> QED
  BY <1>2, <1>6, <1>7, <1>8, <1>9, <1>10 DEF Good, id, next, t, k

\* Once handed over, the message is in the log, and all of it is saved; if the
\* save fails, only that session is behind on disk.
LEMMA LoggedGood ==
  ASSUME NEW s, NEW n \in Nat, n = drawn, Good(s, n), MaySend(s), s.sent = sent,
         NEW x, x = Logged(HandedOver(s, Advanced(s)))
  PROVE  Holds(x, n + 1, unsaved \cup AtStake(x)) /\ Fresh(x)
<1> DEFINE t == Advanced(s)
           id == SelectedId(s)
           next == NextSession(s)
           g == [sess |-> next, text |-> n + 1]
           out == s.sent \cup {g}
           k == n + 1
           w == [t EXCEPT !.sent = out]
           c == Conversation(t.v, id)
           log == Append(c.log, [us |-> TRUE, n |-> n + 1])
           e == [c EXCEPT !.log = log]
           d == [t.v.convs EXCEPT ![id] = e]
           v == PutConversation(t.v, id, e)
           a == [t.a EXCEPT !.shown = log]
           y == [w EXCEPT !.v = v, !.a = a]
<1>1. /\ Good(t, k) /\ t.a = s.a /\ t.v.contacts = s.v.contacts
      /\ t.v.opks = s.v.opks /\ t.v.last = s.v.last
      /\ t.d = s.d /\ t.sent = s.sent /\ t.heard = s.heard
      /\ id \in Id /\ next \in Session /\ t.v.convs[id].sess = next
  BY AdvancedGood
<1>2. /\ \A jd \in Id : jd # id => t.v.convs[jd] = s.v.convs[jd]
      /\ Ahead(s.v.convs, s.sent, id, k, next)
  BY AdvancedGood
<1>3. /\ s \in Work /\ s.v.convs \in [Id -> Conv] /\ s.sent \in SUBSET Message
      /\ Behind(s.v.convs, s.sent, n, torn) /\ Once(s.sent, n)
      /\ k \in Nat /\ n < k
  BY WorkFields DEF Good, Sane, Holds
<1> HIDE DEF t, id, next
<1>4. /\ t \in Work /\ t.v \in Vault /\ t.a \in App /\ Sane(t, k) /\ Fresh(t)
      /\ t.v.convs \in [Id -> Conv] /\ t.sent \in SUBSET Message
  BY <1>1, WorkFields DEF Good, Sane, Holds
<1>5. g \in Message /\ g.sess = next
  BY <1>1 DEF Message
<1> HIDE DEF g, k
<1>6. c \in Conv /\ c = t.v.convs[id]
  BY <1>1, <1>4 DEF Conversation
<1>7. log \in Seq(Text)
  <2>1. [us |-> TRUE, n |-> n + 1] \in Text
    BY DEF Text
  <2> QED
    BY <1>6, <2>1, ConvFields, AppendProperties
<1>8. x = Saved(y)
  <2>1. HandedOver(s, t) = w
    BY <1>1, <1>4 DEF HandedOver, Work, next, g, id
  <2>2. /\ w \in Work /\ w.v = t.v /\ w.d = t.d /\ w.a = t.a /\ w.heard = t.heard
        /\ w.sent = out
    BY <1>1, <1>4, <1>5 DEF Work
  <2>3. SelectedId(w) = id
    BY <1>1, <2>2 DEF SelectedId, id
  <2> HIDE DEF w, out
  <2>4. Logged(w) = Saved([w EXCEPT !.v = PutConversation(@, id, e), !.a.shown = log])
    BY <2>2, <2>3 DEF Logged
  <2> HIDE DEF log, e, c
  <2>5. [w EXCEPT !.v = PutConversation(@, id, e), !.a.shown = log] = y
    <3>1. [w EXCEPT !.v = PutConversation(@, id, e), !.a.shown = log] =
            [w EXCEPT !.v = PutConversation(w.v, id, e), !.a = [w.a EXCEPT !.shown = log]]
      BY <2>2 DEF Work, App
    <3>2. v = PutConversation(w.v, id, e) /\ a = [w.a EXCEPT !.shown = log]
      BY <2>2
    <3> QED
      BY <3>1, <3>2
  <2>6. x = Logged(w)
    BY <2>1 DEF t
  <2> QED
    BY <2>4, <2>5, <2>6
<1> HIDE DEF log
<1>9. e \in Conv /\ e.sess = next /\ e.log = log
  <2> HIDE DEF c
  <2>1. e \in Conv /\ e.sess = c.sess /\ e.log = log
    BY <1>6, <1>7 DEF Conv
  <2> QED
    BY <1>1, <1>6, <2>1
<1> HIDE DEF e, c
<1>10. d \in [Id -> Conv] /\ d[id] = e /\ \A jd \in Id : jd # id => d[jd] = s.v.convs[jd]
  BY <1>1, <1>2, <1>4, <1>9
<1>11. v = [t.v EXCEPT !.convs = d]
  BY <1>4 DEF PutConversation, Vault
<1> HIDE DEF d
<1>12. /\ v \in Vault /\ v.convs = d /\ v.opks = t.v.opks /\ v.last = t.v.last
       /\ v.contacts = s.v.contacts /\ v.keys = t.v.keys
  BY <1>1, <1>4, <1>10, <1>11 DEF Vault
<1> HIDE DEF v
<1>13. /\ a \in App /\ a.screen = t.a.screen /\ a.pending = t.a.pending /\ a.tab = t.a.tab
       /\ a.sel = t.a.sel /\ a.loaded = t.a.loaded /\ a.shown = log
  BY <1>4, <1>7 DEF App
<1> HIDE DEF a
<1>14. Behind(d, out, k, torn) /\ Once(out, k)
  <2>1. d[id].sess = next
    BY <1>9, <1>10
  <2> HIDE DEF out
  <2>2. Behind(d, s.sent \cup {g}, k, torn) /\ Once(s.sent \cup {g}, k)
    BY <1>1, <1>2, <1>3, <1>5, <1>10, <2>1, MovesOn
  <2> QED
    BY <2>2 DEF out
<1>15. out \in SUBSET Message
  BY <1>1, <1>4, <1>5
<1>16. /\ x \in Work /\ x.v = v /\ x.d = s.d \cup {v} /\ x.a = a /\ x.sent = out
       /\ x.heard = t.heard
  <2> HIDE DEF out
  <2>1. w \in Work /\ w.sent = out /\ w.heard = t.heard /\ w.d = s.d
    BY <1>1, <1>4, <1>15 DEF Work
  <2> HIDE DEF w
  <2>2. y \in Work /\ y.v = v /\ y.a = a /\ y.sent = out /\ y.heard = t.heard /\ y.d = s.d
    BY <1>12, <1>13, <2>1 DEF Work
  <2> HIDE DEF y
  <2> QED
    BY <1>8, <1>12, <2>2 DEF Saved, Work
<1> DEFINE late == unsaved \cup AtStake(x)
<1>17. \A u \in s.d : Behind(u.convs, out, k, torn \cup late)
  <2> SUFFICES ASSUME NEW u \in s.d PROVE Behind(u.convs, out, k, torn \cup late)
    OBVIOUS
  <2>1. Behind(u.convs, s.sent, k, torn \cup unsaved)
    BY <1>1, <1>4 DEF Sane, Holds
  <2>2. \A f \in out : f.sess.n \notin torn \cup late =>
          f \in s.sent /\ f.sess.n \notin torn \cup unsaved
    <3>1. x.v \in x.d
      BY <1>16
    <3>2. g \notin sent => g.sess.n \in AtStake(x)
      BY <1>16, <3>1 DEF AtStake
    <3> QED
      BY <3>2
  <2> HIDE DEF late, out
  <2> QED
    BY <2>1, <2>2 DEF Behind
<1>18. Behind(d, out, k, torn \cup late)
  <2> HIDE DEF late, out
  <2> QED
    BY <1>14, BehindWeakens
<1> HIDE DEF out, late
<1>19. /\ Stocked(v) /\ \A u \in s.d : Stocked(u)
       /\ kills = 0 => (1..v.last) \ v.opks = t.heard
       /\ a.screen \in {"Main", "KeyAlert"} /\ Len(a.pending) <= MaxPending
  BY <1>1, <1>4, <1>12, <1>13 DEF Sane, Holds, Stocked
<1>20. Holds(x, k, late)
  <2>1. \A u \in x.d : Stocked(u) /\ Behind(u.convs, x.sent, k, torn \cup late)
    BY <1>12, <1>16, <1>17, <1>18, <1>19
  <2> QED
    BY <1>12, <1>14, <1>16, <1>19, <2>1 DEF Holds
<1>21. Fresh(x)
  <2>1. x.v.convs[id].log = log
    BY <1>9, <1>10, <1>12, <1>16
  <2> QED
    BY <1>1, <1>4, <1>12, <1>13, <1>16, <2>1
       DEF Fresh, Foremost, OnTab, OnMain, Selected, SelectedId, id
<1> QED
  BY <1>20, <1>21 DEF k, late

-----------------------------------------------------------------------------
(* Steps.                                                                  *)

\* What is not in the record.
Around ==
  /\ inq \in Seq(Received)
  /\ boot \in {"none", "running", "ok", "failed"}
  /\ torn \subseteq Nat /\ {clicks, frames, drawn, kills} \subseteq Nat

\* The fields of Now are the variables.
LEMMA NowFields ==
  /\ Now.v = mem /\ Now.d = {disk} /\ Now.a = app /\ Now.sent = sent /\ Now.heard = heard
BY DEF Now

\* The type invariant in two parts.
LEMMA TypeParts ==
  ASSUME AndroidInv
  PROVE  /\ Around /\ sent \in SUBSET Message /\ heard \in SUBSET Nat /\ drawn \in Nat
         /\ unsaved \in SUBSET Nat
BY DEF AndroidInv, TypeOK, Around, Message

\* A step that ends with the vault w on disk and the rest as in t.
LEMMA Settled ==
  ASSUME Around', unsaved' \in SUBSET Nat, NEW t \in Work, NEW w \in Vault, NEW n \in Nat,
         mem' = t.v, disk' = w, app' = t.a, sent' = t.sent, heard' = t.heard,
         torn' = torn, kills' = kills, drawn' = n,
         t.a.screen \in {"Main", "KeyAlert"}, Len(t.a.pending) <= MaxPending,
         Stocked(t.v), Stocked(w), Once(t.sent, n),
         Behind(t.v.convs, t.sent, n, torn), Behind(w.convs, t.sent, n, torn \cup unsaved'),
         kills = 0 => (1..t.v.last) \ t.v.opks = t.heard, Fresh(t)
  PROVE  AndroidInv'
<1> DEFINE r == [v |-> t.v, d |-> {w}, a |-> t.a, sent |-> t.sent, heard |-> t.heard]
<1>1. /\ r \in Work /\ r.v = t.v /\ r.d = {w} /\ r.a = t.a /\ r.sent = t.sent
      /\ r.heard = t.heard
  BY DEF Work
<1>2. Now' = r
  BY DEF Now
<1> HIDE DEF r
<1>3. Behind(Now.v.convs, Now.sent, drawn, torn)'
  BY <1>1, <1>2 DEF Behind, Live
<1>4. \A v \in r.d : Behind(v.convs, r.sent, n, torn' \cup unsaved')
  BY <1>1
<1>5. (\A v \in Now.d : Behind(v.convs, Now.sent, drawn, torn \cup unsaved))'
  BY <1>2, <1>4 DEF Behind, Live
<1>6. Once(Now.sent, drawn)'
  BY <1>1, <1>2 DEF Once
<1>7. Sane(Now, drawn)'
  <2>1. /\ r \in Work
        /\ r.a.screen \in {"Main", "KeyAlert"} /\ Len(r.a.pending) <= MaxPending
        /\ Stocked(r.v) /\ \A v \in r.d : Stocked(v)
        /\ kills' = 0 => (1..r.v.last) \ r.v.opks = r.heard
    BY <1>1
  <2> QED
    BY <1>2, <1>3, <1>5, <1>6, <2>1 DEF Sane, Holds, Stocked
<1>8. Fresh(Now)'
  BY <1>1, <1>2 DEF Fresh, Foremost, OnTab, OnMain, Selected, SelectedId
<1>9. mem' \in Vault /\ disk' \in Vault /\ mem' # NoVault /\ disk' # NoVault
  BY NoneIsNothing, WorkFields
<1>10. TypeOK'
  <2>1. /\ app' \in App /\ Len(app'.pending) <= MaxPending
        /\ sent' \in SUBSET Message /\ heard' \in SUBSET Nat
        /\ Stocked(mem') /\ Stocked(disk')
    BY WorkFields
  <2> QED
    BY <1>9, <2>1 DEF TypeOK, Around, Stocked, Message
<1> QED
  BY <1>7, <1>8, <1>9, <1>10 DEF AndroidInv, Good

\* What update turns into something that holds but for the sends whose saves may fail.
LEMMA BecomesLate ==
  ASSUME AndroidInv, Around', NEW t, NEW n \in Nat, drawn' = n, Become(t),
         Holds(t, n, unsaved \cup AtStake(t)), Fresh(t)
  PROVE  AndroidInv'
<1>1. /\ mem' = t.v /\ disk' \in t.d /\ app' = t.a /\ sent' = t.sent /\ heard' = t.heard
      /\ unsaved' = (IF disk' = t.v THEN {} ELSE unsaved \cup AtStake(t))
      /\ torn' = torn /\ kills' = kills
  BY DEF Become
<1>2. /\ t \in Work /\ Once(t.sent, n) /\ Behind(t.v.convs, t.sent, n, torn)
      /\ t.a.screen \in {"Main", "KeyAlert"} /\ Len(t.a.pending) <= MaxPending
      /\ kills = 0 => (1..t.v.last) \ t.v.opks = t.heard
  BY DEF Holds
<1>3. unsaved' \in SUBSET Nat
  <2>1. \A f \in t.sent : f.sess.n \in Nat
    BY <1>2, WorkFields DEF Message, Session
  <2>2. AtStake(t) \subseteq Nat
    BY <2>1 DEF AtStake
  <2> HIDE DEF AtStake
  <2> QED
    BY <1>1, <2>2, TypeParts
<1>4. Stocked(t.v) /\ disk' \in Vault /\ Stocked(disk')
  BY <1>1, <1>2, WorkFields DEF Holds
<1>5. Behind(disk'.convs, t.sent, n, torn \cup unsaved')
  <2>1. CASE disk' = t.v
    BY <1>2, <2>1, BehindWeakens
  <2>2. CASE disk' # t.v
    <3>1. Behind(disk'.convs, t.sent, n, torn \cup (unsaved \cup AtStake(t)))
      BY <1>1 DEF Holds
    <3> QED
      BY <1>1, <2>2, <3>1
  <2> QED
    BY <2>1, <2>2
<1> QED
  BY <1>1, <1>2, <1>3, <1>4, <1>5, Settled

\* What update turns into something Good keeps the invariant.
LEMMA Becomes ==
  ASSUME AndroidInv, Around', NEW t, NEW n \in Nat, Good(t, n), Become(t), drawn' = n
  PROVE  AndroidInv'
<1>1. \A v \in t.d : Behind(v.convs, t.sent, n, torn \cup (unsaved \cup AtStake(t)))
  <2> TAKE v \in t.d
  <2>1. Behind(v.convs, t.sent, n, torn \cup unsaved)
    BY DEF Good, Sane, Holds
  <2> QED
    BY <2>1, BehindWeakens
<1>2. Holds(t, n, unsaved \cup AtStake(t)) /\ Fresh(t)
  BY <1>1 DEF Good, Sane, Holds
<1> QED
  BY <1>2, BecomesLate

\* Nor does a step around the record, which happens with an open vault only.
LEMMA Outside ==
  ASSUME AndroidInv, Around',
         UNCHANGED <<mem, disk, app, drawn, sent, unsaved, torn, heard, kills>>,
         mem = NoVault => boot' = "none" /\ inq' = <<>>
  PROVE  AndroidInv'
<1>1. CASE mem # NoVault
  <2>1. Good(Now, drawn) /\ disk # NoVault /\ drawn \in Nat /\ unsaved \in SUBSET Nat
    BY <1>1, TypeParts DEF AndroidInv
  <2>2. /\ Now \in Work /\ Once(sent, drawn) /\ Behind(mem.convs, sent, drawn, torn)
        /\ app.screen \in {"Main", "KeyAlert"} /\ Len(app.pending) <= MaxPending
        /\ Stocked(mem) /\ Stocked(disk) /\ Behind(disk.convs, sent, drawn, torn \cup unsaved)
        /\ kills = 0 => (1..mem.last) \ mem.opks = heard
    BY <2>1, NowFields DEF Good, Sane, Holds
  <2>3. Fresh(Now) /\ disk \in Vault
    BY <2>1 DEF Good, AndroidInv, TypeOK
  <2> QED
    BY <2>1, <2>2, <2>3, NowFields, Settled
<1>2. CASE mem = NoVault
  <2>1. Closed'
    <3>1. Closed
      BY <1>2 DEF AndroidInv
    <3>2. disk # NoVault => Behind(disk.convs, sent, drawn, torn)'
      BY <3>1 DEF Closed, Behind, Live
    <3>3. Once(sent, drawn)'
      BY <3>1 DEF Closed, Once
    <3> QED
      BY <1>2, <3>1, <3>2, <3>3 DEF Closed
  <2>2. TypeOK'
    BY DEF AndroidInv, TypeOK, Around
  <2> QED
    BY <1>2, <2>1, <2>2 DEF AndroidInv
<1> QED
  BY <1>1, <1>2

\* The widgets are drawn from the variables; the main screen shows an open vault.
LEMMA Widgets ==
  ASSUME AndroidInv
  PROVE  /\ Ready = Now
         /\ app.screen \in {"Main", "KeyAlert"} => mem # NoVault /\ Good(Now, drawn)
         /\ app.up => mem # NoVault /\ Good(Now, drawn)
         /\ boot # "none" => mem # NoVault /\ Good(Now, drawn)
<1>1. CASE mem = NoVault
  <2>1. Closed
    BY <1>1 DEF AndroidInv
  <2>2. Now.a.screen # "Main"
    BY <2>1 DEF Closed, Now
  <2> QED
    BY <2>1, <2>2 DEF Closed, Ready, ReloadedIfChanged
<1>2. CASE mem # NoVault
  BY <1>2, ReadyIsNow DEF AndroidInv
<1> QED
  BY <1>1, <1>2

\* The application starts with the passphrase, of a first run if there is no vault.
LEMMA Started ==
  ASSUME NEW saved
  PROVE  /\ NewApp(saved) \in App /\ NewApp(saved).screen = "Passphrase"
         /\ NewApp(saved).tab = "Contacts"
         /\ ~NewApp(saved).up /\ NewApp(saved).pending = <<>>
         /\ NewApp(saved).isNew <=> saved = NoVault
<1> DEFINE isNew == saved = NoVault
<1>1. isNew \in BOOLEAN
  OBVIOUS
<1>2. NewApp(saved) =
        [screen |-> "Passphrase", isNew |-> isNew, tab |-> "Contacts", sel |-> 1,
         loaded |-> None, shown |-> <<>>, pending |-> <<>>, code |-> None, up |-> FALSE]
  BY DEF NewApp
<1>3. <<>> \in Seq(Text) /\ <<>> \in Seq(Request)
  BY EmptySeq
<1> HIDE DEF isNew
<1>4. NewApp(saved) \in App
  BY <1>1, <1>2, <1>3 DEF App
<1>5. /\ NewApp(saved).screen = "Passphrase" /\ NewApp(saved).up = FALSE
      /\ NewApp(saved).tab = "Contacts"
      /\ NewApp(saved).pending = <<>> /\ NewApp(saved).isNew = isNew
  BY <1>2
<1> QED
  BY <1>4, <1>5 DEF isNew

\* The application as installed.
LEMMA Initially == Init => AndroidInv
<1> SUFFICES ASSUME Init PROVE AndroidInv
  OBVIOUS
<1>1. /\ app \in App /\ app.screen = "Passphrase" /\ app.tab = "Contacts"
      /\ app.isNew /\ ~app.up /\ app.pending = <<>>
  BY Started DEF Init
<1>2. TypeOK
  BY <1>1, AndroidConstants DEF Init, TypeOK
<1>3. Closed
  BY <1>1 DEF Init, Closed, Once
<1> QED
  BY <1>2, <1>3 DEF Init, AndroidInv

\* One click is counted, and the rest stays.
LEMMA Clicks ==
  ASSUME AndroidInv, Click, NEW t, Good(t, drawn), Become(t)
  PROVE  AndroidInv'
<1>1. Around'
  BY TypeParts DEF Around, Click, Clicked, Become
<1>2. drawn \in Nat /\ drawn' = drawn
  BY TypeParts DEF Click
<1> QED
  BY <1>1, <1>2, Becomes

\* Codes are made anew.
LEMMA CodesGood ==
  ASSUME NEW s, NEW n, Good(s, n)
  PROVE  Good(CodesRefreshed(s), n)
<1> DEFINE code == [addr |-> s.v.addr, opks |-> s.v.opks]
           a == [s.a EXCEPT !.code = code]
           t == [s EXCEPT !.a = a]
<1>1. s \in Work /\ s.a \in App /\ s.v \in Vault /\ Sane(s, n) /\ Fresh(s)
  BY WorkFields DEF Good, Sane, Holds
<1>2. code \in [addr : BOOLEAN, opks : SUBSET Nat]
  BY <1>1 DEF Vault
<1>3. CodesRefreshed(s) = t \/ CodesRefreshed(s) = s
  BY <1>1 DEF CodesRefreshed, Work
<1> HIDE DEF code
<1>4. /\ a \in App /\ a.screen = s.a.screen /\ a.pending = s.a.pending /\ a.tab = s.a.tab
      /\ a.sel = s.a.sel /\ a.loaded = s.a.loaded /\ a.shown = s.a.shown
  BY <1>1, <1>2 DEF App
<1> HIDE DEF a
<1>5. Sane(t, n) /\ t.v = s.v /\ t.a = a
  <2>1. a.screen \in {"Main", "KeyAlert"} /\ Len(a.pending) <= MaxPending
    BY <1>1, <1>4 DEF Sane, Holds
  <2> QED
    BY <1>1, <1>4, <2>1, OwnFields
<1> HIDE DEF t
<1>6. Good(t, n)
  BY <1>1, <1>4, <1>5 DEF Good, Fresh, Foremost, OnTab, OnMain, Selected, SelectedId
<1> QED
  BY <1>3, <1>6

\* Polling and handling keep the invariant.
LEMMA PollingStep ==
  ASSUME AndroidInv
  PROVE  /\ TakeTransport => AndroidInv'
         /\ HandleFrame => AndroidInv'
         /\ Idle => AndroidInv'
<1>1. Around /\ drawn \in Nat
  BY TypeParts
<1>2. ASSUME TakeTransport PROVE AndroidInv'
  <2> DEFINE s == Now
             v == [s.v EXCEPT !.addr = TRUE]
             a == [s.a EXCEPT !.up = TRUE]
             t == [s EXCEPT !.v = v, !.a = a]
             u == CodesRefreshed(Saved(t))
  <2>1. Good(s, drawn)
    BY <1>2, Widgets DEF TakeTransport
  <2>2. s \in Work /\ s.v \in Vault /\ s.a \in App /\ Sane(s, drawn) /\ Fresh(s)
    BY <2>1, WorkFields DEF Good, Sane, Holds
  <2>3. [Now EXCEPT !.v.addr = TRUE, !.a.up = TRUE] = t
    BY <2>2 DEF Work
  <2> HIDE DEF s
  <2>4. /\ v \in Vault /\ v.convs = s.v.convs /\ v.opks = s.v.opks /\ v.last = s.v.last
        /\ v.contacts = s.v.contacts /\ v.keys = s.v.keys
    BY <2>2 DEF Vault
  <2>5. /\ a \in App /\ a.screen = s.a.screen /\ a.pending = s.a.pending /\ a.tab = s.a.tab
        /\ a.sel = s.a.sel /\ a.loaded = s.a.loaded /\ a.shown = s.a.shown
    BY <2>2 DEF App
  <2> HIDE DEF v, a
  <2>6. /\ t \in Work /\ t.v = v /\ t.d = s.d /\ t.a = a /\ t.sent = s.sent
        /\ t.heard = s.heard
    BY <2>2, <2>4, <2>5 DEF Work
  <2> HIDE DEF t
  <2>7. Good(t, drawn)
    <3>1. Sane(t, drawn)
      BY <2>2, <2>4, <2>5, <2>6 DEF Sane, Holds, Stocked
    <3>2. Fresh(t)
      BY <2>2, <2>4, <2>5, <2>6 DEF Fresh, Foremost, OnTab, OnMain, Selected, SelectedId
    <3> QED
      BY <3>1, <3>2 DEF Good
  <2>8. Good(u, drawn)
    BY <2>7, SavedGood, CodesGood
  <2>9. Become(u)
    BY <1>2, <2>3 DEF TakeTransport
  <2> HIDE DEF u
  <2>10. Around' /\ drawn' = drawn
    BY <1>1, <1>2, <2>9 DEF TakeTransport, Quiet, Around, Become
  <2> QED
    BY <1>1, <2>8, <2>9, <2>10, Becomes
<1>3. ASSUME HandleFrame PROVE AndroidInv'
  <2> DEFINE m == Head(inq)
  <2>1. Good(Now, drawn)
    BY <1>3, Widgets DEF HandleFrame
  <2>2. inq # <<>> /\ inq' = Tail(inq)
    BY <1>3 DEF HandleFrame
  <2>3. m \in Received /\ Tail(inq) \in Seq(Received)
    BY <1>1, <2>2, HeadTailProperties DEF Around
  <2>4. Good(Handle(Now, m), drawn)
    <3>1. m.from \in Peer /\ m.opk \in Nat \cup {NoOpk} /\ m.n \in Nat
      BY <2>3 DEF Received
    <3> QED
      BY <2>1, <3>1, HandleGood
  <2>5. Become(Handle(Now, m)) /\ drawn' = drawn
    BY <1>3 DEF HandleFrame, Quiet
  <2>6. Around'
    BY <1>1, <1>3, <2>2, <2>3 DEF HandleFrame, Quiet, Around, Become
  <2> QED
    BY <1>1, <2>4, <2>5, <2>6, Becomes
<1>4. ASSUME Idle PROVE AndroidInv'
  <2>1. Become(Now) /\ drawn' = drawn /\ boot' = boot /\ inq' = inq
    BY <1>4, Widgets DEF Idle, Quiet
  <2>2. Around'
    BY <1>1, <1>4, <2>1 DEF Idle, Quiet, Around, Become
  <2>3. CASE mem # NoVault
    BY <1>1, <2>1, <2>2, <2>3, Becomes DEF AndroidInv
  <2>4. CASE mem = NoVault
    <3>1. Closed
      BY <2>4 DEF AndroidInv
    <3>2. AtStake(Now) = {}
      BY NowFields DEF AtStake
    <3>3. UNCHANGED <<mem, disk, app, sent, unsaved, torn, heard, kills>>
      BY <2>1, <3>1, <3>2, NowFields DEF Become, Closed
    <3> QED
      BY <2>1, <2>2, <3>1, <3>3, Outside DEF Closed
  <2> QED
    BY <2>3, <2>4
<1> QED
  BY <1>2, <1>3, <1>4

\* A vault that is opened, over what was handed over and heard of before.
LEMMA OpenedGood ==
  ASSUME NEW s \in Work, NEW n, s.sent = sent, s.heard = heard,
         s.a.screen = "Main", s.a.tab = "Contacts", Len(s.a.pending) <= MaxPending,
         Stocked(s.v), \A w \in s.d : Stocked(w) /\ Behind(w.convs, sent, n, torn),
         Behind(s.v.convs, sent, n, torn), Once(sent, n),
         kills = 0 => (1..s.v.last) \ s.v.opks = heard
  PROVE  Good(s, n)
<1>1. \A w \in s.d : Stocked(w) /\ Behind(w.convs, s.sent, n, torn \cup unsaved)
  BY BehindWeakens
<1>2. Sane(s, n)
  BY <1>1 DEF Sane, Holds
<1> QED
  BY <1>2, OnContactsGood

\* The vaults of a first run.
LEMMA FirstVaults ==
  /\ EmptyVault \in Vault /\ Stocked(EmptyVault) /\ Live(EmptyVault.convs) = {}
  /\ FirstVault \in Vault /\ Stocked(FirstVault) /\ Live(FirstVault.convs) = {}
  /\ (1..FirstVault.last) \ FirstVault.opks = {}
<1> DEFINE c == [sess |-> None, log |-> <<>>, unread |-> 0]
           convs == [id \in Id |-> c]
<1>1. c \in Conv /\ c.sess = None
  <2>1. <<>> \in Seq(Text)
    BY EmptySeq
  <2> QED
    BY <2>1 DEF Conv
<1>2. EmptyVault = [keys |-> FALSE, opks |-> {}, last |-> 0, addr |-> FALSE,
                    contacts |-> <<>>, convs |-> convs]
  BY DEF EmptyVault
<1> HIDE DEF c
<1>3. convs \in [Id -> Conv] /\ Live(convs) = {}
  BY <1>1 DEF Live
<1> HIDE DEF convs
<1>4. <<>> \in Seq(Id) /\ OpkBatch \in Nat /\ 1..OpkBatch \in SUBSET Nat
  BY EmptySeq, AndroidConstants
<1>5. /\ EmptyVault \in Vault /\ EmptyVault.keys = FALSE /\ EmptyVault.opks = {}
      /\ EmptyVault.convs = convs
  BY <1>2, <1>3, <1>4 DEF Vault
<1>6. /\ FirstVault \in Vault /\ FirstVault.keys = TRUE /\ FirstVault.opks = 1..OpkBatch
      /\ FirstVault.last = OpkBatch /\ FirstVault.convs = convs
  BY <1>4, <1>5 DEF Vault, FirstVault
<1>7. Cardinality(1..OpkBatch) > OpkThreshold
  <2>1. 1 \in Int /\ OpkBatch \in Int /\ ~(1 > OpkBatch) /\ OpkBatch - 1 + 1 = OpkBatch
    BY AndroidConstants
  <2>2. Cardinality(1..OpkBatch) = OpkBatch
    BY <2>1, FS_Interval
  <2> QED
    BY <2>2, AndroidConstants
<1> QED
  BY <1>3, <1>5, <1>6, <1>7 DEF Stocked

\* The passphrase screen.
LEMMA PassphraseStep ==
  ASSUME AndroidInv
  PROVE  /\ Unlock => AndroidInv'
         /\ UnlockDuress => AndroidInv'
         /\ Create => AndroidInv'
<1>1. Around /\ drawn \in Nat /\ sent \in SUBSET Message /\ heard \in SUBSET Nat
  BY TypeParts
<1>2. app \in App /\ Len(app.pending) <= MaxPending
  BY DEF AndroidInv, TypeOK
<1>3. ASSUME app.screen = "Passphrase"
      PROVE  mem = NoVault /\ Closed
  <2>1. mem = NoVault
    BY <1>3 DEF AndroidInv, Good, Sane, Holds, Now
  <2> QED
    BY <2>1 DEF AndroidInv
<1>4. ASSUME Unlock PROVE AndroidInv'
  <2> DEFINE a == [app EXCEPT !.screen = "Main"]
             s == [Now EXCEPT !.v = disk, !.a = a]
  <2>1. Closed /\ disk # NoVault
    BY <1>3, <1>4 DEF Unlock, Closed
  <2>2. disk \in Vault /\ Stocked(disk)
    BY <2>1 DEF AndroidInv, TypeOK, Stocked
  <2>3. [Now EXCEPT !.v = disk, !.a.screen = "Main"] = s
    <3>1. \A v, d, b, x, y : [[v |-> v, d |-> d, a |-> b, sent |-> x, heard |-> y]
                EXCEPT !.v = disk, !.a.screen = "Main"] =
              [[v |-> v, d |-> d, a |-> b, sent |-> x, heard |-> y]
                EXCEPT !.v = disk, !.a = [b EXCEPT !.screen = "Main"]]
      OBVIOUS
    <3> QED
      BY <3>1 DEF Now
  <2>4. a \in App /\ a.screen = "Main" /\ a.tab = app.tab /\ a.pending = app.pending
    BY <1>2 DEF App
  <2> HIDE DEF a
  <2>5. /\ s \in Work /\ s.v = disk /\ s.d = {disk} /\ s.a = a /\ s.sent = sent
        /\ s.heard = heard
    BY <1>1, <2>2, <2>4 DEF Now, Work
  <2> HIDE DEF s
  <2>6. Good(s, drawn)
    <3>1. /\ Behind(disk.convs, sent, drawn, torn) /\ Once(sent, drawn)
          /\ app.tab = "Contacts" /\ kills # 0
      BY <2>1 DEF Closed
    <3> QED
      BY <1>2, <2>2, <2>4, <2>5, <3>1, OpenedGood
  <2>7. Become(CodesRefreshed(s)) /\ drawn' = drawn
    BY <1>4, <2>3 DEF Unlock
  <2>8. Around'
    BY <1>1, <1>4, <2>7 DEF Unlock, Around, Become
  <2> QED
    BY <1>1, <2>6, <2>7, <2>8, CodesGood, Becomes
<1>5. ASSUME UnlockDuress PROVE AndroidInv'
  <2> DEFINE a == [app EXCEPT !.screen = "Duress"]
             s == [Now EXCEPT !.a = a]
  <2>1. mem = NoVault /\ Closed /\ disk # NoVault
    BY <1>3, <1>5 DEF UnlockDuress, Closed
  <2>2. /\ a \in App /\ a.screen = "Duress" /\ a.tab = app.tab /\ a.up = app.up
        /\ a.pending = app.pending
    BY <1>2 DEF App
  <2>3. [Now EXCEPT !.a.screen = "Duress"] = s
    BY DEF Now
  <2> HIDE DEF a
  <2>4. s.v = mem /\ s.d = {disk} /\ s.a = a /\ s.sent = sent /\ s.heard = heard
    BY DEF Now
  <2> HIDE DEF s
  <2>5. Become(s) /\ UNCHANGED <<inq, boot, clicks, frames, drawn>>
    BY <1>5, <2>3 DEF UnlockDuress, Quiet
  <2>6. AtStake(s) = {} /\ unsaved = {}
    BY <2>1, <2>4 DEF AtStake, Closed
  <2>7. /\ app' = a
        /\ UNCHANGED <<mem, disk, sent, unsaved, heard, inq, boot, clicks, frames, drawn, torn, kills>>
    BY <2>4, <2>5, <2>6 DEF Become
  <2>8. TypeOK'
    BY <1>2, <2>2, <2>7 DEF AndroidInv, TypeOK
  <2>9. Closed'
    <3>1. disk # NoVault => Behind(disk.convs, sent, drawn, torn)'
      BY <2>1, <2>7 DEF Closed, Behind, Live
    <3>2. Once(sent, drawn)'
      BY <2>1, <2>7 DEF Closed, Once
    <3> QED
      BY <2>1, <2>2, <2>7, <3>1, <3>2 DEF Closed
  <2> QED
    BY <2>1, <2>7, <2>8, <2>9 DEF AndroidInv
<1>6. ASSUME Create PROVE AndroidInv'
  <2> DEFINE a == [app EXCEPT !.screen = "Main"]
             s == [Now EXCEPT !.v = FirstVault, !.d = {EmptyVault}, !.a = a]
             t == CodesRefreshed(Saved(s))
  <2>1. Closed /\ mem = NoVault
    BY <1>3, <1>6 DEF Create
  <2>2. [Now EXCEPT !.v = FirstVault, !.d = {EmptyVault}, !.a.screen = "Main"] = s
    BY DEF Now
  <2>3. a \in App /\ a.screen = "Main" /\ a.tab = app.tab /\ a.pending = app.pending
    BY <1>2 DEF App
  <2> HIDE DEF a
  <2>4. /\ s \in Work /\ s.v = FirstVault /\ s.d = {EmptyVault} /\ s.a = a
        /\ s.sent = sent /\ s.heard = heard
    BY <1>1, <2>3, FirstVaults DEF Now, Work
  <2> HIDE DEF s
  <2>5. Good(s, drawn)
    <3>1. Behind(FirstVault.convs, sent, drawn, torn) /\ Behind(EmptyVault.convs, sent, drawn, torn)
      BY FirstVaults DEF Behind
    <3>2. Once(sent, drawn) /\ app.tab = "Contacts" /\ (kills = 0 => heard = {})
      BY <2>1 DEF Closed
    <3>3. \A w \in s.d : Stocked(w) /\ Behind(w.convs, sent, drawn, torn)
      BY <2>4, <3>1, FirstVaults
    <3> QED
      BY <1>2, <2>3, <2>4, <3>1, <3>2, <3>3, FirstVaults, OpenedGood
  <2>6. Become(t) /\ drawn' = drawn
    BY <1>6, <2>2 DEF Create
  <2>7. Good(t, drawn)
    BY <2>5, SavedGood, CodesGood
  <2> HIDE DEF t
  <2>8. Around'
    BY <1>1, <1>6, <2>6 DEF Create, Around, Become
  <2> QED
    BY <1>1, <2>6, <2>7, <2>8, Becomes
<1> QED
  BY <1>4, <1>5, <1>6

\* The tab bar.
LEMMA TabStep ==
  ASSUME AndroidInv
  PROVE  /\ \A tab \in {"Contacts", "Conversation"} : Tab(tab) => AndroidInv'
         /\ VisitSettings => AndroidInv'
<1>1. ASSUME OnMain(Ready), NEW tab \in {"Contacts", "Conversation"}
      PROVE  /\ Sane([Ready EXCEPT !.a.tab = tab], drawn)
             /\ [Ready EXCEPT !.a.tab = tab].a.tab = tab
  <2> DEFINE a == [Now.a EXCEPT !.tab = tab]
             t == [Now EXCEPT !.a = a]
  <2>1. Ready = Now /\ Good(Now, drawn)
    BY <1>1, Widgets, NowFields DEF OnMain
  <2>2. Now \in Work /\ Now.a \in App /\ Sane(Now, drawn)
    BY <2>1, WorkFields DEF Good, Sane, Holds
  <2>3. a \in App /\ a.tab = tab /\ a.screen = Now.a.screen /\ a.pending = Now.a.pending
    BY <2>2 DEF App
  <2>4. [Ready EXCEPT !.a.tab = tab] = t
    BY <2>1, <2>2 DEF Work
  <2> HIDE DEF a
  <2>5. Sane(t, drawn) /\ t.a = a
    <3>1. a.screen \in {"Main", "KeyAlert"} /\ Len(a.pending) <= MaxPending
      BY <2>2, <2>3 DEF Sane, Holds
    <3> QED
      BY <2>2, <2>3, <3>1, OwnFields
  <2> HIDE DEF t
  <2> QED
    BY <2>3, <2>4, <2>5
<1>2. ASSUME NEW tab \in {"Contacts", "Conversation"}, Tab(tab) PROVE AndroidInv'
  <2> DEFINE s == [Ready EXCEPT !.a.tab = tab]
  <2>1. Sane(s, drawn) /\ s.a.tab = tab
    BY <1>1, <1>2 DEF Tab
  <2>2. Become(IF tab = "Conversation" THEN MessagesReloaded(s) ELSE s) /\ Click
    BY <1>2 DEF Tab
  <2> HIDE DEF s
  <2>3. CASE tab = "Conversation"
    BY <2>1, <2>2, <2>3, ReloadGood, Clicks
  <2>4. CASE tab = "Contacts"
    BY <2>1, <2>2, <2>4, OnContactsGood, Clicks
  <2> QED
    BY <2>3, <2>4
<1>3. ASSUME VisitSettings PROVE AndroidInv'
  <2> DEFINE s == [Ready EXCEPT !.a.tab = "Contacts"]
  <2>1. Sane(s, drawn) /\ s.a.tab = "Contacts"
    BY <1>1, <1>3 DEF VisitSettings
  <2>2. Become(Saved(s)) /\ Click
    BY <1>3 DEF VisitSettings
  <2> HIDE DEF s
  <2> QED
    BY <2>1, <2>2, OnContactsGood, SavedGood, Clicks
<1> QED
  BY <1>2, <1>3

\* Positions and requests on the tab of contacts.
LEMMA SelectStep ==
  ASSUME AndroidInv
  PROVE  /\ \A i \in 1..MaxContacts : Select(i) => AndroidInv'
         /\ Verify => AndroidInv'
         /\ Delete => AndroidInv'
         /\ Reject => AndroidInv'
<1>1. ASSUME OnContacts(Ready)
      PROVE  /\ Ready = Now /\ Good(Now, drawn) /\ Sane(Now, drawn)
             /\ Now \in Work /\ Now.a \in App
             /\ Now.a.tab = "Contacts" /\ Now.a.screen = "Main" /\ Len(Now.a.pending) <= MaxPending
  <2>1. Ready = Now /\ Good(Now, drawn)
    BY <1>1, Widgets, NowFields DEF OnContacts
  <2> QED
    BY <1>1, <2>1, WorkFields DEF Good, Sane, Holds, OnContacts
<1>2. ASSUME NEW a \in App, a.tab = "Contacts", a.screen = "Main", Len(a.pending) <= MaxPending,
             NEW s, Sane(s, drawn), Click, Become([s EXCEPT !.a = a])
      PROVE  AndroidInv'
  <2> DEFINE t == [s EXCEPT !.a = a]
  <2>1. Sane(t, drawn) /\ t.a = a
    BY <1>2, OwnFields
  <2>2. Become(t)
    BY <1>2
  <2> HIDE DEF t
  <2> QED
    BY <1>2, <2>1, <2>2, OnContactsGood, Clicks
<1>3. ASSUME NEW i \in 1..MaxContacts, Select(i) PROVE AndroidInv'
  <2> DEFINE a == [Now.a EXCEPT !.sel = i]
  <2>1. OnContacts(Ready) /\ Click /\ Become([Ready EXCEPT !.a.sel = i]) /\ i \in Nat
    BY <1>3, AndroidConstants DEF Select
  <2>2. /\ a \in App /\ a.tab = "Contacts" /\ a.screen = "Main"
        /\ Len(a.pending) <= MaxPending
    BY <1>1, <2>1 DEF App
  <2>3. [Ready EXCEPT !.a.sel = i] = [Now EXCEPT !.a = a]
    BY <1>1, <2>1 DEF Work
  <2> HIDE DEF a
  <2> QED
    BY <1>1, <1>2, <2>1, <2>2, <2>3
<1>4. ASSUME Verify PROVE AndroidInv'
  <2>1. OnContacts(Ready) /\ Click /\ Become(Verified(Ready))
    BY <1>4 DEF Verify
  <2>2. Good(Verified(Ready), drawn)
    BY <1>1, <2>1, SavedGood DEF Verified
  <2> QED
    BY <2>1, <2>2, Clicks
<1>5. ASSUME Delete PROVE AndroidInv'
  <2> DEFINE t == Without(Ready)
             k == Len(t.v.contacts)
             sel == IF k > 0 /\ t.a.sel > k THEN k ELSE t.a.sel
             a == [t.a EXCEPT !.sel = sel]
  <2>1. /\ OnContacts(Ready) /\ Selected(Ready) /\ Click
        /\ Become([t EXCEPT !.a.sel = IF k > 0 /\ @ > k THEN k ELSE @])
    BY <1>5 DEF Delete
  <2>2. Sane(t, drawn) /\ t.a = Now.a /\ k \in Nat
    BY <1>1, <2>1, WithoutSane
  <2> HIDE DEF t, k
  <2>3. t \in Work /\ t.a \in App /\ t.a.sel \in Nat /\ t.a.tab = "Contacts" /\ t.a.screen = "Main"
        /\ Len(t.a.pending) <= MaxPending
    BY <1>1, <2>1, <2>2, WorkFields DEF Sane, Holds
  <2>4. sel \in Nat
    BY <2>2, <2>3
  <2>5. [t EXCEPT !.a.sel = IF k > 0 /\ @ > k THEN k ELSE @] = [t EXCEPT !.a = a]
    BY <2>3 DEF Work, App
  <2> HIDE DEF sel
  <2>6. /\ a \in App /\ a.tab = "Contacts" /\ a.screen = "Main"
        /\ Len(a.pending) <= MaxPending
    BY <2>3, <2>4 DEF App
  <2> HIDE DEF a
  <2> QED
    BY <1>2, <2>1, <2>2, <2>5, <2>6
<1>6. ASSUME Reject PROVE AndroidInv'
  <2> DEFINE rest == Tail(Now.a.pending)
             a == [Now.a EXCEPT !.pending = rest]
  <2>1. /\ OnContacts(Ready) /\ Click /\ Ready.a.pending # <<>>
        /\ Become([Ready EXCEPT !.a.pending = Tail(@)])
    BY <1>6 DEF Reject
  <2>2. rest \in Seq(Request) /\ Len(rest) <= MaxPending
    <3>1. Now.a.pending \in Seq(Request) /\ Now.a.pending # <<>>
      BY <1>1, <2>1 DEF App
    <3>2. Len(Now.a.pending) \in Nat /\ Len(rest) = Len(Now.a.pending) - 1 /\ rest \in Seq(Request)
      BY <3>1, HeadTailProperties, LenProperties
    <3> QED
      BY <1>1, <2>1, <3>2, AndroidConstants
  <2>3. [Ready EXCEPT !.a.pending = Tail(@)] = [Now EXCEPT !.a = a]
    BY <1>1, <2>1 DEF Work, App
  <2> HIDE DEF rest
  <2>4. a \in App /\ a.tab = "Contacts" /\ a.screen = "Main" /\ Len(a.pending) <= MaxPending
    BY <1>1, <2>1, <2>2 DEF App
  <2> HIDE DEF a
  <2> QED
    BY <1>1, <1>2, <2>1, <2>3, <2>4
<1> QED
  BY <1>3, <1>4, <1>5, <1>6

\* New contacts.
LEMMA AddStep ==
  ASSUME AndroidInv
  PROVE  /\ \A p \in Peer : AddByCode(p) => AndroidInv'
         /\ Accept => AndroidInv'
<1>1. ASSUME OnContacts(Ready)
      PROVE  /\ Ready = Now /\ Good(Now, drawn) /\ Sane(Now, drawn)
             /\ Now \in Work /\ Now.v \in Vault /\ Now.a \in App /\ Now.a.pending \in Seq(Request)
             /\ Now.a.tab = "Contacts" /\ Now.a.screen = "Main" /\ Len(Now.a.pending) <= MaxPending
  <2>1. Ready = Now /\ Good(Now, drawn)
    BY <1>1, Widgets, NowFields DEF OnContacts
  <2> QED
    BY <1>1, <2>1, WorkFields DEF Good, Sane, Holds, OnContacts
<1>2. ASSUME NEW p \in Peer, AddByCode(p) PROVE AndroidInv'
  <2> DEFINE t == WithContact(Ready, <<p, "code">>)
  <2>1. OnContacts(Ready) /\ Click /\ Become(Saved(t))
    BY <1>2 DEF AddByCode
  <2>2. <<p, "code">> \in Id
    BY DEF Id
  <2>3. Sane(t, drawn) /\ t.a.tab = "Contacts"
    BY <1>1, <2>1, <2>2, WithContactSane
  <2> HIDE DEF t
  <2> QED
    BY <2>1, <2>3, OnContactsGood, SavedGood, Clicks
<1>3. ASSUME Accept PROVE AndroidInv'
  <2> DEFINE r == Head(Ready.a.pending)
             id == <<r.from, "request">>
             c == Conversation(Ready.v, id)
             rest == Tail(Now.a.pending)
             a == [Now.a EXCEPT !.pending = rest]
             u == [Now EXCEPT !.a = a]
             t == WithContact(u, id)
             k == drawn + 1
             e == [sess |-> [us |-> FALSE, n |-> k, pos |-> 0],
                   log |-> <<[us |-> FALSE, n |-> r.n]>>, unread |-> c.unread]
             w == WithVault(t, PutConversation(t.v, id, e))
  <2>1. /\ OnContacts(Ready) /\ Ready.a.pending # <<>> /\ Clicked /\ drawn' = k
        /\ LET x == WithContact([Ready EXCEPT !.a.pending = Tail(@)], id) IN
           Become(Saved([x EXCEPT !.v = PutConversation(@, id, e)]))
    BY <1>3 DEF Accept
  <2>2. Ready = Now /\ r \in Request /\ rest \in Seq(Request) /\ Len(rest) <= MaxPending
    <3>1. Len(Now.a.pending) \in Nat /\ Len(rest) = Len(Now.a.pending) - 1
      BY <1>1, <2>1, HeadTailProperties, LenProperties
    <3>2. r \in Request /\ rest \in Seq(Request)
      BY <1>1, <2>1, HeadTailProperties
    <3> QED
      BY <1>1, <2>1, <3>1, <3>2, AndroidConstants
  <2>3. id \in Id /\ r.n \in Nat
    BY <2>2 DEF Id, Request
  <2>4. e \in Conv /\ e.sess \in Session /\ e.sess.n = k /\ k \in Nat /\ drawn < k
    <3> DEFINE sess == [us |-> FALSE, n |-> k, pos |-> 0]
               log == <<[us |-> FALSE, n |-> r.n]>>
    <3>1. c.unread \in Nat
      <4>1. c \in Conv
        BY <1>1, <2>1, <2>3 DEF Conversation, Vault
      <4> QED
        BY <4>1, ConvFields
    <3>2. sess \in Session /\ sess.n = k /\ k \in Nat /\ drawn < k
      BY TypeParts DEF Session
    <3>3. log \in Seq(Text)
      <4>1. [us |-> FALSE, n |-> r.n] \in Text
        BY <2>3 DEF Text
      <4> QED
        BY <4>1
    <3> HIDE DEF sess, log, c
    <3>4. e = [sess |-> sess, log |-> log, unread |-> c.unread]
      BY DEF sess, log
    <3> HIDE DEF e
    <3> QED
      BY <3>1, <3>2, <3>3, <3>4 DEF Conv
  <2>5. [Ready EXCEPT !.a.pending = Tail(@)] = u
    BY <1>1, <2>1 DEF Work, App
  <2> HIDE DEF rest, e, k
  <2>6. a \in App /\ a.tab = "Contacts" /\ a.screen = "Main" /\ a.pending = rest
    BY <1>1, <2>1, <2>2 DEF App
  <2> HIDE DEF a, id
  <2>7. Sane(u, drawn) /\ u.a = a
    BY <1>1, <2>1, <2>2, <2>6, OwnFields
  <2> HIDE DEF u
  <2>8. Sane(t, drawn) /\ t.a.tab = "Contacts"
    BY <2>3, <2>6, <2>7, WithContactSane
  <2>9. Become(Saved(w))
    BY <2>1, <2>5 DEF WithVault
  <2> HIDE DEF t
  <2>10. Ahead(t.v.convs, t.sent, id, k, e.sess)
    <3>1. /\ t.v.convs \in [Id -> Conv] /\ t.sent \in SUBSET Message
          /\ Behind(t.v.convs, t.sent, drawn, torn) /\ Once(t.sent, drawn)
      BY <2>8, WorkFields DEF Sane, Holds
    <3> QED
      BY <2>3, <2>4, <3>1, TypeParts, NewIsAhead
  <2>11. Sane(w, k) /\ w.a = t.a
    <3>1. w = WithVault(t, PutConversation(t.v, id, e))
      OBVIOUS
    <3> HIDE DEF w
    <3> QED
      BY <2>3, <2>4, <2>8, <2>10, <3>1, TypeParts, RenewedSane
  <2> HIDE DEF w
  <2>12. Good(Saved(w), k)
    BY <2>8, <2>11, OnContactsGood, SavedGood
  <2>13. Around'
    BY <2>1, <2>4, <2>9, TypeParts DEF Around, Clicked, Become
  <2> QED
    BY <2>1, <2>4, <2>9, <2>12, <2>13, Becomes
<1> QED
  BY <1>2, <1>3

\* The alert over the contacts, after which the main screen is shown.
LEMMA AlertStep ==
  ASSUME AndroidInv
  PROVE  /\ AlertAccept => AndroidInv'
         /\ AlertReject => AndroidInv'
<1>1. ASSUME Ready.a.screen = "KeyAlert"
      PROVE  Ready = Now /\ Sane(Now, drawn)
  BY <1>1, Widgets, NowFields DEF Good
<1>2. ASSUME NEW s, Sane(s, drawn), s.a.tab = "Contacts", Click,
             Become([s EXCEPT !.a.screen = "Main"])
      PROVE  AndroidInv'
  <2> DEFINE a == [s.a EXCEPT !.screen = "Main"]
             t == [s EXCEPT !.a = a]
  <2>1. s \in Work /\ s.a \in App /\ Len(s.a.pending) <= MaxPending
    BY <1>2, WorkFields DEF Sane, Holds
  <2>2. /\ a \in App /\ a.screen = "Main" /\ a.tab = "Contacts"
        /\ Len(a.pending) <= MaxPending
    BY <1>2, <2>1 DEF App
  <2>3. Become(t)
    BY <1>2, <2>1 DEF Work
  <2> HIDE DEF a
  <2>4. Sane(t, drawn) /\ t.a = a
    BY <1>2, <2>2, OwnFields
  <2> HIDE DEF t
  <2> QED
    BY <1>2, <2>2, <2>3, <2>4, OnContactsGood, Clicks
<1>3. ASSUME AlertAccept PROVE AndroidInv'
  <2> DEFINE s == Verified(Ready)
  <2>1. /\ Ready.a.screen = "KeyAlert" /\ Ready.a.tab = "Contacts" /\ Click
        /\ Become([s EXCEPT !.a.screen = "Main"])
    BY <1>3 DEF AlertAccept
  <2>2. Sane(s, drawn) /\ s.a = Now.a
    <3>1. Now \in Work
      BY <1>1, <2>1 DEF Sane, Holds
    <3>2. Saved(Now).a = Now.a
      BY <3>1 DEF Saved, Work
    <3> QED
      BY <1>1, <2>1, <3>2, SavedGood DEF Verified
  <2> HIDE DEF s
  <2> QED
    BY <1>1, <1>2, <2>1, <2>2
<1>4. ASSUME AlertReject PROVE AndroidInv'
  <2> DEFINE s == IF Selected(Ready) THEN Without(Ready) ELSE Ready
  <2>1. /\ Ready.a.screen = "KeyAlert" /\ Ready.a.tab = "Contacts" /\ Click
        /\ Become([s EXCEPT !.a.screen = "Main"])
    BY <1>4 DEF AlertReject
  <2>2. Sane(s, drawn) /\ s.a = Now.a
    BY <1>1, <2>1, WithoutSane
  <2> HIDE DEF s
  <2> QED
    BY <1>1, <1>2, <2>1, <2>2
<1> QED
  BY <1>3, <1>4

\* Sending: nothing, the session alone, or the session, the message and the log.
LEMMA SendStep ==
  ASSUME AndroidInv
  PROVE  \A room \in BOOLEAN : Send(room) => AndroidInv'
<1> SUFFICES ASSUME NEW room \in BOOLEAN, Send(room) PROVE AndroidInv'
  OBVIOUS
<1> DEFINE t == Advanced(Now)
           w == IF ~MaySend(Now) THEN Now
                ELSE IF Now.a.up /\ room THEN Logged(HandedOver(Now, t)) ELSE t
<1>1. Around /\ drawn \in Nat /\ drawn + 1 \in Nat /\ drawn <= drawn + 1
  BY TypeParts
<1>2. Ready = Now /\ Good(Now, drawn)
  <2>1. OnTab(Ready, "Conversation")
    BY DEF Send
  <2> QED
    BY <2>1, Widgets, NowFields DEF OnTab, OnMain
<1>3. Clicked /\ drawn' = drawn + 1 /\ Become(w)
  BY <1>2 DEF Send
<1>4. Around'
  BY <1>1, <1>3 DEF Around, Clicked, Become
<1> DEFINE k == drawn + 1
<1>5. Good(Now, k)
  <2>1. /\ Sane(Now, drawn) /\ Now.v.convs \in [Id -> Conv]
        /\ \A v \in Now.d : v.convs \in [Id -> Conv]
        /\ Now.sent \in SUBSET Message
    BY <1>2, WorkFields DEF Good, Sane, Holds
  <2>2. k \in Nat /\ drawn <= k
    BY <1>1
  <2> HIDE DEF k
  <2>3. Behind(Now.v.convs, Now.sent, k, torn) /\ Once(Now.sent, k)
    BY <1>1, <2>1, <2>2, BehindGrows DEF Sane, Holds
  <2>4. \A v \in Now.d : Behind(v.convs, Now.sent, k, torn \cup unsaved)
    BY <1>1, <2>1, <2>2, BehindGrows DEF Sane, Holds
  <2> QED
    BY <1>2, <2>1, <2>3, <2>4 DEF Good, Sane, Holds
<1>6. CASE ~MaySend(Now)
  BY <1>1, <1>3, <1>4, <1>5, <1>6, Becomes
<1>7. CASE MaySend(Now) /\ ~(Now.a.up /\ room)
  <2>1. Good(t, k)
    BY <1>1, <1>2, <1>7, AdvancedGood
  <2>2. Become(t)
    BY <1>3, <1>7
  <2> HIDE DEF t
  <2> QED
    BY <1>1, <1>3, <1>4, <2>1, <2>2, Becomes
<1>8. CASE MaySend(Now) /\ Now.a.up /\ room
  <2> DEFINE x == Logged(HandedOver(Now, t))
  <2>1. Holds(x, k, unsaved \cup AtStake(x)) /\ Fresh(x)
    BY <1>1, <1>2, <1>8, NowFields, LoggedGood
  <2>2. Become(x)
    BY <1>3, <1>8
  <2> HIDE DEF x
  <2> QED
    BY <1>1, <1>3, <1>4, <2>1, <2>2, BecomesLate
<1> QED
  BY <1>6, <1>7, <1>8

\* The application is started anew, with what was saved.
LEMMA LockedStep ==
  ASSUME AndroidInv, Locked, {clicks, drawn}' \subseteq Nat,
         sent' \in SUBSET Message, torn' \subseteq Nat,
         disk # NoVault => Behind(disk.convs, sent, drawn, torn)', Once(sent, drawn)'
  PROVE  AndroidInv'
<1>1. /\ mem' = NoVault /\ app' = NewApp(disk) /\ inq' = <<>> /\ boot' = "none"
      /\ kills' = kills + 1 /\ frames' = frames /\ disk' = disk /\ heard' = heard
      /\ unsaved' = {}
  BY DEF Locked
<1>2. Around /\ heard \in SUBSET Nat
  BY TypeParts
<1>3. /\ app' \in App /\ app'.screen = "Passphrase" /\ app'.tab = "Contacts"
      /\ ~app'.up /\ app'.pending = <<>> /\ (app'.isNew <=> disk = NoVault)
  BY <1>1, Started
<1>4. TypeOK'
  <2>1. \A v \in {mem', disk'} \ {NoVault} :
          /\ v \in Vault /\ v.opks \subseteq 1..v.last
          /\ IF v.keys THEN Cardinality(v.opks) > OpkThreshold ELSE v.opks = {}
    BY <1>1 DEF AndroidInv, TypeOK
  <2>2. Len(app'.pending) <= MaxPending
    BY <1>3, AndroidConstants
  <2>3. inq' \in Seq(Received)
    BY <1>1, EmptySeq
  <2>4. {clicks, frames, drawn, kills}' \subseteq Nat
    BY <1>1, <1>2 DEF Around
  <2>5. sent' \subseteq [sess : Session, text : Nat] /\ torn' \subseteq Nat /\ heard' \subseteq Nat
    BY <1>1, <1>2 DEF Message
  <2> QED
    BY <1>1, <1>3, <2>1, <2>2, <2>3, <2>4, <2>5 DEF TypeOK
<1>5. Closed'
  <2>1. kills' # 0
    BY <1>1, <1>2 DEF Around
  <2> QED
    BY <1>1, <1>3, <2>1 DEF Closed
<1> QED
  BY <1>1, <1>4, <1>5 DEF AndroidInv

\* A killed application has lost what it had not saved; a message that may have
\* gone out before its save leaves its session torn.
LEMMA KillStep ==
  ASSUME AndroidInv
  PROVE  /\ Kill => AndroidInv'
         /\ KillSending => AndroidInv'
<1>1. Around /\ sent \in SUBSET Message /\ heard \in SUBSET Nat /\ drawn \in Nat
      /\ unsaved \in SUBSET Nat
  BY TypeParts
<1>2. ASSUME Kill PROVE AndroidInv'
  <2>1. /\ disk # NoVault => Behind(disk.convs, sent, drawn, torn \cup unsaved)
        /\ Once(sent, drawn)
    <3>1. CASE mem = NoVault
      BY <3>1, BehindWeakens DEF AndroidInv, Closed
    <3>2. CASE mem # NoVault
      BY <3>2, NowFields DEF AndroidInv, Good, Sane, Holds
    <3> QED
      BY <3>1, <3>2
  <2>2. Locked /\ UNCHANGED <<clicks, drawn, sent>> /\ disk' = disk /\ torn' = torn \cup unsaved
    BY <1>2 DEF Kill, Locked
  <2>3. disk # NoVault => Behind(disk.convs, sent, drawn, torn)'
    BY <2>1, <2>2 DEF Behind, Live
  <2>4. Once(sent, drawn)'
    BY <2>1, <2>2 DEF Once
  <2>5. {clicks, drawn}' \subseteq Nat /\ sent' \in SUBSET Message /\ torn' \subseteq Nat
    BY <1>1, <2>2 DEF Around
  <2> QED
    BY <2>2, <2>3, <2>4, <2>5, LockedStep
<1>3. ASSUME KillSending PROVE AndroidInv'
  <2> DEFINE id == SelectedId(Now)
             convs == Now.v.convs
             next == NextSession(Now)
             g == [sess |-> next, text |-> drawn + 1]
             k == drawn + 1
  <2>1. Ready = Now /\ Good(Now, drawn) /\ mem # NoVault
    <3>1. OnTab(Ready, "Conversation")
      BY <1>3 DEF KillSending
    <3> QED
      BY <3>1, Widgets, NowFields DEF OnTab, OnMain
  <2>2. MaySend(Now) /\ Locked /\ clicks' = clicks + 1 /\ drawn' = drawn + 1 /\ disk' = disk
    BY <1>3, <2>1 DEF KillSending, Locked
  <2>3. Now \in Work /\ convs \in [Id -> Conv] /\ Sane(Now, drawn)
    BY <2>1, WorkFields DEF Good, Sane, Holds
  <2>4. sent' = sent \cup {g} /\ torn' = torn \cup unsaved \cup {next.n}
    BY <1>3, <2>1, <2>3, NowFields DEF KillSending, HandedOver, Work
  <2>5. id \in Id
    BY <2>2, <2>3, Contacts DEF MaySend, Selected, SelectedId, Conversation
  <2>6. /\ Behind(convs, sent, drawn, torn) /\ Once(sent, drawn)
        /\ Behind(disk.convs, sent, drawn, torn \cup unsaved)
    BY <2>3, NowFields DEF Sane, Holds
  <2>7. next = Following(convs[id].sess, k)
    BY DEF NextSession, Following, Conversation
  <2>8. k \in Nat /\ drawn < k /\ drawn' = k
    BY <1>1, <2>2
  <2> HIDE DEF id, convs, next, k
  <2>9. Ahead(convs, sent, id, k, next)
    BY <1>1, <2>3, <2>5, <2>6, <2>7, <2>8, NextIsAhead
  <2>10. next \in Session /\ next.n \in Nat /\ next.n <= k
    BY <2>9 DEF Ahead, Session
  <2>11. g \in Message /\ g.sess = next
    BY <1>1, <2>10 DEF Message
  <2> HIDE DEF g
  <2>12. Once(sent, drawn)'
    <3>1. \A f \in sent : f.sess.n \in Nat /\ f.sess.n <= drawn
      BY <1>1, <2>6 DEF Once, Message, Session
    <3>2. \A f \in sent' : f.sess.n <= drawn'
      BY <1>1, <2>4, <2>8, <2>10, <2>11, <3>1
    <3>3. \A f, h \in sent' : f.sess = h.sess /\ f.sess.n \notin torn' => f = h
      <4>1. \A f \in sent' : f.sess.n \notin torn' => f \in sent /\ f.sess.n \notin torn
        BY <2>4, <2>11
      <4> QED
        BY <2>6, <4>1 DEF Once
    <3> QED
      BY <3>2, <3>3 DEF Once
  <2>13. Behind(disk.convs, sent, drawn, torn)'
    <3> DEFINE d == disk.convs
    <3>1. d \in [Id -> Conv] /\ d' = d
      <4>1. disk \in Now.d
        BY NowFields
      <4> QED
        BY <2>2, <2>3, <4>1, WorkFields
    <3>2. Live(d)' = Live(d)
      BY <3>1 DEF Live
    <3> HIDE DEF d
    <3>3. \A jd \in Live(d) : d[jd].sess.n \in Nat
      BY <3>1, LiveSessions
    <3>4. \A jd \in Live(d) : d[jd].sess.n <= drawn
      BY <2>6 DEF Behind, d
    <3>5. \A jd \in Live(d) : d[jd].sess.n <= drawn'
      BY <1>1, <2>8, <3>3, <3>4
    <3>6. \A jd \in Live(d) : \A f \in sent' :
            f.sess.n = d[jd].sess.n /\ f.sess.n \notin torn' => f.sess.pos <= d[jd].sess.pos
      <4>1. \A f \in sent' : f.sess.n \notin torn' => f \in sent /\ f.sess.n \notin torn \cup unsaved
        BY <2>4, <2>11
      <4> QED
        BY <2>6, <4>1 DEF Behind, d
    <3>7. \A jd, kd \in Live(d) : d[jd].sess.n = d[kd].sess.n => jd = kd
      BY <2>6 DEF Behind, d
    <3> QED
      BY <3>1, <3>2, <3>5, <3>6, <3>7 DEF Behind, d
  <2>14. {clicks, drawn}' \subseteq Nat /\ sent' \in SUBSET Message /\ torn' \subseteq Nat
    <3>1. {clicks, drawn}' \subseteq Nat
      BY <1>1, <2>2, <2>8 DEF Around
    <3>2. sent' \in SUBSET Message
      BY <1>1, <2>4, <2>11
    <3>3. torn' \subseteq Nat
      BY <1>1, <2>4, <2>10 DEF Around
    <3> QED
      BY <3>1, <3>2, <3>3
  <2> QED
    BY <2>2, <2>12, <2>13, <2>14, LockedStep
<1> QED
  BY <1>2, <1>3

\* The frames of peers have lengths.
LEMMA Lengths ==
  /\ DataLen(484) \in Nat /\ CertificateLen(0, TRUE) \in Nat /\ CertificateLen(0, FALSE) \in Nat
  /\ RefreshLen(OpkBatch) \in Nat
  /\ HandshakeLen(40, TRUE) \in Nat /\ HandshakeLen(40, FALSE) \in Nat
<1>1. \A n \in Nat : IntLen(n) \in Nat
  BY DEF IntLen
<1>2. \A n \in Nat : VecLen(n) \in Nat
  BY <1>1 DEF VecLen
<1>3. \A n \in Nat : WireLen(n) \in Nat
  BY <1>2 DEF WireLen, KeyLen
<1>4. \A n \in Nat : SealLen(n) \in Nat
  BY DEF SealLen
<1>5. \A n \in Nat : ArraysLen(KeyLen, n) \in Nat
  BY <1>1 DEF ArraysLen, KeyLen
<1>6. \A n \in Nat : ArraysLen(n, KeyLen) \in Nat /\ ArraysLen(n, 4) \in Nat
  BY <1>1 DEF ArraysLen, KeyLen
<1>7. BundleLen(0) \in Nat
  BY <1>2, <1>6 DEF BundleLen, KeyLen, OnionLen
<1>8. SignatureLen \in Nat
  BY <1>2 DEF SignatureLen
<1>9. DataLen(484) \in Nat
  <2>1. Padded(SealLen(484)) = 512
    BY DEF Padded, SealLen, MaxPayload, BlockSize
  <2> QED
    BY <1>3, <2>1 DEF DataLen
<1>10. CertificateLen(0, TRUE) \in Nat /\ CertificateLen(0, FALSE) \in Nat
  <2> DEFINE x == 1 + VecLen(79) + KeyLen + 1 + IntLen(0) + (1 + BundleLen(0)) + SignatureLen
             y == 1 + VecLen(79) + KeyLen + 1 + IntLen(0) + 1 + SignatureLen
  <2>1. x \in Nat /\ y \in Nat
    BY <1>1, <1>2, <1>7, <1>8 DEF KeyLen
  <2>2. CertificateLen(0, TRUE) = WireLen(x) /\ CertificateLen(0, FALSE) = WireLen(y)
    BY DEF CertificateLen
  <2> QED
    BY <1>3, <2>1, <2>2
<1>11. RefreshLen(OpkBatch) \in Nat
  <2>1. OpkBatch \in Nat
    BY AndroidConstants
  <2>2. KeyLen + ArraysLen(OpkBatch, KeyLen) + ArraysLen(OpkBatch, 4) + SignatureLen \in Nat
    BY <1>6, <1>8, <2>1 DEF KeyLen
  <2> QED
    BY <1>3, <2>2 DEF RefreshLen
<1>12. HandshakeLen(40, TRUE) \in Nat /\ HandshakeLen(40, FALSE) \in Nat
  <2> DEFINE x == BundleLen(0) + KeyLen + VecLen(1088) + VecLen(SealLen(40)) + KeyLen
  <2>1. x \in Nat /\ x + (1 + 4) \in Nat /\ x + 1 \in Nat
    BY <1>2, <1>4, <1>7 DEF KeyLen
  <2>2. HandshakeLen(40, TRUE) = WireLen(x + (1 + 4)) /\ HandshakeLen(40, FALSE) = WireLen(x + 1)
    BY DEF HandshakeLen
  <2> HIDE DEF x
  <2> QED
    BY <1>3, <2>1, <2>2
<1> QED
  BY <1>9, <1>10, <1>11, <1>12

\* What happens beside update.
LEMMA BackgroundStep ==
  ASSUME AndroidInv
  PROVE  /\ \A result \in {"ok", "failed"} : Boot(result) => AndroidInv'
         /\ \A p \in Peer : \A m \in Inbound(p) : Arrive(m) => AndroidInv'
<1>1. Around
  BY TypeParts
<1>2. boot # "none" => mem # NoVault
  BY Widgets
<1>3. ASSUME NEW result \in {"ok", "failed"}, Boot(result) PROVE AndroidInv'
  <2>1. /\ UNCHANGED <<mem, disk, app, drawn, sent, unsaved, torn, heard, kills>>
        /\ boot = "running" /\ Around'
    BY <1>1, <1>3 DEF Boot, Around
  <2> QED
    BY <1>2, <2>1, Outside
<1>4. ASSUME NEW p \in Peer, NEW m \in Inbound(p), Arrive(m) PROVE AndroidInv'
  <2> DEFINE r == [m EXCEPT !.n = frames + 1]
  <2>1. /\ UNCHANGED <<mem, disk, app, drawn, sent, unsaved, torn, heard, kills>>
        /\ boot = "ok" /\ boot' = boot /\ clicks' = clicks
        /\ frames' = frames + 1 /\ inq' = Append(inq, r)
    BY <1>4 DEF Arrive
  <2>2. m \in Received
    <3> DEFINE Ids == (Peer \X {"us", "code", "request"}) \cup {None}
               Opks == (IF mem = NoVault THEN {} ELSE 1..mem.last) \cup {NoOpk}
               Whose == {"us"} \cup (IF IdsAgree THEN {"code", "request"} ELSE {})
    <3>1. None \in Ids /\ \A whose \in Whose : <<p, whose>> \in Ids
      OBVIOUS
    <3>2. ASSUME NEW type \in {"Data", "Rotation", "Retirement", "OpkRefresh", "Handshake"},
                 NEW opk \in Nat \cup {NoOpk}, NEW jd \in Ids, NEW len \in Nat
          PROVE  Frame(type, p, opk, jd, len) \in Received
      BY DEF Frame, Received
    <3>3. \A opk \in Opks : opk \in Nat \cup {NoOpk}
      <4>1. mem # NoVault => mem.last \in Nat
        BY DEF AndroidInv, TypeOK, Vault
      <4> QED
        BY <4>1
    <3>4. \/ \E whose \in Whose :
               m = Frame("Data", p, NoOpk, <<p, whose>>, DataLen(484))
          \/ m = Frame("Rotation", p, NoOpk, None, CertificateLen(0, TRUE))
          \/ m = Frame("Retirement", p, NoOpk, None, CertificateLen(0, FALSE))
          \/ m = Frame("OpkRefresh", p, NoOpk, None, RefreshLen(OpkBatch))
          \/ \E opk \in Opks :
               m = Frame("Handshake", p, opk, None, HandshakeLen(40, opk # NoOpk))
      <4> DEFINE A == {Frame("Data", p, NoOpk, <<p, whose>>, DataLen(484)) : whose \in Whose}
                 B == {Frame("Rotation", p, NoOpk, None, CertificateLen(0, TRUE)),
                       Frame("Retirement", p, NoOpk, None, CertificateLen(0, FALSE)),
                       Frame("OpkRefresh", p, NoOpk, None, RefreshLen(OpkBatch))}
                 C == {Frame("Handshake", p, opk, None, HandshakeLen(40, opk # NoOpk)) :
                         opk \in Opks}
      <4>1. Inbound(p) = A \cup B \cup C
        BY DEF Inbound
      <4>2. m \in A => \E whose \in Whose :
              m = Frame("Data", p, NoOpk, <<p, whose>>, DataLen(484))
        OBVIOUS
      <4>3. m \in C => \E opk \in Opks :
              m = Frame("Handshake", p, opk, None, HandshakeLen(40, opk # NoOpk))
        OBVIOUS
      <4> HIDE DEF A, C, Whose, Opks
      <4> QED
        BY <4>1, <4>2, <4>3
    <3> HIDE DEF Ids, Opks, Whose
    <3>5. ASSUME NEW whose \in Whose,
                 m = Frame("Data", p, NoOpk, <<p, whose>>, DataLen(484))
          PROVE  m \in Received
      <4> DEFINE id == <<p, whose>>
      <4> DEFINE len == DataLen(484)
      <4>1. len \in Nat
        BY Lengths
      <4>2. id \in Ids
        BY <3>1
      <4> HIDE DEF len, id
      <4>3. Frame("Data", p, NoOpk, id, len) \in Received
        BY <3>2, <4>1, <4>2
      <4> QED
        BY <3>5, <4>3 DEF len, id
    <3>6. ASSUME NEW opk \in Opks,
                 m = Frame("Handshake", p, opk, None, HandshakeLen(40, opk # NoOpk))
          PROVE  m \in Received
      <4>1. HandshakeLen(40, opk # NoOpk) \in Nat
        BY Lengths
      <4> QED
        BY <3>1, <3>2, <3>3, <3>6, <4>1
    <3>7. /\ Frame("Rotation", p, NoOpk, None, CertificateLen(0, TRUE)) \in Received
          /\ Frame("Retirement", p, NoOpk, None, CertificateLen(0, FALSE)) \in Received
          /\ Frame("OpkRefresh", p, NoOpk, None, RefreshLen(OpkBatch)) \in Received
      BY <3>1, <3>2, Lengths
    <3> QED
      BY <3>4, <3>5, <3>6, <3>7
  <2>3. frames + 1 \in Nat
    BY <1>1 DEF Around
  <2>4. r \in Received
    BY <2>2, <2>3 DEF Received
  <2> HIDE DEF r
  <2>5. Around'
    BY <1>1, <2>1, <2>3, <2>4, AppendProperties DEF Around
  <2> QED
    BY <1>2, <2>1, <2>5, Outside
<1> QED
  BY <1>3, <1>4

-----------------------------------------------------------------------------
(* Theorems.                                                               *)

\* Nothing Op4App::update or the background does, and no kill, breaks the invariant.
THEOREM Invariance == Spec => []AndroidInv
<1>1. AndroidInv /\ [Next]_vars => AndroidInv'
  <2> SUFFICES ASSUME AndroidInv, [Next]_vars PROVE AndroidInv'
    OBVIOUS
  <2>1. CASE TakeTransport \/ HandleFrame \/ Idle
    BY <2>1, PollingStep
  <2>2. CASE Unlock \/ UnlockDuress \/ Create
    BY <2>2, PassphraseStep
  <2>3. CASE VisitSettings \/ \E t \in {"Contacts", "Conversation"} : Tab(t)
    BY <2>3, TabStep
  <2>4. CASE Verify \/ Delete \/ Reject \/ \E i \in 1..MaxContacts : Select(i)
    BY <2>4, SelectStep
  <2>5. CASE Accept \/ \E p \in Peer : AddByCode(p)
    BY <2>5, AddStep
  <2>6. CASE AlertAccept \/ AlertReject
    BY <2>6, AlertStep
  <2>7. CASE \E room \in BOOLEAN : Send(room)
    BY <2>7, SendStep
  <2>8. CASE Kill \/ KillSending
    BY <2>8, KillStep
  <2>9. CASE \/ \E result \in {"ok", "failed"} : Boot(result)
             \/ \E p \in Peer : \E m \in Inbound(p) : Arrive(m)
    BY <2>9, BackgroundStep
  <2>10. CASE UNCHANGED vars
    <3>1. /\ UNCHANGED <<mem, disk, app, drawn, sent, unsaved, torn, heard, kills>>
          /\ Around' /\ boot' = boot /\ inq' = inq
      BY <2>10, TypeParts DEF vars, Around
    <3>2. mem = NoVault => boot = "none" /\ inq = <<>>
      BY DEF AndroidInv, Closed
    <3> QED
      BY <3>1, <3>2, Outside
  <2> QED
    BY <2>1, <2>2, <2>3, <2>4, <2>5, <2>6, <2>7, <2>8, <2>9, <2>10 DEF Next, User
<1> QED
  BY <1>1, Initially, PTL DEF Spec

\* The state of the application has its type: among others, the queue of requests
\* keeps its limit, and the stock of prekeys stays above its threshold in memory and on
\* disk in a vault that got keys, which a first run cut short by a kill or a failing
\* save leaves without.
THEOREM TypesCorrect == Spec => []TypeOK
<1>1. AndroidInv => TypeOK
  BY DEF AndroidInv
<1> QED
  BY <1>1, Invariance, PTL

\* No position of a session is handed over for two messages, whatever saves fail and
\* whenever the application is killed, but in a session that was sent in and not saved
\* successfully between the send and a kill (send_message).
THEOREM PositionsSentOnce == Spec => []PositionSentOnce
<1>1. AndroidInv => PositionSentOnce
  <2> SUFFICES ASSUME AndroidInv PROVE PositionSentOnce
    OBVIOUS
  <2>1. Once(sent, drawn)
    <3>1. CASE mem = NoVault
      BY <3>1 DEF AndroidInv, Closed
    <3>2. CASE mem # NoVault
      BY <3>2, NowFields DEF AndroidInv, Good, Sane, Holds
    <3> QED
      BY <3>1, <3>2
  <2> QED
    BY <2>1 DEF Once, PositionSentOnce
<1> QED
  BY <1>1, Invariance, PTL

\* The messages under the name of a contact are its own and up to date, but under a
\* second entry of the same contact, however selections, tabs,
\* deletions and arriving messages follow each other.
THEOREM ShownIsTheirs == Spec => []ShownIsCurrent
<1>1. AndroidInv => ShownIsCurrent
  <2> SUFFICES ASSUME AndroidInv, mem # NoVault, OnTab(Now, "Conversation"), Selected(Now),
                      \A i \in 1..app.sel - 1 : mem.contacts[i] # SelectedId(Now)
               PROVE  app.shown = Conversation(mem, SelectedId(Now)).log
    BY DEF ShownIsCurrent
  <2>1. Fresh(Now) /\ Foremost(Now)
    BY NowFields DEF AndroidInv, Good, Foremost
  <2> QED
    BY <2>1, NowFields DEF Fresh, Conversation
<1> QED
  BY <1>1, Invariance, PTL

\* Unless the application was killed, each prekey that is gone served a request
\* that reached the user.
THEOREM PrekeysServe == Spec => []PrekeySpentOnRequest
<1>1. AndroidInv => PrekeySpentOnRequest
  BY NowFields DEF AndroidInv, Good, Sane, Holds, PrekeySpentOnRequest
<1> QED
  BY <1>1, Invariance, PTL
=============================================================================
