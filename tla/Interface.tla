----------------------------- MODULE Interface -----------------------------
(***************************************************************************)
(* The interface of the terminal client (op4-tui/src/ui/app.rs): one loop  *)
(* that loads the conversation at hand, draws, handles at most one key and *)
(* then whatever has arrived.  The interface keeps positions in the list   *)
(* of contacts, and the list changes under them.                           *)
(*                                                                         *)
(* A conversation is the number of its messages; what is on the screen is  *)
(* the first n messages of one.  Positions count from 1, and NoPos is      *)
(* None.  A typed text is either there or not; what a code typed into the  *)
(* popup says is chosen when Enter is pressed.  Nothing here is about      *)
(* crashes: every change of the list is saved at once (module Session).    *)
(***************************************************************************)
EXTENDS Naturals, Sequences, SequencesExt, FiniteSets

CONSTANTS
  Peer,
  None,
  MaxPending,     \* MAX_PENDING_HANDSHAKES
  MaxKey,         \* bound: how often a peer rotates its keys
  MaxContacts,    \* bound: entries of the list
  MaxMessages,    \* bound: messages of a conversation
  MaxEvents       \* bound: keys and arrivals

ASSUME InterfaceConstants ==
  /\ MaxPending \in Nat \ {0} /\ MaxKey \in Nat
  /\ MaxContacts \in Nat /\ MaxContacts >= 2   \* those of an earlier session
  /\ MaxMessages \in Nat \ {0} /\ MaxEvents \in Nat

VARIABLES
  contacts,    \* payload.contacts
  convs,       \* how many messages each conversation has, and its unread_count
  settings,    \* payload.settings
  ui,          \* AppState
  phase,       \* where the loop is
  events,      \* bounds keys and arrivals
  moved,       \* history: the list changed since a conversation was last loaded
  displaced,   \* history: an arrival changed which contact is current
  interrupted, \* history: an arrival chose the recipient of the draft anew
  draftFor,    \* history: the contact that was shown when the draft was begun
  seen         \* history: how much of each conversation has been in the message pane

vars == <<contacts, convs, settings, ui, phase, events, moved, displaced, interrupted, draftFor, seen>>
history == <<moved, displaced, interrupted, draftFor, seen>>

\* The hash of a bundle as it was added: from a code or a request.
Id == [who : Peer, key : 0..MaxKey, via : {"code", "request"}]
Contact == [who : Peer, key : 0..MaxKey, id : Id, verified : BOOLEAN, seq : 0..MaxKey + 1]
Request == [who : Peer, key : 0..MaxKey]

\* None is no contact, and no content of the pane.
ASSUME NoneIsNothing == None \notin Id /\ None \notin [id : Id, n : Nat]

NoPos == 0
Pos == NoPos..MaxContacts
NumSettings == 7

Tabs == {"Contacts", "Conversation", "Settings"}
Modes == {"List", "Fingerprint", "AddContact", "ExportCode", "KeyAlert", "PendingRequest"}
Edits == {"None", "EditTorAddr", "EditNymGateway", "EditAutoDelete",
          "ConfirmRotate", "ConfirmRevoke"}
Ui == [tab : Tabs, mode : Modes, selected : Pos, active : Pos, loaded : Pos,
       messages : [id : Id, n : Nat] \cup {None}, draft : BOOLEAN, search : BOOLEAN,
       alert : Id \cup {None}, pending : Seq(Request), named : BOOLEAN,
       asked : Seq(Request), row : 1..NumSettings, edit : Edits, running : BOOLEAN]

NewContact(who, key, via) ==
  [who |-> who, key |-> key, id |-> [who |-> who, key |-> key, via |-> via],
   verified |-> FALSE, seq |-> 0]

\* AppState::new
NewUi ==
  [tab |-> "Contacts", mode |-> "List", selected |-> 1, active |-> NoPos, loaded |-> NoPos,
   messages |-> None, draft |-> FALSE, search |-> FALSE, alert |-> None, pending |-> <<>>,
   named |-> FALSE, asked |-> <<>>, row |-> 1, edit |-> "None", running |-> TRUE]

\* Any vault of an earlier session: contacts by code, some with messages.
Init ==
  /\ contacts \in {[i \in DOMAIN s |-> NewContact(s[i], 0, "code")] : s \in SeqOf(Peer, 2)}
  /\ IsInjective(contacts)
  /\ \E some \in SUBSET {c.id : c \in Range(contacts)} :
       convs = [id \in Id |-> IF id \in some THEN [n |-> 1, unread |-> 1]
                              ELSE [n |-> 0, unread |-> 0]]
  /\ settings = [tor |-> "default", gateway |-> None, autoDelete |-> None]
  /\ ui = NewUi
  /\ phase = "draw" /\ events = 0
  /\ moved = FALSE /\ displaced = FALSE /\ interrupted = FALSE /\ draftFor = None
  /\ seen = [id \in Id |-> 0]

-----------------------------------------------------------------------------
(* Positions.                                                              *)

Or(p, q) == IF p # NoPos THEN p ELSE q
InList(p) == p \in DOMAIN contacts
IdAt(p) == IF InList(p) THEN contacts[p].id ELSE None

\* The contact whose name is drawn, and to which a message would go.
Current == Or(ui.active, ui.selected)

\* draw(): an alert covers everything.
Screen == IF ui.mode = "KeyAlert" /\ ui.alert # None THEN "Alert" ELSE ui.tab

\* The first contact of which Test holds.
First(Test(_)) == SelectInSubSeq(contacts, 1, Len(contacts), Test)

-----------------------------------------------------------------------------
(* The loop of run().                                                      *)

Shown(id) == [id |-> id, n |-> convs[id].n]

\* Mutant: nothing is loaded when the selection moves.
LoadNot == FALSE

\* The position differs from the one that was loaded.
MustLoad == Current # ui.loaded

\* Load the conversation, clear its badge, and draw.
Draw ==
  /\ phase = "draw" /\ phase' = "key"
  /\ LET id == IdAt(Current)
         now == IF MustLoad THEN IF id = None THEN None ELSE Shown(id) ELSE ui.messages
     IN  /\ ui' = [ui EXCEPT !.messages = now, !.loaded = Current]
         /\ convs' = IF MustLoad /\ id # None THEN [convs EXCEPT ![id].unread = 0] ELSE convs
         /\ seen' = IF now # None THEN [seen EXCEPT ![now.id] = now.n] ELSE seen
         /\ moved' = (moved /\ ~MustLoad)
  /\ UNCHANGED <<contacts, settings, events, interrupted, draftFor, displaced>>

NoKey ==
  /\ phase = "key" /\ phase' = "inbound"
  /\ UNCHANGED <<contacts, convs, settings, ui, events, history>>

\* Nothing more has arrived: the next turn, unless the user has quit.
LoopAgain ==
  /\ phase = "inbound" /\ phase' = IF ui.running THEN "draw" ELSE "ended"
  /\ UNCHANGED <<contacts, convs, settings, ui, events, history>>

Event == events < MaxEvents /\ events' = events + 1

\* A key is read, after which arrivals are handled.
Key == phase = "key" /\ phase' = "inbound" /\ Event
KeyIn(tab) == Key /\ ui.mode # "KeyAlert" /\ ui.tab = tab

\* A key that changes the interface only.
SetUi(new) ==
  /\ ui' = new
  /\ interrupted' = (interrupted /\ new.draft)
  /\ UNCHANGED <<contacts, convs, settings, moved, draftFor, seen, displaced>>

\* Ctrl-C, and 'q' where it quits.
Quit ==
  /\ Key
  /\ SetUi([ui EXCEPT !.running = FALSE])

-----------------------------------------------------------------------------
(* Changes of the list.                                                    *)

Add(c) == Len(contacts) < MaxContacts /\ contacts' = Append(contacts, c)
RemoveContact(p) == contacts' = RemoveAt(contacts, p)
Verify(p) ==
  contacts' = IF InList(p) THEN [contacts EXCEPT ![p].verified = TRUE] ELSE contacts

\* handle_key_alert: it acts on the contact that is selected.
AlertVerify ==
  /\ Key /\ ui.mode = "KeyAlert"
  /\ Verify(Or(ui.selected, 1))
  /\ ui' = [ui EXCEPT !.alert = None, !.mode = "List"]
  /\ UNCHANGED <<convs, settings, history>>

AlertReject ==
  /\ Key /\ ui.mode = "KeyAlert"
  /\ InList(Or(ui.selected, 1))
  /\ RemoveContact(Or(ui.selected, 1))
  /\ ui' = [ui EXCEPT !.selected = 1, !.alert = None, !.mode = "List"]
  /\ moved' = TRUE
  /\ UNCHANGED <<convs, settings, interrupted, draftFor, seen, displaced>>

\* Vec::remove panics past the end of the list.
AlertRejectPanics ==
  /\ Key /\ ui.mode = "KeyAlert"
  /\ ~InList(Or(ui.selected, 1))
  /\ SetUi([ui EXCEPT !.running = FALSE])

-----------------------------------------------------------------------------
(* handle_contacts_key.                                                    *)

Browsing == KeyIn("Contacts") /\ ui.mode \in {"List", "Fingerprint"}

\* One up or down in a list of n, round its ends.
Up(p, n) == IF Or(p, 1) = 1 THEN n ELSE p - 1

\* Mutant: nothing keeps the selection in the list.
DownUnbounded(p, n) == Or(p, 1) + 1

Down(p, n) == 1 + (Or(p, 1) % n)

SelectContact ==
  /\ Browsing /\ contacts # <<>>
  /\ \E p \in {Up(ui.selected, Len(contacts)), Down(ui.selected, Len(contacts))} :
       SetUi([ui EXCEPT !.selected = p])

\* Enter, Esc, 'a', 'e', and 'p' if there is a request.
ChooseMode ==
  /\ Browsing
  /\ \E m \in Modes \ {"KeyAlert"} :
       /\ m = "PendingRequest" => ui.pending # <<>>
       /\ SetUi([ui EXCEPT !.mode = m, !.named = @ /\ m # "PendingRequest"])

VerifySelected ==
  /\ Browsing
  /\ Verify(ui.selected)
  /\ UNCHANGED <<ui, convs, settings, history>>

\* What is selected after 'd'.
AfterDelete == IF ui.selected < Len(contacts) THEN ui.selected ELSE Len(contacts) - 1

\* 'd' sets neither the active nor the loaded position.
DeleteSelected ==
  /\ Browsing /\ InList(ui.selected)
  /\ RemoveContact(ui.selected)
  /\ ui' = [ui EXCEPT !.selected = AfterDelete]
  /\ moved' = TRUE
  /\ UNCHANGED <<convs, settings, interrupted, draftFor, seen, displaced>>

\* '2' makes the selected contact the active one.
OpenConversation ==
  /\ Browsing
  /\ SetUi([ui EXCEPT !.active = ui.selected, !.tab = "Conversation"])

ToSettings ==
  /\ Browsing
  /\ SetUi([ui EXCEPT !.tab = "Settings"])

\* The popup that shows the own code.
CloseExport ==
  /\ KeyIn("Contacts") /\ ui.mode = "ExportCode"
  /\ SetUi([ui EXCEPT !.mode = "List"])

Adding == KeyIn("Contacts") /\ ui.mode = "AddContact"

\* Esc, or a code that cannot be read.
AddNothing ==
  /\ Adding
  /\ SetUi([ui EXCEPT !.mode = "List"])

\* A contact code, also of a contact that is there already.
AddByCode(w, k) ==
  /\ Adding
  /\ Add(NewContact(w, k, "code"))
  /\ ui' = [ui EXCEPT !.selected = Len(contacts) + 1, !.mode = "List"]
  /\ moved' = TRUE
  /\ UNCHANGED <<convs, settings, interrupted, draftFor, seen, displaced>>

\* A bootstrap code: the bundle is asked for.
AddByBootstrap(w, k) ==
  /\ Adding
  /\ SetUi([ui EXCEPT !.asked = Append(@, [who |-> w, key |-> k]), !.mode = "List"])

Reviewing == KeyIn("Contacts") /\ ui.mode = "PendingRequest"

TypeName ==
  /\ Reviewing
  /\ \E some \in BOOLEAN : SetUi([ui EXCEPT !.named = some])

\* Esc drops the oldest request.
Reject == [ui EXCEPT !.pending = Tail(@), !.named = FALSE, !.mode = "List"]

RejectRequest ==
  /\ Reviewing /\ ui.pending # <<>>
  /\ SetUi(Reject)

\* accept_pending_handshake: the conversation is made to hold the one message
\* that the popup showed, whatever was in it.
AcceptRequest ==
  /\ Reviewing /\ ui.named /\ ui.pending # <<>>
  /\ LET r == Head(ui.pending)
         c == NewContact(r.who, r.key, "request")
     IN  /\ Add(c)
         /\ convs' = [convs EXCEPT ![c.id].n = 1]
         /\ seen' = [seen EXCEPT ![c.id] = 1]
  /\ ui' = [Reject EXCEPT !.selected = Len(contacts) + 1]
  /\ moved' = TRUE
  /\ UNCHANGED <<settings, interrupted, draftFor, displaced>>

-----------------------------------------------------------------------------
(* handle_conversation_key.                                                *)

\* In search mode every key but Esc edits the query.
LeaveSearch ==
  /\ KeyIn("Conversation") /\ ui.search
  /\ SetUi([ui EXCEPT !.search = FALSE])

Composing == KeyIn("Conversation") /\ ~ui.search

EnterSearch ==
  /\ Composing
  /\ SetUi([ui EXCEPT !.search = TRUE])

\* A character is typed.
TypeDraft ==
  /\ Composing
  /\ ui' = [ui EXCEPT !.draft = TRUE]
  /\ draftFor' = IF ui.draft THEN draftFor ELSE IdAt(Current)
  /\ UNCHANGED <<contacts, convs, settings, moved, interrupted, seen, displaced>>

\* Esc, or Backspace down to nothing.
ClearDraft ==
  /\ Composing /\ ui.draft
  /\ SetUi([ui EXCEPT !.draft = FALSE])

\* Mutant: a draft does not keep the user in the tab.
MayLeaveAlways == TRUE

MayLeave == ~ui.draft

\* Esc and Tab.
LeaveConversation ==
  /\ Composing /\ MayLeave
  /\ \E t \in {"Contacts", "Settings"} : SetUi([ui EXCEPT !.tab = t])

\* send_message, where the session allows it (module Session).
Send ==
  /\ Composing /\ ui.draft /\ InList(Current)
  /\ LET id == IdAt(Current) IN
     /\ convs[id].n < MaxMessages
     /\ convs' = [convs EXCEPT ![id].n = @ + 1]
     /\ ui' = [ui EXCEPT !.draft = FALSE, !.messages = [id |-> id, n |-> convs[id].n + 1]]
  /\ interrupted' = FALSE
  /\ UNCHANGED <<contacts, settings, moved, draftFor, seen, displaced>>

\* There is no contact, or its session has no sending chain: the draft is lost.
SendFails ==
  /\ Composing /\ ui.draft
  /\ SetUi([ui EXCEPT !.draft = FALSE])

-----------------------------------------------------------------------------
(* handle_settings_key.                                                    *)

InSettings == KeyIn("Settings") /\ ui.edit = "None"

SelectSetting ==
  /\ InSettings
  /\ \E p \in {Up(ui.row, NumSettings), Down(ui.row, NumSettings)} :
       SetUi([ui EXCEPT !.row = p])

EditOf == <<"EditTorAddr", "EditNymGateway", "EditAutoDelete", "ConfirmRotate", "ConfirmRevoke">>

\* Enter: an edit, the own code in the other tab, or new Tor circuits.
ActivateSetting ==
  /\ InSettings
  /\ SetUi(CASE ui.row \in DOMAIN EditOf -> [ui EXCEPT !.edit = EditOf[ui.row]]
             [] ui.row = 6 -> [ui EXCEPT !.tab = "Contacts", !.mode = "ExportCode"]
             [] ui.row = 7 -> ui)

\* '1' and '2'; here '2' leaves the active contact as it is.
LeaveSettings ==
  /\ InSettings
  /\ \E t \in {"Contacts", "Conversation"} : SetUi([ui EXCEPT !.tab = t])

\* Esc, or the answer to a question (module Rotation).
EndEdit ==
  /\ KeyIn("Settings") /\ ui.edit # "None"
  /\ SetUi([ui EXCEPT !.edit = "None"])

\* Enter, with or without a text; without one the Tor address stays.
SaveEdit ==
  /\ KeyIn("Settings")
  /\ \E v \in {"typed", None} :
       \/ /\ ui.edit = "EditTorAddr"
          /\ settings' = IF v = None THEN settings ELSE [settings EXCEPT !.tor = v]
       \/ ui.edit = "EditNymGateway" /\ settings' = [settings EXCEPT !.gateway = v]
       \/ ui.edit = "EditAutoDelete" /\ settings' = [settings EXCEPT !.autoDelete = v]
  /\ ui' = [ui EXCEPT !.edit = "None"]
  /\ UNCHANGED <<contacts, convs, history>>

-----------------------------------------------------------------------------
(* What arrives: handle_incoming_message.                                  *)

Arrival == phase = "inbound" /\ UNCHANGED phase /\ Event

Known(w, k) == First(LAMBDA c : c.who = w /\ c.key = k)

\* Mutant: it is on the screen if its position was loaded.
OnScreenLoaded(id) == IdAt(ui.loaded) = id

\* "Update in-memory display if this is the active conversation."
OnScreen(id) == IdAt(Current) = id

\* A message of a known contact.
Deliver(w, k) ==
  /\ Arrival /\ Known(w, k) # 0
  /\ LET id == contacts[Known(w, k)].id
         more == [convs EXCEPT ![id].n = @ + 1]
     IN  /\ convs[id].n < MaxMessages
         /\ convs' = IF OnScreen(id) THEN more ELSE [more EXCEPT ![id].unread = @ + 1]
         /\ ui' = IF OnScreen(id)
                  THEN [ui EXCEPT !.messages = [id |-> id, n |-> more[id].n]] ELSE ui
  /\ UNCHANGED <<contacts, settings, history>>

\* A handshake of someone unknown: the oldest request makes room.
QueueRequest(w, k) ==
  /\ Arrival /\ Known(w, k) = 0
  /\ LET rest == IF Len(ui.pending) >= MaxPending THEN Tail(ui.pending) ELSE ui.pending IN
     ui' = [ui EXCEPT !.pending = Append(rest, [who |-> w, key |-> k])]
  /\ UNCHANGED <<contacts, convs, settings, history>>

\* handle_inbound_revocation.  A certificate for the contact's key k is numbered
\* k + 1 (module Rotation); it brings the next key, and an alert over all tabs.
InstallKey(w, k) ==
  /\ Arrival /\ Known(w, k) # 0 /\ k < MaxKey
  /\ LET p == Known(w, k) IN
     /\ k + 1 > contacts[p].seq
     /\ contacts' = [contacts EXCEPT ![p].key = k + 1, ![p].verified = FALSE, ![p].seq = k + 1]
     /\ ui' = [ui EXCEPT !.alert = contacts[p].id, !.mode = "KeyAlert", !.tab = "Contacts"]
  /\ interrupted' = ui.draft
  /\ UNCHANGED <<convs, settings, moved, draftFor, seen, displaced>>

\* Without a key the contact is removed, and every position stays.
RetireContact(w, k) ==
  /\ Arrival /\ Known(w, k) # 0
  /\ k + 1 > contacts[Known(w, k)].seq
  /\ RemoveContact(Known(w, k))
  /\ interrupted' = ui.draft /\ moved' = TRUE /\ displaced' = TRUE
  /\ UNCHANGED <<ui, convs, settings, draftFor, seen>>

\* handle_inbound_bundle_response: the new contact is selected.
ReceiveBundle(w, k) ==
  /\ Arrival /\ Contains(ui.asked, [who |-> w, key |-> k])
  /\ Add(NewContact(w, k, "code"))
  /\ ui' = [ui EXCEPT !.asked = RemoveFirst(@, [who |-> w, key |-> k]),
                      !.selected = Len(contacts) + 1]
  /\ interrupted' = ui.draft /\ moved' = TRUE /\ displaced' = TRUE
  /\ UNCHANGED <<convs, settings, draftFor, seen>>

-----------------------------------------------------------------------------
HandleKey ==
  \/ Quit \/ AlertVerify \/ AlertReject \/ AlertRejectPanics
  \/ SelectContact \/ ChooseMode \/ VerifySelected \/ DeleteSelected
  \/ OpenConversation \/ ToSettings \/ CloseExport
  \/ AddNothing \/ \E w \in Peer, k \in 0..MaxKey : AddByCode(w, k) \/ AddByBootstrap(w, k)
  \/ TypeName \/ RejectRequest \/ AcceptRequest
  \/ LeaveSearch \/ EnterSearch \/ TypeDraft \/ ClearDraft \/ LeaveConversation
  \/ Send \/ SendFails
  \/ SelectSetting \/ ActivateSetting \/ LeaveSettings \/ EndEdit \/ SaveEdit

HandleArrival ==
  \E w \in Peer, k \in 0..MaxKey :
    \/ Deliver(w, k) \/ QueueRequest(w, k) \/ InstallKey(w, k)
    \/ RetireContact(w, k) \/ ReceiveBundle(w, k)

Next == Draw \/ HandleKey \/ NoKey \/ HandleArrival \/ LoopAgain

Spec == Init /\ [][Next]_vars

-----------------------------------------------------------------------------
(* Properties.  The screen is what Draw left, until a key or an arrival.   *)

TypeOK ==
  /\ contacts \in Seq(Contact) /\ Len(contacts) <= MaxContacts
  /\ convs \in [Id -> [n : 0..MaxMessages, unread : Nat]]
  /\ ui \in Ui /\ Len(ui.pending) <= MaxPending
  /\ phase \in {"draw", "key", "inbound", "ended"}

\* A draft goes to the contact it was begun for, whatever keys the user presses:
\* only a certificate or a bundle that arrives while it is written changes that.
DraftKeepsRecipient ==
  ui.draft /\ ~interrupted => IdAt(Current) = draftFor

\* Unless the list changed since a conversation was loaded, what is in the pane
\* is the whole conversation with the contact it is titled with.
ShownIsCurrent ==
  phase = "key" /\ ~moved
  => ui.messages = IF InList(Current) THEN Shown(IdAt(Current)) ELSE None

\* A message that was never in the message pane is counted by the badge of its
\* conversation; only a certificate or a bundle that arrives in the same turn can
\* take it out again before anything is drawn.  (The pane is loaded, and the badge
\* cleared, as soon as a contact is selected, also while another tab hides it.)
UnseenIsCounted ==
  phase = "key" /\ ~displaced => \A id \in Id : convs[id].n <= seen[id] + convs[id].unread

\* "From the Contacts tab with a contact selected, press 2 [...] The conversation
\* for the selected contact opens."  At least no message of another one is then
\* in the pane, while only the user's own keys chose who is current.
ConversationOpens ==
  phase = "key" /\ Screen = "Conversation" /\ InList(Current) /\ ~displaced
    /\ ui.messages # None /\ ui.messages.n > 0
  => ui.messages.id = IdAt(Current)
=============================================================================
