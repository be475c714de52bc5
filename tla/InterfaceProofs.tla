--------------------------- MODULE InterfaceProofs ---------------------------
(***************************************************************************)
(* Proofs about Interface, for any peers and keys, lists and conversations *)
(* of any length, and any number of keys pressed and arrivals.             *)
(***************************************************************************)
EXTENDS Interface, SequenceTheorems, WellFoundedInduction, TLAPS

-----------------------------------------------------------------------------
(* Lists: the first position with a property, which is what                *)
(* Iterator::position returns, and Vec::remove at a position.              *)

\* A set of natural numbers that is not empty has a least element.
LEMMA LeastElement ==
  ASSUME NEW S \in SUBSET Nat, S # {}
  PROVE  Min(S) \in S /\ \A y \in S : Min(S) <= y
<1>1. IsWellFoundedOn(OpToRel(<, Nat), Nat)
  BY NatLessThanWellFounded
<1>2. PICK x \in S : \A y \in S : <<y, x>> \notin OpToRel(<, Nat)
  BY <1>1, WFMin
<1>3. ASSUME NEW y \in S  PROVE  x <= y
  <2>1. y < x => <<y, x>> \in {ss \in Nat \X Nat : ss[1] < ss[2]}
    OBVIOUS
  <2> QED
    BY <1>2, <2>1 DEF OpToRel
<1> QED
  BY <1>3 DEF Min

\* Removing an entry leaves the others, in their order.
LEMMA RemoveAtIsSeq ==
  ASSUME NEW S, NEW s \in Seq(S), NEW i \in 1..Len(s)
  PROVE  /\ RemoveAt(s, i) \in Seq(S) /\ Len(RemoveAt(s, i)) = Len(s) - 1
         /\ \A j \in 1..Len(s) - 1 : RemoveAt(s, i)[j] = IF j < i THEN s[j] ELSE s[j + 1]
<1>1. Len(s) \in Nat /\ \A j \in 1..Len(s) : s[j] \in S
  BY ElementOfSeq, LenProperties
<1> DEFINE a == SubSeq(s, 1, i - 1)
           b == SubSeq(s, i + 1, Len(s))
<1>2. a \in Seq(S) /\ Len(a) = i - 1 /\ \A j \in 1..i - 1 : a[j] = s[j]
  <2>1. \A j \in 1..(i - 1) : s[j] \in S
    BY <1>1
  <2>2. /\ a \in Seq(S) /\ Len(a) = IF 1 <= i - 1 THEN (i - 1) - 1 + 1 ELSE 0
        /\ \A j \in 1..(i - 1) - 1 + 1 : a[j] = s[1 + j - 1]
    BY <1>1, <2>1, SubSeqProperties
  <2> HIDE DEF a
  <2> QED
    BY <1>1, <2>2
<1>3. b \in Seq(S) /\ Len(b) = Len(s) - i /\ \A j \in 1..Len(s) - i : b[j] = s[i + j]
  <2>1. \A j \in (i + 1)..Len(s) : s[j] \in S
    BY <1>1
  <2>2. /\ b \in Seq(S) /\ Len(b) = IF i + 1 <= Len(s) THEN Len(s) - (i + 1) + 1 ELSE 0
        /\ \A j \in 1..Len(s) - (i + 1) + 1 : b[j] = s[(i + 1) + j - 1]
    BY <1>1, <2>1, SubSeqProperties
  <2> HIDE DEF b
  <2> QED
    BY <1>1, <2>2
<1>4. RemoveAt(s, i) = a \o b
  BY DEF RemoveAt
<1> HIDE DEF a, b
<1>5. /\ a \o b \in Seq(S) /\ Len(a \o b) = Len(a) + Len(b)
      /\ \A j \in 1..Len(a) + Len(b) : (a \o b)[j] = IF j <= Len(a) THEN a[j] ELSE b[j - Len(a)]
  BY <1>2, <1>3, ConcatProperties
<1>6. ASSUME NEW j \in 1..Len(s) - 1
      PROVE  (a \o b)[j] = IF j < i THEN s[j] ELSE s[j + 1]
  <2>1. CASE j < i
    BY <1>1, <1>2, <1>3, <1>5, <2>1
  <2>2. CASE j >= i
    <3>1. PICK k \in 1..Len(s) - i : k = j - (i - 1) /\ i + k = j + 1
      BY <1>1, <2>2
    <3>2. (a \o b)[j] = b[k]
      BY <1>1, <1>2, <1>3, <1>5, <2>2, <3>1
    <3>3. b[k] = s[j + 1]
      BY <1>3, <3>1
    <3> QED
      BY <2>2, <3>2, <3>3
  <2>3. j < i \/ j >= i
    BY <1>1
  <2> QED
    BY <2>1, <2>2, <2>3
<1> QED
  BY <1>1, <1>2, <1>3, <1>4, <1>5, <1>6

\* Removing a value leaves a list of the same kind.
LEMMA RemoveFirstIsSeq ==
  ASSUME NEW S, NEW s \in Seq(S), NEW e
  PROVE  RemoveFirst(s, e) \in Seq(S)
<1> DEFINE I == {i \in 1..Len(s) : s[i] = e}
           i == Min(I)
<1>1. CASE I = {}
  <2>1. RemoveFirst(s, e) = s
    BY <1>1 DEF RemoveFirst
  <2> QED
    BY <2>1
<1>2. CASE I # {}
  <2>1. I \in SUBSET Nat
    BY LenProperties
  <2>2. Min(I) \in I
    BY <1>2, <2>1, LeastElement
  <2>3. i \in 1..Len(s) /\ RemoveFirst(s, e) = RemoveAt(s, i)
    BY <1>2, <2>2 DEF RemoveFirst, SelectInSeq
  <2> HIDE DEF i
  <2> QED
    BY <2>3, RemoveAtIsSeq
<1> QED
  BY <1>1, <1>2

-----------------------------------------------------------------------------
Shape ==
  /\ TypeOK
  /\ moved \in BOOLEAN /\ displaced \in BOOLEAN /\ interrupted \in BOOLEAN
  /\ seen \in [Id -> Nat]

\* An alert covers the tab of contacts; while a draft is there and no arrival came
\* between, the tab is the one it is written in.
DraftInv ==
  /\ ui.mode = "KeyAlert" => ui.tab = "Contacts"
  /\ ui.draft /\ ~interrupted => ui.tab = "Conversation" /\ IdAt(Current) = draftFor

\* When a key is read the contact at hand was loaded; as long as it is the one that
\* was loaded, and the list is the same, every arrival has been added to the pane.
Whole == IF InList(Current) THEN Shown(IdAt(Current)) ELSE None
PaneInv ==
  /\ phase = "key" => ui.loaded = Current
  /\ ~moved /\ ui.loaded = Current => ui.messages = Whole

\* The next draw shows all of it.
Awaits(id) ==
  /\ phase # "key" /\ id = IdAt(Current)
  /\ ui.loaded = Current => ui.messages = Shown(id)

\* A contact from a request has a message, also in the pane.  What is in the pane,
\* be it outdated, is no less than what was in it before.
CountInv ==
  /\ \A c \in Range(contacts) : c.id.via = "request" => convs[c.id].n >= 1
  /\ ui.messages # None /\ ui.messages.id.via = "request" => ui.messages.n >= 1
  /\ ~displaced =>
       /\ \A id \in Id : convs[id].n <= seen[id] + convs[id].unread \/ Awaits(id)
       /\ ui.messages # None =>
            ui.messages.n >= seen[ui.messages.id] \/ Awaits(ui.messages.id)

InterfaceInv == Shape /\ DraftInv /\ PaneInv /\ CountInv

-----------------------------------------------------------------------------
(* The list and the positions in it.                                       *)

\* A position that names a contact is within the list, and the list within its bound.
LEMMA Positions ==
  ASSUME Shape
  PROVE  /\ DOMAIN contacts = 1..Len(contacts) /\ Len(contacts) \in 0..MaxContacts
         /\ Current \in Pos /\ ui.selected \in Pos /\ ui.active \in Pos
         /\ \A p \in DOMAIN contacts : contacts[p] \in Contact /\ IdAt(p) \in Id
         /\ \A p : IdAt(p) # None <=> InList(p)
<1>1. contacts \in Seq(Contact) /\ Len(contacts) <= MaxContacts /\ ui \in Ui /\ MaxContacts \in Nat
  BY InterfaceConstants DEF Shape, TypeOK
<1>2. Len(contacts) \in Nat /\ DOMAIN contacts = 1..Len(contacts)
  BY <1>1, LenProperties
<1>3. \A p \in DOMAIN contacts : contacts[p] \in Contact
  BY <1>1, <1>2, ElementOfSeq
<1>4. \A p \in DOMAIN contacts : contacts[p].id \in Id
  BY <1>3 DEF Contact
<1>5. \A p : IdAt(p) # None <=> InList(p)
  BY <1>4, NoneIsNothing DEF IdAt, InList
<1>6. \A p \in DOMAIN contacts : IdAt(p) \in Id
  BY <1>4 DEF IdAt, InList
<1>7. ui.selected \in Pos /\ ui.active \in Pos
  BY <1>1 DEF Ui
<1>8. Current \in Pos
  BY <1>7 DEF Current, Or
<1> QED
  BY <1>1, <1>2, <1>3, <1>5, <1>6, <1>7, <1>8

\* A search of the list finds an entry of it.
LEMMA KnownAt ==
  ASSUME Shape, NEW w \in Peer, NEW k \in 0..MaxKey, Known(w, k) # 0
  PROVE  Known(w, k) \in 1..Len(contacts)
<1> DEFINE I == {i \in 1..Len(contacts) : contacts[i].who = w /\ contacts[i].key = k}
<1>1. Known(w, k) = IF I # {} THEN Min(I) ELSE 0
  BY DEF Known, First, SelectInSubSeq
<1>2. I \in SUBSET Nat
  BY Positions
<1>3. Min(I) \in I
  BY <1>1, <1>2, LeastElement
<1> QED
  BY <1>1, <1>3

\* Taking an entry out of the list leaves entries of it.
LEMMA Removed ==
  ASSUME Shape, NEW p \in 1..Len(contacts), RemoveContact(p)
  PROVE  /\ contacts' \in Seq(Contact) /\ Len(contacts') = Len(contacts) - 1
         /\ Range(contacts') \subseteq Range(contacts)
<1>1. contacts \in Seq(Contact) /\ contacts' = RemoveAt(contacts, p)
  BY DEF Shape, TypeOK, RemoveContact
<1>2. /\ contacts' \in Seq(Contact) /\ Len(contacts') = Len(contacts) - 1
      /\ \A j \in 1..Len(contacts) - 1 :
           contacts'[j] = IF j < p THEN contacts[j] ELSE contacts[j + 1]
  BY <1>1, RemoveAtIsSeq
<1>3. DOMAIN contacts = 1..Len(contacts) /\ Len(contacts) \in Nat
  BY Positions
<1>4. DOMAIN contacts' = 1..Len(contacts) - 1
  BY <1>2, LenProperties
<1>5. ASSUME NEW c \in Range(contacts')  PROVE c \in Range(contacts)
  <2>1. PICK j \in 1..Len(contacts) - 1 : c = contacts'[j]
    BY <1>4 DEF Range
  <2>2. PICK i \in 1..Len(contacts) : c = contacts[i]
    BY <1>2, <1>3, <2>1
  <2> QED
    BY <1>3, <2>2 DEF Range
<1> QED
  BY <1>2, <1>5

\* Adding one puts it behind the others.
LEMMA Added ==
  ASSUME Shape, NEW c \in Contact, Add(c)
  PROVE  /\ contacts' \in Seq(Contact) /\ Len(contacts') <= MaxContacts
         /\ Len(contacts) + 1 \in Pos /\ Range(contacts') = Range(contacts) \cup {c}
<1>1. /\ contacts \in Seq(Contact) /\ Len(contacts) < MaxContacts /\ Len(contacts) \in Nat
      /\ contacts' = Append(contacts, c) /\ DOMAIN contacts = 1..Len(contacts)
  BY Positions DEF Shape, TypeOK, Add
<1>2. contacts' \in Seq(Contact) /\ Len(contacts') = Len(contacts) + 1
  BY <1>1
<1>3. DOMAIN contacts' = 1..Len(contacts) + 1
  BY <1>2, LenProperties
<1>4. contacts'[Len(contacts) + 1] = c /\ \A i \in 1..Len(contacts) : contacts'[i] = contacts[i]
  BY <1>1
<1>5. Range(contacts') = Range(contacts) \cup {c}
  BY <1>1, <1>3, <1>4 DEF Range
<1> QED
  BY <1>1, <1>2, <1>5, InterfaceConstants DEF Pos, NoPos

\* Where only the keys or marks of entries change, every position names whom it named.
SameIds ==
  /\ DOMAIN contacts' = DOMAIN contacts
  /\ \A i \in DOMAIN contacts : contacts'[i].id = contacts[i].id

\* Marking a contact as verified changes whom no position names.
LEMMA Verified ==
  ASSUME Shape, NEW p, Verify(p)
  PROVE  contacts' \in Seq(Contact) /\ Len(contacts') = Len(contacts) /\ SameIds
<1>1. contacts \in Seq(Contact)
  BY DEF Shape, TypeOK
<1>2. CASE ~InList(p)
  BY <1>1, <1>2 DEF Verify, SameIds
<1>3. CASE InList(p)
  <2> DEFINE c == [contacts[p] EXCEPT !.verified = TRUE]
  <2>1. p \in 1..Len(contacts) /\ contacts[p] \in Contact
    BY <1>3, Positions DEF InList
  <2>2. c \in Contact /\ c.id = contacts[p].id
    BY <2>1 DEF Contact
  <2>3. contacts' = [contacts EXCEPT ![p] = c]
    BY <1>3 DEF Verify
  <2> HIDE DEF c
  <2>4. /\ contacts' \in Seq(Contact) /\ Len(contacts') = Len(contacts)
        /\ \A j \in 1..Len(contacts) : contacts'[j] = IF j = p THEN c ELSE contacts[j]
    BY <1>1, <2>1, <2>2, <2>3, ExceptSeq
  <2>5. SameIds
    BY <1>1, <2>2, <2>4, LenProperties DEF SameIds
  <2> QED
    BY <2>4, <2>5
<1> QED
  BY <1>2, <1>3

-----------------------------------------------------------------------------
(* What the invariant needs of a key, of whichever tab it is.              *)

\* What a key leaves in the pane until the next draw.
LEMMA KeyStep ==
  ASSUME InterfaceInv, phase = "key", phase' = "inbound",
         ui'.messages = ui.messages, ui'.loaded = ui.loaded,
         convs' = convs, seen' = seen, displaced' = displaced,
         moved' = TRUE \/ (moved' = moved /\ SameIds),
         \A c \in Range(contacts') : c.id.via = "request" => convs[c.id].n >= 1
  PROVE  PaneInv' /\ CountInv'
<1>1. ~moved' /\ ui'.loaded = Current' => ui'.messages = Whole'
  <2> SUFFICES ASSUME ~moved', ui'.loaded = Current'  PROVE ui'.messages = Whole'
    OBVIOUS
  <2>1. ~moved /\ SameIds /\ ui.loaded = Current
    BY DEF InterfaceInv, PaneInv
  <2>2. ui.messages = Whole /\ Current' = Current
    BY <2>1 DEF InterfaceInv, PaneInv
  <2>3. InList(Current)' <=> InList(Current)
    BY <2>1, <2>2 DEF InList, SameIds
  <2>4. InList(Current) => IdAt(Current)' = IdAt(Current)
    BY <2>1, <2>2, <2>3 DEF InList, IdAt, SameIds
  <2>5. Whole' = Whole
    BY <2>3, <2>4 DEF Whole, Shown
  <2> QED
    BY <2>2, <2>5
<1>2. PaneInv'
  BY <1>1 DEF PaneInv
<1>3. \A id : ~Awaits(id)
  BY DEF Awaits
<1>4. CountInv'
  BY <1>3 DEF InterfaceInv, CountInv
<1> QED
  BY <1>2, <1>4

\* As KeyStep where the list stays as it is.
LEMMA ListStays ==
  ASSUME InterfaceInv, UNCHANGED contacts
  PROVE  SameIds /\ \A c \in Range(contacts') : c.id.via = "request" => convs[c.id].n >= 1
BY DEF SameIds, InterfaceInv, CountInv

\* In the other tabs there is no draft that still belongs to the contact at hand.
LEMMA OtherTab ==
  ASSUME DraftInv, ui.tab # "Conversation", ui'.draft = ui.draft,
         ui.draft => (interrupted' <=> interrupted),
         ui'.mode = "KeyAlert" => ui'.tab = "Contacts"
  PROVE  DraftInv'
BY DEF DraftInv

\* A key of the tabs of contacts or settings that changes the interface only.
LEMMA UiKey ==
  ASSUME InterfaceInv, Key, ui.tab # "Conversation", NEW new \in Ui, SetUi(new),
         Len(new.pending) <= MaxPending, new.messages = ui.messages, new.loaded = ui.loaded,
         new.draft = ui.draft, new.mode = "KeyAlert" => new.tab = "Contacts"
  PROVE  InterfaceInv'
<1>1. Shape'
  BY DEF InterfaceInv, Shape, TypeOK, SetUi, Key
<1>2. DraftInv'
  BY OtherTab DEF InterfaceInv, SetUi
<1>3. PaneInv' /\ CountInv'
  BY KeyStep, ListStays DEF Key, SetUi, InterfaceInv
<1> QED
  BY <1>1, <1>2, <1>3 DEF InterfaceInv

\* A key of the tab of contacts that changes the list.
LEMMA ListKey ==
  ASSUME InterfaceInv, Key, ui.tab = "Contacts", NEW new \in Ui, ui' = new,
         Len(new.pending) <= MaxPending, new.messages = ui.messages, new.loaded = ui.loaded,
         new.draft = ui.draft, new.mode # "KeyAlert",
         UNCHANGED <<convs, interrupted, seen, displaced>>,
         contacts' \in Seq(Contact), Len(contacts') <= MaxContacts,
         moved' = TRUE \/ (moved' = moved /\ SameIds),
         \A c \in Range(contacts') : c.id.via = "request" => convs[c.id].n >= 1
  PROVE  InterfaceInv'
<1>1. Shape'
  BY DEF InterfaceInv, Shape, TypeOK, Key
<1>2. DraftInv'
  BY OtherTab DEF InterfaceInv
<1>3. PaneInv' /\ CountInv'
  BY KeyStep DEF Key
<1> QED
  BY <1>1, <1>2, <1>3 DEF InterfaceInv

\* What there is in the interface, by field.
LEMMA UiFields ==
  ASSUME Shape
  PROVE  /\ ui \in Ui /\ ui.selected \in Pos /\ ui.active \in Pos /\ ui.row \in 1..NumSettings
         /\ ui.pending \in Seq(Request) /\ ui.asked \in Seq(Request)
         /\ Len(ui.pending) \in 0..MaxPending
         /\ ui.draft \in BOOLEAN /\ ui.named \in BOOLEAN
<1>1. ui \in Ui /\ Len(ui.pending) <= MaxPending
  BY DEF Shape, TypeOK
<1>2. Len(ui.pending) \in 0..MaxPending
  BY <1>1, LenProperties, InterfaceConstants DEF Ui
<1> QED
  BY <1>1, <1>2 DEF Ui

\* Going up or down in a list that is not empty gives a position, wherever one was.
LEMMA Rounds ==
  ASSUME NEW m \in Nat, NEW n \in 1..m, NEW p \in 0..m
  PROVE  Up(p, n) \in 1..m /\ Down(p, n) \in 1..m
<1>1. Or(p, 1) \in 1..m
  BY DEF Or, NoPos
<1>2. Up(p, n) \in 1..m
  BY DEF Up, Or, NoPos
<1>3. ASSUME NEW q \in Nat  PROVE q % n \in 0..n - 1
  OBVIOUS
<1>4. Down(p, n) \in 1..n
  BY <1>1, <1>3 DEF Down
<1> QED
  BY <1>2, <1>4

-----------------------------------------------------------------------------
(* The keys of the tab of contacts, and of the alert that covers it.       *)

\* Quitting touches neither draft nor pane.
LEMMA QuitInv == ASSUME InterfaceInv, Quit PROVE InterfaceInv'
<1> DEFINE new == [ui EXCEPT !.running = FALSE]
<1>1. new \in Ui /\ new.pending = ui.pending
  BY UiFields DEF InterfaceInv, Ui
<1>2. Shape'
  BY <1>1 DEF InterfaceInv, Shape, TypeOK, SetUi, Key, Quit
<1>3. /\ ui'.messages = ui.messages /\ ui'.loaded = ui.loaded /\ ui'.draft = ui.draft
      /\ ui'.mode = ui.mode /\ ui'.tab = ui.tab /\ ui'.active = ui.active
      /\ ui'.selected = ui.selected
  BY UiFields DEF InterfaceInv, Ui, Quit, SetUi
<1>4. IdAt(Current)' = IdAt(Current)
  BY <1>3 DEF Quit, SetUi, IdAt, InList, Current, Or
<1>5. DraftInv'
  BY <1>3, <1>4 DEF InterfaceInv, DraftInv, Quit, SetUi
<1>6. PaneInv' /\ CountInv'
  BY <1>3, KeyStep, ListStays DEF Key, SetUi, Quit, InterfaceInv
<1> QED
  BY <1>2, <1>5, <1>6 DEF InterfaceInv

\* Answering an alert with yes closes it, and marks the contact that is selected.
LEMMA AlertVerifyInv == ASSUME InterfaceInv, AlertVerify PROVE InterfaceInv'
<1> DEFINE new == [ui EXCEPT !.alert = None, !.mode = "List"]
<1>1. /\ new \in Ui /\ new.pending = ui.pending /\ new.messages = ui.messages
      /\ new.loaded = ui.loaded /\ new.draft = ui.draft /\ new.mode = "List"
  BY UiFields DEF InterfaceInv, Ui, Modes
<1>2. contacts' \in Seq(Contact) /\ Len(contacts') = Len(contacts) /\ SameIds
  BY Verified DEF InterfaceInv, AlertVerify
<1>3. \A c \in Range(contacts') : c.id.via = "request" => convs[c.id].n >= 1
  BY <1>2 DEF InterfaceInv, CountInv, SameIds, Range
<1> HIDE DEF new
<1>4. ui.tab = "Contacts" /\ ui' = new
  BY DEF InterfaceInv, DraftInv, AlertVerify, new
<1> QED
  BY <1>1, <1>2, <1>3, <1>4, ListKey, UiFields, Positions DEF AlertVerify, InterfaceInv, history

\* Answering with no removes the contact that is selected, and selects the first.
LEMMA AlertRejectInv == ASSUME InterfaceInv, AlertReject PROVE InterfaceInv'
<1> DEFINE new == [ui EXCEPT !.selected = 1, !.alert = None, !.mode = "List"]
           p == Or(ui.selected, 1)
<1>. 1 \in Pos
  BY InterfaceConstants DEF Pos, NoPos
<1>1. /\ new \in Ui /\ new.pending = ui.pending /\ new.messages = ui.messages
      /\ new.loaded = ui.loaded /\ new.draft = ui.draft /\ new.mode = "List"
  BY UiFields DEF InterfaceInv, Ui, Modes
<1>2. p \in 1..Len(contacts) /\ RemoveContact(p)
  BY Positions DEF InterfaceInv, AlertReject, InList
<1> HIDE DEF new, p
<1>3. /\ contacts' \in Seq(Contact) /\ Len(contacts') = Len(contacts) - 1
      /\ Range(contacts') \subseteq Range(contacts)
  BY <1>2, Removed DEF InterfaceInv
<1>4. \A c \in Range(contacts') : c.id.via = "request" => convs[c.id].n >= 1
  BY <1>3 DEF InterfaceInv, CountInv
<1>5. ui.tab = "Contacts" /\ ui' = new
  BY DEF InterfaceInv, DraftInv, AlertReject, new
<1>6. Len(contacts') <= MaxContacts
  BY <1>3, Positions, InterfaceConstants DEF InterfaceInv
<1> QED
  BY <1>1, <1>3, <1>4, <1>5, <1>6, ListKey, UiFields DEF AlertReject, InterfaceInv

\* Without a contact to remove the program ends as if the user had quit.
LEMMA AlertRejectPanicsInv == ASSUME InterfaceInv, AlertRejectPanics PROVE InterfaceInv'
<1> QED
  BY QuitInv DEF AlertRejectPanics, Quit

\* The selection moves within the list; what is in the pane is loaded anew then.
LEMMA SelectContactInv == ASSUME InterfaceInv, SelectContact PROVE InterfaceInv'
<1>1. PICK p \in {Up(ui.selected, Len(contacts)), Down(ui.selected, Len(contacts))} :
        SetUi([ui EXCEPT !.selected = p])
  BY DEF SelectContact
<1>2. Len(contacts) \in 1..MaxContacts /\ ui.selected \in 0..MaxContacts
  BY Positions, EmptySeq DEF InterfaceInv, SelectContact, Shape, TypeOK, Pos, NoPos
<1>3. p \in Pos
  <2>1. MaxContacts \in Nat
    BY InterfaceConstants
  <2>2. /\ Up(ui.selected, Len(contacts)) \in 1..MaxContacts
        /\ Down(ui.selected, Len(contacts)) \in 1..MaxContacts
    BY <1>2, <2>1, Rounds
  <2>3. p \in 1..MaxContacts
    BY <2>2
  <2> QED
    BY <2>1, <2>3 DEF Pos, NoPos
<1> DEFINE new == [ui EXCEPT !.selected = p]
<1>4. /\ new \in Ui /\ new.pending = ui.pending /\ new.messages = ui.messages
      /\ new.loaded = ui.loaded /\ new.draft = ui.draft /\ new.mode = ui.mode
      /\ new.tab = ui.tab
  BY <1>3, UiFields DEF InterfaceInv, Ui
<1> HIDE DEF new
<1>5. SetUi(new) /\ Key /\ ui.tab = "Contacts"
  BY <1>1 DEF new, SelectContact, Browsing, KeyIn
<1> QED
  BY <1>4, <1>5, UiKey, UiFields DEF InterfaceInv

\* Opening a popup of the tab of contacts.
LEMMA ChooseModeInv == ASSUME InterfaceInv, ChooseMode PROVE InterfaceInv'
<1>1. PICK m \in Modes \ {"KeyAlert"} :
        SetUi([ui EXCEPT !.mode = m, !.named = @ /\ m # "PendingRequest"])
  BY DEF ChooseMode
<1> DEFINE new == [ui EXCEPT !.mode = m, !.named = @ /\ m # "PendingRequest"]
<1>2. /\ new \in Ui /\ new.pending = ui.pending /\ new.messages = ui.messages
      /\ new.loaded = ui.loaded /\ new.draft = ui.draft /\ new.mode = m
  BY UiFields DEF InterfaceInv, Ui
<1> HIDE DEF new
<1>3. SetUi(new) /\ Key /\ ui.tab = "Contacts"
  BY <1>1 DEF new, ChooseMode, Browsing, KeyIn
<1> QED
  BY <1>2, <1>3, UiKey, UiFields DEF InterfaceInv

\* Marking the selected contact as verified.
LEMMA VerifySelectedInv == ASSUME InterfaceInv, VerifySelected PROVE InterfaceInv'
<1>1. contacts' \in Seq(Contact) /\ Len(contacts') = Len(contacts) /\ SameIds
  BY Verified DEF InterfaceInv, VerifySelected
<1>2. \A c \in Range(contacts') : c.id.via = "request" => convs[c.id].n >= 1
  BY <1>1 DEF InterfaceInv, CountInv, SameIds, Range
<1>3. ui.tab = "Contacts" /\ Key /\ ui.mode # "KeyAlert" /\ ui' = ui
  BY DEF VerifySelected, Browsing, KeyIn
<1> QED
  BY <1>1, <1>2, <1>3, ListKey, UiFields, Positions DEF VerifySelected, InterfaceInv, history

\* Deleting the selected contact shifts the others under the positions.
LEMMA DeleteSelectedInv == ASSUME InterfaceInv, DeleteSelected PROVE InterfaceInv'
<1> DEFINE new == [ui EXCEPT !.selected = AfterDelete]
<1>1. ui.selected \in 1..Len(contacts) /\ Len(contacts) \in 0..MaxContacts
  BY Positions DEF InterfaceInv, DeleteSelected, InList
<1>2. AfterDelete \in Pos
  BY <1>1, InterfaceConstants DEF AfterDelete, Pos, NoPos
<1>3. /\ new \in Ui /\ new.pending = ui.pending /\ new.messages = ui.messages
      /\ new.loaded = ui.loaded /\ new.draft = ui.draft /\ new.mode = ui.mode
  BY <1>2, UiFields DEF InterfaceInv, Ui
<1> HIDE DEF new
<1>4. /\ contacts' \in Seq(Contact) /\ Len(contacts') = Len(contacts) - 1
      /\ Range(contacts') \subseteq Range(contacts)
  BY <1>1, Removed DEF InterfaceInv, DeleteSelected
<1>5. \A c \in Range(contacts') : c.id.via = "request" => convs[c.id].n >= 1
  BY <1>4 DEF InterfaceInv, CountInv
<1>6. Key /\ ui.tab = "Contacts" /\ ui.mode # "KeyAlert" /\ ui' = new
  BY DEF DeleteSelected, Browsing, KeyIn, new
<1>7. Len(contacts') <= MaxContacts
  BY <1>1, <1>4, InterfaceConstants
<1> QED
  BY <1>3, <1>4, <1>5, <1>6, <1>7, ListKey, UiFields DEF DeleteSelected, InterfaceInv

\* Opening a conversation: nothing in the other tabs is a draft for it.
LEMMA OpenConversationInv == ASSUME InterfaceInv, OpenConversation PROVE InterfaceInv'
<1> DEFINE new == [ui EXCEPT !.active = ui.selected, !.tab = "Conversation"]
<1>1. /\ new \in Ui /\ new.pending = ui.pending /\ new.messages = ui.messages
      /\ new.loaded = ui.loaded /\ new.draft = ui.draft /\ new.mode = ui.mode
  BY UiFields DEF InterfaceInv, Ui, Tabs
<1> HIDE DEF new
<1>2. SetUi(new) /\ Key /\ ui.tab = "Contacts" /\ ui.mode # "KeyAlert"
  BY DEF new, OpenConversation, Browsing, KeyIn
<1> QED
  BY <1>1, <1>2, UiKey, UiFields DEF InterfaceInv

\* Going to the settings.
LEMMA ToSettingsInv == ASSUME InterfaceInv, ToSettings PROVE InterfaceInv'
<1> DEFINE new == [ui EXCEPT !.tab = "Settings"]
<1>1. /\ new \in Ui /\ new.pending = ui.pending /\ new.messages = ui.messages
      /\ new.loaded = ui.loaded /\ new.draft = ui.draft /\ new.mode = ui.mode
  BY UiFields DEF InterfaceInv, Ui, Tabs
<1> HIDE DEF new
<1>2. SetUi(new) /\ Key /\ ui.tab = "Contacts" /\ ui.mode # "KeyAlert"
  BY DEF new, ToSettings, Browsing, KeyIn
<1> QED
  BY <1>1, <1>2, UiKey, UiFields DEF InterfaceInv

\* Keys that put the tab of contacts back to its list.
LEMMA BackToList ==
  ASSUME InterfaceInv, KeyIn("Contacts"), SetUi([ui EXCEPT !.mode = "List"])
  PROVE  InterfaceInv'
<1> DEFINE new == [ui EXCEPT !.mode = "List"]
<1>1. /\ new \in Ui /\ new.pending = ui.pending /\ new.messages = ui.messages
      /\ new.loaded = ui.loaded /\ new.draft = ui.draft /\ new.mode = "List"
  BY UiFields DEF InterfaceInv, Ui, Modes
<1>2. SetUi(new) /\ Key /\ ui.tab = "Contacts"
  BY DEF KeyIn
<1> HIDE DEF new
<1> QED
  BY <1>1, <1>2, UiKey, UiFields DEF InterfaceInv

\* Closing the popup with the own code.
LEMMA CloseExportInv == ASSUME InterfaceInv, CloseExport PROVE InterfaceInv'
BY BackToList DEF CloseExport

\* Leaving the popup for codes without one.
LEMMA AddNothingInv == ASSUME InterfaceInv, AddNothing PROVE InterfaceInv'
BY BackToList DEF AddNothing, Adding

\* A contact that is added is one, named by what was added.
LEMMA IsContact ==
  ASSUME NEW w \in Peer, NEW k \in 0..MaxKey, NEW via \in {"code", "request"}
  PROVE  /\ NewContact(w, k, via) \in Contact
         /\ NewContact(w, k, via).id = [who |-> w, key |-> k, via |-> via]
         /\ NewContact(w, k, via).id \in Id
BY InterfaceConstants DEF NewContact, Contact, Id

\* A contact added by its code is selected.
LEMMA AddByCodeInv ==
  ASSUME InterfaceInv, NEW w \in Peer, NEW k \in 0..MaxKey, AddByCode(w, k)
  PROVE  InterfaceInv'
<1> DEFINE new == [ui EXCEPT !.selected = Len(contacts) + 1, !.mode = "List"]
           c == NewContact(w, k, "code")
<1>1. c \in Contact /\ c.id.via = "code"
  <2>1. c \in Contact /\ c.id = [who |-> w, key |-> k, via |-> "code"]
    BY IsContact, "code" \in {"code", "request"}
  <2> QED
    BY <2>1
<1> HIDE DEF c
<1>2. /\ contacts' \in Seq(Contact) /\ Len(contacts') <= MaxContacts
      /\ Len(contacts) + 1 \in Pos /\ Range(contacts') = Range(contacts) \cup {c}
  BY <1>1, Added DEF InterfaceInv, AddByCode, c
<1>3. /\ new \in Ui /\ new.pending = ui.pending /\ new.messages = ui.messages
      /\ new.loaded = ui.loaded /\ new.draft = ui.draft /\ new.mode = "List"
  BY <1>2, UiFields DEF InterfaceInv, Ui, Modes
<1> HIDE DEF new
<1>4. \A d \in Range(contacts') : d.id.via = "request" => convs[d.id].n >= 1
  BY <1>1, <1>2 DEF InterfaceInv, CountInv
<1>5. Key /\ ui.tab = "Contacts" /\ ui' = new
  BY DEF AddByCode, Adding, KeyIn, new
<1> QED
  BY <1>2, <1>3, <1>4, <1>5, ListKey, UiFields DEF AddByCode, InterfaceInv

\* A bootstrap code adds a bundle that is asked for, and no contact yet.
LEMMA AddByBootstrapInv ==
  ASSUME InterfaceInv, NEW w \in Peer, NEW k \in 0..MaxKey, AddByBootstrap(w, k)
  PROVE  InterfaceInv'
<1> DEFINE asked == Append(ui.asked, [who |-> w, key |-> k])
           new == [ui EXCEPT !.asked = asked, !.mode = "List"]
<1>1. asked \in Seq(Request)
  <2>1. [who |-> w, key |-> k] \in Request
    BY DEF Request
  <2> QED
    BY <2>1, UiFields DEF InterfaceInv
<1> HIDE DEF asked
<1>2. /\ new \in Ui /\ new.pending = ui.pending /\ new.messages = ui.messages
      /\ new.loaded = ui.loaded /\ new.draft = ui.draft /\ new.mode = "List"
  BY <1>1, UiFields DEF InterfaceInv, Ui, Modes
<1>3. SetUi(new) /\ Key /\ ui.tab = "Contacts"
  BY DEF AddByBootstrap, Adding, KeyIn, asked
<1> HIDE DEF new
<1> QED
  BY <1>2, <1>3, UiKey, UiFields DEF InterfaceInv

\* Naming a contact to be.
LEMMA TypeNameInv == ASSUME InterfaceInv, TypeName PROVE InterfaceInv'
<1>1. PICK some \in BOOLEAN : SetUi([ui EXCEPT !.named = some])
  BY DEF TypeName
<1> DEFINE new == [ui EXCEPT !.named = some]
<1>2. /\ new \in Ui /\ new.pending = ui.pending /\ new.messages = ui.messages
      /\ new.loaded = ui.loaded /\ new.draft = ui.draft /\ new.mode = ui.mode
  BY UiFields DEF InterfaceInv, Ui
<1> HIDE DEF new
<1>3. SetUi(new) /\ Key /\ ui.tab = "Contacts" /\ ui.mode # "KeyAlert"
  BY <1>1 DEF new, TypeName, Reviewing, KeyIn
<1> QED
  BY <1>2, <1>3, UiKey, UiFields DEF InterfaceInv

\* A request that is answered is dropped from the front.
LEMMA Rejected ==
  ASSUME Shape, ui.pending # <<>>
  PROVE  /\ Reject \in Ui /\ Len(Reject.pending) <= MaxPending
         /\ Reject.messages = ui.messages /\ Reject.loaded = ui.loaded
         /\ Reject.draft = ui.draft /\ Reject.mode = "List" /\ Head(ui.pending) \in Request
<1> DEFINE rest == Tail(ui.pending)
<1>1. rest \in Seq(Request) /\ Len(rest) = Len(ui.pending) - 1 /\ Head(ui.pending) \in Request
  BY UiFields, HeadTailProperties
<1> HIDE DEF rest
<1>2. /\ [ui EXCEPT !.pending = rest, !.named = FALSE, !.mode = "List"] \in Ui
      /\ Reject = [ui EXCEPT !.pending = rest, !.named = FALSE, !.mode = "List"]
  BY <1>1, UiFields DEF Ui, Modes, Reject, rest
<1>3. /\ Reject.messages = ui.messages /\ Reject.loaded = ui.loaded
      /\ Reject.draft = ui.draft /\ Reject.mode = "List" /\ Reject.pending = rest
  BY <1>2, UiFields DEF Ui
<1> QED
  BY <1>1, <1>2, <1>3, UiFields, InterfaceConstants

\* Declining a request.
LEMMA RejectRequestInv == ASSUME InterfaceInv, RejectRequest PROVE InterfaceInv'
<1>1. SetUi(Reject) /\ Key /\ ui.tab = "Contacts" /\ ui.pending # <<>>
  BY DEF RejectRequest, Reviewing, KeyIn
<1> QED
  BY <1>1, Rejected, UiKey DEF InterfaceInv

\* Accepting gives a contact with one message, which the popup has shown; a pane
\* that is left over from the same contact shows no less.
LEMMA AcceptRequestInv == ASSUME InterfaceInv, AcceptRequest PROVE InterfaceInv'
<1> DEFINE new == [Reject EXCEPT !.selected = Len(contacts) + 1]
<1>0. /\ Key /\ ui.tab = "Contacts" /\ ui' = new /\ ui.pending # <<>> /\ moved' = TRUE
      /\ UNCHANGED <<interrupted, displaced>>
  BY Zenon DEF AcceptRequest, Reviewing, KeyIn
<1>1. /\ Reject \in Ui /\ Len(Reject.pending) <= MaxPending
      /\ Reject.messages = ui.messages /\ Reject.loaded = ui.loaded
      /\ Reject.draft = ui.draft /\ Reject.mode = "List"
  BY <1>0, Rejected DEF InterfaceInv
<1>2. PICK r \in Request : r = Head(ui.pending)
  BY <1>0, Rejected DEF InterfaceInv
<1>3. PICK c : /\ c = NewContact(r.who, r.key, "request") /\ Add(c)
               /\ convs' = [convs EXCEPT ![c.id].n = 1] /\ seen' = [seen EXCEPT ![c.id] = 1]
  BY <1>2, Zenon DEF AcceptRequest
<1>4. c \in Contact /\ c.id.via = "request" /\ c.id \in Id
  <2>1. r.who \in Peer /\ r.key \in 0..MaxKey
    BY DEF Request
  <2>2. /\ c \in Contact /\ c.id = [who |-> r.who, key |-> r.key, via |-> "request"]
        /\ c.id \in Id
    BY <1>3, <2>1, IsContact, "request" \in {"code", "request"}
  <2> QED
    BY <2>2
<1>5. /\ contacts' \in Seq(Contact) /\ Len(contacts') <= MaxContacts
      /\ Len(contacts) + 1 \in Pos /\ Range(contacts') = Range(contacts) \cup {c}
  BY <1>3, <1>4, Added DEF InterfaceInv
<1>6. /\ new \in Ui /\ Len(new.pending) <= MaxPending /\ new.messages = ui.messages
      /\ new.loaded = ui.loaded /\ new.draft = ui.draft /\ new.mode = "List"
  BY <1>1, <1>5, UiFields DEF InterfaceInv, Ui
<1> HIDE DEF new
<1>7. Key /\ ui.tab = "Contacts" /\ ui' = new
  BY <1>0
<1>8. convs \in [Id -> [n : 0..MaxMessages, unread : Nat]] /\ seen \in [Id -> Nat]
  BY DEF InterfaceInv, Shape, TypeOK
<1>9. convs' \in [Id -> [n : 0..MaxMessages, unread : Nat]] /\ seen' \in [Id -> Nat]
  <2>1. [convs[c.id] EXCEPT !.n = 1] \in [n : 0..MaxMessages, unread : Nat]
    <3>1. 1 \in 0..MaxMessages
      BY InterfaceConstants
    <3> QED
      BY <1>4, <1>8, <3>1
  <2>2. convs' = [convs EXCEPT ![c.id] = [convs[c.id] EXCEPT !.n = 1]]
    BY <1>3, Zenon
  <2> QED
    BY <1>3, <1>4, <1>8, <2>1, <2>2
<1>10. Shape'
  BY <1>0, <1>5, <1>6, <1>7, <1>9 DEF InterfaceInv, Shape, TypeOK, Key
<1>11. DraftInv'
  BY <1>0, <1>6, <1>7, OtherTab DEF InterfaceInv
<1>12. PaneInv'
  BY <1>0, <1>7 DEF PaneInv, Key
<1>13. /\ \A id \in Id : convs'[id].unread = convs[id].unread
       /\ \A id \in Id : convs'[id].n = IF id = c.id THEN 1 ELSE convs[id].n
       /\ \A id \in Id : seen'[id] = IF id = c.id THEN 1 ELSE seen[id]
  BY <1>3, <1>4, <1>8
<1>14. ASSUME NEW d \in Range(contacts'), d.id.via = "request"  PROVE convs'[d.id].n >= 1
  <2>1. d = c \/ d \in Range(contacts)
    BY <1>5
  <2>2. d.id \in Id
    BY <1>4, <2>1, Positions DEF InterfaceInv, Range, Contact
  <2> QED
    BY <1>13, <1>14, <2>1, <2>2 DEF InterfaceInv, CountInv
<1>15. \A id : ~Awaits(id)
  BY <1>7 DEF Awaits, Key
<1>16. ASSUME ~displaced', NEW id \in Id  PROVE convs'[id].n <= seen'[id] + convs'[id].unread
  <2>1. convs[id].n <= seen[id] + convs[id].unread /\ convs[id].unread \in Nat
    BY <1>0, <1>8, <1>15, <1>16 DEF InterfaceInv, CountInv
  <2> QED
    BY <1>13, <2>1
<1>17. ASSUME ~displaced', ui.messages # None
       PROVE  ui.messages.n >= seen'[ui.messages.id]
  <2>1. ui.messages.n >= seen[ui.messages.id] /\ ui.messages.id \in Id
    BY <1>0, <1>15, <1>17, UiFields DEF InterfaceInv, CountInv, Ui
  <2>2. ui.messages.id = c.id => ui.messages.n >= 1
    BY <1>4, <1>17 DEF InterfaceInv, CountInv
  <2> QED
    BY <1>13, <2>1, <2>2
<1>18. CountInv'
  BY <1>6, <1>7, <1>14, <1>16, <1>17 DEF InterfaceInv, CountInv
<1> QED
  BY <1>10, <1>11, <1>12, <1>18 DEF InterfaceInv

-----------------------------------------------------------------------------
(* The keys of the tab of conversations.                                   *)

\* There a draft may be in the making, for the contact at hand.
LEMMA ConversationKey ==
  ASSUME InterfaceInv, KeyIn("Conversation"), NEW new \in Ui, SetUi(new),
         new.pending = ui.pending, new.messages = ui.messages, new.loaded = ui.loaded,
         new.mode = ui.mode, new.active = ui.active, new.selected = ui.selected,
         new.draft => ui.draft /\ new.tab = ui.tab
  PROVE  InterfaceInv'
<1>1. Shape'
  BY UiFields DEF InterfaceInv, Shape, TypeOK, SetUi, Key, KeyIn
<1>2. IdAt(Current)' = IdAt(Current)
  BY DEF SetUi, IdAt, InList, Current, Or
<1>3. ui.mode # "KeyAlert" /\ ui' = new /\ draftFor' = draftFor
      /\ (new.draft => (interrupted' <=> interrupted))
  BY DEF SetUi, KeyIn
<1>4. DraftInv'
  BY <1>2, <1>3 DEF InterfaceInv, DraftInv
<1>5. PaneInv' /\ CountInv'
  BY KeyStep, ListStays DEF Key, KeyIn, SetUi, InterfaceInv
<1> QED
  BY <1>1, <1>4, <1>5 DEF InterfaceInv

\* Leaving the search keeps the draft.
LEMMA LeaveSearchInv == ASSUME InterfaceInv, LeaveSearch PROVE InterfaceInv'
<1> DEFINE new == [ui EXCEPT !.search = FALSE]
<1>1. /\ new \in Ui /\ new.pending = ui.pending /\ new.messages = ui.messages
      /\ new.loaded = ui.loaded /\ new.mode = ui.mode /\ new.active = ui.active
      /\ new.selected = ui.selected /\ new.draft = ui.draft /\ new.tab = ui.tab
  BY UiFields DEF InterfaceInv, Ui
<1>2. SetUi(new) /\ KeyIn("Conversation")
  BY DEF LeaveSearch
<1> HIDE DEF new
<1> QED
  BY <1>1, <1>2, ConversationKey

\* Entering the search keeps the draft.
LEMMA EnterSearchInv == ASSUME InterfaceInv, EnterSearch PROVE InterfaceInv'
<1> DEFINE new == [ui EXCEPT !.search = TRUE]
<1>1. /\ new \in Ui /\ new.pending = ui.pending /\ new.messages = ui.messages
      /\ new.loaded = ui.loaded /\ new.mode = ui.mode /\ new.active = ui.active
      /\ new.selected = ui.selected /\ new.draft = ui.draft /\ new.tab = ui.tab
  BY UiFields DEF InterfaceInv, Ui
<1>2. SetUi(new) /\ KeyIn("Conversation")
  BY DEF EnterSearch, Composing
<1> HIDE DEF new
<1> QED
  BY <1>1, <1>2, ConversationKey

\* A draft is begun for the contact at hand, or continued.
LEMMA TypeDraftInv == ASSUME InterfaceInv, TypeDraft PROVE InterfaceInv'
<1> DEFINE new == [ui EXCEPT !.draft = TRUE]
<1>1. /\ new \in Ui /\ new.pending = ui.pending /\ new.messages = ui.messages
      /\ new.loaded = ui.loaded /\ new.mode = ui.mode /\ new.active = ui.active
      /\ new.selected = ui.selected /\ new.tab = ui.tab
  BY UiFields DEF InterfaceInv, Ui
<1>2. ui' = new /\ KeyIn("Conversation")
  BY DEF TypeDraft, Composing
<1> HIDE DEF new
<1>3. Shape'
  BY <1>1, <1>2, UiFields DEF InterfaceInv, Shape, TypeOK, TypeDraft, Key, KeyIn
<1>4. IdAt(Current)' = IdAt(Current)
  BY <1>1, <1>2 DEF TypeDraft, IdAt, InList, Current, Or
<1>5. ui.draft /\ ~interrupted => draftFor' = IdAt(Current)
  BY DEF InterfaceInv, DraftInv, TypeDraft
<1>6. ~ui.draft => draftFor' = IdAt(Current)
  BY DEF TypeDraft
<1>7. DraftInv'
  BY <1>1, <1>2, <1>4, <1>5, <1>6 DEF DraftInv, TypeDraft, KeyIn
<1>8. PaneInv' /\ CountInv'
  BY <1>1, <1>2, KeyStep, ListStays DEF Key, KeyIn, TypeDraft, InterfaceInv
<1> QED
  BY <1>3, <1>7, <1>8 DEF InterfaceInv

\* The draft goes, one way or another.
LEMMA DraftGone ==
  ASSUME InterfaceInv, KeyIn("Conversation"), SetUi([ui EXCEPT !.draft = FALSE])
  PROVE  InterfaceInv'
<1> DEFINE new == [ui EXCEPT !.draft = FALSE]
<1>1. /\ new \in Ui /\ new.pending = ui.pending /\ new.messages = ui.messages
      /\ new.loaded = ui.loaded /\ new.mode = ui.mode /\ new.active = ui.active
      /\ new.selected = ui.selected /\ ~new.draft
  BY UiFields DEF InterfaceInv, Ui
<1>2. SetUi(new)
  OBVIOUS
<1> HIDE DEF new
<1> QED
  BY <1>1, <1>2, ConversationKey

\* A draft is deleted.
LEMMA ClearDraftInv == ASSUME InterfaceInv, ClearDraft PROVE InterfaceInv'
BY DraftGone DEF ClearDraft, Composing

\* A draft is lost because it cannot be sent.
LEMMA SendFailsInv == ASSUME InterfaceInv, SendFails PROVE InterfaceInv'
BY DraftGone DEF SendFails, Composing

\* The tab can be left when there is no draft.
LEMMA LeaveConversationInv == ASSUME InterfaceInv, LeaveConversation PROVE InterfaceInv'
<1>1. PICK t \in {"Contacts", "Settings"} : SetUi([ui EXCEPT !.tab = t])
  BY DEF LeaveConversation
<1> DEFINE new == [ui EXCEPT !.tab = t]
<1>2. /\ new \in Ui /\ new.pending = ui.pending /\ new.messages = ui.messages
      /\ new.loaded = ui.loaded /\ new.mode = ui.mode /\ new.active = ui.active
      /\ new.selected = ui.selected /\ new.draft = ui.draft
  BY UiFields DEF InterfaceInv, Ui, Tabs
<1>3. SetUi(new) /\ KeyIn("Conversation") /\ ~ui.draft
  BY <1>1 DEF LeaveConversation, Composing, MayLeave
<1> HIDE DEF new
<1> QED
  BY <1>2, <1>3, ConversationKey

\* What is sent is added to the conversation and to the pane.
LEMMA SendInv == ASSUME InterfaceInv, Send PROVE InterfaceInv'
<1>. PICK id : id = IdAt(Current)
  OBVIOUS
<1>. PICK pane : pane = [id |-> id, n |-> convs[id].n + 1]
  OBVIOUS
<1> DEFINE new == [ui EXCEPT !.draft = FALSE, !.messages = pane]
<1>1. id \in Id /\ InList(Current)
  BY Positions DEF InterfaceInv, Send, InList
<1>2. /\ convs \in [Id -> [n : 0..MaxMessages, unread : Nat]] /\ seen \in [Id -> Nat]
      /\ convs[id].n < MaxMessages /\ MaxMessages \in Nat
  BY InterfaceConstants DEF InterfaceInv, Shape, TypeOK, Send
<1>3. convs[id] \in [n : 0..MaxMessages, unread : Nat] /\ convs[id].n + 1 \in 0..MaxMessages
  BY <1>1, <1>2
<1>4. pane \in [id : Id, n : Nat] /\ pane.id = id /\ pane.n = convs[id].n + 1
  BY <1>1, <1>3
<1>5. /\ convs' = [convs EXCEPT ![id].n = @ + 1] /\ ui' = new /\ KeyIn("Conversation")
      /\ interrupted' = FALSE
  BY DEF Send, Composing
<1>6. /\ new \in Ui /\ new.pending = ui.pending /\ new.messages = pane
      /\ new.loaded = ui.loaded /\ new.mode = ui.mode /\ new.active = ui.active
      /\ new.selected = ui.selected /\ ~new.draft
  BY <1>4, UiFields DEF InterfaceInv, Ui
<1> HIDE DEF new
<1>7. /\ convs' \in [Id -> [n : 0..MaxMessages, unread : Nat]]
      /\ \A i \in Id : convs'[i].unread = convs[i].unread
      /\ \A i \in Id : convs'[i].n = IF i = id THEN convs[i].n + 1 ELSE convs[i].n
  BY <1>1, <1>2, <1>3, <1>5
<1>8. Shape'
  BY <1>5, <1>6, <1>7, UiFields DEF InterfaceInv, Shape, TypeOK, Send, Key, KeyIn
<1>9. DraftInv'
  BY <1>5, <1>6 DEF InterfaceInv, DraftInv, KeyIn
<1>10. Current' = Current /\ IdAt(Current)' = id /\ InList(Current)'
  BY <1>1, <1>5, <1>6 DEF Send, IdAt, InList, Current, Or
<1>11. Shown(id)' = pane
  BY <1>1, <1>7 DEF Shown
<1>12. PaneInv'
  BY <1>5, <1>6, <1>10, <1>11 DEF PaneInv, Whole, Key, KeyIn, Shown
<1>13. Awaits(id)'
  BY <1>5, <1>6, <1>10, <1>11 DEF Awaits, Key, KeyIn, Shown
<1>14. \A i : ~Awaits(i)
  BY <1>5 DEF Awaits, Key, KeyIn
<1>15. ASSUME NEW c \in Range(contacts'), c.id.via = "request"  PROVE convs'[c.id].n >= 1
  <2>1. c \in Range(contacts) /\ c.id \in Id /\ convs[c.id].n >= 1
    BY <1>15, Positions DEF InterfaceInv, CountInv, Range, Contact, Send
  <2> QED
    BY <1>2, <1>7, <2>1
<1>16. ASSUME ~displaced', NEW i \in Id
       PROVE  convs'[i].n <= seen'[i] + convs'[i].unread \/ Awaits(i)'
  <2>1. convs[i].n <= seen[i] + convs[i].unread
    BY <1>14, <1>16 DEF InterfaceInv, CountInv, Send
  <2> QED
    BY <1>7, <1>13, <2>1 DEF Send
<1>17. CountInv'
  BY <1>3, <1>4, <1>5, <1>6, <1>13, <1>15, <1>16 DEF CountInv
<1> QED
  BY <1>8, <1>9, <1>12, <1>17 DEF InterfaceInv

-----------------------------------------------------------------------------
(* The keys of the settings.                                               *)

\* Going up or down in the settings.
LEMMA SelectSettingInv == ASSUME InterfaceInv, SelectSetting PROVE InterfaceInv'
<1>1. PICK p \in {Up(ui.row, NumSettings), Down(ui.row, NumSettings)} :
        SetUi([ui EXCEPT !.row = p])
  BY DEF SelectSetting
<1>2. p \in 1..NumSettings
  <2>1. ui.row \in 0..NumSettings /\ NumSettings \in Nat /\ NumSettings \in 1..NumSettings
    BY UiFields DEF InterfaceInv, NumSettings
  <2>2. Up(ui.row, NumSettings) \in 1..NumSettings /\ Down(ui.row, NumSettings) \in 1..NumSettings
    BY <2>1, Rounds
  <2> QED
    BY <2>2
<1> DEFINE new == [ui EXCEPT !.row = p]
<1>3. /\ new \in Ui /\ new.pending = ui.pending /\ new.messages = ui.messages
      /\ new.loaded = ui.loaded /\ new.mode = ui.mode /\ new.draft = ui.draft
      /\ new.tab = ui.tab
  BY <1>2, UiFields DEF InterfaceInv, Ui
<1>4. SetUi(new) /\ Key /\ ui.tab = "Settings"
  BY <1>1 DEF SelectSetting, InSettings, KeyIn
<1> HIDE DEF new
<1> QED
  BY <1>3, <1>4, UiKey, UiFields DEF InterfaceInv, DraftInv

\* What Enter does in the settings changes neither list nor draft.
LEMMA ActivateSettingInv == ASSUME InterfaceInv, ActivateSetting PROVE InterfaceInv'
<1>1. Key /\ ui.tab = "Settings" /\ ui.mode # "KeyAlert"
  BY DEF ActivateSetting, InSettings, KeyIn
<1>2. ui.row \in 1..7 /\ DOMAIN EditOf = 1..5 /\ \A i \in 1..5 : EditOf[i] \in Edits
  BY UiFields DEF InterfaceInv, NumSettings, EditOf, Edits
<1>3. CASE ui.row \in 1..5
  <2> DEFINE new == [ui EXCEPT !.edit = EditOf[ui.row]]
  <2>1. /\ new \in Ui /\ new.pending = ui.pending /\ new.messages = ui.messages
        /\ new.loaded = ui.loaded /\ new.mode = ui.mode /\ new.draft = ui.draft
    BY <1>2, <1>3, UiFields DEF InterfaceInv, Ui
  <2>2. SetUi(new)
    BY <1>2, <1>3 DEF ActivateSetting
  <2> HIDE DEF new
  <2> QED
    BY <1>1, <2>1, <2>2, UiKey, UiFields DEF InterfaceInv
<1>4. CASE ui.row = 6
  <2> DEFINE new == [ui EXCEPT !.tab = "Contacts", !.mode = "ExportCode"]
  <2>1. /\ new \in Ui /\ new.pending = ui.pending /\ new.messages = ui.messages
        /\ new.loaded = ui.loaded /\ new.mode = "ExportCode" /\ new.draft = ui.draft
    BY UiFields DEF InterfaceInv, Ui, Tabs, Modes
  <2>2. SetUi(new)
    BY <1>2, <1>4 DEF ActivateSetting
  <2> HIDE DEF new
  <2> QED
    BY <1>1, <2>1, <2>2, UiKey, UiFields DEF InterfaceInv
<1>5. CASE ui.row = 7
  <2>1. SetUi(ui)
    BY <1>2, <1>5 DEF ActivateSetting
  <2> QED
    BY <1>1, <2>1, UiKey, UiFields DEF InterfaceInv
<1> QED
  BY <1>2, <1>3, <1>4, <1>5

\* Leaving the settings.
LEMMA LeaveSettingsInv == ASSUME InterfaceInv, LeaveSettings PROVE InterfaceInv'
<1>1. PICK t \in {"Contacts", "Conversation"} : SetUi([ui EXCEPT !.tab = t])
  BY DEF LeaveSettings
<1> DEFINE new == [ui EXCEPT !.tab = t]
<1>2. /\ new \in Ui /\ new.pending = ui.pending /\ new.messages = ui.messages
      /\ new.loaded = ui.loaded /\ new.mode = ui.mode /\ new.draft = ui.draft
  BY UiFields DEF InterfaceInv, Ui, Tabs
<1>3. SetUi(new) /\ Key /\ ui.tab = "Settings" /\ ui.mode # "KeyAlert"
  BY <1>1 DEF LeaveSettings, InSettings, KeyIn
<1> HIDE DEF new
<1> QED
  BY <1>2, <1>3, UiKey, UiFields DEF InterfaceInv

\* Ending an edit changes nothing else of the interface.
LEMMA EditEnded == ASSUME Shape
  PROVE  LET new == [ui EXCEPT !.edit = "None"] IN
         /\ new \in Ui /\ new.pending = ui.pending /\ new.messages = ui.messages
         /\ new.loaded = ui.loaded /\ new.mode = ui.mode /\ new.draft = ui.draft
         /\ new.tab = ui.tab
BY UiFields DEF Ui, Edits

\* Ending an edit without saving.
LEMMA EndEditInv == ASSUME InterfaceInv, EndEdit PROVE InterfaceInv'
<1> DEFINE new == [ui EXCEPT !.edit = "None"]
<1>1. /\ new \in Ui /\ new.pending = ui.pending /\ new.messages = ui.messages
      /\ new.loaded = ui.loaded /\ new.mode = ui.mode /\ new.draft = ui.draft
  BY EditEnded DEF InterfaceInv
<1>2. SetUi(new) /\ Key /\ ui.tab = "Settings" /\ ui.mode # "KeyAlert"
  BY DEF EndEdit, KeyIn
<1> HIDE DEF new
<1> QED
  BY <1>1, <1>2, UiKey, UiFields DEF InterfaceInv

\* Ending an edit with saving.
LEMMA SaveEditInv == ASSUME InterfaceInv, SaveEdit PROVE InterfaceInv'
<1> DEFINE new == [ui EXCEPT !.edit = "None"]
<1>1. /\ new \in Ui /\ new.pending = ui.pending /\ new.messages = ui.messages
      /\ new.loaded = ui.loaded /\ new.mode = ui.mode /\ new.draft = ui.draft
      /\ new.tab = ui.tab
  BY EditEnded DEF InterfaceInv
<1>2. /\ ui' = new /\ Key /\ ui.tab = "Settings" /\ ui.mode # "KeyAlert"
      /\ UNCHANGED <<contacts, convs, moved, displaced, interrupted, draftFor, seen>>
  BY DEF SaveEdit, KeyIn, history
<1> HIDE DEF new
<1>3. Shape'
  BY <1>1, <1>2, UiFields DEF InterfaceInv, Shape, TypeOK, Key
<1>4. DraftInv'
  BY <1>1, <1>2, OtherTab DEF InterfaceInv
<1>5. PaneInv' /\ CountInv'
  BY <1>1, <1>2, KeyStep, ListStays DEF Key, InterfaceInv
<1> QED
  BY <1>3, <1>4, <1>5 DEF InterfaceInv

\* Every key keeps the invariant.
LEMMA KeysInv == ASSUME InterfaceInv, HandleKey PROVE InterfaceInv'
BY QuitInv, AlertVerifyInv, AlertRejectInv, AlertRejectPanicsInv, SelectContactInv,
   ChooseModeInv, VerifySelectedInv, DeleteSelectedInv, OpenConversationInv, ToSettingsInv,
   CloseExportInv, AddNothingInv, AddByCodeInv, AddByBootstrapInv, TypeNameInv,
   RejectRequestInv, AcceptRequestInv, LeaveSearchInv, EnterSearchInv, TypeDraftInv,
   ClearDraftInv, LeaveConversationInv, SendInv, SendFailsInv, SelectSettingInv,
   ActivateSettingInv, LeaveSettingsInv, EndEditInv, SaveEditInv
   DEF HandleKey

-----------------------------------------------------------------------------
(* What arrives.                                                           *)

\* A message is in the pane if its contact is at hand, and counted by the badge
\* if not.
LEMMA DeliverInv ==
  ASSUME InterfaceInv, NEW w \in Peer, NEW k \in 0..MaxKey, Deliver(w, k)
  PROVE  InterfaceInv'
<1>1. PICK id : id = contacts[Known(w, k)].id
  OBVIOUS
<1>2. PICK more : more = [convs EXCEPT ![id].n = @ + 1]
  OBVIOUS
<1>3. PICK pane : pane = [id |-> id, n |-> more[id].n]
  OBVIOUS
<1>4. /\ phase = "inbound" /\ phase' = "inbound" /\ convs[id].n < MaxMessages
      /\ convs' = IF OnScreen(id) THEN more ELSE [more EXCEPT ![id].unread = @ + 1]
      /\ ui' = IF OnScreen(id) THEN [ui EXCEPT !.messages = pane] ELSE ui
      /\ UNCHANGED <<contacts, moved, displaced, interrupted, draftFor, seen>>
  BY <1>1, <1>2, <1>3 DEF Deliver, Arrival, history
<1>5. id \in Id
  <2>1. Known(w, k) \in 1..Len(contacts)
    BY KnownAt DEF InterfaceInv, Deliver
  <2> QED
    BY <1>1, <2>1, Positions DEF InterfaceInv, Contact
<1>6. /\ convs \in [Id -> [n : 0..MaxMessages, unread : Nat]] /\ seen \in [Id -> Nat]
      /\ MaxMessages \in Nat
  BY InterfaceConstants DEF InterfaceInv, Shape, TypeOK
<1>7. convs[id] \in [n : 0..MaxMessages, unread : Nat] /\ convs[id].n + 1 \in 0..MaxMessages
  BY <1>4, <1>5, <1>6
<1>8. /\ more \in [Id -> [n : 0..MaxMessages, unread : Nat]]
      /\ \A i \in Id : more[i].unread = convs[i].unread
      /\ \A i \in Id : more[i].n = IF i = id THEN convs[i].n + 1 ELSE convs[i].n
  BY <1>2, <1>5, <1>6, <1>7
<1>9. /\ convs' \in [Id -> [n : 0..MaxMessages, unread : Nat]]
      /\ \A i \in Id : convs'[i].n = IF i = id THEN convs[i].n + 1 ELSE convs[i].n
      /\ \A i \in Id : convs'[i].unread =
                         IF i = id /\ ~OnScreen(id) THEN convs[i].unread + 1 ELSE convs[i].unread
  BY <1>4, <1>5, <1>8
<1>10. pane \in [id : Id, n : Nat] /\ pane.id = id /\ pane.n = convs[id].n + 1
  BY <1>3, <1>5, <1>7, <1>8
<1>11. /\ ui' \in Ui /\ ui'.pending = ui.pending /\ ui'.loaded = ui.loaded
       /\ ui'.mode = ui.mode /\ ui'.active = ui.active /\ ui'.selected = ui.selected
       /\ ui'.draft = ui.draft /\ ui'.tab = ui.tab
       /\ ui'.messages = IF OnScreen(id) THEN pane ELSE ui.messages
  BY <1>4, <1>10, UiFields DEF InterfaceInv, Ui
<1>12. Shape'
  BY <1>4, <1>9, <1>11, UiFields DEF InterfaceInv, Shape, TypeOK
<1>13. Current' = Current /\ IdAt(Current)' = IdAt(Current) /\ (InList(Current)' <=> InList(Current))
  BY <1>4, <1>11 DEF IdAt, InList, Current, Or
<1>14. DraftInv'
  BY <1>4, <1>11, <1>13 DEF InterfaceInv, DraftInv
<1>15. \A i \in Id : Shown(i)' = IF i = id THEN pane ELSE Shown(i)
  BY <1>9, <1>10, <1>3, <1>8 DEF Shown
<1>16. PaneInv'
  <2> SUFFICES ASSUME ~moved', ui'.loaded = Current'  PROVE ui'.messages = Whole'
    BY <1>4 DEF PaneInv
  <2>1. ui.messages = Whole
    BY <1>4, <1>11, <1>13 DEF InterfaceInv, PaneInv
  <2>2. CASE OnScreen(id)
    <3>1. InList(Current) /\ IdAt(Current) = id
      BY <1>5, <2>2, Positions, NoneIsNothing DEF InterfaceInv, OnScreen
    <3> QED
      BY <1>5, <1>11, <1>13, <1>15, <2>2, <3>1 DEF Whole
  <2>3. CASE ~OnScreen(id)
    <3>1. InList(Current) => IdAt(Current) \in Id /\ IdAt(Current) # id
      BY <2>3, Positions DEF InterfaceInv, OnScreen, InList
    <3> QED
      BY <1>11, <1>13, <1>15, <2>1, <2>3, <3>1 DEF Whole
  <2> QED
    BY <2>2, <2>3
<1>17. ASSUME NEW i \in Id, Awaits(i)  PROVE Awaits(i)'
  BY <1>4, <1>11, <1>13, <1>15, <1>17 DEF Awaits, OnScreen
<1>18. ASSUME NEW c \in Range(contacts'), c.id.via = "request"  PROVE convs'[c.id].n >= 1
  <2>1. c \in Range(contacts) /\ c.id \in Id /\ convs[c.id].n >= 1
    BY <1>4, <1>18, Positions DEF InterfaceInv, CountInv, Range, Contact
  <2> QED
    BY <1>6, <1>9, <2>1
<1>19. OnScreen(id) => Awaits(id)'
  BY <1>4, <1>5, <1>11, <1>13, <1>15 DEF Awaits, OnScreen
<1>20. ASSUME ~displaced', NEW i \in Id
       PROVE  convs'[i].n <= seen'[i] + convs'[i].unread \/ Awaits(i)'
  <2>1. convs[i].n <= seen[i] + convs[i].unread \/ Awaits(i)
    BY <1>4, <1>20 DEF InterfaceInv, CountInv
  <2>2. convs[i].n \in Nat /\ convs[i].unread \in Nat /\ seen[i] \in Nat
    BY <1>6
  <2>3. CASE i = id /\ OnScreen(id)
    BY <1>19, <2>3
  <2>4. CASE ~(i = id /\ OnScreen(id))
    BY <1>4, <1>9, <1>17, <2>1, <2>2, <2>4
  <2> QED
    BY <2>3, <2>4
<1>21. ASSUME ~displaced', ui'.messages # None
       PROVE  (ui.messages.n >= seen[ui.messages.id] \/ Awaits(ui.messages.id))'
  <2>1. CASE OnScreen(id)
    BY <1>10, <1>11, <1>19, <2>1 DEF Awaits
  <2>2. CASE ~OnScreen(id)
    <3>1. ui'.messages = ui.messages /\ ui.messages.id \in Id
      BY <1>11, <1>21, <2>2, UiFields DEF InterfaceInv, Ui
    <3>2. ui.messages.n >= seen[ui.messages.id] \/ Awaits(ui.messages.id)
      BY <1>4, <1>21, <3>1 DEF InterfaceInv, CountInv
    <3>3. PICK i \in Id : i = ui.messages.id
      BY <3>1
    <3> QED
      BY <1>4, <1>17, <3>1, <3>2, <3>3 DEF Awaits
  <2> QED
    BY <2>1, <2>2
<1>22. ui'.messages # None /\ ui'.messages.id.via = "request" => ui'.messages.n >= 1
  BY <1>7, <1>10, <1>11 DEF InterfaceInv, CountInv
<1>23. CountInv'
  BY <1>18, <1>20, <1>21, <1>22 DEF CountInv
<1> QED
  BY <1>12, <1>14, <1>16, <1>23 DEF InterfaceInv

\* What arrives and moves no position leaves the pane and the badges right.
LEMMA Unmoved ==
  ASSUME InterfaceInv, phase # "key", phase' # "key",
         ui'.messages = ui.messages, ui'.loaded = ui.loaded, ui'.active = ui.active,
         ui'.selected = ui.selected, SameIds, UNCHANGED <<convs, seen, moved, displaced>>
  PROVE  /\ PaneInv' /\ CountInv' /\ IdAt(Current)' = IdAt(Current)
         /\ \A i : Awaits(i)' <=> Awaits(i)
<1>1. Current' = Current
  BY DEF Current, Or
<1>2. (InList(Current)' <=> InList(Current)) /\ IdAt(Current)' = IdAt(Current)
  BY <1>1 DEF IdAt, InList, SameIds
<1>3. Whole' = Whole
  BY <1>2 DEF Whole, Shown
<1>4. PaneInv'
  BY <1>1, <1>3 DEF InterfaceInv, PaneInv
<1>5. \A i : Awaits(i)' <=> Awaits(i)
  BY <1>1, <1>2 DEF Awaits, Shown
<1>6. ASSUME NEW c \in Range(contacts'), c.id.via = "request"  PROVE convs'[c.id].n >= 1
  BY <1>6 DEF InterfaceInv, CountInv, SameIds, Range
<1>7. Awaits(ui.messages.id)' <=> Awaits(ui.messages.id)
  BY <1>1, <1>2 DEF Awaits, Shown
<1>8. CountInv'
  BY <1>5, <1>6, <1>7 DEF InterfaceInv, CountInv
<1> QED
  BY <1>2, <1>4, <1>5, <1>8

\* A request makes room for itself and changes nothing else.
LEMMA QueueRequestInv ==
  ASSUME InterfaceInv, NEW w \in Peer, NEW k \in 0..MaxKey, QueueRequest(w, k)
  PROVE  InterfaceInv'
<1> DEFINE r == [who |-> w, key |-> k]
           rest == IF Len(ui.pending) >= MaxPending THEN Tail(ui.pending) ELSE ui.pending
           list == Append(rest, r)
           new == [ui EXCEPT !.pending = list]
<1>1. /\ ui.pending \in Seq(Request) /\ Len(ui.pending) \in 0..MaxPending
      /\ MaxPending \in Nat \ {0} /\ r \in Request
  BY UiFields, InterfaceConstants DEF InterfaceInv, Request
<1>2. rest \in Seq(Request) /\ Len(rest) \in 0..MaxPending - 1
  <2>1. CASE Len(ui.pending) >= MaxPending
    <3>1. ui.pending # <<>>
      BY <1>1, <2>1
    <3> QED
      BY <1>1, <2>1, <3>1, HeadTailProperties
  <2>2. CASE ~(Len(ui.pending) >= MaxPending)
    BY <1>1, <2>2
  <2> QED
    BY <2>1, <2>2
<1> HIDE DEF rest, r
<1>3. list \in Seq(Request) /\ Len(list) <= MaxPending
  BY <1>1, <1>2
<1>4. ui' = new
  BY DEF QueueRequest, rest, r
<1> HIDE DEF list
<1>5. /\ new \in Ui /\ new.pending = list /\ new.messages = ui.messages
      /\ new.loaded = ui.loaded /\ new.mode = ui.mode /\ new.active = ui.active
      /\ new.selected = ui.selected /\ new.draft = ui.draft /\ new.tab = ui.tab
  BY <1>3, UiFields DEF InterfaceInv, Ui
<1> HIDE DEF new
<1>6. /\ phase = "inbound" /\ phase' = "inbound"
      /\ UNCHANGED <<contacts, convs, moved, displaced, interrupted, draftFor, seen>>
  BY DEF QueueRequest, Arrival, history
<1>7. Shape'
  BY <1>3, <1>4, <1>5, <1>6 DEF InterfaceInv, Shape, TypeOK
<1>8. PaneInv' /\ CountInv' /\ IdAt(Current)' = IdAt(Current)
  BY <1>4, <1>5, <1>6, Unmoved, ListStays
<1>9. DraftInv'
  BY <1>4, <1>5, <1>6, <1>8 DEF InterfaceInv, DraftInv
<1> QED
  BY <1>7, <1>8, <1>9 DEF InterfaceInv

\* A new key of a contact comes under an alert; no position names another contact.
LEMMA InstallKeyInv ==
  ASSUME InterfaceInv, NEW w \in Peer, NEW k \in 0..MaxKey, InstallKey(w, k)
  PROVE  InterfaceInv'
<1>1. PICK p : p = Known(w, k)
  OBVIOUS
<1>2. p \in 1..Len(contacts) /\ contacts[p] \in Contact /\ k \in 0..MaxKey - 1
  BY <1>1, KnownAt, Positions, InterfaceConstants DEF InterfaceInv, InstallKey
<1>3. PICK c : c = [contacts[p] EXCEPT !.key = k + 1, !.verified = FALSE, !.seq = k + 1]
  OBVIOUS
<1>4. c \in Contact /\ c.id = contacts[p].id
  <2>1. k + 1 \in 0..MaxKey /\ k + 1 \in 0..MaxKey + 1
    BY <1>2, InterfaceConstants
  <2> QED
    BY <1>2, <1>3, <2>1 DEF Contact
<1>5. contacts' = [contacts EXCEPT ![p] = c]
  BY <1>1, <1>3 DEF InstallKey
<1>6. contacts' \in Seq(Contact) /\ Len(contacts') = Len(contacts) /\ SameIds
  <2>1. contacts \in Seq(Contact)
    BY DEF InterfaceInv, Shape, TypeOK
  <2>2. /\ contacts' \in Seq(Contact) /\ Len(contacts') = Len(contacts)
        /\ \A j \in 1..Len(contacts) : contacts'[j] = IF j = p THEN c ELSE contacts[j]
    BY <1>2, <1>4, <1>5, <2>1, ExceptSeq
  <2> QED
    BY <1>4, <2>1, <2>2, LenProperties DEF SameIds
<1> DEFINE new == [ui EXCEPT !.alert = contacts[p].id, !.mode = "KeyAlert", !.tab = "Contacts"]
<1>7. ui' = new
  BY <1>1 DEF InstallKey
<1>8. /\ new \in Ui /\ new.pending = ui.pending /\ new.messages = ui.messages
      /\ new.loaded = ui.loaded /\ new.active = ui.active /\ new.selected = ui.selected
      /\ new.draft = ui.draft /\ new.tab = "Contacts"
  <2>1. contacts[p].id \in Id
    BY <1>2 DEF Contact
  <2> QED
    BY <2>1, UiFields DEF InterfaceInv, Ui, Modes, Tabs
<1> HIDE DEF new
<1>9. /\ phase = "inbound" /\ phase' = "inbound" /\ interrupted' = ui.draft
      /\ UNCHANGED <<convs, moved, displaced, draftFor, seen>>
  BY DEF InstallKey, Arrival
<1>10. Shape'
  BY <1>6, <1>7, <1>8, <1>9, UiFields, Positions DEF InterfaceInv, Shape, TypeOK
<1>11. PaneInv' /\ CountInv'
  BY <1>6, <1>7, <1>8, <1>9, Unmoved
<1>12. DraftInv'
  BY <1>7, <1>8, <1>9 DEF DraftInv
<1> QED
  BY <1>10, <1>11, <1>12 DEF InterfaceInv

\* What arrives and changes the list itself: the exceptions of the properties.
LEMMA ListArrival ==
  ASSUME InterfaceInv, phase = "inbound", phase' = "inbound", NEW new \in Ui, ui' = new,
         Len(new.pending) <= MaxPending, new.messages = ui.messages, new.draft = ui.draft,
         new.mode = ui.mode, new.tab = ui.tab, UNCHANGED <<convs, seen>>,
         interrupted' = ui.draft, moved' = TRUE, displaced' = TRUE,
         contacts' \in Seq(Contact), Len(contacts') <= MaxContacts,
         \A c \in Range(contacts') : c.id.via = "request" => convs[c.id].n >= 1
  PROVE  InterfaceInv'
<1>1. Shape'
  BY UiFields DEF InterfaceInv, Shape, TypeOK
<1>2. DraftInv' /\ PaneInv'
  BY DEF InterfaceInv, DraftInv, PaneInv
<1>3. CountInv'
  BY DEF InterfaceInv, CountInv
<1> QED
  BY <1>1, <1>2, <1>3 DEF InterfaceInv

\* A contact that is retired leaves the list.
LEMMA RetireContactInv ==
  ASSUME InterfaceInv, NEW w \in Peer, NEW k \in 0..MaxKey, RetireContact(w, k)
  PROVE  InterfaceInv'
<1>1. PICK p : p = Known(w, k)
  OBVIOUS
<1>2. p \in 1..Len(contacts) /\ RemoveContact(p)
  BY <1>1, KnownAt DEF InterfaceInv, RetireContact
<1>3. /\ contacts' \in Seq(Contact) /\ Len(contacts') = Len(contacts) - 1
      /\ Range(contacts') \subseteq Range(contacts)
  BY <1>2, Removed DEF InterfaceInv
<1>4. Len(contacts') <= MaxContacts
  BY <1>3, Positions, InterfaceConstants DEF InterfaceInv
<1>5. \A c \in Range(contacts') : c.id.via = "request" => convs[c.id].n >= 1
  BY <1>3 DEF InterfaceInv, CountInv
<1> QED
  BY <1>3, <1>4, <1>5, UiFields, ListArrival DEF RetireContact, Arrival, InterfaceInv

\* A bundle that was asked for becomes a contact, which is selected.
LEMMA ReceiveBundleInv ==
  ASSUME InterfaceInv, NEW w \in Peer, NEW k \in 0..MaxKey, ReceiveBundle(w, k)
  PROVE  InterfaceInv'
<1> DEFINE c == NewContact(w, k, "code")
           rest == RemoveFirst(ui.asked, [who |-> w, key |-> k])
           new == [ui EXCEPT !.asked = rest, !.selected = Len(contacts) + 1]
<1>1. c \in Contact /\ c.id.via = "code"
  <2>1. c \in Contact /\ c.id = [who |-> w, key |-> k, via |-> "code"]
    BY IsContact, "code" \in {"code", "request"}
  <2> QED
    BY <2>1
<1> HIDE DEF c
<1>2. /\ contacts' \in Seq(Contact) /\ Len(contacts') <= MaxContacts
      /\ Len(contacts) + 1 \in Pos /\ Range(contacts') = Range(contacts) \cup {c}
  BY <1>1, Added DEF InterfaceInv, ReceiveBundle, c
<1>3. rest \in Seq(Request)
  BY UiFields, RemoveFirstIsSeq DEF InterfaceInv
<1>4. ui' = new
  BY DEF ReceiveBundle
<1> HIDE DEF rest
<1>5. /\ new \in Ui /\ new.pending = ui.pending /\ new.messages = ui.messages
      /\ new.loaded = ui.loaded /\ new.draft = ui.draft /\ new.mode = ui.mode
      /\ new.tab = ui.tab
  BY <1>2, <1>3, UiFields DEF InterfaceInv, Ui
<1> HIDE DEF new
<1>6. \A d \in Range(contacts') : d.id.via = "request" => convs[d.id].n >= 1
  BY <1>1, <1>2 DEF InterfaceInv, CountInv
<1> QED
  BY <1>2, <1>4, <1>5, <1>6, UiFields, ListArrival DEF ReceiveBundle, Arrival, InterfaceInv

\* Whatever arrives keeps the invariant.
LEMMA ArrivalsInv == ASSUME InterfaceInv, HandleArrival PROVE InterfaceInv'
BY DeliverInv, QueueRequestInv, InstallKeyInv, RetireContactInv, ReceiveBundleInv
   DEF HandleArrival

-----------------------------------------------------------------------------
(* The loop.                                                               *)

\* A turn in which nothing happens.
LEMMA IdleInv == ASSUME InterfaceInv, NoKey \/ LoopAgain PROVE InterfaceInv'
<1>1. /\ phase \in {"key", "inbound"} /\ phase' \in {"draw", "inbound", "ended"}
      /\ UNCHANGED <<contacts, convs, settings, ui, history>>
  BY DEF NoKey, LoopAgain
<1>2. Shape'
  BY <1>1 DEF InterfaceInv, Shape, TypeOK, history
<1>3. IdAt(Current)' = IdAt(Current) /\ Whole' = Whole /\ Current' = Current
  BY <1>1 DEF IdAt, InList, Current, Or, Whole, Shown
<1>4. DraftInv' /\ PaneInv'
  BY <1>1, <1>3 DEF InterfaceInv, DraftInv, PaneInv, history
<1>5. ASSUME NEW i, Awaits(i)  PROVE Awaits(i)'
  BY <1>1, <1>3, <1>5 DEF Awaits, Shown
<1>6. Awaits(ui.messages.id) => Awaits(ui.messages.id)'
  BY <1>1, <1>3 DEF Awaits, Shown
<1>7. CountInv'
  BY <1>1, <1>5, <1>6 DEF InterfaceInv, CountInv, history
<1> QED
  BY <1>2, <1>4, <1>7 DEF InterfaceInv

\* What is drawn: the conversation at hand if another was loaded, or else what is in
\* the pane, which the arrivals have kept up to date.
LEMMA DrawInv == ASSUME InterfaceInv, Draw PROVE InterfaceInv'
<1>1. PICK id : id = IdAt(Current)
  OBVIOUS
<1>2. PICK cur : cur = Current
  OBVIOUS
<1>3. PICK load \in BOOLEAN : load <=> MustLoad
  OBVIOUS
<1>4. PICK now : now = IF load THEN IF id = None THEN None ELSE Shown(id) ELSE ui.messages
  OBVIOUS
<1>5. /\ phase = "draw" /\ phase' = "key"
      /\ ui' = [ui EXCEPT !.messages = now, !.loaded = cur]
      /\ convs' = IF load /\ id # None THEN [convs EXCEPT ![id].unread = 0] ELSE convs
      /\ seen' = IF now # None THEN [seen EXCEPT ![now.id] = now.n] ELSE seen
      /\ moved' = (moved /\ ~load)
      /\ UNCHANGED <<contacts, settings, interrupted, draftFor, displaced>>
  BY <1>1, <1>2, <1>3, <1>4 DEF Draw
<1>6. id \in Id \cup {None} /\ cur \in Pos /\ (id # None <=> InList(cur))
  BY <1>1, <1>2, Positions DEF InterfaceInv, IdAt, InList
<1>7. convs \in [Id -> [n : 0..MaxMessages, unread : Nat]] /\ seen \in [Id -> Nat]
  BY DEF InterfaceInv, Shape, TypeOK
<1>8. /\ convs' \in [Id -> [n : 0..MaxMessages, unread : Nat]]
      /\ \A i \in Id : convs'[i].n = convs[i].n
      /\ \A i \in Id : convs'[i].unread = IF load /\ i = id THEN 0 ELSE convs[i].unread
  <2>1. CASE load /\ id # None
    BY <1>5, <1>6, <1>7, <2>1
  <2>2. CASE ~(load /\ id # None)
    BY <1>5, <1>6, <1>7, <2>2, NoneIsNothing
  <2> QED
    BY <2>1, <2>2
<1>9. ASSUME NEW i \in Id  PROVE Shown(i) \in [id : Id, n : Nat] /\ Shown(i)' = Shown(i)
  BY <1>7, <1>8 DEF Shown
<1>10. now \in [id : Id, n : Nat] \cup {None}
  BY <1>4, <1>6, <1>9, UiFields DEF InterfaceInv, Ui
<1>11. /\ ui' \in Ui /\ ui'.pending = ui.pending /\ ui'.messages = now /\ ui'.loaded = cur
       /\ ui'.mode = ui.mode /\ ui'.active = ui.active /\ ui'.selected = ui.selected
       /\ ui'.draft = ui.draft /\ ui'.tab = ui.tab
  BY <1>5, <1>6, <1>10, UiFields DEF InterfaceInv, Ui
<1>12. seen' \in [Id -> Nat] /\ \A i \in Id : seen'[i] = IF now # None /\ i = now.id THEN now.n ELSE seen[i]
  BY <1>5, <1>7, <1>10
<1>13. moved' \in BOOLEAN
  BY <1>5
<1>14. Shape'
  BY <1>5, <1>8, <1>11, <1>12, <1>13, UiFields DEF InterfaceInv, Shape, TypeOK
<1>15. Current' = cur /\ IdAt(Current)' = id /\ (InList(Current)' <=> InList(cur))
  BY <1>1, <1>2, <1>5, <1>11 DEF IdAt, InList, Current, Or
<1>16. DraftInv'
  BY <1>1, <1>5, <1>11, <1>15 DEF InterfaceInv, DraftInv
<1>17. ~moved' => now = IF InList(cur) THEN Shown(id) ELSE None
  <2>1. CASE load
    BY <1>4, <1>6, <2>1
  <2>2. CASE ~load
    <3>1. ui.loaded = cur /\ now = ui.messages /\ (~moved' => ~moved)
      BY <1>2, <1>3, <1>4, <1>5, <2>2 DEF MustLoad
    <3> QED
      BY <1>1, <1>2, <3>1 DEF InterfaceInv, PaneInv, Whole
  <2> QED
    BY <2>1, <2>2
<1>18. PaneInv'
  BY <1>6, <1>9, <1>11, <1>15, <1>17 DEF PaneInv, Whole
<1>19. ASSUME NEW c \in Range(contacts'), c.id.via = "request"  PROVE convs'[c.id].n >= 1
  <2>1. c \in Range(contacts) /\ c.id \in Id /\ convs[c.id].n >= 1
    BY <1>5, <1>19, Positions DEF InterfaceInv, CountInv, Range, Contact
  <2> QED
    BY <1>8, <2>1
<1>20. ASSUME now # None, now.id.via = "request"  PROVE now.n >= 1
  <2>1. CASE load
    <3>1. now = Shown(id) /\ cur \in DOMAIN contacts /\ contacts[cur].id = id
      BY <1>1, <1>2, <1>4, <1>6, <1>20, <2>1 DEF IdAt, InList
    <3>2. contacts[cur] \in Range(contacts) /\ now.id = id /\ now.n = convs[id].n
      BY <3>1 DEF Range, Shown
    <3> QED
      BY <1>20, <3>1, <3>2 DEF InterfaceInv, CountInv
  <2>2. CASE ~load
    BY <1>4, <1>20, <2>2 DEF InterfaceInv, CountInv
  <2> QED
    BY <2>1, <2>2
<1>21. ASSUME ~displaced', NEW i \in Id  PROVE convs'[i].n <= seen'[i] + convs'[i].unread
  <2>1. convs[i].n <= seen[i] + convs[i].unread \/ Awaits(i)
    BY <1>5, <1>21 DEF InterfaceInv, CountInv
  <2>2. convs[i].n \in Nat /\ convs[i].unread \in Nat /\ seen[i] \in Nat
    BY <1>7
  <2>3. CASE load /\ i = id
    <3>1. now = Shown(i) /\ now # None
      BY <1>4, <1>6, <1>9, <2>3, NoneIsNothing
    <3> QED
      BY <1>8, <1>12, <2>2, <2>3, <3>1 DEF Shown
  <2>4. CASE load /\ i # id
    <3>1. ~Awaits(i) /\ seen'[i] = seen[i]
      BY <1>1, <1>4, <1>12, <2>4 DEF Awaits, Shown
    <3> QED
      BY <1>8, <2>1, <2>4, <3>1
  <2>5. CASE ~load
    <3>1. now = ui.messages /\ ui.loaded = Current
      BY <1>3, <1>4, <2>5 DEF MustLoad
    <3>2. CASE Awaits(i)
      <4>1. now = Shown(i) /\ now # None
        BY <1>9, <3>1, <3>2, NoneIsNothing DEF Awaits
      <4> QED
        BY <1>8, <1>12, <2>2, <2>5, <4>1 DEF Shown
    <3>3. CASE ~Awaits(i)
      <4>1. CASE now # None /\ now.id = i
        <5>1. now.n >= seen[i] /\ now.n \in Nat
          BY <1>5, <1>10, <1>21, <3>1, <3>3, <4>1 DEF InterfaceInv, CountInv
        <5> QED
          BY <1>8, <1>12, <2>1, <2>2, <2>5, <3>3, <4>1, <5>1
      <4>2. CASE ~(now # None /\ now.id = i)
        BY <1>8, <1>12, <2>1, <2>5, <3>3, <4>2
      <4> QED
        BY <4>1, <4>2
    <3> QED
      BY <3>2, <3>3
  <2> QED
    BY <2>3, <2>4, <2>5
<1>22. now # None => now.n >= seen'[now.id]
  BY <1>10, <1>12
<1>23. CountInv'
  BY <1>11, <1>19, <1>20, <1>21, <1>22 DEF CountInv
<1> QED
  BY <1>14, <1>16, <1>18, <1>23 DEF InterfaceInv

\* The first state: nothing is loaded, and every message counts as unread.
LEMMA InitInv == ASSUME Init PROVE InterfaceInv
<1>1. /\ ui = NewUi /\ phase = "draw" /\ moved = FALSE /\ displaced = FALSE
      /\ interrupted = FALSE /\ seen = [id \in Id |-> 0]
  BY DEF Init
<1>2. PICK s \in SeqOf(Peer, 2) : contacts = [i \in DOMAIN s |-> NewContact(s[i], 0, "code")]
  BY DEF Init
<1>3. PICK m \in 0..2 : s \in [1..m -> Peer]
  BY <1>2 DEF SeqOf
<1>4. \A i \in 1..m : /\ NewContact(s[i], 0, "code") \in Contact
                      /\ NewContact(s[i], 0, "code").id.via = "code"
  BY <1>3, InterfaceConstants DEF NewContact, Contact, Id
<1>5. contacts = [i \in 1..m |-> NewContact(s[i], 0, "code")]
  BY <1>2, <1>3
<1>6. contacts \in Seq(Contact) /\ Len(contacts) = m /\ DOMAIN contacts = 1..m
  BY <1>4, <1>5
<1>7. Len(contacts) <= MaxContacts
  BY <1>6, InterfaceConstants
<1>8. PICK some : convs = [id \in Id |-> IF id \in some THEN [n |-> 1, unread |-> 1]
                                         ELSE [n |-> 0, unread |-> 0]]
  BY DEF Init
<1>9. /\ convs \in [Id -> [n : 0..MaxMessages, unread : Nat]]
      /\ \A id \in Id : convs[id].n = convs[id].unread
  BY <1>8, InterfaceConstants
<1>10. ui \in Ui /\ Len(ui.pending) <= MaxPending
  <2>1. 0 \in Pos /\ 1 \in Pos /\ 1 \in 1..NumSettings /\ <<>> \in Seq(Request)
    BY InterfaceConstants, EmptySeq DEF Pos, NoPos, NumSettings
  <2>2. NewUi \in Ui
    BY <2>1 DEF NewUi, Ui, Tabs, Modes, Edits, NoPos
  <2>3. ui.pending = <<>>
    BY <1>1 DEF NewUi
  <2> QED
    BY <1>1, <2>2, <2>3, EmptySeq, InterfaceConstants
<1>11. seen \in [Id -> Nat] /\ \A id \in Id : seen[id] = 0
  BY <1>1
<1>12. Shape
  BY <1>1, <1>6, <1>7, <1>9, <1>10, <1>11 DEF Shape, TypeOK
<1>13. /\ ui.mode = "List" /\ ui.draft = FALSE /\ ui.loaded = 0 /\ ui.messages = None
       /\ Current = 1
  BY <1>1 DEF NewUi, Current, Or, NoPos
<1>14. DraftInv /\ PaneInv
  BY <1>1, <1>13 DEF DraftInv, PaneInv
<1>15. \A c \in Range(contacts) : c.id.via = "code"
  BY <1>4, <1>5 DEF Range
<1>16. \A id \in Id : convs[id].n <= seen[id] + convs[id].unread
  BY <1>9, <1>11
<1>17. CountInv
  BY <1>13, <1>15, <1>16 DEF CountInv
<1> QED
  BY <1>12, <1>14, <1>17 DEF InterfaceInv

-----------------------------------------------------------------------------
(* The theorems.                                                           *)

\* What the theorems below rest on holds in every state.
THEOREM Invariance == Spec => []InterfaceInv
<1>1. InterfaceInv /\ [Next]_vars => InterfaceInv'
  <2>1. ASSUME InterfaceInv, UNCHANGED vars  PROVE InterfaceInv'
    <3>1. /\ contacts' = contacts /\ convs' = convs /\ ui' = ui /\ phase' = phase
          /\ moved' = moved /\ displaced' = displaced /\ interrupted' = interrupted
          /\ draftFor' = draftFor /\ seen' = seen
      BY <2>1 DEF vars
    <3>2. Shape' /\ DraftInv'
      BY <2>1, <3>1 DEF InterfaceInv, Shape, TypeOK, DraftInv, IdAt, InList, Current, Or
    <3>3. PaneInv'
      BY <2>1, <3>1 DEF InterfaceInv, PaneInv, Whole, Shown, IdAt, InList, Current, Or
    <3>4. CountInv'
      BY <2>1, <3>1 DEF InterfaceInv, CountInv, Awaits, Shown, IdAt, InList, Current, Or
    <3> QED
      BY <3>2, <3>3, <3>4 DEF InterfaceInv
  <2> QED
    BY <2>1, DrawInv, KeysInv, IdleInv, ArrivalsInv DEF Next
<1> QED
  BY <1>1, InitInv, PTL DEF Spec

\* The state has the types it should: no key and no arrival takes a position, the
\* list or the requests beyond their bounds.
THEOREM TypesCorrect == Spec => []TypeOK
BY Invariance, PTL DEF InterfaceInv, Shape

\* A draft goes to the contact it was begun for, whatever keys the user presses.
THEOREM DraftsKeepTheirRecipient == Spec => []DraftKeepsRecipient
<1>1. InterfaceInv => DraftKeepsRecipient
  BY DEF InterfaceInv, DraftInv, DraftKeepsRecipient
<1> QED
  BY <1>1, Invariance, PTL

\* When a key is read, and unless the list changed since a conversation was loaded,
\* the pane has the whole conversation with the contact it is titled with.
THEOREM PaneIsCurrent == Spec => []ShownIsCurrent
<1>1. InterfaceInv => ShownIsCurrent
  BY DEF InterfaceInv, PaneInv, Whole, ShownIsCurrent
<1> QED
  BY <1>1, Invariance, PTL

\* Every message was in the pane or is counted by the badge of its conversation,
\* unless an arrival changed which contact is at hand.
THEOREM NoMessageUnnoticed == Spec => []UnseenIsCounted
<1>1. InterfaceInv => UnseenIsCounted
  BY DEF InterfaceInv, CountInv, Awaits, UnseenIsCounted
<1> QED
  BY <1>1, Invariance, PTL

=============================================================================
