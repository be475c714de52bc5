SPECIFICATION Spec
CONSTANTS
  p1 = p1
  p2 = p2
  Peer = {p1, p2}
  None = None
  MaxPending = 1
  MaxKey = 1
  MaxContacts = 2
  MaxMessages = 2
  MaxEvents = 6
SYMMETRY Symmetry
CHECK_DEADLOCK FALSE
INVARIANTS
  ConversationOpens
