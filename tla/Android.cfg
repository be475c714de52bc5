SPECIFICATION Spec
CONSTANTS
  p1 = p1
  Peer = {p1}
  OpkBatch = 2
  OpkThreshold = 0
  MaxPending = 1
  WireCap = 8192
  IdsAgree = TRUE
  NoVault = NoVault
  NoOpk = NoOpk
  None = None
  MaxEvents = 7
  MaxFrames = 2
  MaxBatch = 2
  MaxKills = 1
  MaxContacts = 2
INVARIANTS
  TypeOK
  PositionSentOnce
  ShownIsCurrent
  PrekeySpentOnRequest
