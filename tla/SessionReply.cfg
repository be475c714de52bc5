SPECIFICATION Spec
CONSTANTS
  alice = alice
  bob = bob
  carol = carol
  User = {alice, bob, carol}
  OpkBatch = 2
  OpkThreshold = 1
  MaxPending = 1
  Texts = {40, 484}
  NoOpk = NoOpk
  NoSession = NoSession
  MaxOps = 5
  MaxLog = 2
INVARIANTS
  ReplyPossible
SYMMETRY Symmetry
CHECK_DEADLOCK FALSE
