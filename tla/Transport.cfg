SPECIFICATION Spec
CONSTANTS
  p1 = p1
  p2 = p2
  v1 = v1
  c1 = c1
  c2 = c2
  Process = {p1, p2}
  Vault = {v1}
  Conn = {c1, c2}
  NoProcess = NoProcess
  MaxInbound = 1
  MaxNewnym = 1
  MaxWrites = 3
  MaxStarts = 2
INVARIANTS
  TypeOK
  NoLostUpdate
  LeavesNothing
PROPERTIES
  FrameHandled
CHECK_DEADLOCK FALSE
