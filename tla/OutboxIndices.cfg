SPECIFICATION Spec
CONSTANTS
  m1 = m1 m2 = m2 m3 = m3 bob = bob carol = carol
  r1 = r1 r2 = r2 r3 = r3
  NoMsg = NoMsg
  Cover = Cover
  Msg = {m1, m2, m3}
  Contact = {bob, carol}
  Addressee <- TwoAndOne
  Established = {}
  Rx = {r1, r2, r3}
  QueueCap = 1
  RetryInterval = 1
  MaxRetries = 1
  MaxSeqGap = 1
  MaxDelay = 1
  RetryBound = 1
  FailingSaves = {}
  Crashes = FALSE
  CoverTraffic = TRUE
INVARIANTS
  TypeOK
  TrackedEntries
  NoDoubleSend
