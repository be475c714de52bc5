SPECIFICATION LiveSpec
CONSTANTS
  m1 = m1 m2 = m2 m3 = m3 bob = bob carol = carol
  r1 = r1 r2 = r2 r3 = r3
  NoMsg = NoMsg
  Cover = Cover
  Msg = {m1, m2}
  Contact = {bob}
  Addressee <- TwoToBob
  Established = {bob}
  Rx = {r1, r2, r3}
  QueueCap = 2
  RetryInterval = 2
  MaxRetries = 2
  MaxSeqGap = 3
  MaxDelay = 2
  RetryBound = 2
  FailingSaves = {"prune_save", "other_save", "drain_save", "exit_save"}
  Crashes = TRUE
  CoverTraffic = FALSE
INVARIANTS
  UniqueMessageKey
PROPERTIES
  ImplementsQueue
  QueueDrains
