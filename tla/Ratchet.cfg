SPECIFICATION Spec
CONSTANTS
  MaxSkip = 2
  MaxAge = 2
  MaxSends = 5
  NoKey = NoKey
INVARIANTS
  TypeOK
  ReplayRejected
  Readable
  ExpiredUnreadable
  ForwardSecrecy
  FewLossesHarmless
