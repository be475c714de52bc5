SPECIFICATION Spec
CONSTANTS
  d1 = d1
  d2 = d2
  Doc = {d1}
  EmptyDoc = EmptyDoc
  DuressDoc = DuressDoc
  NoFile = NoFile
  Torn = Torn
  Closed = Closed
  NoJob = NoJob
  MaxSeq = 2
  PowerCuts = TRUE
  Tampering = TRUE
INVARIANTS
  TypeOK
  AckedDurable
  SeqNamesVersion
  NeverTorn
  PassphrasesKeepMeaning
PROPERTIES
  RollbackDetected
  ImplementsRegister
CONSTRAINT OneFault
