SPECIFICATION Spec
CONSTANTS
  alice = alice
  bob = bob
  carol = carol
  User = {alice, bob}
  Zero = Zero
  WireCap = 8192
  MaxContacts = 2
  MaxKeys = 3
  MaxOps = 6
INVARIANTS
  TypeOK
  ChainUnbroken
  HandshakeAgrees
PROPERTIES
  NoKeyRollback
SYMMETRY Symmetry
CHECK_DEADLOCK FALSE
