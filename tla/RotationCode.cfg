SPECIFICATION Spec
CONSTANTS
  alice = alice
  bob = bob
  carol = carol
  User = {alice, bob}
  Zero = Zero
  WireCap = 4608
  MaxContacts = 2
  MaxKeys = 3
  MaxOps = 6
INVARIANTS
  NewCodeWorks
SYMMETRY Symmetry
CHECK_DEADLOCK FALSE
