SPECIFICATION FairSpec
CONSTANTS
  None = None
  A = A
  B = B
  k1 = k1
  Machines = {A, B}
  Epochs = {1, 2}
  Kids = {k1}
  Budget = 2
  First = A
  Slow = {A}
  Expiry = {B}
CHECK_DEADLOCK FALSE
INVARIANTS
  Consented
PROPERTIES
  Converges
  HangUpLands


