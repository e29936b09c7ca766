SPECIFICATION Spec
CONSTANTS
  None = None
  A = A
  B = B
  k1 = k1
  Machines = {A, B}
  Epochs = {1, 2}
  Kids = {k1}
  Budget = 2
  First = A
  Slow = {}
  Expiry = {B}
CHECK_DEADLOCK FALSE
PROPERTIES
  OwnMessage
