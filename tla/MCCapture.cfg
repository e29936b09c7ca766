SPECIFICATION FairSpec
CONSTANTS
  k1 = k1
  LastNode = 2
  Loose = {2}
  Shy = {2}
  Keys = {k1}
  MaxBuf <- FirstLate
  MaxX = 1
  Room = 1
  Limit = 1
  Typematic = TRUE
CHECK_DEADLOCK FALSE
INVARIANTS
  NoGhost
  HeldStays
PROPERTIES
  LocalReturns
