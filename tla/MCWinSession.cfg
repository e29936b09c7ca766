SPECIFICATION WinControlTimedSpec
CONSTANTS
  Desks <- OneDesk
  MaxBridges = 2
  ChanRoom = 1
  PipeRoom = 1
  MaxCmds = 1
PROPERTIES
  NewSessionServed
CHECK_DEADLOCK FALSE
