SPECIFICATION ServiceSpec
CONSTANTS
  Desks <- TwoDesks
  MaxBridges = 1
  ChanRoom = 1
  PipeRoom = 1
  MaxCmds = 1
  InjDesks <- OneHelper
  Owners = {"winlogon", "default"}
  k1 = k1
  InjKeys = {k1}
  MaxFailed = 2
  MaxInbox = 2
  MaxAsked = 2
PROPERTIES
  WcLocalReturns
  KeysLift
CHECK_DEADLOCK FALSE
