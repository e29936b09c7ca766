SPECIFICATION PeersSpec
CONSTANTS
  Keys = {key, ctrl}
  Ctrl = ctrl
  Targets = {near, far}
  Drivers = {"topology", "console", "service"}
  NoPeer = nobody
  MaxEvents = 4
  MaxFaults = 2
  MaxDrives = 2
  None = None
  p1 = p1
  p2 = p2
  Peers = {p1, p2}
  e1 = e1
  Epochs = {e1}
  t1 = t1
  Streams = {t1}
  c1 = c1
  Callers = {c1}
  BanCap = 1
  MaxPending = 1
  Ghosts <- OneMachine
  Faults = {"save"}
SYMMETRY PeersSymmetry
VIEW PeersLive
INVARIANTS
  OnlyConsentedLinksServe
  ConsentBasis
  NoStuckKey
  RemoteFollows
CHECK_DEADLOCK FALSE
