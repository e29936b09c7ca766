SPECIFICATION LetGoSpec
CONSTANTS
  None = None
  p1 = p1
  Peers = {p1}
  e1 = e1
  Epochs = {e1}
  t1 = t1
  Streams = {t1}
  c1 = c1
  Callers = {c1}
  BanCap = 1
  MaxPending = 1
  Ghosts <- NoGhosts
  Faults = {"reply"}
  NoDriver = NoDriver
  d1 = d1
  d2 = d2
  k1 = k1
  Drivers = {d1, d2}
  Fixed = {d2}
  Keys = {k1}
  MaxDriveWire = 3
  MaxMotion = 0
  DriveFaults = {"stall", "park", "lost", "inject"}
INVARIANTS
  NoStuckKeys
PROPERTIES
  DriverLetsGo
  LinkHangUpLands
