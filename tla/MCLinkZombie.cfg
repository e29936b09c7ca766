SPECIFICATION Spec
CONSTANTS
  None = None
  p1 = p1
  Peers = {p1}
  e1 = e1
  Epochs = {e1}
  t1 = t1
  Streams = {t1}
  c1 = c1
  Callers = {c1}
  BanCap = 1
  MaxPending = 1
  Ghosts <- NoGhosts
  Faults = {}
SYMMETRY Symmetry
VIEW Live
PROPERTIES
  NoZombie
