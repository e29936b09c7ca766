SPECIFICATION InputSpec
CONSTANTS
  me = me
  you = you
  Local = me
  PeerScreens <- MCScreens
  NoScreen = NoScreen
  Setups <- MCSetups
  Sizes <- MCSizes
  Motions <- MCMotions
  Drifts <- MCDrifts
  EdgePush = 2
  PhantomGuard = 3
  SettleDepth = 2
  ReturnPush = 4
  ReturnEdge = 2
  EntryInset = 2
  ReturnInset = 1
  ReturnClear = 3
  Diverge = 1
  Slide = 1
  Park = 1
  None = None
  p1 = p1
  Peers = {p1}
  e1 = e1
  Epochs = {e1}
  t1 = t1
  t2 = t2
  Streams = {t1, t2}
  c1 = c1
  Callers = {c1}
  BanCap = 1
  MaxPending = 1
  Ghosts <- NoGhosts
  Faults = {}
SYMMETRY Symmetry
VIEW Live
INVARIANTS
  RegistryExact
  RevocationReaches
  QueueExact
  PhantomRefused
  RouterEdgeOpens
  RouterCanComeHome
  RouterHeldShoveStaysHome
CHECK_DEADLOCK FALSE
