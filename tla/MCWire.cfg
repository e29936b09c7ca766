SPECIFICATION WireSpec
CONSTANTS
  NoDriver = NoDriver
  k1 = k1
  Drivers = {s1, s2}
  Fixed = {}
  Keys = {k1}
  MaxDriveWire = 3
  MaxMotion = 1
  DriveFaults = {"hang"}
  Sizes = {2, 4}
  MaxFrames = 5
  Window = 3
  FrameFaults = {"stall", "cancel"}
  None = None
  e1 = e1
  e2 = e2
  s1 = s1
  s2 = s2
  Epochs = {e1, e2}
  Sessions = {s1, s2}
  MaxChild = 2
  MaxSeq = 2
  MaxWire = 1
  Channel = 1
  SeenCap = 1
  MotionFaults = {"dup", "expire", "trim"}
SYMMETRY Symmetry
VIEW Live
INVARIANTS
  DeliveredInOrder
  NothingSkipped
  SinkOfNewest
  AppliedOnce
  KeysGetThrough
  NextDeltaGlides
PROPERTIES
  OwnershipSpec
CHECK_DEADLOCK FALSE
