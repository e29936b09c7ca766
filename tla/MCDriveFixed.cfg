SPECIFICATION DriveSpec
CONSTANTS
  NoDriver = NoDriver
  d1 = d1
  d2 = d2
  k1 = k1
  Drivers = {d1, d2}
  Fixed = {d2}
  Keys = {k1}
  MaxDriveWire = 3
  MaxMotion = 1
  DriveFaults = {}
SYMMETRY Symmetry
INVARIANTS
  SingleController
