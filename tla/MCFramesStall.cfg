SPECIFICATION FramesSpec
CONSTANTS
  Sizes = {2, 4}
  MaxFrames = 5
  Window = 3
  FrameFaults = {"stall"}
INVARIANTS
  StallCostsOneClick
CHECK_DEADLOCK FALSE
