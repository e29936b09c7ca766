SPECIFICATION ClipFairSpec
CONSTANTS
  MaxCopies <- OnlyWithout
  MaxOpens <- OneCrossing
  MaxRev <- Revisions
  MaxClipFaults <- NoRestart
  Faults = {}
  Coalescing = {"R"}
PROPERTIES
  LatestCopyWins
CHECK_DEADLOCK FALSE
