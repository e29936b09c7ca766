SPECIFICATION ClipFairSpec
CONSTANTS
  MaxCopies <- Copies
  MaxOpens <- Crossings
  MaxRev <- Revisions
  MaxClipFaults <- OneRestart
  Faults = {"relink", "ui"}
  Coalescing = {"R"}
INVARIANTS
  PasteWhole
PROPERTIES
  EchoDies
  SoleCopyLands
CHECK_DEADLOCK FALSE
