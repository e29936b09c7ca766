SPECIFICATION WinCaptureSpec
CONSTANTS
    MaxGen = 2
    MaxPosts = 1
    WinRoom = 1
    Usages = {"mouse", "consumer"}
    Refused = {}
INVARIANTS
    StaticsOwned
    EngageReaches
CHECK_DEADLOCK FALSE
PROPERTIES
    WinLocalReturns
