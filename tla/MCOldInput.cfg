SPECIFICATION WatchSpec
CONSTANTS
    PingLimit = 2
    MinGrowth = 2
    Hot = 3
    Burst = 3
    MaxFaults = 1
INVARIANTS
    OldInputNeverYields
CHECK_DEADLOCK FALSE
