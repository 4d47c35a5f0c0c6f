SPECIFICATION FairSpec
CONSTANTS
    Capacity = 3
    MaxBatch = 2
    MaxMessages = 6
    MaxFails = 3
INVARIANTS
    TypeOK
    NoLostWakeup
    StallNeedsFailure
PROPERTIES
    Served
    Stops
CHECK_DEADLOCK FALSE
