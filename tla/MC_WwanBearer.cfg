SPECIFICATION FairSpec
CONSTANTS
    Modes = {"always-on", "connect-on-demand", "dial-on-demand"}
    Owners = {"failover"}
    MaxSignals = 3
    MaxEvents = 2
    MaxRecovery = 1
INVARIANT
    TypeOK
PROPERTIES
    LoopEndsWithFailed
    OperatorBearerKept
    Settles
    DemandServed
    InSync
    OwnershipEnds
CHECK_DEADLOCK FALSE
