SPECIFICATION FairSpec
CONSTANTS
    Owners = {"failover", "operator"}
    PersistentOwners = {"operator"}
    MaxTtl = 7
    Hops <- Backup
    Wwan = "wwan0"
    FailureCount = 2
    SuccessCount = 1
    MaxPause = 1
    HoldDown = 3
    Ttl = 8
    MaxFaults = 2
INVARIANTS
    TypeOK
    Covered
PROPERTIES
    RouteFollows
    EgressLeased
    LeaseEnds
    RefinesDemand
