SPECIFICATION FairSpec
CONSTANTS
    Owners = {"failover", "operator"}
    PersistentOwners = {"operator"}
    MaxTtl = 20
    Hops <- TwoGateways
    Wwan = "wwan0"
    FailureCount = 2
    SuccessCount = 2
    MaxPause = 1
    HoldDown = 3
    Ttl = 7
    MaxFaults = 0
PROPERTIES
    EgressLeased
