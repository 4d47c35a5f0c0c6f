CONSTANTS
    plain = plain
    vrf = vrf
    bad = bad
    gw1 = gw1
    gw2 = gw2
    Dicts <- MCDicts
    VrfDicts <- MCVrfDicts
    BadDicts <- MCBadDicts
    Gateways <- MCGateways
    CountMax = 3
    Empty = Empty
    NoConf = NoConf
    Mixed = Mixed
SPECIFICATION Spec
INVARIANT
    SkipMeansApplied
