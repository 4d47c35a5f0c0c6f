CONSTANTS
    MaxScripts = 3
    Excluded = {2}
    MaxCommits = 3
    MaxTimeouts = 2
    MaxKills = 1
    MaxUpdates = 1
    None = None
SPECIFICATION Spec
CHECK_DEADLOCK FALSE
INVARIANTS
    TypeOK
    OwnConfig
    NeverUnexpected
    RenderedLast
PROPERTY
    CommitEnds
