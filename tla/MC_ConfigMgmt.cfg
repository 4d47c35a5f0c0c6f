CONSTANTS
    Configs = {c1, c2, c3}
    Revisions = {1, 2}
    LastIndex = 2
    MaxEvents = 4
    None = None
SPECIFICATION Spec
SYMMETRY Symmetry
INVARIANTS
    TypeOK
    LogMatchesArchive
    RevertTarget
CHECK_DEADLOCK FALSE
