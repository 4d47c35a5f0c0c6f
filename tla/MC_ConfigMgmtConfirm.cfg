CONSTANTS
    Configs = {c1, c2, c3}
    Revisions = {2}
    LastIndex = 2
    MaxEvents = 4
    None = None
SPECIFICATION Spec
SYMMETRY Symmetry
INVARIANT
    UnconfirmedNotArchived
CHECK_DEADLOCK FALSE
