CONSTANTS
    Procs = {p1, p2, p3}
    Files = {f1, f2, f3, f4}
    None = None
SPECIFICATION Spec
INVARIANTS
    TypeOK
    LocksAreOwned
    LockFileRemoved
