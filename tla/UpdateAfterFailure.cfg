CONSTANTS
    r1 = r1
    r2 = r2
    Base = Base
    Mixed = Mixed
    None = None
    Bad = Bad
    Releases <- TwoReleases
    N = 1
    ReadFaults = FALSE
    WriteFaults = FALSE
SPECIFICATION Spec
CHECK_DEADLOCK FALSE
INVARIANTS
    RolledBackServesCurrent
