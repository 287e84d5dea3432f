CONSTANTS
    r1 = r1
    r2 = r2
    Base = Base
    Mixed = Mixed
    None = None
    Bad = Bad
    Releases <- OneRelease
    N = 2
    ReadFaults = TRUE
    WriteFaults = TRUE
SPECIFICATION Spec
CHECK_DEADLOCK FALSE
INVARIANTS
    TypeOK
    SecretsUndone
    BackupsAreCold
