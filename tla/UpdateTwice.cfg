CONSTANTS
    r1 = r1
    r2 = r2
    Base = Base
    Mixed = Mixed
    None = None
    Bad = Bad
    Releases <- TwoReleases
    N = 2
    ReadFaults = FALSE
    WriteFaults = FALSE
SPECIFICATION FairSpec
CHECK_DEADLOCK FALSE
INVARIANTS
    CompletedServes
    RolledBackRestores
    CurrentIsGood
    RowTellsTruth
PROPERTIES
    UpdatesEnd
    NoRemovalBeforeBackup
