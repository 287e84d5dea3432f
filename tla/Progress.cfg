CONSTANTS
    PageLimit = 2
    BufferMax = 2
    MaxBefore = 0
    MaxJobs = 2
    MaxLines = 1
    MaxReads = 2
SPECIFICATION Spec
CONSTRAINT OneReader
CHECK_DEADLOCK FALSE
INVARIANTS
    TypeOK
    ChecklistTellsOutcome
    FeedIsComplete
    PageMissesOnlyRaces
