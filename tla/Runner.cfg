CONSTANTS
    j1 = j1
    j2 = j2
    j3 = j3
    w1 = w1
    w2 = w2
    None = None
    Jobs <- MCJobs
    Workers <- MCWorkers
    Capacity = 1
    Slots = 2
SPECIFICATION FairSpec
CHECK_DEADLOCK FALSE
INVARIANTS
    TypeOK
    HandlesOutliveJobs
    JobsRunOnce
    NoJobIsLost
PROPERTIES
    OperationsEnd
    ShutdownEnds
