CONSTANTS
    t1 = t1
    t2 = t2
    v1 = v1
    v2 = v2
    None = None
    Tasks <- MCTasks
    CliTasks <- OneCli
    Versions <- MCVersions
    MaxCrashes = 1
    MaxFaults = 2
SPECIFICATION Spec
CONSTRAINT InScope
CHECK_DEADLOCK FALSE
SYMMETRY VersionSymmetry
INVARIANTS
    TypeOK
    
    FailedDeployIsCleanedUp
    RestartRestores
