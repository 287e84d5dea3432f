CONSTANTS
    a1 = a1
    a2 = a2
    o1 = o1
    o2 = o2
    o3 = o3
    None = None
    Apps <- MCApps
    Ops <- MCOps
    CliOps <- OneCli
    LostWrites = TRUE
SPECIFICATION Spec
CHECK_DEADLOCK FALSE
SYMMETRY MixedSymmetry
INVARIANTS
    TypeOK
    OneActivePerApp
    OneWorkerPerApp
PROPERTIES
    TerminalIsFinal
    ImplementsLock
