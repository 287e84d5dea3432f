CONSTANTS
    a1 = a1
    a2 = a2
    n1 = n1
    n2 = n2
    d1 = d1
    d2 = d2
    w1 = w1
    w2 = w2
    NoApp = NoApp
    NoName = NoName
    Startup = Startup
    Apps <- MCApps
    Names <- MCNames
    Domains <- OneDomain
    Workers <- MCWorkers
    Paths = FALSE
    MaxRequests = 3
    MaxFaults = 1
    MaxBoots = 1
SPECIFICATION Spec
CHECK_DEADLOCK FALSE
SYMMETRY RegistrySymmetry
INVARIANTS
    TypeOK
    SequencesKeepOrder
    StartHeals
PROPERTY
    ChangeIsAllOrNothing
