CONSTANTS
    u1 = u1
    u2 = u2
    NoOne = NoOne
    N = 3
    Version <- MCVersion
    Good <- MCGood
    Updaters <- MCUpdaters
    MaxAsked = 2
    MaxFaults = 1
    MaxKills = 1
SPECIFICATION Spec
CHECK_DEADLOCK FALSE
SYMMETRY UpdaterSymmetry
INVARIANTS
    TypeOK
    AWayBack
PROPERTY
    UpdateIsAllOrNothing
