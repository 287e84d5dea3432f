CONSTANTS
    MaxReleases = 2
    MaxWrites = 3
    MaxTrouble = 2
SPECIFICATION Spec
INVARIANT
    UpdateLosesNothing
