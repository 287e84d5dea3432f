CONSTANTS
    MaxReleases = 3
    MaxWrites = 2
    MaxTrouble = 3
SPECIFICATION Spec
CONSTRAINT InScope
INVARIANTS
    TypeOK
    RunsOnItsData
    BackedUpBeforeCutOver
