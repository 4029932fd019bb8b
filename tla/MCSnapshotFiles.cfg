SPECIFICATION Spec
CONSTANTS
    SnapCounts <- MCSnapCounts
    MaxSuffix = 2
    NoEnvoy = FALSE
    MaxLoads = 5
    MaxCrashes = 1
INVARIANTS
    TypeOK
    NewestFirst
    Retention
CHECK_DEADLOCK FALSE
