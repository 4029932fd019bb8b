SPECIFICATION GroupSpec
CONSTANTS
    Candidates <- MixedMappings
    MaxGroup = 2
INVARIANTS
    PrecedenceRespected
CHECK_DEADLOCK FALSE
