SPECIFICATION FairGroupSpec
CONSTANTS
    Candidates <- AllMappings
    MaxGroup = 4
INVARIANTS
    WeightsSumTo100
    NearExactShare
    EveryMappingAccounted
PROPERTIES
    SpreadTerminates
CHECK_DEADLOCK FALSE
