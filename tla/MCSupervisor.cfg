SPECIFICATION FairSpec
CONSTANTS
    Pids = {2, 3, 4, 5}
    Tries = 4
    MaxKicks = 2
    MaxStarts = 2
INVARIANTS
    TypeOK
    OneEnvoy
PROPERTIES
    DownTogether
    PingEnds
CHECK_DEADLOCK FALSE
