SPECIFICATION FairSpec
CONSTANTS
    Workers = {w1, w2}
    MaxUpdates = 2
    ValidationRetries = 2
    Options <- CommandLines
INVARIANTS
    TypeOK
    DeployedWasValidated
    PublishOrder
    PageNeverBehind
    AnswersAreTrue
    OneEventPerThread
PROPERTIES
    EnvoyMovesForward
    PostReturns
    AcceptedReachesEnvoy
    ImplementsService
CHECK_DEADLOCK FALSE
