SPECIFICATION Spec
CONSTANTS
    MaxAge = 4
    Period = 1
    Timeout = 1
    ValidationRetries = 5
    MaxQueue = 1
    MaxChanges = 3
    MaxTime = 16
INVARIANTS
    ChecksEnvoyItself
CHECK_DEADLOCK FALSE
