SPECIFICATION FairSpec
CONSTANTS
    Calls = {c1, c2}
    FailureThreshold = 1
    CooldownPeriod = 2
    MaxRetries = 1
PROPERTY CancelledCallEnds BreakerReadmits
CHECK_DEADLOCK FALSE
