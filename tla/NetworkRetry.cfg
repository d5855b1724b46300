SPECIFICATION Spec
CONSTANTS
    Calls = {c1, c2}
    FailureThreshold = 2
    CooldownPeriod = 1
    MaxRetries = 1
INVARIANT NetworkErrorsRetried
CHECK_DEADLOCK FALSE
