SPECIFICATION Spec
CONSTANTS
    Calls = {c1, c2, c3}
    FailureThreshold = 1
    CooldownPeriod = 1
    MaxRetries = 0
INVARIANT OneProbe
CHECK_DEADLOCK FALSE
