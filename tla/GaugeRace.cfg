SPECIFICATION Spec
CONSTANTS
    Calls = {c1, c2}
    FailureThreshold = 1
    CooldownPeriod = 1
    MaxRetries = 0
INVARIANT GaugeReflectsHealth
CHECK_DEADLOCK FALSE
