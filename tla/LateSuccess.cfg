SPECIFICATION Spec
CONSTANTS
    Calls = {c1, c2}
    FailureThreshold = 1
    CooldownPeriod = 1
    MaxRetries = 0
PROPERTY OpenUntilCooldown
CHECK_DEADLOCK FALSE
