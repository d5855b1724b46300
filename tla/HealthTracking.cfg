SPECIFICATION Spec
CONSTANTS
    Calls = {c1, c2, c3}
    FailureThreshold = 2
    CooldownPeriod = 2
    MaxRetries = 1
SYMMETRY Symmetry
INVARIANT BreakerMatchesHistory OneVerdictPerCall
PROPERTY RefusedOnlyWhenTripped
CHECK_DEADLOCK FALSE
