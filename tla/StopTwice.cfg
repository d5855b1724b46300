SPECIFICATION Spec
CONSTANTS
    p1 = p1
    p2 = p2
    s1 = s1
    s2 = s2
    Providers <- OneProvider
    Stoppers <- TwoStoppers
    Durations <- MCDurations
    MaxSamples = 1
    MaxResets = 0
INVARIANT StopIsSafe
CHECK_DEADLOCK FALSE
