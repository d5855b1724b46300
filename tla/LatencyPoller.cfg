SPECIFICATION FairSpec
CONSTANTS
    p1 = p1
    p2 = p2
    s1 = s1
    s2 = s2
    Providers <- OneProvider
    Stoppers <- TwoStoppers
    Durations <- MCDurations
    MaxSamples = 4
    MaxResets = 1
INVARIANT EstimateFaithful
PROPERTY StopReturns
CHECK_DEADLOCK FALSE
