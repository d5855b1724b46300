SPECIFICATION FairSpec
CONSTANTS
    r1 = r1
    r2 = r2
    Requests <- MCRequests
    Sources <- MCSources
INVARIANT DrainedBeforeClosed GuardedOrNotServing
PROPERTY StopsWhenAsked
CHECK_DEADLOCK FALSE
