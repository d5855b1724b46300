SPECIFICATION PathSpec
CONSTANTS
    r1 = r1
    r2 = r2
    Requests <- MCRequests
    failOpenWarnInterval = 2
    MaxTime = 3
    Configs <- MCConfigs
    Arrivals <- MCArrivals
    ProviderErrors = {0, 304, 401, 503}
    adminBodyLimit = 2
    debugBodyLimit = 2
    maxRequestBodySize = 4
INVARIANT CountersMatchAnswers AccessLineTrue DebugLoggerHarmless
INVARIANT WarningsSpaced OutageWarned
PROPERTY EveryRequestEnds
CHECK_DEADLOCK FALSE
