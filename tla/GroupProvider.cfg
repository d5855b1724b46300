SPECIFICATION Spec
CONSTANTS
    Requests = {r1}
    Providers <- MCProviders
    ModelsOf <- MCModelsOf
    Aliases <- MCAliases
    Groups <- SharedGroups
    StrategyOf <- SpreadStrategyOf
    DefaultStrategy = "priority"
    Unknown = "nobody"
    Ewmas <- MCEwmas
    Draws = 3
    MaxFlips = 1
SYMMETRY Symmetry
INVARIANT CandidateKeepsProvider
CHECK_DEADLOCK FALSE
