SPECIFICATION Spec
CONSTANTS
    Requests = {r1}
    Providers <- MCProviders
    ModelsOf <- MCModelsOf
    Aliases <- AliasAliases
    Groups <- AliasGroups
    StrategyOf <- SpreadStrategyOf
    DefaultStrategy = "priority"
    Unknown = "nobody"
    Ewmas <- MCEwmas
    Draws = 3
    MaxFlips = 1
SYMMETRY Symmetry
INVARIANT CandidateIsCanonical
CHECK_DEADLOCK FALSE
