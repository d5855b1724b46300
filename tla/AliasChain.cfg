SPECIFICATION Spec
CONSTANTS
    Requests = {r1}
    Providers <- MCProviders
    ModelsOf <- MCModelsOf
    Aliases <- ChainAliases
    Groups <- MCGroups
    StrategyOf <- MCStrategyOf
    DefaultStrategy = "priority"
    Unknown = "nobody"
    Ewmas <- MCEwmas
    Draws = 3
    MaxFlips = 1
SYMMETRY Symmetry
INVARIANT CanonicalIsUpstream
CHECK_DEADLOCK FALSE
