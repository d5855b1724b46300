SPECIFICATION Spec
CONSTANTS
    Requests = {r1}
    Providers <- MCProviders
    ModelsOf <- MCModelsOf
    Aliases <- MCAliases
    Groups <- MCGroups
    StrategyOf <- MCStrategyOf
    DefaultStrategy = "priority"
    Unknown = "nobody"
    Ewmas <- MCEwmas
    Draws = 3
    MaxFlips = 3
SYMMETRY Symmetry
INVARIANT RefusedWhenAllDown
CHECK_DEADLOCK FALSE
