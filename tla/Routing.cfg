SPECIFICATION Spec
CONSTANTS
    Requests = {r1, r2, r3}
    Providers <- MCProviders
    ModelsOf <- MCModelsOf
    Aliases <- MCAliases
    Groups <- MCGroups
    StrategyOf <- MCStrategyOf
    DefaultStrategy = "round_robin"
    Unknown = "nobody"
    Ewmas <- MCEwmas
    Draws = 2
    MaxFlips = 2
SYMMETRY Symmetry
INVARIANT AliasFollowsTarget RoundRobinEven ConfiguredNameIsServed RefusedOnlySeenDown
CHECK_DEADLOCK FALSE
