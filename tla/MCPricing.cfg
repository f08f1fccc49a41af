SPECIFICATION MCSpec
CONSTANTS
    none = none
    s1 = s1
    s2 = s2
    i1 = i1
    i2 = i2
    prompt1 = prompt1
    prompt2 = prompt2
    None = none
    Rates <- MCRates
    TokenCounts = {0, 1, 9, 11, 99}
    FlatPrices = {1, 3}
    Scale = 2
    Services = {s1, s2}
    RequestKeys = {i1, i2}
    Prompts = {prompt1, prompt2}
    Configurations <- MCConfigurations
    TokenLimits <- MCTokenLimits
    Costs = {1}
SYMMETRY MCSymmetry
INVARIANTS
    PricesAreExact
    ActualWithinReservation
    PolicyIdIdentifiesRates
    LegacyRequestsAreHonoured
PROPERTIES
    RecordsAreKept
