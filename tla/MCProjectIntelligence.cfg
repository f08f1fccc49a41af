SPECIFICATION PISpec
CONSTANTS
    gone = gone
    none = none
    no_embedding = no_embedding
    e5 = e5
    fake = fake
    Gone = gone
    None = none
    Lexical = no_embedding
    FileOrder <- MCFileOrder
    Versions <- MCVersions
    FirstVersions <- MCFirstVersions
    RuleSets <- MCRuleSets
    Fingerprints <- MCFingerprints
    MaxEdits = 2
    MaxScans = 2
    MaxMethodsPerClass = 0
    MaxSymbolsPerFile = 1
    MaxFanOut = 1
    MaxHops = 2
    MaxPerSeed = 3
    MaxNodes = 5
    Relations = {"contains", "imports"}
    RrfK = 1
    CosineScale = 1
    HybridConfigs <- MCHybridConfigs
    TopK = {2}
    Budgets = {7}
    Queries <- MCQueries
SYMMETRY MCSymmetry
CHECK_DEADLOCK FALSE
INVARIANTS
    IndexIsOfOneVersion
    VectorsAreFresh
    CyclesAreComponents
    AnswerIsSound
