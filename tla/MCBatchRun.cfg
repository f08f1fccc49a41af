SPECIFICATION BatchSpec
CONSTANTS
    none = none
    blank = blank
    slashes = slashes
    nokey = nokey
    None = none
    Blank = blank
    Slashes = slashes
    NoKey = nokey
    Providers <- MCProviders
    ModelList <- MCModelList
    Customizable = {"custom"}
    DefaultUrl <- MCDefaultUrl
    EnvKey <- MCEnvKey
    KeysFor <- MCKeysFor
    UrlsFor <- MCUrlsFor
    CustomModels = {"mine"}
    MaxSwitches = 2
    Requests <- MCRequests
    MaxFiles = 3
CHECK_DEADLOCK FALSE
INVARIANTS
    ArchiveHoldsSuccesses
    NothingIsLeftBehind
    OneProviderPerBatch
