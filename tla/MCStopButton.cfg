SPECIFICATION StopSpec
CONSTANTS
    SymbolCount = 2
    MaxWorkers = 2
    OldLengths = {0, 1, 5}
    NewLength = 3
    BodyLength = 1
    Sharings <- Apart
INVARIANTS
    StopIsHeard
