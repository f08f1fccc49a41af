SPECIFICATION Spec
CONSTANTS
    SymbolCount = 3
    MaxWorkers = 2
    OldLengths = {0, 1, 5}
    NewLength = 3
    BodyLength = 1
    Sharings <- Layouts
INVARIANTS
    NoWorkOutlivesTheRun
    AnnotationIsSound
    NothingIsLost
PROPERTIES
    RunEnds
