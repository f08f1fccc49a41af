SPECIFICATION Spec
CONSTANTS
    none = none
    w1 = w1
    w2 = w2
    None = none
    Writers = {w1, w2}
    Corpora <- MCCorpora
    ChunkSize = 4
    ChunkStride = 3
    TopK = 3
    RecallCutoffs <- MCRecallCutoffs
    MrrCutoff = 3
    ShortCutoff = 2
    Discount <- MCDiscount
    Revisions = {"v1", "v2"}
    Packages <- MCPackages
    PackageOf <- MCPackageOf
    Approved = {"a1", "a2"}
    Matrix <- MCMatrix
    Answers <- MCAnswers
    RunIds <- MCRunIds
    MaxChanges = 2
    MaxLaunches = 3
    MaxReceipts = 1
    MaxStops = 1
SYMMETRY MCSymmetry
CHECK_DEADLOCK FALSE
INVARIANTS
    ArtifactsAreWhole
    FormalRunsAreBacked
    ResultsAreAuthentic
    ScoresAreSound
    UnitsAgree
