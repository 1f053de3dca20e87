\* Two fits and a prediction at a time, three fits in all.
CONSTANTS
    f1 = f1
    f2 = f2
    resize = resize
    Fitters = {f1, f2}
    Predictors = {p}
    Datasets <- AllDatasets
    Types = {resize}
    NoType = NoType
    Unknown = Unknown
    Batches <- SomeBatches
    MinGroups = 2
    FullEvery = 1
    Delta = 10
    MaxFits = 3
    NoGroup = NoGroup
    Window = 60
    LabelMax = 2
    Tenth = 2
CHECK_DEADLOCK FALSE
SPECIFICATION Spec
SYMMETRY Interchangeable
INVARIANTS AcceptedWithinDelta TreesAreBounded SequentialPredictionsMatch MetricsAgree
