\* A fit between the moment a prediction reads the model and the one it codes its rows.
CONSTANTS
    f1 = f1
    f2 = f2
    resize = resize
    Fitters = {f1}
    Predictors = {p}
    Datasets <- AllDatasets
    Types = {resize}
    NoType = NoType
    Unknown = Unknown
    Batches <- SomeBatches
    MinGroups = 2
    FullEvery = 1
    Delta = 10
    MaxFits = 3
    NoGroup = NoGroup
    Window = 60
    LabelMax = 2
    Tenth = 2
CHECK_DEADLOCK FALSE
SPECIFICATION Spec
INVARIANT PredictionIsOfItsModel
