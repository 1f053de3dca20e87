\* One thread, restarts on a durable store: the sequential contract.
CONSTANTS
    Threads = {t1}
    Objs = {o1, o2, o3}
    RetrainEvery = 2
    ColdStart = 3
    FullFitMin = 5
    FullEvery = 2
    AllowDegrade = TRUE
    Durable = TRUE
    Atomic = TRUE
    MaxRecords = 14
    MaxRetrains = 2
    MaxErrors = 1
    MaxCrashes = 1
    NoObj = NoObj
SPECIFICATION Spec
INVARIANTS TypeOK RetrainedInTime ReferenceFollowsModel DriftIsChecked
PROPERTIES NeverDemoted AttemptsAreSpaced
CHECK_DEADLOCK FALSE
