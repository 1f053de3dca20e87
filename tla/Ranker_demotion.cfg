\* Two threads: an older snapshot is swapped in last.
CONSTANTS
    Threads = {t1, t2}
    Objs = {o1, o2, o3, o4, o5}
    RetrainEvery = 2
    ColdStart = 2
    FullFitMin = 2
    FullEvery = 1
    AllowDegrade = TRUE
    Durable = TRUE
    Atomic = TRUE
    MaxRecords = 4
    MaxRetrains = 1
    MaxErrors = 0
    MaxCrashes = 0
    NoObj = NoObj
SPECIFICATION Spec
SYMMETRY Interchangeable
PROPERTIES NeverDemoted
CHECK_DEADLOCK FALSE
