\* Two threads in parallel: the increment is a load and a store.
CONSTANTS
    Threads = {t1, t2}
    Objs = {o1, o2, o3, o4, o5}
    RetrainEvery = 2
    ColdStart = 2
    FullFitMin = 3
    FullEvery = 0
    AllowDegrade = FALSE
    Durable = TRUE
    Atomic = FALSE
    MaxRecords = 4
    MaxRetrains = 0
    MaxErrors = 1
    MaxCrashes = 2
    NoObj = NoObj
SPECIFICATION FairSpec
INVARIANTS ThresholdIsServed PublishedIsFit
PROPERTIES ThresholdIsLeft PromotionSurvives
CHECK_DEADLOCK FALSE
