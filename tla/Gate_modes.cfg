\* Every mode, two submitters, two workers, ids submitted twice; every abnormal
\* event but redelivery, at most two of them.
CONSTANTS
    Clients = {c1, c2}
    Workers = {w1, w2}
    Tasks = {t1, t2, t3}
    Ids <- Tasks
    CeleryId <- SameId
    Types = {Resize}
    SubmitType <- OneType
    SenderName <- OneType
    Resize = Resize
    Scores = {1, 2}
    Deployed = {"active", "fifo", "shadow"}
    Window = 2
    Events = {"fail", "revoke", "retry", "trainingError", "sendError"}
    MaxAccepts = 2
    MaxKicks = 2
    MaxEvents = 2
    NoTask = NoTask
    NoScore = NoScore
SPECIFICATION Spec
SYMMETRY Interchangeable
INVARIANTS TypeOK NothingLost NeverTwice WaitingIsRegistered RegistryIsLive SuccessIsMeasured WindowIsKept
PROPERTIES RightsDieIdle ImplementsGate
CHECK_DEADLOCK FALSE
