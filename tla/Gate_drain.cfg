\* Liveness; the broker may deliver messages again, at most twice.
CONSTANTS
    Clients = {c1}
    Workers = {w1, w2}
    Tasks = {t1, t2}
    Ids <- Tasks
    CeleryId <- SameId
    Types = {Resize}
    SubmitType <- OneType
    SenderName <- OneType
    Resize = Resize
    Scores = {1, 2}
    Deployed = {"active"}
    Window = 2
    Events = {"redeliver"}
    MaxAccepts = 2
    MaxKicks = 1
    MaxEvents = 2
    NoTask = NoTask
    NoScore = NoScore
SPECIFICATION FairSpec
PROPERTIES RightsDrainTheHeap
CHECK_DEADLOCK FALSE
