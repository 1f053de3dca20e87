\* One kick, and one task may fail.
CONSTANTS
    Clients = {c1}
    Workers = {w1}
    Tasks = {t1, t2}
    Ids <- Tasks
    CeleryId <- SameId
    Types = {Resize}
    SubmitType <- OneType
    SenderName <- OneType
    Resize = Resize
    Scores = {1, 2}
    Deployed = {"active"}
    Window = 2
    Events = {"fail"}
    MaxAccepts = 1
    MaxKicks = 1
    MaxEvents = 1
    NoTask = NoTask
    NoScore = NoScore
SPECIFICATION FairSpec
PROPERTIES RightsDrainTheHeap
CHECK_DEADLOCK FALSE
