\* Two requests of up to two tasks, two workers, two exceptions and a restart.
CONSTANTS
    Clients = {c1, c2}
    Workers = {w1, w2}
    Tasks = {t1, t2, t3}
    Scores = {1, 2}
    MaxBatch = 2
    MaxErrors = 2
    MaxStops = 1
    NoTask = NoTask
    NoScore = NoScore
SPECIFICATION FairSpec
INVARIANTS TypeOK AtMostOnce OnePlace AckedIsKept
PROPERTIES KeepsLedger QueueIsDrained
CHECK_DEADLOCK FALSE
