\* Both programs in every mode on four jobs, two worker processes, one fault.
CONSTANTS
    Programs = {"producer", "toggle"}
    Modes = {"fifo", "shadow", "active"}
    N = 4
    Scores = {1, 2}
    Children = {k1, k2}
    MaxFaults = 1
    NoJob = NoJob
SPECIFICATION FairSpec
INVARIANTS OrderIsScheduled ReportIsTrue
PROPERTIES DemosEnd
CHECK_DEADLOCK FALSE
