\* Two processes load every small file of every trace; one crash or failure.
CONSTANTS
    p1 = p1
    p2 = p2
    Procs <- BothProcs
    Traces <- SmallTraces
    Contended <- ContendedTraces
    Requests = {0, 2, 1000}
    MaxRowsOf = {1, 1000}
    MaxFaults = 1
    SyntheticRows = 3
    CacheRows = 4
    MaxDuration = 50
    Target = 3
SPECIFICATION Spec
SYMMETRY Interchangeable
INVARIANTS LoadsAgree JobsAreTrue
