\* Every trace of four jobs over three arrival times and two durations, with
\* one and two workers, under every policy.
CONSTANTS
    N = 4
    Arrivals = {0, 1, 2}
    Durations = {1, 3}
    Priorities = {0, 1}
    Capacities = {1, 2}
    Policies = {"fcfs", "priority_fcfs", "sjf_oracle", "random", "lambdarank"}
    Scores = {0, 1}
SPECIFICATION FairSpec
INVARIANTS SelectHasChoice PolicyIsKept MatchesTheory
PROPERTIES WorkConserving EveryJobEnds
CHECK_DEADLOCK FALSE
