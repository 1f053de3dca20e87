------------------------------- MODULE Simulator -------------------------------
(***************************************************************************)
(* One run of the benchmark simulator (simulator.py) with its baseline     *)
(* policies (baselines/): jobs arrive at the times of a trace, each brings *)
(* a process that requests a slot, and whoever gets the slot runs the job  *)
(* that the policy selects from all that wait.                             *)
(*                                                                         *)
(* simpy processes events in the order of time, then urgency, then         *)
(* creation; what the processes do between two yields is one action here,  *)
(* taken by the first event of the calendar.  Times are whole numbers.     *)
(***************************************************************************)
EXTENDS JctMetrics

CONSTANTS
    N,             \* number of jobs
    Arrivals,      \* arrival_ms
    Durations,     \* true_ms, at least 1 in every trace
    Priorities,    \* priority
    Capacities,    \* n_workers
    Policies,
    Scores         \* of the ranker

ASSUME SimulatorAssumption ==
    /\ N \in Nat \ {0}
    /\ Arrivals \subseteq Nat /\ Durations \subseteq Nat \ {0} /\ Priorities \subseteq Nat
    /\ Capacities \subseteq Nat \ {0} /\ Scores \subseteq Int
    /\ Policies \subseteq {"fcfs", "priority_fcfs", "sjf_oracle", "random", "lambdarank"}

Jobs == 1..N     \* in the order of `arrivals`

VARIABLES
    arrival, true, priority, capacity, policy,    \* the experiment
    now,        \* env.now
    calendar,   \* the events that are scheduled
    eid,        \* the next event's number
    queued,     \* requests that have not got a slot (which one is no matter)
    users,      \* slots taken
    waiting,    \* jobs that have arrived and not started
    running,    \* jobs that have started and not ended
    start, end  \* start_ms, end_ms of jobs that have them, otherwise -1

experiment == <<arrival, true, priority, capacity, policy>>
resource   == <<queued, users>>
vars == <<experiment, now, calendar, eid, resource, waiting, running, start, end>>

-----------------------------------------------------------------------------

Kinds == {"arrive", "request", "acquire", "finish", "release"}

Events == [at : Nat, urgent : BOOLEAN, eid : Nat, kind : Kinds, job : Jobs]

TypeOK ==
    /\ arrival \in [Jobs -> Arrivals] /\ true \in [Jobs -> Durations]
    /\ priority \in [Jobs -> Priorities]
    /\ capacity \in Capacities /\ policy \in Policies
    /\ now \in Nat /\ eid \in Nat
    /\ calendar \subseteq Events
    /\ \A e, f \in calendar : e.eid = f.eid => e = f
    /\ \A e \in calendar : e.at >= now /\ e.eid < eid
    /\ queued \in Nat /\ users \in 0..capacity
    /\ waiting \subseteq Jobs /\ running \subseteq Jobs
    /\ start \in [Jobs -> Nat \cup {-1}] /\ end \in [Jobs -> Nat \cup {-1}]

Later(t, s) == IF t >= s THEN t ELSE s

Event(at, n, kind, j) ==
    [at |-> at, urgent |-> kind = "request", eid |-> n, kind |-> kind, job |-> j]

\* Any trace, sorted by arrival; the arrival process waits for the first job.
Init ==
    /\ arrival \in {a \in [Jobs -> Arrivals] : \A i, j \in Jobs : i <= j => a[i] <= a[j]}
    /\ true \in [Jobs -> Durations]
    /\ capacity \in Capacities
    /\ policy \in Policies
    /\ priority \in [Jobs -> Priorities]
    /\ policy = "priority_fcfs" \/ \A i, j \in Jobs : priority[i] = priority[j]
    /\ now = 0
    /\ calendar = {Event(arrival[1], 0, "arrive", 1)}
    /\ eid = 1
    /\ queued = 0 /\ users = 0
    /\ waiting = {} /\ running = {}
    /\ start = [j \in Jobs |-> -1] /\ end = [j \in Jobs |-> -1]

-----------------------------------------------------------------------------
(* The calendar and the resource *)

Precedes(e, f) ==
    \/ e.at < f.at
    \/ e.at = f.at /\ e.urgent /\ ~f.urgent
    \/ e.at = f.at /\ e.urgent = f.urgent /\ e.eid < f.eid

\* e is the next event, of that kind; it is processed and schedules others.
Process(e, kind, new) ==
    /\ e.kind = kind
    /\ \A f \in calendar \ {e} : Precedes(e, f)
    /\ now' = e.at
    /\ calendar' = (calendar \ {e}) \cup new
    /\ eid' = eid + Cardinality(new)
    /\ UNCHANGED experiment

\* Mutant: a slot that was released is given to the next request only when
\* another one is made.
TriggerOnRequest(e, kind, requests) ==
    IF requests > 0 /\ users < capacity /\ kind = "request"
    THEN /\ Process(e, kind, {Event(e.at, eid, "acquire", e.job)})
         /\ users' = users + 1 /\ queued' = requests - 1
    ELSE Process(e, kind, {}) /\ users' = users /\ queued' = requests

\* The resource grants a slot to one request, if there is a slot and a request.
Trigger(e, kind, requests) ==
    IF requests > 0 /\ users < capacity
    THEN /\ Process(e, kind, {Event(e.at, eid, "acquire", e.job)})
         /\ users' = users + 1 /\ queued' = requests - 1
    ELSE Process(e, kind, {}) /\ users' = users /\ queued' = requests

-----------------------------------------------------------------------------
(* Policies *)

\* The key that select() minimises.
Key(j) ==
    CASE policy = "fcfs"          -> <<arrival[j], 0>>
      [] policy = "priority_fcfs" -> <<-priority[j], arrival[j]>>
      [] policy = "sjf_oracle"    -> <<true[j], 0>>

\* Of equal keys the job that arrived first comes first.
Before(i, j) ==
    \/ Key(i)[1] < Key(j)[1]
    \/ Key(i)[1] = Key(j)[1] /\ Key(i)[2] < Key(j)[2]
    \/ Key(i) = Key(j) /\ i < j

\* Mutant: the last of the order.
SelectLast ==
    {j \in waiting : policy \in {"random", "lambdarank"} \/ \A i \in waiting \ {j} : Before(i, j)}

\* The policy of the experiments: the first of the lowest scores.  A model's scores
\* depend on the length of the queue too, so they are any at every selection.
Ranked ==
    {j \in waiting : \E score \in [waiting -> Scores] :
        \A i \in waiting \ {j} : score[j] < score[i] \/ (score[j] = score[i] /\ j < i)}

\* select(): what the policy chooses or may choose.
Select ==
    CASE policy = "random"     -> waiting
      [] policy = "lambdarank" -> Ranked
      [] OTHER                 -> {j \in waiting : \A i \in waiting \ {j} : Before(j, i)}

-----------------------------------------------------------------------------
(* The processes *)

\* Mutant: the arrival time of the next job is taken for the delay.
ArriveRelative(e) ==
    LET next == e.job + 1
    IN  /\ waiting' = waiting \cup {e.job}
        /\ Process(e, "arrive",
              {Event(e.at, eid, "request", e.job)} \cup
              IF e.job < N
              THEN {Event(e.at + arrival[next], eid + 1, "arrive", next)}
              ELSE {})
        /\ UNCHANGED <<resource, running, start, end>>

\* _arrival_process: the job waits, its process is created, and the next
\* arrival is awaited.  (The preemption hook of every policy returns False.)
Arrive(e) ==
    LET next == e.job + 1
    IN  /\ waiting' = waiting \cup {e.job}
        /\ Process(e, "arrive",
              {Event(e.at, eid, "request", e.job)} \cup
              IF e.job < N
              THEN {Event(Later(e.at, arrival[next]), eid + 1, "arrive", next)}
              ELSE {})
        /\ UNCHANGED <<resource, running, start, end>>

\* _worker_proc asks for a slot.
Request(e) ==
    /\ Trigger(e, "request", queued + 1)
    /\ UNCHANGED <<waiting, running, start, end>>

\* Mutant: what runs stays in the waiting list.
AcquireKeeps(e) ==
    \E j \in Select :
        /\ Process(e, "acquire", {Event(e.at + true[j], eid, "finish", j)})
        /\ running' = running \cup {j}
        /\ start' = [start EXCEPT ![j] = e.at]
        /\ UNCHANGED <<resource, waiting, end>>

\* It has got one and runs the job that the policy selects.
Acquire(e) ==
    \E j \in Select :
        /\ Process(e, "acquire", {Event(e.at + true[j], eid, "finish", j)})
        /\ waiting' = waiting \ {j}
        /\ running' = running \cup {j}
        /\ start' = [start EXCEPT ![j] = e.at]
        /\ UNCHANGED <<resource, end>>

\* Mutant: the slot is not released.
FinishLeaks(e) ==
    /\ Process(e, "finish", {Event(e.at, eid, "release", e.job)})
    /\ running' = running \ {e.job}
    /\ end' = [end EXCEPT ![e.job] = e.at]
    /\ UNCHANGED <<resource, waiting, start>>

\* The job ends and the slot is free; the resource learns of it by an event.
Finish(e) ==
    /\ Process(e, "finish", {Event(e.at, eid, "release", e.job)})
    /\ running' = running \ {e.job}
    /\ end' = [end EXCEPT ![e.job] = e.at]
    /\ users' = users - 1
    /\ UNCHANGED <<queued, waiting, start>>

Release(e) ==
    /\ Trigger(e, "release", queued)
    /\ UNCHANGED <<waiting, running, start, end>>

Next == \E e \in calendar : Arrive(e) \/ Request(e) \/ Acquire(e) \/ Finish(e) \/ Release(e)

Spec == Init /\ [][Next]_vars

\* env.run() goes on while there are events.
FairSpec == Spec /\ WF_vars(Next)

-----------------------------------------------------------------------------
(* Properties *)

Pending(kind) == {e \in calendar : e.kind = kind}

\* select() is never called on an empty list: as many jobs wait as processes
\* have not chosen one yet, and a slot is taken by a running job or has just been
\* granted, however arrivals, grants and releases interleave.
SelectHasChoice ==
    /\ Cardinality(waiting) =
         Cardinality(Pending("request")) + queued + Cardinality(Pending("acquire"))
    /\ users = Cardinality(running) + Cardinality(Pending("acquire"))

\* Time never passes while a job waits and a worker is free.
WorkConserving ==
    [][now' > now => waiting = {} \/ Cardinality(running) = capacity]_vars

\* Of two jobs that were both there before the first of them was started, the
\* policy did not prefer the other one.
PolicyIsKept ==
    \A i, j \in Jobs :
        start[i] >= 0 /\ arrival[j] < start[i] /\ (start[j] < 0 \/ start[j] > start[i]) =>
            /\ policy = "fcfs" => arrival[i] <= arrival[j]
            /\ policy = "priority_fcfs" => priority[i] >= priority[j]
            /\ policy = "sjf_oracle" => true[i] <= true[j]

\* The textbook schedule of one FCFS server (Lindley's recursion) for jobs that
\* arrive at times a and take d.
Lindley(a, d) ==
    LET e[j \in 0..N] == IF j = 0 THEN 0 ELSE Later(e[j - 1], a[j]) + d[j] IN e

FcfsEnd == [j \in Jobs |-> Lindley(arrival, true)[j]]

\* With one worker the calendar reproduces the textbook schedule under FCFS;
\* under any policy the last job ends when it does there; and the oracle's
\* mean completion time is no worse than that of FCFS.  Whatever the run, the
\* summary of its completion times is what the names of the metrics say.
MatchesTheory ==
    /\ calendar = {} /\ capacity = 1 =>
        /\ policy = "fcfs" => \A j \in Jobs : end[j] = FcfsEnd[j]
        /\ \E j \in Jobs : end[j] = FcfsEnd[N] /\ \A i \in Jobs : end[i] <= end[j]
        /\ policy = "sjf_oracle" => Sum(end) <= Sum(FcfsEnd)
    /\ calendar = {} => Summarised([j \in Jobs |-> end[j] - arrival[j]])

\* Every job ends, and the run with it.
EveryJobEnds == <>[](calendar = {} /\ \A j \in Jobs : end[j] >= 0)
=============================================================================
