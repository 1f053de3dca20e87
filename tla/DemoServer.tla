------------------------------ MODULE DemoServer ------------------------------
(***************************************************************************)
(* The demo server: the submission endpoints (api/tasks.py, scheduler.py), *)
(* the Redis queue (queue.py) and the asyncio worker pool (worker.py),     *)
(* which is stopped, crashes and is started again on what Redis kept.      *)
(*                                                                         *)
(* One process, one event loop: code runs without interruption between two *)
(* awaits, so an action goes from the effect of one awaited Redis command  *)
(* to the next await.  Whoever is cancelled or gets an exception while it  *)
(* waits for Redis may or may not have had its effect there.  Redis itself *)
(* does not lose data.                                                     *)
(***************************************************************************)
EXTENDS Integers, FiniteSets

CONSTANTS
    Clients,      \* requests served at the same time
    Workers,      \* worker ids of the pool
    Tasks,        \* task ids that uuid4() may produce
    Scores,       \* predicted durations
    MaxBatch,     \* bound: tasks in one request
    MaxErrors,    \* bound: exceptions out of Redis commands and retrains
    MaxStops,     \* bound: stops and crashes of the server
    NoTask, NoScore

ASSUME DemoAssumption ==
    /\ Scores \subseteq Int
    /\ MaxBatch \in Nat /\ MaxErrors \in Nat /\ MaxStops \in Nat
    /\ NoTask \notin Tasks /\ NoScore \notin Scores

VARIABLES
    \* Redis
    queue,      \* the sorted set: members [tid, score]
    status,     \* the field "status" of each task hash
    \* the server process
    up,         \* the pool is started
    cjob, cscore,   \* the task each request is enqueueing, and its score
    left,       \* tasks of its batch still to be enqueued
    replies,    \* ids of its batch that are in the reply so far
    wpc, wjob,  \* what each worker waits for, and with which task
    stat,       \* _stats[w]["status"]
    \* history
    acked,      \* ids that a reply has returned
    runs,       \* executions of each task
    telemetry,  \* records saved for each task
    errors, stops

redis    == <<queue, status>>
requests == <<cjob, cscore, left, replies>>
pool     == <<wpc, wjob, stat>>
history  == <<acked, runs, telemetry, errors, stops>>
vars     == <<redis, up, requests, pool, history>>

-----------------------------------------------------------------------------

WorkerPCs == {"off", "dequeue", "fetch", "start", "run", "finish", "report"}

RedisOK ==
    /\ queue \subseteq [tid : Tasks, score : Scores]
    /\ status \in [Tasks -> {"absent", "pending", "running", "completed"}]

RequestsOK ==
    /\ cjob \in [Clients -> Tasks \cup {NoTask}]
    /\ cscore \in [Clients -> Scores \cup {NoScore}]
    /\ \A c \in Clients : cjob[c] \in Tasks => cscore[c] \in Scores
    /\ left \in [Clients -> Nat]
    /\ replies \in [Clients -> SUBSET Tasks]

PoolOK ==
    /\ wpc \in [Workers -> WorkerPCs]
    /\ wjob \in [Workers -> Tasks \cup {NoTask}]
    /\ \A w \in Workers : wjob[w] \in Tasks <=> wpc[w] \notin {"off", "dequeue"}
    /\ stat \in [Workers -> {"idle", "busy"}]

HistoryOK ==
    /\ acked \subseteq Tasks
    /\ runs \in [Tasks -> Nat]
    /\ telemetry \in [Tasks -> Nat]
    /\ errors \in Nat /\ stops \in Nat

TypeOK == up \in BOOLEAN /\ RedisOK /\ RequestsOK /\ PoolOK /\ HistoryOK

Init ==
    /\ queue = {}
    /\ status = [t \in Tasks |-> "absent"]
    /\ up = FALSE
    /\ cjob = [c \in Clients |-> NoTask]
    /\ cscore = [c \in Clients |-> NoScore]
    /\ left = [c \in Clients |-> 0]
    /\ replies = [c \in Clients |-> {}]
    /\ wpc = [w \in Workers |-> "off"]
    /\ wjob = [w \in Workers |-> NoTask]
    /\ stat = [w \in Workers |-> "idle"]
    /\ acked = {}
    /\ runs = [t \in Tasks |-> 0]
    /\ telemetry = [t \in Tasks |-> 0]
    /\ errors = 0 /\ stops = 0

-----------------------------------------------------------------------------
(* POST /tasks and /tasks/batch *)

Await(c, t, s, n, done) ==
    /\ cjob' = [cjob EXCEPT ![c] = t]
    /\ cscore' = [cscore EXCEPT ![c] = s]
    /\ left' = [left EXCEPT ![c] = n]
    /\ replies' = [replies EXCEPT ![c] = done]

Respond(c) == Await(c, NoTask, NoScore, 0, {})

\* uuid4() yields an id nobody has.
Unused(t) == status[t] = "absent" /\ \A c \in Clients : cjob[c] # t

\* A new id and a prediction; the transaction that enqueues it is sent.
Score(c, n, done) ==
    \E t \in Tasks, s \in Scores : Unused(t) /\ Await(c, t, s, n, done)

\* A request arrives; /tasks is a batch of one.
Submit(c) ==
    /\ up /\ cjob[c] = NoTask
    /\ \E n \in 1..MaxBatch : Score(c, n, {})
    /\ UNCHANGED <<redis, up, pool, history>>

\* Mutant: the sorted set is written and the hash is not.
TransactionMemberOnly(c) ==
    /\ queue' = queue \cup {[tid |-> cjob[c], score |-> cscore[c]]}
    /\ UNCHANGED status

\* MULTI: hash and sorted set together.
Transaction(c) ==
    /\ queue' = queue \cup {[tid |-> cjob[c], score |-> cscore[c]]}
    /\ status' = [status EXCEPT ![cjob[c]] = "pending"]

\* The transaction, then the next task of the batch or the reply.
Enqueue(c) ==
    /\ cjob[c] # NoTask
    /\ Transaction(c)
    /\ \/ left[c] > 1 /\ Score(c, left[c] - 1, replies[c] \cup {cjob[c]}) /\ UNCHANGED acked
       \/ left[c] = 1 /\ Respond(c) /\ acked' = acked \cup replies[c] \cup {cjob[c]}
    /\ UNCHANGED <<up, pool, runs, telemetry, errors, stops>>

\* Redis cannot be reached, or its answer is lost: the request fails and
\* nobody learns the ids enqueued so far.
RequestFails(c) ==
    /\ cjob[c] # NoTask
    /\ errors < MaxErrors
    /\ errors' = errors + 1
    /\ Transaction(c) \/ UNCHANGED redis
    /\ Respond(c)
    /\ UNCHANGED <<up, pool, acked, runs, telemetry, stops>>

-----------------------------------------------------------------------------
(* The worker loop *)

Holders(t) == {w \in Workers : wjob[w] = t}

Work(w, label, t, busy) ==
    /\ wpc' = [wpc EXCEPT ![w] = label]
    /\ wjob' = [wjob EXCEPT ![w] = t]
    /\ stat' = [stat EXCEPT ![w] = IF busy THEN "busy" ELSE "idle"]

Loop(w) == Work(w, "dequeue", NoTask, FALSE)

\* Mutant: the first member is read and stays in the sorted set.
DequeuePeeks(w) ==
    /\ wpc[w] = "dequeue"
    /\ \E e \in queue :
          /\ \A f \in queue : e.score <= f.score
          /\ Work(w, "fetch", e.tid, FALSE)
    /\ UNCHANGED <<redis, up, requests, history>>

\* ZPOPMIN: the member of least score, whichever of several.  On an empty set
\* the worker sleeps and asks again.
Dequeue(w) ==
    /\ wpc[w] = "dequeue"
    /\ \E e \in queue :
          /\ \A f \in queue : e.score <= f.score
          /\ queue' = queue \ {e}
          /\ Work(w, "fetch", e.tid, FALSE)
    /\ UNCHANGED <<status, up, requests, history>>

\* HGETALL; without a hash the popped id is forgotten.
Fetch(w) ==
    /\ wpc[w] = "fetch"
    /\ IF status[wjob[w]] = "absent" THEN Loop(w) ELSE Work(w, "start", wjob[w], TRUE)
    /\ UNCHANGED <<redis, up, requests, history>>

\* update_status("running")
Start(w) ==
    /\ wpc[w] = "start"
    /\ status' = [status EXCEPT ![wjob[w]] = "running"]
    /\ Work(w, "run", wjob[w], TRUE)
    /\ UNCHANGED <<queue, up, requests, history>>

\* simulate_task()
Run(w) ==
    /\ wpc[w] = "run"
    /\ runs' = [runs EXCEPT ![wjob[w]] = @ + 1]
    /\ Work(w, "finish", wjob[w], TRUE)
    /\ UNCHANGED <<redis, up, requests, acked, telemetry, errors, stops>>

\* update_status("completed")
Finish(w) ==
    /\ wpc[w] = "finish"
    /\ status' = [status EXCEPT ![wjob[w]] = "completed"]
    /\ Work(w, "report", wjob[w], TRUE)
    /\ UNCHANGED <<queue, up, requests, history>>

\* Mutant: the worker keeps the finished task at hand.
ReportKeeps(w) ==
    /\ wpc[w] = "report"
    /\ telemetry' = [telemetry EXCEPT ![wjob[w]] = @ + 1]
    /\ Work(w, "dequeue", wjob[w], FALSE)
    /\ UNCHANGED <<redis, up, requests, acked, runs, errors, stops>>

\* Mutant: a task is reported before it is known to be completed.
ReportTwice(w) ==
    /\ wpc[w] \in {"finish", "report"}
    /\ telemetry' = [telemetry EXCEPT ![wjob[w]] = @ + 1]
    /\ IF wpc[w] = "report" THEN Loop(w) ELSE Work(w, "report", wjob[w], TRUE)
    /\ UNCHANGED <<redis, up, requests, acked, runs, errors, stops>>

\* The ranker records the completion, in one go with the statistics and the
\* next turn of the loop.
Report(w) ==
    /\ wpc[w] = "report"
    /\ telemetry' = [telemetry EXCEPT ![wjob[w]] = @ + 1]
    /\ Loop(w)
    /\ UNCHANGED <<redis, up, requests, acked, runs, errors, stops>>

\* ... or raises out of an automatic retrain: the worker logs it and goes on.
ReportRaises(w) ==
    /\ wpc[w] = "report"
    /\ errors < MaxErrors
    /\ errors' = errors + 1
    /\ telemetry' = [telemetry EXCEPT ![wjob[w]] = @ + 1]
    /\ Loop(w)
    /\ UNCHANGED <<redis, up, requests, acked, runs, stops>>

\* Mutant: the exception ends the loop.
WorkerFailsForGood(w) ==
    /\ wpc[w] \notin {"off", "dequeue"}
    /\ errors < MaxErrors
    /\ errors' = errors + 1
    /\ Work(w, "off", NoTask, FALSE)
    /\ UNCHANGED <<redis, up, requests, acked, runs, telemetry, stops>>

\* Mutant: the exception puts the task back.
WorkerFailsRequeues(w) ==
    /\ wpc[w] \notin {"off", "dequeue"}
    /\ errors < MaxErrors
    /\ errors' = errors + 1
    /\ \E s \in Scores : queue' = queue \cup {[tid |-> wjob[w], score |-> s]}
    /\ Loop(w)
    /\ UNCHANGED <<status, up, requests, acked, runs, telemetry, stops>>

\* A Redis command raises: the task at hand is logged and forgotten.
WorkerFails(w) ==
    /\ wpc[w] \notin {"off", "dequeue"}
    /\ errors < MaxErrors
    /\ errors' = errors + 1
    /\ Loop(w)
    /\ UNCHANGED <<redis, up, requests, acked, runs, telemetry, stops>>

-----------------------------------------------------------------------------
(* Life of the process *)

\* lifespan, first half: the pool is started.
StartPool ==
    /\ ~up
    /\ up' = TRUE
    /\ wpc' = [w \in Workers |-> "dequeue"]
    /\ wjob' = [w \in Workers |-> NoTask]
    /\ stat' = [w \in Workers |-> "idle"]
    /\ UNCHANGED <<redis, requests, history>>

\* Whatever a worker awaits is cancelled.
WorkersGone ==
    /\ up /\ up' = FALSE
    /\ stops < MaxStops /\ stops' = stops + 1
    /\ wpc' = [w \in Workers |-> "off"]
    /\ wjob' = [w \in Workers |-> NoTask]

\* lifespan, second half, once the requests have been answered.
StopPool ==
    /\ \A c \in Clients : cjob[c] = NoTask
    /\ WorkersGone
    /\ UNCHANGED <<redis, requests, stat, acked, runs, telemetry, errors>>

\* The process dies, its requests with it.
Crash ==
    /\ WorkersGone
    /\ cjob' = [c \in Clients |-> NoTask]
    /\ cscore' = [c \in Clients |-> NoScore]
    /\ left' = [c \in Clients |-> 0]
    /\ replies' = [c \in Clients |-> {}]
    /\ UNCHANGED <<redis, stat, acked, runs, telemetry, errors>>

-----------------------------------------------------------------------------

Request(c) == Submit(c) \/ Enqueue(c) \/ RequestFails(c)

Step(w) == Dequeue(w) \/ Fetch(w) \/ Start(w) \/ Run(w) \/ Finish(w) \/ Report(w)

Mishap(w) == ReportRaises(w) \/ WorkerFails(w)

Next ==
    \/ \E c \in Clients : Request(c)
    \/ \E w \in Workers : Step(w) \/ Mishap(w)
    \/ StartPool \/ StopPool \/ Crash

Spec == Init /\ [][Next]_vars

\* The event loop comes back to every worker whose Redis answer has arrived.
Fairness == \A w \in Workers : WF_vars(Step(w))

FairSpec == Spec /\ Fairness

-----------------------------------------------------------------------------
(* Properties *)

Waiting(t) == {e \in queue : e.tid = t}

\* A task is executed and recorded at most once, through every stop, crash
\* and exception.
AtMostOnce ==
    \A t \in Tasks : /\ runs[t] <= 1
                     /\ telemetry[t] <= 1
                     /\ telemetry[t] = 1 => runs[t] = 1 /\ status[t] = "completed"

\* A task is in one place: what waits is pending and waits once, and no
\* worker holds it; what a worker holds, no other holds.
OnePlace ==
    \A t \in Tasks :
        /\ Waiting(t) # {} => status[t] = "pending" /\ Holders(t) = {}
        /\ \A e, f \in Waiting(t) : e = f
        /\ \A v, w \in Holders(t) : v = w

\* An id that a reply returned is known, and as long as nothing went wrong it
\* waits, is at work or is completed.
AckedIsKept ==
    \A t \in acked :
        /\ status[t] # "absent"
        /\ errors + stops = 0 => \/ status[t] = "completed"
                                 \/ Waiting(t) # {}
                                 \/ Holders(t) # {}

\* Once requests stop coming the queue is drained, whatever was in it when the
\* server started and whatever went wrong on the way, unless the server goes
\* down again.
QueueIsDrained == up /\ queue # {} ~> queue = {} \/ ~up

\* For the ledger a task is taken from the moment it leaves the queue.
Place(t) ==
    CASE Waiting(t) # {} -> "waiting"
      [] Waiting(t) = {} /\ status[t] = "absent" -> "absent"
      [] Waiting(t) = {} /\ status[t] = "completed" -> "done"
      [] Waiting(t) = {} /\ status[t] \in {"pending", "running"} -> "taken"

PlaceOf == [t \in Tasks |-> Place(t)]

Ledger == INSTANCE TaskLedger WITH Task <- Tasks, place <- PlaceOf

\* Redis, requests, workers, stops and crashes implement the ledger.
KeepsLedger == Ledger!LedgerSpec
=============================================================================
