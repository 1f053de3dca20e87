--------------------------- MODULE DemoServerProofs ---------------------------
(***************************************************************************)
(* Proofs about DemoServer, for any number of requests, workers and tasks  *)
(* and through any number of exceptions, stops, crashes and restarts.      *)
(***************************************************************************)
EXTENDS DemoServer, TLAPS

-----------------------------------------------------------------------------
(* Type correctness *)

LEMMA InitTypeOK == Init => TypeOK
<1> SUFFICES ASSUME Init PROVE TypeOK
  OBVIOUS
<1>1. RedisOK
  BY DEF Init, RedisOK
<1>2. RequestsOK
  BY DemoAssumption DEF Init, RequestsOK
<1>3. PoolOK
  BY DemoAssumption DEF Init, PoolOK, WorkerPCs
<1>4. HistoryOK
  BY DEF Init, HistoryOK
<1> QED
  BY <1>1, <1>2, <1>3, <1>4 DEF Init, TypeOK

\* What a step leaves alone stays well typed.
LEMMA Frame ==
    /\ RedisOK /\ UNCHANGED redis => RedisOK'
    /\ RequestsOK /\ UNCHANGED requests => RequestsOK'
    /\ PoolOK /\ UNCHANGED pool => PoolOK'
    /\ HistoryOK /\ UNCHANGED history => HistoryOK'
BY DEF RedisOK, RequestsOK, PoolOK, HistoryOK, redis, requests, pool, history

\* What a request writes to Redis is well typed.
LEMMA TransactionTyped ==
    ASSUME TypeOK, NEW c \in Clients, cjob[c] # NoTask, Transaction(c)
    PROVE  RedisOK'
BY DEF TypeOK, RedisOK, RequestsOK, Transaction

\* What a request remembers is well typed whichever task it turns to.
LEMMA AwaitTyped ==
    ASSUME TypeOK, NEW c \in Clients, NEW n \in Nat, NEW done \in SUBSET Tasks,
           Score(c, n, done) \/ Respond(c)
    PROVE  RequestsOK'
BY DemoAssumption DEF TypeOK, RequestsOK, Score, Respond, Await

LEMMA RequestTypeOK ==
    ASSUME TypeOK, NEW c \in Clients, Request(c)
    PROVE  TypeOK'
<1>1. CASE Submit(c)
  <2>1. PICK n \in 1..MaxBatch : Score(c, n, {})
    BY <1>1 DEF Submit
  <2>2. n \in Nat /\ {} \in SUBSET Tasks
    BY DemoAssumption
  <2>3. RequestsOK'
    BY <2>1, <2>2, AwaitTyped
  <2> QED
    BY <1>1, <2>3, Frame DEF Submit, TypeOK
<1>2. CASE Enqueue(c)
  <2>1. cjob[c] \in Tasks /\ left[c] \in Nat /\ replies[c] \cup {cjob[c]} \in SUBSET Tasks
    BY <1>2 DEF Enqueue, TypeOK, RequestsOK
  <2>2. \E n \in Nat, done \in SUBSET Tasks : Score(c, n, done) \/ Respond(c)
    <3>1. left[c] > 1 => left[c] - 1 \in Nat
      BY <2>1
    <3> QED
      BY <1>2, <2>1, <3>1 DEF Enqueue
  <2>3. RequestsOK'
    BY <2>2, AwaitTyped
  <2>4. RedisOK'
    BY <1>2, TransactionTyped DEF Enqueue
  <2>5. HistoryOK'
    BY <1>2, <2>1 DEF Enqueue, TypeOK, HistoryOK
  <2> QED
    BY <1>2, <2>3, <2>4, <2>5, Frame DEF Enqueue, TypeOK
<1>3. CASE RequestFails(c)
  <2>1. RedisOK'
    BY <1>3, TransactionTyped, Frame DEF RequestFails, TypeOK
  <2>2. RequestsOK'
    <3>1. 0 \in Nat /\ {} \in SUBSET Tasks /\ Respond(c)
      BY <1>3 DEF RequestFails
    <3> QED
      BY <3>1, AwaitTyped
  <2>3. HistoryOK'
    BY <1>3 DEF RequestFails, TypeOK, HistoryOK
  <2> QED
    BY <1>3, <2>1, <2>2, <2>3, Frame DEF RequestFails, TypeOK
<1> QED
  BY <1>1, <1>2, <1>3 DEF Request

\* A worker that turns to a task at one of the points of its loop.
LEMMA WorkTyped ==
    ASSUME PoolOK, NEW w \in Workers, NEW label \in WorkerPCs, NEW t \in Tasks \cup {NoTask},
           NEW busy, Work(w, label, t, busy),
           t \in Tasks <=> label \notin {"off", "dequeue"}
    PROVE  PoolOK'
BY DEF PoolOK, Work

LEMMA LoopTyped == \A w \in Workers : PoolOK /\ Loop(w) => PoolOK'
<1>1. "dequeue" \in WorkerPCs
  BY DEF WorkerPCs
<1> QED
  BY <1>1, WorkTyped, DemoAssumption DEF Loop

LEMMA StepTypeOK ==
    ASSUME TypeOK, NEW w \in Workers, Step(w) \/ Mishap(w)
    PROVE  TypeOK'
<1> USE DEF TypeOK
<1>0. {"fetch", "start", "run", "finish", "report"} \subseteq WorkerPCs
  BY DEF WorkerPCs
<1>1. CASE Dequeue(w)
  <2>1. PICK e \in queue : queue' = queue \ {e} /\ Work(w, "fetch", e.tid, FALSE)
    BY <1>1 DEF Dequeue
  <2>2. RedisOK'
    BY <1>1, <2>1 DEF Dequeue, RedisOK
  <2>3. e.tid \in Tasks
    BY DEF RedisOK
  <2>4. PoolOK'
    BY <1>0, <2>1, <2>3, WorkTyped
  <2> QED
    BY <1>1, <2>2, <2>4, Frame DEF Dequeue
<1>2. CASE Fetch(w)
  <2>1. wjob[w] \in Tasks
    BY <1>2 DEF Fetch, PoolOK
  <2>2. PoolOK'
    BY <1>0, <1>2, <2>1, WorkTyped, LoopTyped DEF Fetch
  <2> QED
    BY <1>2, <2>2, Frame DEF Fetch
<1>3. CASE Start(w)
  <2>1. wjob[w] \in Tasks
    BY <1>3 DEF Start, PoolOK
  <2>2. PoolOK'
    BY <1>0, <1>3, <2>1, WorkTyped DEF Start
  <2>3. RedisOK'
    BY <1>3, <2>1 DEF Start, RedisOK
  <2> QED
    BY <1>3, <2>2, <2>3, Frame DEF Start
<1>4. CASE Run(w)
  <2>1. wjob[w] \in Tasks
    BY <1>4 DEF Run, PoolOK
  <2>2. PoolOK'
    BY <1>0, <1>4, <2>1, WorkTyped DEF Run
  <2>3. HistoryOK'
    BY <1>4, <2>1 DEF Run, HistoryOK
  <2> QED
    BY <1>4, <2>2, <2>3, Frame DEF Run
<1>5. CASE Finish(w)
  <2>1. wjob[w] \in Tasks
    BY <1>5 DEF Finish, PoolOK
  <2>2. PoolOK'
    BY <1>0, <1>5, <2>1, WorkTyped DEF Finish
  <2>3. RedisOK'
    BY <1>5, <2>1 DEF Finish, RedisOK
  <2> QED
    BY <1>5, <2>2, <2>3, Frame DEF Finish
<1>6. CASE Report(w) \/ ReportRaises(w)
  <2>1. wjob[w] \in Tasks
    BY <1>6 DEF Report, ReportRaises, PoolOK
  <2>2. PoolOK'
    BY <1>6, LoopTyped DEF Report, ReportRaises
  <2>3. HistoryOK'
    BY <1>6, <2>1 DEF Report, ReportRaises, HistoryOK
  <2> QED
    BY <1>6, <2>2, <2>3, Frame DEF Report, ReportRaises
<1>7. CASE WorkerFails(w)
  <2>1. PoolOK' /\ HistoryOK'
    BY <1>7, LoopTyped DEF WorkerFails, HistoryOK
  <2> QED
    BY <1>7, <2>1, Frame DEF WorkerFails
<1> QED
  BY <1>1, <1>2, <1>3, <1>4, <1>5, <1>6, <1>7 DEF Step, Mishap

LEMMA ProcessTypeOK ==
    ASSUME TypeOK, StartPool \/ StopPool \/ Crash
    PROVE  TypeOK'
<1> USE DEF TypeOK
<1>1. CASE StartPool
  <2>1. PoolOK'
    BY <1>1, DemoAssumption DEF StartPool, PoolOK, WorkerPCs
  <2> QED
    BY <1>1, <2>1, Frame DEF StartPool
<1>2. ASSUME WorkersGone, UNCHANGED <<stat, acked, runs, telemetry, errors>>
      PROVE  PoolOK' /\ HistoryOK' /\ up' \in BOOLEAN
  <2>1. PoolOK'
    BY <1>2, DemoAssumption DEF WorkersGone, PoolOK, WorkerPCs
  <2>2. HistoryOK'
    BY <1>2 DEF WorkersGone, HistoryOK
  <2> QED
    BY <1>2, <2>1, <2>2 DEF WorkersGone
<1>3. CASE StopPool
  BY <1>2, <1>3, Frame DEF StopPool
<1>4. CASE Crash
  <2>1. RequestsOK'
    BY <1>4, DemoAssumption DEF Crash, RequestsOK
  <2> QED
    BY <1>2, <1>4, <2>1, Frame DEF Crash
<1> QED
  BY <1>1, <1>3, <1>4

LEMMA NextTypeOK == TypeOK /\ [Next]_vars => TypeOK'
<1> SUFFICES ASSUME TypeOK, [Next]_vars PROVE TypeOK'
  OBVIOUS
<1>1. CASE UNCHANGED vars
  BY <1>1, Frame DEF vars, TypeOK
<1> QED
  BY <1>1, RequestTypeOK, StepTypeOK, ProcessTypeOK DEF Next

\* Redis, the requests and the workers stay well typed.
THEOREM TypeCorrect == Spec => []TypeOK
BY InitTypeOK, NextTypeOK, PTL DEF Spec

-----------------------------------------------------------------------------
(* Every task is in one place *)

\* What waits in the queue is pending, waits once and is with no worker.
QueueInv ==
    /\ \A e \in queue : status[e.tid] = "pending" /\ \A w \in Workers : wjob[w] # e.tid
    /\ \A e, f \in queue : e.tid = f.tid => e = f

\* An id that is being enqueued is unknown to Redis and to other requests.
RequestInv ==
    /\ \A c \in Clients : cjob[c] # NoTask => status[cjob[c]] = "absent"
    /\ \A c, d \in Clients : cjob[c] = cjob[d] /\ cjob[c] # NoTask => c = d

\* What a worker holds is known, no other worker holds it, and its status
\* follows the worker's progress.
StatusAt(label) ==
    CASE label \in {"fetch", "start"} -> "pending"
      [] label \in {"run", "finish"} -> "running"
      [] OTHER -> "completed"

WorkerInv ==
    /\ \A w \in Workers : wjob[w] # NoTask => status[wjob[w]] = StatusAt(wpc[w])
    /\ \A v, w \in Workers : wjob[v] = wjob[w] /\ wjob[v] # NoTask => v = w

\* How often a task has been executed and recorded follows its status and the
\* progress of the worker that holds it.
TallyInv ==
    /\ \A t \in Tasks :
          /\ runs[t] \in 0..1 /\ telemetry[t] \in 0..1
          /\ status[t] \in {"absent", "pending"} => runs[t] = 0
          /\ status[t] = "completed" => runs[t] = 1
          /\ telemetry[t] = 1 => status[t] = "completed"
    /\ \A w \in Workers :
          /\ wpc[w] = "run" => runs[wjob[w]] = 0
          /\ wpc[w] = "finish" => runs[wjob[w]] = 1
          /\ wpc[w] = "report" => telemetry[wjob[w]] = 0

PlaceInv == QueueInv /\ RequestInv /\ WorkerInv

DemoInv == TypeOK /\ PlaceInv /\ TallyInv

-----------------------------------------------------------------------------

LEMMA InitPlaceInv == Init => PlaceInv
BY DEF Init, PlaceInv, QueueInv, RequestInv, WorkerInv

\* A request that turns to its next task turns to one that nobody knows.
LEMMA Turns ==
    ASSUME TypeOK, NEW c \in Clients, NEW n, NEW done, Score(c, n, done) \/ Respond(c)
    PROVE  \E x \in Tasks \cup {NoTask} :
              /\ cjob' = [cjob EXCEPT ![c] = x]
              /\ x # NoTask => status[x] = "absent" /\ \A d \in Clients : cjob[d] # x
BY DEF Score, Respond, Await, Unused

\* A request keeps every task in one place, whether its transaction has an
\* effect or not.
LEMMA RequestPlaceInv ==
    ASSUME TypeOK, PlaceInv, NEW c \in Clients, Request(c)
    PROVE  PlaceInv'
<1> USE DEF PlaceInv, TypeOK
<1>1. PICK x \in Tasks \cup {NoTask} :
           /\ cjob' = [cjob EXCEPT ![c] = x]
           /\ x # NoTask => status[x] = "absent" /\ \A d \in Clients : cjob[d] # x
  BY Turns DEF Request, Submit, Enqueue, RequestFails
<1>2. \A d \in Clients : cjob'[d] = IF d = c THEN x ELSE cjob[d]
  BY <1>1 DEF RequestsOK
<1>3. UNCHANGED <<wpc, wjob>>
  BY DEF Request, Submit, Enqueue, RequestFails, pool
<1>4. CASE UNCHANGED redis
  <2>1. RequestInv'
    BY <1>1, <1>2, <1>4 DEF RequestInv, redis
  <2>2. QueueInv' /\ WorkerInv'
    BY <1>3, <1>4 DEF QueueInv, WorkerInv, StatusAt, redis
  <2> QED
    BY <2>1, <2>2
<1>5. CASE cjob[c] # NoTask /\ Transaction(c)
  <2> DEFINE t == cjob[c]
  <2>1. t \in Tasks /\ status[t] = "absent" /\ cscore[c] \in Scores
    BY <1>5 DEF RequestInv, RequestsOK
  <2>2. \A y \in Tasks : status'[y] = IF y = t THEN "pending" ELSE status[y]
    BY <1>5 DEF Transaction, RedisOK
  <2> DEFINE e == [tid |-> t, score |-> cscore[c]]
  <2>3. queue' = queue \cup {e} /\ e.tid = t
    BY <1>5 DEF Transaction
  <2>4. \A w \in Workers : wjob[w] # t
    <3> SUFFICES ASSUME NEW w \in Workers, wjob[w] = t PROVE FALSE
      OBVIOUS
    <3>1. StatusAt(wpc[w]) # "absent"
      BY DEF StatusAt
    <3> QED
      BY <1>5, <2>1, <3>1 DEF WorkerInv
  <2>5. \A f \in queue : f.tid \in Tasks /\ f.tid # t
    BY <2>1 DEF QueueInv, RedisOK
  <2>6. QueueInv'
    BY <1>3, <2>1, <2>2, <2>3, <2>4, <2>5 DEF QueueInv
  <2>7. RequestInv'
    <3>1. \A d \in Clients : cjob'[d] # NoTask => cjob'[d] # t /\ status[cjob'[d]] = "absent"
      BY <1>1, <1>2, <1>5 DEF RequestInv
    <3>2. \A d \in Clients : cjob'[d] # NoTask => status'[cjob'[d]] = "absent"
      BY <1>1, <1>2, <2>2, <3>1 DEF RequestsOK
    <3> QED
      BY <1>1, <1>2, <3>2 DEF RequestInv
  <2>8. WorkerInv'
    <3>1. \A w \in Workers : wjob[w] # NoTask => status'[wjob[w]] = status[wjob[w]]
      BY <2>2, <2>4 DEF PoolOK
    <3> QED
      BY <1>3, <3>1 DEF WorkerInv, StatusAt
  <2> QED
    BY <2>6, <2>7, <2>8
<1> QED
  BY <1>4, <1>5 DEF Request, Submit, Enqueue, RequestFails

\* A worker that goes on with its task writes the status of where it gets to.
LEMMA GoesOn ==
    ASSUME TypeOK, PlaceInv, NEW w \in Workers, wjob[w] \in Tasks, NEW label \in WorkerPCs,
           wpc' = [wpc EXCEPT ![w] = label], wjob' = wjob,
           status' = [status EXCEPT ![wjob[w]] = StatusAt(label)],
           UNCHANGED <<queue, requests>>
    PROVE  PlaceInv'
<1> USE DEF PlaceInv, TypeOK
<1>1. \A t \in Tasks : status'[t] = IF t = wjob[w] THEN StatusAt(label) ELSE status[t]
  BY DEF RedisOK
<1>2. \A v \in Workers : wpc'[v] = IF v = w THEN label ELSE wpc[v]
  BY DEF PoolOK
<1>3. wjob[w] # NoTask /\ status[wjob[w]] # "absent"
  BY DemoAssumption DEF WorkerInv, StatusAt
<1>4. QueueInv'
  BY <1>1 DEF QueueInv, RedisOK
<1>5. RequestInv'
  BY <1>1, <1>3 DEF RequestInv, RequestsOK, requests
<1>6. WorkerInv'
  <2>1. \A v \in Workers : wjob[v] # NoTask => status'[wjob[v]] = StatusAt(wpc'[v])
    BY <1>1, <1>2, <1>3 DEF WorkerInv, PoolOK
  <2> QED
    BY <2>1 DEF WorkerInv, StatusAt
<1> QED
  BY <1>4, <1>5, <1>6

\* Workers that let their tasks go leave them in no place, not in two.
LEMMA LetsGo ==
    ASSUME TypeOK, PlaceInv, UNCHANGED <<redis, cjob>>,
           \A w \in Workers : \/ wjob'[w] = NoTask
                              \/ wjob'[w] = wjob[w] /\ wpc'[w] = wpc[w]
    PROVE  PlaceInv'
<1> USE DEF PlaceInv, redis
<1>1. QueueInv'
  BY DemoAssumption DEF QueueInv, TypeOK, RedisOK
<1>2. RequestInv'
  BY DEF RequestInv
<1>3. WorkerInv'
  BY DEF WorkerInv, StatusAt
<1> QED
  BY <1>1, <1>2, <1>3

LEMMA StepPlaceInv ==
    ASSUME TypeOK, PlaceInv, NEW w \in Workers, Step(w) \/ Mishap(w)
    PROVE  PlaceInv'
<1> USE DEF PlaceInv, TypeOK
<1>0. {"fetch", "start", "run", "finish", "report"} \subseteq WorkerPCs
  BY DEF WorkerPCs
<1>1. CASE Dequeue(w)
  <2>1. PICK e \in queue : queue' = queue \ {e} /\ Work(w, "fetch", e.tid, FALSE)
    BY <1>1 DEF Dequeue
  <2>2. e.tid \in Tasks /\ status[e.tid] = "pending" /\ \A v \in Workers : wjob[v] # e.tid
    BY DEF QueueInv, RedisOK
  <2>3. \A v \in Workers : /\ wjob'[v] = IF v = w THEN e.tid ELSE wjob[v]
                           /\ wpc'[v] = IF v = w THEN "fetch" ELSE wpc[v]
    BY <2>1 DEF Work, PoolOK
  <2>4. QueueInv'
    <3>1. \A f \in queue' : f \in queue /\ f.tid # e.tid
      BY <2>1 DEF QueueInv
    <3> QED
      BY <1>1, <2>3, <3>1 DEF QueueInv, Dequeue
  <2>5. RequestInv'
    BY <1>1 DEF RequestInv, Dequeue, requests
  <2>6. WorkerInv'
    BY <1>1, <2>2, <2>3 DEF WorkerInv, StatusAt, Dequeue
  <2> QED
    BY <2>4, <2>5, <2>6
<1>2. CASE wpc[w] = "fetch" /\ Work(w, "start", wjob[w], TRUE) /\ Fetch(w)
  <2>1. wjob[w] \in Tasks /\ wjob' = wjob
    BY <1>2 DEF Work, PoolOK
  <2>2. status[wjob[w]] = StatusAt("start")
    BY <1>2, <2>1, DemoAssumption DEF WorkerInv, StatusAt
  <2>3. status' = [status EXCEPT ![wjob[w]] = StatusAt("start")]
    BY <1>2, <2>1, <2>2 DEF Fetch, redis, RedisOK
  <2> QED
    BY <1>0, <1>2, <2>1, <2>3, GoesOn DEF Fetch, Work, redis
<1>3. CASE Start(w)
  <2>1. wjob[w] \in Tasks /\ wjob' = wjob /\ StatusAt("run") = "running"
    BY <1>3 DEF Start, Work, PoolOK, StatusAt
  <2> QED
    BY <1>0, <1>3, <2>1, GoesOn DEF Start, Work
<1>4. CASE Run(w)
  <2>1. wjob[w] \in Tasks /\ wjob' = wjob
    BY <1>4 DEF Run, Work, PoolOK
  <2>2. status[wjob[w]] = StatusAt("finish")
    BY <1>4, <2>1, DemoAssumption DEF Run, WorkerInv, StatusAt
  <2>3. status' = [status EXCEPT ![wjob[w]] = StatusAt("finish")]
    BY <1>4, <2>1, <2>2 DEF Run, redis, RedisOK
  <2> QED
    BY <1>0, <1>4, <2>1, <2>3, GoesOn DEF Run, Work, redis
<1>5. CASE Finish(w)
  <2>1. wjob[w] \in Tasks /\ wjob' = wjob /\ StatusAt("report") = "completed"
    BY <1>5 DEF Finish, Work, PoolOK, StatusAt
  <2> QED
    BY <1>0, <1>5, <2>1, GoesOn DEF Finish, Work
<1>6. CASE Loop(w) /\ UNCHANGED <<redis, requests>>
  <2>1. \A v \in Workers : \/ wjob'[v] = NoTask
                           \/ wjob'[v] = wjob[v] /\ wpc'[v] = wpc[v]
    BY <1>6 DEF Loop, Work, PoolOK
  <2> QED
    BY <1>6, <2>1, LetsGo DEF requests
<1> QED
  BY <1>1, <1>2, <1>3, <1>4, <1>5, <1>6
     DEF Step, Mishap, Fetch, Report, ReportRaises, WorkerFails

LEMMA ProcessPlaceInv ==
    ASSUME TypeOK, PlaceInv, StartPool \/ StopPool \/ Crash
    PROVE  PlaceInv'
<1>1. \A w \in Workers : wjob'[w] = NoTask
  BY DEF StartPool, StopPool, Crash, WorkersGone
<1>2. CASE StartPool \/ StopPool
  BY <1>1, <1>2, LetsGo DEF StartPool, StopPool, redis, requests
<1>3. CASE Crash
  <2>1. QueueInv' /\ WorkerInv'
    BY <1>1, <1>3, DemoAssumption
       DEF Crash, PlaceInv, QueueInv, WorkerInv, StatusAt, TypeOK, RedisOK, redis
  <2>2. RequestInv'
    BY <1>3 DEF Crash, RequestInv
  <2> QED
    BY <2>1, <2>2 DEF PlaceInv
<1> QED
  BY <1>2, <1>3

LEMMA NextPlaceInv == TypeOK /\ PlaceInv /\ [Next]_vars => PlaceInv'
<1> SUFFICES ASSUME TypeOK, PlaceInv, [Next]_vars PROVE PlaceInv'
  OBVIOUS
<1>1. CASE UNCHANGED vars
  <2>1. UNCHANGED <<redis, requests, pool>>
    BY <1>1 DEF vars
  <2> QED
    BY <2>1, LetsGo DEF requests, pool
<1> QED
  BY <1>1, RequestPlaceInv, StepPlaceInv, ProcessPlaceInv DEF Next

LEMMA Places == Spec => [](TypeOK /\ PlaceInv)
BY InitTypeOK, NextTypeOK, InitPlaceInv, NextPlaceInv, PTL DEF Spec

\* Neither the gap between the two commands of dequeue, nor a request whose
\* answer is lost, nor an exception, stop or crash brings a task to a second
\* place or a second worker.
THEOREM EachTaskInOnePlace == Spec => []OnePlace
<1>1. TypeOK /\ PlaceInv => OnePlace
  <2> SUFFICES ASSUME TypeOK, PlaceInv, NEW t \in Tasks
               PROVE  /\ Waiting(t) # {} => status[t] = "pending" /\ Holders(t) = {}
                      /\ \A e, f \in Waiting(t) : e = f
                      /\ \A v, w \in Holders(t) : v = w
    BY DEF OnePlace
  <2> QED
    BY DemoAssumption DEF PlaceInv, QueueInv, WorkerInv, Waiting, Holders
<1> QED
  BY <1>1, Places, PTL

-----------------------------------------------------------------------------
(* No task is executed or recorded twice *)

LEMMA InitTallyInv == Init => TallyInv
BY DEF Init, TallyInv

\* A request touches no task that has been executed or is at work.
LEMMA RequestTallyInv ==
    ASSUME TypeOK, PlaceInv, TallyInv, NEW c \in Clients, Request(c)
    PROVE  TallyInv'
<1>1. UNCHANGED <<wpc, wjob, runs, telemetry>>
  BY DEF Request, Submit, Enqueue, RequestFails, pool, history
<1>2. CASE UNCHANGED redis
  BY <1>1, <1>2 DEF TallyInv, redis
<1>3. CASE cjob[c] # NoTask /\ Transaction(c)
  <2>1. status[cjob[c]] = "absent"
    BY <1>3 DEF PlaceInv, RequestInv
  <2>2. \A t \in Tasks : status'[t] = IF t = cjob[c] THEN "pending" ELSE status[t]
    BY <1>3 DEF Transaction, TypeOK, RedisOK
  <2> QED
    BY <1>1, <2>1, <2>2 DEF TallyInv
<1> QED
  BY <1>2, <1>3 DEF Request, Submit, Enqueue, RequestFails

LEMMA StepTallyInv ==
    ASSUME TypeOK, PlaceInv, TallyInv, NEW w \in Workers, Step(w) \/ Mishap(w)
    PROVE  TallyInv'
<1> USE DEF TypeOK, PlaceInv, PoolOK
<1> DEFINE j == wjob[w]
<1>0. wpc[w] \notin {"off", "dequeue"} =>
         /\ j \in Tasks /\ j # NoTask
         /\ status[j] = StatusAt(wpc[w])
         /\ \A v \in Workers : wjob[v] = j => v = w
  BY DemoAssumption DEF WorkerInv
<1>1. CASE Dequeue(w)
  <2>1. \A v \in Workers : v # w => wjob'[v] = wjob[v] /\ wpc'[v] = wpc[v]
    BY <1>1 DEF Dequeue, Work
  <2>2. wpc'[w] = "fetch"
    BY <1>1 DEF Dequeue, Work
  <2>3. UNCHANGED <<status, runs, telemetry>>
    BY <1>1 DEF Dequeue, history
  <2> QED
    BY <2>1, <2>2, <2>3 DEF TallyInv
<1>2. CASE Fetch(w)
  <2>1. \A v \in Workers : v # w => wjob'[v] = wjob[v] /\ wpc'[v] = wpc[v]
    BY <1>2 DEF Fetch, Loop, Work
  <2>2. wpc'[w] \in {"dequeue", "start"}
    BY <1>2 DEF Fetch, Loop, Work
  <2>3. UNCHANGED <<status, runs, telemetry>>
    BY <1>2 DEF Fetch, history, redis
  <2> QED
    BY <2>1, <2>2, <2>3 DEF TallyInv
<1>3. CASE Start(w)
  <2>1. j \in Tasks /\ status[j] = "pending" /\ \A v \in Workers : wjob[v] = j => v = w
    BY <1>0, <1>3 DEF Start, StatusAt
  <2>2. \A v \in Workers : wjob'[v] = wjob[v] /\ wpc'[v] = IF v = w THEN "run" ELSE wpc[v]
    BY <1>3 DEF Start, Work
  <2>3. \A t \in Tasks : status'[t] = IF t = j THEN "running" ELSE status[t]
    BY <1>3 DEF Start, RedisOK
  <2> QED
    BY <1>3, <2>1, <2>2, <2>3 DEF TallyInv, Start, history
<1>4. CASE Run(w)
  <2>1. j \in Tasks /\ status[j] = "running" /\ \A v \in Workers : wjob[v] = j => v = w
    BY <1>0, <1>4 DEF Run, StatusAt
  <2>2. \A v \in Workers : wjob'[v] = wjob[v] /\ wpc'[v] = IF v = w THEN "finish" ELSE wpc[v]
    BY <1>4 DEF Run, Work
  <2>3. runs[j] = 0
    BY <1>4 DEF TallyInv, Run
  <2>4. \A t \in Tasks : runs'[t] = IF t = j THEN 1 ELSE runs[t]
    BY <1>4, <2>3 DEF Run, HistoryOK
  <2>5. UNCHANGED <<status, telemetry>>
    BY <1>4 DEF Run, redis
  <2>6. \A v \in Workers : wpc[v] \in {"run", "finish"} => wjob[v] \in Tasks
    OBVIOUS
  <2> QED
    BY <2>1, <2>2, <2>4, <2>5, <2>6 DEF TallyInv
<1>5. CASE Finish(w)
  <2>1. j \in Tasks /\ status[j] = "running" /\ \A v \in Workers : wjob[v] = j => v = w
    BY <1>0, <1>5 DEF Finish, StatusAt
  <2>2. \A v \in Workers : wjob'[v] = wjob[v] /\ wpc'[v] = IF v = w THEN "report" ELSE wpc[v]
    BY <1>5 DEF Finish, Work
  <2>3. \A t \in Tasks : status'[t] = IF t = j THEN "completed" ELSE status[t]
    BY <1>5 DEF Finish, RedisOK
  <2>4. runs[j] = 1 /\ telemetry[j] = 0
    BY <1>5, <2>1 DEF Finish, TallyInv
  <2> QED
    BY <1>5, <2>1, <2>2, <2>3, <2>4 DEF TallyInv, Finish, history
<1>6. CASE Report(w) \/ ReportRaises(w)
  <2>1. j \in Tasks /\ status[j] = "completed" /\ \A v \in Workers : wjob[v] = j => v = w
    BY <1>0, <1>6 DEF Report, ReportRaises, StatusAt
  <2>2. \A v \in Workers : v # w => wjob'[v] = wjob[v] /\ wpc'[v] = wpc[v]
    BY <1>6 DEF Report, ReportRaises, Loop, Work
  <2>3. wpc'[w] = "dequeue"
    BY <1>6 DEF Report, ReportRaises, Loop, Work
  <2>4. telemetry[j] = 0
    BY <1>6 DEF Report, ReportRaises, TallyInv
  <2>5. \A t \in Tasks : telemetry'[t] = IF t = j THEN 1 ELSE telemetry[t]
    BY <1>6, <2>4 DEF Report, ReportRaises, HistoryOK
  <2>6. UNCHANGED <<status, runs>>
    BY <1>6 DEF Report, ReportRaises, redis
  <2>7. \A v \in Workers : wpc[v] = "report" => wjob[v] \in Tasks
    OBVIOUS
  <2> QED
    BY <2>1, <2>2, <2>3, <2>5, <2>6, <2>7 DEF TallyInv
<1>7. CASE WorkerFails(w)
  <2>1. \A v \in Workers : v # w => wjob'[v] = wjob[v] /\ wpc'[v] = wpc[v]
    BY <1>7 DEF WorkerFails, Loop, Work
  <2>2. wpc'[w] = "dequeue"
    BY <1>7 DEF WorkerFails, Loop, Work
  <2>3. UNCHANGED <<status, runs, telemetry>>
    BY <1>7 DEF WorkerFails, redis
  <2> QED
    BY <2>1, <2>2, <2>3 DEF TallyInv
<1> QED
  BY <1>1, <1>2, <1>3, <1>4, <1>5, <1>6, <1>7 DEF Step, Mishap

LEMMA ProcessTallyInv ==
    ASSUME TallyInv, StartPool \/ StopPool \/ Crash
    PROVE  TallyInv'
<1>1. \A w \in Workers : wpc'[w] \in {"off", "dequeue"}
  BY DEF StartPool, StopPool, Crash, WorkersGone
<1>2. UNCHANGED <<status, runs, telemetry>>
  BY DEF StartPool, StopPool, Crash, redis, history
<1> QED
  BY <1>1, <1>2 DEF TallyInv

LEMMA NextTallyInv == TypeOK /\ PlaceInv /\ TallyInv /\ [Next]_vars => TallyInv'
<1> SUFFICES ASSUME TypeOK, PlaceInv, TallyInv, [Next]_vars PROVE TallyInv'
  OBVIOUS
<1>1. CASE UNCHANGED vars
  BY <1>1 DEF vars, redis, pool, history, TallyInv
<1> QED
  BY <1>1, RequestTallyInv, StepTallyInv, ProcessTallyInv DEF Next

\* A task is executed and recorded at most once, through any number of
\* exceptions, stops, crashes and restarts.
THEOREM ExecutedAtMostOnce == Spec => []AtMostOnce
<1>1. TallyInv => AtMostOnce
  BY DEF TallyInv, AtMostOnce
<1>2. Spec => []TallyInv
  BY InitTallyInv, NextTallyInv, Places, PTL DEF Spec
<1> QED
  BY <1>1, <1>2, PTL

-----------------------------------------------------------------------------
(* No acknowledged task is lost *)

\* A task Redis knows waits, is with a worker or is completed.
KnownIsKept ==
    \A t \in Tasks :
        \/ status[t] \in {"absent", "completed"}
        \/ \E e \in queue : e.tid = t
        \/ \E w \in Workers : wjob[w] = t

\* Every id a reply returns or is about to return is known to Redis; while
\* nothing goes wrong no known task is forgotten.  A pool that is down holds
\* none, so that starting it forgets none either.
AckInv ==
    /\ \A t \in acked : status[t] # "absent"
    /\ \A c \in Clients : \A t \in replies[c] : status[t] # "absent"
    /\ errors = 0 /\ stops = 0 => KnownIsKept
    /\ ~up => \A w \in Workers : wpc[w] = "off"

LEMMA InitAckInv == Init => AckInv
BY DEF Init, AckInv, KnownIsKept

\* The transaction makes its task known, and forgets none.
LEMMA TransactionKnows ==
    ASSUME TypeOK, NEW c \in Clients, cjob[c] # NoTask, Transaction(c)
    PROVE  /\ cjob[c] \in Tasks /\ status'[cjob[c]] = "pending"
           /\ \A t \in Tasks : status[t] # "absent" => status'[t] # "absent"
           /\ wjob' = wjob /\ KnownIsKept => KnownIsKept'
<1>1. PICK t \in Tasks : t = cjob[c]
  BY DEF TypeOK, RequestsOK
<1> PICK e : e = [tid |-> t, score |-> cscore[c]]
  OBVIOUS
<1>2. queue' = queue \cup {e} /\ e.tid = t /\ status' = [status EXCEPT ![t] = "pending"]
  BY <1>1 DEF Transaction
<1>3. \A u \in Tasks : status'[u] = IF u = t THEN "pending" ELSE status[u]
  BY <1>2 DEF TypeOK, RedisOK
<1>4. wjob' = wjob /\ KnownIsKept => KnownIsKept'
  BY <1>2, <1>3 DEF KnownIsKept
<1> QED
  BY <1>1, <1>3, <1>4

\* What a request has in its reply, and what it returns, it has enqueued.
LEMMA RequestAckInv ==
    ASSUME TypeOK, AckInv, NEW c \in Clients, Request(c)
    PROVE  AckInv'
<1> USE DEF AckInv
<1>0. UNCHANGED <<up, wpc, wjob, stops>>
  BY DEF Request, Submit, Enqueue, RequestFails, pool, history
<1>a. replies \in [Clients -> SUBSET Tasks] /\ acked \subseteq Tasks
  BY DEF TypeOK, RequestsOK, HistoryOK
<1>1. CASE Submit(c)
  <2>1. UNCHANGED <<queue, status, acked, errors>> /\ replies' = [replies EXCEPT ![c] = {}]
    BY <1>1 DEF Submit, Score, Await, redis, history
  <2>2. \A d \in Clients : replies'[d] \subseteq replies[d]
    BY <1>a, <2>1
  <2> QED
    BY <1>0, <2>1, <2>2 DEF KnownIsKept
<1>2. CASE Enqueue(c)
  <2>1. /\ cjob[c] \in Tasks /\ status'[cjob[c]] = "pending"
        /\ \A t \in Tasks : status[t] # "absent" => status'[t] # "absent"
        /\ KnownIsKept => KnownIsKept'
    BY <1>0, <1>2, TransactionKnows DEF Enqueue
  <2>2. \A d \in Clients : replies'[d] \subseteq replies[d] \cup {cjob[c]}
    <3>1. PICK done : /\ replies' = [replies EXCEPT ![c] = done]
                      /\ done \subseteq replies[c] \cup {cjob[c]}
      BY <1>2 DEF Enqueue, Score, Respond, Await
    <3> QED
      BY <1>a, <3>1
  <2>3. acked' \subseteq acked \cup replies[c] \cup {cjob[c]} /\ errors' = errors
    BY <1>2 DEF Enqueue
  <2>4. \A t \in acked' : status'[t] # "absent"
    BY <1>a, <2>1, <2>3
  <2>5. \A d \in Clients : \A t \in replies'[d] : status'[t] # "absent"
    BY <1>a, <2>1, <2>2
  <2> QED
    BY <1>0, <2>1, <2>3, <2>4, <2>5
<1>3. CASE RequestFails(c)
  <2>1. \A t \in Tasks : status[t] # "absent" => status'[t] # "absent"
    BY <1>3, TransactionKnows DEF RequestFails, redis
  <2>2. replies' = [replies EXCEPT ![c] = {}] /\ acked' = acked /\ errors' # 0
    BY <1>3 DEF RequestFails, Respond, Await, TypeOK, HistoryOK
  <2>3. \A d \in Clients : replies'[d] \subseteq replies[d]
    BY <1>a, <2>2
  <2>4. \A t \in acked' : status'[t] # "absent"
    BY <1>a, <2>1, <2>2
  <2>5. \A d \in Clients : \A t \in replies'[d] : status'[t] # "absent"
    BY <1>a, <2>1, <2>3
  <2> QED
    BY <1>0, <2>2, <2>4, <2>5
<1> QED
  BY <1>1, <1>2, <1>3 DEF Request

\* A worker that works makes no task unknown, and lets none go.
LEMMA WorkAckInv ==
    ASSUME TypeOK, AckInv, NEW w \in Workers, UNCHANGED <<up, replies, acked>>,
           wpc[w] # "off", \A v \in Workers \ {w} : wpc'[v] = wpc[v],
           \A t \in Tasks : status[t] # "absent" => status'[t] # "absent",
           errors' = 0 /\ stops' = 0 => errors = 0 /\ stops = 0 /\ (KnownIsKept => KnownIsKept')
    PROVE  AckInv'
<1>1. \A t \in acked' : status'[t] # "absent"
  BY DEF AckInv, TypeOK, HistoryOK
<1>2. \A d \in Clients : \A t \in replies'[d] : status'[t] # "absent"
  BY DEF AckInv, TypeOK, RequestsOK
<1> QED
  BY <1>1, <1>2 DEF AckInv

LEMMA StepAckInv ==
    ASSUME TypeOK, PlaceInv, AckInv, NEW w \in Workers, Step(w) \/ Mishap(w)
    PROVE  AckInv'
<1>1. PICK label \in WorkerPCs, j \in Tasks \cup {NoTask}, busy \in BOOLEAN : Work(w, label, j, busy)
  BY DEF Step, Mishap, Dequeue, Fetch, Start, Run, Finish, Report, ReportRaises, WorkerFails, Loop,
     WorkerPCs, TypeOK, RedisOK, PoolOK
<1>2. /\ \A v \in Workers \ {w} : wpc'[v] = wpc[v] /\ wjob'[v] = wjob[v]
      /\ wpc'[w] = label /\ wjob'[w] = j
  BY <1>1 DEF Work, TypeOK, PoolOK
<1>3. wpc[w] # "off" /\ UNCHANGED <<up, replies, acked, stops>> /\ errors' \in {errors, errors + 1}
  BY DEF Step, Mishap, Dequeue, Fetch, Start, Run, Finish, Report, ReportRaises, WorkerFails,
     requests, history
<1>4. errors \in Nat /\ status \in [Tasks -> {"absent", "pending", "running", "completed"}]
  BY DEF TypeOK, RedisOK, HistoryOK
<1>5. wpc[w] # "dequeue" => wjob[w] \in Tasks /\ status[wjob[w]] = StatusAt(wpc[w])
  BY <1>3, DemoAssumption DEF TypeOK, PoolOK, PlaceInv, WorkerInv
<1>6. \A t \in Tasks : status[t] # "absent" => status'[t] # "absent"
  BY <1>4, <1>5 DEF Step, Mishap, Dequeue, Fetch, Start, Run, Finish, Report, ReportRaises,
     WorkerFails, redis
<1>7. CASE Dequeue(w)
  <2>1. PICK e \in queue : queue' = queue \ {e} /\ Work(w, "fetch", e.tid, FALSE)
    BY <1>7 DEF Dequeue
  <2>2. wjob'[w] = e.tid /\ status' = status /\ errors' = errors
    BY <1>7, <2>1 DEF Dequeue, Work, TypeOK, PoolOK, history
  <2>3. wjob[w] = NoTask
    BY <1>7 DEF Dequeue, TypeOK, PoolOK
  <2>4. KnownIsKept => KnownIsKept'
    BY <1>2, <2>1, <2>2, <2>3, DemoAssumption DEF KnownIsKept
  <2> QED
    BY <1>2, <1>3, <1>6, <2>2, <2>4, WorkAckInv
<1>8. CASE Fetch(w) \/ Start(w) \/ Run(w) \/ Finish(w)
  <2>1. queue' = queue /\ errors' = errors /\ status'[wjob[w]] # "absent"
    BY <1>4, <1>5, <1>8 DEF Fetch, Start, Run, Finish, redis, history, StatusAt
  <2>2. wjob' = wjob
    <3>1. status[wjob[w]] # "absent"
      BY <1>5, <1>8 DEF Fetch, Start, Run, Finish, StatusAt
    <3> QED
      BY <1>8, <3>1 DEF Fetch, Start, Run, Finish, Work, TypeOK, PoolOK
  <2>3. \A t \in Tasks : t # wjob[w] => status'[t] = status[t]
    BY <1>4, <1>8 DEF Fetch, Start, Run, Finish, redis
  <2>4. KnownIsKept => KnownIsKept'
    BY <2>1, <2>2, <2>3 DEF KnownIsKept
  <2> QED
    BY <1>2, <1>3, <1>6, <2>1, <2>4, WorkAckInv
<1>9. CASE Report(w)
  <2>1. UNCHANGED <<queue, status, errors>> /\ status[wjob[w]] = "completed"
    BY <1>5, <1>9 DEF Report, redis, StatusAt
  <2>2. KnownIsKept => KnownIsKept'
    BY <1>2, <2>1 DEF KnownIsKept
  <2> QED
    BY <1>2, <1>3, <1>6, <2>1, <2>2, WorkAckInv
<1>10. CASE Mishap(w)
  <2>1. errors' # 0
    BY <1>4, <1>10 DEF Mishap, ReportRaises, WorkerFails
  <2> QED
    BY <1>2, <1>3, <1>6, <2>1, WorkAckInv
<1> QED
  BY <1>7, <1>8, <1>9, <1>10 DEF Step

LEMMA ProcessAckInv ==
    ASSUME TypeOK, AckInv, StartPool \/ StopPool \/ Crash
    PROVE  AckInv'
<1>1. UNCHANGED <<queue, status, acked, errors>>
  BY DEF StartPool, StopPool, Crash, redis, history
<1>2. \A c \in Clients : replies'[c] \subseteq replies[c]
  BY DEF StartPool, StopPool, Crash, requests
<1>3. CASE StartPool
  <2>1. \A w \in Workers : wjob[w] = NoTask
    BY <1>3 DEF StartPool, AckInv, TypeOK, PoolOK
  <2>2. \A w \in Workers : wjob'[w] = wjob[w]
    BY <1>3, <2>1 DEF StartPool
  <2> QED
    BY <1>1, <1>2, <1>3, <2>2 DEF AckInv, KnownIsKept, StartPool, history
<1>4. CASE StopPool \/ Crash
  <2>1. stops' # 0 /\ \A w \in Workers : wpc'[w] = "off"
    BY <1>4 DEF StopPool, Crash, WorkersGone, TypeOK, HistoryOK
  <2> QED
    BY <1>1, <1>2, <2>1 DEF AckInv
<1> QED
  BY <1>3, <1>4

LEMMA NextAckInv == TypeOK /\ PlaceInv /\ AckInv /\ [Next]_vars => AckInv'
<1> SUFFICES ASSUME TypeOK, PlaceInv, AckInv, [Next]_vars PROVE AckInv'
  OBVIOUS
<1>1. CASE UNCHANGED vars
  BY <1>1 DEF vars, redis, requests, pool, history, AckInv, KnownIsKept
<1> QED
  BY <1>1, RequestAckInv, StepAckInv, ProcessAckInv DEF Next

\* An id that a reply returned is known to Redis through every failure; until
\* the first exception, stop or crash it waits, is at work or is completed.
THEOREM AcknowledgedIsKept == Spec => []AckedIsKept
<1>1. TypeOK /\ AckInv => AckedIsKept
  <2> SUFFICES ASSUME TypeOK, AckInv, NEW t \in acked
               PROVE  /\ status[t] # "absent"
                      /\ errors + stops = 0 => \/ status[t] = "completed"
                                               \/ Waiting(t) # {}
                                               \/ Holders(t) # {}
    BY DEF AckedIsKept
  <2>1. t \in Tasks /\ status[t] # "absent"
    BY DEF AckInv, TypeOK, HistoryOK
  <2>2. errors + stops = 0 => errors = 0 /\ stops = 0
    BY DEF TypeOK, HistoryOK
  <2>3. KnownIsKept => status[t] = "completed" \/ Waiting(t) # {} \/ Holders(t) # {}
    BY <2>1 DEF KnownIsKept, Waiting, Holders
  <2> QED
    BY <2>1, <2>2, <2>3 DEF AckInv
<1> QED
  BY <1>1, InitAckInv, NextAckInv, Places, PTL DEF Spec

-----------------------------------------------------------------------------
(* The demo server implements the ledger *)

\* A step that leaves queue and status alone leaves every place alone.
LEMMA PlacesKept == UNCHANGED <<queue, status>> => PlaceOf' = PlaceOf
BY DEF PlaceOf, Place, Waiting

\* A step in which one task moves along and all others keep their queue
\* members and their status is a step of the ledger.
LEMMA OneMove ==
    ASSUME NEW t \in Tasks, NEW from, NEW to,
           Place(t) = from, Place(t)' = to,
           <<from, to>> \in {<<"absent", "waiting">>, <<"waiting", "taken">>, <<"taken", "done">>},
           \A u \in Tasks \ {t} : Waiting(u)' = Waiting(u) /\ status'[u] = status[u]
    PROVE  Ledger!LedgerNext
<1>1. \A u \in Tasks \ {t} : Place(u)' = Place(u)
  BY DEF Place
<1>2. PlaceOf[t] = from /\ PlaceOf' = [PlaceOf EXCEPT ![t] = to]
  BY <1>1 DEF PlaceOf
<1> QED
  BY <1>2 DEF Ledger!LedgerNext, Ledger!Move

\* A transaction brings its task from nowhere into the queue.
LEMMA TransactionMoves ==
    ASSUME TypeOK, PlaceInv, NEW c \in Clients, cjob[c] # NoTask, Transaction(c)
    PROVE  Ledger!LedgerNext
<1>1. PICK t \in Tasks : t = cjob[c] /\ status[t] = "absent"
  BY DEF TypeOK, RequestsOK, PlaceInv, RequestInv
<1> PICK e : e = [tid |-> t, score |-> cscore[c]]
  OBVIOUS
<1>2. \A f \in queue : f.tid # t
  BY <1>1 DEF PlaceInv, QueueInv
<1>3. queue' = queue \cup {e} /\ status' = [status EXCEPT ![t] = "pending"]
  BY <1>1 DEF Transaction
<1>4. Place(t) = "absent"
  BY <1>1, <1>2 DEF Place, Waiting
<1>5. Place(t)' = "waiting"
  <2>1. e \in Waiting(t)'
    BY <1>3 DEF Waiting
  <2> QED
    BY <2>1 DEF Place
<1>6. \A u \in Tasks \ {t} : Waiting(u)' = Waiting(u) /\ status'[u] = status[u]
  BY <1>3 DEF Waiting, TypeOK, RedisOK
<1> QED
  BY <1>1, <1>4, <1>5, <1>6, OneMove

\* A worker takes a task that waits, or finishes one that is taken.
LEMMA StepMoves ==
    ASSUME TypeOK, PlaceInv, NEW w \in Workers, Step(w)
    PROVE  Ledger!LedgerNext \/ PlaceOf' = PlaceOf
<1> PICK j : j = wjob[w]
  OBVIOUS
<1>0. wpc[w] \notin {"off", "dequeue"} =>
         /\ j \in Tasks /\ status[j] = StatusAt(wpc[w])
         /\ \A e \in queue : e.tid # j
  BY DemoAssumption DEF TypeOK, PoolOK, PlaceInv, QueueInv, WorkerInv
<1>1. CASE Dequeue(w)
  <2>1. PICK e \in queue : queue' = queue \ {e}
    BY <1>1 DEF Dequeue
  <2> DEFINE t == e.tid
  <2>2. t \in Tasks /\ status[t] = "pending" /\ \A f \in queue : f.tid = t => f = e
    BY DEF TypeOK, RedisOK, PlaceInv, QueueInv
  <2>3. Place(t) = "waiting"
    BY DEF Place, Waiting
  <2>4. Waiting(t)' = {} /\ status' = status
    BY <1>1, <2>1, <2>2 DEF Dequeue, Waiting
  <2>5. Place(t)' = "taken"
    BY <2>2, <2>4 DEF Place
  <2>6. \A u \in Tasks \ {t} : Waiting(u)' = Waiting(u) /\ status'[u] = status[u]
    BY <2>1, <2>4 DEF Waiting
  <2> QED
    BY <2>2, <2>3, <2>5, <2>6, OneMove
<1>2. CASE Start(w)
  <2>1. j \in Tasks /\ status[j] = "pending" /\ \A e \in queue : e.tid # j
    BY <1>0, <1>2 DEF Start, StatusAt
  <2>2. queue' = queue /\ status' = [status EXCEPT ![j] = "running"]
    BY <1>2 DEF Start
  <2>3. Waiting(j) = {} /\ \A u \in Tasks : Waiting(u)' = Waiting(u)
    BY <2>1, <2>2 DEF Waiting
  <2>4. \A u \in Tasks : status'[u] = IF u = j THEN "running" ELSE status[u]
    BY <2>2 DEF TypeOK, RedisOK
  <2>5. \A u \in Tasks : Place(u)' = Place(u)
    BY <2>1, <2>3, <2>4 DEF Place
  <2> QED
    BY <2>5 DEF PlaceOf
<1>3. CASE Finish(w)
  <2>1. j \in Tasks /\ status[j] = "running" /\ \A e \in queue : e.tid # j
    BY <1>0, <1>3 DEF Finish, StatusAt
  <2>2. queue' = queue /\ status' = [status EXCEPT ![j] = "completed"]
    BY <1>3 DEF Finish
  <2>3. Waiting(j) = {} /\ \A u \in Tasks : Waiting(u)' = Waiting(u)
    BY <2>1, <2>2 DEF Waiting
  <2>4. \A u \in Tasks : status'[u] = IF u = j THEN "completed" ELSE status[u]
    BY <2>2 DEF TypeOK, RedisOK
  <2>5. Place(j) = "taken" /\ Place(j)' = "done"
    BY <2>1, <2>3, <2>4 DEF Place
  <2> QED
    BY <2>1, <2>3, <2>4, <2>5, OneMove
<1>4. CASE Fetch(w) \/ Run(w) \/ Report(w)
  BY <1>4, PlacesKept DEF Fetch, Run, Report, redis
<1> QED
  BY <1>1, <1>2, <1>3, <1>4 DEF Step

\* Redis, the requests and the workers together implement the ledger: a task
\* that was accepted is taken off the queue once and never comes back,
\* whatever fails on the way.
THEOREM ServerKeepsLedger == Spec => KeepsLedger
<1>1. Init => Ledger!LedgerInit
  BY DEF Init, Ledger!LedgerInit, PlaceOf, Place, Waiting
<1>2. TypeOK /\ PlaceInv /\ [Next]_vars => [Ledger!LedgerNext]_PlaceOf
  <2> SUFFICES ASSUME TypeOK, PlaceInv, [Next]_vars
               PROVE  Ledger!LedgerNext \/ PlaceOf' = PlaceOf
    OBVIOUS
  <2>1. ASSUME NEW c \in Clients, Request(c)
        PROVE  Ledger!LedgerNext \/ PlaceOf' = PlaceOf
    BY <2>1, TransactionMoves, PlacesKept DEF Request, Submit, Enqueue, RequestFails, redis
  <2>2. ASSUME NEW w \in Workers, Mishap(w) PROVE PlaceOf' = PlaceOf
    BY <2>2, PlacesKept DEF Mishap, ReportRaises, WorkerFails, redis
  <2>3. CASE StartPool \/ StopPool \/ Crash
    BY <2>3, PlacesKept DEF StartPool, StopPool, Crash, redis
  <2>4. CASE UNCHANGED vars
    BY <2>4, PlacesKept DEF vars, redis
  <2> QED
    BY <2>1, <2>2, <2>3, <2>4, StepMoves DEF Next
<1> QED
  BY <1>1, <1>2, Places, PTL DEF Spec, KeepsLedger, Ledger!LedgerSpec
=============================================================================
