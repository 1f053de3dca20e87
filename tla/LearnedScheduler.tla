-------------------------- MODULE LearnedScheduler --------------------------
(***************************************************************************)
(* The pre-broker gate of the Celery integration: LearnedScheduler         *)
(* (scheduler.py), the Celery signal handlers that drive it (signals.py)   *)
(* and the per-type statistics they feed (rolling.py).                     *)
(*                                                                         *)
(* Client threads call submit() and, from outside the signal chain,        *)
(* dispatch_next().  Worker threads execute the messages of the broker and *)
(* run the signal handlers.  Both run inside one process and share the     *)
(* heap and the registry, each access to which is one critical section of  *)
(* self._lock, hence one action.  What happens between two critical        *)
(* sections (scoring, apply_fn, the ranker) is interleaved freely.         *)
(*                                                                         *)
(* Durations and features are abstracted: the score of a task is any       *)
(* element of Scores, so every choice an estimator can make is explored.   *)
(***************************************************************************)
EXTENDS Integers, FiniteSets

CONSTANTS
    Clients,      \* threads that call submit() and dispatch_next()
    Workers,      \* Celery worker threads
    Tasks,        \* the task_ids callers pass to submit()
    Ids,          \* every id Celery may report to a signal handler
    CeleryId,     \* the id the message of a task carries (apply_fn's choice)
    Types,        \* task types and Celery task names
    SubmitType,   \* the task_type a task is submitted with
    SenderName,   \* the name of the Celery task that executes it
    Scores,       \* what predict_batch may return
    Deployed,     \* the modes a gate may be constructed with
    Window,       \* ring-buffer size of TypeStatsTracker
    Events,       \* which abnormal events the environment produces
    MaxAccepts,   \* bound: accepted submissions per task id
    MaxKicks,     \* bound: successful dispatch_next() calls made by clients
    MaxEvents,    \* bound: abnormal events in one behaviour
    NoTask, NoScore

Modes == {"fifo", "shadow", "active"}

EventKinds == {"fail", "revoke", "retry", "redeliver", "trainingError", "sendError"}

ASSUME GateAssumption ==
    /\ Tasks \subseteq Ids
    /\ CeleryId \in [Tasks -> Ids]
    /\ SubmitType \in [Tasks -> Types]
    /\ SenderName \in [Tasks -> Types]
    /\ Scores \subseteq Int
    /\ Deployed \subseteq Modes
    /\ Window \in Nat \ {0}
    /\ Events \subseteq EventKinds
    /\ MaxAccepts \in Nat /\ MaxKicks \in Nat /\ MaxEvents \in Nat
    /\ Clients \cap Workers = {}
    /\ NoTask \notin Tasks
    /\ NoScore \notin Scores

Agents == Clients \cup Workers

VARIABLES
    mode,       \* self._mode: "fifo", "shadow" or "active"
    heap,       \* self._heap: entries [score, seq, tid]
    arrivals,   \* self._arrival_counter
    registry,   \* self._registry: status of every id
    stats,      \* TypeStatsTracker: observations kept per type
    broker,     \* messages sent and not yet received, per task
    pc,         \* where each thread is
    job,        \* the task a thread is working on
    prio,       \* the score a thread holds for its task
    \* history
    accepted,   \* submissions that returned, per task
    finished,   \* executions that ended, per task
    succeeded,  \* ... of which with task_success
    dropped,    \* popped or sent tasks whose apply_fn raised
    telemetry,  \* records saved by ranker.record, per task
    kicks,      \* tasks dispatched by client calls of dispatch_next()
    events      \* abnormal events so far

gate    == <<mode, heap, arrivals, registry, stats>>
threads == <<pc, job, prio>>
history == <<accepted, finished, succeeded, dropped, telemetry, kicks, events>>
vars    == <<gate, broker, threads, history>>

-----------------------------------------------------------------------------

Entries == [score : Scores, seq : Nat, tid : Tasks]

ClientPCs == {"idle", "push", "direct", "apply"}
WorkerPCs == {"idle", "received", "running", "stats", "record", "next", "apply"}

TypeOK ==
    /\ mode \in Deployed
    /\ heap \subseteq Entries
    /\ arrivals \in Nat
    /\ registry \in [Ids -> {"absent", "registered", "started"}]
    /\ stats \in [Types -> 0..Window]
    /\ broker \in [Tasks -> Nat]
    /\ pc \in [Agents -> ClientPCs \cup WorkerPCs]
    /\ \A c \in Clients : pc[c] \in ClientPCs
    /\ \A w \in Workers : pc[w] \in WorkerPCs
    /\ job \in [Agents -> Tasks \cup {NoTask}]
    /\ \A a \in Agents : pc[a] \notin {"idle", "next"} => job[a] \in Tasks
    /\ prio \in [Agents -> Scores \cup {NoScore}]
    /\ \A a \in Agents : pc[a] \in {"push", "apply"} => prio[a] \in Scores
    /\ accepted \in [Tasks -> Nat]
    /\ finished \in [Tasks -> Nat]
    /\ succeeded \in [Tasks -> Nat]
    /\ dropped \in [Tasks -> Nat]
    /\ telemetry \in [Tasks -> Nat]
    /\ kicks \in Nat
    /\ events \in Nat

Init ==
    /\ mode \in Deployed
    /\ heap = {}
    /\ arrivals = 0
    /\ registry = [i \in Ids |-> "absent"]
    /\ stats = [y \in Types |-> 0]
    /\ broker = [t \in Tasks |-> 0]
    /\ pc = [a \in Agents |-> "idle"]
    /\ job = [a \in Agents |-> NoTask]
    /\ prio = [a \in Agents |-> NoScore]
    /\ accepted = [t \in Tasks |-> 0]
    /\ finished = [t \in Tasks |-> 0]
    /\ succeeded = [t \in Tasks |-> 0]
    /\ dropped = [t \in Tasks |-> 0]
    /\ telemetry = [t \in Tasks |-> 0]
    /\ kicks = 0
    /\ events = 0

-----------------------------------------------------------------------------
(* The environment may produce an abnormal event of kind k. *)
Abnormal(k) ==
    /\ k \in Events
    /\ events < MaxEvents
    /\ events' = events + 1

Goto(a, label, t, s) ==
    /\ pc' = [pc EXCEPT ![a] = label]
    /\ job' = [job EXCEPT ![a] = t]
    /\ prio' = [prio EXCEPT ![a] = s]

Rest(a) == Goto(a, "idle", NoTask, NoScore)

-----------------------------------------------------------------------------
(* submit() *)

\* Bound on the submissions of one id, those in progress included.
MaySubmit(t) ==
    accepted[t] + Cardinality({c \in Clients : pc[c] \in {"push", "direct"} /\ job[c] = t})
        < MaxAccepts

\* fifo: no scoring, apply_fn is called next.
SubmitFifo(c, t) ==
    /\ mode = "fifo"
    /\ pc[c] = "idle"
    /\ MaySubmit(t)
    /\ Goto(c, "direct", t, NoScore)
    /\ UNCHANGED <<gate, broker, history>>

\* shadow and active: _score() reads the statistics, the estimator pointer and
\* the heap depth, each under its own lock; nothing is reserved by doing so.
ScoreTask(c, t) ==
    /\ mode # "fifo"
    /\ pc[c] = "idle"
    /\ MaySubmit(t)
    /\ \E s \in Scores :
          Goto(c, IF mode = "shadow" THEN "direct" ELSE "push", t, s)
    /\ UNCHANGED <<gate, broker, history>>

\* active: the critical section of submit() finds the id registered and raises.
Reject(c) ==
    /\ pc[c] = "push"
    /\ registry[job[c]] # "absent"
    /\ Rest(c)
    /\ UNCHANGED <<gate, broker, history>>

\* Mutant: the id is never looked up before it is registered.
PushUnchecked(c) ==
    /\ pc[c] = "push"
    /\ heap' = heap \cup {[score |-> prio[c], seq |-> arrivals, tid |-> job[c]]}
    /\ arrivals' = arrivals + 1
    /\ registry' = [registry EXCEPT ![job[c]] = "registered"]
    /\ accepted' = [accepted EXCEPT ![job[c]] = @ + 1]
    /\ Rest(c)
    /\ UNCHANGED <<mode, stats, broker, finished, succeeded, dropped, telemetry, kicks, events>>

\* Mutant: an id is refused while it waits, not while it runs.
PushChecksHeapOnly(c) ==
    (\A e \in heap : e.tid # job[c]) /\ PushUnchecked(c)

\* active: the critical section of submit() takes a sequence number, pushes
\* the entry and registers the id.
Push(c) ==
    /\ pc[c] = "push"
    /\ registry[job[c]] = "absent"
    /\ heap' = heap \cup {[score |-> prio[c], seq |-> arrivals, tid |-> job[c]]}
    /\ arrivals' = arrivals + 1
    /\ registry' = [registry EXCEPT ![job[c]] = "registered"]
    /\ accepted' = [accepted EXCEPT ![job[c]] = @ + 1]
    /\ Rest(c)
    /\ UNCHANGED <<mode, stats, broker, finished, succeeded, dropped, telemetry, kicks, events>>

\* fifo and shadow: submit() calls apply_fn itself and returns.
SendDirect(c) ==
    /\ pc[c] = "direct"
    /\ broker' = [broker EXCEPT ![job[c]] = @ + 1]
    /\ accepted' = [accepted EXCEPT ![job[c]] = @ + 1]
    /\ Rest(c)
    /\ UNCHANGED <<gate, finished, succeeded, dropped, telemetry, kicks, events>>

\* ... or apply_fn raises (the broker is unreachable) and so does submit().
SendDirectRaises(c) ==
    /\ pc[c] = "direct"
    /\ Abnormal("sendError")
    /\ Rest(c)
    /\ UNCHANGED <<gate, broker, accepted, finished, succeeded, dropped, telemetry, kicks>>

-----------------------------------------------------------------------------
(* dispatch_next() *)

\* Mutant: of two equal scores the one submitted last goes first.
BeforeLifo(e, f) == e.score < f.score \/ (e.score = f.score /\ e.seq > f.seq)

Before(e, f) == e.score < f.score \/ (e.score = f.score /\ e.seq < f.seq)

\* Mutant: the entry is read and left in the heap.
PopPeeks(a) ==
    \E e \in heap :
        /\ \A f \in heap \ {e} : Before(e, f)
        /\ Goto(a, "apply", e.tid, e.score)
        /\ UNCHANGED gate

\* The critical section: the least entry by (score, seq) leaves the heap and
\* its apply_fn is in the hands of thread a.
Pop(a) ==
    \E e \in heap :
        /\ \A f \in heap \ {e} : Before(e, f)
        /\ heap' = heap \ {e}
        /\ Goto(a, "apply", e.tid, e.score)
        /\ UNCHANGED <<mode, arrivals, registry, stats>>

\* A client starts a dispatch: toggle_demo's kick, the producer's flush loop.
Kick(c) ==
    /\ pc[c] = "idle"
    /\ kicks < MaxKicks
    /\ kicks' = kicks + 1
    /\ Pop(c)
    /\ UNCHANGED <<broker, accepted, finished, succeeded, dropped, telemetry, events>>

\* task_success handler, last statement: dispatch_next() from a worker.
DispatchNext(w) ==
    /\ pc[w] = "next"
    /\ Pop(w)
    /\ UNCHANGED <<broker, history>>

\* ... which returns False on an empty heap.
DispatchNothing(w) ==
    /\ pc[w] = "next"
    /\ heap = {}
    /\ Rest(w)
    /\ UNCHANGED <<gate, broker, history>>

\* apply_fn(), outside the lock: the message reaches the broker.
Apply(a) ==
    /\ pc[a] = "apply"
    /\ broker' = [broker EXCEPT ![job[a]] = @ + 1]
    /\ Rest(a)
    /\ UNCHANGED <<gate, history>>

\* ... or apply_fn raises: the entry was already popped.
ApplyRaises(a) ==
    /\ pc[a] = "apply"
    /\ Abnormal("sendError")
    /\ dropped' = [dropped EXCEPT ![job[a]] = @ + 1]
    /\ Rest(a)
    /\ UNCHANGED <<gate, broker, accepted, finished, succeeded, telemetry, kicks>>

-----------------------------------------------------------------------------
(* Celery workers and the signal handlers *)

Executing(w) == pc[w] \in {"received", "running"}

\* A free worker receives a message.
Receive(w, t) ==
    /\ pc[w] = "idle"
    /\ broker[t] > 0
    /\ broker' = [broker EXCEPT ![t] = @ - 1]
    /\ Goto(w, "received", t, NoScore)
    /\ UNCHANGED <<gate, history>>

\* Mutant: record_start() leaves an existing entry as it is.
PrerunOnlyCreates(w) ==
    LET id == CeleryId[job[w]]
    IN  /\ pc[w] = "received"
        /\ registry' = [registry EXCEPT ![id] = IF @ = "absent" THEN "started" ELSE @]
        /\ Goto(w, "running", job[w], NoScore)
        /\ UNCHANGED <<mode, heap, arrivals, stats, broker, history>>

\* task_prerun -> record_start(): creates the entry or overwrites start_ms.
Prerun(w) ==
    /\ pc[w] = "received"
    /\ registry' = [registry EXCEPT ![CeleryId[job[w]]] = "started"]
    /\ Goto(w, "running", job[w], NoScore)
    /\ UNCHANGED <<mode, heap, arrivals, stats, broker, history>>

\* What follows record_completion() in the success handler: dispatch_next(),
\* in active mode only.
AfterRecord(w) == Goto(w, IF mode = "active" THEN "next" ELSE "idle", NoTask, NoScore)

\* task_success -> record_completion(), first critical section: the entry is
\* popped.  On a miss (no entry, or one never started) nothing is recorded.
CompletePop(w) ==
    LET id  == CeleryId[job[w]]
        hit == registry[id] = "started"
    IN  /\ pc[w] = "running"
        /\ registry' = [registry EXCEPT ![id] = "absent"]
        /\ succeeded' = [succeeded EXCEPT ![job[w]] = @ + 1]
        /\ finished' = [finished EXCEPT ![job[w]] = @ + 1]
        /\ IF hit THEN Goto(w, "stats", job[w], NoScore) ELSE AfterRecord(w)
        /\ UNCHANGED <<mode, heap, arrivals, stats, broker, accepted, dropped, telemetry,
                       kicks, events>>

\* Mutant: the ring buffer has no maximal length.
RecordStatsUnbounded(w) ==
    /\ pc[w] = "stats"
    /\ stats' = [stats EXCEPT ![SenderName[job[w]]] = @ + 1]
    /\ IF mode = "fifo" THEN AfterRecord(w)
                        ELSE Goto(w, "record", job[w], NoScore)
    /\ UNCHANGED <<mode, heap, arrivals, registry, broker, history>>

\* TypeStatsTracker.record under the name of the Celery task; the ring buffer
\* forgets its oldest observation when full.  In fifo mode there is no ranker.
RecordStats(w) ==
    LET name == SenderName[job[w]]
    IN  /\ pc[w] = "stats"
        /\ stats' = [stats EXCEPT ![name] = IF @ < Window THEN @ + 1 ELSE Window]
        /\ IF mode = "fifo" THEN AfterRecord(w)
                            ELSE Goto(w, "record", job[w], NoScore)
        /\ UNCHANGED <<mode, heap, arrivals, registry, broker, history>>

\* Mutant: the handler ends with the record.
RankerRecordEnds(w) ==
    /\ pc[w] = "record"
    /\ telemetry' = [telemetry EXCEPT ![job[w]] = @ + 1]
    /\ Rest(w)
    /\ UNCHANGED <<gate, broker, accepted, finished, succeeded, dropped, kicks, events>>

\* ranker.record() saves the record ...
RankerRecord(w) ==
    /\ pc[w] = "record"
    /\ telemetry' = [telemetry EXCEPT ![job[w]] = @ + 1]
    /\ AfterRecord(w)
    /\ UNCHANGED <<gate, broker, accepted, finished, succeeded, dropped, kicks, events>>

\* ... and may then raise out of an automatic retrain; the exception leaves
\* the success handler before dispatch_next() is reached.
RankerRecordRaises(w) ==
    /\ pc[w] = "record"
    /\ Abnormal("trainingError")
    /\ telemetry' = [telemetry EXCEPT ![job[w]] = @ + 1]
    /\ Rest(w)
    /\ UNCHANGED <<gate, broker, accepted, finished, succeeded, dropped, kicks>>

\* Mutant: a failed task keeps its entry.
CleanupKeepsEntry(w) ==
    /\ finished' = [finished EXCEPT ![job[w]] = @ + 1]
    /\ Rest(w)
    /\ UNCHANGED <<gate, broker, accepted, succeeded, dropped, telemetry, kicks>>

\* cleanup_registry(): the whole of the failure and the revoked handlers.
Cleanup(w) ==
    /\ registry' = [registry EXCEPT ![CeleryId[job[w]]] = "absent"]
    /\ finished' = [finished EXCEPT ![job[w]] = @ + 1]
    /\ Rest(w)
    /\ UNCHANGED <<mode, heap, arrivals, stats, broker, accepted, succeeded, dropped, telemetry,
                   kicks>>

\* task_failure
Fail(w) == pc[w] = "running" /\ Abnormal("fail") /\ Cleanup(w)

\* task_revoked: discarded on receipt, or terminated while it runs.
Revoke(w) == Executing(w) /\ Abnormal("revoke") /\ Cleanup(w)

\* Mutant: a retry counts as a completion and dispatches.
RetryDispatches(w) ==
    /\ pc[w] = "running"
    /\ Abnormal("retry")
    /\ broker' = [broker EXCEPT ![job[w]] = @ + 1]
    /\ Goto(w, "next", NoTask, NoScore)
    /\ UNCHANGED <<gate, accepted, finished, succeeded, dropped, telemetry, kicks>>

\* Retry: no handler is connected to task_retry; the message is sent again.
Retry(w) ==
    /\ pc[w] = "running"
    /\ Abnormal("retry")
    /\ broker' = [broker EXCEPT ![job[w]] = @ + 1]
    /\ Rest(w)
    /\ UNCHANGED <<gate, accepted, finished, succeeded, dropped, telemetry, kicks>>

\* The broker delivers a message again although its worker is alive
\* (visibility timeout with late acknowledgement).
Redeliver(w) ==
    /\ Executing(w)
    /\ Abnormal("redeliver")
    /\ broker' = [broker EXCEPT ![job[w]] = @ + 1]
    /\ UNCHANGED <<gate, threads, accepted, finished, succeeded, dropped, telemetry, kicks>>

-----------------------------------------------------------------------------

ClientStep(c) ==
    \/ \E t \in Tasks : SubmitFifo(c, t)
    \/ \E t \in Tasks : ScoreTask(c, t)
    \/ Reject(c)
    \/ Push(c)
    \/ SendDirect(c)
    \/ SendDirectRaises(c)
    \/ Kick(c)
    \/ Apply(c)
    \/ ApplyRaises(c)

WorkerStep(w) ==
    \/ \E t \in Tasks : Receive(w, t)
    \/ Prerun(w)
    \/ CompletePop(w)
    \/ RecordStats(w)
    \/ RankerRecord(w)
    \/ RankerRecordRaises(w)
    \/ DispatchNext(w)
    \/ DispatchNothing(w)
    \/ Apply(w)
    \/ ApplyRaises(w)
    \/ Fail(w)
    \/ Revoke(w)
    \/ Retry(w)
    \/ Redeliver(w)

Next == (\E c \in Clients : ClientStep(c)) \/ (\E w \in Workers : WorkerStep(w))

Spec == Init /\ [][Next]_vars

\* Threads are scheduled, started calls return, workers poll the broker and
\* task bodies end.  Nothing obliges a client to submit or to kick.
Fairness ==
    /\ \A c \in Clients : WF_vars(Reject(c) \/ Push(c) \/ SendDirect(c) \/ Apply(c))
    /\ \A w \in Workers : WF_vars(WorkerStep(w))

FairSpec == Spec /\ Fairness

-----------------------------------------------------------------------------
(* Where a task can be, and the properties of the gate *)

Waiting(t) == {e \in heap : e.tid = t}

InHand(t) == {a \in Agents : pc[a] = "apply" /\ job[a] = t}

Running(t) == {w \in Workers : Executing(w) /\ job[w] = t}

\* A task the gate or the broker still owes an execution or an outcome.
Live(t) == Waiting(t) # {} \/ InHand(t) # {} \/ broker[t] > 0 \/ Running(t) # {}

\* No accepted submission is lost or doubled: each is waiting, in the hands of
\* a thread, at the broker, in a worker, over, or dropped by an apply_fn that
\* raised, whatever the interleaving of submit(), dispatch_next() and signals.
NothingLost ==
    \A t \in Tasks :
        accepted[t] = Cardinality(Waiting(t)) + Cardinality(InHand(t)) + broker[t]
                        + Cardinality(Running(t)) + finished[t] + dropped[t]

\* Each id is in one place at most: waiting, in a thread's hands, at the broker
\* or in a worker.
OncePerId ==
    \A t \in Tasks :
        /\ \A e, f \in Waiting(t) : e = f
        /\ \A a, b \in InHand(t) : a = b
        /\ \A v, w \in Running(t) : v = w
        /\ broker[t] <= 1
        /\ Waiting(t) # {} => InHand(t) = {} /\ broker[t] = 0 /\ Running(t) = {}
        /\ InHand(t) # {} => broker[t] = 0 /\ Running(t) = {}
        /\ broker[t] > 0 => Running(t) = {}

\* In active mode a task id is at most once between submit() and its outcome:
\* the duplicate check of submit() covers the whole life of a task, not only
\* its wait.
NeverTwice == mode = "active" => OncePerId

\* Heap and registry agree: whatever waits is registered and not yet started,
\* so the same-type depth counted over the heap is never short.
WaitingIsRegistered ==
    \A e \in heap : registry[e.tid] = "registered"

\* The registry holds no entry for a task that is over, so it does not grow
\* and a finished id can be submitted again; the one entry never removed is
\* that of a popped task whose apply_fn raised.
RegistryIsLive ==
    \A i \in Ids :
        registry[i] # "absent" =>
            \E t \in Tasks : i \in {t, CeleryId[t]} /\ (Live(t) \/ dropped[t] > 0)

\* Every execution that succeeded is measured, unless there is no ranker: its
\* entry is there when the success handler looks for it, and is recorded once.
\* Outside the active mode an id submitted again may take the entry of the first.
SuccessIsMeasured ==
    \A t \in Tasks :
        mode = "active" \/ (mode = "shadow" /\ accepted[t] <= 1) =>
            succeeded[t] = telemetry[t]
                + Cardinality({w \in Workers : pc[w] \in {"stats", "record"} /\ job[w] = t})

\* The dispatch rights alive: a thread about to send, a message at the broker,
\* a worker whose handler may still reach dispatch_next().
Rights ==
    {<<a, 0>> : a \in {c \in Clients : pc[c] = "apply"} \cup {w \in Workers : pc[w] # "idle"}}
        \cup UNION {{t} \X (1..broker[t]) : t \in Tasks}

\* In active mode the gate never lets more tasks out than dispatches were
\* started from outside: a completion is exchanged for at most one dispatch.
WindowIsKept == mode = "active" => Cardinality(Rights) <= kicks

\* A dispatch right dies only at an empty heap or by an abnormal event.
RightsDieIdle ==
    [][Cardinality(Rights') < Cardinality(Rights) => heap = {} \/ events' > events]_vars

\* As long as one right is alive the heap empties: each success hands its
\* right on until nothing waits.
RightsDrainTheHeap == Rights # {} ~> heap = {}

=============================================================================
