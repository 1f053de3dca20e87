------------------------ MODULE LearnedSchedulerProofs ------------------------
(***************************************************************************)
(* Proofs about LearnedScheduler, for any threads, tasks, types and scores.*)
(* First what heap, registry and broker hold, then what has to be counted: *)
(* no submission is lost, every success is measured, and the dispatch      *)
(* rights are kept within the window.                                      *)
(***************************************************************************)
EXTENDS LearnedScheduler, FiniteSetTheorems, TLAPS

-----------------------------------------------------------------------------
(* Type correctness, in every mode and with every abnormal event. *)

LEMMA InitTypeOK == Init => TypeOK
BY GateAssumption DEF Init, TypeOK, Agents, ClientPCs, WorkerPCs

\* A step of a client preserves the types.
LEMMA ClientTypeOK ==
    ASSUME TypeOK, NEW c \in Clients, ClientStep(c)
    PROVE  TypeOK'
<1> USE GateAssumption DEF TypeOK, Agents, ClientPCs, WorkerPCs, Entries, Goto, Rest,
                           gate, history, threads
<1>1. CASE \E t \in Tasks : SubmitFifo(c, t)
  BY <1>1 DEF SubmitFifo
<1>2. CASE \E t \in Tasks : ScoreTask(c, t)
  BY <1>2 DEF ScoreTask
<1>3. CASE Reject(c)
  BY <1>3 DEF Reject
<1>4. CASE Push(c)
  BY <1>4 DEF Push
<1>5. CASE SendDirect(c)
  BY <1>5 DEF SendDirect
<1>6. CASE SendDirectRaises(c)
  BY <1>6 DEF SendDirectRaises, Abnormal
<1>7. CASE Kick(c)
  BY <1>7 DEF Kick, Pop
<1>8. CASE Apply(c)
  BY <1>8 DEF Apply
<1>9. CASE ApplyRaises(c)
  BY <1>9 DEF ApplyRaises, Abnormal
<1> QED
  BY <1>1, <1>2, <1>3, <1>4, <1>5, <1>6, <1>7, <1>8, <1>9 DEF ClientStep

\* So does a step of a worker.
LEMMA WorkerTypeOK ==
    ASSUME TypeOK, NEW w \in Workers, WorkerStep(w)
    PROVE  TypeOK'
<1> USE GateAssumption DEF TypeOK, Agents, ClientPCs, WorkerPCs, Entries, Goto, Rest,
                           gate, history, threads
<1>1. CASE \E t \in Tasks : Receive(w, t)
  BY <1>1 DEF Receive
<1>2. CASE Prerun(w)
  BY <1>2 DEF Prerun
<1>3. CASE CompletePop(w)
  BY <1>3 DEF CompletePop, AfterRecord
<1>4. CASE RecordStats(w)
  BY <1>4 DEF RecordStats, AfterRecord
<1>5. CASE RankerRecord(w)
  BY <1>5 DEF RankerRecord, AfterRecord
<1>6. CASE RankerRecordRaises(w)
  BY <1>6 DEF RankerRecordRaises, Abnormal
<1>7. CASE DispatchNext(w)
  BY <1>7 DEF DispatchNext, Pop
<1>8. CASE DispatchNothing(w)
  BY <1>8 DEF DispatchNothing
<1>9. CASE Apply(w)
  BY <1>9 DEF Apply
<1>10. CASE ApplyRaises(w)
  BY <1>10 DEF ApplyRaises, Abnormal
<1>11. CASE Fail(w)
  BY <1>11 DEF Fail, Cleanup, Abnormal
<1>12. CASE Revoke(w)
  BY <1>12 DEF Revoke, Cleanup, Abnormal, Executing
<1>13. CASE Retry(w)
  BY <1>13 DEF Retry, Abnormal
<1>14. CASE Redeliver(w)
  BY <1>14 DEF Redeliver, Abnormal, Executing
<1> QED
  BY <1>1, <1>2, <1>3, <1>4, <1>5, <1>6, <1>7, <1>8, <1>9, <1>10, <1>11, <1>12, <1>13,
     <1>14 DEF WorkerStep

LEMMA StutterTypeOK == TypeOK /\ UNCHANGED vars => TypeOK'
BY DEF TypeOK, vars, gate, threads, history

\* The state of the gate, of its threads and of the history is well typed in
\* every mode, whatever the environment does.
THEOREM TypeCorrect == Spec => []TypeOK
<1>1. TypeOK /\ [Next]_vars => TypeOK'
  BY ClientTypeOK, WorkerTypeOK, StutterTypeOK DEF Next
<1> QED
  BY <1>1, InitTypeOK, PTL DEF Spec

-----------------------------------------------------------------------------
(* The registry, in every mode and with every abnormal event, if apply_fn    *)
(* passes the id of a task on to Celery.                                     *)

PassesIds == \A t \in Tasks : CeleryId[t] = t

Owed(t) == Live(t) \/ dropped[t] > 0

\* RegistryIsLive when ids are task ids.
EntryIsLive == \A i \in Ids : registry[i] # "absent" => i \in Tasks /\ Owed(i)

LEMMA InitEntryIsLive == Init => EntryIsLive
BY GateAssumption DEF Init, EntryIsLive

\* A step that creates no entry and forgets no task.
LEMMA QuietEntryIsLive ==
    ASSUME EntryIsLive,
           \A i \in Ids : registry'[i] # "absent" => registry[i] # "absent",
           \A t \in Tasks : Owed(t) => Owed(t)'
    PROVE  EntryIsLive'
BY DEF EntryIsLive

\* A step of one thread moves at most the task of that thread.
LEMMA OthersOwed ==
    ASSUME TypeOK, TypeOK', NEW a \in Agents,
           \A b \in Agents \ {a} : pc'[b] = pc[b] /\ job'[b] = job[b],
           NEW t \in Tasks, job[a] # t, heap \subseteq heap', broker[t] <= broker'[t],
           dropped[t] <= dropped'[t], Owed(t)
    PROVE  Owed(t)'
<1>1. CASE dropped[t] > 0
  BY <1>1 DEF Owed, TypeOK
<1>2. CASE Waiting(t) # {}
  BY <1>2 DEF Owed, Live, Waiting
<1>3. CASE InHand(t) # {}
  BY <1>3 DEF Owed, Live, InHand
<1>4. CASE broker[t] > 0
  BY <1>4 DEF Owed, Live, TypeOK
<1>5. CASE Running(t) # {}
  BY <1>5 DEF Owed, Live, Running, Executing, Agents
<1> QED
  BY <1>1, <1>2, <1>3, <1>4, <1>5 DEF Owed, Live

\* submit() in active mode registers the id it pushes.
LEMMA PushEntryIsLive ==
    ASSUME TypeOK, TypeOK', EntryIsLive, NEW c \in Clients, Push(c)
    PROVE  EntryIsLive'
<1> USE GateAssumption DEF Push, Rest, Goto
<1> PICK p \in Tasks : p = job[c]
  BY DEF TypeOK, Agents
<1>1. Owed(p)'
  <2> DEFINE e == [score |-> prio[c], seq |-> arrivals, tid |-> p]
  <2>1. e \in heap' /\ e.tid = p
    OBVIOUS
  <2> HIDE DEF e
  <2> QED
    BY <2>1 DEF Owed, Live, Waiting
<1>2. \A t \in Tasks \ {p} : Owed(t) => Owed(t)'
  BY OthersOwed DEF TypeOK, Agents
<1>3. \A i \in Ids \ {p} : registry'[i] = registry[i]
  BY DEF TypeOK
<1> QED
  BY <1>1, <1>2, <1>3 DEF EntryIsLive

\* task_prerun creates an entry for the task that runs.
LEMMA PrerunEntryIsLive ==
    ASSUME PassesIds, TypeOK, TypeOK', EntryIsLive, NEW w \in Workers, Prerun(w)
    PROVE  EntryIsLive'
<1> USE GateAssumption DEF Prerun, Goto, history
<1> PICK p \in Tasks : p = job[w]
  BY DEF TypeOK, Agents
<1>1. w \in Running(p)'
  BY DEF Running, Executing, TypeOK, Agents
<1>2. Owed(p)'
  BY <1>1 DEF Owed, Live
<1>3. \A t \in Tasks \ {p} : Owed(t) => Owed(t)'
  BY OthersOwed DEF TypeOK, Agents
<1>4. \A i \in Ids \ {p} : registry'[i] = registry[i]
  BY DEF TypeOK, PassesIds
<1> QED
  BY <1>2, <1>3, <1>4 DEF EntryIsLive

\* An outcome: the task leaves its worker and its entry leaves the registry.
\* The success, failure and revoked handlers each end an execution so.
OutcomeOf(w) ==
    /\ Executing(w) /\ ~Executing(w)'
    /\ registry' = [registry EXCEPT ![job[w]] = "absent"]
    /\ pc'[w] \notin {"direct", "apply"}
    /\ \A a \in Agents \ {w} : pc'[a] = pc[a] /\ job'[a] = job[a]
    /\ UNCHANGED <<mode, heap, broker, dropped>>

LEMMA OutcomeSteps ==
    ASSUME PassesIds, TypeOK, NEW w \in Workers, CompletePop(w) \/ Fail(w) \/ Revoke(w)
    PROVE  OutcomeOf(w)
<1> USE GateAssumption DEF PassesIds, TypeOK, Agents, Goto, Rest, Executing, OutcomeOf
<1>1. CASE CompletePop(w)
  <2>1. /\ pc[w] = "running" /\ job[w] \in Tasks
        /\ registry' = [registry EXCEPT ![CeleryId[job[w]]] = "absent"]
        /\ UNCHANGED <<mode, heap, broker, dropped>>
    BY <1>1 DEF CompletePop
  <2>2. PICK label, t, s : label \in {"stats", "next", "idle"} /\ Goto(w, label, t, s)
    BY <1>1 DEF CompletePop, AfterRecord
  <2> QED
    BY <2>1, <2>2
<1>2. CASE Fail(w)
  BY <1>2 DEF Fail, Cleanup, Abnormal
<1>3. CASE Revoke(w)
  BY <1>3 DEF Revoke, Cleanup, Abnormal
<1> QED
  BY <1>1, <1>2, <1>3

LEMMA OutcomeEntryIsLive ==
    ASSUME TypeOK, TypeOK', EntryIsLive, NEW w \in Workers, OutcomeOf(w)
    PROVE  EntryIsLive'
<1> PICK p \in Tasks : p = job[w]
  BY GateAssumption DEF OutcomeOf, Executing, TypeOK, Agents
<1>1. \A t \in Tasks \ {p} : Owed(t) => Owed(t)'
  BY OthersOwed DEF OutcomeOf, TypeOK, Agents
<1>2. /\ registry'[p] = "absent"
      /\ \A i \in Ids \ {p} : registry'[i] = registry[i]
  BY GateAssumption DEF OutcomeOf, TypeOK
<1> QED
  BY <1>1, <1>2 DEF EntryIsLive

\* A thread's own task, as it moves from one place to the next.
LEMMA MoveOwed ==
    ASSUME TypeOK, TypeOK', NEW a \in Agents,
           \/ Pop(a) /\ pc[a] \in {"idle", "next"} /\ UNCHANGED <<broker, dropped>>
           \/ Apply(a)
           \/ ApplyRaises(a)
           \/ a \in Workers /\ ((\E t \in Tasks : Receive(a, t)) \/ Retry(a) \/ Redeliver(a))
    PROVE  \A t \in Tasks : Owed(t) => Owed(t)'
<1> USE GateAssumption DEF TypeOK, Agents, Goto, Rest, Owed, Live, Waiting, InHand, Running,
        Executing, gate, history, threads
<1>1. CASE Pop(a) /\ pc[a] \in {"idle", "next"} /\ UNCHANGED <<broker, dropped>>
  BY <1>1 DEF Pop, Entries
<1>2. CASE Apply(a)
  BY <1>2 DEF Apply
<1>3. CASE ApplyRaises(a)
  BY <1>3 DEF ApplyRaises, Abnormal
<1>4. CASE a \in Workers /\ \E t \in Tasks : Receive(a, t)
  BY <1>4 DEF Receive
<1>5. CASE a \in Workers /\ Retry(a)
  BY <1>5 DEF Retry, Abnormal
<1>6. CASE a \in Workers /\ Redeliver(a)
  BY <1>6 DEF Redeliver, Abnormal
<1> QED
  BY <1>1, <1>2, <1>3, <1>4, <1>5, <1>6

LEMMA ClientEntryIsLive ==
    ASSUME TypeOK, TypeOK', EntryIsLive, NEW c \in Clients, ClientStep(c)
    PROVE  EntryIsLive'
<1>a. c \in Agents
  BY DEF Agents
<1>1. CASE Push(c)
  BY <1>1, PushEntryIsLive
<1>2. CASE Kick(c)
  BY <1>2, <1>a, MoveOwed, QuietEntryIsLive DEF Kick, Pop
<1>3. CASE Apply(c)
  BY <1>3, <1>a, MoveOwed, QuietEntryIsLive DEF Apply, gate
<1>4. CASE ApplyRaises(c)
  BY <1>4, <1>a, MoveOwed, QuietEntryIsLive DEF ApplyRaises, gate
<1> USE GateAssumption DEF TypeOK, Agents, ClientPCs, WorkerPCs, Goto, Rest, gate, history,
        Owed, Live, Waiting, InHand, Running, Executing
<1>5. CASE \E t \in Tasks : SubmitFifo(c, t)
  BY <1>5, QuietEntryIsLive DEF SubmitFifo
<1>6. CASE \E t \in Tasks : ScoreTask(c, t)
  BY <1>6, QuietEntryIsLive DEF ScoreTask
<1>7. CASE Reject(c)
  BY <1>7, QuietEntryIsLive DEF Reject
<1>8. CASE SendDirect(c)
  BY <1>8, QuietEntryIsLive DEF SendDirect
<1>9. CASE SendDirectRaises(c)
  BY <1>9, QuietEntryIsLive DEF SendDirectRaises
<1> QED
  BY <1>1, <1>2, <1>3, <1>4, <1>5, <1>6, <1>7, <1>8, <1>9 DEF ClientStep

LEMMA WorkerEntryIsLive ==
    ASSUME PassesIds, TypeOK, TypeOK', EntryIsLive, NEW w \in Workers, WorkerStep(w)
    PROVE  EntryIsLive'
<1>a. w \in Agents
  BY DEF Agents
<1>1. CASE \E t \in Tasks : Receive(w, t)
  BY <1>1, <1>a, MoveOwed, QuietEntryIsLive DEF Receive, gate
<1>2. CASE Prerun(w)
  BY <1>2, PrerunEntryIsLive
<1>3. CASE CompletePop(w) \/ Fail(w) \/ Revoke(w)
  BY <1>3, OutcomeSteps, OutcomeEntryIsLive
<1>4. CASE DispatchNext(w)
  BY <1>4, <1>a, MoveOwed, QuietEntryIsLive DEF DispatchNext, Pop, history
<1>5. CASE Apply(w)
  BY <1>5, <1>a, MoveOwed, QuietEntryIsLive DEF Apply, gate
<1>6. CASE ApplyRaises(w)
  BY <1>6, <1>a, MoveOwed, QuietEntryIsLive DEF ApplyRaises, gate
<1>7. CASE Retry(w)
  BY <1>7, <1>a, MoveOwed, QuietEntryIsLive DEF Retry, gate
<1>8. CASE Redeliver(w)
  BY <1>8, <1>a, MoveOwed, QuietEntryIsLive DEF Redeliver, gate
<1> USE GateAssumption DEF TypeOK, Agents, ClientPCs, WorkerPCs, Goto, Rest, gate, history,
        Owed, Live, Waiting, InHand, Running, Executing, AfterRecord
<1>9. CASE RecordStats(w)
  BY <1>9, QuietEntryIsLive DEF RecordStats
<1>10. CASE RankerRecord(w)
  BY <1>10, QuietEntryIsLive DEF RankerRecord
<1>11. CASE RankerRecordRaises(w)
  BY <1>11, QuietEntryIsLive DEF RankerRecordRaises
<1>12. CASE DispatchNothing(w)
  BY <1>12, QuietEntryIsLive DEF DispatchNothing
<1> QED
  BY <1>1, <1>2, <1>3, <1>4, <1>5, <1>6, <1>7, <1>8, <1>9, <1>10, <1>11, <1>12 DEF WorkerStep

LEMMA StutterEntryIsLive == EntryIsLive /\ UNCHANGED vars => EntryIsLive'
BY DEF EntryIsLive, Owed, Live, Waiting, InHand, Running, Executing, vars, gate, threads, history

\* The registry outlives no task, but for one whose apply_fn raised: in every
\* mode, and also if messages are delivered twice.
THEOREM RegistryStaysLive == ASSUME PassesIds PROVE Spec => []RegistryIsLive
<1>1. TypeOK /\ EntryIsLive /\ [Next]_vars => TypeOK' /\ EntryIsLive'
  <2> SUFFICES ASSUME TypeOK, EntryIsLive, [Next]_vars PROVE TypeOK' /\ EntryIsLive'
    OBVIOUS
  <2>1. TypeOK'
    BY ClientTypeOK, WorkerTypeOK, StutterTypeOK DEF Next
  <2> QED
    BY <2>1, ClientEntryIsLive, WorkerEntryIsLive, StutterEntryIsLive DEF Next
<1>2. EntryIsLive => RegistryIsLive
  BY DEF EntryIsLive, Owed, RegistryIsLive
<1> QED
  BY <1>1, <1>2, InitTypeOK, InitEntryIsLive, PTL DEF Spec

-----------------------------------------------------------------------------
(* The life of a task id in active mode, when apply_fn passes the id on to   *)
(* Celery and no message is delivered twice.                                 *)

OnceDelivered == "redeliver" \notin Events

ActiveGate == mode = "active" /\ PassesIds /\ OnceDelivered

\* Nothing is sent past the heap, and every task on its way is registered:
\* without this a second submission of the id could slip in.
ActiveInv ==
    /\ TypeOK
    /\ \A a \in Agents : pc[a] # "direct"
    /\ \A t \in Tasks : Live(t) => registry[t] # "absent"
    /\ OncePerId
    /\ WaitingIsRegistered

LEMMA InitActiveInv == Init => ActiveInv
<1> SUFFICES ASSUME Init PROVE ActiveInv
  OBVIOUS
<1>1. TypeOK
  BY InitTypeOK
<1> QED
  BY <1>1, GateAssumption DEF Init, ActiveInv, Live, OncePerId, WaitingIsRegistered,
     Waiting, InHand, Running, Executing, Agents

\* dispatch_next() by any thread: the entry moves from the heap to its hands.
LEMMA PopActiveInv ==
    ASSUME ActiveGate, ActiveInv, TypeOK', NEW a \in Agents, pc[a] \in {"idle", "next"},
           Pop(a), UNCHANGED <<broker, dropped>>
    PROVE  ActiveInv'
<1> USE GateAssumption DEF ActiveGate, PassesIds, OnceDelivered, ActiveInv, TypeOK, Agents, ClientPCs, WorkerPCs, Entries,
        Goto, Live, OncePerId, WaitingIsRegistered, Waiting, InHand, Running, Executing, Pop
<1>1. PICK e \in heap : heap' = heap \ {e} /\ Goto(a, "apply", e.tid, e.score)
  OBVIOUS
<1>2. \A b \in Agents : pc'[b] # "direct"
  BY <1>1
<1>3. \A t \in Tasks : Live(t)' => registry'[t] # "absent"
  BY <1>1
<1>4. OncePerId'
  BY <1>1
<1>5. WaitingIsRegistered'
  BY <1>1
<1> QED
  BY <1>2, <1>3, <1>4, <1>5

\* apply_fn by any thread: the task moves from its hands to the broker.
LEMMA ApplyActiveInv ==
    ASSUME ActiveGate, ActiveInv, TypeOK', NEW a \in Agents, Apply(a)
    PROVE  ActiveInv'
<1> USE GateAssumption DEF ActiveGate, PassesIds, OnceDelivered, ActiveInv, TypeOK, Agents, ClientPCs, WorkerPCs, Entries,
        Goto, Rest, gate, history, Live, OncePerId, WaitingIsRegistered, Waiting, InHand,
        Running, Executing, Apply
<1>1. \A b \in Agents : pc'[b] # "direct"
  OBVIOUS
<1>2. \A t \in Tasks : Live(t)' => registry'[t] # "absent"
  OBVIOUS
<1>3. OncePerId'
  OBVIOUS
<1>4. WaitingIsRegistered'
  OBVIOUS
<1> QED
  BY <1>1, <1>2, <1>3, <1>4

\* submit() in active mode: the id is registered nowhere, hence nowhere alive.
LEMMA PushActiveInv ==
    ASSUME ActiveGate, ActiveInv, TypeOK', NEW c \in Clients, Push(c)
    PROVE  ActiveInv'
<1> USE GateAssumption DEF ActiveGate, PassesIds, OnceDelivered, ActiveInv, TypeOK, Agents, ClientPCs, WorkerPCs, Entries,
        Goto, Rest, Live, OncePerId, WaitingIsRegistered, Waiting, InHand, Running,
        Executing, Push
<1>1. \A b \in Agents : pc'[b] # "direct"
  OBVIOUS
<1>2. \A t \in Tasks : Live(t)' => registry'[t] # "absent"
  OBVIOUS
<1>3. OncePerId'
  OBVIOUS
<1>4. WaitingIsRegistered'
  OBVIOUS
<1> QED
  BY <1>1, <1>2, <1>3, <1>4

\* task_prerun: the entry of a running task is marked started.
LEMMA PrerunActiveInv ==
    ASSUME ActiveGate, ActiveInv, TypeOK', NEW w \in Workers, Prerun(w)
    PROVE  ActiveInv'
<1> USE GateAssumption DEF ActiveGate, PassesIds, OnceDelivered, ActiveInv, TypeOK, Agents, ClientPCs, WorkerPCs, Entries,
        Goto, history, Live, OncePerId, WaitingIsRegistered, Waiting, InHand, Running,
        Executing, Prerun
<1>1. \A b \in Agents : pc'[b] # "direct"
  OBVIOUS
<1>2. \A t \in Tasks : Live(t) <=> Live(t)'
  OBVIOUS
<1>3. OncePerId'
  OBVIOUS
<1>4. WaitingIsRegistered'
  OBVIOUS
<1> QED
  BY <1>1, <1>2, <1>3, <1>4

\* A retry: the task moves from its worker to the broker.
LEMMA RetryActiveInv ==
    ASSUME ActiveGate, ActiveInv, TypeOK', NEW w \in Workers, Retry(w)
    PROVE  ActiveInv'
<1> USE GateAssumption DEF ActiveGate, PassesIds, OnceDelivered, ActiveInv, TypeOK, Agents, ClientPCs, WorkerPCs, Entries,
        Goto, Rest, gate, Abnormal, Live, OncePerId, WaitingIsRegistered, Waiting, InHand,
        Running, Executing, Retry
<1>1. \A b \in Agents : pc'[b] # "direct"
  OBVIOUS
<1>2. \A t \in Tasks : Live(t)' => registry'[t] # "absent"
  OBVIOUS
<1>3. OncePerId'
  OBVIOUS
<1>4. WaitingIsRegistered'
  OBVIOUS
<1> QED
  BY <1>1, <1>2, <1>3, <1>4

\* An outcome: the task leaves its worker and its entry leaves the registry.
LEMMA OutcomeActiveInv ==
    ASSUME ActiveGate, ActiveInv, TypeOK', NEW w \in Workers, OutcomeOf(w)
    PROVE  ActiveInv'
<1> USE DEF ActiveInv, OutcomeOf
<1> PICK t \in Tasks : t = job[w]
  BY GateAssumption DEF TypeOK, Executing, Agents
<1>1. Waiting(t) = {} /\ InHand(t) = {} /\ broker[t] = 0 /\ Running(t) = {w}
  <2>1. w \in Running(t)
    BY DEF Running
  <2>2. broker[t] \in Nat
    BY DEF TypeOK
  <2> QED
    BY <2>1, <2>2 DEF OncePerId
<1>2. \A u \in Tasks : /\ Waiting(u)' = Waiting(u)
                       /\ InHand(u)' = InHand(u)
                       /\ Running(u)' = Running(u) \ {w}
  BY DEF Waiting, InHand, Running, Executing, Agents
<1>3. /\ registry'[t] = "absent"
      /\ \A i \in Ids \ {t} : registry'[i] = registry[i]
  BY GateAssumption DEF TypeOK
<1>4. \A u \in Tasks \ {t} : Running(u)' = Running(u) /\ (Live(u)' <=> Live(u))
  BY <1>2 DEF Live, Running
<1>5. ~Live(t)'
  BY <1>1, <1>2, GateAssumption DEF Live, TypeOK
<1>6. \A b \in Agents : pc'[b] # "direct"
  OBVIOUS
<1>7. \A u \in Tasks : Live(u)' => registry'[u] # "absent"
  BY <1>3, <1>4, <1>5, GateAssumption
<1>8. OncePerId'
  BY <1>1, <1>2 DEF OncePerId
<1>9. WaitingIsRegistered'
  <2> SUFFICES ASSUME NEW e \in heap PROVE registry'[e.tid] = "registered"
    BY DEF WaitingIsRegistered
  <2>1. e.tid \in Tasks /\ e.tid # t
    BY <1>1 DEF Waiting, TypeOK, Entries
  <2> QED
    BY <2>1, <1>3, GateAssumption DEF WaitingIsRegistered
<1> QED
  BY <1>6, <1>7, <1>8, <1>9

\* A step of a thread that holds no task, before and after.
LEMMA QuietActiveInv ==
    ASSUME ActiveInv, TypeOK', NEW a \in Agents,
           pc[a] \notin {"apply", "received", "running"},
           pc'[a] \notin {"direct", "apply", "received", "running"},
           \A b \in Agents \ {a} : pc'[b] = pc[b] /\ job'[b] = job[b],
           UNCHANGED <<heap, registry, broker, dropped>>
    PROVE  ActiveInv'
<1> USE DEF ActiveInv
<1>1. \A t \in Tasks : /\ Waiting(t)' = Waiting(t)
                       /\ InHand(t)' = InHand(t)
                       /\ Running(t)' = Running(t)
  BY DEF Waiting, InHand, Running, Executing, Agents
<1>2. \A t \in Tasks : Live(t)' <=> Live(t)
  BY <1>1 DEF Live
<1>3. OncePerId'
  BY <1>1 DEF OncePerId
<1>4. WaitingIsRegistered'
  BY DEF WaitingIsRegistered
<1> QED
  BY <1>2, <1>3, <1>4

LEMMA ClientActiveInv ==
    ASSUME ActiveGate, ActiveInv, TypeOK', NEW c \in Clients, ClientStep(c)
    PROVE  ActiveInv'
<1> USE GateAssumption DEF ActiveGate, PassesIds, OnceDelivered, ActiveInv, TypeOK, Agents, ClientPCs, WorkerPCs, Entries,
        Goto, Rest, gate, history, threads, Live, OncePerId, WaitingIsRegistered,
        Waiting, InHand, Running, Executing
<1>1. CASE \E t \in Tasks : SubmitFifo(c, t)
  BY <1>1 DEF SubmitFifo
<1>2. CASE \E t \in Tasks : ScoreTask(c, t)
  BY <1>2 DEF ScoreTask
<1>3. CASE Reject(c)
  BY <1>3 DEF Reject
<1>4. CASE Push(c)
  BY <1>4, PushActiveInv
<1>5. CASE SendDirect(c)
  BY <1>5 DEF SendDirect
<1>6. CASE SendDirectRaises(c)
  BY <1>6 DEF SendDirectRaises, Abnormal
<1>7. CASE Kick(c)
  BY <1>7, PopActiveInv DEF Kick
<1>8. CASE Apply(c)
  BY <1>8, ApplyActiveInv
<1>9. CASE ApplyRaises(c)
  BY <1>9 DEF ApplyRaises, Abnormal
<1> QED
  BY <1>1, <1>2, <1>3, <1>4, <1>5, <1>6, <1>7, <1>8, <1>9 DEF ClientStep

LEMMA WorkerActiveInv ==
    ASSUME ActiveGate, ActiveInv, TypeOK', NEW w \in Workers, WorkerStep(w)
    PROVE  ActiveInv'
<1>a. TypeOK
  BY DEF ActiveInv
<1>3. CASE CompletePop(w)
  BY <1>a, <1>3, OutcomeSteps, OutcomeActiveInv DEF ActiveGate
<1>11. CASE Fail(w)
  BY <1>a, <1>11, OutcomeSteps, OutcomeActiveInv DEF ActiveGate
<1>12. CASE Revoke(w)
  BY <1>a, <1>12, OutcomeSteps, OutcomeActiveInv DEF ActiveGate
<1>4. CASE RecordStats(w)
  <2>1. /\ pc[w] = "stats" /\ pc'[w] \in {"record", "next", "idle"}
        /\ \A a \in Agents \ {w} : pc'[a] = pc[a] /\ job'[a] = job[a]
        /\ UNCHANGED <<heap, registry, broker, dropped>>
    BY <1>4, <1>a, GateAssumption
       DEF RecordStats, AfterRecord, Goto, TypeOK, Agents, history
  <2> QED
    BY <2>1, QuietActiveInv DEF Agents
<1> USE GateAssumption DEF ActiveGate, PassesIds, OnceDelivered, ActiveInv, TypeOK, Agents, ClientPCs, WorkerPCs, Entries,
        Goto, Rest, gate, history, threads, Live, OncePerId, WaitingIsRegistered,
        Waiting, InHand, Running, Executing
<1>1. CASE \E t \in Tasks : Receive(w, t)
  BY <1>1 DEF Receive
<1>2. CASE Prerun(w)
  BY <1>2, PrerunActiveInv
<1>5. CASE RankerRecord(w)
  BY <1>5 DEF RankerRecord, AfterRecord
<1>6. CASE RankerRecordRaises(w)
  BY <1>6 DEF RankerRecordRaises, Abnormal
<1>7. CASE DispatchNext(w)
  BY <1>7, PopActiveInv DEF DispatchNext
<1>8. CASE DispatchNothing(w)
  BY <1>8 DEF DispatchNothing
<1>9. CASE Apply(w)
  BY <1>9, ApplyActiveInv
<1>10. CASE ApplyRaises(w)
  BY <1>10 DEF ApplyRaises, Abnormal
<1>13. CASE Retry(w)
  BY <1>13, RetryActiveInv
<1>14. CASE Redeliver(w)
  BY <1>14 DEF Redeliver, Abnormal
<1> QED
  BY <1>1, <1>2, <1>3, <1>4, <1>5, <1>6, <1>7, <1>8, <1>9, <1>10, <1>11, <1>12, <1>13,
     <1>14 DEF WorkerStep

LEMMA StutterActiveInv == ActiveInv /\ UNCHANGED vars => ActiveInv'
BY StutterTypeOK DEF ActiveInv, vars, gate, threads, history, Live, OncePerId,
   WaitingIsRegistered, Waiting, InHand, Running, Executing

\* The mode is chosen once; outside the active mode nothing enters the heap.
GateInv ==
    /\ TypeOK
    /\ mode = "active" => ActiveInv
    /\ mode # "active" => heap = {} /\ \A c \in Clients : pc[c] # "push"

LEMMA ModeIsFixed == [Next]_vars => mode' = mode
BY DEF Next, vars, gate, history, threads, ClientStep, WorkerStep, SubmitFifo, ScoreTask, Reject,
   Push, SendDirect, SendDirectRaises, Kick, Pop, Apply, ApplyRaises, Receive, Prerun, CompletePop,
   RecordStats, RankerRecord, RankerRecordRaises, DispatchNext, DispatchNothing, Fail, Revoke,
   Cleanup, Retry, Redeliver

LEMMA HeapStaysEmpty ==
    ASSUME TypeOK, mode # "active", heap = {}, \A c \in Clients : pc[c] # "push", [Next]_vars
    PROVE  heap' = {} /\ \A c \in Clients : pc'[c] # "push"
<1> USE GateAssumption DEF TypeOK, Agents, Goto, Rest, gate, history, threads
<1>1. CASE \E c \in Clients : ClientStep(c)
  <2> PICK c \in Clients : ClientStep(c)
    BY <1>1
  <2>1. CASE \E t \in Tasks : SubmitFifo(c, t)
    BY <2>1 DEF SubmitFifo
  <2>2. CASE \E t \in Tasks : ScoreTask(c, t)
    <3> PICK t \in Tasks : ScoreTask(c, t)
      BY <2>2
    <3>1. /\ heap' = heap
          /\ pc' = [pc EXCEPT ![c] = IF mode = "shadow" THEN "direct" ELSE "push"]
      BY DEF ScoreTask
    <3>2. mode = "shadow"
      BY DEF ScoreTask, Modes
    <3> QED
      BY <3>1, <3>2
  <2>3. CASE Reject(c) \/ Push(c)
    BY <2>3 DEF Reject, Push
  <2>4. CASE SendDirect(c) \/ SendDirectRaises(c)
    BY <2>4 DEF SendDirect, SendDirectRaises
  <2>5. CASE Kick(c)
    BY <2>5 DEF Kick, Pop
  <2>6. CASE Apply(c) \/ ApplyRaises(c)
    BY <2>6 DEF Apply, ApplyRaises
  <2> QED
    BY <2>1, <2>2, <2>3, <2>4, <2>5, <2>6 DEF ClientStep
<1>2. CASE \E w \in Workers : WorkerStep(w)
  BY <1>2 DEF WorkerStep, Receive, Prerun, CompletePop, AfterRecord, RecordStats, RankerRecord,
     RankerRecordRaises, DispatchNext, DispatchNothing, Pop, Apply, ApplyRaises, Fail, Revoke,
     Cleanup, Retry, Redeliver
<1>3. CASE UNCHANGED vars
  BY <1>3 DEF vars
<1> QED
  BY <1>1, <1>2, <1>3 DEF Next

LEMMA GateInvariance == ASSUME PassesIds, OnceDelivered PROVE Spec => []GateInv
<1>1. GateInv /\ [Next]_vars => GateInv'
  <2> SUFFICES ASSUME GateInv, [Next]_vars PROVE GateInv'
    OBVIOUS
  <2>1. TypeOK'
    BY ClientTypeOK, WorkerTypeOK, StutterTypeOK DEF Next, GateInv
  <2>2. ASSUME mode = "active" PROVE ActiveInv'
    BY <2>1, <2>2, ClientActiveInv, WorkerActiveInv, StutterActiveInv DEF Next, GateInv, ActiveGate
  <2>3. ASSUME mode # "active" PROVE heap' = {} /\ \A c \in Clients : pc'[c] # "push"
    BY <2>3, HeapStaysEmpty DEF GateInv
  <2> QED
    BY <2>1, <2>2, <2>3, ModeIsFixed DEF GateInv
<1>2. Init => GateInv
  BY InitTypeOK, InitActiveInv, GateAssumption DEF GateInv, Init, Agents
<1> QED
  BY <1>1, <1>2, PTL DEF Spec

\* In active mode a task id is in at most one place between submit() and its
\* outcome: in the heap, with one dispatching thread, at the broker or in one
\* worker.
THEOREM ActiveNeverTwice == ASSUME PassesIds, OnceDelivered PROVE Spec => []NeverTwice
<1>1. GateInv => NeverTwice
  BY DEF GateInv, ActiveInv, NeverTwice
<1> QED
  BY <1>1, GateInvariance, PTL

\* Heap and registry agree: whatever waits is registered and not started.
THEOREM WaitingStaysRegistered ==
    ASSUME PassesIds, OnceDelivered PROVE Spec => []WaitingIsRegistered
<1>1. GateInv => WaitingIsRegistered
  BY DEF GateInv, ActiveInv, WaitingIsRegistered
<1> QED
  BY <1>1, GateInvariance, PTL

-----------------------------------------------------------------------------
(* Sets that change by one member. *)

Count(b) == IF b THEN 1 ELSE 0

\* Two sets that differ in one member at most.
LEMMA OneMember ==
    ASSUME NEW S, IsFiniteSet(S), NEW T, NEW x, \A y : y # x => (y \in S <=> y \in T)
    PROVE  /\ IsFiniteSet(T)
           /\ Cardinality(S) \in Nat /\ Cardinality(T) \in Nat
           /\ Cardinality(T) = Cardinality(S) + Count(x \in T) - Count(x \in S)
<1>1. Cardinality(S) \in Nat
  BY FS_CardinalityType
<1>2. CASE x \in S /\ x \in T
  <2>1. T = S
    BY <1>2
  <2> QED
    BY <1>1, <1>2, <2>1 DEF Count
<1>3. CASE x \notin S /\ x \notin T
  <2>1. T = S
    BY <1>3
  <2> QED
    BY <1>1, <1>3, <2>1 DEF Count
<1>4. CASE x \notin S /\ x \in T
  <2>1. T = S \cup {x}
    BY <1>4
  <2>2. IsFiniteSet(T) /\ Cardinality(T) = Cardinality(S) + 1
    BY <1>4, <2>1, FS_AddElement
  <2> QED
    BY <1>1, <1>4, <2>2 DEF Count
<1>5. CASE x \in S /\ x \notin T
  <2>1. T = S \ {x}
    BY <1>5
  <2>2. IsFiniteSet(T) /\ Cardinality(T) = Cardinality(S) - 1
    BY <1>5, <2>1, FS_RemoveElement
  <2>3. Cardinality(T) \in Nat
    BY <2>2, FS_CardinalityType
  <2> QED
    BY <1>1, <1>5, <2>2, <2>3 DEF Count
<1> QED
  BY <1>2, <1>3, <1>4, <1>5

-----------------------------------------------------------------------------
(* What a step of one thread does to the sets of threads. *)

\* A step of thread a moves no other thread.
Alone(a) == \A b \in Agents \ {a} : pc'[b] = pc[b] /\ job'[b] = job[b]

Holds(a, t) == pc[a] = "apply" /\ job[a] = t

Executes(a, t) == a \in Workers /\ Executing(a) /\ job[a] = t

LEMMA InHandCount ==
    ASSUME NEW a \in Agents, Alone(a), NEW t \in Tasks, IsFiniteSet(InHand(t))
    PROVE  /\ IsFiniteSet(InHand(t)')
           /\ Cardinality(InHand(t)) \in Nat /\ Cardinality(InHand(t)') \in Nat
           /\ Cardinality(InHand(t)') =
                Cardinality(InHand(t)) + Count(Holds(a, t)') - Count(Holds(a, t))
<1>1. \A b : b # a => (b \in InHand(t) <=> b \in InHand(t)')
  BY DEF InHand, Alone
<1>2. (a \in InHand(t) <=> Holds(a, t)) /\ (a \in InHand(t)' <=> Holds(a, t)')
  BY DEF InHand, Holds
<1>3. /\ Count(a \in InHand(t)) = Count(Holds(a, t))
      /\ Count(a \in InHand(t)') = Count(Holds(a, t)')
  BY <1>2 DEF Count
<1> HIDE DEF InHand
<1> QED
  BY <1>1, <1>3, OneMember

LEMMA RunningCount ==
    ASSUME NEW a \in Agents, Alone(a), NEW t \in Tasks, IsFiniteSet(Running(t))
    PROVE  /\ IsFiniteSet(Running(t)')
           /\ Cardinality(Running(t)) \in Nat /\ Cardinality(Running(t)') \in Nat
           /\ Cardinality(Running(t)') =
                Cardinality(Running(t)) + Count(Executes(a, t)') - Count(Executes(a, t))
<1>1. \A b : b # a => (b \in Running(t) <=> b \in Running(t)')
  BY DEF Running, Executing, Alone, Agents
<1>2. (a \in Running(t) <=> Executes(a, t)) /\ (a \in Running(t)' <=> Executes(a, t)')
  BY DEF Running, Executes
<1>3. /\ Count(a \in Running(t)) = Count(Executes(a, t))
      /\ Count(a \in Running(t)') = Count(Executes(a, t)')
  BY <1>2 DEF Count
<1> QED
  BY <1>1, <1>3, OneMember

-----------------------------------------------------------------------------
(* The ledger of submissions: every step moves a submission from one place  *)
(* to another, or takes one in.                                              *)

Counted(t) ==
    /\ IsFiniteSet(Waiting(t)) /\ IsFiniteSet(InHand(t)) /\ IsFiniteSet(Running(t))
    /\ accepted[t] = Cardinality(Waiting(t)) + Cardinality(InHand(t)) + broker[t]
                        + Cardinality(Running(t)) + finished[t] + dropped[t]

\* Sequence numbers are never given twice: a pushed entry is new to the heap.
NumbersAreFresh == \A e \in heap : e.seq < arrivals

LedgerInv == TypeOK /\ NumbersAreFresh /\ \A t \in Tasks : Counted(t)

\* What a step of thread a moves of task t, if d entries enter the heap.
Conserves(a, t, d) ==
    accepted'[t] - accepted[t] =
        d + (Count(Holds(a, t)') - Count(Holds(a, t))) + (broker'[t] - broker[t])
          + (Count(Executes(a, t)') - Count(Executes(a, t)))
          + (finished'[t] - finished[t]) + (dropped'[t] - dropped[t])

LEMMA Balance ==
    ASSUME TypeOK, TypeOK', NEW t \in Tasks, Counted(t), NEW a \in Agents, Alone(a), NEW d \in Int,
           IsFiniteSet(Waiting(t)'), Cardinality(Waiting(t)') = Cardinality(Waiting(t)) + d,
           Conserves(a, t, d)
    PROVE  Counted(t)'
<1>1. /\ IsFiniteSet(InHand(t)')
      /\ Cardinality(InHand(t)) \in Nat /\ Cardinality(InHand(t)') \in Nat
      /\ Cardinality(InHand(t)') =
            Cardinality(InHand(t)) + Count(Holds(a, t)') - Count(Holds(a, t))
  BY InHandCount DEF Counted
<1>2. /\ IsFiniteSet(Running(t)')
      /\ Cardinality(Running(t)) \in Nat /\ Cardinality(Running(t)') \in Nat
      /\ Cardinality(Running(t)') =
            Cardinality(Running(t)) + Count(Executes(a, t)') - Count(Executes(a, t))
  BY RunningCount DEF Counted
<1>3. Cardinality(Waiting(t)) \in Nat
  BY FS_CardinalityType DEF Counted
<1>4. /\ Count(Holds(a, t)') \in Int /\ Count(Holds(a, t)) \in Int
      /\ Count(Executes(a, t)') \in Int /\ Count(Executes(a, t)) \in Int
  BY DEF Count
<1>5. /\ accepted[t] \in Nat /\ broker[t] \in Nat /\ finished[t] \in Nat /\ dropped[t] \in Nat
      /\ accepted'[t] \in Nat /\ broker'[t] \in Nat /\ finished'[t] \in Nat /\ dropped'[t] \in Nat
  BY DEF TypeOK
<1> HIDE DEF Waiting, InHand, Running, Holds, Executes
<1>6. accepted'[t] = Cardinality(Waiting(t)') + Cardinality(InHand(t)') + broker'[t]
                        + Cardinality(Running(t)') + finished'[t] + dropped'[t]
  BY <1>1, <1>2, <1>3, <1>4, <1>5 DEF Counted, Conserves
<1> QED
  BY <1>1, <1>2, <1>6 DEF Counted

\* A step that leaves the heap alone.
LEMMA Moved ==
    ASSUME LedgerInv, TypeOK', NEW a \in Agents, Alone(a), UNCHANGED <<heap, arrivals>>,
           \A t \in Tasks : Conserves(a, t, 0)
    PROVE  LedgerInv'
<1>1. NumbersAreFresh'
  BY DEF LedgerInv, NumbersAreFresh
<1>2. ASSUME NEW t \in Tasks PROVE Counted(t)'
  <2>1. Waiting(t)' = Waiting(t)
    BY DEF Waiting
  <2>2. Cardinality(Waiting(t)') = Cardinality(Waiting(t)) + 0 /\ IsFiniteSet(Waiting(t)')
    BY <2>1, FS_CardinalityType DEF LedgerInv, Counted
  <2> QED
    BY <2>2, Balance DEF LedgerInv
<1> QED
  BY <1>1, <1>2 DEF LedgerInv

LEMMA GotoDoes ==
    ASSUME TypeOK, NEW a \in Agents, NEW label, NEW t, NEW s, Goto(a, label, t, s)
    PROVE  Alone(a) /\ pc'[a] = label /\ job'[a] = t
BY DEF TypeOK, Goto, Alone

\* Steps between places that are on no ledger.
LEMMA QuietLedger ==
    ASSUME LedgerInv, TypeOK', NEW a \in Agents, Alone(a),
           pc[a] # "apply", pc'[a] # "apply",
           \A t \in Tasks : Executes(a, t)' <=> Executes(a, t),
           UNCHANGED <<heap, arrivals, broker, accepted, finished, dropped>>
    PROVE  LedgerInv'
<1>1. ASSUME NEW t \in Tasks PROVE Conserves(a, t, 0)
  <2>1. /\ accepted[t] \in Int /\ broker[t] \in Int /\ finished[t] \in Int /\ dropped[t] \in Int
    BY DEF LedgerInv, TypeOK
  <2>2. Count(Holds(a, t)') = 0 /\ Count(Holds(a, t)) = 0
    BY DEF Count, Holds
  <2>3. Count(Executes(a, t)') = Count(Executes(a, t)) /\ Count(Executes(a, t)) \in Int
    BY DEF Count
  <2> QED
    BY <2>1, <2>2, <2>3 DEF Conserves
<1> QED
  BY <1>1, Moved

\* dispatch_next() by any thread: an entry leaves the heap for its hands.
LEMMA PopLedger ==
    ASSUME LedgerInv, TypeOK', NEW a \in Agents, pc[a] \in {"idle", "next"}, Pop(a),
           UNCHANGED <<broker, accepted, finished, dropped>>
    PROVE  LedgerInv'
<1>1. PICK e \in heap : heap' = heap \ {e} /\ Goto(a, "apply", e.tid, e.score)
  BY DEF Pop
<1>2. arrivals' = arrivals
  BY DEF Pop
<1>3. Alone(a) /\ pc'[a] = "apply" /\ job'[a] = e.tid
  BY <1>1, GotoDoes DEF LedgerInv
<1>4. NumbersAreFresh'
  BY <1>1, <1>2 DEF LedgerInv, NumbersAreFresh
<1>5. ASSUME NEW t \in Tasks PROVE Counted(t)'
  <2> DEFINE d == 0 - Count(e.tid = t)
  <2>1. /\ accepted[t] \in Int /\ broker[t] \in Int /\ finished[t] \in Int /\ dropped[t] \in Int
        /\ d \in Int /\ Count(e.tid = t) \in Int
    BY DEF LedgerInv, TypeOK, Count
  <2>2. /\ Count(Holds(a, t)') = Count(e.tid = t) /\ Count(Holds(a, t)) = 0
        /\ Count(Executes(a, t)') = 0 /\ Count(Executes(a, t)) = 0
    BY <1>3 DEF Count, Holds, Executes, Executing
  <2>3. Conserves(a, t, d)
    BY <2>1, <2>2 DEF Conserves
  <2>4. \A f : f # e => (f \in Waiting(t) <=> f \in Waiting(t)')
    BY <1>1 DEF Waiting
  <2>5. e \notin Waiting(t)' /\ (e \in Waiting(t) <=> e.tid = t)
    BY <1>1 DEF Waiting
  <2>6. Count(e \in Waiting(t)') = 0 /\ Count(e \in Waiting(t)) = Count(e.tid = t)
    BY <2>5 DEF Count
  <2>7. /\ IsFiniteSet(Waiting(t)') /\ Cardinality(Waiting(t)) \in Nat
        /\ Cardinality(Waiting(t)') =
              Cardinality(Waiting(t)) + Count(e \in Waiting(t)') - Count(e \in Waiting(t))
    BY <2>4, OneMember DEF LedgerInv, Counted
  <2>8. Cardinality(Waiting(t)') = Cardinality(Waiting(t)) + d
    BY <2>1, <2>6, <2>7
  <2> HIDE DEF d
  <2> QED
    BY <1>3, <2>1, <2>3, <2>7, <2>8, Balance DEF LedgerInv
<1> QED
  BY <1>4, <1>5 DEF LedgerInv

\* submit() in active mode: the new entry is new to the heap.
LEMMA PushLedger ==
    ASSUME LedgerInv, TypeOK', NEW c \in Clients, Push(c)
    PROVE  LedgerInv'
<1> DEFINE e == [score |-> prio[c], seq |-> arrivals, tid |-> job[c]]
<1>1. /\ e.seq = arrivals /\ e.tid = job[c]
      /\ heap' = heap \cup {e} /\ arrivals' = arrivals + 1 /\ arrivals \in Nat
      /\ \A f \in heap : f.seq \in Nat
  BY DEF Push, LedgerInv, TypeOK, Entries
<1>2. c \in Agents /\ c \notin Workers
  BY GateAssumption DEF Agents
<1>3. Alone(c) /\ pc[c] = "push" /\ pc'[c] = "idle"
  BY <1>2, GotoDoes DEF Push, Rest, LedgerInv
<1>4. /\ accepted' = [accepted EXCEPT ![job[c]] = @ + 1]
      /\ UNCHANGED <<broker, finished, dropped>>
  BY DEF Push
<1> HIDE DEF e
<1>5. e \notin heap
  BY <1>1 DEF LedgerInv, NumbersAreFresh
<1>6. NumbersAreFresh'
  BY <1>1 DEF LedgerInv, NumbersAreFresh
<1>7. ASSUME NEW t \in Tasks PROVE Counted(t)'
  <2> DEFINE d == Count(e.tid = t)
  <2>1. /\ accepted[t] \in Int /\ broker[t] \in Int /\ finished[t] \in Int /\ dropped[t] \in Int
        /\ d \in Int
    BY DEF LedgerInv, TypeOK, Count
  <2>2. /\ Count(Holds(c, t)') = 0 /\ Count(Holds(c, t)) = 0
        /\ Count(Executes(c, t)') = 0 /\ Count(Executes(c, t)) = 0
    BY <1>2, <1>3 DEF Count, Holds, Executes
  <2>3. accepted'[t] = accepted[t] + d
    BY <1>1, <1>4, <2>1 DEF LedgerInv, TypeOK, Count
  <2>4. Conserves(c, t, d)
    BY <1>4, <2>1, <2>2, <2>3 DEF Conserves
  <2>5. \A f : f # e => (f \in Waiting(t) <=> f \in Waiting(t)')
    BY <1>1 DEF Waiting
  <2>6. e \notin Waiting(t) /\ (e \in Waiting(t)' <=> e.tid = t)
    BY <1>1, <1>5 DEF Waiting
  <2>7. Count(e \in Waiting(t)') = d /\ Count(e \in Waiting(t)) = 0
    BY <2>6 DEF Count
  <2>8. /\ IsFiniteSet(Waiting(t)') /\ Cardinality(Waiting(t)) \in Nat
        /\ Cardinality(Waiting(t)') =
              Cardinality(Waiting(t)) + Count(e \in Waiting(t)') - Count(e \in Waiting(t))
    BY <2>5, OneMember DEF LedgerInv, Counted
  <2>9. Cardinality(Waiting(t)') = Cardinality(Waiting(t)) + d
    BY <2>1, <2>7, <2>8
  <2> HIDE DEF d
  <2> QED
    BY <1>2, <1>3, <2>1, <2>4, <2>8, <2>9, Balance DEF LedgerInv
<1> QED
  BY <1>6, <1>7 DEF LedgerInv

\* Steps that take one task p out of the hands of a thread, put one in, or
\* both: the other tasks are conserved, and p by what its ledger says.
LEMMA OneTaskLedger ==
    ASSUME LedgerInv, TypeOK', NEW a \in Agents, Alone(a), UNCHANGED <<heap, arrivals>>,
           NEW p \in Tasks, job[a] = p \/ pc[a] = "idle", job'[a] = p \/ pc'[a] \in {"idle", "next"},
           \A t \in Tasks \ {p} : /\ accepted'[t] = accepted[t] /\ broker'[t] = broker[t]
                                  /\ finished'[t] = finished[t] /\ dropped'[t] = dropped[t],
           Conserves(a, p, 0)
    PROVE  LedgerInv'
<1>1. ASSUME NEW t \in Tasks, t # p PROVE Conserves(a, t, 0)
  <2>1. /\ accepted[t] \in Int /\ broker[t] \in Int /\ finished[t] \in Int /\ dropped[t] \in Int
    BY DEF LedgerInv, TypeOK
  <2>2. /\ Count(Holds(a, t)') = 0 /\ Count(Holds(a, t)) = 0
        /\ Count(Executes(a, t)') = 0 /\ Count(Executes(a, t)) = 0
    BY <1>1 DEF Count, Holds, Executes, Executing
  <2> QED
    BY <1>1, <2>1, <2>2 DEF Conserves
<1> QED
  BY <1>1, Moved

\* fifo and shadow: a submission goes to the broker at once.
LEMMA SendDirectLedger ==
    ASSUME LedgerInv, TypeOK', NEW c \in Clients, SendDirect(c)
    PROVE  LedgerInv'
<1>1. c \in Agents /\ c \notin Workers
  BY GateAssumption DEF Agents
<1>2. Alone(c) /\ pc[c] = "direct" /\ pc'[c] = "idle" /\ UNCHANGED <<heap, arrivals>>
  BY <1>1, GotoDoes DEF SendDirect, Rest, LedgerInv, gate
<1>3. PICK p \in Tasks : p = job[c]
  BY <1>1, <1>2 DEF LedgerInv, TypeOK
<1>4. /\ broker' = [broker EXCEPT ![p] = @ + 1] /\ accepted' = [accepted EXCEPT ![p] = @ + 1]
      /\ UNCHANGED <<finished, dropped>>
  BY <1>3 DEF SendDirect
<1>5. /\ Count(Holds(c, p)') = 0 /\ Count(Holds(c, p)) = 0
      /\ Count(Executes(c, p)') = 0 /\ Count(Executes(c, p)) = 0
  BY <1>1, <1>2 DEF Count, Holds, Executes
<1>6. Conserves(c, p, 0)
  BY <1>4, <1>5 DEF Conserves, LedgerInv, TypeOK
<1>7. \A t \in Tasks \ {p} : /\ accepted'[t] = accepted[t] /\ broker'[t] = broker[t]
                             /\ finished'[t] = finished[t] /\ dropped'[t] = dropped[t]
  BY <1>4 DEF LedgerInv, TypeOK
<1> QED
  BY <1>1, <1>2, <1>3, <1>6, <1>7, OneTaskLedger

\* apply_fn: from the hands of a thread to the broker, or dropped.
LEMMA ApplyLedger ==
    ASSUME LedgerInv, TypeOK', NEW a \in Agents, Apply(a) \/ ApplyRaises(a)
    PROVE  LedgerInv'
<1>1. Alone(a) /\ pc[a] = "apply" /\ pc'[a] = "idle" /\ UNCHANGED <<heap, arrivals>>
  BY GotoDoes DEF Apply, ApplyRaises, Rest, LedgerInv, gate
<1>2. PICK p \in Tasks : p = job[a]
  BY <1>1 DEF LedgerInv, TypeOK
<1>3. /\ \/ broker' = [broker EXCEPT ![p] = @ + 1] /\ dropped' = dropped
         \/ broker' = broker /\ dropped' = [dropped EXCEPT ![p] = @ + 1]
      /\ UNCHANGED <<accepted, finished>>
  BY <1>2 DEF Apply, ApplyRaises, history
<1>4. /\ Count(Holds(a, p)') = 0 /\ Count(Holds(a, p)) = 1
      /\ Count(Executes(a, p)') = 0 /\ Count(Executes(a, p)) = 0
  BY <1>1, <1>2 DEF Count, Holds, Executes, Executing
<1>5. Conserves(a, p, 0)
  BY <1>3, <1>4 DEF Conserves, LedgerInv, TypeOK
<1>6. \A t \in Tasks \ {p} : /\ accepted'[t] = accepted[t] /\ broker'[t] = broker[t]
                             /\ finished'[t] = finished[t] /\ dropped'[t] = dropped[t]
  BY <1>3 DEF LedgerInv, TypeOK
<1> QED
  BY <1>1, <1>2, <1>5, <1>6, OneTaskLedger

\* A worker takes a message.
LEMMA ReceiveLedger ==
    ASSUME LedgerInv, TypeOK', NEW w \in Workers, NEW p \in Tasks, Receive(w, p)
    PROVE  LedgerInv'
<1>1. w \in Agents
  BY DEF Agents
<1>2. /\ Alone(w) /\ pc[w] = "idle" /\ pc'[w] = "received" /\ job'[w] = p
      /\ UNCHANGED <<heap, arrivals>>
  BY <1>1, GotoDoes DEF Receive, LedgerInv, gate
<1>3. /\ broker' = [broker EXCEPT ![p] = @ - 1] /\ UNCHANGED <<accepted, finished, dropped>>
  BY DEF Receive, history
<1>4. /\ Count(Holds(w, p)') = 0 /\ Count(Holds(w, p)) = 0
      /\ Count(Executes(w, p)') = 1 /\ Count(Executes(w, p)) = 0
  BY <1>2 DEF Count, Holds, Executes, Executing
<1>5. Conserves(w, p, 0)
  BY <1>3, <1>4 DEF Conserves, LedgerInv, TypeOK
<1>6. \A t \in Tasks \ {p} : /\ accepted'[t] = accepted[t] /\ broker'[t] = broker[t]
                             /\ finished'[t] = finished[t] /\ dropped'[t] = dropped[t]
  BY <1>3 DEF LedgerInv, TypeOK
<1> QED
  BY <1>1, <1>2, <1>5, <1>6, OneTaskLedger

\* An execution ends, or is sent again.
LEMMA EndLedger ==
    ASSUME LedgerInv, TypeOK', NEW w \in Workers,
           CompletePop(w) \/ Fail(w) \/ Revoke(w) \/ Retry(w)
    PROVE  LedgerInv'
<1>1. w \in Agents
  BY DEF Agents
<1>2. /\ Executing(w) /\ UNCHANGED <<heap, arrivals, accepted, dropped>>
  BY DEF CompletePop, Fail, Revoke, Retry, Cleanup, Executing, gate
<1>3. PICK label, t, s :
         /\ label \in {"stats", "next", "idle"}
         /\ Goto(w, label, t, s) /\ (label = "stats" => t = job[w])
  BY DEF CompletePop, AfterRecord, Fail, Revoke, Retry, Cleanup, Rest
<1>4. Alone(w) /\ pc'[w] = label /\ job'[w] = t
  BY <1>1, <1>3, GotoDoes DEF LedgerInv
<1>5. PICK p \in Tasks : p = job[w]
  BY <1>1, <1>2 DEF LedgerInv, TypeOK, Executing
<1>6. \/ finished' = [finished EXCEPT ![p] = @ + 1] /\ broker' = broker
      \/ finished' = finished /\ broker' = [broker EXCEPT ![p] = @ + 1]
  BY <1>5 DEF CompletePop, Fail, Revoke, Retry, Cleanup
<1>7. /\ Count(Holds(w, p)') = 0 /\ Count(Holds(w, p)) = 0
      /\ Count(Executes(w, p)') = 0 /\ Count(Executes(w, p)) = 1
  BY <1>2, <1>3, <1>4, <1>5 DEF Count, Holds, Executes, Executing
<1>8. Conserves(w, p, 0)
  BY <1>2, <1>6, <1>7 DEF Conserves, LedgerInv, TypeOK
<1>9. \A u \in Tasks \ {p} : /\ accepted'[u] = accepted[u] /\ broker'[u] = broker[u]
                             /\ finished'[u] = finished[u] /\ dropped'[u] = dropped[u]
  BY <1>2, <1>6 DEF LedgerInv, TypeOK
<1> QED
  BY <1>1, <1>2, <1>3, <1>4, <1>5, <1>8, <1>9, OneTaskLedger

LEMMA ClientLedger ==
    ASSUME LedgerInv, TypeOK', NEW c \in Clients, ClientStep(c)
    PROVE  LedgerInv'
<1>1. c \in Agents /\ c \notin Workers /\ TypeOK
  BY GateAssumption DEF Agents, LedgerInv
<1>2. CASE \/ \E t \in Tasks : SubmitFifo(c, t)
           \/ \E t \in Tasks : ScoreTask(c, t)
           \/ Reject(c) \/ SendDirectRaises(c)
  <2>1. /\ pc[c] # "apply"
        /\ UNCHANGED <<heap, arrivals, broker, accepted, finished, dropped>>
    BY <1>2 DEF SubmitFifo, ScoreTask, Reject, SendDirectRaises, gate, history
  <2>2. PICK label, t, s : label \in {"direct", "push", "idle"} /\ Goto(c, label, t, s)
    BY <1>2 DEF SubmitFifo, ScoreTask, Reject, SendDirectRaises, Rest
  <2>3. Alone(c) /\ pc'[c] # "apply"
    BY <1>1, <2>2, GotoDoes
  <2> QED
    BY <1>1, <2>1, <2>3, QuietLedger DEF Executes
<1>3. CASE Push(c)
  BY <1>3, PushLedger
<1>4. CASE SendDirect(c)
  BY <1>4, SendDirectLedger
<1>5. CASE Kick(c)
  BY <1>1, <1>5, PopLedger DEF Kick
<1>6. CASE Apply(c) \/ ApplyRaises(c)
  BY <1>1, <1>6, ApplyLedger
<1> QED
  BY <1>2, <1>3, <1>4, <1>5, <1>6 DEF ClientStep

LEMMA WorkerLedger ==
    ASSUME OnceDelivered, LedgerInv, TypeOK', NEW w \in Workers, WorkerStep(w)
    PROVE  LedgerInv'
<1>1. w \in Agents /\ TypeOK
  BY DEF Agents, LedgerInv
<1>2. CASE \E t \in Tasks : Receive(w, t)
  BY <1>2, ReceiveLedger
<1>3. CASE Prerun(w)
  <2>1. /\ Alone(w) /\ pc[w] = "received" /\ pc'[w] = "running" /\ job'[w] = job[w]
        /\ UNCHANGED <<heap, arrivals, broker, accepted, finished, dropped>>
    BY <1>1, <1>3, GotoDoes DEF Prerun, history
  <2> QED
    BY <1>1, <2>1, QuietLedger DEF Executes, Executing
<1>4. CASE CompletePop(w) \/ Fail(w) \/ Revoke(w) \/ Retry(w)
  BY <1>4, EndLedger
<1>5. CASE RecordStats(w) \/ RankerRecord(w) \/ RankerRecordRaises(w) \/ DispatchNothing(w)
  <2>1. /\ pc[w] \in {"stats", "record", "next"}
        /\ UNCHANGED <<heap, arrivals, broker, accepted, finished, dropped>>
    BY <1>5 DEF RecordStats, RankerRecord, RankerRecordRaises, DispatchNothing, gate, history
  <2>2. PICK label, t, s : label \in {"record", "next", "idle"} /\ Goto(w, label, t, s)
    BY <1>5 DEF RecordStats, RankerRecord, RankerRecordRaises, DispatchNothing, AfterRecord, Rest
  <2>3. Alone(w) /\ pc'[w] \in {"record", "next", "idle"}
    BY <1>1, <2>2, GotoDoes
  <2> QED
    BY <1>1, <2>1, <2>3, QuietLedger DEF Executes, Executing
<1>6. CASE DispatchNext(w)
  BY <1>1, <1>6, PopLedger DEF DispatchNext, history
<1>7. CASE Apply(w) \/ ApplyRaises(w)
  BY <1>1, <1>7, ApplyLedger
<1>8. CASE Redeliver(w)
  BY <1>8 DEF Redeliver, Abnormal, OnceDelivered
<1> QED
  BY <1>2, <1>3, <1>4, <1>5, <1>6, <1>7, <1>8 DEF WorkerStep

LEMMA StutterLedger == LedgerInv /\ UNCHANGED vars => LedgerInv'
BY StutterTypeOK DEF LedgerInv, NumbersAreFresh, Counted, Waiting, InHand, Running, Executing,
   vars, gate, threads, history

LEMMA InitLedger == Init => LedgerInv
<1> SUFFICES ASSUME Init PROVE LedgerInv
  OBVIOUS
<1>1. TypeOK
  BY InitTypeOK
<1>2. ASSUME NEW t \in Tasks PROVE Counted(t)
  <2>1. Waiting(t) = {} /\ InHand(t) = {} /\ Running(t) = {}
    BY GateAssumption DEF Init, Waiting, InHand, Running, Executing, Agents
  <2> QED
    BY <2>1, FS_EmptySet DEF Counted, Init
<1> QED
  BY <1>1, <1>2 DEF LedgerInv, NumbersAreFresh, Init

LEMMA LedgerInvariance == ASSUME OnceDelivered PROVE Spec => []LedgerInv
<1>1. LedgerInv /\ [Next]_vars => LedgerInv'
  <2> SUFFICES ASSUME LedgerInv, [Next]_vars PROVE LedgerInv'
    OBVIOUS
  <2>1. TypeOK'
    BY ClientTypeOK, WorkerTypeOK, StutterTypeOK DEF Next, LedgerInv
  <2> QED
    BY <2>1, ClientLedger, WorkerLedger, StutterLedger DEF Next
<1> QED
  BY <1>1, InitLedger, PTL DEF Spec

\* No accepted submission is lost or doubled, in every mode, with tasks that
\* fail, are revoked, retried or dropped by an apply_fn that raises: at every
\* moment each is in one of the places of the ledger.  Only a broker that
\* delivers twice adds executions nobody submitted.
THEOREM SubmissionsAreKept == ASSUME OnceDelivered PROVE Spec => []NothingLost
<1>1. LedgerInv => NothingLost
  BY DEF LedgerInv, Counted, NothingLost
<1> QED
  BY <1>1, LedgerInvariance, PTL

-----------------------------------------------------------------------------
(* The dispatch rights: a step changes the one of its thread and the one of  *)
(* the message it sends or receives.                                         *)

\* Thread a holds a right.
Entitled(a) == (a \in Clients /\ pc[a] = "apply") \/ (a \in Workers /\ pc[a] # "idle")

\* The rights of threads and of messages, told apart by their second component.
LEMMA RightsAre ==
    \A x : x \in Rights <=> \/ \E a \in Agents : Entitled(a) /\ x = <<a, 0>>
                            \/ \E t \in Tasks : \E n \in 1..broker[t] : x = <<t, n>>
BY DEF Rights, Entitled, Agents

\* A step of thread a that leaves the broker alone.
LEMMA ThreadRights ==
    ASSUME NEW a \in Agents, Alone(a), broker' = broker, IsFiniteSet(Rights)
    PROVE  /\ IsFiniteSet(Rights')
           /\ Cardinality(Rights) \in Nat /\ Cardinality(Rights') \in Nat
           /\ Cardinality(Rights') =
                Cardinality(Rights) + Count(Entitled(a)') - Count(Entitled(a))
<1>1. \A b \in Agents \ {a} : Entitled(b) <=> Entitled(b)'
  BY DEF Alone, Entitled, Agents
<1>2. \A x : x \in Rights' <=> \/ \E b \in Agents : Entitled(b)' /\ x = <<b, 0>>
                               \/ \E t \in Tasks : \E n \in 1..broker[t] : x = <<t, n>>
  BY DEF Rights, Entitled, Agents
<1> HIDE DEF Rights, Entitled
<1>3. \A x : x # <<a, 0>> => (x \in Rights <=> x \in Rights')
  BY <1>1, <1>2, RightsAre
<1>4. (<<a, 0>> \in Rights <=> Entitled(a)) /\ (<<a, 0>> \in Rights' <=> Entitled(a)')
  BY <1>2, RightsAre
<1>5. /\ Count(<<a, 0>> \in Rights) = Count(Entitled(a))
      /\ Count(<<a, 0>> \in Rights') = Count(Entitled(a)')
  BY <1>4 DEF Count
<1> QED
  BY <1>3, <1>5, OneMember

\* A step of thread a that also sends or receives a message of task p.
LEMMA MessageRights ==
    ASSUME NEW a \in Agents, Alone(a), NEW p \in Tasks, IsFiniteSet(Rights),
           broker \in [Tasks -> Nat], NEW n \in Nat \ {0},
           \/ broker[p] = n - 1 /\ broker' = [broker EXCEPT ![p] = n]
           \/ broker[p] = n /\ broker' = [broker EXCEPT ![p] = n - 1]
    PROVE  /\ IsFiniteSet(Rights')
           /\ Cardinality(Rights) \in Nat /\ Cardinality(Rights') \in Nat
           /\ Cardinality(Rights') =
                Cardinality(Rights) + Count(Entitled(a)') - Count(Entitled(a))
                    + broker'[p] - broker[p]
<1> DEFINE M == {x \in Rights : x # <<p, n>>} \cup (IF broker'[p] = n THEN {<<p, n>>} ELSE {})
<1>1. \A b \in Agents \ {a} : Entitled(b) <=> Entitled(b)'
  BY DEF Alone, Entitled, Agents
<1>2. \A x : x \in Rights' <=> \/ \E b \in Agents : Entitled(b)' /\ x = <<b, 0>>
                               \/ \E t \in Tasks : \E k \in 1..broker'[t] : x = <<t, k>>
  BY DEF Rights, Entitled, Agents
<1> HIDE DEF Rights, Entitled
<1>3. \A x : x # <<p, n>> => (x \in Rights <=> x \in M)
  OBVIOUS
<1>4. (<<p, n>> \in Rights <=> broker[p] = n) /\ (<<p, n>> \in M <=> broker'[p] = n)
  <2>1. <<p, n>> \in Rights <=> n \in 1..broker[p]
    BY RightsAre
  <2> QED
    BY <2>1
<1>5. Count(<<p, n>> \in M) - Count(<<p, n>> \in Rights) = broker'[p] - broker[p]
  BY <1>4 DEF Count
<1>6. /\ IsFiniteSet(M) /\ Cardinality(Rights) \in Nat /\ Cardinality(M) \in Nat
      /\ Cardinality(M) =
            Cardinality(Rights) + Count(<<p, n>> \in M) - Count(<<p, n>> \in Rights)
  BY <1>3, OneMember
<1>7. \A t \in Tasks, k \in Nat :
         <<t, k>> # <<p, n>> => (k \in 1..broker'[t] <=> k \in 1..broker[t])
  <2> TAKE t \in Tasks, k \in Nat
  <2>1. CASE t = p
    BY <2>1
  <2>2. CASE t # p
    BY <2>2
  <2> QED
    BY <2>1, <2>2
<1>8. \A x : x # <<a, 0>> => (x \in M <=> x \in Rights')
  <2> TAKE x
  <2>1. CASE x = <<p, n>>
    <3>1. x \in Rights' <=> n \in 1..broker'[p]
      BY <1>2, <2>1
    <3> QED
      BY <1>4, <2>1, <3>1
  <2>2. CASE x # <<p, n>>
    BY <1>1, <1>2, <1>3, <1>7, <2>2, RightsAre
  <2> QED
    BY <2>1, <2>2
<1>9. (<<a, 0>> \in M <=> Entitled(a)) /\ (<<a, 0>> \in Rights' <=> Entitled(a)')
  BY <1>2, <1>3, RightsAre
<1>10. /\ Count(<<a, 0>> \in M) = Count(Entitled(a))
       /\ Count(<<a, 0>> \in Rights') = Count(Entitled(a)')
  BY <1>9 DEF Count
<1> HIDE DEF M
<1>11. /\ IsFiniteSet(Rights') /\ Cardinality(Rights') \in Nat
       /\ Cardinality(Rights') =
            Cardinality(M) + Count(<<a, 0>> \in Rights') - Count(<<a, 0>> \in M)
  BY <1>6, <1>8, OneMember
<1>12. /\ Count(<<p, n>> \in M) \in Int /\ Count(<<p, n>> \in Rights) \in Int
       /\ Count(Entitled(a)') \in Int /\ Count(Entitled(a)) \in Int
       /\ broker'[p] \in Int /\ broker[p] \in Int
  BY DEF Count
<1> QED
  BY <1>5, <1>6, <1>10, <1>11, <1>12

\* In active mode a right is kept, passed on, given by a client's dispatch or a
\* second delivery, or lost, and lost only at an empty heap or abnormally.
RightsMove ==
    /\ IsFiniteSet(Rights')
    /\ Cardinality(Rights) \in Nat /\ Cardinality(Rights') \in Nat
    /\ \/ Cardinality(Rights') = Cardinality(Rights) /\ kicks' = kicks
       \/ Cardinality(Rights') = Cardinality(Rights) + 1 /\ kicks' = kicks + 1
       \/ Cardinality(Rights') = Cardinality(Rights) + 1 /\ kicks' = kicks /\ "redeliver" \in Events
       \/ /\ Cardinality(Rights') = Cardinality(Rights) - 1 /\ kicks' = kicks
          /\ (heap = {} \/ events' > events)

\* In active mode nothing is sent past the heap; in the others nothing waits.
HeapIsForActive ==
    /\ TypeOK
    /\ mode = "active" => \A a \in Agents : pc[a] # "direct"
    /\ mode # "active" => heap = {} /\ \A c \in Clients : pc[c] # "push"

RightsInv == HeapIsForActive /\ (mode = "active" => IsFiniteSet(Rights))

\* A right kept, passed on or lost by a step of one thread.
LEMMA ThreadRightsMove ==
    ASSUME NEW a \in Agents, Alone(a), broker' = broker, IsFiniteSet(Rights), kicks' = kicks,
           \/ Entitled(a) <=> Entitled(a)'
           \/ Entitled(a) /\ ~Entitled(a)' /\ (heap = {} \/ events' > events)
    PROVE  RightsMove
<1>1. /\ IsFiniteSet(Rights')
      /\ Cardinality(Rights) \in Nat /\ Cardinality(Rights') \in Nat
      /\ Cardinality(Rights') = Cardinality(Rights) + Count(Entitled(a)') - Count(Entitled(a))
  BY ThreadRights
<1> HIDE DEF Entitled
<1>2. CASE Entitled(a) <=> Entitled(a)'
  <2>1. Count(Entitled(a)') = Count(Entitled(a)) /\ Count(Entitled(a)) \in Int
    BY <1>2 DEF Count
  <2> QED
    BY <1>1, <2>1 DEF RightsMove
<1>3. CASE Entitled(a) /\ ~Entitled(a)' /\ (heap = {} \/ events' > events)
  <2>1. Count(Entitled(a)') = 0 /\ Count(Entitled(a)) = 1
    BY <1>3 DEF Count
  <2>2. Cardinality(Rights') = Cardinality(Rights) - 1
    BY <1>1, <2>1
  <2> QED
    BY <1>1, <1>3, <2>2, Zenon DEF RightsMove
<1> QED
  BY <1>2, <1>3

\* dispatch_next() by a client gives a right, by a worker it passes one on.
LEMMA PopRightsMove ==
    ASSUME TypeOK, IsFiniteSet(Rights), NEW a \in Agents, Pop(a), broker' = broker,
           \/ a \in Clients /\ pc[a] = "idle" /\ kicks' = kicks + 1
           \/ a \in Workers /\ pc[a] = "next" /\ kicks' = kicks
    PROVE  RightsMove
<1>1. PICK e \in heap : Goto(a, "apply", e.tid, e.score)
  BY DEF Pop
<1>2. Alone(a) /\ pc'[a] = "apply"
  BY <1>1, GotoDoes
<1>3. CASE a \in Workers /\ pc[a] = "next" /\ kicks' = kicks
  BY <1>2, <1>3, ThreadRightsMove DEF Entitled
<1>4. CASE a \in Clients /\ pc[a] = "idle" /\ kicks' = kicks + 1
  <2>1. Count(Entitled(a)') = 1 /\ Count(Entitled(a)) = 0
    BY <1>2, <1>4, GateAssumption DEF Entitled, Count
  <2>2. /\ IsFiniteSet(Rights')
        /\ Cardinality(Rights) \in Nat /\ Cardinality(Rights') \in Nat
        /\ Cardinality(Rights') = Cardinality(Rights) + Count(Entitled(a)') - Count(Entitled(a))
    BY <1>2, ThreadRights
  <2> QED
    BY <1>4, <2>1, <2>2 DEF RightsMove
<1> QED
  BY <1>3, <1>4

\* apply_fn: the right goes with the message, or is lost abnormally.
LEMMA ApplyRightsMove ==
    ASSUME TypeOK, IsFiniteSet(Rights), NEW a \in Agents, Apply(a) \/ ApplyRaises(a)
    PROVE  RightsMove
<1>1. Alone(a) /\ pc[a] = "apply" /\ pc'[a] = "idle" /\ kicks' = kicks
  BY GotoDoes DEF Apply, ApplyRaises, Rest, history
<1>2. Entitled(a) /\ ~Entitled(a)'
  BY <1>1, GateAssumption DEF Entitled, Agents
<1>3. CASE Apply(a)
  <2>1. PICK p \in Tasks : p = job[a]
    BY <1>1 DEF TypeOK
  <2>2. PICK n \in Nat \ {0} : n = broker[p] + 1
    BY DEF TypeOK
  <2>3. broker' = [broker EXCEPT ![p] = n] /\ broker[p] = n - 1 /\ broker'[p] = n
    BY <1>3, <2>1, <2>2 DEF Apply, TypeOK
  <2>4. /\ IsFiniteSet(Rights')
        /\ Cardinality(Rights) \in Nat /\ Cardinality(Rights') \in Nat
        /\ Cardinality(Rights') = Cardinality(Rights) + Count(Entitled(a)') - Count(Entitled(a))
                                    + broker'[p] - broker[p]
    BY <1>1, <2>3, MessageRights DEF TypeOK
  <2>5. Count(Entitled(a)') = 0 /\ Count(Entitled(a)) = 1
    BY <1>2 DEF Count
  <2> QED
    BY <1>1, <2>3, <2>4, <2>5 DEF RightsMove
<1>4. CASE ApplyRaises(a)
  <2>1. broker' = broker /\ events' > events
    BY <1>4 DEF ApplyRaises, Abnormal, TypeOK
  <2> QED
    BY <1>1, <1>2, <2>1, ThreadRightsMove
<1> QED
  BY <1>3, <1>4

\* A worker takes the right with the message, and gives it back with a retry.
LEMMA MessageRightsMove ==
    ASSUME TypeOK, IsFiniteSet(Rights), NEW w \in Workers,
           (\E t \in Tasks : Receive(w, t)) \/ Retry(w) \/ Redeliver(w)
    PROVE  RightsMove
<1>1. w \in Agents /\ w \notin Clients
  BY GateAssumption DEF Agents
<1>2. CASE \E t \in Tasks : Receive(w, t)
  <2>1. PICK p \in Tasks : Receive(w, p)
    BY <1>2
  <2>2. Alone(w) /\ pc[w] = "idle" /\ pc'[w] = "received" /\ kicks' = kicks
    BY <1>1, <2>1, GotoDoes DEF Receive, history
  <2>3. PICK n \in Nat \ {0} : n = broker[p]
    BY <2>1 DEF Receive, TypeOK
  <2>4. broker' = [broker EXCEPT ![p] = n - 1] /\ broker'[p] = n - 1
    BY <2>1, <2>3 DEF Receive, TypeOK
  <2>5. /\ IsFiniteSet(Rights')
        /\ Cardinality(Rights) \in Nat /\ Cardinality(Rights') \in Nat
        /\ Cardinality(Rights') = Cardinality(Rights) + Count(Entitled(w)') - Count(Entitled(w))
                                    + broker'[p] - broker[p]
    BY <1>1, <2>2, <2>3, <2>4, MessageRights DEF TypeOK
  <2>6. Count(Entitled(w)') = 1 /\ Count(Entitled(w)) = 0
    BY <1>1, <2>2 DEF Entitled, Count
  <2> QED
    BY <2>2, <2>3, <2>4, <2>5, <2>6 DEF RightsMove
<1>3. CASE Retry(w) \/ Redeliver(w)
  <2>1. /\ Alone(w) /\ Executing(w) /\ kicks' = kicks
        /\ \/ pc'[w] = "idle"
           \/ pc'[w] = pc[w] /\ "redeliver" \in Events
    <3>1. CASE Retry(w)
      BY <1>1, <3>1, GotoDoes DEF Retry, Rest, Executing
    <3>2. CASE Redeliver(w)
      BY <3>2 DEF Redeliver, Alone, threads, Abnormal
    <3> QED
      BY <1>3, <3>1, <3>2
  <2>2. PICK p \in Tasks : p = job[w]
    BY <1>1, <2>1 DEF TypeOK, Executing
  <2>3. PICK n \in Nat \ {0} : n = broker[p] + 1
    BY DEF TypeOK
  <2>4. broker' = [broker EXCEPT ![p] = n] /\ broker[p] = n - 1 /\ broker'[p] = n
    BY <1>3, <2>2, <2>3 DEF Retry, Redeliver, TypeOK
  <2>5. /\ IsFiniteSet(Rights')
        /\ Cardinality(Rights) \in Nat /\ Cardinality(Rights') \in Nat
        /\ Cardinality(Rights') = Cardinality(Rights) + Count(Entitled(w)') - Count(Entitled(w))
                                    + broker'[p] - broker[p]
    BY <1>1, <2>1, <2>4, MessageRights DEF TypeOK
  <2>6. Count(Entitled(w)) = 1
    BY <2>1 DEF Entitled, Count, Executing
  <2>7. \/ Count(Entitled(w)') = 0
        \/ Count(Entitled(w)') = 1 /\ "redeliver" \in Events
    BY <1>1, <2>1 DEF Entitled, Count, Executing
  <2> QED
    BY <2>1, <2>4, <2>5, <2>6, <2>7 DEF RightsMove
<1> QED
  BY <1>2, <1>3

LEMMA ClientRightsMove ==
    ASSUME TypeOK, \A a \in Agents : pc[a] # "direct", IsFiniteSet(Rights),
           NEW c \in Clients, ClientStep(c)
    PROVE  RightsMove
<1>1. c \in Agents /\ c \notin Workers
  BY GateAssumption DEF Agents
<1>2. CASE \/ \E t \in Tasks : SubmitFifo(c, t)
           \/ \E t \in Tasks : ScoreTask(c, t)
           \/ Reject(c) \/ Push(c)
  <2>1. pc[c] # "apply" /\ broker' = broker /\ kicks' = kicks
    BY <1>2 DEF SubmitFifo, ScoreTask, Reject, Push, history
  <2>2. PICK label, t, s : label \in {"direct", "push", "idle"} /\ Goto(c, label, t, s)
    BY <1>2 DEF SubmitFifo, ScoreTask, Reject, Push, Rest
  <2>3. Alone(c) /\ pc'[c] # "apply"
    BY <1>1, <2>2, GotoDoes
  <2> QED
    BY <1>1, <2>1, <2>3, ThreadRightsMove DEF Entitled
<1>3. CASE SendDirect(c) \/ SendDirectRaises(c)
  BY <1>1, <1>3 DEF SendDirect, SendDirectRaises
<1>4. CASE Kick(c)
  BY <1>1, <1>4, PopRightsMove DEF Kick
<1>5. CASE Apply(c) \/ ApplyRaises(c)
  BY <1>1, <1>5, ApplyRightsMove
<1> QED
  BY <1>2, <1>3, <1>4, <1>5 DEF ClientStep

LEMMA WorkerRightsMove ==
    ASSUME TypeOK, mode = "active", IsFiniteSet(Rights), NEW w \in Workers, WorkerStep(w)
    PROVE  RightsMove
<1>1. w \in Agents
  BY DEF Agents
<1>2. CASE (\E t \in Tasks : Receive(w, t)) \/ Retry(w) \/ Redeliver(w)
  BY <1>2, MessageRightsMove
<1>3. CASE Prerun(w) \/ CompletePop(w) \/ RecordStats(w) \/ RankerRecord(w)
  <2>1. pc[w] # "idle" /\ broker' = broker /\ kicks' = kicks
    BY <1>3 DEF Prerun, CompletePop, RecordStats, RankerRecord, history
  <2>2. PICK label, t, s : label \in {"running", "stats", "record", "next"} /\ Goto(w, label, t, s)
    BY <1>3 DEF Prerun, CompletePop, RecordStats, RankerRecord, AfterRecord
  <2>3. Alone(w) /\ pc'[w] # "idle"
    BY <1>1, <2>2, GotoDoes
  <2> QED
    BY <1>1, <2>1, <2>3, ThreadRightsMove DEF Entitled
<1>4. CASE RankerRecordRaises(w) \/ DispatchNothing(w) \/ Fail(w) \/ Revoke(w)
  <2>1. /\ pc[w] # "idle" /\ broker' = broker /\ kicks' = kicks
        /\ (heap = {} \/ events' > events)
    BY <1>4 DEF RankerRecordRaises, DispatchNothing, Fail, Revoke, Cleanup, Abnormal, Executing,
       history, TypeOK
  <2>2. Alone(w) /\ pc'[w] = "idle"
    BY <1>1, <1>4, GotoDoes DEF RankerRecordRaises, DispatchNothing, Fail, Revoke, Cleanup, Rest
  <2>3. Entitled(w) /\ ~Entitled(w)'
    BY <2>1, <2>2, GateAssumption DEF Entitled
  <2> QED
    BY <1>1, <2>1, <2>2, <2>3, ThreadRightsMove
<1>5. CASE DispatchNext(w)
  BY <1>1, <1>5, PopRightsMove DEF DispatchNext, history
<1>6. CASE Apply(w) \/ ApplyRaises(w)
  BY <1>1, <1>6, ApplyRightsMove
<1> QED
  BY <1>2, <1>3, <1>4, <1>5, <1>6 DEF WorkerStep

\* In active mode scoring leads to the heap, never past it.
LEMMA NothingIsSentPast ==
    ASSUME TypeOK, mode = "active", \A a \in Agents : pc[a] # "direct", [Next]_vars
    PROVE  \A a \in Agents : pc'[a] # "direct"
<1>1. ASSUME NEW c \in Clients, ClientStep(c) PROVE \A a \in Agents : pc'[a] # "direct"
  <2>1. c \in Agents
    BY DEF Agents
  <2>2. PICK label, t, s : label \in {"push", "idle", "apply"} /\ Goto(c, label, t, s)
    BY <1>1, <2>1 DEF ClientStep, SubmitFifo, ScoreTask, Reject, Push, SendDirect, SendDirectRaises,
       Kick, Pop, Apply, ApplyRaises, Rest
  <2> QED
    BY <2>1, <2>2, GotoDoes DEF Alone
<1>2. ASSUME NEW w \in Workers, WorkerStep(w) PROVE \A a \in Agents : pc'[a] # "direct"
  <2>1. w \in Agents
    BY DEF Agents
  <2>2. CASE Redeliver(w)
    BY <2>2 DEF Redeliver, threads
  <2>3. CASE ~Redeliver(w)
    <3>1. PICK label, t, s : label \in WorkerPCs /\ Goto(w, label, t, s)
      BY <1>2, <2>3 DEF WorkerStep, Receive, Prerun, CompletePop, AfterRecord, RecordStats,
         RankerRecord, RankerRecordRaises, DispatchNext, DispatchNothing, Pop, Apply, ApplyRaises,
         Fail, Revoke, Cleanup, Retry, Rest, WorkerPCs
    <3> QED
      BY <2>1, <3>1, GotoDoes DEF Alone, WorkerPCs
  <2> QED
    BY <2>2, <2>3
<1>3. CASE UNCHANGED vars
  BY <1>3 DEF vars, threads
<1> QED
  BY <1>1, <1>2, <1>3 DEF Next

LEMMA StutterRightsMove ==
    ASSUME IsFiniteSet(Rights), UNCHANGED vars
    PROVE  RightsMove
<1>1. Rights' = Rights
  BY DEF Rights, vars, threads
<1>2. kicks' = kicks
  BY DEF vars, history
<1> QED
  BY <1>1, <1>2, FS_CardinalityType DEF RightsMove

LEMMA ActiveRightsMove ==
    ASSUME RightsInv, mode = "active", [Next]_vars
    PROVE  RightsMove
BY ClientRightsMove, WorkerRightsMove, StutterRightsMove DEF RightsInv, HeapIsForActive, Next

LEMMA InitRights == Init => Rights = {} /\ IsFiniteSet(Rights) /\ Cardinality(Rights) = 0
<1> SUFFICES ASSUME Init PROVE Rights = {} /\ IsFiniteSet(Rights) /\ Cardinality(Rights) = 0
  OBVIOUS
<1>1. \A a \in Agents : ~Entitled(a)
  BY DEF Init, Entitled, Agents
<1>2. \A t \in Tasks : 1..broker[t] = {}
  BY DEF Init
<1>3. Rights = {}
  BY <1>1, <1>2, RightsAre
<1> QED
  BY <1>3, FS_EmptySet

LEMMA NextRightsInv == RightsInv /\ [Next]_vars => RightsInv'
<1> SUFFICES ASSUME RightsInv, [Next]_vars PROVE RightsInv'
  OBVIOUS
<1>1. TypeOK'
  BY ClientTypeOK, WorkerTypeOK, StutterTypeOK DEF Next, RightsInv, HeapIsForActive
<1>2. mode' = mode
  BY ModeIsFixed
<1>3. mode = "active" => \A a \in Agents : pc'[a] # "direct"
  BY NothingIsSentPast DEF RightsInv, HeapIsForActive
<1>4. mode # "active" => heap' = {} /\ \A c \in Clients : pc'[c] # "push"
  BY HeapStaysEmpty DEF RightsInv, HeapIsForActive
<1>5. mode = "active" => IsFiniteSet(Rights')
  BY ActiveRightsMove DEF RightsMove
<1> QED
  BY <1>1, <1>2, <1>3, <1>4, <1>5 DEF RightsInv, HeapIsForActive

LEMMA InitRightsInv == Init => RightsInv
BY InitTypeOK, InitRights, GateAssumption DEF RightsInv, HeapIsForActive, Init, Agents

\* Rights counted against the dispatches clients started.
WindowInv == RightsInv /\ WindowIsKept

\* In active mode the gate never lets more tasks out than dispatches were
\* started from outside, whatever fails, is revoked or retried, and however the
\* handlers of several workers interleave; a second delivery would add one.
THEOREM WindowStaysKept == ASSUME OnceDelivered PROVE Spec => []WindowIsKept
<1>1. Init => WindowInv
  BY InitRightsInv, InitRights DEF WindowInv, WindowIsKept, Init
<1>2. WindowInv /\ [Next]_vars => WindowInv'
  <2> SUFFICES ASSUME WindowInv, [Next]_vars PROVE WindowInv'
    OBVIOUS
  <2>1. RightsInv /\ RightsInv' /\ mode' = mode
    BY NextRightsInv, ModeIsFixed DEF WindowInv
  <2>2. ASSUME mode = "active" PROVE Cardinality(Rights') <= kicks'
    <3>1. RightsMove
      BY <2>1, <2>2, ActiveRightsMove
    <3>2. Cardinality(Rights) <= kicks /\ kicks \in Nat
      BY <2>1, <2>2 DEF WindowInv, WindowIsKept, RightsInv, HeapIsForActive, TypeOK
    <3> QED
      BY <3>1, <3>2 DEF RightsMove, OnceDelivered
  <2> QED
    BY <2>1, <2>2 DEF WindowInv, WindowIsKept
<1>3. WindowInv => WindowIsKept
  BY DEF WindowInv
<1> QED
  BY <1>1, <1>2, <1>3, PTL DEF Spec

\* A dispatch right dies only at an empty heap or by an abnormal event: no
\* completion, in any interleaving, silently fails to start the next task.
THEOREM RightsOnlyDieIdle == Spec => RightsDieIdle
<1>1. RightsInv /\ [Next]_vars =>
         [Cardinality(Rights') < Cardinality(Rights) => heap = {} \/ events' > events]_vars
  <2> SUFFICES ASSUME RightsInv, [Next]_vars, Cardinality(Rights') < Cardinality(Rights), heap # {}
               PROVE  events' > events
    OBVIOUS
  <2>1. mode = "active"
    BY DEF RightsInv, HeapIsForActive
  <2>2. RightsMove
    BY <2>1, ActiveRightsMove
  <2> HIDE DEF Rights
  <2> QED
    BY <2>2 DEF RightsMove
<1> QED
  BY <1>1, InitRightsInv, NextRightsInv, PTL DEF Spec, RightsDieIdle

-----------------------------------------------------------------------------
(* Every success is measured: the entry is there when the handler looks.     *)

Measuring(t) == {w \in Workers : pc[w] \in {"stats", "record"} /\ job[w] = t}

Measures(a, t) == a \in Workers /\ pc[a] \in {"stats", "record"} /\ job[a] = t

\* The tasks SuccessIsMeasured speaks of.
Watched(t) == mode = "active" \/ (mode = "shadow" /\ accepted[t] <= 1)

\* No other worker may end the execution that is to find its entry.
RunsAlone(t) == \A v, w \in Running(t) : v = w

EntryIsStarted(t) == \A w \in Running(t) : pc[w] = "running" => registry[t] = "started"

Tallied(t) == succeeded[t] = telemetry[t] + Cardinality(Measuring(t))

MeasureInv ==
    /\ GateInv
    /\ LedgerInv
    /\ \A t \in Tasks : IsFiniteSet(Measuring(t)) /\ (Watched(t) => EntryIsStarted(t) /\ Tallied(t))

\* In active mode an id runs once; in shadow mode one accepted once runs once.
LEMMA WatchedRunsAlone ==
    ASSUME GateInv, LedgerInv, NEW t \in Tasks, Watched(t)
    PROVE  RunsAlone(t)
<1>1. CASE mode = "active"
  BY <1>1 DEF GateInv, ActiveInv, OncePerId, RunsAlone
<1>2. CASE mode = "shadow" /\ accepted[t] <= 1
  <2> SUFFICES ASSUME NEW v \in Running(t), NEW w \in Running(t), v # w PROVE FALSE
    BY DEF RunsAlone
  <2>1. IsFiniteSet(Running(t)) /\ IsFiniteSet(Waiting(t)) /\ IsFiniteSet(InHand(t))
    BY DEF LedgerInv, Counted
  <2>2. IsFiniteSet({v}) /\ Cardinality({v}) = 1
    BY FS_Singleton
  <2>3. Cardinality({v} \cup {w}) = 2
    <3>1. w \notin {v}
      OBVIOUS
    <3>2. Cardinality({v} \cup {w}) = Cardinality({v}) + 1
      BY <2>2, <3>1, FS_AddElement, Zenon
    <3> QED
      BY <2>2, <3>2
  <2>4. {v} \cup {w} \in SUBSET Running(t)
    OBVIOUS
  <2>5. 2 <= Cardinality(Running(t))
    BY <2>1, <2>3, <2>4, FS_Subset
  <2>6. /\ Cardinality(Waiting(t)) \in Nat /\ Cardinality(InHand(t)) \in Nat
        /\ Cardinality(Running(t)) \in Nat
    BY <2>1, FS_CardinalityType
  <2>7. /\ accepted[t] \in Nat /\ broker[t] \in Nat /\ finished[t] \in Nat /\ dropped[t] \in Nat
    BY DEF LedgerInv, TypeOK
  <2>8. accepted[t] = Cardinality(Waiting(t)) + Cardinality(InHand(t)) + broker[t]
                        + Cardinality(Running(t)) + finished[t] + dropped[t]
    BY DEF LedgerInv, Counted
  <2> QED
    BY <1>2, <2>5, <2>6, <2>7, <2>8
<1> QED
  BY <1>1, <1>2 DEF Watched

LEMMA MeasuringCount ==
    ASSUME NEW a \in Agents, Alone(a), NEW t \in Tasks, IsFiniteSet(Measuring(t))
    PROVE  /\ IsFiniteSet(Measuring(t)')
           /\ Cardinality(Measuring(t)) \in Nat /\ Cardinality(Measuring(t)') \in Nat
           /\ Cardinality(Measuring(t)') =
                Cardinality(Measuring(t)) + Count(Measures(a, t)') - Count(Measures(a, t))
<1>1. \A b : b # a => (b \in Measuring(t) <=> b \in Measuring(t)')
  BY DEF Measuring, Alone, Agents
<1>2. (a \in Measuring(t) <=> Measures(a, t)) /\ (a \in Measuring(t)' <=> Measures(a, t)')
  BY DEF Measuring, Measures
<1>3. /\ Count(a \in Measuring(t)) = Count(Measures(a, t))
      /\ Count(a \in Measuring(t)') = Count(Measures(a, t)')
  BY <1>2 DEF Count
<1> QED
  BY <1>1, <1>3, OneMember

\* What a step of thread a must do for its task and for the others.
Accounts(a) ==
    \A t \in Tasks :
        Watched(t)' =>
            /\ Watched(t)
            /\ EntryIsStarted(t)'
            /\ succeeded'[t] - telemetry'[t] =
                   succeeded[t] - telemetry[t] + Count(Measures(a, t)') - Count(Measures(a, t))

LEMMA Accounted ==
    ASSUME MeasureInv, GateInv', LedgerInv', NEW a \in Agents, Alone(a), Accounts(a)
    PROVE  MeasureInv'
<1> SUFFICES ASSUME NEW t \in Tasks
             PROVE  IsFiniteSet(Measuring(t)') /\ (Watched(t)' => EntryIsStarted(t)' /\ Tallied(t)')
  BY DEF MeasureInv
<1>1. /\ IsFiniteSet(Measuring(t)')
      /\ Cardinality(Measuring(t)) \in Nat /\ Cardinality(Measuring(t)') \in Nat
      /\ Cardinality(Measuring(t)') =
            Cardinality(Measuring(t)) + Count(Measures(a, t)') - Count(Measures(a, t))
  BY MeasuringCount DEF MeasureInv
<1>2. /\ succeeded[t] \in Nat /\ telemetry[t] \in Nat
      /\ succeeded'[t] \in Nat /\ telemetry'[t] \in Nat
  BY DEF MeasureInv, LedgerInv, TypeOK
<1>3. Count(Measures(a, t)') \in Int /\ Count(Measures(a, t)) \in Int
  BY DEF Count
<1>4. ASSUME Watched(t)' PROVE EntryIsStarted(t)' /\ Tallied(t)'
  <2>1. /\ EntryIsStarted(t)' /\ Tallied(t)
        /\ succeeded'[t] - telemetry'[t] =
               succeeded[t] - telemetry[t] + Count(Measures(a, t)') - Count(Measures(a, t))
    BY <1>4 DEF Accounts, MeasureInv
  <2> HIDE DEF Measuring, Measures
  <2>2. succeeded'[t] = telemetry'[t] + Cardinality(Measuring(t)')
    BY <1>1, <1>2, <1>3, <2>1 DEF Tallied
  <2> QED
    BY <2>1, <2>2 DEF Tallied
<1> QED
  BY <1>1, <1>4

\* A step that starts, ends and measures nothing.
LEMMA UnmeasuredStep ==
    ASSUME MeasureInv, NEW a \in Agents, Alone(a),
           mode' = mode, \A t \in Tasks : accepted[t] <= accepted'[t] /\ accepted'[t] \in Nat,
           \A t \in Tasks : registry[t] = "started" => registry'[t] = "started",
           pc'[a] # "running" \/ registry'[job'[a]] = "started",
           pc[a] \notin {"stats", "record"}, pc'[a] \notin {"stats", "record"},
           UNCHANGED <<succeeded, telemetry>>
    PROVE  Accounts(a)
<1> SUFFICES ASSUME NEW t \in Tasks, Watched(t)'
             PROVE  /\ Watched(t)
                    /\ EntryIsStarted(t)'
                    /\ succeeded'[t] - telemetry'[t] =
                         succeeded[t] - telemetry[t] + Count(Measures(a, t)') - Count(Measures(a, t))
  BY DEF Accounts
<1>1. accepted[t] \in Nat /\ succeeded[t] \in Nat /\ telemetry[t] \in Nat
  BY DEF MeasureInv, LedgerInv, TypeOK
<1>2. Watched(t)
  BY <1>1 DEF Watched
<1>3. EntryIsStarted(t)
  BY <1>2 DEF MeasureInv
<1>4. EntryIsStarted(t)'
  <2> SUFFICES ASSUME NEW w \in Running(t)', pc'[w] = "running" PROVE registry'[t] = "started"
    BY DEF EntryIsStarted
  <2>1. w \in Workers /\ w \in Agents /\ job'[w] = t
    BY DEF Running, Agents
  <2>2. CASE w = a
    BY <2>1, <2>2
  <2>3. CASE w # a
    <3>1. w \in Running(t) /\ pc[w] = "running"
      BY <2>1, <2>3 DEF Running, Executing, Alone
    <3> QED
      BY <1>3, <3>1 DEF EntryIsStarted
  <2> QED
    BY <2>2, <2>3
<1>5. Count(Measures(a, t)') = 0 /\ Count(Measures(a, t)) = 0
  BY DEF Count, Measures
<1> QED
  BY <1>1, <1>2, <1>4, <1>5

\* An outcome: nobody else runs the task whose entry is removed.
LEMMA OutcomeStarted ==
    ASSUME MeasureInv, NEW w \in Workers, OutcomeOf(w), accepted' = accepted,
           NEW t \in Tasks, Watched(t)'
    PROVE  Watched(t) /\ EntryIsStarted(t)'
<1>1. Watched(t)
  BY DEF Watched, OutcomeOf
<1>2. EntryIsStarted(t) /\ RunsAlone(t)
  BY <1>1, WatchedRunsAlone DEF MeasureInv
<1>3. ASSUME NEW v \in Running(t)', pc'[v] = "running" PROVE registry'[t] = "started"
  <2>1. v \in Workers /\ v \in Agents /\ job'[v] = t /\ Executing(v)'
    BY <1>3 DEF Running, Agents
  <2>2. v # w
    BY <2>1 DEF OutcomeOf
  <2>3. v \in Running(t) /\ pc[v] = "running"
    BY <1>3, <2>1, <2>2 DEF Running, Executing, OutcomeOf
  <2>4. w \notin Running(t)
    BY <1>2, <2>2, <2>3 DEF RunsAlone
  <2>5. job[w] # t
    BY <2>4 DEF Running, OutcomeOf
  <2>6. registry[t] = "started" /\ registry \in [Ids -> {"absent", "registered", "started"}]
    BY <1>2, <2>3 DEF EntryIsStarted, MeasureInv, LedgerInv, TypeOK
  <2> QED
    BY <2>5, <2>6, GateAssumption DEF OutcomeOf
<1> QED
  BY <1>1, <1>3 DEF EntryIsStarted

\* task_success: it finds the entry of a watched task, and goes on to measure.
LEMMA CompletionAccounts ==
    ASSUME PassesIds, MeasureInv, NEW w \in Workers, CompletePop(w)
    PROVE  Accounts(w) /\ Alone(w)
<1>1. w \in Agents /\ TypeOK
  BY DEF Agents, MeasureInv, LedgerInv
<1>2. OutcomeOf(w)
  BY <1>1, OutcomeSteps
<1>3. PICK p \in Tasks : p = job[w]
  BY <1>1, GateAssumption DEF CompletePop, TypeOK
<1>4. /\ pc[w] = "running" /\ accepted' = accepted /\ telemetry' = telemetry
      /\ succeeded' = [succeeded EXCEPT ![p] = @ + 1]
  BY <1>3 DEF CompletePop
<1>5. PICK label, u, s :
         /\ label \in {"stats", "next", "idle"}
         /\ Goto(w, label, u, s) /\ (label = "stats" => u = p)
  BY <1>3 DEF CompletePop, AfterRecord
<1>6. Alone(w) /\ pc'[w] = label /\ job'[w] = u
  BY <1>1, <1>5, GotoDoes
<1>7. registry[p] = "started" => pc'[w] = "stats" /\ job'[w] = p
  <2>1. registry[p] = "started" => Goto(w, "stats", p, NoScore)
    BY <1>3 DEF CompletePop, PassesIds
  <2> QED
    BY <1>1, <2>1, GotoDoes
<1>8. ASSUME NEW t \in Tasks, Watched(t)'
      PROVE  succeeded'[t] - telemetry'[t] =
                 succeeded[t] - telemetry[t] + Count(Measures(w, t)') - Count(Measures(w, t))
  <2>1. succeeded \in [Tasks -> Nat] /\ telemetry[t] \in Nat
    BY <1>1 DEF TypeOK
  <2>2. Count(Measures(w, t)) = 0
    BY <1>4 DEF Count, Measures
  <2>3. CASE t = p
    <3>1. Watched(p)
      BY <1>2, <1>8, <2>3, OutcomeStarted, <1>4
    <3>2. w \in Running(p)
      BY <1>3, <1>4 DEF Running, Executing
    <3>3. registry[p] = "started"
      BY <1>4, <3>1, <3>2 DEF MeasureInv, EntryIsStarted
    <3>4. Count(Measures(w, t)') = 1
      BY <1>7, <2>3, <3>3 DEF Count, Measures
    <3> QED
      BY <1>4, <2>1, <2>2, <2>3, <3>4
  <2>4. CASE t # p
    <3>1. Count(Measures(w, t)') = 0
      BY <1>5, <1>6, <2>4 DEF Count, Measures
    <3> QED
      BY <1>4, <2>1, <2>2, <2>4, <3>1
  <2> QED
    BY <2>3, <2>4
<1> QED
  BY <1>2, <1>4, <1>6, <1>8, OutcomeStarted DEF Accounts

\* task_failure and task_revoked: nothing is counted.
LEMMA CleanupAccounts ==
    ASSUME PassesIds, MeasureInv, NEW w \in Workers, Fail(w) \/ Revoke(w)
    PROVE  Accounts(w) /\ Alone(w)
<1>1. w \in Agents /\ TypeOK
  BY DEF Agents, MeasureInv, LedgerInv
<1>2. OutcomeOf(w)
  BY <1>1, OutcomeSteps
<1>3. Executing(w) /\ UNCHANGED <<accepted, succeeded, telemetry>>
  BY DEF Fail, Revoke, Cleanup, Executing
<1>4. Alone(w) /\ pc'[w] = "idle"
  BY <1>1, GotoDoes DEF Fail, Revoke, Cleanup, Rest
<1>5. ASSUME NEW t \in Tasks
      PROVE  succeeded'[t] - telemetry'[t] =
                 succeeded[t] - telemetry[t] + Count(Measures(w, t)') - Count(Measures(w, t))
  <2>1. succeeded[t] \in Nat /\ telemetry[t] \in Nat
    BY <1>1 DEF TypeOK
  <2>2. Count(Measures(w, t)) = 0 /\ Count(Measures(w, t)') = 0
    BY <1>3, <1>4 DEF Count, Measures, Executing
  <2> QED
    BY <1>3, <2>1, <2>2
<1> QED
  BY <1>2, <1>3, <1>4, <1>5, OutcomeStarted DEF Accounts

\* What follows a measured success: the statistics, then the record.
LEMMA RecordAccounts ==
    ASSUME MeasureInv, NEW w \in Workers,
           RecordStats(w) \/ RankerRecord(w) \/ RankerRecordRaises(w)
    PROVE  Accounts(w) /\ Alone(w)
<1>1. w \in Agents /\ TypeOK
  BY DEF Agents, MeasureInv, LedgerInv
<1>2. /\ pc[w] \in {"stats", "record"}
      /\ UNCHANGED <<mode, registry, accepted, succeeded>>
  BY DEF RecordStats, RankerRecord, RankerRecordRaises, gate, history
<1>3. PICK p \in Tasks : p = job[w]
  BY <1>1, <1>2 DEF TypeOK
<1>4. PICK label, u, s :
         /\ label \in {"record", "next", "idle"}
         /\ Goto(w, label, u, s)
         /\ \/ /\ pc[w] = "stats" /\ telemetry' = telemetry
               /\ mode # "fifo" => label = "record" /\ u = p
            \/ /\ pc[w] = "record" /\ telemetry' = [telemetry EXCEPT ![p] = @ + 1]
               /\ label # "record"
  <2>1. CASE RecordStats(w)
    BY <1>3, <2>1 DEF RecordStats, AfterRecord, history
  <2>2. CASE RankerRecord(w) \/ RankerRecordRaises(w)
    BY <1>3, <2>2 DEF RankerRecord, RankerRecordRaises, AfterRecord, Rest
  <2> QED
    BY <2>1, <2>2
<1>5. Alone(w) /\ pc'[w] = label /\ job'[w] = u
  BY <1>1, <1>4, GotoDoes
<1>6. ASSUME NEW t \in Tasks, Watched(t)' PROVE Watched(t) /\ EntryIsStarted(t)'
  <2>1. Watched(t)
    BY <1>2, <1>6 DEF Watched
  <2>2. \A v \in Running(t)' : v \in Running(t) /\ pc'[v] = pc[v]
    BY <1>4, <1>5 DEF Running, Executing, Alone, Agents
  <2> QED
    BY <1>2, <2>1, <2>2 DEF EntryIsStarted, MeasureInv
<1>7. ASSUME NEW t \in Tasks, Watched(t)'
      PROVE  succeeded'[t] - telemetry'[t] =
                 succeeded[t] - telemetry[t] + Count(Measures(w, t)') - Count(Measures(w, t))
  <2>1. succeeded[t] \in Nat /\ telemetry \in [Tasks -> Nat] /\ mode # "fifo"
    BY <1>1, <1>2, <1>7 DEF TypeOK, Watched
  <2>2. Count(Measures(w, t)) = Count(t = p)
    BY <1>2, <1>3 DEF Count, Measures
  <2>3. CASE pc[w] = "stats"
    <3>1. Count(Measures(w, t)') = Count(t = p)
      BY <1>4, <1>5, <2>1, <2>3 DEF Count, Measures
    <3>2. telemetry' = telemetry /\ Count(t = p) \in Int
      BY <1>4, <2>3 DEF Count
    <3> QED
      BY <1>2, <2>1, <2>2, <3>1, <3>2
  <2>4. CASE pc[w] = "record"
    <3>1. Count(Measures(w, t)') = 0
      BY <1>4, <1>5, <2>4 DEF Count, Measures
    <3>2. telemetry'[t] = telemetry[t] + Count(t = p) /\ Count(t = p) \in Int
      BY <1>4, <2>1, <2>4 DEF Count
    <3> QED
      BY <1>2, <2>1, <2>2, <3>1, <3>2
  <2> QED
    BY <1>2, <2>3, <2>4
<1> QED
  BY <1>5, <1>6, <1>7 DEF Accounts

LEMMA ClientAccounts ==
    ASSUME MeasureInv, TypeOK', NEW c \in Clients, ClientStep(c)
    PROVE  Accounts(c) /\ Alone(c)
<1>1. c \in Agents /\ TypeOK /\ \A t \in Tasks : accepted[t] \in Nat /\ accepted'[t] \in Nat
  BY DEF Agents, MeasureInv, LedgerInv, TypeOK
<1>2. /\ pc[c] \in ClientPCs
      /\ UNCHANGED <<mode, succeeded, telemetry>>
  BY <1>1 DEF TypeOK, ClientStep, SubmitFifo, ScoreTask, Reject, Push, SendDirect, SendDirectRaises,
     Kick, Pop, Apply, ApplyRaises, gate, history
<1>3. PICK label, u, s : label \in {"direct", "push", "idle", "apply"} /\ Goto(c, label, u, s)
  BY DEF ClientStep, SubmitFifo, ScoreTask, Reject, Push, SendDirect, SendDirectRaises,
     Kick, Pop, Apply, ApplyRaises, Rest
<1>4. Alone(c) /\ pc'[c] = label
  BY <1>1, <1>3, GotoDoes
<1>5. \A t \in Tasks : registry[t] = "started" => registry'[t] = "started"
  <2>1. CASE Push(c)
    BY <1>1, <2>1, GateAssumption DEF Push, TypeOK
  <2>2. CASE ~Push(c)
    BY <2>2 DEF ClientStep, SubmitFifo, ScoreTask, Reject, SendDirect, SendDirectRaises,
       Kick, Pop, Apply, ApplyRaises, gate
  <2> QED
    BY <2>1, <2>2
<1>6. \A t \in Tasks : accepted[t] <= accepted'[t]
  <2>1. CASE Push(c) \/ SendDirect(c)
    BY <1>1, <2>1 DEF Push, SendDirect, TypeOK
  <2>2. CASE ~(Push(c) \/ SendDirect(c))
    <3>1. accepted' = accepted
      BY <2>2 DEF ClientStep, SubmitFifo, ScoreTask, Reject, SendDirectRaises, Kick, Apply,
         ApplyRaises, history
    <3> QED
      BY <1>1, <3>1
  <2> QED
    BY <2>1, <2>2
<1> QED
  BY <1>1, <1>2, <1>3, <1>4, <1>5, <1>6, UnmeasuredStep DEF ClientPCs

LEMMA WorkerAccounts ==
    ASSUME PassesIds, OnceDelivered, MeasureInv, TypeOK', NEW w \in Workers, WorkerStep(w)
    PROVE  Accounts(w) /\ Alone(w)
<1>1. w \in Agents /\ TypeOK /\ \A t \in Tasks : accepted[t] \in Nat
  BY DEF Agents, MeasureInv, LedgerInv, TypeOK
<1>2. CASE CompletePop(w)
  BY <1>2, CompletionAccounts
<1>3. CASE Fail(w) \/ Revoke(w)
  BY <1>3, CleanupAccounts
<1>4. CASE RecordStats(w) \/ RankerRecord(w) \/ RankerRecordRaises(w)
  BY <1>4, RecordAccounts
<1>5. CASE Prerun(w)
  <2>1. PICK p \in Tasks : p = job[w]
    BY <1>1, <1>5 DEF Prerun, TypeOK
  <2>2. /\ pc[w] = "received" /\ UNCHANGED <<mode, accepted, succeeded, telemetry>>
        /\ registry' = [registry EXCEPT ![p] = "started"]
    BY <1>5, <2>1 DEF Prerun, history, PassesIds
  <2>3. Alone(w) /\ pc'[w] = "running" /\ job'[w] = p
    BY <1>1, <1>5, <2>1, GotoDoes DEF Prerun
  <2>4. /\ registry'[p] = "started"
        /\ \A t \in Tasks : registry[t] = "started" => registry'[t] = "started"
    BY <1>1, <2>2, GateAssumption DEF TypeOK
  <2> QED
    BY <1>1, <2>2, <2>3, <2>4, UnmeasuredStep
<1>6. CASE \/ \E t \in Tasks : Receive(w, t)
           \/ DispatchNext(w) \/ DispatchNothing(w) \/ Apply(w) \/ ApplyRaises(w) \/ Retry(w)
  <2>1. /\ pc[w] \notin {"stats", "record"}
        /\ UNCHANGED <<mode, registry, accepted, succeeded, telemetry>>
    BY <1>6 DEF Receive, DispatchNext, DispatchNothing, Pop, Apply, ApplyRaises, Retry, gate, history
  <2>2. PICK label, u, s : label \in {"received", "idle", "apply"} /\ Goto(w, label, u, s)
    BY <1>6 DEF Receive, DispatchNext, DispatchNothing, Pop, Apply, ApplyRaises, Retry, Rest
  <2>3. Alone(w) /\ pc'[w] = label
    BY <1>1, <2>2, GotoDoes
  <2> QED
    BY <1>1, <2>1, <2>2, <2>3, UnmeasuredStep
<1>7. CASE Redeliver(w)
  BY <1>7 DEF Redeliver, Abnormal, OnceDelivered
<1> QED
  BY <1>2, <1>3, <1>4, <1>5, <1>6, <1>7 DEF WorkerStep

LEMMA StutterMeasureInv ==
    ASSUME MeasureInv, GateInv', LedgerInv', UNCHANGED vars
    PROVE  MeasureInv'
<1>1. UNCHANGED <<mode, registry, pc, job, accepted, succeeded, telemetry>>
  BY DEF vars, gate, threads, history
<1>2. ASSUME NEW t \in Tasks
      PROVE  IsFiniteSet(Measuring(t)') /\ (Watched(t)' => EntryIsStarted(t)' /\ Tallied(t)')
  <2>1. Measuring(t)' = Measuring(t) /\ Running(t)' = Running(t)
    BY <1>1 DEF Measuring, Running, Executing
  <2> QED
    BY <1>1, <2>1 DEF MeasureInv, Watched, EntryIsStarted, Tallied
<1> QED
  BY <1>2 DEF MeasureInv

LEMMA InitMeasureInv == Init => MeasureInv
<1> SUFFICES ASSUME Init PROVE MeasureInv
  OBVIOUS
<1>1. GateInv
  BY InitTypeOK, InitActiveInv, GateAssumption DEF GateInv, Init, Agents
<1>2. ASSUME NEW t \in Tasks
      PROVE  IsFiniteSet(Measuring(t)) /\ EntryIsStarted(t) /\ Tallied(t)
  <2>1. Measuring(t) = {} /\ Running(t) = {}
    BY DEF Init, Measuring, Running, Executing, Agents
  <2> QED
    BY <2>1, FS_EmptySet DEF EntryIsStarted, Tallied, Init
<1> QED
  BY <1>1, <1>2, InitLedger DEF MeasureInv

\* The success handler of every execution finds its entry, so that each success
\* is measured and recorded once: in active mode because no second submission
\* may take the entry while the id is alive, in shadow mode for ids submitted
\* once.
THEOREM SuccessesAreMeasured ==
    ASSUME PassesIds, OnceDelivered PROVE Spec => []SuccessIsMeasured
<1>1. ASSUME MeasureInv, [Next]_vars, GateInv', LedgerInv' PROVE MeasureInv'
  <2>1. TypeOK'
    BY <1>1 DEF LedgerInv
  <2>2. ASSUME NEW c \in Clients, ClientStep(c) PROVE MeasureInv'
    BY <1>1, <2>1, <2>2, ClientAccounts, Accounted DEF Agents
  <2>3. ASSUME NEW w \in Workers, WorkerStep(w) PROVE MeasureInv'
    BY <1>1, <2>1, <2>3, WorkerAccounts, Accounted DEF Agents
  <2> QED
    BY <1>1, <2>2, <2>3, StutterMeasureInv DEF Next
<1>2. MeasureInv => SuccessIsMeasured
  BY DEF MeasureInv, SuccessIsMeasured, Watched, Tallied, Measuring
<1> QED
  BY <1>1, <1>2, InitMeasureInv, GateInvariance, LedgerInvariance, PTL DEF Spec
=============================================================================
