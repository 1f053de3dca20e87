---------------------- MODULE LearnedSchedulerRefinement ----------------------
(***************************************************************************)
(* In active mode LearnedScheduler implements PriorityGate.  The heap is   *)
(* the queue read in order of sequence numbers; a task is out from the     *)
(* moment it is popped; a completion waits to be exchanged while its       *)
(* success handler has not reached dispatch_next().  In the other modes    *)
(* nothing passes the gate, and nothing may ever wait in the heap.         *)
(***************************************************************************)
EXTENDS LearnedScheduler, Sequences

\* The entries in order of admission: the next is always the one that so many
\* others come before.
AdmittedBefore(e, entries) == {f \in entries : f.seq < e.seq}

ArrivalOrder(entries) ==
    [i \in 1..Cardinality(entries) |->
        CHOOSE e \in entries : Cardinality(AdmittedBefore(e, entries)) = i - 1]

WaitingQueue ==
    [i \in 1..Cardinality(heap) |->
        [tid |-> ArrivalOrder(heap)[i].tid, score |-> ArrivalOrder(heap)[i].score]]

OutTasks == {t \in Tasks : mode = "active" /\ Live(t) /\ Waiting(t) = {}}

PendingRights ==
    Cardinality({w \in Workers : mode = "active" /\ pc[w] \in {"stats", "record", "next"}})

Gate == INSTANCE PriorityGate WITH
            Task <- Tasks, Score <- Scores,
            queue <- WaitingQueue, out <- OutTasks, rights <- PendingRights

\* Threads, registry and broker implement the abstract gate: tasks leave by
\* score and admission order, and only when asked for or exchanged.
ImplementsGate == Gate!GateSpec
=============================================================================
