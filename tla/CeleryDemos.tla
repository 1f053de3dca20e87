------------------------------ MODULE CeleryDemos ------------------------------
(***************************************************************************)
(* The programs that show the gate at work on a fixed batch of jobs:       *)
(* producer.py (a broker, worker processes, results that are polled) and   *)
(* toggle_demo.py (Celery's eager mode: whatever is sent is executed before*)
(* the call returns, and the success handler dispatches from inside it).   *)
(* Both submit the whole batch first and report completion times last.     *)
(*                                                                         *)
(* Ids are fresh, so the gate refuses nobody and its sequence numbers are  *)
(* the order of the batch.  A worker process has a gate of its own, whose  *)
(* heap is empty: it only measures, and is left out.                       *)
(***************************************************************************)
EXTENDS Integers, SequencesExt

CONSTANTS
    Programs,    \* of "producer" and "toggle"
    Modes,       \* CHRONOQ_MODE: of "fifo", "shadow" and "active"
    N,           \* jobs of the batch
    Scores,      \* what the estimator may return
    Children,    \* worker processes (--concurrency)
    MaxFaults,   \* bound: tasks that raise, sends that fail, messages that are lost
    NoJob

Jobs == 1..N

ASSUME DemosAssumption ==
    /\ N \in Nat \ {0} /\ MaxFaults \in Nat /\ Scores \subseteq Int /\ NoJob \notin Jobs
    /\ Programs \subseteq {"producer", "toggle"}
    /\ Modes \subseteq {"fifo", "shadow", "active"}

VARIABLES
    program, mode,
    score,       \* of every job
    pc,          \* where the main program is
    submitted,   \* jobs that submit() has taken
    heap,        \* of the gate: jobs; score and number are known
    registry,    \* of the gate
    sent,        \* the jobs whose apply_fn was called, in that order
    stack,       \* eager: tasks in execution, each inside the handler of the one before
    queue,       \* the broker's list
    work,        \* what each worker process executes
    result,      \* the result backend
    look,        \* what the current round of polling has still to ask for
    complete,    \* jobs with a time of completion, in that order
    late,        \* the deadline has passed
    rows,        \* the jobs of the report; it lists them in the order of the batch
    faults

run    == <<program, mode, score>>
gate   == <<heap, registry>>
remote == <<queue, work, result>>
vars   == <<run, pc, submitted, gate, sent, stack, remote, look, complete, late, rows, faults>>

TypeOK ==
    /\ program \in Programs /\ mode \in Modes /\ score \in [Jobs -> Scores]
    /\ pc \in {"submit", "flush", "kick", "poll", "round", "report", "done", "died"}
    /\ submitted \in 0..N /\ heap \subseteq Jobs
    /\ registry \in [Jobs -> {"absent", "registered", "started"}]
    /\ \A s \in {sent, queue, complete} : s \in Seq(Jobs)
    /\ stack \in Seq([job : Jobs, at : {"received", "running", "handler", "over"}])
    /\ work \in [Children -> Jobs \cup {NoJob}]
    /\ result \in [Jobs -> {"pending", "success", "failure"}]
    /\ look \subseteq Jobs /\ rows \subseteq Jobs /\ late \in BOOLEAN /\ faults \in 0..MaxFaults

Init ==
    /\ program \in Programs /\ mode \in Modes
    /\ score \in [Jobs -> Scores]
    /\ mode = "active" \/ \A i, j \in Jobs : score[i] = score[j]
    /\ pc = "submit" /\ submitted = 0
    /\ heap = {} /\ registry = [j \in Jobs |-> "absent"]
    /\ sent = <<>> /\ stack = <<>>
    /\ queue = <<>> /\ work = [c \in Children |-> NoJob]
    /\ result = [j \in Jobs |-> "pending"]
    /\ look = {} /\ complete = <<>> /\ late = FALSE /\ rows = {}
    /\ faults = 0

Fault == faults < MaxFaults /\ faults' = faults + 1

-----------------------------------------------------------------------------
(* The gate: submit() and dispatch_next() *)

\* apply_fn: a message to the broker, or the task itself on top of the stack.
Apply(j, below) ==
    /\ sent' = Append(sent, j)
    /\ IF program = "producer"
       THEN queue' = Append(queue, j) /\ stack' = below
       ELSE stack' = Append(below, [job |-> j, at |-> "received"]) /\ UNCHANGED queue

\* Mutant: what came last goes first among equals.
FirstIsLast == CHOOSE j \in heap :
    \A i \in heap \ {j} : score[j] < score[i] \/ (score[j] = score[i] /\ i < j)

\* The least (score, number) of the heap.
First == CHOOSE j \in heap :
    \A i \in heap \ {j} : score[j] < score[i] \/ (score[j] = score[i] /\ j < i)

\* dispatch_next() on a heap that is not empty.
Dispatch(below) ==
    /\ heap' = heap \ {First}
    /\ Apply(First, below)

\* The loop over the batch; eager calls come back before it goes on.
Submit ==
    /\ pc = "submit" /\ submitted < N /\ stack = <<>>
    /\ submitted' = submitted + 1
    /\ IF mode = "active"
       THEN /\ heap' = heap \cup {submitted + 1}
            /\ registry' = [registry EXCEPT ![submitted + 1] = "registered"]
            /\ UNCHANGED <<sent, stack, queue>>
       ELSE Apply(submitted + 1, stack) /\ UNCHANGED gate
    /\ UNCHANGED <<run, pc, work, result, look, complete, late, rows, faults>>

Submitted ==
    /\ pc = "submit" /\ submitted = N /\ stack = <<>>
    /\ pc' = IF program = "producer" THEN IF mode = "active" THEN "flush" ELSE "poll"
             ELSE IF mode = "active" THEN "kick" ELSE "report"
    /\ UNCHANGED <<run, submitted, gate, sent, stack, remote, look, complete, late, rows, faults>>

-----------------------------------------------------------------------------
(* toggle_demo.py *)

\* One dispatch starts the chain.
Kick ==
    /\ pc = "kick"
    /\ pc' = "report"
    /\ Dispatch(stack)
    /\ UNCHANGED <<run, submitted, registry, work, result, look, complete, late, rows, faults>>

Top == Last(stack)

\* The stack with its top at another place.
TopAt(place) == [stack EXCEPT ![Len(stack)].at = place]

\* The stack without its top; who had dispatched that is through as well.
Return ==
    IF Len(stack) = 1 THEN <<>>
    ELSE [Front(stack) EXCEPT ![Len(stack) - 1].at = "over"]

\* task_prerun -> record_start()
Prerun ==
    /\ stack # <<>> /\ Top.at = "received"
    /\ registry' = [registry EXCEPT ![Top.job] = "started"]
    /\ stack' = TopAt("running")
    /\ UNCHANGED <<run, pc, submitted, heap, sent, remote, look, complete, late, rows, faults>>

\* task_success: the time is taken, record_completion() pops the entry, and in
\* active mode the next task is executed before the handler returns.
Succeed ==
    /\ stack # <<>> /\ Top.at = "running"
    /\ complete' = Append(complete, Top.job)
    /\ registry' = [registry EXCEPT ![Top.job] = "absent"]
    /\ IF mode = "active" /\ heap # {}
       THEN Dispatch(TopAt("handler"))
       ELSE stack' = TopAt("over") /\ UNCHANGED <<heap, sent, queue>>
    /\ UNCHANGED <<run, pc, submitted, work, result, look, late, rows, faults>>

\* The task raises, and with task_eager_propagates so does apply_async(): out of
\* the program, or into a signal that logs what its receivers raise.  Whether
\* task_failure was sent before is Celery's affair.
Raise ==
    /\ stack # <<>> /\ Top.at = "running" /\ Fault
    /\ \E heard \in BOOLEAN :
         registry' = IF heard THEN [registry EXCEPT ![Top.job] = "absent"] ELSE registry
    /\ pc' = IF Len(stack) = 1 THEN "died" ELSE pc
    /\ stack' = Return
    /\ UNCHANGED <<run, submitted, heap, sent, remote, look, complete, late, rows>>

Unwind ==
    /\ stack # <<>> /\ Top.at = "over"
    /\ stack' = Return
    /\ UNCHANGED <<run, pc, submitted, gate, sent, remote, look, complete, late, rows, faults>>

-----------------------------------------------------------------------------
(* producer.py *)

\* Mutant: one dispatch, as in the other program.
FlushOnce ==
    /\ pc = "flush"
    /\ IF heap # {} THEN Dispatch(stack) ELSE UNCHANGED <<heap, sent, stack, queue>>
    /\ pc' = "poll"
    /\ UNCHANGED <<run, submitted, registry, work, result, look, complete, late, rows, faults>>

\* while dispatch_next(): pass
Flush ==
    /\ pc = "flush"
    /\ IF heap # {} THEN Dispatch(stack) /\ UNCHANGED pc
       ELSE pc' = "poll" /\ UNCHANGED <<heap, sent, stack, queue>>
    /\ UNCHANGED <<run, submitted, registry, work, result, look, complete, late, rows, faults>>

\* send_task() raises: nobody catches it.
SendFails ==
    /\ program = "producer" /\ Fault
    /\ \/ pc = "submit" /\ mode # "active" /\ submitted < N
       \/ pc = "flush" /\ heap # {}
    /\ pc' = "died"
    /\ heap' = IF pc = "flush" THEN heap \ {First} ELSE heap
    /\ UNCHANGED <<run, submitted, registry, sent, stack, remote, look, complete, late, rows>>

\* Mutant: nobody looks at the clock.
RoundForever ==
    /\ pc = "poll" /\ look = {}
    /\ IF Jobs \ Range(complete) # {}
       THEN look' = Jobs \ Range(complete) /\ pc' = "round"
       ELSE pc' = "report" /\ UNCHANGED look
    /\ UNCHANGED <<run, submitted, gate, sent, stack, remote, complete, late, rows, faults>>

\* Another round, unless nothing is pending or the deadline has passed.
Round ==
    /\ pc = "poll" /\ look = {}
    /\ IF Jobs \ Range(complete) # {} /\ ~late
       THEN look' = Jobs \ Range(complete) /\ pc' = "round"
       ELSE pc' = "report" /\ UNCHANGED look
    /\ UNCHANGED <<run, submitted, gate, sent, stack, remote, complete, late, rows, faults>>

\* One job of the round: it is ready() however it has ended.
Ask(j) ==
    /\ pc = "round" /\ j \in look
    /\ look' = look \ {j}
    /\ complete' = IF j \in Range(sent) /\ result[j] # "pending" THEN Append(complete, j)
                   ELSE complete
    /\ pc' = IF look = {j} THEN "poll" ELSE pc
    /\ UNCHANGED <<run, submitted, gate, sent, stack, remote, late, rows, faults>>

\* POLL_TIMEOUT_S is over.
Deadline ==
    /\ pc \in {"poll", "round"} /\ ~late
    /\ late' = TRUE
    /\ UNCHANGED <<run, pc, submitted, gate, sent, stack, remote, look, complete, rows, faults>>

\* The jobs of the batch that have both times.
Report ==
    /\ pc = "report" /\ stack = <<>>
    /\ pc' = "done"
    /\ rows' = Range(sent) \cap Range(complete)
    /\ UNCHANGED <<run, submitted, gate, sent, stack, remote, look, complete, late, faults>>

-----------------------------------------------------------------------------
(* Broker and workers *)

Take(c) ==
    /\ work[c] = NoJob /\ queue # <<>>
    /\ work' = [work EXCEPT ![c] = Head(queue)]
    /\ queue' = Tail(queue)
    /\ UNCHANGED <<run, pc, submitted, gate, sent, stack, result, look, complete, late, rows, faults>>

End(c, how) ==
    /\ work[c] # NoJob
    /\ work' = [work EXCEPT ![c] = NoJob]
    /\ result' = [result EXCEPT ![work[c]] = how]
    /\ UNCHANGED <<run, pc, submitted, gate, sent, stack, queue, look, complete, late, rows>>

Finish(c) == End(c, "success") /\ UNCHANGED faults

\* The task raises, or its process dies.
Fail(c) == End(c, "failure") /\ Fault

\* A message, or the result of its task, never arrives.
Lose ==
    /\ queue # <<>> /\ Fault
    /\ queue' = Tail(queue)
    /\ UNCHANGED <<run, pc, submitted, gate, sent, stack, work, result, look, complete, late, rows>>

Main ==
    \/ Submit \/ Submitted \/ Kick \/ Prerun \/ Succeed \/ Unwind
    \/ Flush \/ Round \/ (\E j \in Jobs : Ask(j)) \/ Report

Next ==
    \/ Main \/ Raise \/ SendFails \/ Deadline \/ Lose
    \/ \E c \in Children : Take(c) \/ Finish(c) \/ Fail(c)

Spec == Init /\ [][Next]_vars

\* The program runs on, time passes; workers need not be fair for it to end.
FairSpec == Spec /\ WF_vars(Main) /\ WF_vars(Deadline)

-----------------------------------------------------------------------------
(* demo.py executes nothing: it scores the batch and sorts it. *)

\* What comes before j when the batch is sorted by score; sorted() is stable.
SortedBefore(j) ==
    {i \in Jobs : score[i] < score[j] \/ (score[i] = score[j] /\ i < j)}

DemoOrder ==
    [k \in Jobs |-> IF mode = "active"
                    THEN CHOOSE j \in Jobs : Cardinality(SortedBefore(j)) = k - 1
                    ELSE k]

-----------------------------------------------------------------------------
(* Properties *)

\* The gate sends the batch in the order that demo.py calculates: by score and
\* then arrival over the whole batch in active mode, by arrival otherwise,
\* whether the heap is flushed or every success dispatches the next one, and
\* across tasks that fail.
OrderIsScheduled == IsPrefix(sent, DemoOrder)

\* The report is the truth about the batch.  Its rows are jobs that have ended.
\* Before the producer polls,
\* every job has been sent ("shouldn't happen post-flush"), so if the
\* deadline has not passed when it reports, no job is missing, failed ones
\* included.  Eager tasks complete one after the other in the order in which
\* they were dispatched, although each is executed inside the one before, and
\* if none raises all are reported and the gate is left empty.
ReportIsTrue ==
    /\ program = "producer" /\ pc \in {"poll", "round", "report", "done"} => Range(sent) = Jobs
    /\ program = "toggle" => IsPrefix(complete, sent)
    /\ pc = "done" =>
         /\ \A j \in rows : program = "producer" => result[j] # "pending"
         /\ (IF program = "producer" THEN ~late ELSE faults = 0) => rows = Jobs
         /\ program = "toggle" /\ faults = 0 => heap = {} /\ \A j \in Jobs : registry[j] = "absent"

\* Both programs end, whatever fails, is lost or is never executed.
DemosEnd == <>(pc \in {"done", "died"})
=============================================================================
