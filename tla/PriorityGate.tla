----------------------------- MODULE PriorityGate -----------------------------
(***************************************************************************)
(* What the active mode of the Celery gate promises, without threads,      *)
(* registry, broker or scores in the hands of threads: tasks wait in order *)
(* of admission, the one of least score leaves first and, among equals,    *)
(* the one admitted first; a task leaves because somebody outside asked    *)
(* for it, or in exchange for the completion of one that had left.         *)
(***************************************************************************)
EXTENDS Integers, Sequences, SequencesExt

CONSTANTS Task, Score

VARIABLES
    queue,    \* waiting tasks [tid, score], in order of admission
    out,      \* tasks that left and have no outcome yet
    rights    \* completions not yet exchanged

gateVars == <<queue, out, rights>>

GateTypeOK ==
    /\ queue \in Seq([tid : Task, score : Score])
    /\ out \subseteq Task
    /\ rights \in Nat

GateInit == queue = <<>> /\ out = {} /\ rights = 0

Admit(t, s) ==
    /\ t \notin out
    /\ \A i \in DOMAIN queue : queue[i].tid # t
    /\ queue' = Append(queue, [tid |-> t, score |-> s])
    /\ UNCHANGED <<out, rights>>

\* The place in the queue of the next task to leave.
IsFirst(i) ==
    /\ \A j \in DOMAIN queue : queue[i].score <= queue[j].score
    /\ \A j \in 1..(i - 1) : queue[i].score < queue[j].score

Leave ==
    \E i \in DOMAIN queue :
        /\ IsFirst(i)
        /\ queue' = RemoveAt(queue, i)
        /\ out' = out \cup {queue[i].tid}

Open == Leave /\ UNCHANGED rights

Exchange == rights > 0 /\ Leave /\ rights' = rights - 1

Finish(t) ==
    /\ t \in out
    /\ out' = out \ {t}
    /\ rights' \in {rights, rights + 1}
    /\ UNCHANGED queue

Forfeit == rights > 0 /\ rights' = rights - 1 /\ UNCHANGED <<queue, out>>

GateNext ==
    \/ \E t \in Task, s \in Score : Admit(t, s)
    \/ Open
    \/ Exchange
    \/ \E t \in Task : Finish(t)
    \/ Forfeit

GateSpec == GateInit /\ [][GateNext]_gateVars
=============================================================================
