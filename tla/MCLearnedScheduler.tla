-------------------------- MODULE MCLearnedScheduler --------------------------
(* Instances of LearnedScheduler for TLC. *)
EXTENDS LearnedSchedulerRefinement, TLC

CONSTANT Resize    \* a task type, and the name of the Celery task

\* apply_fn passes task_id on to apply_async(), as the demos do.
SameId == [t \in Tasks |-> t]

OneType == [t \in Tasks |-> Resize]

\* Threads of one kind are interchangeable, and so are task ids: nothing
\* compares them.
Interchangeable == Permutations(Clients) \cup Permutations(Workers) \cup Permutations(Tasks)
=============================================================================
