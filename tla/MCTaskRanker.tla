---------------------------- MODULE MCTaskRanker ----------------------------
(* Instances of TaskRanker for TLC. *)
EXTENDS TaskRanker, TLC

\* Threads are interchangeable, and so are the identities of instances.
Interchangeable == Permutations(Threads) \cup Permutations(Objs)
=============================================================================
