----------------------------- MODULE MCLambdaRank -----------------------------
(* An instance of LambdaRank for TLC: three sets of records. *)
EXTENDS LambdaRank

CONSTANTS resize, f1, f2

R(group, time, ms, type) == [group |-> group, time |-> time, ms |-> ms, type |-> type]
Row(type) == [type |-> type]

\* Two named groups, the second one with three records; a single record in a
\* window of its own.
Named == <<R(2, 0, 5, NoType), R(1, 0, 10, resize), R(1, 1, 20, NoType), R(2, 2, 3, resize), R(2, 3, 4, resize),
           R(NoGroup, 130, 1, NoType)>>

\* Two windows, in which the types come in another order.
Windows == <<R(NoGroup, 0, 9, resize), R(NoGroup, 59, 7, NoType), R(NoGroup, 60, 2, NoType), R(NoGroup, 61, 3, resize)>>

\* One window, too few groups for a full fit and none to hold out.
Few == <<R(NoGroup, 0, 7, NoType), R(NoGroup, 1, 9, resize)>>

AllDatasets == {Named, Windows, Few}
SomeBatches == {<<Row(resize)>>, <<Row(NoType), Row(resize)>>}
Interchangeable == Permutations({f1, f2})
=============================================================================
