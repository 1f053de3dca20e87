------------------------------ MODULE RankMetrics ------------------------------
(***************************************************************************)
(* The training data of LambdaRankEstimator (models/lambdarank.py) and the *)
(* rank metrics over it, in hundredths: with groups of at most three       *)
(* records every value of them is whole.                                   *)
(***************************************************************************)
EXTENDS Integers, SequencesExt

CONSTANTS
    NoGroup,     \* group_id of a record that has none
    Window,      \* length of a tumbling window (60 s)
    LabelMax,    \* the highest label that LightGBM takes (9)
    Tenth        \* of how many groups one is held out (10)

ASSUME RankMetricsAssumption ==
    Window \in Nat \ {0} /\ LabelMax \in Nat \ {0} /\ Tenth \in Nat \ {0}

\* Groups that have a name come before windows.
GroupId(r) == IF r.group # NoGroup THEN r.group ELSE 100 + r.time \div Window

\* The groups of two records and more in the order of their ids, each with the
\* shortest record first.
Groups(records) ==
    LET of(g) == SelectSeq(records, LAMBDA r : GroupId(r) = g)
        ids   == {g \in {GroupId(records[i]) : i \in DOMAIN records} : Len(of(g)) >= 2}
        order == SetToSortSeq(ids, LAMBDA g, h : g < h)
    IN  [k \in DOMAIN order |-> SortSeq(of(order[k]), LAMBDA r, s : r.ms < s.ms)]

\* a / b rounded, a half to the even side.
Rounded(a, b) ==
    LET q == a \div b
        r == 2 * (a % b)
    IN  IF r > b \/ (r = b /\ q % 2 = 1) THEN q + 1 ELSE q

\* The label of the i-th shortest of n records; the shortest has the highest.
Label(n, i) ==
    IF n <= LabelMax + 1 THEN n - i ELSE Rounded((n - i) * LabelMax, n - 1)

\* How many of n groups are held out: the last ones.
HeldOut(n) == IF n >= Tenth THEN Max({1, n \div Tenth}) ELSE 0

-----------------------------------------------------------------------------

\* Mutant: of equal values the last comes first.
RanksBackwards(s) ==
    [i \in DOMAIN s |-> Cardinality({j \in DOMAIN s : s[j] < s[i] \/ (s[j] = s[i] /\ j > i)})]

\* argsort(argsort(s)); of equal values the first comes first.
Ranks(s) ==
    [i \in DOMAIN s |-> Cardinality({j \in DOMAIN s : s[j] < s[i] \/ (s[j] = s[i] /\ j < i)})]

Spearman(scores, labels) ==
    LET n == Len(scores)
        d(i) == Ranks(scores)[i] - Ranks(labels)[i]
    IN  IF n < 2 THEN 0
        ELSE 100 - (600 * MapThenSumSet(LAMBDA i : d(i) * d(i), DOMAIN scores))
                   \div (n * (n * n - 1))

\* Pairs of a group whose labels differ, and those that the scores order alike.
\* What is scored alike is not ordered.
Unequal(labels) ==
    {p \in (DOMAIN labels) \X (DOMAIN labels) : p[1] < p[2] /\ labels[p[1]] # labels[p[2]]}

Concordant(scores, labels) ==
    {p \in Unequal(labels) :
       (scores[p[1]] - scores[p[2]]) * (labels[p[1]] - labels[p[2]]) > 0}

Kendall(scores, labels) ==
    LET n == Len(scores)
        c == Cardinality(Concordant(scores, labels))
    IN  (200 * (2 * c - Cardinality(Unequal(labels)))) \div (n * (n - 1))

\* The groups that are worth a metric, and the mean of one; 0 for none.
Sizable(scores) == {g \in DOMAIN scores : Len(scores[g]) >= 2}

MeanOf(metric) ==
    IF DOMAIN metric = {} THEN 0
    ELSE MapThenSumSet(LAMBDA g : metric[g], DOMAIN metric) \div Cardinality(DOMAIN metric)

SpearmanGrouped(scores, labels) ==
    MeanOf([g \in Sizable(scores) |-> Spearman(scores[g], labels[g])])

KendallGrouped(scores, labels) ==
    MeanOf([g \in Sizable(scores) |-> Kendall(scores[g], labels[g])])

\* The share of all pairs; 100 for none.
PairwiseAccuracy(scores, labels) ==
    LET all  == MapThenSumSet(LAMBDA g : Cardinality(Unequal(labels[g])), DOMAIN scores)
        good == MapThenSumSet(LAMBDA g : Cardinality(Concordant(scores[g], labels[g])), DOMAIN scores)
    IN  IF all = 0 THEN 100 ELSE (100 * good) \div all
=============================================================================
