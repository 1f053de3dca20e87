------------------------------- MODULE JctMetrics -------------------------------
(***************************************************************************)
(* Metrics of completion times (metrics/jct.py) over sequences of whole    *)
(* numbers.  Fractions are compared by their products.                     *)
(***************************************************************************)
EXTENDS Integers, FiniteSets, Sequences

\* The sums of the first 0, 1, ... values.
Sums(s) ==
    LET upTo[k \in 0..Len(s)] == IF k = 0 THEN 0 ELSE upTo[k - 1] + s[k] IN upTo

Sum(s) == Sums(s)[Len(s)]

\* Where the i-th value stands when they are sorted.
Rank(s, i) == Cardinality({j \in DOMAIN s : s[j] < s[i] \/ (s[j] = s[i] /\ j <= i)})

\* By nearest rank; 0 for none.
Percentile(s, p) ==
    IF s = <<>> THEN 0
    ELSE LET rank == (p * Len(s) + 99) \div 100
         IN  s[CHOOSE i \in DOMAIN s : Rank(s, i) = IF rank >= 1 THEN rank ELSE 1]

\* How many took longer than k times the mean.
HolBlocking(s, k) == Cardinality({i \in DOMAIN s : Len(s) * s[i] > k * Sum(s)})

\* Jain's index as numerator and denominator.
Fairness(s) ==
    LET squares == Sum([i \in DOMAIN s |-> s[i] * s[i]])
    IN  IF squares = 0 THEN <<1, 1>> ELSE <<Sum(s) * Sum(s), Len(s) * squares>>

-----------------------------------------------------------------------------
(* What they should be *)

\* The least value that p percent do not exceed.
IsPercentile(v, s, p) ==
    LET within(x) == 100 * Cardinality({i \in DOMAIN s : s[i] <= x}) >= p * Len(s)
    IN  within(v) /\ \E i \in DOMAIN s : s[i] = v /\ \A k \in DOMAIN s : within(s[k]) => s[k] >= v

\* Percentiles are percentiles, fewer than one in k take k times the mean, and
\* fairness lies between that of one job that takes all and that of equals.
Summarised(s) ==
    LET j == Fairness(s)
    IN  /\ \A p \in {50, 95, 99} : IsPercentile(Percentile(s, p), s, p)
        /\ 3 * HolBlocking(s, 3) < Len(s)
        /\ j[1] <= j[2] /\ j[2] <= Len(s) * j[1]
=============================================================================
