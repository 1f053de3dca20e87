-------------------- MODULE LearnedSchedulerRefinementProofs --------------------
(***************************************************************************)
(* LearnedScheduler implements PriorityGate, for any number of threads and *)
(* tasks and in every mode: the proof of LearnedSchedulerRefinement.       *)
(***************************************************************************)
EXTENDS LearnedSchedulerRefinement, LearnedSchedulerProofs, SequenceTheorems

-----------------------------------------------------------------------------
(* The heap in order of admission *)

\* q lists the n entries of H in the order of their numbers.
Lists(q, n, H) ==
    /\ n \in Nat
    /\ q \in [1..n -> H]
    /\ \A e \in H : \E i \in 1..n : q[i] = e
    /\ \A i, j \in 1..n : i < j => q[i].seq < q[j].seq

LEMMA ListsOnce ==
    ASSUME NEW q, NEW n, NEW H, Lists(q, n, H), \A e \in H : e.seq \in Nat
    PROVE  \A i, j \in 1..n : q[i] = q[j] => i = j
<1> SUFFICES ASSUME NEW i \in 1..n, NEW j \in 1..n, q[i] = q[j] PROVE i = j
  OBVIOUS
<1>1. q[i].seq \in Nat /\ n \in Nat /\ i \in Int /\ j \in Int
  BY DEF Lists
<1>2. ~(i < j) /\ ~(j < i)
  BY <1>1 DEF Lists
<1> QED
  BY <1>1, <1>2

\* So many come before the k-th.
LEMMA ListedBefore ==
    ASSUME NEW q, NEW n, NEW H, Lists(q, n, H), \A e \in H : e.seq \in Nat, NEW k \in 1..n
    PROVE  Cardinality(AdmittedBefore(q[k], H)) = k - 1
<1>1. n \in Nat /\ k - 1 \in Nat /\ k \in Nat /\ q \in [1..n -> H]
      /\ \A i \in 1..(k - 1) : i \in 1..n /\ i < k
  BY DEF Lists
<1> DEFINE r == [i \in 1..(k - 1) |-> q[i]]
           B == AdmittedBefore(q[k], H)
<1>2. \A i \in 1..(k - 1) : r[i] \in B
  BY <1>1 DEF AdmittedBefore, Lists
<1>3. \A f \in B : \E i \in 1..(k - 1) : r[i] = f
  <2> SUFFICES ASSUME NEW f \in B PROVE \E i \in 1..(k - 1) : r[i] = f
    OBVIOUS
  <2>1. f \in H /\ f.seq < q[k].seq
    BY DEF AdmittedBefore
  <2>2. PICK i \in 1..n : q[i] = f
    BY <2>1 DEF Lists
  <2>3. f.seq \in Nat /\ q[k].seq \in Nat
    BY <1>1, <2>1
  <2>4. ~(k < i) /\ i # k
    BY <2>1, <2>2, <2>3 DEF Lists
  <2>5. i \in 1..(k - 1)
    BY <1>1, <2>4
  <2> QED
    BY <2>2, <2>5
<1>4. \A i, j \in 1..(k - 1) : r[i] = r[j] => i = j
  BY <1>1, ListsOnce
<1>5. r \in Bijection(1..(k - 1), B)
  <2>1. r \in [1..(k - 1) -> B]
    BY <1>2
  <2> HIDE DEF r, B
  <2> QED
    BY <1>3, <1>4, <2>1 DEF Bijection, Injection, Surjection, IsInjective
<1> QED
  BY <1>1, <1>5, FS_CountingElements DEF ExistsBijection

\* So there is one list of H, and ArrivalOrder is it.
LEMMA ListIsArrivalOrder ==
    ASSUME NEW q, NEW n, NEW H, Lists(q, n, H), \A e \in H : e.seq \in Nat
    PROVE  ArrivalOrder(H) = q /\ IsFiniteSet(H) /\ Cardinality(H) = n
<1>1. n \in Nat /\ q \in [1..n -> H] /\ \A e \in H : \E i \in 1..n : q[i] = e
  BY DEF Lists
<1>2. q \in Bijection(1..n, H)
  BY <1>1, ListsOnce DEF Bijection, Injection, Surjection, IsInjective
<1>3. Cardinality(H) = n /\ IsFiniteSet(H)
  BY <1>1, <1>2, FS_CountingElements, FS_NatBijection DEF ExistsBijection
<1>4. ASSUME NEW k \in 1..n
      PROVE  (CHOOSE e \in H : Cardinality(AdmittedBefore(e, H)) = k - 1) = q[k]
  <2>1. q[k] \in H /\ Cardinality(AdmittedBefore(q[k], H)) = k - 1
    BY <1>1, ListedBefore
  <2>2. ASSUME NEW e \in H, Cardinality(AdmittedBefore(e, H)) = k - 1 PROVE e = q[k]
    <3>1. PICK i \in 1..n : q[i] = e
      BY <1>1
    <3>2. Cardinality(AdmittedBefore(e, H)) = i - 1
      BY <3>1, ListedBefore
    <3> QED
      BY <1>1, <2>2, <3>1, <3>2
  <2> QED
    BY <2>1, <2>2
<1>5. ArrivalOrder(H) = [k \in 1..n |-> q[k]]
  BY <1>3, <1>4 DEF ArrivalOrder
<1> QED
  BY <1>1, <1>3, <1>5

\* An entry with a number of its own, the greatest, comes last.
LEMMA ListPushed ==
    ASSUME NEW q, NEW n, NEW H, Lists(q, n, H), NEW e, \A f \in H : f.seq < e.seq
    PROVE  Lists([i \in 1..(n + 1) |-> IF i <= n THEN q[i] ELSE e], n + 1, H \cup {e})
<1> DEFINE r == [i \in 1..(n + 1) |-> IF i <= n THEN q[i] ELSE e]
<1>1. n \in Nat /\ q \in [1..n -> H]
  BY DEF Lists
<1>2. /\ \A i \in 1..(n + 1) : i \in 1..n \/ i = n + 1
      /\ \A i \in 1..n : r[i] = q[i] /\ q[i] \in H
      /\ r[n + 1] = e /\ n + 1 \in 1..(n + 1)
      /\ \A i \in 1..n : i \in 1..(n + 1)
  BY <1>1
<1>3. r \in [1..(n + 1) -> H \cup {e}]
  BY <1>1
<1> HIDE DEF r
<1>4. \A f \in H \cup {e} : \E i \in 1..(n + 1) : r[i] = f
  BY <1>2 DEF Lists
<1>5. ASSUME NEW i \in 1..(n + 1), NEW j \in 1..(n + 1), i < j PROVE r[i].seq < r[j].seq
  <2>1. i \in 1..n
    BY <1>1, <1>5
  <2>2. CASE j \in 1..n
    BY <1>2, <1>5, <2>1, <2>2 DEF Lists
  <2>3. CASE j = n + 1
    BY <1>2, <2>1, <2>3
  <2> QED
    BY <1>2, <2>2, <2>3
<1>6. n + 1 \in Nat
  BY <1>1
<1>7. Lists(r, n + 1, H \cup {e})
  BY <1>3, <1>4, <1>5, <1>6 DEF Lists
<1> QED
  BY <1>7 DEF r

\* The list without its k-th.
LEMMA ListPopped ==
    ASSUME NEW q, NEW n, NEW H, Lists(q, n, H), \A e \in H : e.seq \in Nat, NEW k \in 1..n
    PROVE  Lists([i \in 1..(n - 1) |-> IF i < k THEN q[i] ELSE q[i + 1]], n - 1, H \ {q[k]})
<1> DEFINE r == [i \in 1..(n - 1) |-> IF i < k THEN q[i] ELSE q[i + 1]]
           at(i) == IF i < k THEN i ELSE i + 1
<1>1. n \in Nat /\ q \in [1..n -> H] /\ k \in Nat /\ n - 1 \in Nat
  BY DEF Lists
<1>2. \A i \in 1..(n - 1) : at(i) \in 1..n /\ at(i) # k
  BY <1>1
<1>3. \A i \in 1..(n - 1) : r[i] = q[at(i)]
  OBVIOUS
<1>4. \A i, j \in 1..(n - 1) : i < j => at(i) < at(j)
  BY <1>1
<1>5. \A j \in 1..n : j # k => \E i \in 1..(n - 1) : at(i) = j
  <2> SUFFICES ASSUME NEW j \in 1..n, j # k PROVE \E i \in 1..(n - 1) : at(i) = j
    OBVIOUS
  <2>1. CASE j < k
    <3>1. j \in 1..(n - 1) /\ at(j) = j
      BY <1>1, <2>1
    <3> QED
      BY <3>1
  <2>2. CASE j > k
    <3>1. j - 1 \in 1..(n - 1) /\ at(j - 1) = j
      BY <1>1, <2>2
    <3> QED
      BY <3>1
  <2> QED
    BY <1>1, <2>1, <2>2
<1>6. \A i \in 1..n : i # k => q[i] \in H \ {q[k]}
  BY <1>1, ListsOnce
<1>7. r \in [1..(n - 1) -> H \ {q[k]}]
  <2>1. \A i \in 1..(n - 1) : r[i] \in H \ {q[k]}
    BY <1>2, <1>3, <1>6
  <2> QED
    BY <2>1
<1> HIDE DEF r, at
<1>8. \A f \in H \ {q[k]} : \E i \in 1..(n - 1) : r[i] = f
  <2> SUFFICES ASSUME NEW f \in H \ {q[k]} PROVE \E i \in 1..(n - 1) : r[i] = f
    OBVIOUS
  <2>1. PICK j \in 1..n : q[j] = f /\ j # k
    BY DEF Lists
  <2>2. PICK i \in 1..(n - 1) : at(i) = j
    BY <1>5, <2>1
  <2> QED
    BY <1>3, <2>1, <2>2
<1>9. \A i, j \in 1..(n - 1) : i < j => r[i].seq < r[j].seq
  BY <1>2, <1>3, <1>4 DEF Lists
<1>10. Lists(r, n - 1, H \ {q[k]})
  BY <1>1, <1>7, <1>8, <1>9 DEF Lists
<1> QED
  BY <1>10 DEF r

-----------------------------------------------------------------------------
(* The queue of the abstract gate *)

View(e) == [tid |-> e.tid, score |-> e.score]

\* The sequence s of length n without its k-th.
Without(s, n, k) == [i \in 1..(n - 1) |-> IF i < k THEN s[i] ELSE s[i + 1]]

LEMMA RemoveAtIs ==
    ASSUME NEW S, NEW n \in Nat, NEW s \in [1..n -> S], NEW k \in 1..n
    PROVE  Gate!RemoveAt(s, k) = Without(s, n, k)
<1> DEFINE b == SubSeq(s, 1, k - 1)
           c == SubSeq(s, k + 1, n)
           r == [i \in 1..(n - 1) |-> IF i < k THEN s[i] ELSE s[i + 1]]
<1>1. k \in Int /\ n \in Int /\ 1 <= k /\ k <= n /\ Len(s) = n
  OBVIOUS
<1>2. /\ b \in Seq(S) /\ Len(b) = k - 1
      /\ \A i \in 1..(k - 1) : b[i] = s[i]
  <2>1. \A i \in 1..(k - 1) : s[i] \in S /\ 1 + i - 1 = i
    BY <1>1
  <2>2. /\ b \in Seq(S)
        /\ Len(b) = IF 1 <= k - 1 THEN k - 1 - 1 + 1 ELSE 0
        /\ \A i \in 1..(k - 1 - 1 + 1) : b[i] = s[1 + i - 1]
    BY <1>1, <2>1, SubSeqProperties
  <2>3. k - 1 - 1 + 1 = k - 1
    BY <1>1
  <2> QED
    BY <1>1, <2>1, <2>2, <2>3
<1>3. /\ c \in Seq(S) /\ Len(c) = n - k
      /\ \A i \in 1..(n - k) : c[i] = s[k + i]
  <2>1. /\ \A i \in (k + 1)..n : s[i] \in S
        /\ \A i \in 1..(n - k) : k + 1 + i - 1 = k + i
        /\ k + 1 \in Int
    BY <1>1
  <2>2. /\ c \in Seq(S)
        /\ Len(c) = IF k + 1 <= n THEN n - (k + 1) + 1 ELSE 0
        /\ \A i \in 1..(n - (k + 1) + 1) : c[i] = s[k + 1 + i - 1]
    BY <1>1, <2>1, SubSeqProperties
  <2>3. n - (k + 1) + 1 = n - k
    BY <1>1
  <2> QED
    BY <1>1, <2>1, <2>2, <2>3
<1> HIDE DEF b, c
<1>4. /\ b \o c \in Seq(S) /\ Len(b \o c) = n - 1
      /\ \A i \in 1..(n - 1) : (b \o c)[i] = IF i <= k - 1 THEN b[i] ELSE c[i - (k - 1)]
  <2>1. /\ b \o c \in Seq(S) /\ Len(b \o c) = Len(b) + Len(c)
        /\ \A i \in 1..(Len(b) + Len(c)) : (b \o c)[i] =
                     IF i <= Len(b) THEN b[i] ELSE c[i - Len(b)]
    BY <1>2, <1>3, ConcatProperties
  <2>2. Len(b) = k - 1 /\ Len(b) + Len(c) = n - 1
    BY <1>1, <1>2, <1>3
  <2> QED
    BY <2>1, <2>2
<1>5. \A i \in 1..(n - 1) : (b \o c)[i] = r[i]
  <2> SUFFICES ASSUME NEW i \in 1..(n - 1) PROVE (b \o c)[i] = r[i]
    OBVIOUS
  <2>1. CASE i < k
    <3>1. i \in 1..(k - 1) /\ i <= k - 1
      BY <1>1, <2>1
    <3> QED
      BY <1>2, <1>4, <2>1, <3>1
  <2>2. CASE ~(i < k)
    <3>1. ~(i <= k - 1) /\ i - (k - 1) \in 1..(n - k) /\ k + (i - (k - 1)) = i + 1
      BY <1>1, <2>2
    <3> QED
      BY <1>3, <1>4, <2>2, <3>1
  <2> QED
    BY <2>1, <2>2
<1>6. b \o c = r
  <2>1. b \o c \in [1..(n - 1) -> S]
    BY <1>4, LenProperties
  <2> QED
    BY <1>5, <2>1
<1>7. Gate!RemoveAt(s, k) = b \o c
  BY <1>1 DEF Gate!RemoveAt, b, c
<1> QED
  BY <1>6, <1>7 DEF Without

LEMMA QueueIs ==
    ASSUME NEW q, NEW n, Lists(q, n, heap), \A e \in heap : e.seq \in Nat
    PROVE  WaitingQueue = [i \in 1..n |-> View(q[i])]
<1>1. ArrivalOrder(heap) = q /\ Cardinality(heap) = n
  BY ListIsArrivalOrder
<1> QED
  BY <1>1 DEF WaitingQueue, View

\* The same of the next state.
LEMMA NextQueueIs ==
    ASSUME NEW q, NEW n, Lists(q, n, heap'), \A e \in heap' : e.seq \in Nat
    PROVE  WaitingQueue' = [i \in 1..n |-> View(q[i])]
<1>1. ArrivalOrder(heap') = q /\ Cardinality(heap') = n
  BY ListIsArrivalOrder
<1> QED
  BY <1>1 DEF WaitingQueue, View

LEMMA AppendIs ==
    ASSUME NEW S, NEW n \in Nat, NEW s \in [1..n -> S], NEW x \in S
    PROVE  Append(s, x) = [i \in 1..(n + 1) |-> IF i <= n THEN s[i] ELSE x]
<1>1. s \in Seq(S) /\ Len(s) = n
  OBVIOUS
<1>2. /\ Append(s, x) \in Seq(S) /\ Len(Append(s, x)) = n + 1
      /\ \A i \in 1..n : Append(s, x)[i] = s[i]
      /\ Append(s, x)[n + 1] = x
  BY <1>1, AppendProperties
<1>3. Append(s, x) \in [1..(n + 1) -> S]
  BY <1>2, LenProperties
<1>4. \A i \in 1..(n + 1) : i <= n => i \in 1..n
  OBVIOUS
<1>5. \A i \in 1..(n + 1) : ~(i <= n) => i = n + 1
  OBVIOUS
<1> QED
  BY <1>2, <1>3, <1>4, <1>5

HeapIsListed == \E q, n : Lists(q, n, heap)

LEMMA NumbersTyped ==
    /\ TypeOK => \A e \in heap : e.seq \in Nat /\ e.score \in Int /\ e.tid \in Tasks
    /\ TypeOK' => \A e \in heap' : e.seq \in Nat
BY GateAssumption DEF TypeOK, Entries

LEMMA KeptQueue ==
    ASSUME HeapIsListed, heap' = heap
    PROVE  HeapIsListed' /\ WaitingQueue' = WaitingQueue
BY DEF HeapIsListed, WaitingQueue

\* submit() puts its task at the end of the queue.
LEMMA PushedQueue ==
    ASSUME TypeOK, TypeOK', NumbersAreFresh, HeapIsListed,
           NEW e, e \notin heap, e.seq = arrivals, heap' = heap \cup {e}
    PROVE  HeapIsListed' /\ WaitingQueue' = Append(WaitingQueue, View(e))
<1>1. PICK q, n : Lists(q, n, heap)
  BY DEF HeapIsListed
<1>2. /\ \A f \in heap : f.seq \in Nat
      /\ \A f \in heap' : f.seq \in Nat
      /\ \A f \in heap : f.seq < e.seq
  BY NumbersTyped DEF NumbersAreFresh
<1> DEFINE r == [i \in 1..(n + 1) |-> IF i <= n THEN q[i] ELSE e]
<1>3. Lists(r, n + 1, heap')
  BY <1>1, <1>2, ListPushed
<1>4. n \in Nat /\ \A i \in 1..n : r[i] = q[i]
  BY <1>1 DEF Lists
<1>5. r[n + 1] = e
  BY <1>4
<1> HIDE DEF r
<1>6. WaitingQueue = [i \in 1..n |-> View(q[i])]
  BY <1>1, <1>2, QueueIs
<1>7. WaitingQueue' = [i \in 1..(n + 1) |-> View(r[i])]
  BY <1>2, <1>3, NextQueueIs
<1>8. Append(WaitingQueue, View(e)) = [i \in 1..(n + 1) |-> View(r[i])]
  <2> DEFINE V == {View(f) : f \in heap'}
  <2>1. WaitingQueue \in [1..n -> V] /\ View(e) \in V
    BY <1>1, <1>6 DEF Lists
  <2> HIDE DEF V
  <2>2. Append(WaitingQueue, View(e)) =
          [i \in 1..(n + 1) |-> IF i <= n THEN WaitingQueue[i] ELSE View(e)]
    BY <1>4, <2>1, AppendIs
  <2>3. ASSUME NEW i \in 1..(n + 1)
        PROVE  (IF i <= n THEN WaitingQueue[i] ELSE View(e)) = View(r[i])
    BY <1>4, <1>5, <1>6
  <2> QED
    BY <2>2, <2>3
<1> QED
  BY <1>3, <1>7, <1>8 DEF HeapIsListed

\* dispatch_next() takes the first of the queue by score and admission.
LEMMA PoppedQueue ==
    ASSUME TypeOK, TypeOK', HeapIsListed,
           NEW e \in heap, \A f \in heap \ {e} : Before(e, f), heap' = heap \ {e}
    PROVE  /\ HeapIsListed'
           /\ \E i \in DOMAIN WaitingQueue :
                 /\ Gate!IsFirst(i)
                 /\ WaitingQueue' = Gate!RemoveAt(WaitingQueue, i)
                 /\ WaitingQueue[i].tid = e.tid
<1>1. PICK q, n : Lists(q, n, heap)
  BY DEF HeapIsListed
<1>2. /\ \A f \in heap : f.seq \in Nat /\ f.score \in Int
      /\ \A f \in heap' : f.seq \in Nat
  BY NumbersTyped
<1>3. /\ n \in Nat /\ q \in [1..n -> heap]
      /\ \A i, j \in 1..n : i < j => q[i].seq < q[j].seq
      /\ \A i, j \in 1..n : q[i] = q[j] => i = j
  BY <1>1, <1>2, ListsOnce DEF Lists
<1>4. PICK k \in 1..n : q[k] = e
  BY <1>1 DEF Lists
<1> DEFINE r == [i \in 1..(n - 1) |-> IF i < k THEN q[i] ELSE q[i + 1]]
<1>5. Lists(r, n - 1, heap')
  BY <1>1, <1>2, <1>4, ListPopped
<1>6. \A i \in 1..(n - 1) : r[i] = IF i < k THEN q[i] ELSE q[i + 1]
  OBVIOUS
<1> HIDE DEF r
<1>7. WaitingQueue = [i \in 1..n |-> View(q[i])]
  BY <1>1, <1>2, QueueIs
<1>8. WaitingQueue' = [i \in 1..(n - 1) |-> View(r[i])]
  BY <1>2, <1>5, NextQueueIs
<1>9. WaitingQueue' = Gate!RemoveAt(WaitingQueue, k)
  <2> DEFINE V == {View(f) : f \in heap}
  <2>1. WaitingQueue \in [1..n -> V] /\ n \in Nat /\ k \in 1..n
    BY <1>3, <1>7
  <2> HIDE DEF V
  <2>2. Gate!RemoveAt(WaitingQueue, k) = Without(WaitingQueue, n, k)
    BY <2>1, RemoveAtIs
  <2>3. ASSUME NEW i \in 1..(n - 1)
        PROVE  View(r[i]) = IF i < k THEN WaitingQueue[i] ELSE WaitingQueue[i + 1]
    <3>1. i \in 1..n /\ i + 1 \in 1..n
      BY <1>3
    <3> QED
      BY <1>6, <1>7, <3>1
  <2> QED
    BY <1>8, <2>2, <2>3 DEF Without
<1>10. /\ DOMAIN WaitingQueue = 1..n
       /\ \A i \in 1..n : /\ WaitingQueue[i].tid = q[i].tid
                          /\ WaitingQueue[i].score = q[i].score
  BY <1>7 DEF View
<1>11. Gate!IsFirst(k)
  <2>1. \A j \in 1..n : j # k => Before(e, q[j])
    BY <1>3, <1>4
  <2>2. \A j \in 1..n : WaitingQueue[k].score <= WaitingQueue[j].score
    BY <1>2, <1>3, <1>4, <1>10, <2>1 DEF Before
  <2>3. ASSUME NEW j \in 1..(k - 1) PROVE WaitingQueue[k].score < WaitingQueue[j].score
    <3>1. j \in 1..n /\ j < k
      BY <1>3
    <3>2. q[j] \in heap /\ q[k] \in heap /\ q[j].seq < q[k].seq
      BY <1>3, <3>1
    <3>3. ~(q[k].seq < q[j].seq)
      BY <1>2, <3>2
    <3> QED
      BY <1>4, <1>10, <2>1, <3>1, <3>3 DEF Before
  <2> QED
    BY <1>10, <2>2, <2>3 DEF Gate!IsFirst
<1> QED
  BY <1>4, <1>5, <1>9, <1>10, <1>11 DEF HeapIsListed

-----------------------------------------------------------------------------
(* The tasks that are out, and the completions to be exchanged *)

\* In active mode a task is out from its pop to its outcome.
Abroad(t) == InHand(t) # {} \/ broker[t] > 0 \/ Running(t) # {}

LEMMA OutIsAbroad ==
    /\ GateInv /\ mode = "active" => OutTasks = {t \in Tasks : Abroad(t)}
    /\ (GateInv /\ mode = "active" => OutTasks = {t \in Tasks : Abroad(t)})'
<1>1. GateInv /\ mode = "active" => OutTasks = {t \in Tasks : Abroad(t)}
  <2> SUFFICES ASSUME GateInv, mode = "active", NEW t \in Tasks
               PROVE  Live(t) /\ Waiting(t) = {} <=> Abroad(t)
    BY DEF OutTasks
  <2>1. Waiting(t) # {} => InHand(t) = {} /\ broker[t] = 0 /\ Running(t) = {}
    BY DEF GateInv, ActiveInv, OncePerId
  <2> QED
    BY <2>1 DEF Live, Abroad
<1>2. (GateInv /\ mode = "active" => OutTasks = {t \in Tasks : Abroad(t)})'
  BY <1>1, PTL
<1> QED
  BY <1>1, <1>2

Untouched(a, t) ==
    /\ broker'[t] = broker[t]
    /\ Holds(a, t)' <=> Holds(a, t)
    /\ Executes(a, t)' <=> Executes(a, t)

LEMMA UntouchedStays ==
    ASSUME NEW a \in Agents, Alone(a), NEW t \in Tasks, Untouched(a, t)
    PROVE  Abroad(t)' <=> Abroad(t)
<1>1. InHand(t)' = InHand(t)
  BY DEF Untouched, Holds, InHand, Alone
<1>2. Running(t)' = Running(t)
  BY DEF Untouched, Executes, Executing, Running, Alone, Agents
<1> QED
  BY <1>1, <1>2 DEF Abroad, Untouched

\* The task of a thread that is done with it has been nowhere else.
LEMMA DoneIsHome ==
    ASSUME GateInv, mode = "active", NEW a \in Agents, Alone(a), NEW t \in Tasks,
           Holds(a, t) \/ Executes(a, t), ~Holds(a, t)', ~Executes(a, t)', broker'[t] = broker[t]
    PROVE  Abroad(t) /\ ~Abroad(t)'
<1>1. OncePerId /\ broker[t] \in Nat
  BY DEF GateInv, ActiveInv, TypeOK
<1>2. CASE Holds(a, t)
  <2>1. a \in InHand(t)
    BY <1>2 DEF Holds, InHand
  <2>2. InHand(t) = {a} /\ broker[t] = 0 /\ Running(t) = {}
    BY <1>1, <2>1 DEF OncePerId
  <2>3. InHand(t)' = {}
    BY <2>2 DEF InHand, Holds, Alone
  <2>4. Running(t)' = {}
    BY <2>2 DEF Running, Executes, Executing, Alone, Agents
  <2> QED
    BY <1>1, <2>2, <2>3, <2>4 DEF Abroad
<1>3. CASE Executes(a, t)
  <2>1. a \in Running(t)
    BY <1>3 DEF Executes, Running
  <2>2. Running(t) = {a} /\ InHand(t) = {} /\ broker[t] = 0
    BY <1>1, <2>1 DEF OncePerId
  <2>3. InHand(t)' = {}
    BY <2>2 DEF InHand, Holds, Alone
  <2>4. Running(t)' = {}
    BY <2>2 DEF Running, Executes, Executing, Alone, Agents
  <2> QED
    BY <1>1, <2>2, <2>3, <2>4 DEF Abroad
<1> QED
  BY <1>2, <1>3

\* Workers whose handler may still exchange a completion.
Exchanging == {w \in Workers : mode = "active" /\ pc[w] \in {"stats", "record", "next"}}

Exchanges(a) == a \in Workers /\ mode = "active" /\ pc[a] \in {"stats", "record", "next"}

LEMMA RightsAreCounted ==
    ASSUME NEW a \in Agents, Alone(a), mode' = mode, IsFiniteSet(Exchanging)
    PROVE  /\ IsFiniteSet(Exchanging')
           /\ PendingRights \in Nat /\ PendingRights' \in Nat
           /\ PendingRights' = PendingRights + Count(Exchanges(a)') - Count(Exchanges(a))
<1>1. \A b : b # a => (b \in Exchanging <=> b \in Exchanging')
  BY DEF Exchanging, Alone, Agents
<1>2. (a \in Exchanging <=> Exchanges(a)) /\ (a \in Exchanging' <=> Exchanges(a)')
  BY DEF Exchanging, Exchanges
<1>3. /\ Count(a \in Exchanging) = Count(Exchanges(a))
      /\ Count(a \in Exchanging') = Count(Exchanges(a)')
  BY <1>2 DEF Count
<1>4. PendingRights = Cardinality(Exchanging) /\ PendingRights' = Cardinality(Exchanging')
  BY DEF PendingRights, Exchanging
<1> QED
  BY <1>1, <1>3, <1>4, OneMember

LEMMA OutKept ==
    ASSUME GateInv, GateInv', mode = "active", mode' = mode, NEW a \in Agents, Alone(a),
           \A t \in Tasks : Untouched(a, t) \/ (Abroad(t) /\ Abroad(t)')
    PROVE  OutTasks' = OutTasks
<1>1. \A t \in Tasks : Abroad(t)' <=> Abroad(t)
  BY UntouchedStays
<1> QED
  BY <1>1, OutIsAbroad

LEMMA OutDone ==
    ASSUME GateInv, GateInv', mode = "active", mode' = mode, NEW a \in Agents, Alone(a),
           NEW p \in Tasks, Holds(a, p) \/ Executes(a, p), ~Holds(a, p)', ~Executes(a, p)',
           broker'[p] = broker[p], \A t \in Tasks \ {p} : Untouched(a, t)
    PROVE  p \in OutTasks /\ OutTasks' = OutTasks \ {p}
<1>1. \A t \in Tasks \ {p} : Abroad(t)' <=> Abroad(t)
  BY UntouchedStays
<1>2. Abroad(p) /\ ~Abroad(p)'
  BY DoneIsHome
<1> QED
  BY <1>1, <1>2, OutIsAbroad

-----------------------------------------------------------------------------
(* The steps of the abstract gate *)

RefInv == GateInv /\ LedgerInv /\ HeapIsListed /\ IsFiniteSet(Exchanging)

\* The new part of RefInv, and a step of the abstract gate.
GateMoves ==
    /\ HeapIsListed' /\ IsFiniteSet(Exchanging')
    /\ Gate!GateNext \/ UNCHANGED <<WaitingQueue, OutTasks, PendingRights>>

LEMMA NoStep ==
    ASSUME RefInv, mode' = mode, NEW a \in Agents, Alone(a), heap' = heap, OutTasks' = OutTasks,
           Exchanges(a)' <=> Exchanges(a)
    PROVE  GateMoves
<1>1. Count(Exchanges(a)') = Count(Exchanges(a)) /\ Count(Exchanges(a)) \in Int
  BY DEF Count
<1>2. PendingRights' = PendingRights /\ IsFiniteSet(Exchanging')
  BY <1>1, RightsAreCounted DEF RefInv
<1> QED
  BY <1>2, KeptQueue DEF GateMoves, RefInv

LEMMA ForfeitStep ==
    ASSUME RefInv, mode' = mode, NEW a \in Agents, Alone(a), heap' = heap, OutTasks' = OutTasks,
           Exchanges(a), ~Exchanges(a)'
    PROVE  GateMoves
<1>1. Count(Exchanges(a)') = 0 /\ Count(Exchanges(a)) = 1
  BY DEF Count
<1>2. PendingRights > 0 /\ PendingRights' = PendingRights - 1 /\ IsFiniteSet(Exchanging')
  <2>1. /\ IsFiniteSet(Exchanging')
        /\ PendingRights \in Nat /\ PendingRights' \in Nat
        /\ PendingRights' = PendingRights + Count(Exchanges(a)') - Count(Exchanges(a))
    BY RightsAreCounted DEF RefInv
  <2> QED
    BY <1>1, <2>1
<1>3. HeapIsListed' /\ WaitingQueue' = WaitingQueue
  BY KeptQueue DEF RefInv
<1> QED
  BY <1>2, <1>3 DEF GateMoves, Gate!GateNext, Gate!Forfeit

LEMMA FinishStep ==
    ASSUME RefInv, mode' = mode, NEW a \in Agents, Alone(a), heap' = heap,
           NEW p \in OutTasks, OutTasks' = OutTasks \ {p}, ~Exchanges(a)
    PROVE  GateMoves
<1>1. Count(Exchanges(a)') \in {0, 1} /\ Count(Exchanges(a)) = 0
  BY DEF Count
<1>2. PendingRights' \in {PendingRights, PendingRights + 1} /\ IsFiniteSet(Exchanging')
  BY <1>1, RightsAreCounted DEF RefInv
<1>3. HeapIsListed' /\ WaitingQueue' = WaitingQueue /\ p \in Tasks
  BY KeptQueue DEF RefInv, OutTasks
<1>4. Gate!Finish(p)
  BY <1>2, <1>3 DEF Gate!Finish
<1> QED
  BY <1>2, <1>3, <1>4 DEF GateMoves, Gate!GateNext

\* dispatch_next() of a client opens the gate; that of a worker is an exchange.
LEMMA PopStep ==
    ASSUME RefInv, GateInv', mode = "active", mode' = mode, NEW a \in Agents,
           pc[a] \in {"idle", "next"}, Pop(a), broker' = broker,
           (pc[a] = "next" /\ a \in Workers) \/ a \in Clients
    PROVE  GateMoves
<1>1. PICK e \in heap : /\ \A f \in heap \ {e} : Before(e, f)
                        /\ heap' = heap \ {e}
                        /\ Goto(a, "apply", e.tid, e.score)
  BY DEF Pop
<1>2. TypeOK /\ TypeOK' /\ e.tid \in Tasks
  BY NumbersTyped DEF RefInv, GateInv
<1>3. Alone(a) /\ pc'[a] = "apply" /\ job'[a] = e.tid
  BY <1>1, <1>2, GotoDoes
<1>4. PICK i \in DOMAIN WaitingQueue :
         /\ Gate!IsFirst(i)
         /\ WaitingQueue' = Gate!RemoveAt(WaitingQueue, i)
         /\ WaitingQueue[i].tid = e.tid
  BY <1>1, <1>2, PoppedQueue DEF RefInv
<1>5. HeapIsListed'
  BY <1>1, <1>2, PoppedQueue DEF RefInv
<1>6. OutTasks' = OutTasks \cup {e.tid}
  <2>1. \A t \in Tasks \ {e.tid} : Untouched(a, t)
    BY <1>3 DEF Untouched, Holds, Executes, Executing
  <2>2. Abroad(e.tid)'
    BY <1>3 DEF Abroad, InHand
  <2>3. \A t \in Tasks \ {e.tid} : Abroad(t)' <=> Abroad(t)
    BY <1>3, <2>1, UntouchedStays
  <2> QED
    BY <1>2, <2>2, <2>3, OutIsAbroad DEF RefInv
<1>7. Gate!Leave
  BY <1>4, <1>6 DEF Gate!Leave
<1>8. CASE a \in Clients
  <2>1. Count(Exchanges(a)') = 0 /\ Count(Exchanges(a)) = 0
    BY <1>8, GateAssumption DEF Count, Exchanges
  <2>2. PendingRights' = PendingRights /\ IsFiniteSet(Exchanging')
    BY <1>3, <2>1, RightsAreCounted DEF RefInv
  <2> QED
    BY <1>5, <1>7, <2>2 DEF GateMoves, Gate!GateNext, Gate!Open
<1>9. CASE pc[a] = "next" /\ a \in Workers
  <2>1. Count(Exchanges(a)') = 0 /\ Count(Exchanges(a)) = 1
    BY <1>3, <1>9 DEF Count, Exchanges
  <2>2. PendingRights > 0 /\ PendingRights' = PendingRights - 1 /\ IsFiniteSet(Exchanging')
    <3>1. /\ IsFiniteSet(Exchanging')
          /\ PendingRights \in Nat /\ PendingRights' \in Nat
          /\ PendingRights' = PendingRights + Count(Exchanges(a)') - Count(Exchanges(a))
      BY <1>3, RightsAreCounted DEF RefInv
    <3> QED
      BY <2>1, <3>1
  <2> QED
    BY <1>5, <1>7, <2>2 DEF GateMoves, Gate!GateNext, Gate!Exchange
<1> QED
  BY <1>8, <1>9

\* submit() admits a task that is neither waiting nor out.
LEMMA PushStep ==
    ASSUME RefInv, GateInv', mode = "active", mode' = mode, NEW c \in Clients, Push(c)
    PROVE  GateMoves
<1> DEFINE t == job[c]
           e == [score |-> prio[c], seq |-> arrivals, tid |-> t]
<1>1. /\ pc[c] = "push" /\ registry[t] = "absent" /\ heap' = heap \cup {e}
      /\ Goto(c, "idle", NoTask, NoScore) /\ broker' = broker
  BY DEF Push, Rest
<1>2. c \in Agents /\ TypeOK /\ TypeOK' /\ t \in Tasks /\ prio[c] \in Scores
  BY <1>1 DEF RefInv, GateInv, TypeOK, Agents
<1>3. Alone(c) /\ pc'[c] = "idle"
  BY <1>1, <1>2, GotoDoes
<1>4. e.seq = arrivals /\ e \notin heap /\ View(e) = [tid |-> t, score |-> prio[c]]
  <2>1. e.seq = arrivals /\ e.tid = t /\ e.score = prio[c]
    OBVIOUS
  <2>2. e \notin heap
    BY <1>2, <2>1 DEF RefInv, LedgerInv, NumbersAreFresh, TypeOK
  <2> QED
    BY <2>1, <2>2 DEF View
<1> HIDE DEF e
<1>5. HeapIsListed' /\ WaitingQueue' = Append(WaitingQueue, [tid |-> t, score |-> prio[c]])
  BY <1>1, <1>2, <1>4, PushedQueue DEF RefInv, LedgerInv
<1>6. ~Live(t)
  BY <1>1, <1>2 DEF RefInv, GateInv, ActiveInv
<1>7. t \notin OutTasks /\ \A i \in DOMAIN WaitingQueue : WaitingQueue[i].tid # t
  <2>1. \A f \in heap : f.tid # t
    BY <1>6 DEF Live, Waiting
  <2>2. PICK q, n : Lists(q, n, heap)
    BY DEF RefInv, HeapIsListed
  <2>3. WaitingQueue = [i \in 1..n |-> View(q[i])]
    BY <1>2, <2>2, NumbersTyped, QueueIs
  <2>4. \A i \in 1..n : q[i] \in heap
    BY <2>2 DEF Lists
  <2> QED
    BY <1>6, <2>1, <2>3, <2>4 DEF OutTasks, View
<1>8. OutTasks' = OutTasks
  <2>1. \A u \in Tasks : Untouched(c, u)
    BY <1>1, <1>2, <1>3, GateAssumption DEF Untouched, Holds, Executes
  <2> QED
    BY <1>2, <1>3, <2>1, OutKept DEF RefInv
<1>9. PendingRights' = PendingRights /\ IsFiniteSet(Exchanging')
  <2>1. Count(Exchanges(c)') = 0 /\ Count(Exchanges(c)) = 0
    BY GateAssumption DEF Count, Exchanges
  <2> QED
    BY <1>2, <1>3, <2>1, RightsAreCounted DEF RefInv
<1>10. Gate!Admit(t, prio[c])
  BY <1>5, <1>7, <1>8, <1>9 DEF Gate!Admit
<1> QED
  BY <1>2, <1>5, <1>9, <1>10 DEF GateMoves, Gate!GateNext

\* A thread that holds no task and executes none, before and after.
LEMMA IdleStep ==
    ASSUME RefInv, GateInv', mode = "active", mode' = mode, NEW a \in Agents, Alone(a),
           broker' = broker, \A t \in Tasks : ~Holds(a, t) /\ ~Holds(a, t)',
           \A t \in Tasks : ~Executes(a, t) /\ ~Executes(a, t)'
    PROVE  OutTasks' = OutTasks
<1>1. \A t \in Tasks : Untouched(a, t)
  BY DEF Untouched
<1> QED
  BY <1>1, OutKept DEF RefInv

\* apply_fn() returns: the message is at the broker.
LEMMA ApplyStep ==
    ASSUME RefInv, GateInv', mode = "active", mode' = mode, NEW a \in Agents, Apply(a)
    PROVE  GateMoves
<1>1. /\ pc[a] = "apply" /\ broker' = [broker EXCEPT ![job[a]] = @ + 1]
      /\ Goto(a, "idle", NoTask, NoScore) /\ heap' = heap
  BY DEF Apply, Rest, gate
<1>2. /\ TypeOK /\ broker \in [Tasks -> Nat]
  BY DEF RefInv, GateInv, TypeOK
<1>3. PICK p \in Tasks : p = job[a]
  BY <1>1, <1>2 DEF TypeOK
<1>4. Alone(a) /\ pc'[a] = "idle"
  BY <1>1, <1>2, GotoDoes
<1>5. \A t \in Tasks \ {p} : Untouched(a, t)
  BY <1>1, <1>2, <1>3, <1>4 DEF Untouched, Holds, Executes, Executing
<1>6. Abroad(p) /\ Abroad(p)'
  <2>1. a \in InHand(p)
    BY <1>1, <1>3 DEF InHand
  <2>2. broker'[p] > 0
    BY <1>1, <1>2, <1>3
  <2> QED
    BY <2>1, <2>2 DEF Abroad
<1>7. OutTasks' = OutTasks
  BY <1>4, <1>5, <1>6, OutKept DEF RefInv
<1> QED
  BY <1>1, <1>4, <1>7, NoStep DEF Exchanges

\* apply_fn() raises: the task is out no more.
LEMMA ApplyRaisesStep ==
    ASSUME RefInv, GateInv', mode = "active", mode' = mode, NEW a \in Agents, ApplyRaises(a)
    PROVE  GateMoves
<1>1. /\ pc[a] = "apply" /\ broker' = broker /\ heap' = heap
      /\ Goto(a, "idle", NoTask, NoScore)
  BY DEF ApplyRaises, Rest, gate
<1>2. TypeOK
  BY DEF RefInv, GateInv
<1>3. PICK p \in Tasks : p = job[a]
  BY <1>1, <1>2 DEF TypeOK
<1>4. Alone(a) /\ pc'[a] = "idle"
  BY <1>1, <1>2, GotoDoes
<1>5. /\ \A t \in Tasks \ {p} : Untouched(a, t)
      /\ Holds(a, p) /\ ~Holds(a, p)' /\ ~Executes(a, p)' /\ broker'[p] = broker[p]
  BY <1>1, <1>3, <1>4 DEF Untouched, Holds, Executes, Executing
<1>6. p \in OutTasks /\ OutTasks' = OutTasks \ {p}
  BY <1>4, <1>5, OutDone DEF RefInv
<1> QED
  BY <1>1, <1>4, <1>6, FinishStep DEF Exchanges

LEMMA ClientStepRefines ==
    ASSUME RefInv, GateInv', mode = "active", mode' = mode, NEW c \in Clients, ClientStep(c)
    PROVE  GateMoves
<1>1. c \in Agents /\ c \notin Workers /\ TypeOK
  BY GateAssumption DEF Agents, RefInv, GateInv
<1>2. ~Exchanges(c) /\ ~Exchanges(c)' /\ \A t \in Tasks : ~Executes(c, t) /\ ~Executes(c, t)'
  BY <1>1 DEF Exchanges, Executes
<1>3. CASE \/ \E t \in Tasks : SubmitFifo(c, t)
           \/ \E t \in Tasks : ScoreTask(c, t)
           \/ Reject(c)
  <2>1. PICK label, t, s : /\ label \in {"direct", "push", "idle"}
                           /\ pc[c] # "apply" /\ Goto(c, label, t, s)
                           /\ heap' = heap /\ broker' = broker
    BY <1>3 DEF SubmitFifo, ScoreTask, Reject, Rest, gate
  <2>2. Alone(c) /\ \A u \in Tasks : ~Holds(c, u) /\ ~Holds(c, u)'
    BY <1>1, <2>1, GotoDoes DEF Holds
  <2>3. OutTasks' = OutTasks
    BY <1>1, <1>2, <2>1, <2>2, IdleStep
  <2> QED
    BY <1>1, <1>2, <2>1, <2>2, <2>3, NoStep
<1>4. CASE Push(c)
  BY <1>4, PushStep
<1>5. CASE SendDirect(c) \/ SendDirectRaises(c)
  <2>1. pc[c] = "direct"
    BY <1>5 DEF SendDirect, SendDirectRaises
  <2> QED
    BY <1>1, <2>1 DEF RefInv, GateInv, ActiveInv
<1>6. CASE Kick(c)
  <2>1. pc[c] = "idle" /\ Pop(c) /\ broker' = broker
    BY <1>6 DEF Kick
  <2> QED
    BY <1>1, <2>1, PopStep
<1>7. CASE Apply(c)
  BY <1>1, <1>7, ApplyStep
<1>8. CASE ApplyRaises(c)
  BY <1>1, <1>8, ApplyRaisesStep
<1> QED
  BY <1>3, <1>4, <1>5, <1>6, <1>7, <1>8 DEF ClientStep

\* A message moves from the broker to a worker.
LEMMA ReceiveStep ==
    ASSUME RefInv, GateInv', mode = "active", mode' = mode,
           NEW w \in Workers, NEW p \in Tasks, Receive(w, p)
    PROVE  GateMoves
<1>1. /\ pc[w] = "idle" /\ broker[p] > 0 /\ broker' = [broker EXCEPT ![p] = @ - 1]
      /\ Goto(w, "received", p, NoScore) /\ heap' = heap
  BY DEF Receive, gate
<1>2. w \in Agents /\ TypeOK /\ broker \in [Tasks -> Nat]
  BY DEF RefInv, GateInv, TypeOK, Agents
<1>3. Alone(w) /\ pc'[w] = "received" /\ job'[w] = p
  BY <1>1, <1>2, GotoDoes
<1>4. \A t \in Tasks \ {p} : Untouched(w, t)
  BY <1>1, <1>2, <1>3 DEF Untouched, Holds, Executes, Executing
<1>5. Abroad(p) /\ Abroad(p)'
  <2>1. w \in Running(p)'
    BY <1>3 DEF Running, Executing
  <2> QED
    BY <1>1, <2>1 DEF Abroad
<1>6. OutTasks' = OutTasks
  BY <1>2, <1>3, <1>4, <1>5, OutKept DEF RefInv
<1> QED
  BY <1>1, <1>2, <1>3, <1>6, NoStep DEF Exchanges

LEMMA PrerunStep ==
    ASSUME RefInv, GateInv', mode = "active", mode' = mode, NEW w \in Workers, Prerun(w)
    PROVE  GateMoves
<1>1. /\ pc[w] = "received" /\ broker' = broker /\ heap' = heap
      /\ Goto(w, "running", job[w], NoScore)
  BY DEF Prerun
<1>2. w \in Agents /\ TypeOK
  BY DEF RefInv, GateInv, Agents
<1>3. Alone(w) /\ pc'[w] = "running" /\ job'[w] = job[w]
  BY <1>1, <1>2, GotoDoes
<1>4. \A t \in Tasks : Untouched(w, t)
  BY <1>1, <1>3 DEF Untouched, Holds, Executes, Executing
<1>5. OutTasks' = OutTasks
  BY <1>2, <1>3, <1>4, OutKept DEF RefInv
<1> QED
  BY <1>1, <1>2, <1>3, <1>5, NoStep DEF Exchanges

\* An execution ends with a success, a failure or a revocation: of these only a
\* success leaves a completion to exchange.
LEMMA EndStep ==
    ASSUME RefInv, GateInv', mode = "active", mode' = mode, NEW w \in Workers,
           CompletePop(w) \/ Fail(w) \/ Revoke(w)
    PROVE  GateMoves
<1>1. /\ pc[w] \in {"received", "running"} /\ broker' = broker /\ heap' = heap
      /\ \E label, t, s : label \in {"stats", "next", "idle"} /\ Goto(w, label, t, s)
  <2>1. CASE CompletePop(w)
    BY <2>1 DEF CompletePop, AfterRecord
  <2>2. CASE Fail(w)
    BY <2>2 DEF Fail, Cleanup, Rest
  <2>3. CASE Revoke(w)
    BY <2>3 DEF Revoke, Cleanup, Rest, Executing
  <2> QED
    BY <2>1, <2>2, <2>3
<1>2. PICK label, t, s : label \in {"stats", "next", "idle"} /\ Goto(w, label, t, s)
  BY <1>1
<1>3. w \in Agents /\ TypeOK
  BY DEF RefInv, GateInv, Agents
<1>4. PICK p \in Tasks : p = job[w]
  BY <1>1, <1>3 DEF TypeOK
<1>5. Alone(w) /\ pc'[w] \in {"stats", "next", "idle"}
  BY <1>2, <1>3, GotoDoes
<1>6. /\ \A u \in Tasks \ {p} : Untouched(w, u)
      /\ Executes(w, p) /\ ~Holds(w, p)' /\ ~Executes(w, p)' /\ broker'[p] = broker[p]
  BY <1>1, <1>4, <1>5 DEF Untouched, Holds, Executes, Executing
<1>7. p \in OutTasks /\ OutTasks' = OutTasks \ {p}
  BY <1>3, <1>5, <1>6, OutDone DEF RefInv
<1> QED
  BY <1>1, <1>3, <1>5, <1>7, FinishStep DEF Exchanges

\* A retry sends the message again: the task stays out.
LEMMA RetryStep ==
    ASSUME RefInv, GateInv', mode = "active", mode' = mode, NEW w \in Workers, Retry(w)
    PROVE  GateMoves
<1>1. /\ pc[w] = "running" /\ broker' = [broker EXCEPT ![job[w]] = @ + 1] /\ heap' = heap
      /\ Goto(w, "idle", NoTask, NoScore)
  BY DEF Retry, Rest, gate
<1>2. w \in Agents /\ TypeOK /\ broker \in [Tasks -> Nat]
  BY DEF RefInv, GateInv, TypeOK, Agents
<1>3. PICK p \in Tasks : p = job[w]
  BY <1>1, <1>2 DEF TypeOK
<1>4. Alone(w) /\ pc'[w] = "idle"
  BY <1>1, <1>2, GotoDoes
<1>5. \A t \in Tasks \ {p} : Untouched(w, t)
  BY <1>1, <1>2, <1>3, <1>4 DEF Untouched, Holds, Executes, Executing
<1>6. Abroad(p) /\ Abroad(p)'
  <2>1. w \in Running(p)
    BY <1>1, <1>3 DEF Running, Executing
  <2>2. broker'[p] > 0
    BY <1>1, <1>2, <1>3
  <2> QED
    BY <2>1, <2>2 DEF Abroad
<1>7. OutTasks' = OutTasks
  BY <1>2, <1>4, <1>5, <1>6, OutKept DEF RefInv
<1> QED
  BY <1>1, <1>2, <1>4, <1>7, NoStep DEF Exchanges

\* The success handler: the completion waits, is exchanged or is forfeited.
LEMMA HandlerStep ==
    ASSUME RefInv, GateInv', mode = "active", mode' = mode, NEW w \in Workers,
           RecordStats(w) \/ RankerRecord(w) \/ RankerRecordRaises(w) \/ DispatchNothing(w)
    PROVE  GateMoves
<1>1. /\ pc[w] \in {"stats", "record", "next"} /\ broker' = broker /\ heap' = heap
      /\ \E label, t, s : label \in {"record", "next", "idle"} /\ Goto(w, label, t, s)
  <2>1. CASE RecordStats(w)
    BY <2>1 DEF RecordStats, AfterRecord
  <2>2. CASE RankerRecord(w)
    BY <2>2 DEF RankerRecord, AfterRecord, gate
  <2>3. CASE RankerRecordRaises(w)
    BY <2>3 DEF RankerRecordRaises, Rest, gate
  <2>4. CASE DispatchNothing(w)
    BY <2>4 DEF DispatchNothing, Rest, gate
  <2> QED
    BY <2>1, <2>2, <2>3, <2>4
<1>2. PICK label, t, s : label \in {"record", "next", "idle"} /\ Goto(w, label, t, s)
  BY <1>1
<1>3. w \in Agents /\ TypeOK
  BY DEF RefInv, GateInv, Agents
<1>4. Alone(w) /\ pc'[w] \in {"record", "next", "idle"}
  BY <1>2, <1>3, GotoDoes
<1>5. OutTasks' = OutTasks
  <2>1. \A u \in Tasks : /\ ~Holds(w, u) /\ ~Holds(w, u)'
                         /\ ~Executes(w, u) /\ ~Executes(w, u)'
    BY <1>1, <1>4 DEF Holds, Executes, Executing
  <2> QED
    BY <1>1, <1>3, <1>4, <2>1, IdleStep
<1>6. Exchanges(w)
  BY <1>1 DEF Exchanges
<1>7. CASE Exchanges(w)'
  BY <1>1, <1>3, <1>4, <1>5, <1>6, <1>7, NoStep
<1>8. CASE ~Exchanges(w)'
  BY <1>1, <1>3, <1>4, <1>5, <1>6, <1>8, ForfeitStep
<1> QED
  BY <1>7, <1>8

LEMMA WorkerStepRefines ==
    ASSUME OnceDelivered, RefInv, GateInv', mode = "active", mode' = mode,
           NEW w \in Workers, WorkerStep(w)
    PROVE  GateMoves
<1>1. w \in Agents
  BY DEF Agents
<1>2. CASE \E t \in Tasks : Receive(w, t)
  BY <1>2, ReceiveStep
<1>3. CASE Prerun(w)
  BY <1>3, PrerunStep
<1>4. CASE CompletePop(w) \/ Fail(w) \/ Revoke(w)
  BY <1>4, EndStep
<1>5. CASE RecordStats(w) \/ RankerRecord(w) \/ RankerRecordRaises(w) \/ DispatchNothing(w)
  BY <1>5, HandlerStep
<1>6. CASE DispatchNext(w)
  <2>1. pc[w] = "next" /\ Pop(w) /\ broker' = broker
    BY <1>6 DEF DispatchNext
  <2> QED
    BY <1>1, <2>1, PopStep
<1>7. CASE Apply(w)
  BY <1>1, <1>7, ApplyStep
<1>8. CASE ApplyRaises(w)
  BY <1>1, <1>8, ApplyRaisesStep
<1>9. CASE Retry(w)
  BY <1>9, RetryStep
<1>10. CASE Redeliver(w)
  BY <1>10 DEF Redeliver, Abnormal, OnceDelivered
<1> QED
  BY <1>2, <1>3, <1>4, <1>5, <1>6, <1>7, <1>8, <1>9, <1>10 DEF WorkerStep

\* In the other modes the gate of the abstraction stays empty.
LEMMA OtherModesRefine ==
    ASSUME RefInv, GateInv', mode # "active", mode' = mode
    PROVE  GateMoves
<1>1. heap = {} /\ heap' = {}
  BY DEF RefInv, GateInv
<1>2. HeapIsListed' /\ WaitingQueue' = WaitingQueue
  BY <1>1, KeptQueue DEF RefInv
<1>3. OutTasks' = OutTasks
  BY DEF OutTasks
<1>4. Exchanging = {} /\ Exchanging' = {}
  BY DEF Exchanging
<1>5. PendingRights' = PendingRights
  BY <1>4 DEF PendingRights, Exchanging
<1> QED
  BY <1>2, <1>3, <1>4, <1>5, FS_EmptySet DEF GateMoves

LEMMA StepRefines ==
    ASSUME OnceDelivered, RefInv, GateInv', [Next]_vars
    PROVE  GateMoves
<1>1. mode' = mode
  BY ModeIsFixed
<1>2. CASE mode # "active"
  BY <1>1, <1>2, OtherModesRefine
<1>3. CASE mode = "active" /\ Next
  BY <1>1, <1>3, ClientStepRefines, WorkerStepRefines DEF Next
<1>4. CASE UNCHANGED vars
  <2>1. /\ UNCHANGED <<mode, heap, broker, pc, job>>
    BY <1>4 DEF vars, gate, threads
  <2>2. Exchanging' = Exchanging /\ PendingRights' = PendingRights /\ OutTasks' = OutTasks
    BY <2>1 DEF Exchanging, PendingRights, OutTasks, Live, Waiting, InHand, Running, Executing
  <2> QED
    BY <2>1, <2>2, KeptQueue DEF GateMoves, RefInv
<1> QED
  BY <1>2, <1>3, <1>4

LEMMA InitRefines == Init => HeapIsListed /\ IsFiniteSet(Exchanging) /\ Gate!GateInit
<1> SUFFICES ASSUME Init PROVE HeapIsListed /\ IsFiniteSet(Exchanging) /\ Gate!GateInit
  OBVIOUS
<1>1. heap = {} /\ \A a \in Agents : pc[a] = "idle"
  BY DEF Init
<1>2. Lists([i \in 1..0 |-> i], 0, heap)
  BY <1>1 DEF Lists
<1>3. Exchanging = {}
  BY <1>1 DEF Exchanging, Agents
<1>4. PendingRights = 0
  BY <1>3, FS_EmptySet DEF PendingRights, Exchanging
<1>5. WaitingQueue = <<>>
  <2>1. Cardinality(heap) = 0
    BY <1>1, FS_EmptySet
  <2> QED
    BY <2>1 DEF WaitingQueue
<1>6. OutTasks = {}
  BY <1>1, GateAssumption DEF Init, OutTasks, Live, Waiting, InHand, Running, Executing, Agents
<1> QED
  BY <1>2, <1>3, <1>4, <1>5, <1>6, FS_EmptySet DEF HeapIsListed, Gate!GateInit

\* Threads, registry, broker and signal handlers together implement the abstract
\* gate, whatever their number and interleaving: a task leaves by its score and
\* its admission, only when somebody outside asks or for the completion of one
\* that had left.  A second delivery of a message, or an apply_fn that renames
\* the task, would break it.
THEOREM GateIsImplemented == ASSUME PassesIds, OnceDelivered PROVE Spec => ImplementsGate
<1>1. Init => Gate!GateInit
  BY InitRefines
<1>2. RefInv /\ GateInv' /\ [Next]_vars =>
         (HeapIsListed /\ IsFiniteSet(Exchanging))' /\ [Gate!GateNext]_(Gate!gateVars)
  BY StepRefines DEF GateMoves, Gate!gateVars
<1>3. Init => HeapIsListed /\ IsFiniteSet(Exchanging)
  BY InitRefines
<1>4. Spec => []GateInv
  BY GateInvariance
<1>5. Spec => []LedgerInv
  BY LedgerInvariance
<1>6. RefInv <=> GateInv /\ LedgerInv /\ HeapIsListed /\ IsFiniteSet(Exchanging)
  BY DEF RefInv
<1> QED
  BY <1>1, <1>2, <1>3, <1>4, <1>5, <1>6, PTL DEF Spec, ImplementsGate, Gate!GateSpec
=============================================================================
