--------------------------- MODULE CeleryDemosProofs ---------------------------
(***************************************************************************)
(* The order in which the demo programs send their batch, and the truth of *)
(* what they report, for every batch, every estimator, any number of       *)
(* workers and faults.                                                     *)
(***************************************************************************)
EXTENDS CeleryDemos, SequenceTheorems, FiniteSetTheorems, WellFoundedInduction, TLAPS

-----------------------------------------------------------------------------
(* Sequences *)

LEMMA AppendIs ==
    ASSUME NEW S, NEW s \in Seq(S), NEW e \in S
    PROVE  /\ Append(s, e) \in Seq(S) /\ Append(s, e) # <<>>
           /\ Len(s) \in Nat /\ Len(Append(s, e)) = Len(s) + 1
           /\ \A i \in 1..Len(s) : Append(s, e)[i] = s[i] /\ s[i] \in S
           /\ Append(s, e)[Len(s) + 1] = e
           /\ Range(Append(s, e)) = Range(s) \cup {e}
<1>1. /\ Append(s, e) \in Seq(S) /\ Append(s, e) # <<>>
      /\ Len(s) \in Nat /\ Len(Append(s, e)) = Len(s) + 1
      /\ \A i \in 1..Len(s) : Append(s, e)[i] = s[i] /\ s[i] \in S
      /\ Append(s, e)[Len(s) + 1] = e
  BY AppendProperties, LenProperties, ElementOfSeq
<1>2. DOMAIN s = 1..Len(s) /\ DOMAIN Append(s, e) = 1..(Len(s) + 1)
  BY <1>1, LenProperties
<1>3. \A i \in 1..(Len(s) + 1) : i \in 1..Len(s) \/ i = Len(s) + 1
  BY <1>1
<1>4. /\ Len(s) + 1 \in 1..(Len(s) + 1)
      /\ \A i \in 1..Len(s) : i \in 1..(Len(s) + 1)
  BY <1>1
<1>5. Range(Append(s, e)) = Range(s) \cup {e}
  BY <1>1, <1>2, <1>3, <1>4, Zenon DEF Range
<1> QED
  BY <1>1, <1>5

\* A sequence and one more are its beginning and itself.
LEMMA AppendIsLonger ==
    ASSUME NEW S, NEW s \in Seq(S), NEW e \in S
    PROVE  IsPrefix(s, s) /\ IsPrefix(s, Append(s, e))
<1>1. /\ Len(s) \in Nat /\ Append(s, e) \in Seq(S) /\ Len(Append(s, e)) = Len(s) + 1
      /\ \A i \in 1..Len(s) : Append(s, e)[i] = s[i] /\ s[i] \in S
  BY AppendIs
<1>2. /\ SubSeq(s, 1, Len(s)) \in Seq(S) /\ SubSeq(Append(s, e), 1, Len(s)) \in Seq(S)
      /\ Len(SubSeq(s, 1, Len(s))) = Len(SubSeq(Append(s, e), 1, Len(s)))
      /\ \A i \in 1..Len(SubSeq(s, 1, Len(s))) :
            SubSeq(s, 1, Len(s))[i] = SubSeq(Append(s, e), 1, Len(s))[i]
  BY <1>1, SubSeqProperties
<1>3. SubSeq(s, 1, Len(s)) = SubSeq(Append(s, e), 1, Len(s))
  BY <1>2, SeqEqual
<1> QED
  BY <1>1, <1>3 DEF IsPrefix

LEMMA EmptyIs == <<>> \in Seq(Jobs) /\ Len(<<>>) = 0 /\ Range(<<>>) = {}
  BY DEF Range

-----------------------------------------------------------------------------
(* The stack of nested tasks *)

Frames == [job : Jobs, at : {"received", "running", "handler", "over"}]

Executes(s) == s # <<>> /\ s[Len(s)].at \in {"received", "running"}
Nested(s) == \A k \in 1..Len(s) : s[k].at = "handler" <=> k < Len(s)

\* One frame of a stack moves.
MovedTo(s, k, place) == [s EXCEPT ![k].at = place]

LEMMA MovedIs ==
    ASSUME NEW s \in Seq(Frames), NEW k \in 1..Len(s),
           NEW place \in {"received", "running", "handler", "over"}
    PROVE  /\ MovedTo(s, k, place) \in Seq(Frames) /\ Len(MovedTo(s, k, place)) = Len(s)
           /\ Len(s) \in Nat /\ s # <<>> /\ MovedTo(s, k, place) # <<>>
           /\ \A i \in 1..Len(s) : MovedTo(s, k, place)[i].at = IF i = k THEN place ELSE s[i].at
           /\ \A i \in 1..Len(s) : MovedTo(s, k, place)[i].job = s[i].job /\ s[i].job \in Jobs
<1> DEFINE e == [s[k] EXCEPT !.at = place]
<1>1. Len(s) \in Nat /\ \A i \in 1..Len(s) : s[i] \in Frames
  BY LenProperties, ElementOfSeq
<1>2. e \in Frames /\ e.at = place /\ e.job = s[k].job
  BY <1>1 DEF Frames
<1>3. MovedTo(s, k, place) = [s EXCEPT ![k] = e]
  BY DEF MovedTo
<1> HIDE DEF e
<1>4. /\ [s EXCEPT ![k] = e] \in Seq(Frames)
      /\ Len([s EXCEPT ![k] = e]) = Len(s)
      /\ \A j \in 1..Len(s) : [s EXCEPT ![k] = e][j] = IF j = k THEN e ELSE s[j]
  BY <1>2, ExceptSeq
<1>5. \A i \in 1..Len(s) : s[i].job \in Jobs
  BY <1>1 DEF Frames
<1>6. s # <<>> /\ [s EXCEPT ![k] = e] # <<>>
  BY <1>1, <1>4
<1> QED
  BY <1>1, <1>2, <1>3, <1>4, <1>5, <1>6

\* The stack when its top has returned to the handler that dispatched it.
Left(s) == IF Len(s) = 1 THEN <<>> ELSE MovedTo(SubSeq(s, 1, Len(s) - 1), Len(s) - 1, "over")

LEMMA LeftIs ==
    ASSUME NEW s \in Seq(Frames), s # <<>>, Nested(s)
    PROVE  /\ Left(s) \in Seq(Frames) /\ Nested(Left(s)) /\ ~Executes(Left(s))
           /\ Len(s) \in Nat \ {0} /\ Len(Left(s)) = Len(s) - 1
           /\ Left(s) # <<>> => Len(s) > 1
<1>1. Len(s) \in Nat \ {0} /\ \A i \in 1..Len(s) : s[i] \in Frames
  BY LenProperties, ElementOfSeq, EmptySeq
<1>2. CASE Len(s) = 1
  BY <1>2 DEF Left, Nested, Executes
<1>3. CASE Len(s) # 1
  <2> DEFINE f == SubSeq(s, 1, Len(s) - 1)
  <2>1. /\ f \in Seq(Frames) /\ Len(f) = Len(s) - 1
        /\ \A i \in 1..(Len(s) - 1) : f[i] = s[i]
    <3>1. Len(s) - 1 \in Int /\ \A i \in 1..(Len(s) - 1) : s[i] \in Frames
      BY <1>1
    <3> DEFINE n == Len(s) - 1
    <3>2. n \in Nat \ {0} /\ n - 1 + 1 = n /\ \A i \in 1..n : 1 + i - 1 = i
      BY <1>1, <1>3
    <3>3. f = SubSeq(s, 1, n) /\ \A i \in 1..n : s[i] \in Frames
      BY <3>1
    <3> HIDE DEF n
    <3>4. /\ SubSeq(s, 1, n) \in Seq(Frames)
          /\ Len(SubSeq(s, 1, n)) = IF 1 <= n THEN n - 1 + 1 ELSE 0
          /\ \A i \in 1..(n - 1 + 1) : SubSeq(s, 1, n)[i] = s[1 + i - 1]
      BY <3>2, <3>3, SubSeqProperties
    <3>5. f \in Seq(Frames) /\ Len(f) = n /\ \A i \in 1..n : f[i] = s[i]
      BY <3>2, <3>3, <3>4
    <3> QED
      BY <3>5 DEF n
  <2>2. Left(s) = MovedTo(f, Len(f), "over") /\ Len(f) \in 1..Len(f)
    BY <1>1, <1>3, <2>1 DEF Left
  <2> HIDE DEF f
  <2>3. /\ Left(s) \in Seq(Frames) /\ Len(Left(s)) = Len(f)
        /\ \A i \in 1..Len(f) : Left(s)[i].at = IF i = Len(f) THEN "over" ELSE f[i].at
    BY <2>1, <2>2, MovedIs
  <2>4. \A i \in 1..Len(f) : i < Len(f) => f[i].at = "handler"
    BY <1>1, <2>1 DEF Nested
  <2>5. Nested(Left(s))
    BY <1>1, <2>1, <2>3, <2>4 DEF Nested
  <2>6. ~Executes(Left(s))
    BY <1>1, <1>3, <2>1, <2>3 DEF Executes
  <2> QED
    BY <1>1, <1>3, <2>1, <2>3, <2>5, <2>6
<1> QED
  BY <1>2, <1>3

\* The top goes on in the same task.
LEMMA TopMoves ==
    ASSUME NEW s \in Seq(Frames), s # <<>>, Nested(s), NEW place \in {"running", "over"}
    PROVE  /\ MovedTo(s, Len(s), place) \in Seq(Frames) /\ Nested(MovedTo(s, Len(s), place))
           /\ Len(MovedTo(s, Len(s), place)) = Len(s) /\ MovedTo(s, Len(s), place) # <<>>
           /\ Executes(MovedTo(s, Len(s), place)) <=> place = "running"
           /\ MovedTo(s, Len(s), place)[Len(s)].job = s[Len(s)].job
<1>1. Len(s) \in Nat /\ Len(s) \in 1..Len(s)
  BY LenProperties, EmptySeq
<1>2. /\ MovedTo(s, Len(s), place) \in Seq(Frames) /\ Len(MovedTo(s, Len(s), place)) = Len(s)
      /\ MovedTo(s, Len(s), place) # <<>>
      /\ \A i \in 1..Len(s) :
            MovedTo(s, Len(s), place)[i].at = IF i = Len(s) THEN place ELSE s[i].at
      /\ \A i \in 1..Len(s) : MovedTo(s, Len(s), place)[i].job = s[i].job
  BY <1>1, MovedIs
<1> QED
  BY <1>1, <1>2 DEF Nested, Executes

\* A task is called from the handlers below it.
Called(s, j) == Append(s, [job |-> j, at |-> "received"])

LEMMA CalledIs ==
    ASSUME NEW s \in Seq(Frames), NEW j \in Jobs, \A k \in 1..Len(s) : s[k].at = "handler"
    PROVE  /\ Called(s, j) \in Seq(Frames) /\ Nested(Called(s, j)) /\ Executes(Called(s, j))
           /\ Called(s, j) # <<>> /\ Len(Called(s, j)) = Len(s) + 1
           /\ Called(s, j)[Len(Called(s, j))].job = j
<1> DEFINE e == [job |-> j, at |-> "received"]
<1>1. e \in Frames /\ e.at = "received" /\ e.job = j
  BY DEF Frames
<1>2. Called(s, j) = Append(s, e)
  BY DEF Called
<1> HIDE DEF e
<1>3. /\ Called(s, j) \in Seq(Frames) /\ Called(s, j) # <<>>
      /\ Len(s) \in Nat /\ Len(Called(s, j)) = Len(s) + 1
      /\ \A i \in 1..Len(s) : Called(s, j)[i] = s[i]
      /\ Called(s, j)[Len(s) + 1] = e
  BY <1>1, <1>2, AppendIs
<1> QED
  BY <1>1, <1>3 DEF Nested, Executes

LEMMA EmptyStackIs ==
    /\ <<>> \in Seq(Frames) /\ Len(<<>>) = 0 /\ Nested(<<>>) /\ ~Executes(<<>>)
    /\ \A k \in 1..Len(<<>>) : <<>>[k].at = "handler"
<1>1. <<>> \in Seq(Frames) /\ Len(<<>>) = 0 /\ 1..0 = {}
  BY EmptySeq
<1> QED
  BY <1>1 DEF Nested, Executes

LEMMA FirstCalledIs ==
    ASSUME NEW s, s = <<>>, NEW j \in Jobs
    PROVE  /\ Called(s, j) \in Seq(Frames) /\ Nested(Called(s, j))
           /\ Executes(Called(s, j)) /\ Len(Called(s, j)) = 1
           /\ Called(s, j)[Len(Called(s, j))].job = j
<1>1. s \in Seq(Frames) /\ Len(s) = 0 /\ \A k \in 1..Len(s) : s[k].at = "handler"
  BY EmptyStackIs
<1>2. /\ Called(s, j) \in Seq(Frames) /\ Nested(Called(s, j)) /\ Executes(Called(s, j))
      /\ Len(Called(s, j)) = Len(s) + 1 /\ Called(s, j)[Len(Called(s, j))].job = j
  BY <1>1, CalledIs
<1>3. Len(Called(s, j)) = 1
  BY <1>1, <1>2
<1> QED
  BY <1>2, <1>3

\* The top becomes the handler of a finished task.
LEMMA TopHandles ==
    ASSUME NEW s \in Seq(Frames), s # <<>>, Nested(s)
    PROVE  /\ MovedTo(s, Len(s), "handler") \in Seq(Frames)
           /\ \A k \in 1..Len(MovedTo(s, Len(s), "handler")) :
                 MovedTo(s, Len(s), "handler")[k].at = "handler"
<1>1. Len(s) \in Nat /\ Len(s) \in 1..Len(s)
  BY LenProperties, EmptySeq
<1>2. /\ MovedTo(s, Len(s), "handler") \in Seq(Frames)
      /\ Len(MovedTo(s, Len(s), "handler")) = Len(s)
      /\ \A i \in 1..Len(s) :
            MovedTo(s, Len(s), "handler")[i].at = IF i = Len(s) THEN "handler" ELSE s[i].at
  BY <1>1, MovedIs
<1> QED
  BY <1>1, <1>2 DEF Nested

LEMMA StackIs ==
    /\ \A place : TopAt(place) = MovedTo(stack, Len(stack), place)
    /\ Return = Left(stack)
  BY DEF TopAt, Return, MovedTo, Left, Front

-----------------------------------------------------------------------------
(* The order of the batch *)

LEMMA LeastNatural ==
    ASSUME NEW T \in SUBSET Nat, T # {}
    PROVE  \E x \in T : \A y \in T : x <= y
<1> DEFINE R == OpToRel(<, Nat)
<1>1. IsWellFoundedOn(R, Nat)
  BY NatLessThanWellFounded
<1>2. \A x, y \in Nat : x < y => <<x, y>> \in R
  BY DEF OpToRel
<1> HIDE DEF R
<1>3. PICK x \in T : \A y \in T : ~ (<<y, x>> \in R)
  BY <1>1, WFMin, Zenon
<1>4. \A y \in T : ~(y < x)
  BY <1>2, <1>3
<1> QED
  BY <1>4

LEMMA JobsFinite == IsFiniteSet(Jobs) /\ Jobs \subseteq Nat /\ N \in Jobs /\ Cardinality(Jobs) = N
  BY DemosAssumption, FS_Interval DEF Jobs

\* The jobs before j when they are sorted by sc.
Ahead(sc, j) == {i \in Jobs : sc[i] < sc[j] \/ (sc[i] = sc[j] /\ i < j)}

\* Jobs are ordered by score and number.
LEMMA BeforeIsOrder ==
    ASSUME NEW sc \in [Jobs -> Scores], NEW i \in Jobs, NEW j \in Jobs
    PROVE  /\ i \notin Ahead(sc, i)
           /\ i # j => i \in Ahead(sc, j) \/ j \in Ahead(sc, i)
           /\ i \in Ahead(sc, j) =>
                j \notin Ahead(sc, i) /\ Ahead(sc, i) \subseteq Ahead(sc, j)
<1>1. \A k \in Jobs : sc[k] \in Int /\ k \in Nat
  BY JobsFinite, DemosAssumption
<1>2. \A k, l \in Jobs : k \in Ahead(sc, l) <=>
                            sc[k] < sc[l] \/ (sc[k] = sc[l] /\ k < l)
  BY DEF Ahead
<1>3. \A k : k \in Ahead(sc, i) => k \in Jobs
  BY DEF Ahead
<1>4. ASSUME i \in Ahead(sc, j), NEW k \in Ahead(sc, i) PROVE k \in Ahead(sc, j)
  BY <1>1, <1>2, <1>3, <1>4
<1> QED
  BY <1>1, <1>2, <1>4

LEMMA BeforeIsFinite ==
    ASSUME NEW sc, NEW j PROVE IsFiniteSet(Ahead(sc, j)) /\ Cardinality(Ahead(sc, j)) \in Nat
<1>1. Ahead(sc, j) \in SUBSET Jobs
  BY DEF Ahead
<1> QED
  BY <1>1, JobsFinite, FS_Subset, FS_CardinalityType

LEMMA EarlierHasFewer ==
    ASSUME NEW sc \in [Jobs -> Scores], NEW i \in Jobs, NEW j \in Jobs, i \in Ahead(sc, j)
    PROVE  Cardinality(Ahead(sc, i)) < Cardinality(Ahead(sc, j))
<1>1. Ahead(sc, i) \in SUBSET Ahead(sc, j) /\ Ahead(sc, i) # Ahead(sc, j)
  BY BeforeIsOrder
<1>2. /\ Cardinality(Ahead(sc, i)) <= Cardinality(Ahead(sc, j))
      /\ Cardinality(Ahead(sc, i)) # Cardinality(Ahead(sc, j))
  BY <1>1, BeforeIsFinite, FS_Subset
<1> QED
  BY <1>2, BeforeIsFinite

\* So the place of a job in the order is its own.
LEMMA PlaceIsOwn ==
    ASSUME NEW sc \in [Jobs -> Scores], NEW i \in Jobs, NEW k, Cardinality(Ahead(sc, i)) = k - 1
    PROVE  (CHOOSE j \in Jobs : Cardinality(Ahead(sc, j)) = k - 1) = i
<1>1. ASSUME NEW j \in Jobs, Cardinality(Ahead(sc, j)) = k - 1 PROVE j = i
  <2>1. ~(Cardinality(Ahead(sc, i)) < Cardinality(Ahead(sc, j)))
        /\ ~(Cardinality(Ahead(sc, j)) < Cardinality(Ahead(sc, i)))
    BY <1>1, BeforeIsFinite
  <2> QED
    BY <2>1, BeforeIsOrder, EarlierHasFewer
<1> QED
  BY <1>1

\* A heap that is not empty has a first.
LEMMA FirstIs ==
    ASSUME score \in [Jobs -> Scores], heap \subseteq Jobs, heap # {}
    PROVE  First \in heap /\ \A i \in heap \ {First} : First \in Ahead(score, i)
<1> DEFINE T == {Cardinality(Ahead(score, j)) : j \in heap}
<1>1. T \in SUBSET Nat /\ T # {}
  BY BeforeIsFinite
<1>2. PICK x \in T : \A y \in T : x <= y
  BY <1>1, LeastNatural
<1>3. PICK f \in heap : \A j \in heap : Cardinality(Ahead(score, f)) <= Cardinality(Ahead(score, j))
  BY <1>2
<1>4. ASSUME NEW i \in heap \ {f} PROVE f \in Ahead(score, i)
  <2>1. ~(Cardinality(Ahead(score, i)) < Cardinality(Ahead(score, f)))
    BY <1>3, BeforeIsFinite
  <2> QED
    BY <2>1, BeforeIsOrder, EarlierHasFewer
<1>5. \E j \in heap : \A i \in heap \ {j} :
         score[j] < score[i] \/ (score[j] = score[i] /\ j < i)
  BY <1>4 DEF Ahead
<1>6. First \in heap /\ \A i \in heap \ {First} :
         score[First] < score[i] \/ (score[First] = score[i] /\ First < i)
  BY <1>5, Zenon DEF First
<1> QED
  BY <1>6 DEF Ahead

-----------------------------------------------------------------------------
(* The invariant *)

\* Where each program may be, and what its stack looks like there.
ProgramInv ==
    /\ program = "producer" => stack = <<>> /\ pc # "kick"
    /\ program # "producer" => pc \notin {"flush", "poll", "round"}
    /\ mode # "active" => pc \notin {"flush", "kick"} /\ Len(stack) <= 1 /\ heap = {}
    /\ pc \notin {"submit", "died"} => submitted = N
    /\ pc = "kick" => heap = Jobs
    /\ stack # <<>> => pc = "report" \/ (pc = "submit" /\ mode # "active")
    /\ Nested(stack)

\* The k-th job that was sent has its place in the order, and what waits comes
\* after all of them.
Placed(j, k) == IF mode = "active" THEN Cardinality(Ahead(score, j)) = k - 1 ELSE j = k

OrderInv ==
    /\ \A k \in 1..Len(sent) : Placed(sent[k], k)
    /\ Cardinality(Range(sent)) = Len(sent)
    /\ mode # "active" => Len(sent) = submitted
    /\ mode = "active" =>
         /\ pc = "submit" => sent = <<>> /\ heap = 1..submitted
         /\ pc \notin {"submit", "died"} =>
              /\ heap = Jobs \ Range(sent)
              /\ \A i \in Range(sent) : \A j \in heap : i \in Ahead(score, j)

\* What the producer has polled has ended, and it gives up when it is late.
PollInv ==
    program = "producer" =>
      /\ mode = "active" /\ pc \in {"poll", "round", "report", "done"} => heap = {}
      /\ \A j \in Range(complete) : result[j] # "pending"
      /\ pc \in {"report", "done"} /\ ~late => Jobs \subseteq Range(complete)

TopJob(s) == s[Len(s)].job

\* At most the task on top of the stack is sent and not complete, or else one
\* has raised and nothing more is sent.
EagerInv ==
    program # "producer" =>
      /\ Executes(stack) => sent = Append(complete, TopJob(stack))
      /\ ~Executes(stack) =>
           \/ sent = complete
           \/ /\ pc \notin {"submit", "kick"} /\ faults # 0
              /\ \E j \in Jobs : sent = Append(complete, j)
      /\ faults = 0 =>
           /\ pc \in {"report", "done"} /\ ~Executes(stack) => heap = {}
           /\ \A j \in Jobs : registry[j] # "absent" =>
                 j \in heap \/ (Executes(stack) /\ TopJob(stack) = j)

ReportInv == pc = "done" => stack = <<>> /\ rows = Range(sent) \cap Range(complete)

DemoInv == TypeOK /\ ProgramInv /\ OrderInv /\ PollInv /\ EagerInv /\ ReportInv

-----------------------------------------------------------------------------
(* The order, step by step *)

LEMMA RangeIs ==
    ASSUME NEW s \in Seq(Jobs)
    PROVE  /\ Range(s) \in SUBSET Jobs /\ IsFiniteSet(Range(s))
           /\ Cardinality(Range(s)) \in Nat /\ Cardinality(Range(s)) <= N
           /\ Len(s) \in Nat /\ Range(s) = {s[i] : i \in 1..Len(s)}
<1>1. Range(s) \in SUBSET Jobs /\ Len(s) \in Nat /\ Range(s) = {s[i] : i \in 1..Len(s)}
  BY RangeOfSeq, RangeEquality, LenProperties
<1> QED
  BY <1>1, JobsFinite, FS_Subset, FS_CardinalityType

\* Nothing is sent and nothing new waits.
LEMMA OrderKept ==
    ASSUME OrderInv, UNCHANGED <<mode, score, sent, submitted>>,
           \/ pc' = "died"
           \/ heap' = heap /\ pc' = pc
           \/ heap' = heap /\ pc \notin {"submit", "died"} /\ pc' \notin {"submit", "died"}
    PROVE  OrderInv'
<1>1. /\ \A k \in 1..Len(sent) : Placed(sent[k], k)
      /\ \A j, k : Placed(j, k) <=>
            IF mode = "active" THEN Cardinality(Ahead(score, j)) = k - 1 ELSE j = k
  BY DEF OrderInv, Placed
<1>2. /\ \A k \in 1..Len(sent) :
            IF mode = "active" THEN Cardinality(Ahead(score, sent[k])) = k - 1 ELSE sent[k] = k
  BY <1>1
<1>3. (\A k \in 1..Len(sent) : Placed(sent[k], k))'
  BY <1>2 DEF Placed
<1> QED
  BY <1>3 DEF OrderInv

\* The whole batch waits when the last of it is submitted.
LEMMA OrderSubmitted ==
    ASSUME TypeOK, OrderInv, UNCHANGED <<mode, score, sent, submitted, heap>>,
           pc = "submit", submitted = N, pc' \notin {"submit", "died"}
    PROVE  OrderInv'
<1>1. \A k \in 1..Len(sent) :
         IF mode = "active" THEN Cardinality(Ahead(score, sent[k])) = k - 1 ELSE sent[k] = k
  BY DEF OrderInv, Placed
<1>2. (\A k \in 1..Len(sent) : Placed(sent[k], k))'
  BY <1>1 DEF Placed
<1>3. mode = "active" => heap = Jobs \ Range(sent) /\ Range(sent) = {}
  BY EmptyIs DEF OrderInv, Jobs
<1> QED
  BY <1>2, <1>3 DEF OrderInv

\* One more waits.
LEMMA OrderWaits ==
    ASSUME TypeOK, OrderInv, UNCHANGED <<mode, score, sent, pc>>, mode = "active",
           pc = "submit", submitted' = submitted + 1, heap' = heap \cup {submitted + 1}
    PROVE  OrderInv'
<1>1. \A k \in 1..Len(sent) :
         IF mode = "active" THEN Cardinality(Ahead(score, sent[k])) = k - 1 ELSE sent[k] = k
  BY DEF OrderInv, Placed
<1>2. (\A k \in 1..Len(sent) : Placed(sent[k], k))'
  BY <1>1 DEF Placed
<1>3. 1..submitted' = (1..submitted) \cup {submitted + 1}
  BY DEF TypeOK
<1> QED
  BY <1>2, <1>3 DEF OrderInv

\* Jobs that do not wait are sent as they are submitted.
LEMMA OrderSent ==
    ASSUME TypeOK, OrderInv, UNCHANGED <<mode, score, heap>>, mode # "active",
           submitted < N, submitted' = submitted + 1, sent' = Append(sent, submitted + 1)
    PROVE  OrderInv'
<1>1. sent \in Seq(Jobs) /\ submitted + 1 \in Jobs /\ submitted \in Nat
  BY DemosAssumption DEF TypeOK, Jobs
<1>2. /\ Len(sent) = submitted /\ \A k \in 1..submitted : sent[k] = k
      /\ Cardinality(Range(sent)) = submitted
  BY DEF OrderInv, Placed
<1>3. /\ Len(sent') = submitted + 1 /\ sent'[submitted + 1] = submitted + 1
      /\ \A k \in 1..submitted : sent'[k] = sent[k]
      /\ Range(sent') = Range(sent) \cup {submitted + 1}
  BY <1>1, <1>2, AppendIs
<1>4. \A k \in 1..(submitted + 1) : sent'[k] = k
  BY <1>1, <1>2, <1>3
<1>5. submitted + 1 \notin Range(sent)
  BY <1>1, <1>2, RangeIs
<1>6. Cardinality(Range(sent')) = submitted + 1
  BY <1>1, <1>2, <1>3, <1>5, RangeIs, FS_AddElement
<1> QED
  BY <1>3, <1>4, <1>6 DEF OrderInv, Placed

\* The first of the heap is sent.
LEMMA OrderPops ==
    ASSUME TypeOK, OrderInv, UNCHANGED <<mode, score, submitted>>, mode = "active",
           pc \notin {"submit", "died"}, pc' \notin {"submit", "died"},
           heap # {}, heap' = heap \ {First}, sent' = Append(sent, First)
    PROVE  OrderInv'
<1> DEFINE f == First
<1>1. score \in [Jobs -> Scores] /\ sent \in Seq(Jobs) /\ heap \subseteq Jobs
  BY DEF TypeOK
<1>2. f \in heap /\ \A i \in heap \ {f} : f \in Ahead(score, i)
  BY <1>1, FirstIs
<1> HIDE DEF f
<1>3. heap' = heap \ {f} /\ sent' = Append(sent, f)
  BY DEF f
<1>4. /\ Cardinality(Range(sent)) = Len(sent) /\ heap = Jobs \ Range(sent)
      /\ \A i \in Range(sent) : \A j \in heap : i \in Ahead(score, j)
      /\ \A k \in 1..Len(sent) : Cardinality(Ahead(score, sent[k])) = k - 1
  BY DEF OrderInv, Placed
<1>5. /\ Len(sent) \in Nat /\ Len(sent') = Len(sent) + 1
      /\ \A i \in 1..Len(sent) : sent'[i] = sent[i]
      /\ sent'[Len(sent) + 1] = f /\ Range(sent') = Range(sent) \cup {f}
  BY <1>1, <1>2, <1>3, AppendIs
<1>6. Ahead(score, f) = Range(sent)
  <2>1. \A i : i \in Ahead(score, f) => i \in Jobs
    BY DEF Ahead
  <2>2. \A i \in heap : i \notin Ahead(score, f)
    BY <1>1, <1>2, BeforeIsOrder
  <2> QED
    BY <1>2, <1>4, <2>1, <2>2
<1>7. Cardinality(Range(sent')) = Len(sent')
  <2>1. f \notin Range(sent) /\ IsFiniteSet(Range(sent))
    BY <1>1, <1>2, <1>4, RangeIs
  <2>2. Cardinality(Range(sent) \cup {f}) = Cardinality(Range(sent)) + 1
    BY <2>1, FS_AddElement
  <2> QED
    BY <1>4, <1>5, <2>2
<1>8. \A k \in 1..Len(sent') : Cardinality(Ahead(score, sent'[k])) = k - 1
  <2> SUFFICES ASSUME NEW k \in 1..Len(sent')
               PROVE  Cardinality(Ahead(score, sent'[k])) = k - 1
    OBVIOUS
  <2>1. k \in 1..Len(sent) \/ k = Len(sent) + 1
    BY <1>5
  <2>2. CASE k \in 1..Len(sent)
    BY <1>4, <1>5, <2>2
  <2>3. CASE k = Len(sent) + 1
    BY <1>4, <1>5, <1>6, <2>3
  <2> QED
    BY <2>1, <2>2, <2>3
<1>9. heap' = Jobs \ Range(sent')
  BY <1>3, <1>4, <1>5
<1>10. \A i \in Range(sent') : \A j \in heap' : i \in Ahead(score, j)
  BY <1>2, <1>3, <1>4, <1>5
<1> QED
  BY <1>7, <1>8, <1>9, <1>10 DEF OrderInv, Placed

\* So what is sent is the beginning of the order.
LEMMA OrderFollows == TypeOK /\ OrderInv => OrderIsScheduled
<1> SUFFICES ASSUME TypeOK, OrderInv PROVE OrderIsScheduled
  OBVIOUS
<1> DEFINE n == Len(sent)
<1>1. sent \in Seq(Jobs) /\ score \in [Jobs -> Scores]
  BY DEF TypeOK
<1>2. n \in Nat /\ n <= N /\ N \in Nat /\ \A k \in 1..n : sent[k] \in Jobs /\ k \in Jobs
  <2>1. n \in Nat /\ n <= N /\ N \in Nat
    BY <1>1, RangeIs, DemosAssumption DEF OrderInv
  <2>2. \A k \in 1..n : k \in Jobs /\ sent[k] \in Jobs
    BY <1>1, <2>1, ElementOfSeq DEF Jobs
  <2> QED
    BY <2>1, <2>2
<1>4. \A k \in Jobs : DemoOrder[k] = IF mode = "active"
                        THEN CHOOSE j \in Jobs : Cardinality(Ahead(score, j)) = k - 1 ELSE k
  BY Zenon DEF DemoOrder, SortedBefore, Ahead
<1>5. ASSUME NEW k \in 1..n PROVE DemoOrder[k] = sent[k]
  <2>1. Placed(sent[k], k)
    BY DEF OrderInv
  <2>2. CASE mode = "active"
    <3>1. Cardinality(Ahead(score, sent[k])) = k - 1
      BY <2>1, <2>2 DEF Placed
    <3>2. (CHOOSE j \in Jobs : Cardinality(Ahead(score, j)) = k - 1) = sent[k]
      BY <1>1, <1>2, <3>1, PlaceIsOwn
    <3> QED
      BY <1>2, <1>4, <2>2, <3>2
  <2>3. CASE mode # "active"
    BY <1>2, <1>4, <2>1, <2>3 DEF Placed
  <2> QED
    BY <2>2, <2>3
<1>6. Len(DemoOrder) = N
  BY <1>2 DEF DemoOrder, Jobs
<1> HIDE DEF n
<1>7. /\ SubSeq(sent, 1, n) \in Seq(Jobs) /\ SubSeq(DemoOrder, 1, n) \in Seq(Jobs)
      /\ Len(SubSeq(sent, 1, n)) = n /\ Len(SubSeq(DemoOrder, 1, n)) = n
      /\ \A k \in 1..n : SubSeq(sent, 1, n)[k] = sent[k]
      /\ \A k \in 1..n : SubSeq(DemoOrder, 1, n)[k] = DemoOrder[k]
  <2>1. /\ n \in Int /\ n - 1 + 1 = n /\ \A k \in 1..n : 1 + k - 1 = k
        /\ n = IF 1 <= n THEN n - 1 + 1 ELSE 0
    BY <1>2
  <2>2. \A k \in 1..n : sent[k] \in Jobs /\ DemoOrder[k] \in Jobs
    BY <1>2, <1>5
  <2>3. /\ SubSeq(sent, 1, n) \in Seq(Jobs)
        /\ Len(SubSeq(sent, 1, n)) = IF 1 <= n THEN n - 1 + 1 ELSE 0
        /\ \A k \in 1..(n - 1 + 1) : SubSeq(sent, 1, n)[k] = sent[1 + k - 1]
    BY <2>1, <2>2, SubSeqProperties
  <2>4. /\ SubSeq(DemoOrder, 1, n) \in Seq(Jobs)
        /\ Len(SubSeq(DemoOrder, 1, n)) = IF 1 <= n THEN n - 1 + 1 ELSE 0
        /\ \A k \in 1..(n - 1 + 1) : SubSeq(DemoOrder, 1, n)[k] = DemoOrder[1 + k - 1]
    BY <2>1, <2>2, SubSeqProperties
  <2> QED
    BY <2>1, <2>3, <2>4
<1>8. SubSeq(sent, 1, n) = SubSeq(DemoOrder, 1, n)
  BY <1>5, <1>7, SeqEqual
<1> QED
  BY <1>2, <1>6, <1>8 DEF n, OrderIsScheduled, IsPrefix

-----------------------------------------------------------------------------
(* What the steps do *)

LEMMA TypeIs ==
    TypeOK <=>
      /\ program \in Programs /\ mode \in Modes /\ score \in [Jobs -> Scores]
      /\ pc \in {"submit", "flush", "kick", "poll", "round", "report", "done", "died"}
      /\ submitted \in 0..N /\ heap \subseteq Jobs
      /\ registry \in [Jobs -> {"absent", "registered", "started"}]
      /\ sent \in Seq(Jobs) /\ queue \in Seq(Jobs) /\ complete \in Seq(Jobs)
      /\ stack \in Seq(Frames)
      /\ work \in [Children -> Jobs \cup {NoJob}]
      /\ result \in [Jobs -> {"pending", "success", "failure"}]
      /\ look \subseteq Jobs /\ rows \subseteq Jobs /\ late \in BOOLEAN /\ faults \in 0..MaxFaults
  BY DEF TypeOK, Frames

\* A call of apply_fn.
LEMMA ApplyDoes ==
    ASSUME TypeOK, NEW j \in Jobs, NEW below \in Seq(Frames), Apply(j, below)
    PROVE  /\ sent' = Append(sent, j) /\ sent' \in Seq(Jobs) /\ queue' \in Seq(Jobs)
           /\ program = "producer" => stack' = below
           /\ program # "producer" => stack' = Called(below, j)
<1>1. sent \in Seq(Jobs) /\ queue \in Seq(Jobs)
  BY TypeIs
<1>2. sent' = Append(sent, j) /\ sent' \in Seq(Jobs) /\ Append(queue, j) \in Seq(Jobs)
  BY <1>1, AppendIs DEF Apply
<1>3. IF program = "producer" THEN queue' = Append(queue, j) /\ stack' = below
      ELSE stack' = Called(below, j) /\ queue' = queue
  BY DEF Apply, Called
<1> QED
  BY <1>1, <1>2, <1>3

LEMMA DispatchDoes ==
    ASSUME TypeOK, heap # {}, NEW below \in Seq(Frames), Dispatch(below)
    PROVE  /\ First \in heap /\ First \in Jobs /\ heap' = heap \ {First}
           /\ sent' = Append(sent, First) /\ sent' \in Seq(Jobs) /\ queue' \in Seq(Jobs)
           /\ program = "producer" => stack' = below
           /\ program # "producer" => stack' = Called(below, First)
<1>1. First \in heap /\ First \in Jobs
  BY TypeIs, FirstIs
<1> QED
  BY <1>1, ApplyDoes DEF Dispatch

LEMMA InitIs == Init => DemoInv
<1> SUFFICES ASSUME Init PROVE DemoInv
  OBVIOUS
<1>1. TypeOK
  <2>1. 0 \in 0..N /\ 0 \in 0..MaxFaults
    BY DemosAssumption
  <2>2. <<>> \in Seq(Jobs) /\ <<>> \in Seq(Frames)
    BY EmptyIs, EmptySeq
  <2> QED
    BY <2>1, <2>2, TypeIs DEF Init
<1>2. ProgramInv
  BY EmptyIs DEF Init, ProgramInv, Nested
<1>3. OrderInv
  <2>1. sent = <<>> /\ submitted = 0 /\ heap = {} /\ pc = "submit" /\ 1..0 = {}
    BY DEF Init
  <2>2. Len(sent) = 0 /\ Cardinality(Range(sent)) = 0
    BY <2>1, EmptyIs, FS_EmptySet
  <2> QED
    BY <2>1, <2>2 DEF OrderInv
<1>4. PollInv
  BY EmptyIs DEF Init, PollInv
<1>5. EagerInv
  BY DEF Init, EagerInv, Executes
<1>6. ReportInv
  BY DEF Init, ReportInv
<1> QED
  BY <1>1, <1>2, <1>3, <1>4, <1>5, <1>6 DEF DemoInv

-----------------------------------------------------------------------------
(* Steps of the broker, the workers and the clock *)

LEMMA FaultIs == TypeOK /\ Fault => faults' \in 1..MaxFaults /\ faults' # 0
<1>1. TypeOK => faults \in Nat /\ faults <= MaxFaults /\ MaxFaults \in Nat
  BY DemosAssumption, TypeIs
<1> QED
  BY <1>1 DEF Fault

\* What the main program has does not change, and results come for good.
LEMMA OthersKeep ==
    ASSUME DemoInv, TypeOK',
           UNCHANGED <<run, pc, submitted, gate, sent, stack, complete, rows>>,
           faults' = faults \/ faults' # 0,
           late' = late \/ late' = TRUE,
           \A j \in Jobs : result[j] # "pending" => result'[j] # "pending"
    PROVE  DemoInv'
<1>1. UNCHANGED <<program, mode, score, pc, submitted, heap, registry, sent, stack, complete, rows>>
  BY DEF run, gate
<1>2. TypeOK /\ ProgramInv /\ OrderInv /\ PollInv /\ EagerInv /\ ReportInv
  BY DEF DemoInv
<1>3. ProgramInv'
  BY <1>1, <1>2 DEF ProgramInv, Nested
<1>4. OrderInv'
  BY <1>1, <1>2, OrderKept
<1>5. PollInv'
  <2>1. Range(complete) \in SUBSET Jobs
    BY <1>2, RangeIs, TypeIs
  <2> QED
    BY <1>1, <1>2, <2>1 DEF PollInv
<1>6. EagerInv'
  BY <1>1, <1>2 DEF EagerInv
<1>7. ReportInv'
  BY <1>1, <1>2 DEF ReportInv
<1> QED
  BY <1>3, <1>4, <1>5, <1>6, <1>7 DEF DemoInv

LEMMA TakeStep == ASSUME DemoInv, NEW c \in Children, Take(c) PROVE DemoInv'
<1>1. TypeOK
  BY DEF DemoInv
<1>2. queue \in Seq(Jobs) /\ queue # <<>> /\ work \in [Children -> Jobs \cup {NoJob}]
  BY <1>1, TypeIs DEF Take
<1>3. Head(queue) \in Jobs /\ Tail(queue) \in Seq(Jobs)
  BY <1>2, HeadTailProperties
<1>4. queue' \in Seq(Jobs) /\ work' \in [Children -> Jobs \cup {NoJob}]
  BY <1>2, <1>3 DEF Take
<1>5. TypeOK'
  BY <1>1, <1>4 DEF Take, TypeOK, run, gate
<1> QED
  BY <1>5, OthersKeep DEF Take

LEMMA EndStep ==
    ASSUME DemoInv, NEW c \in Children, Finish(c) \/ Fail(c) PROVE DemoInv'
<1>1. TypeOK
  BY DEF DemoInv
<1>2. PICK how \in {"success", "failure"} : End(c, how)
  BY DEF Finish, Fail
<1>3. faults' \in 0..MaxFaults /\ (faults' = faults \/ faults' # 0)
  BY <1>1, FaultIs, TypeIs DEF Finish, Fail
<1>4. work \in [Children -> Jobs \cup {NoJob}] /\ work[c] \in Jobs
      /\ result \in [Jobs -> {"pending", "success", "failure"}]
  BY <1>1, <1>2, TypeIs DEF End
<1>5. /\ work' \in [Children -> Jobs \cup {NoJob}]
      /\ result' \in [Jobs -> {"pending", "success", "failure"}]
      /\ \A j \in Jobs : result[j] # "pending" => result'[j] # "pending"
  BY <1>2, <1>4 DEF End
<1>6. TypeOK'
  BY <1>1, <1>2, <1>3, <1>5 DEF End, TypeOK, run, gate
<1> QED
  BY <1>2, <1>3, <1>5, <1>6, OthersKeep DEF End

LEMMA LoseStep == ASSUME DemoInv, Lose PROVE DemoInv'
<1>1. TypeOK
  BY DEF DemoInv
<1>2. queue' \in Seq(Jobs)
  BY <1>1, HeadTailProperties, TypeIs DEF Lose
<1>3. faults' \in 0..MaxFaults /\ faults' # 0
  BY <1>1, FaultIs DEF Lose
<1>4. TypeOK'
  BY <1>1, <1>2, <1>3 DEF Lose, TypeOK, run, gate
<1> QED
  BY <1>3, <1>4, OthersKeep DEF Lose

LEMMA DeadlineStep == ASSUME DemoInv, Deadline PROVE DemoInv'
<1>1. TypeOK'
  BY DEF DemoInv, Deadline, TypeOK, run, gate, remote
<1> QED
  BY <1>1, OthersKeep DEF Deadline, remote

-----------------------------------------------------------------------------
(* Steps of the main program *)

LEMMA SubmitStep == ASSUME DemoInv, Submit PROVE DemoInv'
<1>1. TypeOK /\ ProgramInv /\ OrderInv /\ PollInv /\ EagerInv /\ ReportInv
  BY DEF DemoInv
<1>2. /\ pc = "submit" /\ submitted < N /\ stack = <<>> /\ submitted' = submitted + 1
      /\ UNCHANGED <<program, mode, score, pc, work, result, look, complete, late, rows, faults>>
  BY DEF Submit, run
<1>3. /\ submitted \in Nat /\ N \in Nat /\ submitted' \in 0..N /\ submitted' \in Jobs
      /\ <<>> \in Seq(Frames) /\ Len(<<>>) = 0
  BY <1>1, <1>2, DemosAssumption, EmptySeq, TypeIs DEF Jobs
<1>4. CASE mode = "active"
  <2>1. /\ heap' = heap \cup {submitted + 1} /\ UNCHANGED <<sent, stack, queue>>
        /\ registry' = [registry EXCEPT ![submitted + 1] = "registered"]
    BY <1>4 DEF Submit
  <2>2. TypeOK'
    BY <1>1, <1>2, <1>3, <2>1 DEF TypeOK
  <2>3. ProgramInv'
    BY <1>1, <1>2, <1>4, <2>1 DEF ProgramInv, Nested
  <2>4. OrderInv'
    BY <1>1, <1>2, <1>4, <2>1, OrderWaits
  <2>5. PollInv'
    BY <1>1, <1>2, <2>1 DEF PollInv
  <2>6. EagerInv'
    <3>1. registry \in [Jobs -> {"absent", "registered", "started"}]
      BY <1>1, TypeIs
    <3>2. \A j \in Jobs : registry'[j] # "absent" => registry[j] # "absent" \/ j \in heap'
      BY <1>2, <1>3, <2>1, <3>1
    <3> QED
      BY <1>1, <1>2, <2>1, <3>2 DEF EagerInv, Executes
  <2> QED
    BY <1>2, <2>2, <2>3, <2>4, <2>5, <2>6 DEF DemoInv, ReportInv
<1>5. CASE mode # "active"
  <2>1. Apply(submitted', stack) /\ UNCHANGED <<heap, registry>>
    BY <1>2, <1>5 DEF Submit, gate
  <2>2. /\ sent' = Append(sent, submitted') /\ sent' \in Seq(Jobs) /\ queue' \in Seq(Jobs)
        /\ program = "producer" => stack' = stack
        /\ program # "producer" => stack' = Called(stack, submitted')
    BY <1>1, <1>2, <1>3, <2>1, ApplyDoes
  <2>3. program # "producer" =>
          /\ stack' \in Seq(Frames) /\ Nested(stack') /\ Len(stack') = 1
          /\ Executes(stack') /\ TopJob(stack') = submitted'
    BY <1>2, <1>3, <2>2, FirstCalledIs DEF TopJob
  <2>4. stack' \in Seq(Frames) /\ Nested(stack') /\ Len(stack') <= 1
    <3>1. CASE program = "producer"
      BY <1>2, <2>2, <3>1, EmptyStackIs
    <3>2. CASE program # "producer"
      <4>1. stack' \in Seq(Frames) /\ Nested(stack') /\ Len(stack') = 1
        BY <2>3, <3>2
      <4>2. Len(stack') <= 1
        BY <4>1
      <4> QED
        BY <4>1, <4>2
    <3> QED
      BY <3>1, <3>2
  <2>5. TypeOK'
    BY <1>1, <1>2, <1>3, <2>1, <2>2, <2>4 DEF TypeOK, Frames
  <2>6. ProgramInv'
    BY <1>1, <1>2, <1>5, <2>1, <2>2, <2>4 DEF ProgramInv, Nested
  <2>7. OrderInv'
    BY <1>1, <1>2, <1>5, <2>1, <2>2, OrderSent
  <2>8. PollInv'
    BY <1>1, <1>2, <1>5 DEF PollInv
  <2>9. EagerInv'
    BY <1>1, <1>2, <2>1, <2>2, <2>3 DEF EagerInv, Executes
  <2> QED
    BY <1>2, <2>5, <2>6, <2>7, <2>8, <2>9 DEF DemoInv, ReportInv
<1> QED
  BY <1>4, <1>5

LEMMA SubmittedStep == ASSUME DemoInv, Submitted PROVE DemoInv'
<1>1. TypeOK /\ ProgramInv /\ OrderInv /\ PollInv /\ EagerInv /\ ReportInv
  BY DEF DemoInv
<1>2. /\ pc = "submit" /\ submitted = N /\ stack = <<>>
      /\ pc' = IF program = "producer" THEN IF mode = "active" THEN "flush" ELSE "poll"
               ELSE IF mode = "active" THEN "kick" ELSE "report"
      /\ UNCHANGED <<program, mode, score, submitted, heap, registry, sent, stack, queue, work,
                     result, look, complete, late, rows, faults>>
  BY DEF Submitted, run, gate, remote
<1>3. pc' \in {"flush", "poll", "kick", "report"}
  BY <1>2
<1>4. TypeOK'
  BY <1>1, <1>2, <1>3 DEF TypeOK
<1>5. ProgramInv'
  <2>1. mode = "active" => heap = Jobs
    BY <1>1, <1>2 DEF OrderInv, Jobs
  <2> QED
    BY <1>1, <1>2, <2>1 DEF ProgramInv, Nested
<1>6. OrderInv'
  BY <1>1, <1>2, <1>3, OrderSubmitted
<1>7. PollInv'
  BY <1>1, <1>2 DEF PollInv
<1>8. EagerInv'
  BY <1>1, <1>2 DEF EagerInv, Executes, ProgramInv
<1> QED
  BY <1>3, <1>4, <1>5, <1>6, <1>7, <1>8 DEF DemoInv, ReportInv

-----------------------------------------------------------------------------
(* toggle_demo.py *)

LEMMA KickStep == ASSUME DemoInv, Kick PROVE DemoInv'
<1>1. TypeOK /\ ProgramInv /\ OrderInv /\ PollInv /\ EagerInv /\ ReportInv
  BY DEF DemoInv
<1>2. /\ pc = "kick" /\ pc' = "report" /\ Dispatch(stack)
      /\ UNCHANGED <<program, mode, score, submitted, registry, work, result, look, complete,
                     late, rows, faults>>
  BY DEF Kick, run
<1>3. program # "producer" /\ mode = "active" /\ stack = <<>> /\ submitted = N
  BY <1>1, <1>2 DEF ProgramInv
<1>4. sent = complete /\ \A j \in Jobs : faults = 0 /\ registry[j] # "absent" => j \in heap
  BY <1>1, <1>2, <1>3, EmptyStackIs DEF EagerInv
<1>5. CASE heap # {}
  <2>1. /\ First \in heap /\ First \in Jobs /\ heap' = heap \ {First}
        /\ sent' = Append(sent, First) /\ sent' \in Seq(Jobs) /\ queue' \in Seq(Jobs)
        /\ stack' = Called(stack, First)
    BY <1>1, <1>2, <1>3, <1>5, DispatchDoes, EmptyStackIs
  <2>2. /\ stack' \in Seq(Frames) /\ Nested(stack') /\ Executes(stack')
        /\ TopJob(stack') = First
    BY <1>3, <2>1, FirstCalledIs DEF TopJob
  <2>3. TypeOK'
    BY <1>1, <1>2, <2>1, <2>2 DEF TypeOK, Frames
  <2>4. ProgramInv'
    BY <1>1, <1>2, <1>3, <2>2 DEF ProgramInv, Nested
  <2>5. OrderInv'
    BY <1>1, <1>2, <1>3, <1>5, <2>1, OrderPops
  <2>6. PollInv'
    BY <1>2, <1>3 DEF PollInv
  <2>7. EagerInv'
    BY <1>2, <1>4, <2>1, <2>2 DEF EagerInv
  <2> QED
    BY <1>2, <2>3, <2>4, <2>5, <2>6, <2>7 DEF DemoInv, ReportInv
<1>6. heap # {}
  BY <1>1, <1>2, JobsFinite DEF ProgramInv
<1> QED
  BY <1>5, <1>6

LEMMA PrerunStep == ASSUME DemoInv, Prerun PROVE DemoInv'
<1>1. TypeOK /\ ProgramInv /\ OrderInv /\ PollInv /\ EagerInv /\ ReportInv
  BY DEF DemoInv
<1>2. /\ stack # <<>> /\ stack[Len(stack)].at = "received"
      /\ registry' = [registry EXCEPT ![TopJob(stack)] = "started"]
      /\ stack' = MovedTo(stack, Len(stack), "running")
      /\ UNCHANGED <<program, mode, score, pc, submitted, heap, sent, queue, work, result, look,
                     complete, late, rows, faults>>
  BY StackIs DEF Prerun, run, remote, Top, Last, TopJob
<1>3. stack \in Seq(Frames) /\ Nested(stack) /\ Executes(stack)
      /\ registry \in [Jobs -> {"absent", "registered", "started"}]
  BY <1>1, <1>2, TypeIs DEF ProgramInv, Executes
<1>4. /\ stack' \in Seq(Frames) /\ Nested(stack') /\ Len(stack') = Len(stack) /\ stack' # <<>>
      /\ Executes(stack') /\ TopJob(stack') = TopJob(stack)
  BY <1>2, <1>3, TopMoves DEF TopJob
<1>5. registry' \in [Jobs -> {"absent", "registered", "started"}]
      /\ \A j \in Jobs : j # TopJob(stack) => registry'[j] = registry[j]
  BY <1>2, <1>3
<1>6. TypeOK'
  BY <1>1, <1>2, <1>4, <1>5 DEF TypeOK, Frames
<1>7. ProgramInv'
  BY <1>1, <1>2, <1>4 DEF ProgramInv, Nested
<1>8. OrderInv'
  BY <1>1, <1>2, OrderKept
<1>9. PollInv'
  BY <1>1, <1>2 DEF PollInv
<1>10. EagerInv'
  BY <1>1, <1>2, <1>3, <1>4, <1>5 DEF EagerInv
<1>11. ReportInv'
  BY <1>1, <1>2 DEF ReportInv
<1> QED
  BY <1>6, <1>7, <1>8, <1>9, <1>10, <1>11 DEF DemoInv

LEMMA SucceedStep == ASSUME DemoInv, Succeed PROVE DemoInv'
<1>1. TypeOK /\ ProgramInv /\ OrderInv /\ PollInv /\ EagerInv /\ ReportInv
  BY DEF DemoInv
<1>2. /\ stack # <<>> /\ stack[Len(stack)].at = "running"
      /\ complete' = Append(complete, TopJob(stack))
      /\ registry' = [registry EXCEPT ![TopJob(stack)] = "absent"]
      /\ UNCHANGED <<program, mode, score, pc, submitted, work, result, look, late, rows, faults>>
  BY DEF Succeed, run, Top, Last, TopJob
<1>3. stack \in Seq(Frames) /\ Nested(stack) /\ Executes(stack) /\ complete \in Seq(Jobs)
      /\ registry \in [Jobs -> {"absent", "registered", "started"}]
  BY <1>1, <1>2, TypeIs DEF ProgramInv, Executes
<1>4. program # "producer" /\ sent = Append(complete, TopJob(stack)) /\ pc \in {"submit", "report"}
      /\ (mode = "active" => pc = "report")
  BY <1>1, <1>2, <1>3 DEF ProgramInv, EagerInv
<1>5. TopJob(stack) \in Jobs /\ complete' = sent /\ complete' \in Seq(Jobs)
  BY <1>1, <1>2, <1>3, <1>4, MovedIs, LenProperties, EmptySeq, TypeIs DEF TopJob
<1>6. registry' \in [Jobs -> {"absent", "registered", "started"}]
      /\ \A j \in Jobs : registry'[j] # "absent" => registry[j] # "absent" /\ j # TopJob(stack)
  BY <1>2, <1>3
<1>7. faults = 0 => \A j \in Jobs : registry'[j] # "absent" => j \in heap
  BY <1>1, <1>3, <1>4, <1>6 DEF EagerInv
<1>8. PollInv' /\ ReportInv'
  BY <1>2, <1>4 DEF PollInv, ReportInv
<1>9. CASE mode = "active" /\ heap # {}
  <2> DEFINE below == MovedTo(stack, Len(stack), "handler")
  <2>1. below \in Seq(Frames) /\ \A k \in 1..Len(below) : below[k].at = "handler"
    BY <1>2, <1>3, TopHandles
  <2>2. Dispatch(below)
    BY <1>9, StackIs DEF Succeed
  <2> HIDE DEF below
  <2>3. /\ First \in heap /\ First \in Jobs /\ heap' = heap \ {First}
        /\ sent' = Append(sent, First) /\ sent' \in Seq(Jobs) /\ queue' \in Seq(Jobs)
        /\ stack' = Called(below, First)
    BY <1>1, <1>4, <1>9, <2>1, <2>2, DispatchDoes
  <2>4. /\ stack' \in Seq(Frames) /\ Nested(stack') /\ Executes(stack')
        /\ TopJob(stack') = First
    BY <2>1, <2>3, CalledIs DEF TopJob
  <2>5. TypeOK'
    BY <1>1, <1>2, <1>5, <1>6, <2>3, <2>4 DEF TypeOK, Frames
  <2>6. ProgramInv'
    BY <1>1, <1>2, <1>4, <1>9, <2>4 DEF ProgramInv, Nested
  <2>7. OrderInv'
    BY <1>1, <1>2, <1>4, <1>9, <2>3, OrderPops
  <2>8. EagerInv'
    BY <1>2, <1>5, <1>7, <2>3, <2>4 DEF EagerInv
  <2> QED
    BY <1>8, <2>5, <2>6, <2>7, <2>8 DEF DemoInv
<1>10. CASE ~(mode = "active" /\ heap # {})
  <2>1. stack' = MovedTo(stack, Len(stack), "over") /\ UNCHANGED <<heap, sent, queue>>
    BY <1>10, StackIs DEF Succeed
  <2>2. /\ stack' \in Seq(Frames) /\ Nested(stack') /\ ~Executes(stack')
        /\ Len(stack') = Len(stack) /\ stack' # <<>>
    BY <1>2, <1>3, <2>1, TopMoves
  <2>3. TypeOK'
    BY <1>1, <1>2, <1>5, <1>6, <2>1, <2>2 DEF TypeOK, Frames
  <2>4. ProgramInv'
    BY <1>1, <1>2, <1>4, <2>1, <2>2 DEF ProgramInv, Nested
  <2>5. OrderInv'
    BY <1>1, <1>2, <2>1, OrderKept
  <2>6. heap = {}
    BY <1>1, <1>10 DEF ProgramInv
  <2>7. EagerInv'
    BY <1>2, <1>5, <1>7, <2>1, <2>2, <2>6 DEF EagerInv
  <2> QED
    BY <1>8, <2>3, <2>4, <2>5, <2>7 DEF DemoInv
<1> QED
  BY <1>9, <1>10

\* The stack when the top is gone.
LEMMA ReturnsTo ==
    ASSUME TypeOK, ProgramInv, stack # <<>>, stack' = Return
    PROVE  /\ stack' \in Seq(Frames) /\ Nested(stack') /\ ~Executes(stack')
           /\ Len(stack) \in Nat \ {0} /\ Len(stack') = Len(stack) - 1
           /\ stack' # <<>> => Len(stack) > 1
           /\ Len(stack) = 1 => stack' = <<>>
<1>1. stack \in Seq(Frames) /\ Nested(stack) /\ stack' = Left(stack)
  BY StackIs, TypeIs DEF ProgramInv
<1> QED
  BY <1>1, LeftIs DEF Left

LEMMA UnwindStep == ASSUME DemoInv, Unwind PROVE DemoInv'
<1>1. TypeOK /\ ProgramInv /\ OrderInv /\ PollInv /\ EagerInv /\ ReportInv
  BY DEF DemoInv
<1>2. /\ stack # <<>> /\ stack[Len(stack)].at = "over" /\ stack' = Return
      /\ UNCHANGED <<program, mode, score, pc, submitted, heap, registry, sent, queue, work,
                     result, look, complete, late, rows, faults>>
  BY DEF Unwind, run, gate, remote, Top, Last
<1>3. ~Executes(stack)
  BY <1>2 DEF Executes
<1>4. stack' \in Seq(Frames) /\ Nested(stack') /\ ~Executes(stack') /\ Len(stack') <= Len(stack)
      /\ Len(stack) \in Nat /\ Len(stack') \in Nat
  BY <1>1, <1>2, ReturnsTo, LenProperties
<1>5. TypeOK'
  BY <1>1, <1>2, <1>4 DEF TypeOK, Frames
<1>6. ProgramInv'
  BY <1>1, <1>2, <1>4 DEF ProgramInv, Nested
<1>7. OrderInv'
  BY <1>1, <1>2, OrderKept
<1>8. PollInv'
  BY <1>1, <1>2 DEF PollInv
<1>9. EagerInv'
  BY <1>1, <1>2, <1>3, <1>4 DEF EagerInv
<1>10. ReportInv'
  BY <1>1, <1>2 DEF ReportInv
<1> QED
  BY <1>5, <1>6, <1>7, <1>8, <1>9, <1>10 DEF DemoInv

LEMMA RaiseStep == ASSUME DemoInv, Raise PROVE DemoInv'
<1>1. TypeOK /\ ProgramInv /\ OrderInv /\ PollInv /\ EagerInv /\ ReportInv
  BY DEF DemoInv
<1>2. /\ stack # <<>> /\ stack[Len(stack)].at = "running" /\ stack' = Return
      /\ registry' \in {registry, [registry EXCEPT ![TopJob(stack)] = "absent"]}
      /\ pc' = IF Len(stack) = 1 THEN "died" ELSE pc
      /\ UNCHANGED <<program, mode, score, submitted, heap, sent, queue, work, result, look,
                     complete, late, rows>>
  BY DEF Raise, run, remote, Top, Last, TopJob
<1>3. faults' \in 0..MaxFaults /\ faults' # 0
  BY <1>1, FaultIs DEF Raise
<1>4. Executes(stack) /\ stack \in Seq(Frames)
      /\ registry \in [Jobs -> {"absent", "registered", "started"}]
  BY <1>1, <1>2, TypeIs DEF Executes
<1>5. program # "producer" /\ sent = Append(complete, TopJob(stack)) /\ TopJob(stack) \in Jobs
  <2>1. program # "producer"
    BY <1>1, <1>2 DEF ProgramInv
  <2>2. sent = Append(complete, TopJob(stack))
    BY <1>1, <1>4, <2>1 DEF EagerInv
  <2>3. Len(stack) \in 1..Len(stack)
    BY <1>2, <1>4, LenProperties, EmptySeq
  <2>4. TopJob(stack) \in Jobs
    BY <1>4, <2>3, MovedIs DEF TopJob
  <2> QED
    BY <2>1, <2>2, <2>4
<1>6. stack' \in Seq(Frames) /\ Nested(stack') /\ ~Executes(stack') /\ Len(stack') <= Len(stack)
      /\ Len(stack) \in Nat \ {0} /\ Len(stack') \in Nat
      /\ (stack' # <<>> => Len(stack) > 1) /\ (Len(stack) = 1 => stack' = <<>>)
  BY <1>1, <1>2, ReturnsTo, LenProperties
<1>7. registry' \in [Jobs -> {"absent", "registered", "started"}]
  BY <1>2, <1>4
<1>8. pc' = "died" \/ (pc' = pc /\ pc = "report")
  <2>1. CASE Len(stack) = 1
    BY <1>2, <2>1
  <2>2. CASE Len(stack) # 1
    <3>1. Len(stack) \in Nat \ {0}
      BY <1>6
    <3>2. \A n \in Nat \ {0} : n = 1 \/ n > 1
      OBVIOUS
    <3>3. Len(stack) > 1
      BY <2>2, <3>1, <3>2, Zenon
    <3> QED
      BY <1>1, <1>2, <1>6, <2>2, <3>3 DEF ProgramInv
  <2> QED
    BY <2>1, <2>2
<1>9. TypeOK'
  BY <1>1, <1>2, <1>3, <1>6, <1>7, <1>8 DEF TypeOK, Frames
<1>10. ProgramInv'
  BY <1>1, <1>2, <1>5, <1>6, <1>8 DEF ProgramInv, Nested
<1>11. OrderInv'
  BY <1>1, <1>2, <1>8, OrderKept
<1>12. PollInv' /\ ReportInv'
  BY <1>1, <1>2, <1>5, <1>8 DEF PollInv, ReportInv
<1>13. EagerInv'
  BY <1>2, <1>3, <1>5, <1>6, <1>8 DEF EagerInv
<1> QED
  BY <1>9, <1>10, <1>11, <1>12, <1>13 DEF DemoInv

-----------------------------------------------------------------------------
(* producer.py *)

LEMMA FlushStep == ASSUME DemoInv, Flush PROVE DemoInv'
<1>1. TypeOK /\ ProgramInv /\ OrderInv /\ PollInv /\ EagerInv /\ ReportInv
  BY DEF DemoInv
<1>2. /\ pc = "flush"
      /\ UNCHANGED <<program, mode, score, submitted, registry, work, result, look, complete,
                     late, rows, faults>>
  BY DEF Flush, run
<1>3. program = "producer" /\ mode = "active" /\ stack = <<>> /\ submitted = N
  BY <1>1, <1>2 DEF ProgramInv
<1>4. CASE heap # {}
  <2>1. Dispatch(stack) /\ pc' = pc
    BY <1>4 DEF Flush
  <2>2. /\ First \in heap /\ First \in Jobs /\ heap' = heap \ {First}
        /\ sent' = Append(sent, First) /\ sent' \in Seq(Jobs) /\ queue' \in Seq(Jobs)
        /\ stack' = stack
    BY <1>1, <1>3, <1>4, <2>1, DispatchDoes, EmptyStackIs
  <2>3. TypeOK'
    BY <1>1, <1>2, <2>1, <2>2 DEF TypeOK
  <2>4. ProgramInv'
    BY <1>1, <1>2, <1>3, <2>1, <2>2 DEF ProgramInv, Nested
  <2>5. OrderInv'
    BY <1>1, <1>2, <1>3, <1>4, <2>1, <2>2, OrderPops
  <2>6. PollInv' /\ EagerInv' /\ ReportInv'
    BY <1>1, <1>2, <1>3, <2>1 DEF PollInv, EagerInv, ReportInv
  <2> QED
    BY <2>3, <2>4, <2>5, <2>6 DEF DemoInv
<1>5. CASE heap = {}
  <2>1. pc' = "poll" /\ UNCHANGED <<heap, sent, stack, queue>>
    BY <1>5 DEF Flush
  <2>2. TypeOK'
    BY <1>1, <1>2, <2>1 DEF TypeOK
  <2>3. ProgramInv'
    BY <1>1, <1>2, <1>3, <2>1 DEF ProgramInv, Nested
  <2>4. OrderInv'
    BY <1>1, <1>2, <2>1, OrderKept
  <2>5. PollInv' /\ EagerInv' /\ ReportInv'
    BY <1>1, <1>2, <1>3, <1>5, <2>1 DEF PollInv, EagerInv, ReportInv
  <2> QED
    BY <2>2, <2>3, <2>4, <2>5 DEF DemoInv
<1> QED
  BY <1>4, <1>5

LEMMA SendFailsStep == ASSUME DemoInv, SendFails PROVE DemoInv'
<1>1. TypeOK /\ ProgramInv /\ OrderInv /\ PollInv /\ EagerInv /\ ReportInv
  BY DEF DemoInv
<1>2. /\ program = "producer" /\ pc' = "died" /\ heap' \subseteq heap
      /\ UNCHANGED <<program, mode, score, submitted, registry, sent, stack, queue, work, result,
                     look, complete, late, rows>>
  BY DEF SendFails, run, remote
<1>3. faults' \in 0..MaxFaults
  BY <1>1, FaultIs DEF SendFails
<1>4. stack = <<>>
  BY <1>1, <1>2 DEF ProgramInv
<1>5. TypeOK'
  BY <1>1, <1>2, <1>3 DEF TypeOK
<1>6. ProgramInv'
  BY <1>1, <1>2, <1>4 DEF ProgramInv, Nested
<1>7. OrderInv'
  BY <1>1, <1>2, OrderKept
<1>8. PollInv' /\ EagerInv' /\ ReportInv'
  BY <1>1, <1>2 DEF PollInv, EagerInv, ReportInv
<1> QED
  BY <1>5, <1>6, <1>7, <1>8 DEF DemoInv

LEMMA RoundStep == ASSUME DemoInv, Round PROVE DemoInv'
<1>1. TypeOK /\ ProgramInv /\ OrderInv /\ PollInv /\ EagerInv /\ ReportInv
  BY DEF DemoInv
<1>2. /\ pc = "poll" /\ look' \subseteq Jobs \cup look
      /\ pc' = "round" \/ (pc' = "report" /\ (late \/ Jobs \ Range(complete) = {}))
      /\ UNCHANGED <<program, mode, score, submitted, heap, registry, sent, stack, queue, work,
                     result, complete, late, rows, faults>>
  BY DEF Round, run, gate, remote
<1>3. program = "producer"
  BY <1>1, <1>2 DEF ProgramInv
<1>4. TypeOK'
  BY <1>1, <1>2 DEF TypeOK
<1>5. ProgramInv'
  BY <1>1, <1>2 DEF ProgramInv, Nested
<1>6. OrderInv'
  BY <1>1, <1>2, OrderKept
<1>7. PollInv' /\ EagerInv' /\ ReportInv'
  BY <1>1, <1>2, <1>3 DEF PollInv, EagerInv, ReportInv
<1> QED
  BY <1>4, <1>5, <1>6, <1>7 DEF DemoInv

LEMMA AskStep == ASSUME DemoInv, NEW j \in Jobs, Ask(j) PROVE DemoInv'
<1>1. TypeOK /\ ProgramInv /\ OrderInv /\ PollInv /\ EagerInv /\ ReportInv
  BY DEF DemoInv
<1>2. /\ pc = "round" /\ pc' \in {"poll", "round"} /\ look' \subseteq look
      /\ complete' = complete \/ (complete' = Append(complete, j) /\ result[j] # "pending")
      /\ UNCHANGED <<program, mode, score, submitted, heap, registry, sent, stack, queue, work,
                     result, late, rows, faults>>
  BY DEF Ask, run, gate, remote
<1>3. program = "producer"
  BY <1>1, <1>2 DEF ProgramInv
<1>4. complete' \in Seq(Jobs)
      /\ \A i \in Range(complete') : i \in Range(complete) \/ result[i] # "pending"
  <2>1. complete \in Seq(Jobs)
    BY <1>1, TypeIs
  <2>2. Append(complete, j) \in Seq(Jobs) /\ Range(Append(complete, j)) = Range(complete) \cup {j}
    BY <2>1, AppendIs
  <2> QED
    BY <1>2, <2>1, <2>2
<1>5. TypeOK'
  BY <1>1, <1>2, <1>4 DEF TypeOK
<1>6. ProgramInv'
  BY <1>1, <1>2 DEF ProgramInv, Nested
<1>7. OrderInv'
  BY <1>1, <1>2, OrderKept
<1>8. PollInv'
  BY <1>1, <1>2, <1>3, <1>4 DEF PollInv
<1>9. EagerInv' /\ ReportInv'
  BY <1>2, <1>3 DEF EagerInv, ReportInv
<1> QED
  BY <1>5, <1>6, <1>7, <1>8, <1>9 DEF DemoInv

LEMMA ReportStep == ASSUME DemoInv, Report PROVE DemoInv'
<1>1. TypeOK /\ ProgramInv /\ OrderInv /\ PollInv /\ EagerInv /\ ReportInv
  BY DEF DemoInv
<1>2. /\ pc = "report" /\ stack = <<>> /\ pc' = "done"
      /\ rows' = Range(sent) \cap Range(complete)
      /\ UNCHANGED <<program, mode, score, submitted, heap, registry, sent, stack, queue, work,
                     result, look, complete, late, faults>>
  BY DEF Report, run, gate, remote
<1>3. rows' \subseteq Jobs
  BY <1>1, <1>2, RangeIs, TypeIs
<1>4. TypeOK'
  BY <1>1, <1>2, <1>3 DEF TypeOK
<1>5. ProgramInv'
  BY <1>1, <1>2 DEF ProgramInv, Nested
<1>6. OrderInv'
  BY <1>1, <1>2, OrderKept
<1>7. PollInv'
  BY <1>1, <1>2 DEF PollInv
<1>8. EagerInv' /\ ReportInv'
  BY <1>1, <1>2 DEF EagerInv, ReportInv
<1> QED
  BY <1>4, <1>5, <1>6, <1>7, <1>8 DEF DemoInv

-----------------------------------------------------------------------------
(* The theorems *)

LEMMA StepKeepsDemo == DemoInv /\ [Next]_vars => DemoInv'
<1> SUFFICES ASSUME DemoInv, [Next]_vars PROVE DemoInv'
  OBVIOUS
<1>1. CASE Main
  BY <1>1, SubmitStep, SubmittedStep, KickStep, PrerunStep, SucceedStep, UnwindStep, FlushStep,
     RoundStep, AskStep, ReportStep DEF Main
<1>2. CASE Raise \/ SendFails \/ Deadline \/ Lose
  BY <1>2, RaiseStep, SendFailsStep, DeadlineStep, LoseStep
<1>3. CASE \E c \in Children : Take(c) \/ Finish(c) \/ Fail(c)
  BY <1>3, TakeStep, EndStep
<1>4. CASE UNCHANGED vars
  <2>1. TypeOK'
    BY <1>4 DEF DemoInv, TypeOK, vars, run, gate, remote
  <2> QED
    BY <1>4, <2>1, OthersKeep DEF vars, remote
<1> QED
  BY <1>1, <1>2, <1>3, <1>4 DEF Next

LEMMA DemoInvariance == Spec => []DemoInv
  BY InitIs, StepKeepsDemo, PTL DEF Spec

\* Whatever the batch, the scores, the workers and the faults: the gate sends
\* the batch in the order demo.py calculates, whether its heap is flushed or
\* each success dispatches the next.
THEOREM OrderStaysScheduled == Spec => []OrderIsScheduled
<1>1. DemoInv => OrderIsScheduled
  BY OrderFollows DEF DemoInv
<1> QED
  BY <1>1, DemoInvariance, PTL

\* When nothing waits the whole batch has been sent.
LEMMA AllSent ==
    ASSUME TypeOK, ProgramInv, OrderInv, pc \notin {"submit", "died"}, heap = {}
    PROVE  Range(sent) = Jobs
<1>1. CASE mode = "active"
  BY <1>1, RangeIs, TypeIs DEF OrderInv
<1>2. CASE mode # "active"
  <2>1. Len(sent) = N /\ \A k \in 1..N : sent[k] = k
    BY <1>2 DEF OrderInv, ProgramInv, Placed
  <2>2. sent \in Seq(Jobs)
    BY TypeIs
  <2>3. Range(sent) = {sent[i] : i \in 1..N}
    BY <2>1, <2>2, RangeIs
  <2> QED
    BY <2>1, <2>3 DEF Jobs
<1> QED
  BY <1>1, <1>2

LEMMA ReportFollows == DemoInv => ReportIsTrue
<1> SUFFICES ASSUME DemoInv PROVE ReportIsTrue
  OBVIOUS
<1>1. TypeOK /\ ProgramInv /\ OrderInv /\ PollInv /\ EagerInv /\ ReportInv
  BY DEF DemoInv
<1>2. /\ sent \in Seq(Jobs) /\ complete \in Seq(Jobs)
      /\ program \in {"producer", "toggle"} /\ mode \in {"fifo", "shadow", "active"}
  BY <1>1, DemosAssumption, TypeIs
<1>3. program = "producer" /\ pc \in {"poll", "round", "report", "done"} => heap = {}
  BY <1>1 DEF ProgramInv, PollInv
<1>4. program = "producer" /\ pc \in {"poll", "round", "report", "done"} => Range(sent) = Jobs
  BY <1>1, <1>3, AllSent
<1>5. program = "toggle" => IsPrefix(complete, sent)
  <2> SUFFICES ASSUME program = "toggle" PROVE IsPrefix(complete, sent)
    OBVIOUS
  <2>1. Executes(stack) => TopJob(stack) \in Jobs
    <3>1. stack # <<>> => Len(stack) \in 1..Len(stack)
      BY <1>1, LenProperties, EmptySeq, TypeIs
    <3> QED
      BY <1>1, <3>1, MovedIs, TypeIs DEF Executes, TopJob
  <2>2. sent = complete \/ \E j \in Jobs : sent = Append(complete, j)
    BY <1>1, <2>1 DEF EagerInv
  <2>3. \A j \in Jobs : IsPrefix(complete, complete) /\ IsPrefix(complete, Append(complete, j))
    BY <1>2, AppendIsLonger
  <2> QED
    BY <2>2, <2>3, JobsFinite
<1>6. ASSUME pc = "done"
      PROVE  /\ \A j \in rows : program = "producer" => result[j] # "pending"
             /\ (IF program = "producer" THEN ~late ELSE faults = 0) => rows = Jobs
             /\ program = "toggle" /\ faults = 0 =>
                   heap = {} /\ \A j \in Jobs : registry[j] = "absent"
  <2>1. rows = Range(sent) \cap Range(complete) /\ stack = <<>> /\ ~Executes(stack)
    BY <1>1, <1>6 DEF ReportInv, Executes
  <2>2. \A j \in rows : program = "producer" => result[j] # "pending"
    BY <1>1, <2>1 DEF PollInv
  <2>3. program = "producer" /\ ~late => rows = Jobs
    BY <1>1, <1>2, <1>4, <1>6, <2>1, RangeIs DEF PollInv
  <2>4. program = "toggle" /\ faults = 0 =>
           heap = {} /\ sent = complete /\ \A j \in Jobs : registry[j] = "absent"
    BY <1>1, <1>6, <2>1 DEF EagerInv
  <2>5. program = "toggle" /\ faults = 0 => rows = Jobs
    BY <1>1, <1>6, <2>1, <2>4, AllSent
  <2> QED
    BY <1>2, <2>2, <2>3, <2>4, <2>5
<1> QED
  BY <1>4, <1>5, <1>6 DEF ReportIsTrue

\* And the report is true: nothing in it that did not end, everything in it
\* unless the producer ran out of time or an eager task raised.
THEOREM ReportStaysTrue == Spec => []ReportIsTrue
  BY DemoInvariance, ReportFollows, PTL
=============================================================================
