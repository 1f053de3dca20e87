--------------------------- MODULE TraceFilesProofs ---------------------------
(***************************************************************************)
(* What a load returns depends on the trace and on where the rows came     *)
(* from alone: for any published file, any number of processes, and        *)
(* whatever crashes, fails or is damaged.  Of what the loaders make of a   *)
(* file (module TraceRows) that needs nothing; that the jobs are true does,*)
(* loader by loader, from files that are credible (TracesAreCredible).     *)
(***************************************************************************)
EXTENDS TraceFiles, FiniteSetTheorems, WellFoundedInduction, TLAPS

-----------------------------------------------------------------------------
(* The frame and the jobs of every origin *)

RowsOf(t, o) ==
    CASE o = "fixture"   -> t.fixture
      [] o = "synthetic" -> IF t.loader = "philly" THEN PhillySynthetic ELSE HeliosSynthetic
      [] o = "real"      ->
           (CASE t.loader = "burstgpt" -> BurstNormalise(t.published)
              [] t.loader = "philly"   -> PhillyNormalise(t.published)
              [] t.loader = "helios"   -> HeliosNormalise(HeliosTable(t.published))
              [] t.loader = "azure"    -> AzureProcess(t.published)
              [] t.loader = "borg"     -> BorgProcess(t.published)
              [] OTHER                 -> <<>>)
      [] OTHER -> <<>>

FrameOf(t, o) == Frame(o, RowsOf(t, o))
FramesOf(t) == {FrameOf(t, o) : o \in Origins}

ShuffledAs(l, rows) == IF l \in {"philly", "helios", "borg"} THEN Reverse(rows) ELSE rows

JobAs(l, row) ==
    CASE l = "burstgpt" -> BurstJob(row)
      [] l = "philly"   -> PhillyJob(row)
      [] l = "helios"   -> HeliosJob(row)
      [] l = "azure"    -> AzureJob(row)
      [] l = "borg"     -> BorgJob(row)
      [] l = "mooncake" -> MooncakeJob(row)

\* All the jobs there are of an origin; the synthetic trace has no end.
JobsOf(t, o) ==
    IF t.loader = "synthetic" THEN [i \in Nat \ {0} |-> SyntheticJob(i)]
    ELSE [i \in DOMAIN ShuffledAs(t.loader, RowsOf(t, o)) |->
            JobAs(t.loader, ShuffledAs(t.loader, RowsOf(t, o))[i])]

ResultOf(t, o, n) == [origin |-> o, limit |-> n, jobs |-> First(JobsOf(t, o), n)]
ResultsOf(t) == {ResultOf(t, o, n) : o \in Origins, n \in Nat}

LEMMA FirstOfFirst ==
    ASSUME NEW rows, NEW m \in Nat, NEW n \in Nat, m <= n
    PROVE  First(First(rows, n), m) = First(rows, m)
<1> DEFINE r == First(rows, n)
<1>1. DOMAIN r = DOMAIN rows \cap 1..n /\ \A i \in DOMAIN rows \cap 1..n : r[i] = rows[i]
  BY DEF First
<1>2. 1..m \subseteq 1..n
  OBVIOUS
<1> HIDE DEF r
<1>3. DOMAIN r \cap 1..m = DOMAIN rows \cap 1..m
  BY <1>1, <1>2
<1>4. First(r, m) = [i \in DOMAIN rows \cap 1..m |-> rows[i]]
  BY <1>1, <1>2, <1>3 DEF First
<1> QED
  BY <1>4 DEF First, r

\* Rows that are selected and then made jobs are the first of all the jobs.
LEMMA SelectedAreFirst ==
    ASSUME loader # "synthetic", NEW o, NEW n
    PROVE  [i \in DOMAIN Selected(RowsOf(trace, o), n) |-> Job(Selected(RowsOf(trace, o), n)[i])]
              = First(JobsOf(trace, o), n)
<1> DEFINE all == ShuffledAs(trace.loader, RowsOf(trace, o))
           rows == First(all, n)
<1>1. Selected(RowsOf(trace, o), n) = rows
  BY DEF Selected, Shuffled, ShuffledAs, loader
<1>2. \A row : Job(row) = JobAs(trace.loader, row)
  BY DEF Job, JobAs, loader
<1>3. JobsOf(trace, o) = [i \in DOMAIN all |-> JobAs(trace.loader, all[i])]
  BY DEF JobsOf, loader
<1> HIDE DEF all
<1>4. DOMAIN rows = DOMAIN all \cap 1..n /\ \A i \in DOMAIN rows : rows[i] = all[i]
  BY DEF First
<1>5. First(JobsOf(trace, o), n) = [i \in DOMAIN all \cap 1..n |-> JobAs(trace.loader, all[i])]
  BY <1>3 DEF First
<1> HIDE DEF rows
<1>6. [i \in DOMAIN rows |-> Job(rows[i])] = [i \in DOMAIN rows |-> JobAs(trace.loader, all[i])]
  BY <1>2, <1>4
<1> QED
  BY <1>1, <1>4, <1>5, <1>6

-----------------------------------------------------------------------------
(* The invariant *)

\* Files, frames and results hold what the trace gives for their origin.
FileInv ==
    /\ trace \in Traces
    /\ cache \in {None, Damaged, Stale} \cup {Whole(d) : d \in FramesOf(trace)}
    /\ written \subseteq FramesOf(trace)
    /\ df \in [Procs -> FramesOf(trace)]
    /\ limit \in [Procs -> Nat]
    /\ result \in [Procs -> ResultsOf(trace)]
    /\ \A p \in Procs : pc[p] # "idle" => loader # "synthetic"
    /\ \A p \in Procs : pc[p] \notin {"idle", "fixture", "finish"} => loader # "mooncake"
    /\ DOMAIN pc = Procs

LEMMA FramesAre ==
    ASSUME NEW t
    PROVE  /\ \A o \in Origins : FrameOf(t, o) \in FramesOf(t)
           /\ \A d \in FramesOf(t) : d.origin \in Origins /\ d = FrameOf(t, d.origin)
                                     /\ d.rows = RowsOf(t, d.origin)
           /\ NoFrame \in FramesOf(t) /\ OldFrame \in FramesOf(t)
           /\ Frame("fixture", t.fixture) \in FramesOf(t)
<1>1. \A o : FrameOf(t, o).origin = o /\ FrameOf(t, o).rows = RowsOf(t, o)
  BY DEF FrameOf, Frame
<1>2. /\ RowsOf(t, "none") = <<>> /\ RowsOf(t, "stale") = <<>>
      /\ RowsOf(t, "fixture") = t.fixture
  BY DEF RowsOf
<1>3. "none" \in Origins /\ "stale" \in Origins /\ "fixture" \in Origins
  BY DEF Origins
<1>4. NoFrame = FrameOf(t, "none") /\ OldFrame = FrameOf(t, "stale")
      /\ Frame("fixture", t.fixture) = FrameOf(t, "fixture")
  BY <1>2 DEF NoFrame, OldFrame, FrameOf
<1> QED
  BY <1>1, <1>3, <1>4 DEF FramesOf

LEMMA DownloadIs ==
    ASSUME trace \in Traces, loader \notin {"mooncake", "synthetic"}
    PROVE  Download \in FramesOf(trace)
<1>1. loader \in Loaders \ {"mooncake", "synthetic"}
  BY TraceFilesAssumption DEF loader
<1>2. "real" \in Origins /\ "synthetic" \in Origins
  BY DEF Origins
<1>3. CASE loader = "burstgpt"
  <2>1. Download = FrameOf(trace, "real")
    BY <1>3 DEF Download, BurstDownload, FrameOf, RowsOf, loader, published
  <2> QED
    BY <1>2, <2>1, FramesAre
<1>4. CASE loader = "philly"
  <2>1. Download \in {FrameOf(trace, "real"), NoFrame}
    BY <1>4 DEF Download, PhillyDownload, FrameOf, RowsOf, loader, published
  <2> QED
    BY <1>2, <2>1, FramesAre
<1>5. CASE loader = "helios"
  <2>1. Download \in {FrameOf(trace, "real"), FrameOf(trace, "synthetic")}
    BY <1>5 DEF Download, HeliosDownload, FrameOf, RowsOf, loader, published
  <2> QED
    BY <1>2, <2>1, FramesAre
<1>6. CASE loader = "azure"
  <2>1. Download \in {FrameOf(trace, "real"), NoFrame}
    BY <1>6 DEF Download, AzureDownload, FrameOf, RowsOf, loader, published
  <2> QED
    BY <1>2, <2>1, FramesAre
<1>7. CASE loader = "borg"
  <2>1. Download \in {FrameOf(trace, "real"), NoFrame}
    BY <1>7 DEF Download, BorgDownload, FrameOf, RowsOf, loader, published
  <2> QED
    BY <1>2, <2>1, FramesAre
<1> QED
  BY <1>1, <1>3, <1>4, <1>5, <1>6, <1>7 DEF Loaders

LEMMA FallbackIs == Fallback \in FramesOf(trace)
<1>1. Fallback \in {FrameOf(trace, "synthetic"), NoFrame}
  BY DEF Fallback, FrameOf, RowsOf, loader
<1> QED
  BY <1>1, FramesAre DEF Origins

LEMMA LimitIs ==
    ASSUME NEW n \in Requests, NEW maxRows \in MaxRowsOf
    PROVE  Limit(n, maxRows) \in Nat
<1>1. n \in Nat /\ maxRows \in Nat
  BY TraceFilesAssumption DEF All
<1> QED
  BY <1>1 DEF Limit

LEMMA InitIs == Init => FileInv
<1> SUFFICES ASSUME Init PROVE FileInv
  OBVIOUS
<1>1. NoResult = ResultOf(trace, "none", 0)
  <2>1. First(JobsOf(trace, "none"), 0) = <<>>
    BY DEF First
  <2> QED
    BY <2>1 DEF NoResult, ResultOf
<1>2. NoResult \in ResultsOf(trace)
  BY <1>1 DEF ResultsOf, Origins
<1> QED
  BY <1>2, FramesAre DEF Init, FileInv

-----------------------------------------------------------------------------
(* The steps *)

LEMMA LeaveKeeps ==
    ASSUME FileInv, NEW p \in Procs, Leave(p), trace' = trace
    PROVE  /\ df' \in [Procs -> FramesOf(trace)] /\ limit' \in [Procs -> Nat]
           /\ DOMAIN pc' = Procs /\ \A q \in Procs : pc'[q] \in {pc[q], "idle"}
  BY FramesAre DEF FileInv, Leave, Goto

LEMMA StepKeeps == FileInv /\ [Next]_vars => FileInv'
<1> SUFFICES ASSUME FileInv, [Next]_vars PROVE FileInv'
  OBVIOUS
<1> USE DEF FileInv, shared, Goto, loader
<1>1. CASE Delete
  BY <1>1 DEF Delete
<1>2. ASSUME NEW p \in Procs, Load(p) PROVE FileInv'
  <2>1. PICK n \in Requests, maxRows \in MaxRowsOf, offline \in BOOLEAN :
          /\ limit' = [limit EXCEPT ![p] = Limit(n, maxRows)]
          /\ pc' = [pc EXCEPT ![p] = IF offline \/ loader = "mooncake" THEN "fixture"
                                     ELSE IF cache # None THEN "read" ELSE "fetch"]
    BY <1>2 DEF Load
  <2> QED
    BY <1>2, <2>1, LimitIs DEF Load
<1>3. ASSUME NEW p \in Procs, Generate(p) PROVE FileInv'
  <2>1. PICK n \in Requests, maxRows \in MaxRowsOf :
          result' = [result EXCEPT ![p] = [origin |-> "real", limit |-> Limit(n, maxRows),
                                           jobs |-> SyntheticJobs(Limit(n, maxRows))]]
    BY <1>3 DEF Generate
  <2> DEFINE m == Limit(n, maxRows)
  <2>2. m \in Nat
    BY LimitIs
  <2> HIDE DEF m
  <2>3. SyntheticJobs(m) = First(JobsOf(trace, "real"), m)
    <3>1. JobsOf(trace, "real") = [i \in Nat \ {0} |-> SyntheticJob(i)]
      BY <1>3 DEF Generate, JobsOf
    <3>2. (Nat \ {0}) \cap 1..m = 1..m
      BY <2>2
    <3> QED
      BY <3>1, <3>2 DEF SyntheticJobs, First
  <2>4. [origin |-> "real", limit |-> m, jobs |-> SyntheticJobs(m)] \in ResultsOf(trace)
    BY <2>2, <2>3 DEF ResultsOf, ResultOf, Origins
  <2> QED
    BY <1>3, <2>1, <2>4 DEF Generate, m
<1>4. ASSUME NEW p \in Procs, ReadFixture(p) PROVE FileInv'
  <2>1. CASE trace.fixture = <<>>
    BY <1>4, <2>1, LeaveKeeps DEF ReadFixture, Raise
  <2>2. CASE trace.fixture # <<>>
    <3>1. Frame("fixture", trace.fixture) \in FramesOf(trace)
      BY FramesAre
    <3>2. /\ df' = [df EXCEPT ![p] = Frame("fixture", trace.fixture)]
          /\ pc' = [pc EXCEPT ![p] = "finish"]
          /\ UNCHANGED <<trace, cache, tarball, written, faults, limit, result>>
          /\ pc[p] = "fixture"
      BY <1>4, <2>2 DEF ReadFixture
    <3> QED
      BY <3>1, <3>2
  <2> QED
    BY <2>1, <2>2
<1>5. ASSUME NEW p \in Procs, ReadCache(p) PROVE FileInv'
  <2>1. CASE cache.state \notin {"whole", "stale"}
    BY <1>5, <2>1, LeaveKeeps DEF ReadCache, Raise
  <2>2. CASE cache.state \in {"whole", "stale"}
    <3>1. (IF cache = Stale THEN OldFrame ELSE cache.df) \in FramesOf(trace)
      BY <2>2, FramesAre DEF None, Damaged, Stale, Whole
    <3> QED
      BY <1>5, <2>2, <3>1 DEF ReadCache
  <2> QED
    BY <2>1, <2>2
<1>6. ASSUME NEW p \in Procs, Fetch(p) PROVE FileInv'
  BY <1>6 DEF Fetch
<1>7. ASSUME NEW p \in Procs, Fetched(p) PROVE FileInv'
  BY <1>7 DEF Fetched
<1>8. ASSUME NEW p \in Procs, Without(p), UNCHANGED <<trace, cache, written>>,
             pc[p] \in {"fetch", "fetching", "parse"}
      PROVE  FileInv'
  <2>1. CASE Fallback # NoFrame
    BY <1>8, <2>1, FallbackIs DEF Without
  <2>2. CASE Fallback = NoFrame
    BY <1>8, <2>2, LeaveKeeps DEF Without, Raise
  <2> QED
    BY <2>1, <2>2
<1>9. ASSUME NEW p \in Procs, FetchFails(p) PROVE FileInv'
  BY <1>8, <1>9 DEF FetchFails
<1>10. ASSUME NEW p \in Procs, Parse(p) PROVE FileInv'
  <2>1. CASE Download = NoFrame
    BY <1>8, <1>10, <2>1 DEF Parse
  <2>2. CASE Download # NoFrame
    <3>1. Download \in FramesOf(trace)
      BY <1>10, DownloadIs DEF Parse
    <3> QED
      BY <1>10, <2>2, <3>1 DEF Parse
  <2> QED
    BY <2>1, <2>2
<1>11. ASSUME NEW p \in Procs, BeginWrite(p) PROVE FileInv'
  BY <1>11 DEF BeginWrite
<1>12. ASSUME NEW p \in Procs, EndWrite(p) PROVE FileInv'
  <2>1. /\ cache' \in {None, Damaged, Stale} \cup {Whole(d) : d \in FramesOf(trace)}
        /\ written' \subseteq FramesOf(trace)
    BY <1>12 DEF EndWrite
  <2> QED
    BY <1>12, <2>1 DEF EndWrite
<1>13. ASSUME NEW p \in Procs, Finish(p) PROVE FileInv'
  <2>1. CASE ~Validates(df[p]) \/ AsksTooMuch(df[p], limit[p])
    BY <1>13, <2>1, LeaveKeeps DEF Finish, Raise
  <2>2. CASE ~(~Validates(df[p]) \/ AsksTooMuch(df[p], limit[p]))
    <3> DEFINE o == df[p].origin
               rows == Selected(df[p].rows, limit[p])
               r == [origin |-> o, limit |-> limit[p], jobs |-> [i \in DOMAIN rows |-> Job(rows[i])]]
    <3>1. o \in Origins /\ df[p].rows = RowsOf(trace, o) /\ limit[p] \in Nat
          /\ loader # "synthetic"
      BY <1>13, FramesAre DEF Finish
    <3>2. r = ResultOf(trace, o, limit[p])
      BY <3>1, SelectedAreFirst DEF ResultOf
    <3>3. r \in ResultsOf(trace)
      BY <3>1, <3>2 DEF ResultsOf
    <3>4. result' = [result EXCEPT ![p] = r] /\ Leave(p)
      BY <1>13, <2>2 DEF Finish
    <3> HIDE DEF r
    <3> QED
      BY <1>13, <3>3, <3>4, LeaveKeeps DEF Finish
  <2> QED
    BY <2>1, <2>2
<1>14. ASSUME NEW p \in Procs, Crash(p) PROVE FileInv'
  <2>1. Leave(p) /\ UNCHANGED <<trace, cache, result>> /\ written' \subseteq FramesOf(trace)
    BY <1>14 DEF Crash, Raise
  <2> QED
    BY <2>1, LeaveKeeps
<1>15. CASE UNCHANGED vars
  BY <1>15 DEF vars
<1> QED
  BY <1>1, <1>2, <1>3, <1>4, <1>5, <1>6, <1>7, <1>9, <1>10, <1>11, <1>12, <1>13, <1>14, <1>15
  DEF Next, Step

-----------------------------------------------------------------------------

\* Whatever happened in between, and whatever is published: of two loads with
\* rows of one origin the smaller returns the beginning of the larger.
THEOREM LoadsKeepAgreeing == Spec => []LoadsAgree
<1>1. FileInv => LoadsAgree
  <2> SUFFICES ASSUME FileInv, NEW p \in Procs, NEW q \in Procs,
                      result[p].origin = result[q].origin, result[p].limit <= result[q].limit
               PROVE  result[p].jobs = First(result[q].jobs, result[p].limit)
    BY DEF LoadsAgree
  <2>1. result[p] \in ResultsOf(trace) /\ result[q] \in ResultsOf(trace)
    BY DEF FileInv
  <2>2. PICK o \in Origins, m \in Nat : result[p] = ResultOf(trace, o, m)
    BY <2>1 DEF ResultsOf
  <2>3. PICK n \in Nat : result[q] = ResultOf(trace, o, n)
    BY <2>1, <2>2 DEF ResultsOf, ResultOf
  <2>4. /\ result[p].jobs = First(JobsOf(trace, o), m) /\ result[p].limit = m
        /\ result[q].jobs = First(JobsOf(trace, o), n) /\ result[q].limit = n
    BY <2>2, <2>3 DEF ResultOf
  <2> QED
    BY <2>4, FirstOfFirst
<1> QED
  BY <1>1, InitIs, StepKeeps, PTL DEF Spec

-----------------------------------------------------------------------------
(* Numbers and their order *)

\* Numbers have a least one among them.
LEMMA LeastNatural ==
    ASSUME NEW T \in SUBSET Nat, T # {}
    PROVE  \E x \in T : \A y \in T : x <= y
<1> DEFINE R == OpToRel(<, Nat)
<1>1. IsWellFoundedOn(R, Nat)
  BY NatLessThanWellFounded
<1>2. \A x, y \in Nat : x < y => <<x, y>> \in R
  BY DEF OpToRel
<1> HIDE DEF R
<1>3. PICK x \in T : \A y \in T : ~ (<<y, x>> \in R)
  BY <1>1, WFMin, Zenon
<1>4. \A y \in T : ~(y < x)
  BY <1>2, <1>3
<1> QED
  BY <1>4

LEMMA MinIs ==
    ASSUME NEW T \in SUBSET Nat, T # {}
    PROVE  Min(T) \in T /\ \A y \in T : Min(T) <= y
BY LeastNatural DEF Min

\* And a greatest one, if they are bounded.
LEMMA MaxIs ==
    ASSUME NEW n \in Nat, NEW T \in SUBSET (0..n), T # {}
    PROVE  Max(T) \in T /\ \A y \in T : Max(T) >= y
<1> DEFINE U == {m \in Nat : n - m \in T}
<1>1. U # {}
  <2>1. PICK x \in T : TRUE
    OBVIOUS
  <2>2. n - x \in Nat /\ n - (n - x) = x
    BY <2>1
  <2> QED
    BY <2>1, <2>2
<1>2. PICK m \in U : \A k \in U : m <= k
  BY <1>1, LeastNatural
<1>3. \A y \in T : n - y \in U /\ y \in Nat
  OBVIOUS
<1>4. m \in Nat /\ n - m \in T
  BY <1>2
<1> HIDE DEF U
<1>5. ASSUME NEW y \in T PROVE n - m >= y
  <2>1. m <= n - y /\ y \in Nat
    BY <1>2, <1>3
  <2> QED
    BY <1>4, <2>1
<1> QED
  BY <1>4, <1>5 DEF Max

\* Induction over the numbers that have a property, as a set of numbers.
LEMMA Induction ==
    ASSUME NEW S, 0 \in S, \A n \in Nat : n \in S => n + 1 \in S
    PROVE  Nat \subseteq S
<1> SUFFICES ASSUME Nat \ S # {} PROVE FALSE
  OBVIOUS
<1>1. PICK x \in Nat \ S : \A y \in Nat \ S : x <= y
  BY LeastNatural
<1>2. x - 1 \in Nat /\ x - 1 < x /\ (x - 1) + 1 = x
  BY <1>1
<1>3. x - 1 \in S
  BY <1>1, <1>2
<1> QED
  BY <1>1, <1>2, <1>3

-----------------------------------------------------------------------------
(* Arranged rows *)

LEMMA SubsetOfTable ==
    ASSUME NEW n \in Nat, NEW T \in SUBSET (1..n)
    PROVE  IsFiniteSet(T) /\ Cardinality(T) \in Nat /\ Cardinality(T) <= n
<1>1. IsFiniteSet(1..n) /\ Cardinality(1..n) = n
  <2>1. CASE n = 0
    <3>1. 1..n = {}
      BY <2>1
    <3> QED
      BY <2>1, <3>1, FS_EmptySet
  <2>2. CASE n > 0
    BY <2>2, FS_Interval
  <2> QED
    BY <2>1, <2>2
<1>2. IsFiniteSet(T) /\ Cardinality(T) <= Cardinality(1..n)
  BY <1>1, FS_Subset
<1> QED
  BY <1>1, <1>2, FS_CardinalityType

\* What comes before i in T when keys are compared, and then positions.
Earlier(key, i, j) == key[i] < key[j] \/ (key[i] = key[j] /\ i < j)
AllBefore(T, key, i) == {j \in T : Earlier(key, j, i)}

\* What is arranged holds each position of T once, the k-th of them in p[k].
Places(p, T) ==
    /\ p \in [1..Cardinality(T) -> T]
    /\ \A k, l \in 1..Cardinality(T) : p[k] = p[l] => k = l
    /\ \A i \in T : \E k \in 1..Cardinality(T) : p[k] = i

Follows(out, s, p, T) ==
    /\ Places(p, T)
    /\ DOMAIN out = 1..Cardinality(T) /\ out = [k \in 1..Cardinality(T) |-> out[k]]
    /\ \A k \in 1..Cardinality(T) : out[k] = s[p[k]]

\* Arranging puts every position of T somewhere, and each once.
LEMMA ArrangedIs ==
    ASSUME NEW n \in Nat, NEW s, NEW T \in SUBSET (1..n), NEW key, \A i \in T : key[i] \in Int
    PROVE  \E p : Follows(Arranged(s, T, key), s, p, T)
<1> DEFINE c == Cardinality(T)
           B(i) == AllBefore(T, key, i)
           rank == [i \in T |-> Cardinality(B(i)) + 1]
           p == [k \in 1..c |-> CHOOSE i \in T : rank[i] = k]
<1>1. IsFiniteSet(T) /\ c \in Nat /\ \A i \in T : i \in Int /\ key[i] \in Int
  <2>1. \A i \in T : i \in Int /\ key[i] \in Int
    OBVIOUS
  <2> QED
    BY <2>1, SubsetOfTable
<1>2. ASSUME NEW i \in T
      PROVE  IsFiniteSet(B(i)) /\ Cardinality(B(i)) \in Nat /\ Cardinality(B(i)) < c
  <2>1. B(i) \in SUBSET T /\ i \notin B(i)
    BY <1>1 DEF AllBefore, Earlier
  <2> HIDE DEF B
  <2>2. /\ IsFiniteSet(B(i)) /\ Cardinality(B(i)) <= Cardinality(T)
        /\ (Cardinality(T) = Cardinality(B(i)) => T = B(i))
    BY <1>1, <2>1, FS_Subset
  <2>3. Cardinality(B(i)) \in Nat
    BY <2>2, FS_CardinalityType
  <2> QED
    BY <1>1, <2>1, <2>2, <2>3
<1>3. rank \in [T -> 1..c]
  <2> HIDE DEF B
  <2>1. \A i \in T : Cardinality(B(i)) + 1 \in 1..c
    BY <1>1, <1>2
  <2> QED
    BY <2>1
<1>4. ASSUME NEW i \in T, NEW j \in T, Earlier(key, i, j) PROVE rank[i] < rank[j]
  <2>1. B(i) \subseteq B(j) /\ i \in B(j) /\ i \notin B(i)
    <3>1. ASSUME NEW k \in T, Earlier(key, k, i) PROVE Earlier(key, k, j)
      <4>1. /\ key[i] \in Int /\ key[j] \in Int /\ key[k] \in Int
            /\ i \in Int /\ j \in Int /\ k \in Int
        BY <1>1
      <4> QED
        BY <1>4, <3>1, <4>1 DEF Earlier
    <3>2. ~Earlier(key, i, i)
      BY <1>1 DEF Earlier
    <3> QED
      BY <1>4, <3>1, <3>2 DEF AllBefore
  <2> HIDE DEF B
  <2>2. /\ Cardinality(B(i)) <= Cardinality(B(j))
        /\ (Cardinality(B(j)) = Cardinality(B(i)) => B(j) = B(i))
    BY <1>2, <2>1, FS_Subset
  <2>3. Cardinality(B(i)) < Cardinality(B(j))
    BY <1>2, <2>1, <2>2
  <2> QED
    BY <1>2, <2>3
<1>5. ASSUME NEW i \in T, NEW j \in T, rank[i] = rank[j] PROVE i = j
  <2>1. rank[i] \in Int /\ rank[j] \in Int
    BY <1>3
  <2>2. ~Earlier(key, i, j) /\ ~Earlier(key, j, i)
    <3> HIDE DEF rank
    <3> QED
      BY <1>4, <1>5, <2>1
  <2> QED
    BY <1>1, <2>2 DEF Earlier
<1>6. rank \in Injection(T, 1..c)
  <2> HIDE DEF rank
  <2> QED
    BY <1>3, <1>5 DEF Injection, IsInjective
<1>7. rank \in Surjection(T, 1..c)
  <2>1. IsFiniteSet(1..c) /\ Cardinality(1..c) = c
    <3>1. c >= 1 \/ 1..c = {}
      BY <1>1
    <3> QED
      BY <1>1, <3>1, FS_Interval, FS_EmptySet
  <2> HIDE DEF rank
  <2> QED
    BY <1>6, <2>1, FS_Injection
<1>8. \A k \in 1..c : \E i \in T : rank[i] = k
  <2> HIDE DEF rank
  <2> QED
    BY <1>7 DEF Surjection
<1>9. \A k \in 1..c : p[k] \in T /\ rank[p[k]] = k
  <2> HIDE DEF rank
  <2> QED
    BY <1>8
<1>10. Places(p, T)
  <2>1. p \in [1..c -> T]
    BY <1>9
  <2>2. \A k, l \in 1..c : p[k] = p[l] => k = l
    <3> HIDE DEF p, rank
    <3> QED
      BY <1>9
  <2>3. \A i \in T : rank[i] \in 1..c /\ p[rank[i]] = i
    <3> HIDE DEF p, rank
    <3> QED
      BY <1>3, <1>5, <1>9
  <2> HIDE DEF p, rank
  <2> QED
    BY <2>1, <2>2, <2>3 DEF Places
<1>11. Arranged(s, T, key) = [k \in 1..c |-> s[p[k]]]
  <2> DEFINE r(i) == Cardinality({j \in T : key[j] < key[i] \/ (key[j] = key[i] /\ j < i)})
             q(k) == CHOOSE i \in T : r(i) = k - 1
  <2>1. Arranged(s, T, key) = [k \in 1..c |-> s[q(k)]]
    BY DEF Arranged
  <2>2. \A i \in T : rank[i] = r(i) + 1 /\ r(i) \in Nat
    <3>1. \A i \in T : rank[i] = Cardinality(B(i)) + 1 /\ Cardinality(B(i)) \in Nat
      BY <1>2
    <3>2. \A i \in T : Cardinality(B(i)) = r(i)
      BY DEF AllBefore, Earlier
    <3> QED
      BY <3>1, <3>2
  <2> HIDE DEF r, rank
  <2>3. \A k \in 1..c : \A i \in T : rank[i] = k <=> r(i) = k - 1
    BY <1>1, <2>2
  <2>4. ASSUME NEW k \in 1..c PROVE q(k) = p[k]
    <3>1. p[k] \in T /\ rank[p[k]] = k
      BY <1>9
    <3>2. r(p[k]) = k - 1
      BY <2>3, <3>1
    <3> HIDE DEF p
    <3>3. q(k) \in T /\ r(q(k)) = k - 1
      BY <3>1, <3>2
    <3>4. rank[q(k)] = k
      BY <2>3, <3>3
    <3> QED
      BY <1>5, <3>1, <3>3, <3>4
  <2> HIDE DEF q, p
  <2> QED
    BY <2>1, <2>4
<1> DEFINE out == Arranged(s, T, key)
<1>12. DOMAIN out = 1..c /\ \A k \in 1..c : out[k] = s[p[k]]
  <2> HIDE DEF p
  <2> QED
    BY <1>11
<1>13. out = [k \in 1..c |-> out[k]]
  <2> HIDE DEF p, c
  <2>1. out = [k \in 1..c |-> s[p[k]]]
    BY <1>11
  <2> HIDE DEF out
  <2> QED
    BY <2>1
<1>14. Follows(out, s, p, T)
  <2> HIDE DEF p, out
  <2> QED
    BY <1>10, <1>12, <1>13 DEF Follows
<1> QED
  BY <1>14

-----------------------------------------------------------------------------
(* Groups and their members *)

\* e starts with c and its k-th value is what f[k] makes of the one before.
Unfolds(e, c, f, m) == e[0] = c /\ \A k \in 1..m : e[k] = f[k][e[k - 1]]

\* A function may be defined by its first value and each next one.
LEMMA Recursion ==
    ASSUME NEW n \in Nat, NEW c \in Int, NEW f \in [1..n -> [Int -> Int]]
    PROVE  \E e \in [0..n -> Int] : Unfolds(e, c, f, n)
<1> DEFINE Built(m) == \E e \in [0..m -> Int] : Unfolds(e, c, f, m)
           S == {m \in Nat : m <= n => Built(m)}
<1>1. Built(0)
  <2> DEFINE e == [k \in 0..0 |-> c]
  <2>1. e \in [0..0 -> Int] /\ e[0] = c /\ 1..0 = {}
    OBVIOUS
  <2> HIDE DEF e
  <2>2. Unfolds(e, c, f, 0)
    BY <2>1 DEF Unfolds
  <2> QED
    BY <2>1, <2>2
<1>2. ASSUME NEW m \in Nat, m + 1 <= n, Built(m) PROVE Built(m + 1)
  <2>1. PICK e \in [0..m -> Int] : Unfolds(e, c, f, m)
    BY <1>2
  <2> DEFINE g == [k \in 0..(m + 1) |-> IF k = m + 1 THEN f[m + 1][e[m]] ELSE e[k]]
  <2>2. m + 1 \in 1..n /\ e[m] \in Int
    BY <1>2, <2>1
  <2>3. f[m + 1] \in [Int -> Int]
    BY <2>2
  <2>4. f[m + 1][e[m]] \in Int
    BY <2>2, <2>3
  <2>5. g \in [0..(m + 1) -> Int]
    BY <2>1, <2>4
  <2>6. g[m + 1] = f[m + 1][e[m]] /\ \A k \in 0..m : g[k] = e[k]
    OBVIOUS
  <2> HIDE DEF g
  <2>7. g[0] = c
    <3>1. 0 \in 0..m /\ e[0] = c
      BY <2>1 DEF Unfolds
    <3> QED
      BY <2>6, <3>1
  <2>8. ASSUME NEW k \in 1..(m + 1) PROVE g[k] = f[k][g[k - 1]]
    <3>1. CASE k = m + 1
      <4>1. k - 1 = m /\ m \in 0..m
        BY <3>1
      <4> QED
        BY <2>6, <3>1, <4>1
    <3>2. CASE k # m + 1
      <4>1. k \in 1..m /\ k \in 0..m /\ k - 1 \in 0..m
        BY <3>2
      <4> QED
        BY <2>1, <2>6, <4>1 DEF Unfolds
    <3> QED
      BY <3>1, <3>2
  <2>9. Unfolds(g, c, f, m + 1)
    BY <2>7, <2>8 DEF Unfolds
  <2> QED
    BY <2>5, <2>9
<1> HIDE DEF Built
<1>3. 0 \in S /\ \A m \in Nat : m \in S => m + 1 \in S
  BY <1>1, <1>2
<1> HIDE DEF S
<1>4. n \in S
  BY <1>3, Induction
<1>5. Built(n)
  BY <1>4 DEF S
<1> QED
  BY <1>5 DEF Built

\* A function over the first n numbers is a sequence.
LEMMA Indexed ==
    ASSUME NEW n \in Nat, NEW V, NEW s \in [1..n -> V]
    PROVE  s \in Seq(V) /\ Len(s) = n /\ DOMAIN s = 1..n
OBVIOUS

\* The sums of the sizes exist and are what their name says.
LEMMA UpToIs ==
    ASSUME NEW n \in Nat, NEW s \in [1..n -> Nat]
    PROVE  /\ UpTo(s) \in [0..n -> Nat] /\ UpTo(s)[0] = 0 /\ Len(s) = n
           /\ \A k \in 1..n : UpTo(s)[k] = UpTo(s)[k - 1] + s[k]
<1> DEFINE f == [k \in 1..n |-> [v \in Int |-> v + s[k]]]
<1>1. f \in [1..n -> [Int -> Int]]
  OBVIOUS
<1>2. PICK e \in [0..n -> Int] : Unfolds(e, 0, f, n)
  <2> HIDE DEF f
  <2>1. 0 \in Int
    OBVIOUS
  <2> QED
    BY <1>1, <2>1, Recursion
<1>3. \A k \in 1..n : e[k - 1] \in Int /\ e[k] = e[k - 1] + s[k]
  <2>1. \A k \in 1..n : e[k] = f[k][e[k - 1]]
    BY <1>2 DEF Unfolds
  <2>2. \A k \in 1..n : k - 1 \in 0..n
    OBVIOUS
  <2>3. \A k \in 1..n : e[k - 1] \in Int
    BY <1>2, <2>2
  <2> QED
    BY <2>1, <2>3
<1>4. e = [k \in 0..n |-> IF k = 0 THEN 0 ELSE e[k - 1] + s[k]]
  <2>1. e[0] = 0
    BY <1>2 DEF Unfolds
  <2>2. e = [k \in 0..n |-> e[k]]
    BY <1>2
  <2>3. \A k \in 0..n : e[k] = IF k = 0 THEN 0 ELSE e[k - 1] + s[k]
    BY <1>3, <2>1
  <2> QED
    BY <2>2, <2>3
<1>5. Len(s) = n
  BY Indexed
<1> DEFINE Is(g) == g = [k \in 0..n |-> IF k = 0 THEN 0 ELSE g[k - 1] + s[k]]
<1>6. UpTo(s) = CHOOSE g : Is(g)
  BY <1>5 DEF UpTo
<1>7. Is(e)
  BY <1>4
<1> HIDE DEF Is
<1>8. Is(UpTo(s))
  BY <1>6, <1>7
<1> DEFINE t == UpTo(s)
<1>9. t = [k \in 0..n |-> IF k = 0 THEN 0 ELSE t[k - 1] + s[k]]
  BY <1>8 DEF Is
<1> HIDE DEF t
<1>10. t[0] = 0 /\ \A k \in 1..n : t[k] = t[k - 1] + s[k]
  BY <1>9
<1> DEFINE S == {m \in Nat : m <= n => t[m] \in Nat}
<1>11. 0 \in S /\ \A m \in Nat : m \in S => m + 1 \in S
  <2>1. ASSUME NEW m \in Nat, m \in S, m + 1 <= n PROVE t[m + 1] \in Nat
    <3>1. m + 1 \in 1..n /\ (m + 1) - 1 = m /\ t[m] \in Nat /\ s[m + 1] \in Nat
      BY <2>1
    <3> QED
      BY <1>10, <3>1
  <2> QED
    BY <1>10, <2>1
<1> HIDE DEF S
<1>12. \A m \in 0..n : t[m] \in Nat
  <2>1. Nat \subseteq S
    BY <1>11, Induction
  <2> QED
    BY <2>1 DEF S
<1>13. t \in [0..n -> Nat]
  BY <1>9, <1>12
<1> QED
  BY <1>5, <1>10, <1>13 DEF t

\* They grow.
LEMMA UpToGrows ==
    ASSUME NEW n \in Nat, NEW s \in [1..n -> Nat], NEW j \in 0..n, NEW k \in 0..n, j <= k
    PROVE  UpTo(s)[j] <= UpTo(s)[k]
<1> DEFINE t == UpTo(s)
           S == {m \in Nat : j + m <= n => t[j] <= t[j + m]}
<1>1. t \in [0..n -> Nat] /\ \A i \in 1..n : t[i] = t[i - 1] + s[i]
  BY UpToIs
<1> HIDE DEF t
<1>2. 0 \in S
  BY <1>1
<1>3. ASSUME NEW m \in Nat, m \in S PROVE m + 1 \in S
  <2> SUFFICES ASSUME j + (m + 1) <= n PROVE t[j] <= t[j + (m + 1)]
    OBVIOUS
  <2> DEFINE i == j + (m + 1)
  <2>1. i \in 1..n /\ i - 1 = j + m /\ j + m \in 0..n /\ s[i] \in Nat
    OBVIOUS
  <2>2. t[j] <= t[j + m]
    BY <1>3, <2>1
  <2>3. t[i] = t[j + m] + s[i]
    BY <1>1, <2>1
  <2>4. t[j] \in Nat /\ t[j + m] \in Nat
    BY <1>1, <2>1
  <2> QED
    BY <2>1, <2>2, <2>3, <2>4
<1> HIDE DEF S
<1>4. k - j \in S
  <2>1. k - j \in Nat
    OBVIOUS
  <2> QED
    BY <1>2, <1>3, <2>1, Induction
<1>5. j + (k - j) = k
  OBVIOUS
<1> QED
  BY <1>4, <1>5 DEF S, t

\* The group of the j-th member is the one that it falls into.
Within(s, k, j) == UpTo(s)[k - 1] < j /\ j <= UpTo(s)[k]

LEMMA GroupIs ==
    ASSUME NEW n \in Nat, NEW s \in [1..n -> Nat], NEW j \in 1..UpTo(s)[n]
    PROVE  /\ GroupOf(s, j) \in 1..n /\ PlaceOf(s, j) \in 1..s[GroupOf(s, j)]
           /\ j = UpTo(s)[GroupOf(s, j) - 1] + PlaceOf(s, j)
           /\ Within(s, GroupOf(s, j), j)
<1> DEFINE t == UpTo(s)
           T == {k \in 0..n : j <= t[k]}
           g == GroupOf(s, j)
<1>1. /\ t \in [0..n -> Nat] /\ t[0] = 0 /\ DOMAIN s = 1..n
      /\ \A i \in 1..n : t[i] = t[i - 1] + s[i]
  BY UpToIs
<1>2. g = CHOOSE k \in 1..n : t[k - 1] < j /\ j <= t[k]
  BY <1>1 DEF GroupOf
<1>3. PlaceOf(s, j) = j - t[g - 1]
  BY DEF PlaceOf
<1>4. j \in Nat /\ j >= 1 /\ j <= t[n] /\ n \in 0..n
  BY <1>1
<1> HIDE DEF t
<1>5. PICK k \in T : \A i \in T : k <= i
  <2>1. n \in T /\ T \in SUBSET Nat
    BY <1>4
  <2> QED
    BY <2>1, LeastNatural
<1>6. k \in 1..n /\ k - 1 \in 0..n
  BY <1>1, <1>4, <1>5
<1>7. t[k - 1] < j /\ j <= t[k]
  <2>1. ~(k - 1 \in T)
    BY <1>5, <1>6
  <2>2. t[k - 1] \in Nat
    BY <1>1, <1>6
  <2> QED
    BY <1>4, <1>5, <1>6, <2>1, <2>2
<1> HIDE DEF g
<1>8. g \in 1..n /\ t[g - 1] < j /\ j <= t[g]
  BY <1>2, <1>6, <1>7
<1>9. t[g] = t[g - 1] + s[g] /\ t[g - 1] \in Nat /\ s[g] \in Nat
  <2>1. g - 1 \in 0..n
    BY <1>8
  <2> QED
    BY <1>1, <1>8, <2>1
<1> QED
  BY <1>3, <1>4, <1>8, <1>9 DEF t, g, Within

\* No other group is.
LEMMA GroupIsUnique ==
    ASSUME NEW n \in Nat, NEW s \in [1..n -> Nat], NEW j \in Nat,
           NEW k \in 1..n, NEW l \in 1..n, Within(s, k, j), Within(s, l, j)
    PROVE  k = l
<1>1. ASSUME NEW x \in 1..n, NEW y \in 1..n, Within(s, x, j), Within(s, y, j), x < y
      PROVE  FALSE
  <2>1. x \in 0..n /\ y - 1 \in 0..n /\ x <= y - 1
    BY <1>1
  <2>2. UpTo(s)[x] <= UpTo(s)[y - 1]
    BY <2>1, UpToGrows
  <2>3. UpTo(s)[x] \in Nat /\ UpTo(s)[y - 1] \in Nat
    BY <2>1, UpToIs
  <2> QED
    BY <1>1, <2>2, <2>3 DEF Within
<1> QED
  BY <1>1

\* Each place of each group is somebody's.
LEMMA PlaceIsTaken ==
    ASSUME NEW n \in Nat, NEW s \in [1..n -> Nat], NEW k \in 1..n, NEW i \in 1..s[k]
    PROVE  LET j == UpTo(s)[k - 1] + i
           IN  /\ j \in 1..UpTo(s)[n] /\ j <= UpTo(s)[k]
               /\ GroupOf(s, j) = k /\ PlaceOf(s, j) = i
<1> DEFINE t == UpTo(s)
           j == t[k - 1] + i
<1>1. /\ t \in [0..n -> Nat] /\ \A m \in 1..n : t[m] = t[m - 1] + s[m]
  BY UpToIs
<1>2. k - 1 \in 0..n /\ k \in 0..n /\ n \in 0..n /\ s[k] \in Nat /\ k <= n
  OBVIOUS
<1>3. t[k] <= t[n]
  BY <1>2, UpToGrows
<1>4. t[k - 1] \in Nat /\ t[k] \in Nat /\ t[n] \in Nat /\ t[k] = t[k - 1] + s[k]
  BY <1>1, <1>2
<1> HIDE DEF t
<1>5. j \in 1..t[n] /\ t[k - 1] < j /\ j <= t[k] /\ j \in Nat
  BY <1>2, <1>3, <1>4
<1>6. j - t[k - 1] = i
  BY <1>4
<1> HIDE DEF j
<1>7. GroupOf(s, j) = k
  <2>1. GroupOf(s, j) \in 1..n /\ Within(s, GroupOf(s, j), j)
    BY <1>5, GroupIs DEF t
  <2>2. Within(s, k, j)
    BY <1>5 DEF Within, t
  <2> QED
    BY <1>5, <2>1, <2>2, GroupIsUnique
<1>8. PlaceOf(s, j) = i
  BY <1>6, <1>7 DEF PlaceOf, t
<1> QED
  BY <1>5, <1>7, <1>8 DEF j, t

-----------------------------------------------------------------------------
(* The rows of each loader *)

\* What a job is of a row: it has a length, starts no earlier than at 0, and is
\* called as the row is.
IsJob(l, row) ==
    JobAs(l, row).true >= 1 /\ JobAs(l, row).at >= 0 /\ JobAs(l, row).id = row.id

\* Rows whose jobs happened, each once.
TrueRows(l, rows) ==
    \E n \in Nat : /\ rows = [i \in 1..n |-> rows[i]]
                   /\ \A i \in 1..n : IsJob(l, rows[i])
                   /\ \A i, j \in 1..n : rows[i].id = rows[j].id => i = j

LEMMA AtLeastIs ==
    ASSUME NEW x \in Int
    PROVE  AtLeast(1, x) \in Int /\ AtLeast(1, x) >= 1 /\ (x >= 1 => AtLeast(1, x) = x)
BY DEF AtLeast

LEMMA DrawIs == ASSUME NEW i \in Int PROVE Draw(i) \in Nat /\ Draw(i) >= 1
BY DEF Draw

\* Numbers as lengths and times are all that a row needs.
LEMMA JobIs ==
    ASSUME NEW l \in Loaders \ {"synthetic"}, NEW row, row.duration \in Int, row.at \in Nat
    PROVE  IsJob(l, row)
<1>1. AtLeast(1, row.duration) >= 1
  BY AtLeastIs
<1>2. AtLeast(1, 1000 * row.duration) >= 1
  <2>1. 1000 * row.duration \in Int
    OBVIOUS
  <2> QED
    BY <2>1, AtLeastIs
<1>3. row.at >= 0 /\ 1000 * row.at >= 0
  OBVIOUS
<1>4. CASE l = "burstgpt"
  BY <1>1, <1>3, <1>4 DEF IsJob, JobAs, BurstJob
<1>5. CASE l = "philly"
  BY <1>1, <1>3, <1>5 DEF IsJob, JobAs, PhillyJob
<1>6. CASE l = "helios"
  BY <1>2, <1>3, <1>6 DEF IsJob, JobAs, HeliosJob
<1>7. CASE l = "azure"
  BY <1>1, <1>3, <1>7 DEF IsJob, JobAs, AzureJob
<1>8. CASE l = "borg"
  BY <1>1, <1>3, <1>8 DEF IsJob, JobAs, BorgJob
<1>9. CASE l = "mooncake"
  BY <1>1, <1>3, <1>9 DEF IsJob, JobAs, MooncakeJob
<1> QED
  BY <1>4, <1>5, <1>6, <1>7, <1>8, <1>9 DEF Loaders

\* A table has its rows at 1..n.
LEMMA TableIs ==
    ASSUME NEW rows, IsTable(rows)
    PROVE  \E n \in Nat : DOMAIN rows = 1..n /\ Len(rows) = n /\ rows = [i \in 1..n |-> rows[i]]
BY DEF IsTable

LEMMA KeptIs ==
    ASSUME NEW n \in Nat, NEW rows, DOMAIN rows = 1..n, NEW T \in SUBSET (1..n)
    PROVE  \E p : Follows(Kept(rows, T), rows, p, T)
<1> DEFINE key == [i \in 1..n |-> 0]
<1>1. \A i \in T : key[i] \in Int
  OBVIOUS
<1>2. Kept(rows, T) = Arranged(rows, T, key)
  BY DEF Kept
<1> HIDE DEF key
<1> QED
  BY <1>1, <1>2, ArrangedIs

LEMMA FixtureRows ==
    ASSUME NEW l \in Loaders \ {"synthetic"}, NEW rows, FixtureIsCredible(rows)
    PROVE  TrueRows(l, rows)
<1>1. PICK n \in Nat : DOMAIN rows = 1..n /\ rows = [i \in 1..n |-> rows[i]]
  BY TableIs DEF FixtureIsCredible
<1>2. \A i \in 1..n : IsJob(l, rows[i])
  BY <1>1, JobIs DEF FixtureIsCredible
<1>3. \A i, j \in 1..n : rows[i].id = rows[j].id => i = j
  BY <1>1 DEF FixtureIsCredible, UniqueIds, IsInjective
<1> QED
  BY <1>1, <1>2, <1>3 DEF TrueRows

LEMMA BurstRows ==
    ASSUME NEW t, BurstIsCredible(t)
    PROVE  /\ TrueRows("burstgpt", BurstNormalise(t))
           /\ DOMAIN BurstNormalise(t) = DOMAIN t.rows
<1> DEFINE b == BurstNormalise(t)
           T == {t.rows[i].submit : i \in DOMAIN t.rows}
           from == Min(T)
<1>1. PICK n \in Nat : DOMAIN t.rows = 1..n
  BY TableIs DEF BurstIsCredible
<1>2. /\ DOMAIN b = 1..n /\ b = [i \in 1..n |-> b[i]]
      /\ \A i \in 1..n :
           /\ b[i].id = IF "id" \in t.cols THEN t.rows[i].id ELSE i - 1
           /\ b[i].duration = IF "duration" \in t.cols THEN t.rows[i].duration
                              ELSE 30 + (9 * BurstTokens(t, t.rows[i])) \div 10 + Draw(i)
           /\ b[i].at = IF "submit" \in t.cols THEN t.rows[i].submit - from ELSE i - 1
  BY <1>1 DEF BurstNormalise
<1>3. ASSUME NEW i \in 1..n PROVE IsJob("burstgpt", b[i])
  <2>1. /\ t.rows[i].duration \in Int /\ t.rows[i].tokens \in Int /\ t.rows[i].submit \in Nat
        /\ T \in SUBSET Nat /\ t.rows[i].submit \in T
    BY <1>1 DEF BurstIsCredible
  <2>2. from \in Nat /\ from <= t.rows[i].submit
    <3> HIDE DEF T
    <3>1. T # {}
      BY <2>1
    <3> QED
      BY <2>1, <3>1, MinIs
  <2> HIDE DEF from
  <2>3. b[i].at \in Nat
    BY <1>2, <2>1, <2>2
  <2>4. b[i].duration \in Int
    <3>1. BurstTokens(t, t.rows[i]) \in Int
      BY <2>1 DEF BurstTokens
    <3>2. (9 * BurstTokens(t, t.rows[i])) \div 10 \in Int
      BY <3>1
    <3>3. Draw(i) \in Int
      BY DrawIs
    <3> QED
      BY <1>2, <2>1, <3>2, <3>3
  <2> HIDE DEF b
  <2> QED
    BY <2>3, <2>4, JobIs DEF Loaders
<1>4. ASSUME NEW i \in 1..n, NEW j \in 1..n, b[i].id = b[j].id PROVE i = j
  <2>1. CASE "id" \in t.cols
    <3>1. t.rows[i].id = t.rows[j].id
      BY <1>2, <1>4, <2>1
    <3> QED
      BY <1>1, <2>1, <3>1 DEF BurstIsCredible, UniqueIds, IsInjective
  <2>2. CASE "id" \notin t.cols
    <3>1. i - 1 = j - 1
      BY <1>2, <1>4, <2>2
    <3> QED
      BY <3>1
  <2> QED
    BY <2>1, <2>2
<1> HIDE DEF b
<1>5. TrueRows("burstgpt", b)
  BY <1>2, <1>3, <1>4 DEF TrueRows
<1> QED
  BY <1>1, <1>2, <1>5 DEF b

\* Philly keeps completed jobs that have an end after their start.
PhillyCounts(t, r) ==
    /\ "status" \in t.cols => r.status = "completed"
    /\ NaN \notin {r.start, r.end} /\ r.end > r.start

LEMMA PhillyRows ==
    ASSUME NEW t, PhillyIsCredible(t)
    PROVE  /\ TrueRows("philly", PhillyNormalise(t))
           /\ {"id", "status"} \subseteq t.cols =>
                \A i \in DOMAIN PhillyNormalise(t) :
                   \E k \in Measured(t.rows) : t.rows[k].id = PhillyNormalise(t)[i].id
<1> DEFINE T == {i \in DOMAIN t.rows : PhillyCounts(t, t.rows[i])}
           kept == Kept(t.rows, T)
           c == Cardinality(T)
           b == PhillyNormalise(t)
           from == Min({kept[i].start : i \in DOMAIN kept})
<1>1. PICK n \in Nat : DOMAIN t.rows = 1..n
  BY TableIs DEF PhillyIsCredible
<1>2. PICK p : Follows(kept, t.rows, p, T)
  <2>1. T \in SUBSET (1..n)
    BY <1>1
  <2> HIDE DEF T
  <2> QED
    BY <1>1, <2>1, KeptIs
<1>3. c \in Nat
  BY <1>1, SubsetOfTable
<1>4. b = [i \in DOMAIN kept |->
             [id       |-> IF "id" \in t.cols THEN kept[i].id ELSE i - 1,
              duration |-> kept[i].end - kept[i].start,
              group    |-> IF "group" \in t.cols /\ kept[i].group # "nan" THEN kept[i].group
                           ELSE "other",
              size     |-> Fill(t, kept[i], "size", 1),
              at       |-> kept[i].start - from]]
  BY DEF PhillyNormalise, PhillyCounts
<1>5. /\ DOMAIN b = 1..c /\ b = [i \in 1..c |-> b[i]]
      /\ \A i \in 1..c : /\ b[i].id = IF "id" \in t.cols THEN kept[i].id ELSE i - 1
                         /\ b[i].duration = kept[i].end - kept[i].start
                         /\ b[i].at = kept[i].start - from
  <2>1. DOMAIN kept = 1..c
    BY <1>2 DEF Follows
  <2> HIDE DEF kept, from, c, b
  <2> QED
    BY <2>1, <1>4
<1>6. ASSUME NEW i \in 1..c
      PROVE  /\ p[i] \in 1..n /\ kept[i] = t.rows[p[i]] /\ PhillyCounts(t, kept[i])
             /\ kept[i].start \in Nat /\ kept[i].end \in Nat /\ kept[i].end > kept[i].start
  <2>1. p[i] \in T /\ kept[i] = t.rows[p[i]]
    <3> HIDE DEF T, kept
    <3> QED
      BY <1>2 DEF Follows, Places
  <2>2. /\ t.rows[p[i]].start \in Clock /\ t.rows[p[i]].end \in Clock
        /\ p[i] \in 1..n /\ PhillyCounts(t, t.rows[p[i]])
    BY <1>1, <2>1 DEF PhillyIsCredible
  <2> HIDE DEF T, kept
  <2> QED
    BY <2>1, <2>2 DEF PhillyCounts, Clock
<1>7. ASSUME NEW i \in 1..c PROVE IsJob("philly", b[i])
  <2>0. DOMAIN kept = 1..c
    BY <1>2 DEF Follows
  <2> HIDE DEF kept, c, b
  <2>1. {kept[k].start : k \in DOMAIN kept} \in SUBSET Nat
    BY <2>0, <1>6
  <2>2. kept[i].start \in {kept[k].start : k \in DOMAIN kept}
    BY <2>0
  <2>3. from \in Nat /\ from <= kept[i].start
    <3> DEFINE U == {kept[k].start : k \in DOMAIN kept}
    <3>1. U \in SUBSET Nat /\ U # {} /\ kept[i].start \in U
      BY <2>1, <2>2
    <3> HIDE DEF U
    <3>2. Min(U) \in U /\ Min(U) <= kept[i].start
      BY <3>1, MinIs
    <3> QED
      BY <3>1, <3>2 DEF U
  <2> HIDE DEF from
  <2>4. b[i].duration \in Int /\ b[i].at \in Nat
    BY <1>5, <1>6, <2>3
  <2> QED
    BY <2>4, JobIs DEF Loaders
<1>8. ASSUME NEW i \in 1..c, NEW j \in 1..c, b[i].id = b[j].id PROVE i = j
  <2> HIDE DEF kept, c, b, T
  <2>1. CASE "id" \in t.cols
    <3>1. t.rows[p[i]].id = t.rows[p[j]].id /\ p[i] \in 1..n /\ p[j] \in 1..n
      BY <1>5, <1>6, <1>8, <2>1
    <3>2. p[i] = p[j]
      BY <1>1, <2>1, <3>1 DEF PhillyIsCredible, UniqueIds, IsInjective
    <3> QED
      BY <1>2, <3>2 DEF Follows, Places, c
  <2>2. CASE "id" \notin t.cols
    <3>1. i - 1 = j - 1
      BY <1>5, <1>8, <2>2
    <3> QED
      BY <1>3, <3>1
  <2> QED
    BY <2>1, <2>2
<1>9. ASSUME {"id", "status"} \subseteq t.cols, NEW i \in 1..c
      PROVE  \E k \in Measured(t.rows) : t.rows[k].id = b[i].id
  <2> HIDE DEF kept, c, b, T
  <2>1. p[i] \in Measured(t.rows)
    BY <1>1, <1>6, <1>9 DEF Measured, PhillyCounts
  <2>2. b[i].id = t.rows[p[i]].id
    BY <1>5, <1>6, <1>9
  <2> QED
    BY <2>1, <2>2
<1> HIDE DEF b, c, kept, T
<1>10. TrueRows("philly", b)
  BY <1>3, <1>5, <1>7, <1>8 DEF TrueRows
<1> QED
  BY <1>5, <1>9, <1>10 DEF b

\* Rows that are picked from true ones are true.
LEMMA FollowsTrue ==
    ASSUME NEW l, NEW n \in Nat, NEW rows, NEW T \in SUBSET (1..n), NEW p, NEW out,
           Follows(out, rows, p, T),
           \A i \in 1..n : IsJob(l, rows[i]),
           \A i, j \in 1..n : rows[i].id = rows[j].id => i = j
    PROVE  TrueRows(l, out)
<1> DEFINE c == Cardinality(T)
<1>1. c \in Nat
  BY SubsetOfTable
<1>2. /\ out = [k \in 1..c |-> out[k]]
      /\ \A k \in 1..c : p[k] \in 1..n /\ out[k] = rows[p[k]]
      /\ \A k, m \in 1..c : p[k] = p[m] => k = m
  BY DEF Follows, Places
<1> HIDE DEF c
<1>3. \A k \in 1..c : IsJob(l, out[k])
  BY <1>2
<1>4. ASSUME NEW k \in 1..c, NEW m \in 1..c, out[k].id = out[m].id PROVE k = m
  <2>1. rows[p[k]].id = rows[p[m]].id
    BY <1>2, <1>4
  <2>2. p[k] = p[m]
    BY <1>2, <2>1
  <2> QED
    BY <1>2, <2>2
<1> QED
  BY <1>1, <1>2, <1>3, <1>4 DEF TrueRows

\* So are their beginning and their reverse.
LEMMA FirstTrue ==
    ASSUME NEW l, NEW rows, TrueRows(l, rows), NEW m \in Nat
    PROVE  TrueRows(l, First(rows, m))
<1>1. PICK n \in Nat : /\ rows = [i \in 1..n |-> rows[i]]
                       /\ \A i \in 1..n : IsJob(l, rows[i])
                       /\ \A i, j \in 1..n : rows[i].id = rows[j].id => i = j
  BY DEF TrueRows
<1> DEFINE k == IF m <= n THEN m ELSE n
           b == First(rows, m)
<1>2. k \in Nat /\ DOMAIN rows \cap 1..m = 1..k /\ \A i \in 1..k : i \in 1..n
  BY <1>1
<1> HIDE DEF k
<1>3. b = [i \in 1..k |-> rows[i]]
  BY <1>2 DEF First
<1>4. b = [i \in 1..k |-> b[i]] /\ \A i \in 1..k : b[i] = rows[i]
  <2> HIDE DEF b
  <2> QED
    BY <1>3
<1> HIDE DEF b
<1>5. \A i \in 1..k : IsJob(l, b[i])
  BY <1>1, <1>2, <1>4
<1>6. ASSUME NEW i \in 1..k, NEW j \in 1..k, b[i].id = b[j].id PROVE i = j
  BY <1>1, <1>2, <1>4, <1>6
<1>7. TrueRows(l, b)
  BY <1>2, <1>4, <1>5, <1>6 DEF TrueRows
<1> QED
  BY <1>7 DEF b

LEMMA ShuffledTrue ==
    ASSUME NEW l, NEW rows, TrueRows(l, rows)
    PROVE  TrueRows(l, ShuffledAs(l, rows))
<1>1. PICK n \in Nat : /\ rows = [i \in 1..n |-> rows[i]]
                       /\ \A i \in 1..n : IsJob(l, rows[i])
                       /\ \A i, j \in 1..n : rows[i].id = rows[j].id => i = j
  BY DEF TrueRows
<1> DEFINE b == Reverse(rows)
<1>2. Len(rows) = n
  <2> DEFINE V == {rows[i] : i \in 1..n}
  <2>1. rows \in [1..n -> V]
    BY <1>1
  <2> HIDE DEF V
  <2> QED
    BY <2>1, Indexed
<1>3. b = [i \in 1..n |-> rows[(n - i) + 1]]
  BY <1>2 DEF Reverse
<1>4. b = [i \in 1..n |-> b[i]] /\ \A i \in 1..n : b[i] = rows[(n - i) + 1]
  <2> HIDE DEF b
  <2> QED
    BY <1>3
<1>5. \A i \in 1..n : (n - i) + 1 \in 1..n
  OBVIOUS
<1> HIDE DEF b
<1>6. TrueRows(l, b)
  <2>1. \A i \in 1..n : IsJob(l, b[i])
    BY <1>1, <1>4, <1>5
  <2>2. ASSUME NEW i \in 1..n, NEW j \in 1..n, b[i].id = b[j].id PROVE i = j
    <3>1. rows[(n - i) + 1].id = rows[(n - j) + 1].id
      BY <1>4, <2>2
    <3>2. (n - i) + 1 = (n - j) + 1
      BY <1>1, <1>5, <3>1
    <3> QED
      BY <3>2
  <2> QED
    BY <1>4, <2>1, <2>2 DEF TrueRows
<1> QED
  BY <1>6 DEF b, ShuffledAs

\* What Helios' files hold together.
HeliosRowsAreCredible(t) ==
    \E n \in Nat :
       /\ DOMAIN t.rows = 1..n
       /\ \A i \in 1..n : /\ t.rows[i].duration \in Clock /\ t.rows[i].start \in Clock
                          /\ t.rows[i].end \in Clock /\ t.rows[i].submit \in Clock
       /\ "id" \in t.cols => \A i, j \in 1..n : t.rows[i].id = t.rows[j].id => i = j

LEMMA HeliosTableIs ==
    ASSUME NEW archive, HeliosIsCredible(archive)
    PROVE  HeliosRowsAreCredible(HeliosTable(archive))
<1> DEFINE T == {f \in DOMAIN archive.files : archive.files[f].readable}
           files == HeliosReadable(archive)
           c == Cardinality(T)
           sizes == [f \in 1..c |-> Len(files[f].rows)]
           n == UpTo(sizes)[c]
           t == HeliosTable(archive)
           g(j) == GroupOf(sizes, j)
           i(j) == PlaceOf(sizes, j)
<1>1. PICK m \in Nat : DOMAIN archive.files = 1..m
  BY TableIs DEF HeliosIsCredible
<1>2. PICK p : Follows(files, archive.files, p, T)
  <2>1. T \in SUBSET (1..m)
    BY <1>1
  <2>2. files = Kept(archive.files, T)
    BY DEF HeliosReadable
  <2> HIDE DEF T, files
  <2> QED
    BY <1>1, <2>1, <2>2, KeptIs
<1>3. c \in Nat
  BY <1>1, SubsetOfTable
<1>4. /\ DOMAIN files = 1..c /\ \A f \in 1..c : p[f] \in 1..m /\ files[f] = archive.files[p[f]]
      /\ \A f, h \in 1..c : p[f] = p[h] => f = h
  <2>1. T \subseteq 1..m
    BY <1>1
  <2> HIDE DEF files, T
  <2> QED
    BY <1>2, <2>1 DEF Follows, Places
<1>5. ASSUME NEW f \in 1..c
      PROVE  /\ Len(files[f].rows) \in Nat /\ DOMAIN files[f].rows = 1..Len(files[f].rows)
             /\ \A k \in DOMAIN files[f].rows :
                  LET r == files[f].rows[k]
                  IN  r.duration \in Clock /\ r.start \in Clock /\ r.end \in Clock /\ r.submit \in Clock
  <2>1. p[f] \in DOMAIN archive.files /\ files[f] = archive.files[p[f]]
    BY <1>1, <1>4
  <2> HIDE DEF files
  <2>2. IsTable(files[f].rows)
    BY <2>1 DEF HeliosIsCredible
  <2>3. \A k \in DOMAIN files[f].rows :
           LET r == files[f].rows[k] IN {r.duration, r.start, r.end, r.submit} \subseteq Clock
    BY <2>1 DEF HeliosIsCredible
  <2>4. PICK x \in Nat : DOMAIN files[f].rows = 1..x /\ Len(files[f].rows) = x
    BY <2>2, TableIs
  <2> QED
    BY <2>3, <2>4
<1>6. sizes \in [1..c -> Nat] /\ \A f \in 1..c : sizes[f] = Len(files[f].rows)
  <2> HIDE DEF files, c
  <2> QED
    BY <1>5
<1>7. /\ t.cols = archive.cols /\ DOMAIN t.rows = 1..n
      /\ \A j \in 1..n : t.rows[j] = files[g(j)].rows[i(j)]
  <2>1. Len(sizes) = c
    BY <1>3, <1>6, UpToIs
  <2>2. sizes = [f \in DOMAIN files |-> Len(files[f].rows)]
    BY <1>4
  <2>3. t = [cols |-> archive.cols,
             rows |-> [j \in 1..UpTo(sizes)[Len(sizes)] |-> files[g(j)].rows[i(j)]]]
    <3> HIDE DEF c, files
    <3> QED
      BY <2>2 DEF HeliosTable, files
  <2> HIDE DEF t, g, i, sizes, files
  <2> QED
    BY <2>1, <2>3
<1> HIDE DEF sizes, files, T, c
<1>8. n \in Nat
  <2>1. c \in 0..c
    BY <1>3
  <2> QED
    BY <1>3, <1>6, <2>1, UpToIs
<1>9. \A j \in 1..n : /\ g(j) \in 1..c /\ i(j) \in 1..sizes[g(j)] /\ i(j) \in DOMAIN files[g(j)].rows
                      /\ j = UpTo(sizes)[g(j) - 1] + i(j)
  <2>1. \A j \in 1..n : /\ g(j) \in 1..c /\ i(j) \in 1..sizes[g(j)]
                        /\ j = UpTo(sizes)[g(j) - 1] + i(j)
    BY <1>3, <1>6, GroupIs
  <2> HIDE DEF g, i, n
  <2> QED
    BY <1>5, <1>6, <2>1
<1>10. ASSUME "id" \in t.cols, NEW j \in 1..n, NEW k \in 1..n, t.rows[j].id = t.rows[k].id
       PROVE  j = k
  <2> HIDE DEF t, n
  <2>1. files[g(j)].rows[i(j)].id = files[g(k)].rows[i(k)].id
    BY <1>7, <1>10
  <2> HIDE DEF g, i
  <2>2. /\ g(j) \in 1..c /\ g(k) \in 1..c
        /\ i(j) \in DOMAIN archive.files[p[g(j)]].rows /\ i(k) \in DOMAIN archive.files[p[g(k)]].rows
        /\ files[g(j)] = archive.files[p[g(j)]] /\ files[g(k)] = archive.files[p[g(k)]]
        /\ p[g(j)] \in DOMAIN archive.files /\ p[g(k)] \in DOMAIN archive.files
    BY <1>1, <1>4, <1>9
  <2>3. p[g(j)] = p[g(k)] /\ i(j) = i(k)
    BY <1>7, <1>10, <2>1, <2>2 DEF HeliosIsCredible
  <2>4. g(j) = g(k)
    BY <1>4, <2>2, <2>3
  <2> QED
    BY <1>9, <2>3, <2>4
<1>11. \A j \in 1..n : /\ t.rows[j].duration \in Clock /\ t.rows[j].start \in Clock
                       /\ t.rows[j].end \in Clock /\ t.rows[j].submit \in Clock
  <2> HIDE DEF t, n, g, i
  <2> QED
    BY <1>5, <1>7, <1>9
<1> HIDE DEF t, n
<1>12. HeliosRowsAreCredible(t)
  BY <1>7, <1>8, <1>10, <1>11 DEF HeliosRowsAreCredible
<1> QED
  BY <1>12 DEF t

LEMMA HeliosRows ==
    ASSUME NEW t, HeliosRowsAreCredible(t)
    PROVE  TrueRows("helios", HeliosNormalise(t))
<1>1. PICK n \in Nat :
         /\ DOMAIN t.rows = 1..n
         /\ \A i \in 1..n : /\ t.rows[i].duration \in Clock /\ t.rows[i].start \in Clock
                            /\ t.rows[i].end \in Clock /\ t.rows[i].submit \in Clock
         /\ "id" \in t.cols => \A i, j \in 1..n : t.rows[i].id = t.rows[j].id => i = j
  BY DEF HeliosRowsAreCredible
<1> DEFINE all == [i \in DOMAIN t.rows |-> i]
           D == {i \in DOMAIN t.rows : "status" \in t.cols => t.rows[i].status = "completed"}
           done == Kept(all, D)
           c == Cardinality(D)
           duration(k) == HeliosDuration(t, t.rows[done[k]], k)
           K == {k \in DOMAIN done : duration(k) > 0}
           some == [k \in DOMAIN done |-> k]
           kept == Kept(some, K)
           m == Cardinality(K)
           b == HeliosNormalise(t)
<1>2. PICK p : Follows(done, all, p, D)
  <2>1. D \in SUBSET (1..n) /\ DOMAIN all = 1..n
    BY <1>1
  <2> HIDE DEF D, all
  <2> QED
    BY <2>1, KeptIs
<1>3. c \in Nat
  <2>1. D \in SUBSET (1..n)
    BY <1>1
  <2> HIDE DEF D
  <2> QED
    BY <2>1, SubsetOfTable
<1>4. /\ DOMAIN done = 1..c /\ \A k \in 1..c : done[k] \in 1..n
      /\ \A k, l \in 1..c : done[k] = done[l] => k = l
  <2>1. D \subseteq 1..n /\ \A i \in 1..n : all[i] = i
    BY <1>1
  <2> HIDE DEF D, all, done
  <2>2. \A k \in 1..c : p[k] \in D
    BY <1>2 DEF Follows, Places
  <2>3. \A k \in 1..c : done[k] = p[k]
    BY <1>2, <2>1, <2>2 DEF Follows
  <2> QED
    BY <1>2, <2>1, <2>2, <2>3 DEF Follows, Places
<1> HIDE DEF c, D
<1>5. PICK q : Follows(kept, some, q, K)
  <2>1. K \in SUBSET (1..c) /\ DOMAIN some = 1..c
    BY <1>4
  <2> HIDE DEF K, some
  <2> QED
    BY <1>3, <2>1, KeptIs
<1>6. m \in Nat
  <2>1. K \in SUBSET (1..c)
    BY <1>4
  <2> HIDE DEF K
  <2> QED
    BY <1>3, <2>1, SubsetOfTable
<1>7. /\ DOMAIN kept = 1..m /\ \A k \in 1..m : kept[k] \in 1..c
      /\ \A k, l \in 1..m : kept[k] = kept[l] => k = l
  <2>1. K \subseteq 1..c /\ \A i \in 1..c : some[i] = i
    BY <1>4
  <2> HIDE DEF K, some, kept
  <2>2. \A k \in 1..m : q[k] \in K
    BY <1>5 DEF Follows, Places
  <2>3. \A k \in 1..m : kept[k] = q[k]
    BY <1>5, <2>1, <2>2 DEF Follows
  <2> QED
    BY <1>5, <2>1, <2>2, <2>3 DEF Follows, Places
<1>8. b = [i \in DOMAIN kept |->
             [id       |-> IF "id" \in t.cols THEN t.rows[done[kept[i]]].id ELSE done[kept[i]] - 1,
              duration |-> duration(kept[i]),
              queue    |-> Fill(t, t.rows[done[kept[i]]], "queue", 0),
              at       |-> IF "submit" \in t.cols THEN Fill(t, t.rows[done[kept[i]]], "submit", 0)
                           ELSE i - 1,
              size     |-> Fill(t, t.rows[done[kept[i]]], "size", 1),
              group    |-> IF "group" \in t.cols THEN t.rows[done[kept[i]]].group
                           ELSE HeliosTier(Fill(t, t.rows[done[kept[i]]], "size", 1))]]
  BY DEF HeliosNormalise, D
<1> HIDE DEF m, K, some, kept, done, all
<1>9. /\ DOMAIN b = 1..m /\ b = [i \in 1..m |-> b[i]]
      /\ \A i \in 1..m :
           /\ b[i].id = IF "id" \in t.cols THEN t.rows[done[kept[i]]].id ELSE done[kept[i]] - 1
           /\ b[i].duration = duration(kept[i])
           /\ b[i].at = IF "submit" \in t.cols THEN Fill(t, t.rows[done[kept[i]]], "submit", 0)
                        ELSE i - 1
  <2> HIDE DEF b, duration
  <2> QED
    BY <1>7, <1>8
<1>10. ASSUME NEW i \in 1..m PROVE IsJob("helios", b[i])
  <2> DEFINE r == t.rows[done[kept[i]]]
  <2>1. /\ r.duration \in Int /\ r.start \in Int /\ r.end \in Int /\ r.submit \in Nat \cup {NaN}
    BY <1>1, <1>4, <1>7 DEF Clock, NaN
  <2> HIDE DEF r
  <2>2. duration(kept[i]) \in Int
    <3>1. kept[i] \in Int
      BY <1>7
    <3>2. Draw(kept[i]) \in Int
      BY <3>1, DrawIs
    <3>3. HeliosDuration(t, r, kept[i]) \in Int
      BY <2>1, <3>2 DEF HeliosDuration, NaN
    <3> QED
      BY <3>3 DEF r
  <2>3. b[i].at \in Nat
    <3>1. "submit" \in t.cols => Fill(t, r, "submit", 0) \in Nat
      BY <2>1 DEF Fill
    <3> QED
      BY <1>9, <3>1 DEF r
  <2>4. b[i].duration \in Int
    BY <1>9, <2>2
  <2> HIDE DEF b
  <2> QED
    BY <2>3, <2>4, JobIs DEF Loaders
<1>11. ASSUME NEW i \in 1..m, NEW j \in 1..m, b[i].id = b[j].id PROVE i = j
  <2> HIDE DEF b
  <2>1. done[kept[i]] \in 1..n /\ done[kept[j]] \in 1..n
    BY <1>4, <1>7
  <2>2. done[kept[i]] = done[kept[j]]
    <3>1. CASE "id" \in t.cols
      BY <1>1, <1>9, <1>11, <2>1, <3>1
    <3>2. CASE "id" \notin t.cols
      <4>1. done[kept[i]] - 1 = done[kept[j]] - 1
        BY <1>9, <1>11, <3>2
      <4> QED
        BY <2>1, <4>1
    <3> QED
      BY <3>1, <3>2
  <2> QED
    BY <1>4, <1>7, <2>2
<1> HIDE DEF b
<1>12. TrueRows("helios", b)
  BY <1>6, <1>9, <1>10, <1>11 DEF TrueRows
<1> QED
  BY <1>12 DEF b

-----------------------------------------------------------------------------
(* Pairs of a function and a minute *)

\* Division by the number of functions tells the pairs apart.
LEMMA PairIs ==
    ASSUME NEW f \in Nat \ {0}, NEW a \in Nat
    PROVE  /\ a \div f \in Nat /\ a % f \in 0..(f - 1)
           /\ a = f * (a \div f) + (a % f)
OBVIOUS

LEMMA PairIsUnique ==
    ASSUME NEW f \in Nat \ {0}, NEW q \in Nat, NEW r \in 0..(f - 1),
           NEW s \in Nat, NEW u \in 0..(f - 1)
    PROVE  /\ f * q + r <= f * s + u => q <= s
           /\ f * q + r = f * s + u => q = s /\ r = u
<1>1. f * q \in Int /\ f * s \in Int
  OBVIOUS
<1>2. ASSUME q > s PROVE f * q >= f * s + f
  <2>1. PICK d \in Nat : q = (s + 1) + d
    <3>1. q - (s + 1) \in Nat /\ q = (s + 1) + (q - (s + 1))
      BY <1>2
    <3> QED
      BY <3>1
  <2>2. f * q = (f * s + f) + f * d
    BY <2>1
  <2>3. f * d >= 0 /\ f * d \in Int
    BY <2>1
  <2> QED
    BY <1>1, <2>2, <2>3
<1>3. ASSUME s > q PROVE f * s >= f * q + f
  <2>1. PICK d \in Nat : s = (q + 1) + d
    <3>1. s - (q + 1) \in Nat /\ s = (q + 1) + (s - (q + 1))
      BY <1>3
    <3> QED
      BY <3>1
  <2>2. f * s = (f * q + f) + f * d
    BY <2>1
  <2>3. f * d >= 0 /\ f * d \in Int
    BY <2>1
  <2> QED
    BY <1>1, <2>2, <2>3
<1>4. f * q + r <= f * s + u => q <= s
  BY <1>1, <1>2
<1>5. f * q + r = f * s + u => q = s
  BY <1>1, <1>2, <1>3
<1> QED
  BY <1>1, <1>4, <1>5

\* The k-th pair is of a function and a minute that there are; every function
\* has its place in every minute.
LEMMA PairOf ==
    ASSUME NEW f \in Nat, NEW m \in Nat, NEW k \in 1..(f * m)
    PROVE  /\ f # 0 /\ 1 + ((k - 1) % f) \in 1..f /\ 1 + ((k - 1) \div f) \in 1..m
           /\ k = 1 + (f * ((k - 1) \div f) + ((k - 1) % f))
<1>1. f # 0
  BY SMT
<1>2. k - 1 \in Nat
  OBVIOUS
<1> DEFINE q == (k - 1) \div f
           r == (k - 1) % f
<1>3. q \in Nat /\ r \in 0..(f - 1) /\ k - 1 = f * q + r
  BY <1>1, <1>2, PairIs
<1> HIDE DEF q, r
<1>4. q < m
  <2>1. m \in Nat /\ f * m \in Int /\ f * q \in Int
    BY <1>3
  <2>2. ASSUME m <= q PROVE FALSE
    <3>1. f * m + 0 <= f * q + r
      <4>1. PICK d \in Nat : q = m + d
        <5>1. q - m \in Nat /\ q = m + (q - m)
          BY <1>3, <2>2
        <5> QED
          BY <5>1
      <4>2. f * q = f * m + f * d
        BY <4>1
      <4>3. f * d >= 0 /\ f * d \in Int
        BY <4>1
      <4> QED
        BY <1>3, <2>1, <4>2, <4>3
    <3> QED
      BY <1>3, <2>1, <3>1
  <2> QED
    BY <1>3, <2>2
<1>5. k = 1 + (f * q + r)
  <2>1. f * q \in Int
    BY <1>3
  <2> QED
    BY <1>3, <2>1
<1> QED
  BY <1>1, <1>3, <1>4, <1>5 DEF q, r

LEMMA PlaceOfPair ==
    ASSUME NEW f \in Nat, NEW m \in Nat, NEW x \in 1..f, NEW y \in 1..m
    PROVE  LET k == 1 + (f * (y - 1) + (x - 1))
           IN  k \in 1..(f * m) /\ 1 + ((k - 1) % f) = x /\ 1 + ((k - 1) \div f) = y
<1> DEFINE a == f * (y - 1) + (x - 1)
<1>1. f \in Nat \ {0} /\ y - 1 \in Nat /\ x - 1 \in 0..(f - 1)
  OBVIOUS
<1>2. f * (y - 1) \in Nat
  BY <1>1
<1>3. a \in Nat
  BY <1>1, <1>2
<1>4. a < f * m
  <2>1. PICK d \in Nat : m = y + d
    <3>1. m - y \in Nat /\ m = y + (m - y)
      OBVIOUS
    <3> QED
      BY <3>1
  <2>2. f * m = (f * (y - 1) + f) + f * d
    BY <2>1
  <2>3. f * d >= 0 /\ f * d \in Int
    BY <2>1
  <2> QED
    BY <1>1, <1>2, <2>2, <2>3
<1>5. a = f * (a \div f) + (a % f) /\ a \div f \in Nat /\ a % f \in 0..(f - 1)
  <2> HIDE DEF a
  <2> QED
    BY <1>1, <1>3, PairIs
<1>6. a \div f = y - 1 /\ a % f = x - 1
  <2> DEFINE q == a \div f
             r == a % f
  <2>1. f * q + r = f * (y - 1) + (x - 1) /\ q \in Nat /\ r \in 0..(f - 1)
    BY <1>5
  <2> HIDE DEF q, r, a
  <2>2. q = y - 1 /\ r = x - 1
    BY <1>1, <2>1, PairIsUnique
  <2> QED
    BY <2>2 DEF q, r
<1> HIDE DEF a
<1>7. 1 + a \in 1..(f * m) /\ (1 + a) - 1 = a
  <2>1. f * m \in Int
    OBVIOUS
  <2> QED
    BY <1>3, <1>4, <2>1
<1> QED
  BY <1>6, <1>7 DEF a

-----------------------------------------------------------------------------
(* Azure *)

\* What the functions that count are: as many as there are, each once, with a
\* number of calls for every minute.
AzureAreFunctions(f, c, m) ==
    /\ DOMAIN f = 1..c /\ Len(f) = c
    /\ \A k \in 1..c : f[k].median \in Int /\ f[k].calls \in [1..m -> Nat]
    /\ \A k, l \in 1..c : f[k].id = f[l].id => k = l

LEMMA AzureFunctionsAre ==
    ASSUME NEW functions, NEW m \in Nat, IsTable(functions), UniqueIds(functions),
           \A i \in DOMAIN functions :
              /\ functions[i].median \in Int /\ functions[i].calls \in [1..m -> Nat]
    PROVE  \E c \in Nat : AzureAreFunctions(AzureFunctions(functions), c, m)
<1> DEFINE T == {i \in DOMAIN functions :
                   LET f == functions[i]
                   IN  /\ \E y \in DOMAIN f.calls : f.calls[y] > 0
                       /\ f.average # NaN
                       /\ f.average > 0 /\ f.average <= MaxDuration}
           c == Cardinality(T)
           f == AzureFunctions(functions)
<1>1. PICK n \in Nat : DOMAIN functions = 1..n
  BY TableIs
<1>2. f = Kept(functions, T)
  BY DEF AzureFunctions
<1>3. T \in SUBSET (1..n)
  BY <1>1
<1> HIDE DEF T, f
<1>4. PICK p : Follows(f, functions, p, T)
  BY <1>1, <1>2, <1>3, KeptIs
<1>5. c \in Nat
  BY <1>3, SubsetOfTable
<1>6. /\ DOMAIN f = 1..c /\ f = [k \in 1..c |-> f[k]]
      /\ \A k \in 1..c : p[k] \in 1..n /\ f[k] = functions[p[k]]
      /\ \A k, l \in 1..c : p[k] = p[l] => k = l
  BY <1>3, <1>4 DEF Follows, Places
<1> HIDE DEF c
<1>7. Len(f) = c
  <2> DEFINE V == {f[k] : k \in 1..c}
  <2>1. f \in [1..c -> V]
    BY <1>6
  <2> HIDE DEF V
  <2> QED
    BY <1>5, <2>1, Indexed
<1>8. \A k \in 1..c : f[k].median \in Int /\ f[k].calls \in [1..m -> Nat]
  BY <1>1, <1>6
<1>9. ASSUME NEW k \in 1..c, NEW l \in 1..c, f[k].id = f[l].id PROVE k = l
  <2>1. functions[p[k]].id = functions[p[l]].id /\ p[k] \in 1..n /\ p[l] \in 1..n
    BY <1>6, <1>9
  <2>2. p[k] = p[l]
    BY <1>1, <2>1 DEF UniqueIds, IsInjective
  <2> QED
    BY <1>6, <2>2
<1> QED
  BY <1>5, <1>6, <1>7, <1>8, <1>9 DEF AzureAreFunctions, f

LEMMA AzureSizesAre ==
    ASSUME NEW f, NEW c \in Nat, NEW m \in Nat, AzureAreFunctions(f, c, m)
    PROVE  /\ c * m \in Nat /\ AzureSizes(f, m) \in [1..(c * m) -> Nat]
           /\ \A k \in 1..(c * m) :
                LET x == 1 + ((k - 1) % c)
                    y == 1 + ((k - 1) \div c)
                IN  /\ x \in 1..c /\ y \in 1..m /\ AzureSizes(f, m)[k] = f[x].calls[y]
                    /\ AzureFunction(f, k) = f[x] /\ AzureMinute(f, k) = y
<1> DEFINE n == c * m
           s == AzureSizes(f, m)
<1>1. n \in Nat
  OBVIOUS
<1> DEFINE x(k) == 1 + ((k - 1) % c)
           y(k) == 1 + ((k - 1) \div c)
<1>2. ASSUME NEW k \in 1..n
      PROVE  /\ x(k) \in 1..c /\ y(k) \in 1..m /\ f[x(k)].calls[y(k)] \in Nat
             /\ AzureFunction(f, k) = f[x(k)] /\ AzureMinute(f, k) = y(k)
  <2>1. x(k) \in 1..c /\ y(k) \in 1..m
    BY PairOf
  <2>2. AzureFunction(f, k) = f[x(k)] /\ AzureMinute(f, k) = y(k)
    BY DEF AzureFunction, AzureMinute, AzureAreFunctions
  <2> HIDE DEF x, y
  <2>3. f[x(k)].calls[y(k)] \in Nat
    BY <2>1 DEF AzureAreFunctions
  <2> QED
    BY <2>1, <2>2, <2>3
<1>3. s = [k \in 1..n |-> AzureFunction(f, k).calls[AzureMinute(f, k)]]
  BY DEF AzureSizes, AzureAreFunctions
<1> HIDE DEF s, n, x, y
<1>4. s \in [1..n -> Nat] /\ \A k \in 1..n : s[k] = f[x(k)].calls[y(k)]
  <2>1. \A k \in 1..n : /\ AzureFunction(f, k).calls[AzureMinute(f, k)] \in Nat
                        /\ AzureFunction(f, k).calls[AzureMinute(f, k)] = f[x(k)].calls[y(k)]
    BY <1>2
  <2> QED
    BY <1>3, <2>1
<1> QED
  BY <1>1, <1>2, <1>4 DEF s, n, x, y

\* The expansion ends with a pair that it takes whole, the last one or one that
\* makes enough.
LEMMA AzureTotalIs ==
    ASSUME NEW n \in Nat, NEW s \in [1..n -> Nat]
    PROVE  /\ AzureTotal(s) \in Nat
           /\ \E k \in 0..n : /\ AzureTotal(s) = UpTo(s)[k]
                              /\ k = n \/ AzureTotal(s) >= CacheRows
           /\ AzureTotal(s) <= UpTo(s)[n]
<1> DEFINE u == UpTo(s)
           T == {u[n]} \cup {u[k] : k \in {k \in DOMAIN u : u[k] >= CacheRows}}
<1>1. u \in [0..n -> Nat] /\ Len(s) = n
  BY UpToIs
<1>2. AzureTotal(s) = Min(T)
  BY <1>1 DEF AzureTotal
<1> HIDE DEF u
<1>3. n \in 0..n
  OBVIOUS
<1>4. T \in SUBSET Nat /\ u[n] \in T /\ T # {}
  BY <1>1, <1>3
<1>5. \A x \in T : \E k \in 0..n : x = u[k] /\ (k = n \/ x >= CacheRows)
  BY <1>1, <1>3
<1> HIDE DEF T
<1>6. Min(T) \in T /\ \A y \in T : Min(T) <= y
  BY <1>4, MinIs
<1> QED
  BY <1>2, <1>4, <1>5, <1>6 DEF u

\* The rows before they are sorted: the tasks of the pairs 1..d, whose sizes are
\* s, each in its place; the pair k is of a function x and a minute y.
AzureLaidOut(f, c, m, s, n, rows) ==
    /\ n \in Nat /\ rows = [j \in 1..n |-> rows[j]]
    /\ s \in [1..(c * m) -> Nat]
    /\ \E k \in 0..(c * m) : n = UpTo(s)[k] /\ (k = c * m \/ n >= CacheRows)
    /\ \A k \in 1..(c * m) :
         LET x == 1 + ((k - 1) % c)
             y == 1 + ((k - 1) \div c)
         IN  /\ x \in 1..c /\ y \in 1..m /\ s[k] = f[x].calls[y]
             /\ AzureFunction(f, k) = f[x] /\ AzureMinute(f, k) = y
    /\ \A j \in 1..n :
         LET k == GroupOf(s, j)
             i == PlaceOf(s, j)
         IN  /\ k \in 1..(c * m) /\ i \in 1..s[k] /\ Within(s, k, j)
             /\ j = UpTo(s)[k - 1] + i
             /\ rows[j] = AzureTask(AzureFunction(f, k), AzureMinute(f, k), i, j)

LEMMA AzureRowsAre ==
    ASSUME NEW f, NEW c \in Nat, NEW m \in Nat, AzureAreFunctions(f, c, m)
    PROVE  AzureLaidOut(f, c, m, AzureSizes(f, m), AzureTotal(AzureSizes(f, m)),
                        AzureSynthesise(f, m))
<1> DEFINE d == c * m
           s == AzureSizes(f, m)
           n == AzureTotal(s)
           rows == AzureSynthesise(f, m)
<1>1. /\ d \in Nat /\ s \in [1..d -> Nat]
      /\ \A k \in 1..d :
           LET x == 1 + ((k - 1) % c)
               y == 1 + ((k - 1) \div c)
           IN  /\ x \in 1..c /\ y \in 1..m /\ s[k] = f[x].calls[y]
               /\ AzureFunction(f, k) = f[x] /\ AzureMinute(f, k) = y
  BY AzureSizesAre
<1> HIDE DEF s
<1>2. rows = [j \in 1..n |-> AzureTask(AzureFunction(f, GroupOf(s, j)), AzureMinute(f, GroupOf(s, j)),
                                       PlaceOf(s, j), j)]
  BY DEF AzureSynthesise, s
<1> HIDE DEF d
<1>3. /\ n \in Nat /\ n <= UpTo(s)[d]
      /\ \E k \in 0..d : n = UpTo(s)[k] /\ (k = d \/ n >= CacheRows)
  BY <1>1, AzureTotalIs
<1>4. UpTo(s)[d] \in Nat
  <2>1. d \in 0..d
    BY <1>1
  <2> QED
    BY <1>1, <2>1, UpToIs
<1> HIDE DEF n, rows
<1>5. \A j \in 1..n :
         /\ GroupOf(s, j) \in 1..d /\ PlaceOf(s, j) \in 1..s[GroupOf(s, j)]
         /\ Within(s, GroupOf(s, j), j)
         /\ j = UpTo(s)[GroupOf(s, j) - 1] + PlaceOf(s, j)
  <2>1. \A j \in 1..n : j \in 1..UpTo(s)[d]
    BY <1>3, <1>4
  <2> QED
    BY <1>1, <2>1, GroupIs
<1>6. /\ rows = [j \in 1..n |-> rows[j]]
      /\ \A j \in 1..n :
           rows[j] = AzureTask(AzureFunction(f, GroupOf(s, j)), AzureMinute(f, GroupOf(s, j)),
                               PlaceOf(s, j), j)
  BY <1>2
<1>7. AzureLaidOut(f, c, m, s, n, rows)
  BY <1>1, <1>3, <1>5, <1>6 DEF AzureLaidOut, d
<1> QED
  BY <1>7 DEF s, n, rows

LEMMA AzureTaskIs ==
    ASSUME NEW f, f.median \in Int, NEW m \in Nat \ {0}, NEW i, NEW j \in Nat
    PROVE  /\ IsJob("azure", AzureTask(f, m, i, j))
           /\ AzureTask(f, m, i, j).at \in Nat
           /\ AzureTask(f, m, i, j).id = <<f.id, m, i - 1>>
<1> DEFINE x == AtLeast(1, f.median + Draw(j) - 3)
           T == {x, MaxDuration}
           a == AzureTask(f, m, i, j)
<1>1. Draw(j) \in Nat
  BY DrawIs
<1>2. x \in Nat
  <2>1. f.median + Draw(j) - 3 \in Int
    BY <1>1
  <2> HIDE DEF x
  <2>2. x \in Int /\ x >= 1
    BY <2>1, AtLeastIs DEF x
  <2> QED
    BY <2>2
<1>3. Min(T) \in Nat
  <2>1. T \in SUBSET Nat /\ T # {}
    BY <1>2, TraceRowsAssumption
  <2> HIDE DEF T
  <2> QED
    BY <2>1, MinIs
<1> HIDE DEF x
<1>4. a.duration = Min(T) /\ a.at = 60000 * (m - 1) + Draw(j) /\ a.id = <<f.id, m, i - 1>>
  BY DEF AzureTask, x
<1> HIDE DEF a, T
<1>5. a.duration \in Int /\ a.at \in Nat
  BY <1>1, <1>3, <1>4
<1>6. IsJob("azure", a)
  BY <1>5, JobIs DEF Loaders
<1> QED
  BY <1>4, <1>5, <1>6 DEF a

\* Every row is a task of its own.
LEMMA AzureRowsAreTrue ==
    ASSUME NEW f, NEW c \in Nat, NEW m \in Nat, NEW s, NEW n, NEW rows,
           AzureAreFunctions(f, c, m), AzureLaidOut(f, c, m, s, n, rows)
    PROVE  /\ \A j \in 1..n : IsJob("azure", rows[j]) /\ rows[j].at \in Nat
           /\ \A j, k \in 1..n : rows[j].id = rows[k].id => j = k
<1> DEFINE d == c * m
           g(j) == GroupOf(s, j)
           i(j) == PlaceOf(s, j)
           x(k) == 1 + ((k - 1) % c)
           y(k) == 1 + ((k - 1) \div c)
<1>1. /\ n \in Nat
      /\ \A j \in 1..n : /\ g(j) \in 1..d /\ i(j) \in 1..s[g(j)]
                         /\ j = UpTo(s)[g(j) - 1] + i(j)
                         /\ rows[j] = AzureTask(AzureFunction(f, g(j)), AzureMinute(f, g(j)), i(j), j)
  BY DEF AzureLaidOut
<1>2. /\ d \in Nat /\ s \in [1..d -> Nat]
      /\ \A k \in 1..d : /\ x(k) \in 1..c /\ y(k) \in 1..m
                         /\ AzureFunction(f, k) = f[x(k)] /\ AzureMinute(f, k) = y(k)
                         /\ k = 1 + (c * ((k - 1) \div c) + ((k - 1) % c))
  <2>1. \A k \in 1..(c * m) : k = 1 + (c * ((k - 1) \div c) + ((k - 1) % c))
    BY PairOf
  <2>2. c * m \in Nat
    OBVIOUS
  <2> QED
    BY <2>1, <2>2 DEF AzureLaidOut
<1>3. ASSUME NEW k \in 1..d, NEW l \in 1..d, x(k) = x(l), y(k) = y(l) PROVE k = l
  <2>1. (k - 1) % c = (l - 1) % c /\ (k - 1) \div c = (l - 1) \div c
    <3>1. /\ (k - 1) % c \in Int /\ (l - 1) % c \in Int
          /\ (k - 1) \div c \in Int /\ (l - 1) \div c \in Int
      <4>1. c # 0 /\ k - 1 \in Nat /\ l - 1 \in Nat
        BY PairOf
      <4> QED
        BY <4>1, PairIs
    <3> QED
      BY <1>3, <3>1
  <2> QED
    BY <1>2, <2>1
<1> HIDE DEF d, g, i, x, y
<1>4. ASSUME NEW j \in 1..n
      PROVE  /\ x(g(j)) \in 1..c /\ y(g(j)) \in 1..m /\ i(j) \in Nat
             /\ rows[j].id = <<f[x(g(j))].id, y(g(j)), i(j) - 1>>
             /\ IsJob("azure", rows[j]) /\ rows[j].at \in Nat
  <2>1. /\ g(j) \in 1..d /\ x(g(j)) \in 1..c /\ y(g(j)) \in 1..m
        /\ rows[j] = AzureTask(f[x(g(j))], y(g(j)), i(j), j)
    BY <1>1, <1>2
  <2>2. f[x(g(j))].median \in Int /\ y(g(j)) \in Nat \ {0} /\ j \in Nat
    BY <2>1 DEF AzureAreFunctions
  <2>3. i(j) \in Nat
    <3>1. s[g(j)] \in Nat
      BY <1>2, <2>1
    <3> QED
      BY <1>1, <3>1
  <2> QED
    BY <2>1, <2>2, <2>3, AzureTaskIs
<1>5. ASSUME NEW j \in 1..n, NEW k \in 1..n, rows[j].id = rows[k].id PROVE j = k
  <2>1. f[x(g(j))].id = f[x(g(k))].id /\ y(g(j)) = y(g(k)) /\ i(j) - 1 = i(k) - 1
    <3>1. <<f[x(g(j))].id, y(g(j)), i(j) - 1>> = <<f[x(g(k))].id, y(g(k)), i(k) - 1>>
      BY <1>4, <1>5
    <3> QED
      BY <3>1
  <2>2. x(g(j)) = x(g(k))
    <3>1. x(g(j)) \in 1..c /\ x(g(k)) \in 1..c
      BY <1>4
    <3> QED
      BY <2>1, <3>1 DEF AzureAreFunctions
  <2>3. i(j) = i(k)
    <3>1. i(j) \in Nat /\ i(k) \in Nat
      BY <1>4
    <3> QED
      BY <2>1, <3>1
  <2>4. g(j) = g(k)
    <3>1. g(j) \in 1..d /\ g(k) \in 1..d
      BY <1>1
    <3> QED
      BY <1>3, <2>1, <2>2, <3>1
  <2>5. j = UpTo(s)[g(j) - 1] + i(j) /\ k = UpTo(s)[g(k) - 1] + i(k)
    BY <1>1
  <2> QED
    BY <2>3, <2>4, <2>5
<1> QED
  BY <1>4, <1>5

Lacks(n, rows, f, x, y, i) == \A j \in 1..n : rows[j].id # <<f[x].id, y, i - 1>>

\* If a task of a minute is missing there are enough, and none of a later minute.
LEMMA AzureMinutes ==
    ASSUME NEW f, NEW c \in Nat, NEW m \in Nat, NEW s, NEW n, NEW rows,
           AzureAreFunctions(f, c, m), AzureLaidOut(f, c, m, s, n, rows),
           NEW x \in 1..c, NEW y \in 1..m, NEW i \in 1..f[x].calls[y],
           Lacks(n, rows, f, x, y, i)
    PROVE  /\ n >= CacheRows
           /\ \A j \in 1..n : rows[j].id[2] <= y
<1> DEFINE d == c * m
           u == UpTo(s)
           k == 1 + (c * (y - 1) + (x - 1))
           j0 == u[k - 1] + i
           X(l) == 1 + ((l - 1) % c)
           Y(l) == 1 + ((l - 1) \div c)
<1>1. /\ n \in Nat /\ s \in [1..d -> Nat]
      /\ \A l \in 1..d : /\ X(l) \in 1..c /\ Y(l) \in 1..m /\ s[l] = f[X(l)].calls[Y(l)]
                         /\ AzureFunction(f, l) = f[X(l)] /\ AzureMinute(f, l) = Y(l)
  BY DEF AzureLaidOut
<1>2. /\ \E l \in 0..d : n = u[l] /\ (l = d \/ n >= CacheRows)
      /\ \A j \in 1..n :
           /\ GroupOf(s, j) \in 1..d /\ Within(s, GroupOf(s, j), j)
           /\ rows[j] = AzureTask(AzureFunction(f, GroupOf(s, j)), AzureMinute(f, GroupOf(s, j)),
                                  PlaceOf(s, j), j)
  BY DEF AzureLaidOut
<1>3. k \in 1..d /\ X(k) = x /\ Y(k) = y
  BY PlaceOfPair
<1>4. d \in Nat
  OBVIOUS
<1>5. \A j \in 1..n : /\ rows[j].id = <<f[X(GroupOf(s, j))].id, Y(GroupOf(s, j)), PlaceOf(s, j) - 1>>
  <2> SUFFICES ASSUME NEW j \in 1..n
               PROVE  rows[j].id = <<f[X(GroupOf(s, j))].id, Y(GroupOf(s, j)), PlaceOf(s, j) - 1>>
    OBVIOUS
  <2> HIDE DEF X, Y, d
  <2> DEFINE g == GroupOf(s, j)
  <2>1. g \in 1..d /\ rows[j] = AzureTask(f[X(g)], Y(g), PlaceOf(s, j), j)
    BY <1>1, <1>2
  <2>2. X(g) \in 1..c /\ Y(g) \in Nat \ {0} /\ j \in Nat
    BY <1>1, <2>1
  <2> HIDE DEF g
  <2>3. f[X(g)].median \in Int
    BY <2>2 DEF AzureAreFunctions
  <2> QED
    BY <2>1, <2>2, <2>3, AzureTaskIs DEF g
<1> PICK k0 \in 0..d : n = u[k0] /\ (k0 = d \/ n >= CacheRows)
  BY <1>2
<1> HIDE DEF d, k, X, Y
<1>6. k > k0
  <2> SUFFICES ASSUME k <= k0 PROVE FALSE
    BY <1>3, <1>4
  <2>1. i \in 1..s[k] /\ k \in 1..d /\ s \in [1..d -> Nat]
    BY <1>1, <1>3
  <2>2. j0 \in 1..u[d] /\ j0 <= u[k] /\ GroupOf(s, j0) = k /\ PlaceOf(s, j0) = i
    BY <1>4, <2>1, PlaceIsTaken, SMTT(30)
  <2>3. u[k] <= u[k0] /\ k \in 0..d
    <3>1. k \in 0..d /\ k <= k0
      BY <1>4, <2>1
    <3> QED
      BY <1>4, <2>1, <3>1, UpToGrows
  <2>4. u[k] \in Nat /\ u[k0] \in Nat
    BY <1>1, <1>4, <2>3, UpToIs
  <2> HIDE DEF j0, u
  <2>5. j0 \in 1..n
    BY <1>1, <2>2, <2>3, <2>4
  <2>6. rows[j0].id = <<f[x].id, y, i - 1>>
    BY <1>3, <1>5, <2>2, <2>5
  <2> QED
    BY <2>5, <2>6 DEF Lacks
<1>7. n >= CacheRows
  BY <1>3, <1>4, <1>6
<1>8. ASSUME NEW j \in 1..n PROVE rows[j].id[2] <= y
  <2> DEFINE g == GroupOf(s, j)
  <2>1. g \in 1..d /\ u[g - 1] < j
    BY <1>2 DEF Within
  <2> HIDE DEF g
  <2>2. u[g - 1] \in Nat /\ g - 1 \in 0..d
    <3>1. g - 1 \in 0..d
      BY <1>4, <2>1
    <3> QED
      BY <1>1, <1>4, <3>1, UpToIs
  <2>3. g <= k0
    <3>1. ASSUME k0 <= g - 1 PROVE FALSE
      <4>1. u[k0] <= u[g - 1]
        BY <1>1, <1>4, <2>2, <3>1, UpToGrows
      <4> HIDE DEF u
      <4> QED
        BY <1>1, <2>1, <2>2, <4>1
    <3> QED
      BY <1>4, <2>1, <3>1
  <2>4. g < k
    BY <1>3, <1>4, <1>6, <2>1, <2>3
  <2>5. Y(g) <= y
    <3> DEFINE q == (g - 1) \div c
               r == (g - 1) % c
               z == c * (y - 1)
    <3>1. c \in Nat \ {0} /\ g - 1 \in Nat /\ y - 1 \in Nat /\ x - 1 \in 0..(c - 1)
      BY <1>4, <2>1
    <3>2. q \in Nat /\ r \in 0..(c - 1) /\ g - 1 = c * q + r
      BY <3>1, PairIs
    <3>3. z \in Int /\ k = 1 + (z + (x - 1))
      BY DEF k
    <3> HIDE DEF q, r, z
    <3>4. c * q + r <= z + (x - 1)
      BY <1>3, <1>4, <2>1, <2>4, <3>1, <3>2, <3>3
    <3>5. c * q + r <= c * (y - 1) + (x - 1)
      BY <3>4 DEF z
    <3>6. q <= y - 1
      BY <3>1, <3>2, <3>5, PairIsUnique
    <3>7. 1 + q <= y
      BY <3>1, <3>2, <3>6
    <3> QED
      BY <3>7 DEF Y, q
  <2>6. rows[j].id[2] = Y(g)
    BY <1>5 DEF g
  <2> QED
    BY <2>5, <2>6
<1> QED
  BY <1>7, <1>8

LEMMA AzureRows ==
    ASSUME NEW raw, AzureIsCredible(raw)
    PROVE  LET out == AzureProcess(raw)
               f == AzureFunctions(raw.functions)
           IN  /\ TrueRows("azure", out)
               /\ \A y \in 1..raw.minutes : \A x \in DOMAIN f : \A i \in 1..f[x].calls[y] :
                     (\A a \in DOMAIN out : out[a].id # <<f[x].id, y, i - 1>>) =>
                        /\ Len(out) >= CacheRows
                        /\ \A a \in DOMAIN out : out[a].id[2] <= y
<1> DEFINE out == AzureProcess(raw)
           fs == AzureFunctions(raw.functions)
           minutes == raw.minutes
           sizes == AzureSizes(fs, minutes)
           total == AzureTotal(sizes)
           all == AzureSynthesise(fs, minutes)
           T == DOMAIN all
           key == [j \in DOMAIN all |-> all[j].at]
<1>1. minutes \in Nat
  BY DEF AzureIsCredible
<1>2. PICK c \in Nat : AzureAreFunctions(fs, c, minutes)
  BY <1>1, AzureFunctionsAre DEF AzureIsCredible
<1>3. out = Arranged(all, T, key)
  BY DEF AzureProcess
<1> HIDE DEF fs, minutes, out, all
<1>4. AzureLaidOut(fs, c, minutes, sizes, total, all)
  BY <1>1, <1>2, AzureRowsAre DEF all
<1> HIDE DEF sizes, total
<1>5. /\ c \in Nat /\ AzureAreFunctions(fs, c, minutes) /\ minutes \in Nat
      /\ AzureLaidOut(fs, c, minutes, sizes, total, all)
  BY <1>1, <1>2, <1>4
<1>6. total \in Nat /\ T = 1..total /\ DOMAIN all = 1..total
  <2>1. total \in Nat /\ all = [j \in 1..total |-> all[j]]
    BY <1>4 DEF AzureLaidOut
  <2> QED
    BY <2>1
<1>7. /\ \A j \in 1..total : IsJob("azure", all[j]) /\ all[j].at \in Nat
      /\ \A j, k \in 1..total : all[j].id = all[k].id => j = k
  BY <1>5, AzureRowsAreTrue
<1>8. \A j \in T : key[j] \in Int
  BY <1>6, <1>7
<1>9. T \in SUBSET (1..total)
  BY <1>6
<1> HIDE DEF key, T
<1>10. PICK p : Follows(out, all, p, T)
  BY <1>3, <1>6, <1>8, <1>9, ArrangedIs
<1>11. Cardinality(T) = total
  <2>1. 1 \in Int /\ total \in Int /\ (1 > total => total = 0) /\ (1 <= total => (total - 1) + 1 = total)
    BY <1>6
  <2> QED
    BY <1>6, <2>1, FS_Interval
<1>12. /\ DOMAIN out = 1..total /\ out = [k \in 1..total |-> out[k]]
       /\ \A k \in 1..total : p[k] \in 1..total /\ out[k] = all[p[k]]
       /\ \A j \in 1..total : \E k \in 1..total : p[k] = j
  BY <1>6, <1>10, <1>11 DEF Follows, Places
<1>13. Len(out) = total
  <2> DEFINE V == {out[k] : k \in 1..total}
  <2>1. out \in [1..total -> V]
    BY <1>12
  <2> HIDE DEF V
  <2> QED
    BY <1>6, <2>1, Indexed
<1>14. TrueRows("azure", out)
  BY <1>6, <1>7, <1>9, <1>10, FollowsTrue
<1>15. ASSUME NEW y \in 1..minutes, NEW x \in DOMAIN fs, NEW i \in 1..fs[x].calls[y],
              \A a \in DOMAIN out : out[a].id # <<fs[x].id, y, i - 1>>
       PROVE  Len(out) >= CacheRows /\ \A a \in DOMAIN out : out[a].id[2] <= y
  <2>1. x \in 1..c /\ y \in 1..minutes /\ i \in 1..fs[x].calls[y]
    BY <1>2 DEF AzureAreFunctions
  <2>2. Lacks(total, all, fs, x, y, i)
    BY <1>12, <1>15 DEF Lacks
  <2>3. total >= CacheRows /\ \A j \in 1..total : all[j].id[2] <= y
    BY <1>5, <2>1, <2>2, AzureMinutes
  <2> QED
    BY <1>12, <1>13, <2>3
<1> QED
  BY <1>14, <1>15 DEF out, fs, minutes

-----------------------------------------------------------------------------
(* Borg *)

\* Rows that are others, fewer or in another order.
PickedFrom(out, rows) == \A i \in DOMAIN out : \E j \in DOMAIN rows : out[i] = rows[j]

LEMMA FirstPicks == ASSUME NEW rows, NEW m \in Nat PROVE PickedFrom(First(rows, m), rows)
BY DEF First, PickedFrom

LEMMA ShuffledPicks ==
    ASSUME NEW l, NEW rows, TrueRows(l, rows)
    PROVE  PickedFrom(ShuffledAs(l, rows), rows) /\ DOMAIN ShuffledAs(l, rows) = DOMAIN rows
<1>1. PICK n \in Nat : rows = [i \in 1..n |-> rows[i]]
  BY DEF TrueRows
<1>2. Len(rows) = n
  <2> DEFINE V == {rows[i] : i \in 1..n}
  <2>1. rows \in [1..n -> V]
    BY <1>1
  <2> HIDE DEF V
  <2> QED
    BY <2>1, Indexed
<1>3. DOMAIN rows = 1..n
  BY <1>1
<1> DEFINE b == [i \in 1..n |-> rows[(n - i) + 1]]
<1>4. Reverse(rows) = b
  BY <1>2 DEF Reverse
<1>5. DOMAIN b = 1..n /\ \A i \in 1..n : b[i] = rows[(n - i) + 1] /\ (n - i) + 1 \in 1..n
  OBVIOUS
<1> HIDE DEF b
<1>6. PickedFrom(b, rows)
  BY <1>3, <1>5 DEF PickedFrom
<1>7. PickedFrom(rows, rows)
  BY DEF PickedFrom
<1> QED
  BY <1>3, <1>4, <1>5, <1>6, <1>7 DEF ShuffledAs

\* The line that stays of a task and an event is the last one.
LEMMA BorgLastIs ==
    ASSUME NEW lines, NEW n \in Nat, DOMAIN lines = 1..n, NEW task, NEW event
    PROVE  LET k == BorgLast(lines, task, event)
           IN  /\ k \in 0..n
               /\ k > 0 => lines[k].task = task /\ lines[k].event = event
               /\ \A i \in 1..n : lines[i].task = task /\ lines[i].event = event => i <= k
<1> DEFINE T == {0} \cup {i \in DOMAIN lines : lines[i].task = task /\ lines[i].event = event}
           k == BorgLast(lines, task, event)
<1>1. T \in SUBSET (0..n) /\ T # {}
  OBVIOUS
<1>2. k = Max(T)
  BY DEF BorgLast
<1> HIDE DEF k
<1>3. k \in T /\ \A i \in T : i <= k
  <2>1. Max(T) \in T /\ \A i \in T : Max(T) >= i
    <3> HIDE DEF T
    <3> QED
      BY <1>1, MaxIs
  <2>2. T \subseteq Int
    OBVIOUS
  <2> HIDE DEF T
  <2> QED
    BY <1>2, <2>1, <2>2
<1>4. /\ k \in 0..n
      /\ k > 0 => lines[k].task = task /\ lines[k].event = event
      /\ \A i \in 1..n : lines[i].task = task /\ lines[i].event = event => i <= k
  BY <1>3
<1> QED
  BY <1>4 DEF k

\* A row is the last complete attempt of its task: its submit is line i, its
\* finish line j.
BorgAttempt(lines, row) ==
    \E i, j \in DOMAIN lines :
        /\ lines[i].event = "submit" /\ lines[j].event = "finish"
        /\ lines[i].task = row.id /\ lines[j].task = row.id
        /\ lines[j].time - lines[i].time = row.duration
        /\ \A k \in DOMAIN lines :
              lines[k].task = row.id /\ lines[k].event \in {"submit", "finish"} =>
                 k <= j /\ (k > i => lines[k].event = "finish")

LEMMA BorgParses ==
    ASSUME NEW lines, BorgIsCredible(lines)
    PROVE  LET rows == BorgParse(lines)
           IN  /\ TrueRows("borg", rows)
               /\ \A k \in DOMAIN rows : /\ BorgAttempt(lines, rows[k]) /\ rows[k].class \in Int
                                         /\ rows[k].duration \in Nat /\ rows[k].duration >= 1
<1> DEFINE submit(t) == BorgLast(lines, t, "submit")
           finish(t) == BorgLast(lines, t, "finish")
           counts(t) == /\ submit(t) > 0 /\ finish(t) > 0
                        /\ lines[finish(t)].time > lines[submit(t)].time
           T == {i \in DOMAIN lines : i = submit(lines[i].task) /\ counts(lines[i].task)}
           key == [i \in DOMAIN lines |-> lines[i].time]
           last == Arranged(lines, T, key)
           c == Cardinality(T)
           b == BorgParse(lines)
<1>1. PICK n \in Nat : DOMAIN lines = 1..n
  BY TableIs DEF BorgIsCredible
<1>2. \A i \in 1..n : lines[i].time \in Nat /\ lines[i].class \in Int
  BY <1>1 DEF BorgIsCredible
<1>3. b = [i \in DOMAIN last |->
             [id |-> last[i].task, duration |-> lines[finish(last[i].task)].time - last[i].time,
              class |-> last[i].class, size |-> last[i].cpu, at |-> last[i].time]]
  BY DEF BorgParse
<1>4. T \in SUBSET (1..n) /\ \A i \in T : key[i] \in Int
  BY <1>1, <1>2
<1>5. \A i \in T : i = submit(lines[i].task) /\ counts(lines[i].task)
  OBVIOUS
<1> HIDE DEF T, key
<1>6. PICK p : Follows(last, lines, p, T)
  BY <1>4, ArrangedIs
<1>7. c \in Nat
  BY <1>4, SubsetOfTable
<1>8. /\ DOMAIN last = 1..c
      /\ \A k \in 1..c : p[k] \in T /\ p[k] \in 1..n /\ last[k] = lines[p[k]]
      /\ \A k, m \in 1..c : p[k] = p[m] => k = m
  BY <1>4, <1>6 DEF Follows, Places
<1> HIDE DEF last, c, b
<1>9. /\ DOMAIN b = 1..c /\ b = [k \in 1..c |-> b[k]]
      /\ \A k \in 1..c : /\ b[k].id = last[k].task
                         /\ b[k].duration = lines[finish(last[k].task)].time - last[k].time
                         /\ b[k].class = last[k].class /\ b[k].at = last[k].time
  <2> HIDE DEF finish
  <2> QED
    BY <1>3, <1>8
<1>10. ASSUME NEW k \in 1..c
       PROVE  /\ BorgAttempt(lines, b[k]) /\ b[k].class \in Int /\ b[k].at \in Nat
              /\ b[k].duration \in Nat /\ b[k].duration >= 1
              /\ b[k].id = lines[p[k]].task /\ p[k] = submit(b[k].id)
  <2> DEFINE t == b[k].id
             i == submit(t)
             j == finish(t)
  <2>1. /\ t = lines[p[k]].task /\ p[k] = i /\ p[k] \in 1..n
        /\ b[k].at = lines[i].time /\ b[k].class = lines[i].class
        /\ b[k].duration = lines[j].time - lines[i].time
        /\ counts(t)
    <3> HIDE DEF submit, finish, counts
    <3> QED
      BY <1>5, <1>8, <1>9
  <2>2. i > 0 /\ j > 0 /\ lines[j].time > lines[i].time
    BY <2>1
  <2>3. /\ i \in 0..n /\ lines[i].task = t /\ lines[i].event = "submit"
        /\ \A l \in 1..n : lines[l].task = t /\ lines[l].event = "submit" => l <= i
    BY <1>1, <2>2, BorgLastIs
  <2>4. /\ j \in 0..n /\ lines[j].task = t /\ lines[j].event = "finish"
        /\ \A l \in 1..n : lines[l].task = t /\ lines[l].event = "finish" => l <= j
    BY <1>1, <2>2, BorgLastIs
  <2> HIDE DEF submit, finish, counts, i, j
  <2>5. i \in 1..n /\ j \in 1..n
    BY <2>2, <2>3, <2>4
  <2>6. i < j
    <3>1. ASSUME j <= i PROVE FALSE
      <4>1. lines[j].time <= lines[i].time
        <5>1. j < i \/ j = i
          BY <2>5, <3>1
        <5>2. lines[i].time \in Nat
          BY <1>2, <2>5
        <5> QED
          BY <1>1, <2>5, <5>1, <5>2 DEF BorgIsCredible
      <4> QED
        BY <1>2, <2>2, <2>5, <4>1
    <3> QED
      BY <2>5, <3>1
  <2>7. ASSUME NEW l \in 1..n, lines[l].task = t, lines[l].event \in {"submit", "finish"}
        PROVE  l <= j /\ (l > i => lines[l].event = "finish")
    <3>1. CASE lines[l].event = "submit"
      <4>1. l <= i
        BY <2>3, <2>7, <3>1
      <4> QED
        BY <2>5, <2>6, <4>1
    <3>2. CASE lines[l].event = "finish"
      BY <2>4, <2>7, <3>2
    <3> QED
      BY <2>7, <3>1, <3>2
  <2>8. BorgAttempt(lines, b[k])
    BY <1>1, <2>1, <2>3, <2>4, <2>5, <2>7 DEF BorgAttempt
  <2>9. b[k].duration \in Nat /\ b[k].duration >= 1
    <3>1. lines[i].time \in Nat /\ lines[j].time \in Nat
      BY <1>2, <2>5
    <3> QED
      BY <2>1, <2>2, <3>1
  <2>10. b[k].class \in Int /\ b[k].at \in Nat
    BY <1>2, <2>1, <2>5
  <2> QED
    BY <2>1, <2>8, <2>9, <2>10 DEF i
<1> HIDE DEF submit, finish, counts
<1>11. \A k \in 1..c : IsJob("borg", b[k])
  <2> SUFFICES ASSUME NEW k \in 1..c PROVE IsJob("borg", b[k])
    OBVIOUS
  <2>1. b[k].duration \in Int /\ b[k].at \in Nat
    BY <1>10
  <2> QED
    BY <2>1, JobIs DEF Loaders
<1>12. ASSUME NEW k \in 1..c, NEW m \in 1..c, b[k].id = b[m].id PROVE k = m
  <2>1. p[k] = p[m]
    BY <1>10, <1>12
  <2> QED
    BY <1>8, <2>1
<1>13. TrueRows("borg", b)
  BY <1>7, <1>9, <1>11, <1>12 DEF TrueRows
<1> QED
  BY <1>9, <1>10, <1>13 DEF b

LEMMA BorgRows ==
    ASSUME NEW lines, BorgIsCredible(lines)
    PROVE  LET rows == BorgProcess(lines)
           IN  /\ TrueRows("borg", rows)
               /\ \A k \in DOMAIN rows : BorgAttempt(lines, rows[k]) /\ rows[k].duration >= 1
                                         /\ rows[k].duration \in Nat
<1> DEFINE b == BorgParse(lines)
           T == {i \in DOMAIN b :
                    Cardinality({j \in 1..i : b[j].class = b[i].class})
                       <= BorgShares(b)[b[i].class]}
           key == [i \in DOMAIN b |-> b[i].class]
           drawn == Arranged(b, T, key)
           out == First(drawn, Target)
<1>1. /\ TrueRows("borg", b)
      /\ \A k \in DOMAIN b : /\ BorgAttempt(lines, b[k]) /\ b[k].class \in Int
                             /\ b[k].duration \in Nat /\ b[k].duration >= 1
  BY BorgParses
<1>2. BorgSample(b) = out
  BY DEF BorgSample
<1> HIDE DEF b
<1>3. PICK n \in Nat : /\ b = [i \in 1..n |-> b[i]]
                       /\ \A i \in 1..n : IsJob("borg", b[i])
                       /\ \A i, j \in 1..n : b[i].id = b[j].id => i = j
  BY <1>1 DEF TrueRows
<1>4. DOMAIN b = 1..n
  BY <1>3
<1>5. T \in SUBSET (1..n) /\ \A i \in T : key[i] \in Int
  BY <1>1, <1>4
<1> HIDE DEF T, key
<1>6. PICK p : Follows(drawn, b, p, T)
  BY <1>5, ArrangedIs
<1>7. TrueRows("borg", drawn)
  BY <1>3, <1>5, <1>6, FollowsTrue
<1>8. PickedFrom(drawn, b)
  BY <1>4, <1>5, <1>6 DEF PickedFrom, Follows, Places
<1> HIDE DEF drawn
<1>9. Target \in Nat
  BY TraceRowsAssumption
<1>10. TrueRows("borg", out) /\ PickedFrom(out, drawn)
  BY <1>7, <1>9, FirstTrue, FirstPicks
<1> HIDE DEF out
<1>11. \A k \in DOMAIN out : BorgAttempt(lines, out[k]) /\ out[k].duration >= 1
                             /\ out[k].duration \in Nat
  BY <1>1, <1>8, <1>10 DEF PickedFrom
<1>12. BorgProcess(lines) \in {out, b}
  BY <1>2 DEF BorgProcess, b
<1> QED
  BY <1>1, <1>10, <1>11, <1>12

-----------------------------------------------------------------------------
(* The jobs of every trace *)

LEMMA SyntheticRowsAre ==
    ASSUME NEW l \in Loaders \ {"synthetic"}
    PROVE  TrueRows(l, PhillySynthetic) /\ TrueRows(l, HeliosSynthetic)
<1> DEFINE n == SyntheticRows
           a == PhillySynthetic
           b == HeliosSynthetic
<1>1. n \in Nat
  BY TraceRowsAssumption
<1>2. \A i \in 1..n : Draw(i) \in Nat
  BY DrawIs
<1>3. /\ a = [i \in 1..n |-> a[i]] /\ b = [i \in 1..n |-> b[i]]
      /\ \A i \in 1..n : /\ a[i].id = i - 1 /\ a[i].duration = Draw(i) /\ a[i].at = 2 * i
                         /\ b[i].id = i - 1 /\ b[i].duration = Draw(i) /\ b[i].at = i - 1
  BY DEF PhillySynthetic, HeliosSynthetic
<1> HIDE DEF a, b, n
<1>4. \A i \in 1..n : IsJob(l, a[i]) /\ IsJob(l, b[i])
  <2> SUFFICES ASSUME NEW i \in 1..n PROVE IsJob(l, a[i]) /\ IsJob(l, b[i])
    OBVIOUS
  <2>1. a[i].duration \in Int /\ a[i].at \in Nat /\ b[i].duration \in Int /\ b[i].at \in Nat
    BY <1>2, <1>3
  <2> QED
    BY <2>1, JobIs
<1>5. \A i, j \in 1..n : (a[i].id = a[j].id => i = j) /\ (b[i].id = b[j].id => i = j)
  <2> SUFFICES ASSUME NEW i \in 1..n, NEW j \in 1..n
               PROVE  (a[i].id = a[j].id => i = j) /\ (b[i].id = b[j].id => i = j)
    OBVIOUS
  <2>1. /\ a[i].id = i - 1 /\ a[j].id = j - 1 /\ b[i].id = i - 1 /\ b[j].id = j - 1
    BY <1>3
  <2>2. i - 1 = j - 1 => i = j
    OBVIOUS
  <2> QED
    BY <2>1, <2>2
<1>6. TrueRows(l, a) /\ TrueRows(l, b)
  BY <1>1, <1>3, <1>4, <1>5 DEF TrueRows
<1> QED
  BY <1>6 DEF a, b

LEMMA NoRows == ASSUME NEW l PROVE TrueRows(l, <<>>)
<1>1. <<>> = [i \in 1..0 |-> <<>>[i]]
  OBVIOUS
<1>2. 1..0 = {}
  OBVIOUS
<1> QED
  BY <1>1, <1>2 DEF TrueRows

LEMMA RowsAreTrue ==
    ASSUME NEW t \in Traces, t.loader # "synthetic", NEW o
    PROVE  TrueRows(t.loader, RowsOf(t, o))
<1>1. t.loader \in Loaders \ {"synthetic"}
  BY TraceFilesAssumption
<1>2. CASE o = "fixture"
  <2>1. TrueRows(t.loader, t.fixture)
    BY <1>1, TracesAreCredible, FixtureRows
  <2> QED
    BY <1>2, <2>1 DEF RowsOf
<1>3. CASE o = "synthetic"
  <2>1. RowsOf(t, o) \in {PhillySynthetic, HeliosSynthetic}
    BY <1>3 DEF RowsOf
  <2> QED
    BY <1>1, <2>1, SyntheticRowsAre
<1>4. CASE o = "real"
  <2>1. CASE t.loader = "burstgpt"
    <3>1. RowsOf(t, o) = BurstNormalise(t.published)
      BY <1>4, <2>1 DEF RowsOf
    <3> QED
      BY <2>1, <3>1, TracesAreCredible, BurstRows
  <2>2. CASE t.loader = "philly"
    <3>1. RowsOf(t, o) = PhillyNormalise(t.published)
      BY <1>4, <2>2 DEF RowsOf
    <3> QED
      BY <2>2, <3>1, TracesAreCredible, PhillyRows
  <2>3. CASE t.loader = "helios"
    <3>1. RowsOf(t, o) = HeliosNormalise(HeliosTable(t.published))
      BY <1>4, <2>3 DEF RowsOf
    <3> QED
      BY <2>3, <3>1, TracesAreCredible, HeliosTableIs, HeliosRows
  <2>4. CASE t.loader = "azure"
    <3>1. RowsOf(t, o) = AzureProcess(t.published)
      BY <1>4, <2>4 DEF RowsOf
    <3> QED
      BY <2>4, <3>1, TracesAreCredible, AzureRows
  <2>5. CASE t.loader = "borg"
    <3>1. RowsOf(t, o) = BorgProcess(t.published)
      BY <1>4, <2>5 DEF RowsOf
    <3> QED
      BY <2>5, <3>1, TracesAreCredible, BorgRows
  <2>6. CASE t.loader = "mooncake"
    <3>1. RowsOf(t, o) = <<>>
      BY <1>4, <2>6 DEF RowsOf
    <3> QED
      BY <3>1, NoRows
  <2> QED
    BY <1>1, <2>1, <2>2, <2>3, <2>4, <2>5, <2>6 DEF Loaders
<1>5. CASE o \notin {"fixture", "synthetic", "real"}
  <2>1. RowsOf(t, o) = <<>>
    BY <1>5 DEF RowsOf
  <2> QED
    BY <2>1, NoRows
<1> QED
  BY <1>2, <1>3, <1>4, <1>5

\* The jobs of the synthetic trace.
LEMMA SyntheticJobIs ==
    ASSUME NEW i \in Nat \ {0}
    PROVE  SyntheticJob(i).true >= 1 /\ SyntheticJob(i).at >= 0 /\ SyntheticJob(i).id = i - 1
<1> DEFINE s == [k \in 1..i |-> Draw(k)]
<1>1. s \in [1..i -> Nat]
  BY DrawIs
<1>2. SyntheticAt(i) = UpTo(s)[i]
  BY DEF SyntheticAt
<1> HIDE DEF s
<1>3. UpTo(s)[i] \in Nat
  <2>1. i \in 0..i
    OBVIOUS
  <2> QED
    BY <1>1, <2>1, UpToIs
<1>4. AtLeast(1, Draw(i + 2)) >= 1
  <2>1. Draw(i + 2) \in Int
    BY DrawIs
  <2> QED
    BY <2>1, AtLeastIs
<1>5. /\ SyntheticJob(i).true = AtLeast(1, Draw(i + 2)) /\ SyntheticJob(i).at = SyntheticAt(i)
      /\ SyntheticJob(i).id = i - 1
  BY DEF SyntheticJob
<1> QED
  BY <1>2, <1>3, <1>4, <1>5

\* What JobsAreTrue says of a result.
TrueResult(r) ==
    /\ \A i \in DOMAIN r.jobs : r.jobs[i].true >= 1 /\ r.jobs[i].at >= 0
    /\ IsInjective([i \in DOMAIN r.jobs |-> r.jobs[i].id])
    /\ r.origin = "real" =>
         /\ loader = "philly" /\ {"id", "status"} \subseteq published.cols =>
              \A i \in DOMAIN r.jobs : \E k \in Measured(published.rows) :
                 published.rows[k].id = r.jobs[i].id
         /\ loader = "borg" => \A i \in DOMAIN r.jobs : IsLastAttempt(r.jobs[i])
         /\ loader = "azure" /\ r.limit = All => MinutesAreWhole(r.jobs)
         /\ loader = "burstgpt" =>
              Len(r.jobs) = Len(First(published.rows, r.limit))

\* The jobs at 1..N, or the first n of them, are those of the rows.
LEMMA JobsAre ==
    ASSUME trace \in Traces, loader # "synthetic", NEW o, NEW n \in Nat
    PROVE  LET all == ShuffledAs(loader, RowsOf(trace, o))
               jobs == First(JobsOf(trace, o), n)
           IN  \E m \in Nat :
                 /\ DOMAIN RowsOf(trace, o) = 1..m
                 /\ DOMAIN jobs = 1..m \cap 1..n
                 /\ jobs = [i \in 1..m \cap 1..n |-> jobs[i]]
                 /\ \A i \in 1..m \cap 1..n :
                      /\ jobs[i] = JobAs(loader, all[i])
                      /\ jobs[i].true >= 1 /\ jobs[i].at >= 0 /\ jobs[i].id = all[i].id
                      /\ \E j \in DOMAIN RowsOf(trace, o) : all[i] = RowsOf(trace, o)[j]
                 /\ \A i, j \in 1..m \cap 1..n : jobs[i].id = jobs[j].id => i = j
<1> DEFINE l == loader
           rows == RowsOf(trace, o)
           all == ShuffledAs(l, rows)
           jobs == First(JobsOf(trace, o), n)
<1>1. TrueRows(l, rows)
  BY RowsAreTrue DEF loader
<1>2. JobsOf(trace, o) = [i \in DOMAIN all |-> JobAs(l, all[i])]
  BY DEF JobsOf, loader
<1> HIDE DEF rows, l
<1>3. TrueRows(l, all) /\ PickedFrom(all, rows) /\ DOMAIN all = DOMAIN rows
  BY <1>1, ShuffledTrue, ShuffledPicks
<1> HIDE DEF all
<1>4. PICK m \in Nat : /\ all = [i \in 1..m |-> all[i]]
                       /\ \A i \in 1..m : IsJob(l, all[i])
                       /\ \A i, j \in 1..m : all[i].id = all[j].id => i = j
  BY <1>3 DEF TrueRows
<1>5. DOMAIN all = 1..m
  BY <1>4
<1> DEFINE D == 1..m \cap 1..n
<1>6. jobs = [i \in D |-> JobAs(l, all[i])]
  BY <1>2, <1>5 DEF First
<1> HIDE DEF jobs
<1>7. /\ DOMAIN jobs = D /\ jobs = [i \in D |-> jobs[i]]
      /\ \A i \in D : jobs[i] = JobAs(l, all[i])
  <2> HIDE DEF D
  <2> QED
    BY <1>6
<1>8. \A i \in D : /\ jobs[i].true >= 1 /\ jobs[i].at >= 0 /\ jobs[i].id = all[i].id
                   /\ \E j \in DOMAIN rows : all[i] = rows[j]
  BY <1>3, <1>4, <1>5, <1>7 DEF IsJob, PickedFrom
<1>9. \A i, j \in D : jobs[i].id = jobs[j].id => i = j
  <2>1. \A i \in D : i \in 1..m
    OBVIOUS
  <2> HIDE DEF D
  <2> QED
    BY <1>4, <1>8, <2>1
<1> QED
  BY <1>3, <1>5, <1>7, <1>8, <1>9 DEF jobs, rows, l, all

LEMMA ResultIsTrue ==
    ASSUME trace \in Traces, loader # "synthetic", NEW o \in Origins, NEW n \in Nat
    PROVE  TrueResult(ResultOf(trace, o, n))
<1> DEFINE rows == RowsOf(trace, o)
           all == ShuffledAs(loader, rows)
           r == ResultOf(trace, o, n)
           jobs == First(JobsOf(trace, o), n)
           t == published
<1>1. r.jobs = jobs /\ r.origin = o /\ r.limit = n
  BY DEF ResultOf
<1>2. PICK m \in Nat :
         /\ DOMAIN rows = 1..m
         /\ DOMAIN jobs = 1..m \cap 1..n
         /\ jobs = [i \in 1..m \cap 1..n |-> jobs[i]]
         /\ \A i \in 1..m \cap 1..n :
              /\ jobs[i] = JobAs(loader, all[i])
              /\ jobs[i].true >= 1 /\ jobs[i].at >= 0 /\ jobs[i].id = all[i].id
              /\ \E j \in DOMAIN rows : all[i] = rows[j]
         /\ \A i, j \in 1..m \cap 1..n : jobs[i].id = jobs[j].id => i = j
  BY JobsAre
<1> HIDE DEF jobs, r
<1>3. \A i \in DOMAIN jobs : jobs[i].true >= 1 /\ jobs[i].at >= 0
  BY <1>2
<1>4. IsInjective([i \in DOMAIN jobs |-> jobs[i].id])
  <2> HIDE DEF rows, all
  <2> QED
    BY <1>2 DEF IsInjective
<1>5. ASSUME o = "real", loader = "philly", {"id", "status"} \subseteq t.cols, NEW i \in DOMAIN jobs
      PROVE  \E k \in Measured(t.rows) : t.rows[k].id = jobs[i].id
  <2>1. rows = PhillyNormalise(t)
    BY <1>5 DEF RowsOf, loader, published
  <2>2. PhillyIsCredible(t)
    BY <1>5, TracesAreCredible DEF loader, published
  <2>3. \A j \in DOMAIN rows : \E k \in Measured(t.rows) : t.rows[k].id = rows[j].id
    BY <1>5, <2>1, <2>2, PhillyRows
  <2>4. jobs[i].id = all[i].id /\ \E j \in DOMAIN rows : all[i] = rows[j]
    BY <1>2, <1>5
  <2> HIDE DEF rows, all, t
  <2> QED
    BY <2>3, <2>4
<1>6. ASSUME o = "real", loader = "borg", NEW i \in DOMAIN jobs PROVE IsLastAttempt(jobs[i])
  <2>1. rows = BorgProcess(t)
    BY <1>6 DEF RowsOf, loader, published
  <2>2. BorgIsCredible(t)
    BY <1>6, TracesAreCredible DEF loader, published
  <2>3. \A j \in DOMAIN rows : BorgAttempt(t, rows[j]) /\ rows[j].duration \in Nat
                               /\ rows[j].duration >= 1
    BY <2>1, <2>2, BorgRows
  <2>4. /\ jobs[i] = JobAs(loader, all[i]) /\ jobs[i].id = all[i].id
        /\ \E j \in DOMAIN rows : all[i] = rows[j]
    BY <1>2, <1>6
  <2> HIDE DEF rows, all
  <2>5. BorgAttempt(t, all[i]) /\ all[i].duration \in Int /\ all[i].duration >= 1
    BY <2>3, <2>4
  <2>6. jobs[i].true = all[i].duration
    <3>1. jobs[i].true = AtLeast(1, all[i].duration)
      BY <1>6, <2>4 DEF JobAs, BorgJob
    <3> QED
      BY <2>5, <3>1, AtLeastIs
  <2> QED
    BY <2>4, <2>5, <2>6 DEF BorgAttempt, IsLastAttempt
<1>7. ASSUME o = "real", loader = "azure", n = All PROVE MinutesAreWhole(jobs)
  <2> DEFINE f == AzureFunctions(t.functions)
  <2>1. rows = AzureProcess(t) /\ all = rows
    BY <1>7 DEF RowsOf, loader, published, ShuffledAs
  <2>2. AzureIsCredible(t)
    BY <1>7, TracesAreCredible DEF loader, published
  <2> HIDE DEF rows, all, t
  <2>3. /\ TrueRows("azure", rows) /\ Len(rows) <= All
        /\ \A y \in 1..t.minutes : \A x \in DOMAIN f : \A i \in 1..f[x].calls[y] :
              (\A a \in DOMAIN rows : rows[a].id # <<f[x].id, y, i - 1>>) =>
                 /\ Len(rows) >= CacheRows
                 /\ \A a \in DOMAIN rows : rows[a].id[2] <= y
    BY <2>1, <2>2, AzureRows DEF AzureIsCredible
  <2> HIDE DEF f
  <2>4. Len(rows) = m
    <3> DEFINE V == {rows[i] : i \in 1..m}
    <3>1. PICK k \in Nat : rows = [i \in 1..k |-> rows[i]]
      BY <2>3 DEF TrueRows
    <3>2. rows = [i \in 1..m |-> rows[i]]
      BY <1>2, <3>1
    <3>3. rows \in [1..m -> V]
      BY <3>2
    <3> HIDE DEF V
    <3> QED
      BY <3>3, Indexed
  <2>5. 1..m \cap 1..n = 1..m
    <3>1. m <= n
      BY <1>7, <2>3, <2>4
    <3> QED
      BY <3>1
  <2>6. DOMAIN jobs = 1..m /\ \A i \in 1..m : jobs[i].id = rows[i].id
    BY <1>2, <2>1, <2>5
  <2>7. Len(jobs) = m
    <3> DEFINE V == {jobs[i] : i \in 1..m}
    <3>1. jobs \in [1..m -> V]
      BY <1>2, <2>5
    <3> HIDE DEF V
    <3> QED
      BY <3>1, Indexed
  <2> DEFINE isThere(id) == \E i \in DOMAIN jobs : jobs[i].id = id
             whole(y) == \A x \in DOMAIN f : \A i \in 1..f[x].calls[y] : isThere(<<f[x].id, y, i - 1>>)
  <2>8. ASSUME NEW y \in 1..t.minutes, ~whole(y)
        PROVE  Len(jobs) >= CacheRows /\ \A i \in DOMAIN jobs : jobs[i].id[2] <= y
    <3> PICK x \in DOMAIN f : \E i \in 1..f[x].calls[y] : ~isThere(<<f[x].id, y, i - 1>>)
      BY <2>8
    <3>1. PICK i \in 1..f[x].calls[y] : ~isThere(<<f[x].id, y, i - 1>>)
      OBVIOUS
    <3>2. \A a \in DOMAIN rows : rows[a].id # <<f[x].id, y, i - 1>>
      BY <1>2, <2>6, <3>1
    <3>3. Len(rows) >= CacheRows /\ \A a \in DOMAIN rows : rows[a].id[2] <= y
      BY <2>3, <3>2
    <3> QED
      BY <1>2, <2>4, <2>6, <2>7, <3>3
  <2> QED
    BY <2>8 DEF MinutesAreWhole, f, t
<1>8. ASSUME o = "real", loader = "burstgpt" PROVE Len(jobs) = Len(First(t.rows, n))
  <2>1. rows = BurstNormalise(t)
    BY <1>8 DEF RowsOf, loader, published
  <2>2. BurstIsCredible(t)
    BY <1>8, TracesAreCredible DEF loader, published
  <2>3. DOMAIN t.rows = 1..m
    BY <1>2, <2>1, <2>2, BurstRows
  <2> HIDE DEF rows, all, t
  <2> DEFINE b == First(t.rows, n)
             k == IF m <= n THEN m ELSE n
  <2>4. k \in Nat /\ 1..m \cap 1..n = 1..k
    OBVIOUS
  <2> HIDE DEF k
  <2>5. b = [i \in 1..k |-> t.rows[i]]
    BY <2>3, <2>4 DEF First
  <2> HIDE DEF b
  <2>6. Len(b) = k
    <3> DEFINE V == {t.rows[i] : i \in 1..k}
    <3>1. b \in [1..k -> V]
      BY <2>5
    <3> HIDE DEF V
    <3> QED
      BY <2>4, <3>1, Indexed
  <2>7. Len(jobs) = k
    <3> DEFINE V == {jobs[i] : i \in 1..k}
    <3>1. jobs \in [1..k -> V]
      BY <1>2, <2>4
    <3> HIDE DEF V
    <3> QED
      BY <2>4, <3>1, Indexed
  <2> QED
    BY <2>6, <2>7 DEF b
<1>9. TrueResult(r)
  BY <1>1, <1>3, <1>4, <1>5, <1>6, <1>7, <1>8 DEF TrueResult
<1> QED
  BY <1>9 DEF r

LEMMA SyntheticResultIsTrue ==
    ASSUME loader = "synthetic", NEW o, NEW n \in Nat
    PROVE  TrueResult(ResultOf(trace, o, n))
<1> DEFINE r == ResultOf(trace, o, n)
           jobs == First(JobsOf(trace, o), n)
<1>1. r.jobs = jobs
  BY DEF ResultOf
<1>2. JobsOf(trace, o) = [i \in Nat \ {0} |-> SyntheticJob(i)]
  BY DEF JobsOf, loader
<1>3. DOMAIN jobs \subseteq Nat \ {0} /\ \A i \in DOMAIN jobs : jobs[i] = SyntheticJob(i)
  BY <1>2 DEF First
<1> HIDE DEF jobs, r
<1>4. \A i \in DOMAIN jobs : jobs[i].true >= 1 /\ jobs[i].at >= 0 /\ jobs[i].id = i - 1
  BY <1>3, SyntheticJobIs
<1>5. IsInjective([i \in DOMAIN jobs |-> jobs[i].id])
  <2>1. ASSUME NEW i \in DOMAIN jobs, NEW j \in DOMAIN jobs, jobs[i].id = jobs[j].id PROVE i = j
    <3>1. i - 1 = j - 1 /\ i \in Int /\ j \in Int
      BY <1>3, <1>4, <2>1
    <3> QED
      BY <3>1
  <2> QED
    BY <2>1 DEF IsInjective
<1>6. TrueResult(r)
  BY <1>1, <1>4, <1>5 DEF TrueResult
<1> QED
  BY <1>6 DEF r

\* Whatever happened in between, every job that any load returned is one that
\* the published file, the fixture or the sample tells of: each once, with a
\* length, none before time 0, only completed ones, Borg's last attempts,
\* Azure's minutes without gaps and of BurstGPT every row.
THEOREM JobsStayTrue == Spec => []JobsAreTrue
<1>1. FileInv => JobsAreTrue
  <2> SUFFICES ASSUME FileInv PROVE JobsAreTrue
    OBVIOUS
  <2>1. ASSUME NEW p \in Procs PROVE TrueResult(result[p])
    <3>1. result[p] \in ResultsOf(trace) /\ trace \in Traces
      BY DEF FileInv
    <3>2. PICK o \in Origins, n \in Nat : result[p] = ResultOf(trace, o, n)
      BY <3>1 DEF ResultsOf
    <3>3. TrueResult(ResultOf(trace, o, n))
      BY <3>1, ResultIsTrue, SyntheticResultIsTrue
    <3> QED
      BY <3>2, <3>3
  <2> QED
    BY <2>1 DEF JobsAreTrue, TrueResult
<1> QED
  BY <1>1, InitIs, StepKeeps, PTL DEF Spec
=============================================================================
