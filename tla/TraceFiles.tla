------------------------------- MODULE TraceFiles -------------------------------
(***************************************************************************)
(* The loaders' files (traces/): load() takes the fixture when offline, the*)
(* cache when there is one, and otherwise downloads the published file,    *)
(* makes rows of it (module TraceRows), writes the cache and returns jobs. *)
(*                                                                         *)
(* Several processes run loads of one trace over the same directory.       *)
(* Nothing is locked, to_parquet() is not atomic, a process may be killed   *)
(* anywhere and a download may fail.                                       *)
(***************************************************************************)
EXTENDS TraceRows

CONSTANTS
    Procs,
    Traces,      \* the loader and what is published: [loader, published, fixture]
    Contended,   \* bound: the traces that are loaded by several processes at a time
    Requests,    \* n of load(n), All for None
    MaxRowsOf,   \* max_rows of the instance, All for None
    MaxFaults    \* bound: crashes and failed downloads

All == 1000     \* more than there ever is

Loaders == {"burstgpt", "philly", "helios", "azure", "borg", "mooncake", "synthetic"}

ASSUME TraceFilesAssumption ==
    /\ Requests \subseteq 0..All /\ MaxRowsOf \subseteq 1..All /\ MaxFaults \in Nat
    /\ Contended \subseteq Traces /\ \A t \in Traces : t.loader \in Loaders

\* What is taken for granted of a published file: that its tables are tables, its
\* ids name one row each (of Azure's the 16 characters that are used), times and
\* lengths are numbers or missing, and Borg's events are in order of time.
IsTable(rows) == rows \in Seq(Range(rows))
UniqueIds(rows) == IsInjective([i \in DOMAIN rows |-> rows[i].id])
Clock == Nat \cup {NaN}

BurstIsCredible(t) ==
    /\ IsTable(t.rows) /\ ("id" \in t.cols => UniqueIds(t.rows))
    /\ \A i \in DOMAIN t.rows :
         t.rows[i].duration \in Int /\ t.rows[i].tokens \in Int /\ t.rows[i].submit \in Nat

PhillyIsCredible(t) ==
    /\ IsTable(t.rows) /\ ("id" \in t.cols => UniqueIds(t.rows))
    /\ \A i \in DOMAIN t.rows : t.rows[i].start \in Clock /\ t.rows[i].end \in Clock

HeliosIsCredible(archive) ==
    /\ IsTable(archive.files)
    /\ \A f \in DOMAIN archive.files :
         LET rows == archive.files[f].rows
         IN  /\ IsTable(rows)
             /\ \A i \in DOMAIN rows :
                  {rows[i].duration, rows[i].start, rows[i].end, rows[i].submit} \subseteq Clock
    /\ "id" \in archive.cols =>
         \A f, g \in DOMAIN archive.files :
            \A i \in DOMAIN archive.files[f].rows, j \in DOMAIN archive.files[g].rows :
               archive.files[f].rows[i].id = archive.files[g].rows[j].id => f = g /\ i = j

AzureIsCredible(raw) ==
    /\ raw.minutes \in Nat /\ IsTable(raw.functions) /\ UniqueIds(raw.functions)
    /\ \A i \in DOMAIN raw.functions :
         /\ raw.functions[i].average \in Int /\ raw.functions[i].median \in Int
         /\ raw.functions[i].calls \in [1..raw.minutes -> Nat]
    /\ Len(AzureProcess(raw)) <= All

BorgIsCredible(lines) ==
    /\ IsTable(lines)
    /\ \A i \in DOMAIN lines : lines[i].time \in Nat /\ lines[i].class \in Int
    /\ \A i, j \in DOMAIN lines : i < j => lines[i].time <= lines[j].time

FixtureIsCredible(rows) ==
    /\ IsTable(rows) /\ UniqueIds(rows)
    /\ \A i \in DOMAIN rows : rows[i].duration \in Int /\ rows[i].at \in Nat

ASSUME TracesAreCredible ==
    \A t \in Traces :
       /\ FixtureIsCredible(t.fixture)
       /\ t.loader = "burstgpt" => BurstIsCredible(t.published)
       /\ t.loader = "philly"   => PhillyIsCredible(t.published)
       /\ t.loader = "helios"   => HeliosIsCredible(t.published)
       /\ t.loader = "azure"    => AzureIsCredible(t.published)
       /\ t.loader = "borg"     => BorgIsCredible(t.published)

VARIABLES
    trace,     \* the trace that is loaded
    cache,     \* the cached parquet file
    tarball,   \* Azure's archive, kept between downloads
    written,   \* what the writes that overlap would have in the cache
    pc, df,    \* per process: where its load is, and its data frame
    limit,     \* rows to return
    result,    \* what its last load returned
    faults

shared == <<trace, cache, tarball, written, faults>>
vars == <<shared, pc, df, limit, result>>

-----------------------------------------------------------------------------

None    == [state |-> "none"]
Damaged == [state |-> "damaged"]
Stale   == [state |-> "stale"]       \* of a release with other columns
Whole(d) == [state |-> "whole", df |-> d]

Frame(origin, rows) == [origin |-> origin, rows |-> rows]
NoFrame  == Frame("none", <<>>)
OldFrame == Frame("stale", <<>>)
NoResult == [origin |-> "none", limit |-> 0, jobs |-> <<>>]

loader    == trace.loader
published == trace.published

Writers == {p \in Procs : pc[p] = "writing"}

Origins == {"none", "stale", "fixture", "real", "synthetic"}

TypeOK ==
    /\ trace \in Traces
    /\ cache \in {None, Damaged, Stale} \/ cache.state = "whole"
    /\ tarball \in {"none", "partial", "whole"}
    /\ tarball = "none" \/ loader = "azure"
    /\ pc \in [Procs -> {"idle", "fixture", "read", "fetch", "fetching", "parse",
                         "write", "writing", "finish"}]
    /\ \A p \in Procs : df[p].origin \in Origins
    /\ limit \in [Procs -> 0..All]
    /\ \A p \in Procs : result[p].origin \in Origins
    /\ faults \in 0..MaxFaults
    /\ Writers # {} => cache = Damaged /\ \A p \in Writers : df[p] \in written

Init ==
    /\ trace \in Traces
    /\ cache \in {None, Stale}
    /\ tarball = "none"
    /\ written = {}
    /\ pc = [p \in Procs |-> "idle"] /\ df = [p \in Procs |-> NoFrame]
    /\ limit = [p \in Procs |-> 0]
    /\ result = [p \in Procs |-> NoResult]
    /\ faults = 0

-----------------------------------------------------------------------------
(* What the loaders make of their files *)

\* The data frame a download makes of the published file, or NoFrame for an
\* error.
BurstDownload == Frame("real", BurstNormalise(published))

PhillyDownload ==
    IF PhillyParses(published) THEN Frame("real", PhillyNormalise(published)) ELSE NoFrame

HeliosDownload ==
    IF HeliosReadable(published) = <<>> THEN Frame("synthetic", HeliosSynthetic)
    ELSE Frame("real", HeliosNormalise(HeliosTable(published)))

\* An archive that was cut off cannot be extracted; no rows cannot be sorted.
AzureDownload ==
    IF tarball # "whole" \/ AzureProcess(published) = <<>> THEN NoFrame
    ELSE Frame("real", AzureProcess(published))

BorgDownload ==
    IF BorgParse(published) = <<>> THEN NoFrame ELSE Frame("real", BorgProcess(published))

Download ==
    CASE loader = "burstgpt" -> BurstDownload
      [] loader = "philly"   -> PhillyDownload
      [] loader = "helios"   -> HeliosDownload
      [] loader = "azure"    -> AzureDownload
      [] loader = "borg"     -> BorgDownload

\* What is used instead of a download that fails, if anything.
Fallback ==
    CASE loader = "philly" -> Frame("synthetic", PhillySynthetic)
      [] loader = "helios" -> Frame("synthetic", HeliosSynthetic)
      [] OTHER             -> NoFrame

Job(row) ==
    CASE loader = "burstgpt" -> BurstJob(row)
      [] loader = "philly"   -> PhillyJob(row)
      [] loader = "helios"   -> HeliosJob(row)
      [] loader = "azure"    -> AzureJob(row)
      [] loader = "borg"     -> BorgJob(row)
      [] loader = "mooncake" -> MooncakeJob(row)

\* `n or max_rows`: nothing asked for and zero asked for are the same; the two
\* loaders without a download tell them apart.
Limit(n, maxRows) ==
    IF n = All \/ (n = 0 /\ loader \notin {"mooncake", "synthetic"}) THEN maxRows ELSE n

\* A permutation that depends on the number of rows alone.
Shuffled(rows) == IF loader \in {"philly", "helios", "borg"} THEN Reverse(rows) ELSE rows

\* Mutant: the rows are cut before they are shuffled.
SelectedFirst(rows, n) == Shuffled(First(rows, n))

Selected(rows, n) == First(Shuffled(rows), n)

-----------------------------------------------------------------------------
(* A load *)

Goto(p, place) == pc' = [pc EXCEPT ![p] = place]

\* The load is over, and its variables are gone.
Leave(p) ==
    /\ Goto(p, "idle")
    /\ df' = [df EXCEPT ![p] = NoFrame]
    /\ limit' = [limit EXCEPT ![p] = 0]

Raise(p) == Leave(p) /\ UNCHANGED result

\* load(n): which file there is decides what follows.
Load(p) ==
    /\ pc[p] = "idle" /\ loader # "synthetic"
    /\ trace \in Contended \/ \A q \in Procs : pc[q] = "idle"
    /\ \E n \in Requests, maxRows \in MaxRowsOf, offline \in BOOLEAN :
        /\ limit' = [limit EXCEPT ![p] = Limit(n, maxRows)]
        /\ Goto(p, IF offline \/ loader = "mooncake" THEN "fixture"
                   ELSE IF cache # None THEN "read" ELSE "fetch")
    /\ UNCHANGED <<shared, df, result>>

\* The synthetic trace is made on the spot.
Generate(p) ==
    /\ pc[p] = "idle" /\ loader = "synthetic"
    /\ \E n \in Requests, maxRows \in MaxRowsOf \ {All} :
         result' = [result EXCEPT ![p] =
            [origin |-> "real", limit |-> Limit(n, maxRows),
             jobs |-> SyntheticJobs(Limit(n, maxRows))]]
    /\ UNCHANGED <<shared, pc, df, limit>>

ReadFixture(p) ==
    /\ pc[p] = "fixture"
    /\ UNCHANGED shared
    /\ IF trace.fixture = <<>> THEN Raise(p)
       ELSE /\ df' = [df EXCEPT ![p] = Frame("fixture", trace.fixture)]
            /\ Goto(p, "finish")
            /\ UNCHANGED <<limit, result>>

\* The cache was there when the load looked.
ReadCache(p) ==
    /\ pc[p] = "read"
    /\ UNCHANGED shared
    /\ IF cache.state \notin {"whole", "stale"} THEN Raise(p)
       ELSE /\ df' = [df EXCEPT ![p] = IF cache = Stale THEN OldFrame ELSE cache.df]
            /\ Goto(p, "finish")
            /\ UNCHANGED <<limit, result>>

\* The download; Azure's goes to a file that is not fetched again once it is
\* there, whole or not.
Fetch(p) ==
    /\ pc[p] = "fetch"
    /\ tarball' = IF loader = "azure" /\ tarball = "none" THEN "partial" ELSE tarball
    /\ Goto(p, IF loader = "azure" /\ tarball = "none" THEN "fetching" ELSE "parse")
    /\ UNCHANGED <<trace, cache, written, faults, df, limit, result>>

Fetched(p) ==
    /\ pc[p] = "fetching"
    /\ tarball' = "whole"
    /\ Goto(p, "parse")
    /\ UNCHANGED <<trace, cache, written, faults, df, limit, result>>

\* A synthetic sample instead, or an error for the caller.
Without(p) ==
    IF Fallback # NoFrame
    THEN /\ df' = [df EXCEPT ![p] = Fallback]
         /\ Goto(p, "write")
         /\ UNCHANGED <<limit, result>>
    ELSE Raise(p)

\* The network fails, or another download writes to the file that is read.
FetchFails(p) ==
    /\ pc[p] \in {"fetch", "fetching"} /\ faults < MaxFaults
    /\ ~(loader = "azure" /\ pc[p] = "fetch" /\ tarball # "none")
    /\ faults' = faults + 1
    /\ tarball' = IF loader = "azure" THEN "partial" ELSE tarball
    /\ Without(p)
    /\ UNCHANGED <<trace, cache, written>>

Parse(p) ==
    /\ pc[p] = "parse"
    /\ UNCHANGED shared
    /\ IF Download = NoFrame THEN Without(p)
       ELSE /\ df' = [df EXCEPT ![p] = Download]
            /\ Goto(p, "write")
            /\ UNCHANGED <<limit, result>>

\* to_parquet() truncates the file ...
BeginWrite(p) ==
    /\ pc[p] = "write"
    /\ cache' = Damaged
    /\ written' = written \cup {df[p]}
    /\ Goto(p, "writing")
    /\ UNCHANGED <<trace, tarball, faults, df, limit, result>>

\* ... and fills it.  Of writes that overlapped with different contents one may
\* win, or the file is neither.
EndWrite(p) ==
    /\ pc[p] = "writing"
    /\ IF Writers # {p} THEN UNCHANGED <<cache, written>>
       ELSE /\ cache' \in {Whole(d) : d \in written}
                           \cup (IF Cardinality(written) > 1 THEN {Damaged} ELSE {})
            /\ written' = {}
    /\ Goto(p, "finish")
    /\ UNCHANGED <<trace, tarball, faults, df, limit, result>>

Validates(d) == d # OldFrame

\* Mooncake refuses to return fewer than were asked for.
AsksTooMuch(d, n) == loader = "mooncake" /\ n # All /\ n > Len(d.rows)

\* The schema is checked, rows are selected and turned into jobs.
Finish(p) ==
    /\ pc[p] = "finish"
    /\ UNCHANGED shared
    /\ IF ~Validates(df[p]) \/ AsksTooMuch(df[p], limit[p])
       THEN Raise(p)
       ELSE LET rows == Selected(df[p].rows, limit[p])
            IN  /\ result' = [result EXCEPT ![p] =
                     [origin |-> df[p].origin, limit |-> limit[p],
                      jobs |-> [i \in DOMAIN rows |-> Job(rows[i])]]]
                /\ Leave(p)

\* The process is killed; the files stay as they are.
Crash(p) ==
    /\ pc[p] # "idle" /\ faults < MaxFaults
    /\ faults' = faults + 1
    /\ written' = IF Writers \subseteq {p} THEN {} ELSE written
    /\ UNCHANGED <<trace, cache, tarball>>
    /\ Raise(p)

\* The user deletes a cache that cannot be used, as the error says.
Delete ==
    /\ cache \in {Damaged, Stale} /\ Writers = {}
    /\ cache' = None
    /\ UNCHANGED <<trace, tarball, written, faults, pc, df, limit, result>>

Step(p) ==
    \/ ReadFixture(p) \/ ReadCache(p) \/ Fetch(p) \/ Fetched(p)
    \/ FetchFails(p) \/ Parse(p) \/ BeginWrite(p) \/ EndWrite(p) \/ Finish(p)

Next == Delete \/ \E p \in Procs : Load(p) \/ Generate(p) \/ Step(p) \/ Crash(p)

Spec == Init /\ [][Next]_vars

-----------------------------------------------------------------------------
(* Properties *)

\* Whatever crashed, failed or raced between two loads: if both return real
\* data, or both the fallback, the smaller one is the beginning of the larger,
\* with every job that was asked for that there is.
LoadsAgree ==
    \A p, q \in Procs :
        LET a == result[p]
            b == result[q]
        IN  /\ a.origin = b.origin /\ a.limit <= b.limit =>
                 a.jobs = First(b.jobs, a.limit)

-----------------------------------------------------------------------------

Measured(rows) == {i \in DOMAIN rows : rows[i].status = "completed"}

\* A job is the last complete attempt of its task: nothing was submitted since
\* and it has not ended again.
IsLastAttempt(job) ==
    \E i, j \in DOMAIN published :
        /\ published[i].event = "submit" /\ published[j].event = "finish"
        /\ published[i].task = job.id /\ published[j].task = job.id
        /\ published[j].time - published[i].time = job.true
        /\ \A k \in DOMAIN published :
              published[k].task = job.id /\ published[k].event \in {"submit", "finish"} =>
                 k <= j /\ (k > i => published[k].event = "finish")

\* Invocations are cut off at one pair of a function and a minute: if some of
\* a minute are missing, there are enough and none of the minutes after.
MinutesAreWhole(jobs) ==
    LET f == AzureFunctions(published.functions)
        isThere(id) == \E i \in DOMAIN jobs : jobs[i].id = id
        whole(m) == \A k \in DOMAIN f : \A i \in 1..f[k].calls[m] : isThere(<<f[k].id, m, i - 1>>)
    IN  \A m \in 1..published.minutes :
           ~whole(m) => /\ Len(jobs) >= CacheRows
                        /\ \A i \in DOMAIN jobs : jobs[i].id[2] <= m

\* A load of real data returns jobs that happened: no job twice or without
\* length or before time 0, none that did not complete where the file tells,
\* Borg's last attempts, Azure's minutes without gaps, and of BurstGPT every
\* row.
JobsAreTrue ==
    \A p \in Procs :
        LET jobs == result[p].jobs
        IN  /\ \A i \in DOMAIN jobs : jobs[i].true >= 1 /\ jobs[i].at >= 0
            /\ IsInjective([i \in DOMAIN jobs |-> jobs[i].id])
            /\ result[p].origin = "real" =>
                 /\ loader = "philly" /\ {"id", "status"} \subseteq published.cols =>
                      \A i \in DOMAIN jobs : \E k \in Measured(published.rows) :
                         published.rows[k].id = jobs[i].id
                 /\ loader = "borg" => \A i \in DOMAIN jobs : IsLastAttempt(jobs[i])
                 /\ loader = "azure" /\ result[p].limit = All => MinutesAreWhole(jobs)
                 /\ loader = "burstgpt" =>
                      Len(jobs) = Len(First(published.rows, result[p].limit))
=============================================================================
