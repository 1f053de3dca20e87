------------------------------- MODULE TraceRows -------------------------------
(***************************************************************************)
(* What the trace loaders (traces/) make of a published file: the rows     *)
(* that count, in the loader's order, and the jobs of a benchmark.         *)
(*                                                                         *)
(* A table has columns named for what they mean (a column's aliases are    *)
(* one name here) and rows; what a row says of a column the table lacks is *)
(* not looked at.  Numbers are whole, NaN is a number that is missing.     *)
(***************************************************************************)
EXTENDS Integers, SequencesExt

CONSTANTS
    SyntheticRows,  \* rows of a synthetic fallback (10,000 or 100 in the code)
    CacheRows,      \* Azure: rows after which the expansion stops (200,000)
    MaxDuration,    \* Azure: the longest average that is believed
    Target          \* Borg: rows that are kept of a shard (10,000)

ASSUME TraceRowsAssumption ==
    /\ SyntheticRows \in Nat \ {0} /\ CacheRows \in Nat \ {0}
    /\ MaxDuration \in Nat \ {0} /\ Target \in Nat \ {0}

NaN == -1

AtLeast(lo, x) == IF x > lo THEN x ELSE lo     \* max(lo, x), lo if x is NaN

\* The i-th draw of a generator whose seed is fixed: some number, the same
\* whenever a load is repeated.
Draw(i) == 1 + ((7 * i) % 5)

Fill(t, row, col, default) ==
    IF col \in t.cols /\ row[col] # NaN THEN row[col] ELSE default

First(rows, limit) == [i \in DOMAIN rows \cap 1..limit |-> rows[i]]

\* What is at the positions T of s, the smaller keys first and equal ones as they
\* come.
Arranged(s, T, key) ==
    LET before(i, j) == key[i] < key[j] \/ (key[i] = key[j] /\ i < j)
        rank(i) == Cardinality({j \in T : before(j, i)})
    IN  [k \in 1..Cardinality(T) |-> s[CHOOSE i \in T : rank(i) = k - 1]]

\* The rows at the positions T.
Kept(rows, T) == Arranged(rows, T, [i \in DOMAIN rows |-> 0])

\* How much the first 0, 1, ... of some groups hold; the group of the j-th
\* member of all, and its place in the group.
UpTo(sizes) ==
    LET upTo[k \in 0..Len(sizes)] == IF k = 0 THEN 0 ELSE upTo[k - 1] + sizes[k] IN upTo

GroupOf(sizes, j) ==
    CHOOSE k \in DOMAIN sizes : UpTo(sizes)[k - 1] < j /\ j <= UpTo(sizes)[k]

PlaceOf(sizes, j) == j - UpTo(sizes)[GroupOf(sizes, j) - 1]

-----------------------------------------------------------------------------
(* BurstGPT: every row counts; missing columns are made up *)

BurstTokens(t, r) == IF "tokens" \in t.cols THEN r.tokens ELSE 128

BurstNormalise(t) ==
    LET from == Min({t.rows[i].submit : i \in DOMAIN t.rows})
    IN  [i \in DOMAIN t.rows |->
           LET r == t.rows[i]
           IN  [id       |-> IF "id" \in t.cols THEN r.id ELSE i - 1,
                size     |-> IF "size" \in t.cols THEN r.size ELSE 512,
                tokens   |-> BurstTokens(t, r),
                duration |-> IF "duration" \in t.cols THEN r.duration
                             ELSE 30 + (9 * BurstTokens(t, r)) \div 10 + Draw(i),
                at       |-> IF "submit" \in t.cols THEN r.submit - from ELSE i - 1]]

BurstJob(r) ==
    [id |-> r.id, size |-> r.size, true |-> AtLeast(1, r.duration), at |-> r.at,
     type |-> CASE r.tokens < 100  -> "llm_short"
                [] r.tokens \in 100..400 -> "llm_medium"
                [] OTHER           -> "llm_long"]

-----------------------------------------------------------------------------
(* Philly: jobs with status pass and a duration; both times are needed *)

PhillyParses(t) == {"start", "end"} \subseteq t.cols

PhillyNormalise(t) ==
    LET counts(r) == /\ "status" \in t.cols => r.status = "completed"
                     /\ NaN \notin {r.start, r.end} /\ r.end > r.start
        kept == Kept(t.rows, {i \in DOMAIN t.rows : counts(t.rows[i])})
        from == Min({kept[i].start : i \in DOMAIN kept})
    IN  [i \in DOMAIN kept |->
           LET r == kept[i]
           IN  [id       |-> IF "id" \in t.cols THEN r.id ELSE i - 1,
                duration |-> r.end - r.start,
                group    |-> IF "group" \in t.cols /\ r.group # "nan" THEN r.group ELSE "other",
                size     |-> Fill(t, r, "size", 1),
                at       |-> r.start - from]]

PhillySynthetic ==
    [i \in 1..SyntheticRows |->
       [id |-> i - 1, duration |-> Draw(i), group |-> "elvis", size |-> 1, at |-> 2 * i]]

PhillyJob(r) ==
    [id |-> r.id, type |-> r.group, size |-> AtLeast(1, 1000 * r.size),
     true |-> AtLeast(1, r.duration), at |-> r.at]

-----------------------------------------------------------------------------
(* Helios: the readable CSV files of an archive, completed jobs only *)

HeliosDuration(t, r, i) ==
    CASE "duration" \in t.cols -> r.duration
      [] "duration" \notin t.cols /\ {"start", "end"} \subseteq t.cols ->
           IF NaN \in {r.start, r.end} THEN NaN ELSE r.end - r.start
      [] OTHER -> Draw(i)

HeliosTier(gpus) ==
    CASE gpus <= 1     -> "gpu_1"
      [] gpus = 2      -> "gpu_2"
      [] gpus \in 3..4 -> "gpu_4"
      [] gpus \in 5..8 -> "gpu_8"
      [] OTHER         -> "gpu_16"

\* Rows that completed, of those the ones with a length; the generator draws for
\* the former.
HeliosNormalise(t) ==
    LET all  == [i \in DOMAIN t.rows |-> i]
        done == Kept(all, {i \in DOMAIN t.rows :
                             "status" \in t.cols => t.rows[i].status = "completed"})
        duration(k) == HeliosDuration(t, t.rows[done[k]], k)
        kept == Kept([k \in DOMAIN done |-> k], {k \in DOMAIN done : duration(k) > 0})
    IN  [i \in DOMAIN kept |->
           LET r    == t.rows[done[kept[i]]]
               gpus == Fill(t, r, "size", 1)
           IN  [id       |-> IF "id" \in t.cols THEN r.id ELSE done[kept[i]] - 1,
                duration |-> duration(kept[i]),
                queue    |-> Fill(t, r, "queue", 0),
                at       |-> IF "submit" \in t.cols THEN Fill(t, r, "submit", 0) ELSE i - 1,
                size     |-> gpus,
                group    |-> IF "group" \in t.cols THEN r.group ELSE HeliosTier(gpus)]]

\* The archive's job files, the tables of those that can be read end to end.
HeliosReadable(archive) ==
    Kept(archive.files, {f \in DOMAIN archive.files : archive.files[f].readable})

HeliosTable(archive) ==
    LET files == HeliosReadable(archive)
        sizes == [f \in DOMAIN files |-> Len(files[f].rows)]
    IN  [cols |-> archive.cols,
         rows |-> [j \in 1..UpTo(sizes)[Len(sizes)] |->
                     files[GroupOf(sizes, j)].rows[PlaceOf(sizes, j)]]]

HeliosSynthetic ==
    [i \in 1..SyntheticRows |->
       [id |-> i - 1, duration |-> Draw(i), queue |-> Draw(i + 1), at |-> i - 1,
        size |-> 1, group |-> "tenant_1"]]

HeliosJob(r) ==
    [id |-> r.id, type |-> r.group, size |-> 1000 * r.size,
     true |-> AtLeast(1, 1000 * r.duration), at |-> 1000 * r.at]

-----------------------------------------------------------------------------
(* Azure: invocation counts per function and minute become tasks *)

\* Functions that were called in the window and whose average is believable.
AzureFunctions(functions) ==
    Kept(functions, {i \in DOMAIN functions :
                       LET f == functions[i]
                       IN  /\ \E m \in DOMAIN f.calls : f.calls[m] > 0
                           /\ f.average # NaN
                           /\ f.average > 0 /\ f.average <= MaxDuration})

\* The i-th task of f in minute m (60,000 ms), as the j-th row: it arrives within
\* the minute, its duration is around the median and within bounds.
AzureTask(f, m, i, j) ==
    [id |-> <<f.id, m, i - 1>>, type |-> f.id, size |-> 1,
     duration |-> Min({AtLeast(1, f.median + Draw(j) - 3), MaxDuration}),
     at |-> 60000 * (m - 1) + Draw(j)]

\* The function and the minute of the k-th pair: minutes first, as they are melted.
AzureFunction(functions, k) == functions[1 + ((k - 1) % Len(functions))]
AzureMinute(functions, k)   == 1 + ((k - 1) \div Len(functions))

AzureSizes(functions, minutes) ==
    [k \in 1..(Len(functions) * minutes) |->
       AzureFunction(functions, k).calls[AzureMinute(functions, k)]]

\* The first number of rows that is enough; the pair that reaches it is taken
\* whole.
AzureTotal(sizes) ==
    LET upTo == UpTo(sizes)
    IN  Min({upTo[Len(sizes)]} \cup {upTo[k] : k \in {k \in DOMAIN upTo : upTo[k] >= CacheRows}})

\* Pair after pair until there are enough rows.
AzureSynthesise(functions, minutes) ==
    LET sizes == AzureSizes(functions, minutes)
    IN  [j \in 1..AzureTotal(sizes) |->
           LET k == GroupOf(sizes, j)
           IN  AzureTask(AzureFunction(functions, k), AzureMinute(functions, k), PlaceOf(sizes, j), j)]

AzureProcess(raw) ==
    LET rows == AzureSynthesise(AzureFunctions(raw.functions), raw.minutes)
    IN  Arranged(rows, DOMAIN rows, [j \in DOMAIN rows |-> rows[j].at])

AzureJob(r) ==
    [id |-> r.id, type |-> r.type, size |-> r.size,
     true |-> AtLeast(1, r.duration), at |-> r.at]

-----------------------------------------------------------------------------
(* Borg: tasks with a SUBMIT and a later FINISH, sampled by class *)

\* Mutant: the first SUBMIT of a task is kept.
BorgLastKeepsFirst(lines, task, event) ==
    LET at == {i \in DOMAIN lines : lines[i].task = task /\ lines[i].event = event}
    IN  IF at = {} THEN 0 ELSE IF event = "submit" THEN Min(at) ELSE Max(at)

\* The line whose entry stays in the dictionary of that event, or 0: a later
\* line of the task overwrites an earlier one.
BorgLast(lines, task, event) ==
    Max({0} \cup {i \in DOMAIN lines : lines[i].task = task /\ lines[i].event = event})

BorgParse(lines) ==
    LET submit(t) == BorgLast(lines, t, "submit")
        finish(t) == BorgLast(lines, t, "finish")
        counts(t) == /\ submit(t) > 0 /\ finish(t) > 0
                     /\ lines[finish(t)].time > lines[submit(t)].time
        last == Arranged(lines, {i \in DOMAIN lines : i = submit(lines[i].task) /\ counts(lines[i].task)},
                         [i \in DOMAIN lines |-> lines[i].time])
    IN  [i \in DOMAIN last |->
           [id |-> last[i].task, duration |-> lines[finish(last[i].task)].time - last[i].time,
            class |-> last[i].class, size |-> last[i].cpu, at |-> last[i].time]]

\* How many rows of a class are asked for: its share, at least one, and one
\* more for the first classes while that stays below the target.
BorgShares(rows) ==
    LET classes  == {rows[i].class : i \in DOMAIN rows}
        count(c) == Cardinality({i \in DOMAIN rows : rows[i].class = c})
        share(c) == AtLeast(1, (Target * count(c)) \div Len(rows))
        left     == Target - MapThenSumSet(share, classes)
    IN  [c \in classes |->
           share(c) + IF Cardinality({d \in classes : d < c}) < left THEN 1 ELSE 0]

\* Which rows of a class are drawn makes no difference here: the first ones.
BorgSample(rows) ==
    LET drawn == {i \in DOMAIN rows :
                    Cardinality({j \in 1..i : rows[j].class = rows[i].class})
                       <= BorgShares(rows)[rows[i].class]}
    IN  First(Arranged(rows, drawn, [i \in DOMAIN rows |-> rows[i].class]), Target)

BorgProcess(lines) ==
    IF Len(BorgParse(lines)) > Target THEN BorgSample(BorgParse(lines)) ELSE BorgParse(lines)

\* cpu_request is counted in millionths, times of the shard in ms.
BorgJob(r) ==
    [id |-> r.id, size |-> AtLeast(1, r.size), true |-> AtLeast(1, r.duration), at |-> r.at,
     type |-> CASE r.class = 0 -> "batch"
                [] r.class = 1 -> "batch_prod"
                [] r.class = 2 -> "latency_sensitive"
                [] r.class = 3 -> "monitoring"
                [] OTHER       -> "sched_class"]

-----------------------------------------------------------------------------
(* Mooncake's fixture and the synthetic trace *)

MooncakeJob(r) ==
    [id |-> r.id, type |-> r.group, size |-> r.size, true |-> AtLeast(1, r.duration), at |-> r.at]

SyntheticAt(i) == UpTo([k \in 1..i |-> Draw(k)])[i]

SyntheticJob(i) ==
    [id |-> i - 1, type |-> "task", size |-> 100 + Draw(i + 1),
     true |-> AtLeast(1, Draw(i + 2)), at |-> SyntheticAt(i)]

SyntheticJobs(n) == [i \in 1..n |-> SyntheticJob(i)]
=============================================================================
