------------------------------ MODULE LambdaRank ------------------------------
(***************************************************************************)
(* One LambdaRankEstimator (models/lambdarank.py) under threads that fit    *)
(* it and threads that ask it for scores.                                  *)
(*                                                                         *)
(* The lock covers single reads and the swap.  Between them a fit prepares *)
(* its matrix with the encoder that predictions use too, trains and        *)
(* evaluates.  A model is known by what it was made of: how many times it  *)
(* was extended, the codes of its matrix, its rho and the rho it started   *)
(* from; the scores it gives to the held-out groups are any.  There is one *)
(* categorical column.  The version, a count of the swaps, is left out.    *)
(***************************************************************************)
EXTENDS RankMetrics

CONSTANTS
    Fitters, Predictors,   \* threads
    Datasets,              \* what fit() is called with: sequences of records
    Types, NoType, Unknown,\* task_type of records and candidates, none, and what stands for none
    MinGroups,             \* config.min_groups
    FullEvery,             \* config.full_refit_every_n_incrementals
    Delta,                 \* the rho that an extension may lose, in hundredths
    Batches,               \* what predict() and predict_batch() are called with: rows of types
    MaxFits                \* bound: calls of fit()

ASSUME LambdaRankAssumption ==
    /\ MinGroups \in Nat /\ FullEvery \in Nat /\ Delta \in Nat /\ MaxFits \in Nat
    /\ Fitters \cap Predictors = {}
    /\ \A d \in Datasets \cup Batches : \A i \in DOMAIN d : d[i].type \in Types \cup {NoType}

VARIABLES
    model,         \* _model
    rho,           \* _last_rho
    incrementals,  \* _incremental_count
    encoder,       \* _encoder: [gen, codes]; gen tells a dictionary from its successor
    pc, job,       \* per thread: where it is, and its local variables
    fits,          \* history: calls of fit()
    alone,         \* history: no two calls have ever overlapped
    stranded       \* history: the last full fit raised after it had rebuilt the encoder

swapped == <<model, rho>>
vars == <<swapped, incrementals, encoder, pc, job, fits, alone, stranded>>

Threads == Fitters \cup Predictors

-----------------------------------------------------------------------------

NoCodes == [t \in {} |-> 0]

NoModel == [extended |-> -1, codes |-> NoCodes, rho |-> 0, from |-> {}]

Idle == [full |-> FALSE, data |-> <<>>, prev |-> NoModel, prevRho |-> 0, want |-> <<>>,
         slot |-> <<>>, codes |-> NoCodes, new |-> NoModel]

Init ==
    /\ model = NoModel /\ rho = 0 /\ incrementals = 0 /\ fits = 0
    /\ encoder = [gen |-> 0, codes |-> NoCodes]
    /\ pc = [t \in Threads |-> "idle"] /\ job = [t \in Threads |-> Idle]
    /\ alone = TRUE /\ stranded = FALSE

\* t goes on at place with these local variables.
Goto(t, place, local) ==
    pc' = [pc EXCEPT ![t] = place] /\ job' = [job EXCEPT ![t] = local]

Busy == {t \in Threads : pc[t] # "idle"}

-----------------------------------------------------------------------------
(* fit() and predict() begin *)

\* extract() and extract_from_record(): a feature row always has a type.
Extract(r) == IF r.type = NoType THEN Unknown ELSE r.type

\* The types of the feature rows in the order in which they come.
RowTypes(groups) ==
    LET rows == FlattenSeq(groups) IN [i \in DOMAIN rows |-> Extract(rows[i])]

\* What fit() is called with has its rows in a row.
ASSUME RowsAssumption ==
    \A d \in Datasets : RowTypes(Groups(d)) \in Seq(Types \cup {Unknown})

\* Mutant: one extension more than the limit.
BeginLate(t) ==
    /\ pc[t] = "idle" /\ t \in Fitters /\ fits < MaxFits /\ fits' = fits + 1
    /\ \E d \in Datasets :
         LET full == model = NoModel \/ incrementals > FullEvery
         IN  Goto(t, IF full THEN "reset" ELSE "previous",
                  [Idle EXCEPT !.full = full, !.data = Groups(d)])
    /\ alone' = (alone /\ Busy = {})
    /\ UNCHANGED <<swapped, incrementals, encoder, stranded>>

\* The lock is taken and the kind of fit decided.
Begin(t) ==
    /\ pc[t] = "idle" /\ t \in Fitters /\ fits < MaxFits /\ fits' = fits + 1
    /\ \E d \in Datasets :
         LET full == model = NoModel \/ incrementals >= FullEvery
         IN  Goto(t, IF full THEN "reset" ELSE "previous",
                  [Idle EXCEPT !.full = full, !.data = Groups(d)])
    /\ alone' = (alone /\ Busy = {})
    /\ UNCHANGED <<swapped, incrementals, encoder, stranded>>

\* Mutant: an extension rebuilds the encoder as well.
ReadPreviousResets(t) ==
    /\ pc[t] = "previous"
    /\ Goto(t, "extend", [job[t] EXCEPT !.prev = model, !.prevRho = rho,
                                        !.want = RowTypes(job[t].data)])
    /\ encoder' = [gen |-> encoder.gen + 1, codes |-> NoCodes]
    /\ UNCHANGED <<swapped, incrementals, fits, alone, stranded>>

\* The lock is taken again for what will be extended.
ReadPrevious(t) ==
    /\ pc[t] = "previous"
    /\ Goto(t, "extend", [job[t] EXCEPT !.prev = model, !.prevRho = rho,
                                        !.want = RowTypes(job[t].data)])
    /\ UNCHANGED <<swapped, incrementals, encoder, fits, alone, stranded>>

\* A full fit drops the codes that there are.
Reset(t) ==
    /\ pc[t] = "reset"
    /\ encoder' = [gen |-> encoder.gen + 1, codes |-> NoCodes]
    /\ Goto(t, "extend", [job[t] EXCEPT !.want = RowTypes(job[t].data)])
    /\ UNCHANGED <<swapped, incrementals, fits, alone, stranded>>

\* predict(): without a model it answers at once.
Ask(p) ==
    /\ pc[p] = "idle" /\ p \in Predictors
    /\ model # NoModel
    /\ \E batch \in Batches :
         Goto(p, "extend", [Idle EXCEPT !.prev = model, !.data = <<batch>>,
                                        !.want = RowTypes(<<batch>>)])
    /\ alone' = (alone /\ Busy = {})
    /\ UNCHANGED <<swapped, incrementals, encoder, fits, stranded>>

-----------------------------------------------------------------------------
(* _build_matrix(), without a lock *)

\* Is the next type in the dictionary, and how many are there?
Look(t) ==
    /\ pc[t] = "extend" /\ job[t].want # <<>>
    /\ IF Head(job[t].want) \in DOMAIN encoder.codes
       THEN Goto(t, "extend", [job[t] EXCEPT !.want = Tail(job[t].want)])
       ELSE Goto(t, "put", [job[t] EXCEPT
                              !.slot = <<encoder.gen, Cardinality(DOMAIN encoder.codes)>>])
    /\ UNCHANGED <<swapped, incrementals, encoder, fits, alone, stranded>>

\* It gets that number; in a dictionary that was replaced nobody will see it.
Put(t) ==
    /\ pc[t] = "put"
    /\ LET type == Head(job[t].want)
       IN  encoder' = IF job[t].slot[1] # encoder.gen THEN encoder
                      ELSE [gen |-> encoder.gen,
                            codes |-> [u \in DOMAIN encoder.codes \cup {type} |->
                                         IF u = type THEN job[t].slot[2] ELSE encoder.codes[u]]]
    /\ Goto(t, "extend", [job[t] EXCEPT !.want = Tail(job[t].want), !.slot = <<>>])
    /\ UNCHANGED <<swapped, incrementals, fits, alone, stranded>>

\* The rows are written in one step, with the codes as they are then; what has
\* none by then is 0.
CodesOf(types) ==
    [u \in types |-> IF u \in DOMAIN encoder.codes THEN encoder.codes[u] ELSE 0]

\* The matrix of a fit.  A full fit wants enough groups now.
Encode(t) ==
    /\ pc[t] = "extend" /\ job[t].want = <<>> /\ t \in Fitters
    /\ IF job[t].full /\ Len(job[t].data) < MinGroups
       THEN Goto(t, "idle", Idle) /\ stranded' = TRUE
       ELSE /\ Goto(t, "train", [job[t] EXCEPT !.codes = CodesOf(Range(RowTypes(job[t].data)))])
            /\ UNCHANGED stranded
    /\ UNCHANGED <<swapped, incrementals, encoder, fits, alone>>

\* The row of a prediction goes to the model that was read before.
Score(p) ==
    /\ pc[p] = "extend" /\ job[p].want = <<>> /\ p \in Predictors
    /\ Goto(p, "scored", [job[p] EXCEPT !.codes = CodesOf(Range(RowTypes(job[p].data)))])
    /\ UNCHANGED <<swapped, incrementals, encoder, fits, alone, stranded>>

Answer(p) ==
    /\ pc[p] = "scored"
    /\ Goto(p, "idle", Idle)
    /\ UNCHANGED <<swapped, incrementals, encoder, fits, alone, stranded>>

-----------------------------------------------------------------------------
(* Training, evaluation and the swap *)

Validation(groups) ==
    SubSeq(groups, Len(groups) - HeldOut(Len(groups)) + 1, Len(groups))

Labels(groups) ==
    [g \in DOMAIN groups |-> [i \in DOMAIN groups[g] |-> Label(Len(groups[g]), i)]]

\* Scores of the held-out rows, by their order.
Scorings(groups) ==
    {s \in [DOMAIN groups -> UNION {[DOMAIN groups[g] -> DOMAIN groups[g]] : g \in DOMAIN groups}] :
       \A g \in DOMAIN groups : DOMAIN s[g] = DOMAIN groups[g]}

\* What a model may be worth; 0 without anything held out.
Evaluations(groups) ==
    {SpearmanGrouped(scores, Labels(groups)) : scores \in Scorings(groups)}

\* The new model with its rho, and the rho of the model that it was tested against,
\* if it was.
Trained(j, r) ==
    [extended |-> IF j.full THEN 0 ELSE j.prev.extended + 1,
     codes |-> IF j.full THEN j.codes
               ELSE [u \in DOMAIN j.codes \cup DOMAIN j.prev.codes |->
                       IF u \in DOMAIN j.codes THEN j.codes[u] ELSE j.prev.codes[u]],
     rho |-> r,
     from |-> IF j.full \/ Validation(j.data) = <<>> THEN {} ELSE {j.prev.rho}]

\* Mutant: compared with the rho of the model that is there by now.
RejectedByLatest(j, r) == ~j.full /\ Validation(j.data) # <<>> /\ r < rho - Delta

\* An extension that loses more than Delta is given up.
Rejected(j, r) == ~j.full /\ Validation(j.data) # <<>> /\ r < j.prevRho - Delta

Train(t) ==
    /\ pc[t] = "train" /\ job[t].data # <<>>
    /\ \E r \in Evaluations(Validation(job[t].data)) :
         IF Rejected(job[t], r)
         THEN Goto(t, "count", [Idle EXCEPT !.full = job[t].full])
         ELSE Goto(t, "publish", [Idle EXCEPT !.full = job[t].full, !.new = Trained(job[t], r)])
    /\ UNCHANGED <<swapped, incrementals, encoder, fits, alone, stranded>>

\* LightGBM raises.
TrainFails(t) ==
    /\ pc[t] = "train"
    /\ Goto(t, "idle", Idle)
    /\ stranded' = (stranded \/ job[t].full)
    /\ UNCHANGED <<swapped, incrementals, encoder, fits, alone>>

Publish(t) ==
    /\ pc[t] = "publish"
    /\ model' = job[t].new /\ rho' = job[t].new.rho
    /\ Goto(t, "count", [job[t] EXCEPT !.new = NoModel])
    /\ stranded' = (stranded /\ ~job[t].full)
    /\ UNCHANGED <<incrementals, encoder, fits, alone>>

\* Another lock section: rejected fits count as well.
Count(t) ==
    /\ pc[t] = "count"
    /\ incrementals' = IF job[t].full THEN 0 ELSE incrementals + 1
    /\ Goto(t, "idle", Idle)
    /\ UNCHANGED <<swapped, encoder, fits, alone, stranded>>

Next ==
    \E t \in Threads :
        \/ Begin(t) \/ ReadPrevious(t) \/ Reset(t) \/ Ask(t) \/ Look(t) \/ Put(t)
        \/ Encode(t) \/ Score(t) \/ Answer(t)
        \/ Train(t) \/ TrainFails(t) \/ Publish(t) \/ Count(t)

Spec == Init /\ [][Next]_vars

-----------------------------------------------------------------------------
(* Properties *)

\* m did not lose more than Delta.
Tolerated(m) == \A before \in m.from : ~(m.rho < before - Delta)

\* The swap publishes a model together with its own rho, and a model that was
\* extended and tested lost at most Delta against the very model that it was
\* extended from, whatever other fits have published meanwhile.
AcceptedWithinDelta ==
    rho = model.rho /\ Tolerated(model)

\* As long as calls do not overlap, a model is extended at most FullEvery times
\* before it is fitted anew, rejected and failed fits included.
TreesAreBounded == alone /\ model # NoModel => model.extended <= FullEvery

\* What a prediction feeds to a model is coded as the model's own matrix was.
PredictionIsOfItsModel ==
    \A p \in Predictors : pc[p] = "scored" =>
        \A type \in DOMAIN job[p].codes \cap DOMAIN job[p].prev.codes :
            job[p].codes[type] = job[p].prev.codes[type]

\* It is as long as calls do not overlap, through extensions, rejections and
\* refits, unless a full fit has raised after it had dropped the codes.
SequentialPredictionsMatch == alone /\ ~stranded => PredictionIsOfItsModel

\* The metrics of scores and labels agree, and each is within its range.
Agree(scores, labels) ==
    LET r == SpearmanGrouped(scores, labels)
        k == KendallGrouped(scores, labels)
        a == PairwiseAccuracy(scores, labels)
    IN  /\ r \in -100..100 /\ k \in -100..100 /\ a \in 0..100
        /\ (\A g \in DOMAIN labels : IsInjective(labels[g])) =>
              (r = 100 <=> a = 100) /\ (r = -100 <=> a = 0) /\ (k = 100 <=> a = 100)

\* What can be held out and has metrics that agree whatever it is scored.
Comparable ==
    {v \in {Validation(Groups(d)) : d \in Datasets} :
       v # <<>> => \A scores \in Scorings(v) : Agree(scores, Labels(v))}

\* Whatever a model scores, the metrics of its evaluation agree where labels
\* differ: the correlation is perfect (or perfectly wrong) exactly if all pairs
\* are in order (or none is), so that a model which ties everything does not pass
\* for a good one.
MetricsAgree ==
    \A t \in Fitters : pc[t] = "train" => Validation(job[t].data) \in Comparable
=============================================================================
