------------------------------ MODULE TaskRanker ------------------------------
(***************************************************************************)
(* TaskRanker (ranker.py): telemetry, the automatic retrain trigger, the   *)
(* life of the estimator and the drift reference, used by several threads  *)
(* at once and restarted on the store it left behind.                      *)
(*                                                                         *)
(* A model is known by the number of records it was fitted to.  Only the   *)
(* estimator pointer and the store are locked; the counter and the drift   *)
(* detector are not, and fitting happens outside every lock.               *)
(***************************************************************************)
EXTENDS Integers, FiniteSets

CONSTANTS
    Threads,      \* threads that call record() and retrain()
    Objs,         \* identities of LambdaRankEstimator instances
    RetrainEvery, \* config.retrain_every_n
    ColdStart,    \* config.cold_start_threshold
    FullFitMin,   \* records that hold min_groups groups: fewer make a full fit raise
    FullEvery,    \* config.full_refit_every_n_incrementals
    AllowDegrade, \* config.allow_degrade
    Durable,      \* the store survives a restart (SQLite) or not (memory)
    Atomic,       \* `+= 1` cannot be interrupted (CPython with its global lock)
    MaxRecords, MaxRetrains, MaxErrors, MaxCrashes,   \* bounds
    NoObj

ASSUME RankerAssumption ==
    /\ RetrainEvery \in Nat \ {0}
    /\ ColdStart \in Nat \ {0}
    /\ FullFitMin \in Nat \ {0}
    /\ FullEvery \in Nat
    /\ AllowDegrade \in BOOLEAN /\ Durable \in BOOLEAN /\ Atomic \in BOOLEAN
    /\ MaxRecords \in Nat /\ MaxRetrains \in Nat /\ MaxErrors \in Nat /\ MaxCrashes \in Nat
    /\ NoObj \notin Objs

VARIABLES
    up,         \* the process runs
    saved,      \* number of records in the store
    counter,    \* _records_since_last_retrain
    estimator,  \* _estimator
    lr,         \* the LambdaRankEstimator instances: rows fitted to, incrementals since
    reference,  \* rows of the drift reference; 0: the dictionary is empty
    pc,         \* where each thread is
    loc,        \* its local variables
    \* history
    fresh,      \* records saved since a retrain attempt last ended
    tried,      \* records in the snapshot of the last retrain attempt that ended
    promoted,   \* LambdaRank has been published on the records of this store
    refused,    \* a constructor raised because this store holds too few groups
    referenced, \* a drift reference has been set since the process started
    unchecked,  \* a drift check was skipped although a reference had been set
    retrains, errors, crashes

data    == <<saved, counter, estimator, lr, reference>>
history == <<fresh, tried, promoted, refused, referenced, unchecked, retrains, errors, crashes>>
vars    == <<up, data, pc, loc, history>>

-----------------------------------------------------------------------------

Kinds == {"heuristic", "gradient", "lambdarank"}

Estimators == [kind : Kinds, rows : Nat, obj : Objs \cup {NoObj}]

Heuristic(n) == [kind |-> "heuristic", rows |-> n, obj |-> NoObj]
Gradient(n) == [kind |-> "gradient", rows |-> n, obj |-> NoObj]
LambdaRank(o) == [kind |-> "lambdarank", rows |-> 0, obj |-> o]

Unfit == [rows |-> 0, incr |-> 0]

Locals == [loaded : Nat, snap : Nat, base : Estimators, cand : Estimators,
           full : BOOLEAN, rejected : BOOLEAN]

NoLocals == [loaded |-> 0, snap |-> 0, base |-> Heuristic(0), cand |-> Heuristic(0),
             full |-> FALSE, rejected |-> FALSE]

RecordPCs == {"save", "count", "store", "test"}
RetrainPCs == {"snapshot", "base", "check", "choose", "fit", "swap", "clear", "fill", "reset"}

TypeOK ==
    /\ up \in BOOLEAN
    /\ saved \in Nat
    /\ counter \in Nat
    /\ estimator \in Estimators
    /\ lr \in [Objs -> [rows : Nat, incr : Nat]]
    /\ reference \in Nat
    /\ pc \in [Threads -> {"idle"} \cup RecordPCs \cup RetrainPCs]
    /\ loc \in [Threads -> Locals]
    /\ estimator.kind = "lambdarank" => estimator.obj \in Objs
    /\ \A t \in Threads : loc[t].base.kind = "lambdarank" => loc[t].base.obj \in Objs
    /\ \A t \in Threads : loc[t].cand.kind = "lambdarank" => loc[t].cand.obj \in Objs
    /\ \A t \in Threads : pc[t] = "fit" => loc[t].cand.kind = "lambdarank"
    /\ fresh \in Nat /\ tried \in Nat
    /\ promoted \in BOOLEAN /\ refused \in BOOLEAN
    /\ referenced \in BOOLEAN /\ unchecked \in BOOLEAN
    /\ retrains \in Nat /\ errors \in Nat /\ crashes \in Nat

\* The constructor on an empty store.
Init ==
    /\ up = TRUE
    /\ saved = 0
    /\ counter = 0
    /\ estimator = Heuristic(0)
    /\ lr = [o \in Objs |-> Unfit]
    /\ reference = 0
    /\ pc = [t \in Threads |-> "idle"]
    /\ loc = [t \in Threads |-> NoLocals]
    /\ fresh = 0 /\ tried = 0
    /\ promoted = FALSE /\ refused = FALSE
    /\ referenced = FALSE /\ unchecked = FALSE
    /\ retrains = 0 /\ errors = 0 /\ crashes = 0

Goto(t, label) == pc' = [pc EXCEPT ![t] = label]

Finish(t) == Goto(t, "idle") /\ loc' = [loc EXCEPT ![t] = NoLocals]

\* The rows behind an estimator; those of a LambdaRank instance change in place.
Rows(e) == IF e.kind = "lambdarank" THEN lr[e.obj].rows ELSE e.rows

-----------------------------------------------------------------------------
(* record() *)

\* The version of the current estimator is read under the lock.
Record(t) ==
    /\ up /\ pc[t] = "idle"
    /\ saved + Cardinality({u \in Threads : pc[u] = "save"}) < MaxRecords
    /\ Goto(t, "save")
    /\ UNCHANGED <<up, data, loc, history>>

\* store.save(): one atomic operation of the store.
Save(t) ==
    /\ pc[t] = "save"
    /\ saved' = saved + 1
    /\ fresh' = fresh + 1
    /\ Goto(t, "count")
    /\ UNCHANGED <<up, counter, estimator, lr, reference, loc, tried, promoted, refused,
                   referenced, unchecked, retrains, errors, crashes>>

\* Mutant: the threshold is compared with a strict inequality.
CountLate(t) ==
    /\ Atomic /\ pc[t] = "count"
    /\ counter' = counter + 1
    /\ Goto(t, IF counter + 1 > RetrainEvery THEN "snapshot" ELSE "idle")
    /\ UNCHANGED <<up, saved, estimator, lr, reference, loc, history>>

\* The unlocked counter is incremented and compared in one go ...
Count(t) ==
    /\ Atomic /\ pc[t] = "count"
    /\ counter' = counter + 1
    /\ Goto(t, IF counter + 1 >= RetrainEvery THEN "snapshot" ELSE "idle")
    /\ UNCHANGED <<up, saved, estimator, lr, reference, loc, history>>

\* ... or, where threads run in parallel, loaded, stored and loaded again.
CountLoad(t) ==
    /\ ~Atomic /\ pc[t] = "count"
    /\ loc' = [loc EXCEPT ![t].loaded = counter]
    /\ Goto(t, "store")
    /\ UNCHANGED <<up, data, history>>

CountStore(t) ==
    /\ pc[t] = "store"
    /\ counter' = loc[t].loaded + 1
    /\ Goto(t, "test")
    /\ UNCHANGED <<up, saved, estimator, lr, reference, loc, history>>

\* Mutant: the same off-by-one.
CountTestLate(t) ==
    /\ pc[t] = "test"
    /\ IF counter > RetrainEvery
         THEN Goto(t, "snapshot") /\ UNCHANGED loc
         ELSE Finish(t)
    /\ UNCHANGED <<up, data, history>>

CountTest(t) ==
    /\ pc[t] = "test"
    /\ IF counter >= RetrainEvery
         THEN Goto(t, "snapshot") /\ UNCHANGED loc
         ELSE Finish(t)
    /\ UNCHANGED <<up, data, history>>

-----------------------------------------------------------------------------
(* retrain() *)

\* Called directly, as the demo server's endpoint does.
Retrain(t) ==
    /\ up /\ pc[t] = "idle"
    /\ retrains < MaxRetrains
    /\ retrains' = retrains + 1
    /\ Goto(t, "snapshot")
    /\ UNCHANGED <<up, data, loc, fresh, tried, promoted, refused, referenced, unchecked,
                   errors, crashes>>

\* store.get_all()
Snapshot(t) ==
    /\ pc[t] = "snapshot"
    /\ loc' = [loc EXCEPT ![t].snap = saved]
    /\ Goto(t, "base")
    /\ UNCHANGED <<up, data, history>>

\* The current estimator is read under the lock.
ReadBase(t) ==
    /\ pc[t] = "base"
    /\ loc' = [loc EXCEPT ![t].base = estimator]
    /\ Goto(t, "check")
    /\ UNCHANGED <<up, data, history>>

\* Mutant: a check uses the reference up.
DriftCheckConsumes(t) ==
    /\ pc[t] = "check"
    /\ unchecked' = (unchecked \/ (reference = 0 /\ referenced))
    /\ reference' = 0
    /\ Goto(t, "choose")
    /\ UNCHANGED <<up, saved, counter, estimator, lr, loc, fresh, tried, promoted, refused,
                   referenced, retrains, errors, crashes>>

\* DriftDetector.check(); an empty reference makes it raise, and retrain()
\* takes that to mean that there never was one.
DriftCheck(t) ==
    /\ pc[t] = "check"
    /\ unchecked' = (unchecked \/ (reference = 0 /\ referenced))
    /\ Goto(t, "choose")
    /\ UNCHANGED <<up, data, loc, fresh, tried, promoted, refused, referenced,
                   retrains, errors, crashes>>

\* Mutant: only the records since the last retrain are counted.
FitHeuristicNewOnly(t) ==
    /\ pc[t] = "choose"
    /\ loc[t].snap - tried < ColdStart
    /\ loc' = [loc EXCEPT ![t].cand = Heuristic(loc[t].snap)]
    /\ Goto(t, "swap")
    /\ UNCHANGED <<up, data, history>>

\* Too few records: a new heuristic is fitted.
FitHeuristic(t) ==
    /\ pc[t] = "choose"
    /\ loc[t].snap < ColdStart
    /\ loc' = [loc EXCEPT ![t].cand = Heuristic(loc[t].snap)]
    /\ Goto(t, "swap")
    /\ UNCHANGED <<up, data, history>>

\* The current LambdaRank instance is fitted in place; it decides itself
\* between a full and an incremental fit.
ChooseSame(t) ==
    LET base == loc[t].base
        inst == lr[base.obj]
    IN  /\ pc[t] = "choose"
        /\ loc[t].snap >= ColdStart
        /\ base.kind = "lambdarank"
        /\ loc' = [loc EXCEPT ![t].cand = base,
                              ![t].full = (inst.rows = 0 \/ inst.incr >= FullEvery)]
        /\ Goto(t, "fit")
        /\ UNCHANGED <<up, data, history>>

Referenced(o) ==
    \/ estimator = LambdaRank(o)
    \/ \E t \in Threads : LambdaRank(o) \in {loc[t].base, loc[t].cand}

\* Mutant: an instance in use is initialised again.
ChooseNewReuses(t) ==
    /\ pc[t] = "choose"
    /\ loc[t].snap >= ColdStart
    /\ loc[t].base.kind # "lambdarank"
    /\ \E o \in Objs :
          /\ lr' = [lr EXCEPT ![o] = Unfit]
          /\ loc' = [loc EXCEPT ![t].cand = LambdaRank(o), ![t].full = TRUE]
    /\ Goto(t, "fit")
    /\ UNCHANGED <<up, saved, counter, estimator, reference, history>>

\* Promotion: a new LambdaRank instance, an identity nobody refers to.
ChooseNew(t) ==
    /\ pc[t] = "choose"
    /\ loc[t].snap >= ColdStart
    /\ loc[t].base.kind # "lambdarank"
    /\ \E o \in Objs :
          /\ ~Referenced(o)
          /\ lr' = [lr EXCEPT ![o] = Unfit]
          /\ loc' = [loc EXCEPT ![t].cand = LambdaRank(o), ![t].full = TRUE]
    /\ Goto(t, "fit")
    /\ UNCHANGED <<up, saved, counter, estimator, reference, history>>

\* Mutant: the number of groups is not checked.
FitFullUnchecked(t) ==
    /\ pc[t] = "fit" /\ loc[t].full
    /\ lr' = [lr EXCEPT ![loc[t].cand.obj] = [rows |-> loc[t].snap, incr |-> 0]]
    /\ Goto(t, "swap")
    /\ UNCHANGED <<up, saved, counter, estimator, reference, loc, history>>

\* A full fit ends: a new model in the instance, no incrementals since.
FitFull(t) ==
    /\ pc[t] = "fit" /\ loc[t].full
    /\ loc[t].snap >= FullFitMin
    /\ lr' = [lr EXCEPT ![loc[t].cand.obj] = [rows |-> loc[t].snap, incr |-> 0]]
    /\ Goto(t, "swap")
    /\ UNCHANGED <<up, saved, counter, estimator, reference, loc, history>>

\* An incremental fit ends and its model is accepted ...
FitIncremental(t) ==
    LET o == loc[t].cand.obj
    IN  /\ pc[t] = "fit" /\ ~loc[t].full
        /\ lr' = [lr EXCEPT ![o] = [rows |-> loc[t].snap, incr |-> lr[o].incr + 1]]
        /\ Goto(t, "swap")
        /\ UNCHANGED <<up, saved, counter, estimator, reference, loc, history>>

\* ... or rejected: the instance keeps its model and counts the attempt.
FitRejected(t) ==
    LET o == loc[t].cand.obj
    IN  /\ pc[t] = "fit" /\ ~loc[t].full
        /\ lr' = [lr EXCEPT ![o].incr = @ + 1]
        /\ loc' = [loc EXCEPT ![t].rejected = TRUE]
        /\ Goto(t, "swap")
        /\ UNCHANGED <<up, saved, counter, estimator, reference, history>>

\* Too few groups for a full fit: a gradient estimator instead, or an exception.
FitInsufficient(t) ==
    /\ pc[t] = "fit" /\ loc[t].full
    /\ loc[t].snap < FullFitMin
    /\ IF AllowDegrade
         THEN /\ loc' = [loc EXCEPT ![t].cand = Gradient(loc[t].snap)]
              /\ Goto(t, "swap")
         ELSE Goto(t, "reset") /\ UNCHANGED loc
    /\ UNCHANGED <<up, data, history>>

\* Mutant: the exception leaves retrain() without its finally branch.
FitErrorSkipsFinally(t) ==
    /\ pc[t] \in {"choose", "fit"}
    /\ errors < MaxErrors
    /\ errors' = errors + 1
    /\ Finish(t)
    /\ UNCHANGED <<up, data, fresh, tried, promoted, refused, referenced, unchecked,
                   retrains, crashes>>

\* A fit of any kind raises something else before it has changed anything: the
\* statistics of a heuristic, the training of a gradient or a LambdaRank model.
FitError(t) ==
    /\ pc[t] \in {"choose", "fit"}
    /\ errors < MaxErrors
    /\ errors' = errors + 1
    /\ Goto(t, "reset")
    /\ UNCHANGED <<up, data, loc, fresh, tried, promoted, refused, referenced, unchecked,
                   retrains, crashes>>

\* Mutant: the reference is set even if the model was rejected.
SwapAlwaysReferences(t) ==
    /\ pc[t] = "swap"
    /\ estimator' = loc[t].cand
    /\ Goto(t, IF loc[t].cand.kind = "lambdarank" THEN "clear" ELSE "reset")
    /\ promoted' = (promoted \/ loc[t].cand.kind = "lambdarank")
    /\ UNCHANGED <<up, saved, counter, lr, reference, loc, fresh, tried, refused, referenced,
                   unchecked, retrains, errors, crashes>>

\* The pointer swap, under the lock.
Swap(t) ==
    /\ pc[t] = "swap"
    /\ estimator' = loc[t].cand
    /\ Goto(t, IF loc[t].cand.kind = "lambdarank" /\ ~loc[t].rejected THEN "clear" ELSE "reset")
    /\ promoted' = (promoted \/ loc[t].cand.kind = "lambdarank")
    /\ UNCHANGED <<up, saved, counter, lr, reference, loc, fresh, tried, refused, referenced,
                   unchecked, retrains, errors, crashes>>

\* DriftDetector.set_reference() publishes an empty dictionary ...
ClearReference(t) ==
    /\ pc[t] = "clear"
    /\ reference' = 0
    /\ Goto(t, "fill")
    /\ UNCHANGED <<up, saved, counter, estimator, lr, loc, history>>

\* ... and fills it.
FillReference(t) ==
    /\ pc[t] = "fill"
    /\ reference' = loc[t].snap
    /\ referenced' = TRUE
    /\ Goto(t, "reset")
    /\ UNCHANGED <<up, saved, counter, estimator, lr, loc, fresh, tried, promoted, refused,
                   unchecked, retrains, errors, crashes>>

\* Mutant: the counter is reduced by the threshold instead of reset.
ResetSubtracts(t) ==
    /\ pc[t] = "reset"
    /\ counter' = counter - RetrainEvery
    /\ fresh' = 0
    /\ tried' = loc[t].snap
    /\ Finish(t)
    /\ UNCHANGED <<up, saved, estimator, lr, reference, promoted, refused, referenced,
                   unchecked, retrains, errors, crashes>>

\* Mutant: a retrain that did not end in a LambdaRank model leaves the counter
\* at its threshold.
ResetOnPromotionOnly(t) ==
    /\ pc[t] = "reset"
    /\ counter' = IF estimator.kind = "lambdarank" THEN 0 ELSE counter
    /\ fresh' = 0
    /\ tried' = loc[t].snap
    /\ Finish(t)
    /\ UNCHANGED <<up, saved, estimator, lr, reference, promoted, refused, referenced,
                   unchecked, retrains, errors, crashes>>

\* finally: the counter is reset, whether or not an exception is on its way.
Reset(t) ==
    /\ pc[t] = "reset"
    /\ counter' = 0
    /\ fresh' = 0
    /\ tried' = loc[t].snap
    /\ Finish(t)
    /\ UNCHANGED <<up, saved, estimator, lr, reference, promoted, refused, referenced,
                   unchecked, retrains, errors, crashes>>

-----------------------------------------------------------------------------
(* Crash, and the constructor on the store that is left *)

Crash ==
    /\ up
    /\ crashes < MaxCrashes
    /\ crashes' = crashes + 1
    /\ up' = FALSE
    /\ saved' = IF Durable THEN saved ELSE 0
    /\ counter' = 0
    /\ estimator' = Heuristic(0)
    /\ lr' = [o \in Objs |-> Unfit]
    /\ reference' = 0
    /\ pc' = [t \in Threads |-> "idle"]
    /\ loc' = [t \in Threads |-> NoLocals]
    /\ fresh' = 0 /\ tried' = 0 /\ referenced' = FALSE
    /\ promoted' = (promoted /\ Durable)
    /\ UNCHANGED <<refused, unchecked, retrains, errors>>

\* The constructor, with _warm_start() when there are records: LambdaRank, a
\* gradient estimator where it may degrade, a heuristic below the cold start.
WarmStart ==
    /\ ~up
    /\ saved >= ColdStart /\ saved < FullFitMin => AllowDegrade
    /\ up' = TRUE
    /\ IF saved >= ColdStart /\ saved >= FullFitMin
         THEN \E o \in Objs : /\ lr' = [lr EXCEPT ![o] = [rows |-> saved, incr |-> 0]]
                              /\ estimator' = LambdaRank(o)
         ELSE /\ estimator' = IF saved >= ColdStart THEN Gradient(saved) ELSE Heuristic(saved)
              /\ UNCHANGED lr
    /\ tried' = saved
    /\ promoted' = (promoted \/ estimator'.kind = "lambdarank")
    /\ UNCHANGED <<saved, counter, reference, pc, loc, fresh, refused, referenced, unchecked,
                   retrains, errors, crashes>>

\* Too few groups and no permission to degrade: the constructor raises, and
\* will at every restart on this store.
WarmStartInsufficient ==
    /\ ~up
    /\ saved >= ColdStart /\ saved < FullFitMin /\ ~AllowDegrade
    /\ refused' = TRUE
    /\ UNCHANGED <<up, data, pc, loc, fresh, tried, promoted, referenced, unchecked,
                   retrains, errors, crashes>>

\* Whatever the warm start fits may raise something else, out of the constructor.
WarmStartError ==
    /\ ~up
    /\ saved > 0
    /\ errors < MaxErrors
    /\ errors' = errors + 1
    /\ UNCHANGED <<up, data, pc, loc, fresh, tried, promoted, refused, referenced, unchecked,
                   retrains, crashes>>

-----------------------------------------------------------------------------

Work(t) ==
    \/ Save(t)
    \/ Count(t)
    \/ CountLoad(t)
    \/ CountStore(t)
    \/ CountTest(t)
    \/ Snapshot(t)
    \/ ReadBase(t)
    \/ DriftCheck(t)
    \/ FitHeuristic(t)
    \/ ChooseSame(t)
    \/ ChooseNew(t)
    \/ FitFull(t)
    \/ FitIncremental(t)
    \/ FitRejected(t)
    \/ FitInsufficient(t)
    \/ FitError(t)
    \/ Swap(t)
    \/ ClearReference(t)
    \/ FillReference(t)
    \/ Reset(t)

ThreadStep(t) == Record(t) \/ Retrain(t) \/ Work(t)

Restart == WarmStart \/ WarmStartInsufficient \/ WarmStartError

Next == (\E t \in Threads : ThreadStep(t)) \/ Crash \/ Restart

Spec == Init /\ [][Next]_vars

\* A call that started goes on.  Nobody is obliged to record or to retrain, nor
\* to start again a process that died.
Fairness == \A t \in Threads : WF_vars(Work(t))

FairSpec == Spec /\ Fairness

-----------------------------------------------------------------------------
(* Properties *)

AtRest == up /\ \A t \in Threads : pc[t] = "idle"

\* The counter stays at the threshold only while somebody retrains: the
\* trigger cannot be missed, so retraining does not stall silently.
ThresholdIsServed ==
    counter >= RetrainEvery => \E t \in Threads : pc[t] \in RetrainPCs \cup {"test"}

\* ... and it leaves the threshold in the end, even if every fit raises.
ThresholdIsLeft == counter >= RetrainEvery ~> counter < RetrainEvery

\* Nobody can predict with a LambdaRank instance that has no model yet.
PublishedIsFit == estimator.kind = "lambdarank" => lr[estimator.obj].rows > 0

\* A heuristic or gradient estimator never replaces a LambdaRank one.
NeverDemoted ==
    [][up /\ up' /\ estimator.kind = "lambdarank" => estimator'.kind = "lambdarank"]_vars

\* When no call is in progress fewer than retrain_every_n records have been
\* saved that the last retrain attempt did not look at.
RetrainedInTime == AtRest => saved - tried < RetrainEvery

\* When no call is in progress the drift reference, once set, is what the
\* LambdaRank model in use was fitted to.
ReferenceFollowsModel ==
    AtRest /\ reference # 0 => estimator.kind = "lambdarank" /\ reference = Rows(estimator)

\* Once there is a reference no retrain goes without its drift check.
DriftIsChecked == ~unchecked

\* An automatic retrain starts only after retrain_every_n records since the
\* last attempt ended, also if that one raised: no hot loop over the same data.
StartsAreSpaced ==
    \A t \in Threads :
       pc[t] \in {"count", "test"} /\ pc'[t] = "snapshot" => fresh >= RetrainEvery

AttemptsAreSpaced == [][StartsAreSpaced]_vars

\* A promotion survives restarts: on a store whose records LambdaRank has once
\* been published on, no constructor refuses for want of groups, and every one
\* that returns does so with LambdaRank, whatever retrains raced, degraded,
\* raised or demoted the estimator before the crash.
RestartResumes ==
    ~up /\ promoted => ~refused' /\ (up' => estimator'.kind = "lambdarank")

PromotionSurvives == [][RestartResumes]_vars
=============================================================================
