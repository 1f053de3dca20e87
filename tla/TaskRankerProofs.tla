--------------------------- MODULE TaskRankerProofs ---------------------------
(***************************************************************************)
(* Proofs about TaskRanker, for any number of threads, with or without an  *)
(* atomic increment of the counter, and across crashes and restarts.       *)
(***************************************************************************)
EXTENDS TaskRanker, TLAPS

-----------------------------------------------------------------------------
(* The records a ranker is made of *)

\* Every constructor of an estimator yields an estimator of its kind.
LEMMA EstimatorsTyped ==
    /\ \A n \in Nat : Heuristic(n) \in Estimators /\ Heuristic(n).kind = "heuristic"
    /\ \A n \in Nat : Gradient(n) \in Estimators /\ Gradient(n).kind = "gradient"
    /\ \A o \in Objs : /\ LambdaRank(o) \in Estimators
                       /\ LambdaRank(o).kind = "lambdarank"
                       /\ LambdaRank(o).obj = o
BY DEF Heuristic, Gradient, LambdaRank, Estimators, Kinds

\* The empty locals are locals, and refer to no LambdaRank instance.
LEMMA NoLocalsTyped ==
    NoLocals \in Locals /\ NoLocals.base.kind # "lambdarank" /\ NoLocals.cand.kind # "lambdarank"
BY EstimatorsTyped DEF NoLocals, Locals

\* An assignment to a local variable keeps the locals typed, and the others alone.
LEMMA AssignLoaded ==
    \A l \in Locals, n \in Nat : /\ [l EXCEPT !.loaded = n] \in Locals
                                 /\ [l EXCEPT !.loaded = n].base = l.base
                                 /\ [l EXCEPT !.loaded = n].cand = l.cand
BY DEF Locals

LEMMA AssignSnap ==
    \A l \in Locals, n \in Nat : /\ [l EXCEPT !.snap = n] \in Locals
                                 /\ [l EXCEPT !.snap = n].base = l.base
                                 /\ [l EXCEPT !.snap = n].cand = l.cand
BY DEF Locals

LEMMA AssignBase ==
    \A l \in Locals, e \in Estimators : /\ [l EXCEPT !.base = e] \in Locals
                                        /\ [l EXCEPT !.base = e].base = e
                                        /\ [l EXCEPT !.base = e].cand = l.cand
BY DEF Locals

LEMMA AssignCand ==
    \A l \in Locals, e \in Estimators : /\ [l EXCEPT !.cand = e] \in Locals
                                        /\ [l EXCEPT !.cand = e].base = l.base
                                        /\ [l EXCEPT !.cand = e].cand = e
BY DEF Locals

LEMMA AssignRejected ==
    \A l \in Locals, b \in BOOLEAN : /\ [l EXCEPT !.rejected = b] \in Locals
                                     /\ [l EXCEPT !.rejected = b].base = l.base
                                     /\ [l EXCEPT !.rejected = b].cand = l.cand
BY DEF Locals

-----------------------------------------------------------------------------
(* Type correctness *)

LEMMA InitTypeOK == Init => TypeOK
<1> SUFFICES ASSUME Init PROVE TypeOK
  OBVIOUS
<1>1. lr \in [Objs -> [rows : Nat, incr : Nat]]
  BY DEF Init, Unfit
<1>2. estimator \in Estimators /\ estimator.kind # "lambdarank"
  BY EstimatorsTyped DEF Init
<1>3. loc \in [Threads -> Locals] /\ \A t \in Threads : loc[t] = NoLocals
  BY NoLocalsTyped DEF Init
<1> QED
  BY <1>1, <1>2, <1>3, NoLocalsTyped DEF Init, TypeOK

LEMMA RecordTypeOK ==
    ASSUME TypeOK, NEW t \in Threads,
           Record(t) \/ Save(t) \/ Count(t) \/ CountLoad(t) \/ CountStore(t) \/ CountTest(t)
    PROVE  TypeOK'
<1> USE DEF TypeOK, Goto, RecordPCs, RetrainPCs, data, history
<1>1. CASE Record(t)
  BY <1>1 DEF Record
<1>2. CASE Save(t)
  BY <1>2 DEF Save
<1>3. CASE Count(t)
  BY <1>3 DEF Count
<1>4. CASE CountLoad(t)
  <2>1. loc' = [loc EXCEPT ![t] = [loc[t] EXCEPT !.loaded = counter]]
    BY <1>4 DEF CountLoad
  <2>2. loc' \in [Threads -> Locals] /\ \A u \in Threads :
           loc'[u].base = loc[u].base /\ loc'[u].cand = loc[u].cand
    BY <2>1, AssignLoaded
  <2> QED
    BY <1>4, <2>2 DEF CountLoad
<1>5. CASE CountStore(t)
  <2>1. counter' \in Nat
    BY <1>5 DEF CountStore, Locals
  <2> QED
    BY <1>5, <2>1 DEF CountStore
<1>6. CASE CountTest(t)
  BY <1>6, NoLocalsTyped DEF CountTest, Finish
<1> QED
  BY <1>1, <1>2, <1>3, <1>4, <1>5, <1>6

LEMMA RetrainTypeOK ==
    ASSUME TypeOK, NEW t \in Threads,
           \/ Retrain(t) \/ Snapshot(t) \/ ReadBase(t) \/ DriftCheck(t) \/ FitHeuristic(t)
           \/ ChooseSame(t) \/ ChooseNew(t) \/ FitError(t)
    PROVE  TypeOK'
<1> USE DEF TypeOK, Goto, RecordPCs, RetrainPCs, data, history
<1>1. CASE Retrain(t)
  BY <1>1 DEF Retrain
<1>2. CASE Snapshot(t)
  <2>1. loc' = [loc EXCEPT ![t] = [loc[t] EXCEPT !.snap = saved]]
    BY <1>2 DEF Snapshot
  <2>2. loc' \in [Threads -> Locals] /\ \A u \in Threads :
           loc'[u].base = loc[u].base /\ loc'[u].cand = loc[u].cand
    BY <2>1, AssignSnap
  <2> QED
    BY <1>2, <2>2 DEF Snapshot
<1>3. CASE ReadBase(t)
  <2>1. loc' = [loc EXCEPT ![t] = [loc[t] EXCEPT !.base = estimator]]
    BY <1>3 DEF ReadBase
  <2>2. loc' \in [Threads -> Locals] /\ \A u \in Threads :
           loc'[u].base \in {loc[u].base, estimator} /\ loc'[u].cand = loc[u].cand
    BY <2>1, AssignBase
  <2> QED
    BY <1>3, <2>2 DEF ReadBase
<1>4. CASE DriftCheck(t)
  BY <1>4 DEF DriftCheck
<1>5. CASE FitHeuristic(t)
  <2>1. loc[t].snap \in Nat
    BY DEF Locals
  <2>2. loc' = [loc EXCEPT ![t] = [loc[t] EXCEPT !.cand = Heuristic(loc[t].snap)]]
    BY <1>5 DEF FitHeuristic
  <2>3. loc' \in [Threads -> Locals] /\ \A u \in Threads :
           /\ loc'[u].base = loc[u].base
           /\ loc'[u].cand = IF u = t THEN Heuristic(loc[t].snap) ELSE loc[u].cand
    BY <2>1, <2>2, AssignCand, EstimatorsTyped
  <2> QED
    BY <1>5, <2>1, <2>3, EstimatorsTyped DEF FitHeuristic
<1>6. CASE ChooseSame(t)
  <2> DEFINE full == lr[loc[t].base.obj].rows = 0 \/ lr[loc[t].base.obj].incr >= FullEvery
  <2>1. loc[t].base \in Estimators /\ loc[t].base.kind = "lambdarank"
    BY <1>6 DEF ChooseSame, Locals
  <2> DEFINE new == [loc[t] EXCEPT !.cand = loc[t].base, !.full = full]
  <2>2. loc' = [loc EXCEPT ![t] = new]
    BY <1>6 DEF ChooseSame
  <2>3. new \in Locals /\ new.base = loc[t].base /\ new.cand = loc[t].base
    BY <2>1 DEF Locals
  <2> HIDE DEF new
  <2>4. loc' \in [Threads -> Locals] /\ \A u \in Threads :
           /\ loc'[u].base = loc[u].base
           /\ loc'[u].cand = IF u = t THEN loc[t].base ELSE loc[u].cand
    BY <2>2, <2>3
  <2>5. /\ UNCHANGED <<up, saved, counter, estimator, lr, reference, history>>
        /\ pc' = [pc EXCEPT ![t] = "fit"]
    BY <1>6 DEF ChooseSame
  <2>6. \A u \in Threads : /\ loc'[u].base.kind = "lambdarank" => loc'[u].base.obj \in Objs
                           /\ loc'[u].cand.kind = "lambdarank" => loc'[u].cand.obj \in Objs
                           /\ pc'[u] = "fit" => loc'[u].cand.kind = "lambdarank"
    BY <2>1, <2>4, <2>5
  <2> QED
    BY <2>4, <2>5, <2>6
<1>7. CASE ChooseNew(t)
  <2> DEFINE new(o) == [loc[t] EXCEPT !.cand = LambdaRank(o), !.full = TRUE]
  <2>1. PICK o \in Objs : lr' = [lr EXCEPT ![o] = Unfit] /\ loc' = [loc EXCEPT ![t] = new(o)]
    BY <1>7 DEF ChooseNew
  <2>2. lr' \in [Objs -> [rows : Nat, incr : Nat]]
    BY <2>1 DEF Unfit
  <2> DEFINE e == LambdaRank(o)
  <2>3. loc[t] \in Locals /\ e \in Estimators /\ e.kind = "lambdarank" /\ e.obj \in Objs
    BY EstimatorsTyped
  <2> HIDE DEF e
  <2>4. [loc[t] EXCEPT !.cand = e, !.full = TRUE] \in Locals
    BY <2>3 DEF Locals
  <2>5. new(o) \in Locals /\ new(o).base = loc[t].base /\ new(o).cand = e
    BY <2>4 DEF e, Locals
  <2> HIDE DEF new
  <2>6. loc' \in [Threads -> Locals] /\ \A u \in Threads :
           /\ loc'[u].base = loc[u].base
           /\ loc'[u].cand = IF u = t THEN e ELSE loc[u].cand
    BY <2>1, <2>5
  <2>7. /\ UNCHANGED <<up, saved, counter, estimator, reference, history>>
        /\ pc' = [pc EXCEPT ![t] = "fit"]
    BY <1>7 DEF ChooseNew
  <2>8. \A u \in Threads : /\ loc'[u].cand.kind = "lambdarank" => loc'[u].cand.obj \in Objs
                           /\ pc'[u] = "fit" => loc'[u].cand.kind = "lambdarank"
    BY <2>3, <2>6, <2>7
  <2> QED
    BY <2>2, <2>6, <2>7, <2>8
<1>8. CASE FitError(t)
  BY <1>8 DEF FitError
<1> QED
  BY <1>1, <1>2, <1>3, <1>4, <1>5, <1>6, <1>7, <1>8

LEMMA FitTypeOK ==
    ASSUME TypeOK, NEW t \in Threads,
           \/ FitFull(t) \/ FitIncremental(t) \/ FitRejected(t) \/ FitInsufficient(t)
    PROVE  TypeOK'
<1> USE DEF TypeOK, Goto, RecordPCs, RetrainPCs, data, history
<1>0. loc[t].snap \in Nat /\ loc[t].cand.obj \in Objs
  BY DEF FitFull, FitIncremental, FitRejected, FitInsufficient, Locals
<1>1. CASE FitFull(t)
  <2>1. lr' \in [Objs -> [rows : Nat, incr : Nat]]
    BY <1>0, <1>1 DEF FitFull
  <2> QED
    BY <1>1, <2>1 DEF FitFull
<1>2. CASE FitIncremental(t)
  <2>1. lr' \in [Objs -> [rows : Nat, incr : Nat]]
    BY <1>0, <1>2 DEF FitIncremental
  <2> QED
    BY <1>2, <2>1 DEF FitIncremental
<1>3. CASE FitRejected(t)
  <2> DEFINE o == loc[t].cand.obj
  <2>1. lr' = [lr EXCEPT ![o] = [lr[o] EXCEPT !.incr = lr[o].incr + 1]]
    BY <1>3 DEF FitRejected
  <2>2. [lr[o] EXCEPT !.incr = lr[o].incr + 1] \in [rows : Nat, incr : Nat]
    BY <1>0
  <2>3. lr' \in [Objs -> [rows : Nat, incr : Nat]]
    BY <2>1, <2>2
  <2>4. loc' = [loc EXCEPT ![t] = [loc[t] EXCEPT !.rejected = TRUE]]
    BY <1>3 DEF FitRejected
  <2>5. loc' \in [Threads -> Locals] /\ \A u \in Threads :
           loc'[u].base = loc[u].base /\ loc'[u].cand = loc[u].cand
    BY <2>4, AssignRejected
  <2> QED
    BY <1>3, <2>3, <2>5 DEF FitRejected
<1>4. CASE FitInsufficient(t)
  <2>1. CASE AllowDegrade
    <3>1. loc' = [loc EXCEPT ![t] = [loc[t] EXCEPT !.cand = Gradient(loc[t].snap)]]
      BY <1>4, <2>1 DEF FitInsufficient
    <3>2. loc' \in [Threads -> Locals] /\ \A u \in Threads :
             /\ loc'[u].base = loc[u].base
             /\ loc'[u].cand = IF u = t THEN Gradient(loc[t].snap) ELSE loc[u].cand
      BY <1>0, <3>1, AssignCand, EstimatorsTyped
    <3>3. Gradient(loc[t].snap).kind # "lambdarank"
      BY <1>0, EstimatorsTyped
    <3> QED
      BY <1>4, <2>1, <3>2, <3>3 DEF FitInsufficient
  <2>2. CASE ~AllowDegrade
    BY <1>4, <2>2 DEF FitInsufficient
  <2> QED
    BY <2>1, <2>2
<1> QED
  BY <1>1, <1>2, <1>3, <1>4

LEMMA PublishTypeOK ==
    ASSUME TypeOK, NEW t \in Threads,
           Swap(t) \/ ClearReference(t) \/ FillReference(t) \/ Reset(t)
    PROVE  TypeOK'
<1> USE DEF TypeOK, Goto, RecordPCs, RetrainPCs, data, history
<1>0. loc[t].snap \in Nat /\ loc[t].cand \in Estimators
  BY DEF Locals
<1>1. CASE Swap(t)
  BY <1>0, <1>1 DEF Swap
<1>2. CASE ClearReference(t)
  BY <1>2 DEF ClearReference
<1>3. CASE FillReference(t)
  BY <1>0, <1>3 DEF FillReference
<1>4. CASE Reset(t)
  BY <1>0, <1>4, NoLocalsTyped DEF Reset, Finish
<1> QED
  BY <1>1, <1>2, <1>3, <1>4

LEMMA ProcessTypeOK ==
    ASSUME TypeOK, Crash \/ Restart
    PROVE  TypeOK'
<1> USE RankerAssumption DEF TypeOK, RecordPCs, RetrainPCs
<1>1. CASE Crash
  <2>1. lr' \in [Objs -> [rows : Nat, incr : Nat]]
    BY <1>1 DEF Crash, Unfit
  <2>2. estimator' \in Estimators /\ estimator'.kind # "lambdarank"
    BY <1>1, EstimatorsTyped DEF Crash
  <2>3. loc' \in [Threads -> Locals] /\ \A t \in Threads : loc'[t] = NoLocals
    BY <1>1, NoLocalsTyped DEF Crash
  <2>4. /\ saved' \in Nat /\ counter' \in Nat /\ reference' \in Nat
        /\ fresh' \in Nat /\ tried' \in Nat
        /\ retrains' \in Nat /\ errors' \in Nat /\ crashes' \in Nat
    BY <1>1 DEF Crash
  <2>5. /\ up' \in BOOLEAN /\ referenced' \in BOOLEAN /\ unchecked' \in BOOLEAN
        /\ promoted' \in BOOLEAN /\ refused' \in BOOLEAN
    BY <1>1 DEF Crash
  <2>6. /\ pc' \in [Threads -> {"idle"} \cup RecordPCs \cup RetrainPCs]
        /\ \A t \in Threads : pc'[t] = "idle"
    BY <1>1 DEF Crash
  <2>7. \A t \in Threads : /\ loc'[t].base.kind # "lambdarank" /\ loc'[t].cand.kind # "lambdarank"
                           /\ pc'[t] # "fit"
    BY <2>3, <2>6, NoLocalsTyped
  <2> QED
    BY <2>1, <2>2, <2>3, <2>4, <2>5, <2>6, <2>7
<1>2. CASE WarmStart
  <2>1. CASE saved >= ColdStart /\ saved >= FullFitMin
    <3>1. PICK o \in Objs : /\ lr' = [lr EXCEPT ![o] = [rows |-> saved, incr |-> 0]]
                            /\ estimator' = LambdaRank(o)
      BY <1>2, <2>1 DEF WarmStart
    <3>2. lr' \in [Objs -> [rows : Nat, incr : Nat]]
      BY <3>1
    <3> QED
      BY <1>2, <3>1, <3>2, EstimatorsTyped DEF WarmStart
  <2>2. CASE ~(saved >= ColdStart /\ saved >= FullFitMin)
    <3>1. estimator' \in {Gradient(saved), Heuristic(saved)} /\ UNCHANGED lr
      BY <1>2, <2>2 DEF WarmStart
    <3> QED
      BY <1>2, <3>1, EstimatorsTyped DEF WarmStart
  <2> QED
    BY <2>1, <2>2
<1>3. CASE WarmStartInsufficient
  BY <1>3 DEF WarmStartInsufficient, data
<1>4. CASE WarmStartError
  BY <1>4 DEF WarmStartError, data
<1> QED
  BY <1>1, <1>2, <1>3, <1>4 DEF Restart

LEMMA StutterTypeOK == TypeOK /\ UNCHANGED vars => TypeOK'
BY DEF TypeOK, vars, data, history

LEMMA NextTypeOK == TypeOK /\ [Next]_vars => TypeOK'
<1> SUFFICES ASSUME TypeOK, [Next]_vars PROVE TypeOK'
  OBVIOUS
<1>1. ASSUME NEW t \in Threads, ThreadStep(t) PROVE TypeOK'
  BY <1>1, RecordTypeOK, RetrainTypeOK, FitTypeOK, PublishTypeOK DEF ThreadStep, Work
<1> QED
  BY <1>1, ProcessTypeOK, StutterTypeOK DEF Next

\* The state of the ranker and of its threads is well typed.
THEOREM TypeCorrect == Spec => []TypeOK
BY InitTypeOK, NextTypeOK, PTL DEF Spec

-----------------------------------------------------------------------------
(* The threshold is served *)

\* A step that leaves the counter alone and does not take a thread out of
\* retrain() keeps the threshold served.
LEMMA StaysServed ==
    ASSUME TypeOK, ThresholdIsServed, NEW t \in Threads, NEW label,
           UNCHANGED <<up, counter>>, pc' = [pc EXCEPT ![t] = label],
           pc[t] \in RetrainPCs \cup {"test"} => label \in RetrainPCs \cup {"test"}
    PROVE  ThresholdIsServed'
BY DEF TypeOK, ThresholdIsServed

LEMMA ThreadStepServed ==
    ASSUME TypeOK, ThresholdIsServed, NEW t \in Threads, ThreadStep(t)
    PROVE  ThresholdIsServed'
<1>1. CASE Count(t)
  <2>1. counter' = counter + 1 /\ UNCHANGED up
    BY <1>1 DEF Count
  <2>2. counter + 1 >= RetrainEvery => pc'[t] = "snapshot"
    BY <1>1 DEF Count, Goto, TypeOK
  <2> QED
    BY <2>1, <2>2 DEF ThresholdIsServed, RetrainPCs
<1>2. CASE CountStore(t)
  <2>1. pc'[t] = "test"
    BY <1>2 DEF CountStore, Goto, TypeOK
  <2> QED
    BY <2>1 DEF ThresholdIsServed
<1>3. CASE CountTest(t)
  <2>1. UNCHANGED <<up, counter>>
    BY <1>3 DEF CountTest, data
  <2>2. counter >= RetrainEvery => pc'[t] = "snapshot"
    BY <1>3 DEF CountTest, Goto, TypeOK
  <2> QED
    BY <2>1, <2>2 DEF ThresholdIsServed, RetrainPCs
<1>4. CASE Reset(t)
  BY <1>4, RankerAssumption DEF Reset, ThresholdIsServed
<1>5. CASE FitInsufficient(t)
  <2>1. UNCHANGED <<up, counter>>
    BY <1>5 DEF FitInsufficient, data
  <2>2. pc' = [pc EXCEPT ![t] = "swap"] \/ pc' = [pc EXCEPT ![t] = "reset"]
    BY <1>5 DEF FitInsufficient, Goto
  <2> QED
    BY <2>1, <2>2, StaysServed DEF RetrainPCs
<1>6. CASE Swap(t)
  <2>1. UNCHANGED <<up, counter>>
    BY <1>6 DEF Swap
  <2>2. pc' = [pc EXCEPT ![t] = "clear"] \/ pc' = [pc EXCEPT ![t] = "reset"]
    BY <1>6 DEF Swap, Goto
  <2> QED
    BY <2>1, <2>2, StaysServed DEF RetrainPCs
<1>7. CASE Record(t) \/ Save(t) \/ CountLoad(t) \/ Retrain(t) \/ Snapshot(t) \/ ReadBase(t)
  BY <1>7, StaysServed
     DEF Record, Save, CountLoad, Retrain, Snapshot, ReadBase, Goto, data, RetrainPCs
<1>8. CASE DriftCheck(t) \/ FitHeuristic(t) \/ ChooseSame(t) \/ ChooseNew(t)
  BY <1>8, StaysServed
     DEF DriftCheck, FitHeuristic, ChooseSame, ChooseNew, Goto, data, RetrainPCs
<1>9. CASE FitFull(t) \/ FitIncremental(t) \/ FitRejected(t) \/ FitError(t)
  BY <1>9, StaysServed
     DEF FitFull, FitIncremental, FitRejected, FitError, Goto, data, RetrainPCs
<1>10. CASE ClearReference(t) \/ FillReference(t)
  BY <1>10, StaysServed DEF ClearReference, FillReference, Goto, data, RetrainPCs
<1> QED
  BY <1>1, <1>2, <1>3, <1>4, <1>5, <1>6, <1>7, <1>8, <1>9, <1>10 DEF ThreadStep, Work

LEMMA NextServed == TypeOK /\ ThresholdIsServed /\ [Next]_vars => ThresholdIsServed'
<1> SUFFICES ASSUME TypeOK, ThresholdIsServed, [Next]_vars PROVE ThresholdIsServed'
  OBVIOUS
<1>1. CASE \E t \in Threads : ThreadStep(t)
  BY <1>1, ThreadStepServed
<1>2. CASE Crash
  BY <1>2, RankerAssumption DEF Crash, ThresholdIsServed
<1>3. CASE Restart
  BY <1>3 DEF Restart, WarmStart, WarmStartInsufficient, WarmStartError, data, ThresholdIsServed
<1>4. CASE UNCHANGED vars
  BY <1>4 DEF vars, data, ThresholdIsServed
<1> QED
  BY <1>1, <1>2, <1>3, <1>4 DEF Next

\* While the counter is at the threshold somebody retrains: neither a lost
\* update nor a fit that raises can make the trigger pass unnoticed.
THEOREM TriggerIsNeverMissed == Spec => []ThresholdIsServed
<1>1. Init => ThresholdIsServed
  BY RankerAssumption DEF Init, ThresholdIsServed
<1> QED
  BY <1>1, NextServed, TypeCorrect, PTL DEF Spec

-----------------------------------------------------------------------------
(* What is published has a model *)

\* What PublishedIsFit leaves out: the references threads hold while they
\* retrain, and that an instance being initialised is one nobody holds.
Whole(e) == e.kind = "lambdarank" => e = LambdaRank(e.obj) /\ e.obj \in Objs

HasModel(e) == e.kind = "lambdarank" => lr[e.obj].rows > 0

ThreadFit(t) ==
    /\ Whole(loc[t].base) /\ Whole(loc[t].cand)
    /\ HasModel(loc[t].base)
    /\ pc[t] = "fit" => loc[t].snap > 0
    /\ pc[t] = "fit" /\ ~loc[t].full => HasModel(loc[t].cand)
    /\ pc[t] = "swap" => HasModel(loc[t].cand)

FitInv ==
    /\ Whole(estimator) /\ HasModel(estimator)
    /\ \A t \in Threads : ThreadFit(t)

\* A step of t that takes no model from an instance in use disturbs no other thread.
LEMMA OthersFit ==
    ASSUME FitInv, NEW t \in Threads,
           \A o \in Objs : \/ lr[o].rows > 0 => lr'[o].rows > 0
                           \/ ~Referenced(o),
           \A u \in Threads \ {t} : loc'[u] = loc[u] /\ pc'[u] = pc[u],
           Whole(estimator)', HasModel(estimator)', ThreadFit(t)'
    PROVE  FitInv'
<1>1. ASSUME NEW u \in Threads \ {t}, NEW e \in {loc[u].base, loc[u].cand}, Whole(e), HasModel(e)
      PROVE  HasModel(e)'
  <2>1. e.kind = "lambdarank" => Referenced(e.obj)
    BY <1>1 DEF Whole, Referenced
  <2> QED
    BY <1>1, <2>1 DEF Whole, HasModel
<1>2. ASSUME NEW u \in Threads \ {t} PROVE ThreadFit(u)'
  <2>1. ThreadFit(u)
    BY DEF FitInv
  <2>2. HasModel(loc[u].base)'
    BY <1>1, <2>1 DEF ThreadFit, HasModel
  <2>3. HasModel(loc[u].cand) => HasModel(loc[u].cand)'
    BY <1>1, <2>1 DEF ThreadFit, HasModel
  <2> QED
    BY <2>1, <2>2, <2>3 DEF ThreadFit, Whole
<1> QED
  BY <1>2 DEF FitInv

LEMMA QuietFit ==
    ASSUME FitInv, NEW t \in Threads, UNCHANGED <<lr, estimator>>,
           \A u \in Threads \ {t} : loc'[u] = loc[u] /\ pc'[u] = pc[u],
           ThreadFit(t)'
    PROVE  FitInv'
<1>1. Whole(estimator)' /\ HasModel(estimator)'
  BY DEF FitInv, Whole, HasModel
<1> QED
  BY <1>1, OthersFit

\* Steps that touch neither the instances nor the estimator, and no reference.
LEMMA CountersFit ==
    ASSUME TypeOK, FitInv, NEW t \in Threads,
           \/ Record(t) \/ Save(t) \/ Count(t) \/ CountLoad(t) \/ CountStore(t) \/ CountTest(t)
           \/ Retrain(t) \/ Snapshot(t) \/ DriftCheck(t) \/ FitError(t)
           \/ ClearReference(t) \/ FillReference(t) \/ Reset(t)
    PROVE  FitInv'
<1>1. UNCHANGED <<lr, estimator>>
  BY DEF Record, Save, Count, CountLoad, CountStore, CountTest, Retrain, Snapshot, DriftCheck,
         FitError, ClearReference, FillReference, Reset, data
<1>2. PICK label \in {"idle", "save", "count", "store", "test", "snapshot", "base", "choose",
                      "reset", "fill"} : pc' = [pc EXCEPT ![t] = label]
  BY DEF Record, Save, Count, CountLoad, CountStore, CountTest, Retrain, Snapshot, DriftCheck,
         FitError, ClearReference, FillReference, Reset, Goto, Finish
<1>3. PICK new \in Locals : /\ loc' = [loc EXCEPT ![t] = new]
                            /\ \/ new = NoLocals
                               \/ new.base = loc[t].base /\ new.cand = loc[t].cand
  <2>1. CASE Record(t) \/ Save(t) \/ Count(t) \/ CountStore(t) \/ Retrain(t) \/ DriftCheck(t)
             \/ FitError(t) \/ ClearReference(t) \/ FillReference(t)
    <3>1. loc' = [loc EXCEPT ![t] = loc[t]] /\ loc[t] \in Locals
      BY <2>1 DEF Record, Save, Count, CountStore, Retrain, DriftCheck, FitError,
                  ClearReference, FillReference, TypeOK
    <3> QED
      BY <3>1
  <2>2. CASE CountLoad(t)
    BY <2>2, AssignLoaded DEF CountLoad, TypeOK
  <2>3. CASE Snapshot(t)
    BY <2>3, AssignSnap DEF Snapshot, TypeOK
  <2>4. CASE CountTest(t)
    <3>1. loc' = [loc EXCEPT ![t] = loc[t]] \/ loc' = [loc EXCEPT ![t] = NoLocals]
      BY <2>4 DEF CountTest, Finish, TypeOK
    <3>2. loc[t] \in Locals
      BY DEF TypeOK
    <3> QED
      BY <3>1, <3>2, NoLocalsTyped
  <2>5. CASE Reset(t)
    BY <2>5, NoLocalsTyped DEF Reset, Finish
  <2> QED
    BY <2>1, <2>2, <2>3, <2>4, <2>5
<1>4. /\ loc'[t] = new /\ pc'[t] = label
      /\ \A u \in Threads \ {t} : loc'[u] = loc[u] /\ pc'[u] = pc[u]
  BY <1>2, <1>3 DEF TypeOK
<1>5. \A e : e.kind # "lambdarank" => Whole(e) /\ HasModel(e)'
  BY DEF Whole, HasModel
<1>6. ThreadFit(t)'
  <2>1. Whole(new.base) /\ Whole(new.cand) /\ HasModel(new.base)'
    <3>1. CASE new = NoLocals
      BY <3>1, <1>5, NoLocalsTyped DEF Whole, HasModel
    <3>2. CASE new.base = loc[t].base /\ new.cand = loc[t].cand
      BY <3>2, <1>1 DEF FitInv, ThreadFit, HasModel
    <3> QED
      BY <1>3, <3>1, <3>2
  <2> QED
    BY <1>1, <1>4, <2>1 DEF ThreadFit, Whole, HasModel
<1> QED
  BY <1>1, <1>4, <1>6, QuietFit

LEMMA ChooseFit ==
    ASSUME TypeOK, FitInv, NEW t \in Threads,
           ReadBase(t) \/ FitHeuristic(t) \/ ChooseSame(t) \/ ChooseNew(t)
    PROVE  FitInv'
<1>1. loc[t] \in Locals /\ loc[t].snap \in Nat /\ loc[t].base \in Estimators
  BY DEF TypeOK, Locals
<1>2. \A u \in Threads \ {t} : loc'[u] = loc[u] /\ pc'[u] = pc[u]
  BY DEF ReadBase, FitHeuristic, ChooseSame, ChooseNew, Goto, TypeOK
<1>3. CASE ReadBase(t)
  <2>1. loc'[t] = [loc[t] EXCEPT !.base = estimator] /\ pc'[t] = "check"
    BY <1>3 DEF ReadBase, Goto, TypeOK
  <2>2. loc'[t].base = estimator /\ loc'[t].cand = loc[t].cand
    BY <1>1, <2>1, AssignBase DEF TypeOK
  <2>3. UNCHANGED <<lr, estimator>>
    BY <1>3 DEF ReadBase, data
  <2>4. pc'[t] = "check"
    BY <2>1
  <2>5. ThreadFit(t)'
    BY <2>2, <2>3, <2>4 DEF FitInv, ThreadFit, Whole, HasModel
  <2> QED
    BY <1>2, <2>3, <2>5, QuietFit
<1>4. CASE FitHeuristic(t)
  <2>1. loc'[t] = [loc[t] EXCEPT !.cand = Heuristic(loc[t].snap)] /\ pc'[t] = "swap"
    BY <1>4 DEF FitHeuristic, Goto, TypeOK
  <2>2. loc'[t].base = loc[t].base /\ loc'[t].cand.kind = "heuristic"
    BY <1>1, <2>1, AssignCand, EstimatorsTyped
  <2>3. UNCHANGED <<lr, estimator>>
    BY <1>4 DEF FitHeuristic, data
  <2>4. pc'[t] = "swap"
    BY <2>1
  <2>5. ThreadFit(t)'
    BY <2>2, <2>3, <2>4 DEF FitInv, ThreadFit, Whole, HasModel
  <2> QED
    BY <1>2, <2>3, <2>5, QuietFit
<1>5. CASE ChooseSame(t)
  <2> DEFINE full == lr[loc[t].base.obj].rows = 0 \/ lr[loc[t].base.obj].incr >= FullEvery
             new == [loc[t] EXCEPT !.cand = loc[t].base, !.full = full]
  <2>1. loc'[t] = new /\ pc'[t] = "fit" /\ UNCHANGED <<lr, estimator>>
    BY <1>5 DEF ChooseSame, Goto, TypeOK, data
  <2>2. new.base = loc[t].base /\ new.cand = loc[t].base /\ new.snap = loc[t].snap
    BY <1>1 DEF Locals
  <2>3. loc[t].snap > 0
    BY <1>1, <1>5, RankerAssumption DEF ChooseSame
  <2> HIDE DEF new
  <2>4. ThreadFit(t)'
    BY <2>1, <2>2, <2>3 DEF FitInv, ThreadFit, Whole, HasModel
  <2> QED
    BY <1>2, <2>1, <2>4, QuietFit
<1>6. CASE ChooseNew(t)
  <2> DEFINE new(o) == [loc[t] EXCEPT !.cand = LambdaRank(o), !.full = TRUE]
  <2>1. PICK o \in Objs : /\ ~Referenced(o)
                          /\ lr' = [lr EXCEPT ![o] = Unfit]
                          /\ loc' = [loc EXCEPT ![t] = new(o)]
    BY <1>6 DEF ChooseNew
  <2>2. pc'[t] = "fit" /\ UNCHANGED estimator /\ loc'[t] = new(o)
    BY <1>6, <2>1 DEF ChooseNew, Goto, TypeOK
  <2>3. /\ new(o).base = loc[t].base /\ new(o).cand = LambdaRank(o)
        /\ new(o).snap = loc[t].snap /\ new(o).full = TRUE
    BY <1>1 DEF Locals
  <2> HIDE DEF new
  <2>4. loc[t].snap > 0
    BY <1>1, <1>6, RankerAssumption DEF ChooseNew
  <2>5. \A p \in Objs \ {o} : lr'[p] = lr[p]
    BY <2>1 DEF TypeOK
  <2>6. ASSUME NEW e \in {estimator, loc[t].base}, Whole(e), HasModel(e)
        PROVE  HasModel(e)'
    <3>1. e.kind = "lambdarank" => e.obj \in Objs /\ Referenced(e.obj)
      BY <2>6 DEF Whole, Referenced
    <3> QED
      BY <2>1, <2>5, <2>6, <3>1 DEF HasModel
  <2>7. Whole(estimator)' /\ HasModel(estimator)'
    BY <2>2, <2>6 DEF FitInv, Whole, HasModel
  <2>8. HasModel(loc[t].base)' /\ Whole(loc[t].base)' /\ Whole(loc[t].cand)'
    BY <2>2, <2>3, <2>6, EstimatorsTyped DEF FitInv, ThreadFit, Whole, HasModel
  <2>9. ThreadFit(t)'
    BY <2>2, <2>3, <2>4, <2>8 DEF ThreadFit
  <2>10. \A p \in Objs : (lr[p].rows > 0 => lr'[p].rows > 0) \/ ~Referenced(p)
    BY <2>1, <2>5
  <2> QED
    BY <1>2, <2>7, <2>9, <2>10, OthersFit
<1> QED
  BY <1>3, <1>4, <1>5, <1>6

LEMMA FitFit ==
    ASSUME TypeOK, FitInv, NEW t \in Threads,
           FitFull(t) \/ FitIncremental(t) \/ FitRejected(t) \/ FitInsufficient(t) \/ Swap(t)
    PROVE  FitInv'
<1>1. loc[t] \in Locals /\ loc[t].snap \in Nat /\ ThreadFit(t)
  BY DEF TypeOK, Locals, FitInv
<1>2. \A u \in Threads \ {t} : loc'[u] = loc[u] /\ pc'[u] = pc[u]
  BY DEF FitFull, FitIncremental, FitRejected, FitInsufficient, Swap, Goto, TypeOK
<1>3. CASE FitFull(t) \/ FitIncremental(t)
  <2> DEFINE o == loc[t].cand.obj
  <2>1. o \in Objs /\ loc[t].snap > 0
    BY <1>1, <1>3 DEF FitFull, FitIncremental, ThreadFit, TypeOK
  <2>2. UNCHANGED <<estimator, loc>> /\ pc'[t] = "swap"
    BY <1>3 DEF FitFull, FitIncremental, Goto, TypeOK
  <2>3. lr'[o].rows > 0 /\ \A p \in Objs \ {o} : lr'[p] = lr[p]
    BY <1>3, <2>1 DEF FitFull, FitIncremental, TypeOK
  <2>4. \A p \in Objs : lr[p].rows > 0 => lr'[p].rows > 0
    BY <2>3
  <2>5. ThreadFit(t)'
    BY <1>1, <2>2, <2>3, <2>4 DEF ThreadFit, Whole, HasModel
  <2>6. Whole(estimator)' /\ HasModel(estimator)'
    BY <2>2, <2>4 DEF FitInv, Whole, HasModel
  <2> QED
    BY <1>2, <2>4, <2>5, <2>6, OthersFit
<1>4. CASE FitRejected(t)
  <2> DEFINE o == loc[t].cand.obj
  <2>1. pc[t] = "fit" /\ o \in Objs /\ HasModel(loc[t].cand)
    BY <1>1, <1>4 DEF FitRejected, ThreadFit, TypeOK
  <2>2. UNCHANGED estimator /\ pc'[t] = "swap"
    BY <1>4 DEF FitRejected, Goto, TypeOK
  <2>3. loc'[t] = [loc[t] EXCEPT !.rejected = TRUE]
    BY <1>4 DEF FitRejected, TypeOK
  <2>4. loc'[t].base = loc[t].base /\ loc'[t].cand = loc[t].cand
    BY <1>1, <2>3, AssignRejected
  <2>5. \A p \in Objs : lr'[p].rows = lr[p].rows
    BY <1>4, <2>1 DEF FitRejected, TypeOK
  <2>6. ThreadFit(t)'
    BY <1>1, <2>1, <2>2, <2>4, <2>5 DEF ThreadFit, Whole, HasModel
  <2>7. Whole(estimator)' /\ HasModel(estimator)'
    BY <2>2, <2>5 DEF FitInv, Whole, HasModel
  <2> QED
    BY <1>2, <2>5, <2>6, <2>7, OthersFit
<1>5. CASE FitInsufficient(t)
  <2>1. UNCHANGED <<lr, estimator>>
    BY <1>5 DEF FitInsufficient, data
  <2>2. CASE AllowDegrade
    <3>1. loc'[t] = [loc[t] EXCEPT !.cand = Gradient(loc[t].snap)] /\ pc'[t] = "swap"
      BY <1>5, <2>2 DEF FitInsufficient, Goto, TypeOK
    <3>2. loc'[t].base = loc[t].base /\ loc'[t].cand.kind = "gradient"
      BY <1>1, <3>1, AssignCand, EstimatorsTyped
    <3>3. pc'[t] = "swap"
      BY <3>1
    <3>4. ThreadFit(t)'
      BY <1>1, <2>1, <3>2, <3>3 DEF FitInv, ThreadFit, Whole, HasModel
    <3> QED
      BY <1>2, <2>1, <3>4, QuietFit
  <2>3. CASE ~AllowDegrade
    <3>1. UNCHANGED loc /\ pc'[t] = "reset"
      BY <1>5, <2>3 DEF FitInsufficient, Goto, TypeOK
    <3>2. ThreadFit(t)'
      BY <1>1, <2>1, <3>1 DEF FitInv, ThreadFit, Whole, HasModel
    <3> QED
      BY <1>2, <2>1, <3>2, QuietFit
  <2> QED
    BY <2>2, <2>3
<1>6. CASE Swap(t)
  <2>1. pc[t] = "swap" /\ estimator' = loc[t].cand /\ UNCHANGED <<lr, loc>>
    BY <1>6 DEF Swap
  <2>2. pc'[t] \in {"clear", "reset"}
    BY <1>6 DEF Swap, Goto, TypeOK
  <2>3. Whole(estimator)' /\ HasModel(estimator)'
    BY <1>1, <2>1 DEF ThreadFit, Whole, HasModel
  <2>4. ThreadFit(t)'
    BY <1>1, <2>1, <2>2 DEF ThreadFit, Whole, HasModel
  <2> QED
    BY <1>2, <2>1, <2>3, <2>4, OthersFit
<1> QED
  BY <1>3, <1>4, <1>5, <1>6

LEMMA ProcessFit ==
    ASSUME TypeOK, FitInv, Crash \/ Restart \/ UNCHANGED vars
    PROVE  FitInv'
<1>1. \A e : e.kind # "lambdarank" => Whole(e) /\ HasModel(e)'
  BY DEF Whole, HasModel
<1>2. CASE Crash
  <2>1. estimator' = Heuristic(0) /\ \A t \in Threads : loc'[t] = NoLocals /\ pc'[t] = "idle"
    BY <1>2 DEF Crash
  <2>2. Whole(estimator)' /\ HasModel(estimator)'
    BY <1>1, <2>1, EstimatorsTyped DEF Whole, HasModel
  <2>3. \A t \in Threads : ThreadFit(t)'
    BY <1>1, <2>1, NoLocalsTyped DEF ThreadFit, Whole, HasModel
  <2> QED
    BY <2>2, <2>3 DEF FitInv
<1>3. CASE WarmStart
  <2>1. UNCHANGED <<pc, loc>>
    BY <1>3 DEF WarmStart
  <2>2. CASE saved >= ColdStart /\ saved >= FullFitMin
    <3>1. PICK o \in Objs : /\ lr' = [lr EXCEPT ![o] = [rows |-> saved, incr |-> 0]]
                            /\ estimator' = LambdaRank(o)
      BY <1>3, <2>2 DEF WarmStart
    <3>2. \A p \in Objs : lr'[p].rows = lr[p].rows \/ lr'[p].rows = saved
      BY <3>1 DEF TypeOK
    <3>3. lr'[o].rows > 0 /\ \A p \in Objs : lr[p].rows > 0 => lr'[p].rows > 0
      BY <2>2, <3>1, <3>2, RankerAssumption DEF TypeOK
    <3>4. Whole(estimator)' /\ HasModel(estimator)'
      BY <3>1, <3>3, EstimatorsTyped DEF Whole, HasModel
    <3>5. \A t \in Threads : ThreadFit(t)'
      BY <2>1, <3>3 DEF FitInv, ThreadFit, Whole, HasModel
    <3> QED
      BY <3>4, <3>5 DEF FitInv
  <2>3. CASE ~(saved >= ColdStart /\ saved >= FullFitMin)
    <3>1. estimator' \in {Gradient(saved), Heuristic(saved)} /\ UNCHANGED lr
      BY <1>3, <2>3 DEF WarmStart
    <3>2. Whole(estimator)' /\ HasModel(estimator)'
      BY <1>1, <3>1, EstimatorsTyped DEF TypeOK, Whole, HasModel
    <3> QED
      BY <2>1, <3>1, <3>2 DEF FitInv, ThreadFit, Whole, HasModel
  <2> QED
    BY <2>2, <2>3
<1>4. CASE WarmStartInsufficient \/ WarmStartError \/ UNCHANGED vars
  BY <1>4 DEF WarmStartInsufficient, WarmStartError, vars, data, FitInv, ThreadFit, Whole, HasModel
<1> QED
  BY <1>2, <1>3, <1>4 DEF Restart

LEMMA NextFit == TypeOK /\ FitInv /\ [Next]_vars => FitInv'
<1> SUFFICES ASSUME TypeOK, FitInv, [Next]_vars PROVE FitInv'
  OBVIOUS
<1>1. ASSUME NEW t \in Threads, ThreadStep(t) PROVE FitInv'
  BY <1>1, CountersFit, ChooseFit, FitFit DEF ThreadStep, Work
<1> QED
  BY <1>1, ProcessFit DEF Next

LEMMA InitFit == Init => FitInv
<1> SUFFICES ASSUME Init PROVE FitInv
  OBVIOUS
<1>1. estimator.kind # "lambdarank"
  BY EstimatorsTyped DEF Init
<1>2. \A t \in Threads : loc[t] = NoLocals /\ pc[t] = "idle"
  BY DEF Init
<1> QED
  BY <1>1, <1>2, NoLocalsTyped DEF FitInv, ThreadFit, Whole, HasModel

\* A predict() that reads the estimator never finds a LambdaRank instance
\* without a model, whatever other threads are fitting.
THEOREM ModelBeforePublication == Spec => []PublishedIsFit
<1>1. FitInv => PublishedIsFit
  BY DEF FitInv, HasModel, PublishedIsFit
<1> QED
  BY <1>1, InitFit, NextFit, TypeCorrect, PTL DEF Spec

-----------------------------------------------------------------------------
(* A promotion survives restarts *)

Enough == saved >= ColdStart /\ saved >= FullFitMin

\* What a fit in progress has looked at, and that an increment extends a model.
SnapInv(t) ==
    /\ loc[t].snap <= saved
    /\ pc[t] = "fit" => loc[t].snap >= ColdStart
    /\ pc[t] = "fit" /\ ~loc[t].full => Enough

\* Whoever has a model, or had one on this store, had enough records for a full
\* fit, and the records stay.  After a refusal the process stays down.
StoreInv ==
    /\ \A o \in Objs : lr[o].rows > 0 => Enough
    /\ promoted => Enough
    /\ refused => ~up /\ saved >= ColdStart /\ saved < FullFitMin /\ ~AllowDegrade
    /\ \A t \in Threads : SnapInv(t)
    /\ ~up => \A t \in Threads : pc[t] = "idle"

\* A thread acts while the process is up, no step of it removes a record, and no
\* other thread notices.
LEMMA ThreadFrame ==
    ASSUME TypeOK, StoreInv, NEW t \in Threads, ThreadStep(t)
    PROVE  /\ up /\ up' /\ ~refused /\ ~refused'
           /\ saved' \in Nat /\ saved' >= saved
           /\ \A u \in Threads \ {t} : loc'[u] = loc[u] /\ pc'[u] = pc[u]
<1>1. up /\ ~refused /\ saved \in Nat
  BY DEF TypeOK, StoreInv, ThreadStep, Work, Record, Save, Count, CountLoad, CountStore, CountTest, Retrain,
         Snapshot, ReadBase, DriftCheck, FitHeuristic, ChooseSame, ChooseNew, FitFull,
         FitIncremental, FitRejected, FitInsufficient, FitError, Swap, ClearReference,
         FillReference, Reset
<1>2. UNCHANGED <<up, refused>>
  BY DEF data, history, ThreadStep, Work, Record, Save, Count, CountLoad, CountStore, CountTest, Retrain,
         Snapshot, ReadBase, DriftCheck, FitHeuristic, ChooseSame, ChooseNew, FitFull,
         FitIncremental, FitRejected, FitInsufficient, FitError, Swap, ClearReference,
         FillReference, Reset
<1>3. saved' = saved \/ saved' = saved + 1
  BY DEF data, history, ThreadStep, Work, Record, Save, Count, CountLoad, CountStore, CountTest, Retrain,
         Snapshot, ReadBase, DriftCheck, FitHeuristic, ChooseSame, ChooseNew, FitFull,
         FitIncremental, FitRejected, FitInsufficient, FitError, Swap, ClearReference,
         FillReference, Reset
<1>4. ASSUME NEW u \in Threads \ {t} PROVE loc'[u] = loc[u] /\ pc'[u] = pc[u]
  BY DEF TypeOK, Goto, Finish, ThreadStep, Work, Record, Save, Count, CountLoad, CountStore, CountTest, Retrain,
         Snapshot, ReadBase, DriftCheck, FitHeuristic, ChooseSame, ChooseNew, FitFull,
         FitIncremental, FitRejected, FitInsufficient, FitError, Swap, ClearReference,
         FillReference, Reset
<1> QED
  BY <1>1, <1>2, <1>3, <1>4

\* It is enough to look at the thread that acts, at first models and promotions.
LEMMA FrameStore ==
    ASSUME TypeOK, StoreInv, NEW t \in Threads, ThreadStep(t),
           SnapInv(t)',
           \A o \in Objs : lr'[o].rows > 0 => lr[o].rows > 0 \/ Enough,
           promoted' => promoted \/ Enough
    PROVE  StoreInv'
<1>1. /\ up' /\ ~refused' /\ saved' \in Nat /\ saved' >= saved /\ saved \in Nat
      /\ \A u \in Threads \ {t} : loc'[u] = loc[u] /\ pc'[u] = pc[u]
  BY ThreadFrame DEF TypeOK
<1>2. Enough => Enough'
  BY <1>1, RankerAssumption DEF Enough
<1>3. ASSUME NEW u \in Threads \ {t} PROVE SnapInv(u)'
  <2>1. loc[u].snap \in Nat
    BY DEF TypeOK, Locals
  <2>2. SnapInv(u)
    BY DEF StoreInv
  <2>3. loc'[u] = loc[u] /\ pc'[u] = pc[u]
    BY <1>1
  <2> QED
    BY <1>1, <1>2, <2>1, <2>2, <2>3 DEF SnapInv
<1>4. \A u \in Threads : SnapInv(u)'
  BY <1>3
<1> QED
  BY <1>1, <1>2, <1>4 DEF StoreInv

LEMMA ThreadStore ==
    ASSUME TypeOK, FitInv, StoreInv, NEW t \in Threads, ThreadStep(t)
    PROVE  StoreInv'
<1>0. /\ loc[t] \in Locals /\ loc[t].snap \in Nat /\ saved \in Nat /\ SnapInv(t) /\ ThreadFit(t)
      /\ saved' \in Nat /\ saved' >= saved
  BY ThreadFrame DEF TypeOK, Locals, StoreInv, FitInv
<1>1. CASE \/ Record(t) \/ Save(t) \/ Count(t) \/ CountLoad(t) \/ CountStore(t) \/ CountTest(t)
           \/ Retrain(t) \/ Snapshot(t) \/ ReadBase(t) \/ DriftCheck(t) \/ FitHeuristic(t)
           \/ FitInsufficient(t) \/ FitError(t) \/ ClearReference(t) \/ FillReference(t) \/ Reset(t)
  <2>1. UNCHANGED <<lr, promoted>> /\ pc'[t] # "fit"
    BY <1>1 DEF Record, Save, Count, CountLoad, CountStore, CountTest, Retrain, Snapshot, ReadBase,
                DriftCheck, FitHeuristic, FitInsufficient, FitError, ClearReference, FillReference,
                Reset, Goto, Finish, TypeOK, data, history
  <2>2. loc'[t].snap \in {loc[t].snap, saved, 0}
    <3>1. CASE CountLoad(t)
      BY <1>0, <3>1 DEF CountLoad, Locals, TypeOK
    <3>2. CASE Snapshot(t)
      BY <1>0, <3>2 DEF Snapshot, Locals, TypeOK
    <3>3. CASE ReadBase(t)
      BY <1>0, <3>3 DEF ReadBase, Locals, TypeOK
    <3>4. CASE FitHeuristic(t)
      BY <1>0, <3>4 DEF FitHeuristic, Locals, TypeOK
    <3>5. CASE FitInsufficient(t)
      BY <1>0, <3>5 DEF FitInsufficient, Locals, TypeOK
    <3>6. CASE CountTest(t) \/ Reset(t)
      BY <3>6 DEF CountTest, Reset, Finish, NoLocals, TypeOK
    <3>7. CASE \/ Record(t) \/ Save(t) \/ Count(t) \/ CountStore(t) \/ Retrain(t) \/ DriftCheck(t)
               \/ FitError(t) \/ ClearReference(t) \/ FillReference(t)
      BY <3>7 DEF Record, Save, Count, CountStore, Retrain, DriftCheck, FitError,
                  ClearReference, FillReference
    <3> QED
      BY <1>1, <3>1, <3>2, <3>3, <3>4, <3>5, <3>6, <3>7
  <2>3. SnapInv(t)'
    BY <1>0, <2>1, <2>2 DEF SnapInv
  <2> QED
    BY <2>1, <2>3, FrameStore
<1>2. CASE ChooseSame(t)
  <2> DEFINE full == lr[loc[t].base.obj].rows = 0 \/ lr[loc[t].base.obj].incr >= FullEvery
             new == [loc[t] EXCEPT !.cand = loc[t].base, !.full = full]
  <2>1. loc'[t] = new /\ UNCHANGED <<lr, saved, promoted>> /\ loc[t].snap >= ColdStart
    BY <1>2 DEF ChooseSame, Goto, TypeOK, data, history
  <2>2. new.snap = loc[t].snap
    BY <1>0 DEF Locals
  <2> HIDE DEF new
  <2>3. loc[t].base.kind = "lambdarank" /\ loc[t].base.obj \in Objs
    BY <1>2 DEF ChooseSame, TypeOK
  <2>4. Enough
    BY <1>0, <2>3 DEF ThreadFit, HasModel, StoreInv
  <2>5. SnapInv(t)'
    BY <1>0, <2>1, <2>2, <2>4 DEF SnapInv, Enough
  <2> QED
    BY <2>1, <2>5, FrameStore
<1>3. CASE ChooseNew(t)
  <2> DEFINE new(o) == [loc[t] EXCEPT !.cand = LambdaRank(o), !.full = TRUE]
  <2>1. PICK o \in Objs : lr' = [lr EXCEPT ![o] = Unfit] /\ loc' = [loc EXCEPT ![t] = new(o)]
    BY <1>3 DEF ChooseNew
  <2>2. loc'[t] = new(o) /\ UNCHANGED <<saved, promoted>> /\ loc[t].snap >= ColdStart
    BY <1>3, <2>1 DEF ChooseNew, TypeOK, history
  <2>3. new(o).snap = loc[t].snap /\ new(o).full = TRUE
    BY <1>0 DEF Locals
  <2> HIDE DEF new
  <2>4. SnapInv(t)'
    BY <1>0, <2>2, <2>3 DEF SnapInv
  <2>5. \A p \in Objs : lr'[p].rows > 0 => lr[p].rows > 0
    BY <2>1 DEF TypeOK, Unfit
  <2> QED
    BY <2>2, <2>4, <2>5, FrameStore
<1>4. CASE FitFull(t) \/ FitIncremental(t) \/ FitRejected(t)
  <2>1. pc[t] = "fit" /\ pc'[t] = "swap" /\ UNCHANGED <<saved, promoted>>
    BY <1>4 DEF FitFull, FitIncremental, FitRejected, Goto, TypeOK, history
  <2>2. loc'[t].snap = loc[t].snap
    <3>1. CASE FitRejected(t)
      BY <1>0, <3>1 DEF FitRejected, Locals, TypeOK
    <3>2. CASE FitFull(t) \/ FitIncremental(t)
      BY <3>2 DEF FitFull, FitIncremental
    <3> QED
      BY <1>4, <3>1, <3>2
  <2>3. Enough
    BY <1>0, <1>4, <2>1, RankerAssumption
       DEF FitFull, FitIncremental, FitRejected, SnapInv, Enough
  <2>4. SnapInv(t)'
    BY <1>0, <2>1, <2>2 DEF SnapInv
  <2> QED
    BY <2>1, <2>3, <2>4, FrameStore
<1>5. CASE Swap(t)
  <2>1. /\ pc[t] = "swap" /\ pc'[t] # "fit" /\ UNCHANGED <<lr, loc, saved>>
        /\ promoted' = (promoted \/ loc[t].cand.kind = "lambdarank")
    BY <1>5 DEF Swap, Goto, TypeOK
  <2>2. loc[t].cand.kind = "lambdarank" => Enough
    <3>1. loc[t].cand.kind = "lambdarank" => loc[t].cand.obj \in Objs
      BY DEF TypeOK
    <3> QED
      BY <1>0, <2>1, <3>1 DEF ThreadFit, HasModel, StoreInv
  <2>3. SnapInv(t)'
    BY <1>0, <2>1 DEF SnapInv
  <2> QED
    BY <2>1, <2>2, <2>3, FrameStore
<1> QED
  BY <1>1, <1>2, <1>3, <1>4, <1>5 DEF ThreadStep, Work

LEMMA ProcessStore ==
    ASSUME TypeOK, StoreInv, Crash \/ Restart \/ UNCHANGED vars
    PROVE  StoreInv'
<1>0. saved \in Nat
  BY DEF TypeOK
<1>1. CASE Crash
  <2>1. /\ ~up' /\ refused' = refused /\ ~refused
        /\ \A o \in Objs : lr'[o].rows = 0
        /\ \A t \in Threads : pc'[t] = "idle" /\ loc'[t].snap = 0
    BY <1>1 DEF Crash, StoreInv, Unfit, NoLocals
  <2>2. saved' \in Nat
    BY <1>0, <1>1 DEF Crash
  <2>3. promoted' => promoted /\ saved' = saved
    BY <1>1 DEF Crash
  <2> QED
    BY <2>1, <2>2, <2>3 DEF StoreInv, SnapInv, Enough
<1>2. CASE WarmStart
  <2>1. ~up /\ up' /\ UNCHANGED <<saved, pc, loc, refused>>
    BY <1>2 DEF WarmStart
  <2>2. ~refused
    BY <1>0, <1>2, RankerAssumption DEF WarmStart, StoreInv
  <2>3. CASE Enough
    <3>1. \A t \in Threads : SnapInv(t)'
      BY <2>1 DEF StoreInv, SnapInv, Enough
    <3> QED
      BY <2>1, <2>2, <2>3, <3>1 DEF StoreInv, Enough
  <2>4. CASE ~Enough
    <3>1. UNCHANGED lr /\ estimator' \in {Gradient(saved), Heuristic(saved)}
      BY <1>2, <2>4 DEF WarmStart, Enough
    <3>2. promoted' = promoted
      BY <1>0, <1>2, <3>1, EstimatorsTyped DEF WarmStart, TypeOK
    <3> QED
      BY <2>1, <2>2, <3>1, <3>2 DEF StoreInv, SnapInv, Enough
  <2> QED
    BY <2>3, <2>4
<1>3. CASE WarmStartInsufficient
  BY <1>3 DEF WarmStartInsufficient, data, StoreInv, SnapInv, Enough
<1>4. CASE WarmStartError \/ UNCHANGED vars
  BY <1>4 DEF WarmStartError, vars, data, history, StoreInv, SnapInv, Enough
<1> QED
  BY <1>1, <1>2, <1>3, <1>4 DEF Restart

LEMMA NextStore == TypeOK /\ FitInv /\ StoreInv /\ [Next]_vars => StoreInv'
BY ThreadStore, ProcessStore DEF Next

LEMMA InitStore == Init => StoreInv
<1> SUFFICES ASSUME Init PROVE StoreInv
  OBVIOUS
<1>1. \A t \in Threads : loc[t].snap = 0 /\ pc[t] = "idle"
  BY DEF Init, NoLocals
<1> QED
  BY <1>1 DEF Init, Unfit, StoreInv, SnapInv

\* On a store on whose records LambdaRank was once published, no restart refuses
\* for want of groups and none comes up with less than LambdaRank, for any number
\* of threads, with or without permission to degrade.
THEOREM RestartsResume == Spec => PromotionSurvives
<1>1. TypeOK /\ StoreInv /\ [Next]_vars => [RestartResumes]_vars
  <2> SUFFICES ASSUME TypeOK, StoreInv, Next, ~up, promoted
               PROVE  ~refused' /\ (up' => estimator'.kind = "lambdarank")
    BY DEF RestartResumes
  <2>1. saved >= ColdStart /\ saved >= FullFitMin /\ ~refused /\ saved \in Nat
    BY RankerAssumption DEF StoreInv, Enough, TypeOK
  <2>2. Restart
    BY ThreadFrame DEF Next, Crash
  <2>3. CASE WarmStart
    BY <2>1, <2>3, EstimatorsTyped DEF WarmStart
  <2>4. ~WarmStartInsufficient
    <3>1. ~(saved < FullFitMin)
      BY <2>1, RankerAssumption
    <3> QED
      BY <3>1, Zenon DEF WarmStartInsufficient
  <2>5. CASE WarmStartError
    BY <2>1, <2>5 DEF WarmStartError
  <2> QED
    BY <2>2, <2>3, <2>4, <2>5 DEF Restart
<1>2. Spec => []StoreInv
  <2>1. Spec => [](TypeOK /\ FitInv)
    BY InitFit, NextFit, TypeCorrect, PTL DEF Spec
  <2> QED
    BY <2>1, InitStore, NextStore, PTL DEF Spec
<1> QED
  BY <1>1, <1>2, TypeCorrect, PTL DEF Spec, PromotionSurvives

-----------------------------------------------------------------------------
(* One thread: the sequential contract, across crashes and restarts *)

\* What the hazards of several threads take away holds of a single one.
Sequential == \E t : Threads = {t}

\* The records are those of the last attempt and those since; the counter is
\* their number, but for the one saved and not yet counted; a snapshot is
\* current until it is used, and below the threshold nobody retrains unasked.
TallyInv(t) ==
    /\ IF up THEN saved = tried + fresh ELSE fresh = 0
    /\ pc[t] # "idle" => up
    /\ fresh = IF pc[t] \in {"count", "store"} THEN counter + 1 ELSE counter
    /\ pc[t] = "store" => loc[t].loaded = counter
    /\ pc[t] \in {"idle", "save", "count", "store"} => counter < RetrainEvery
    /\ pc[t] \in RetrainPCs \ {"snapshot"} => loc[t].snap = saved

IsLR(e) == e.kind = "lambdarank"

\* Once a LambdaRank model is published, the records are enough for a full fit.
PromotedInv == IsLR(estimator) => saved >= ColdStart /\ saved >= FullFitMin

\* What the thread is about to swap in never demotes, and is fitted to its
\* snapshot unless it was rejected, when it is still what is published.
CandidateInv(t) ==
    /\ loc[t].rejected => pc[t] \in {"swap", "reset"}
    /\ pc[t] \in {"check", "choose", "fit", "swap"} => loc[t].base = estimator
    /\ pc[t] = "fit" =>
          /\ loc[t].snap >= ColdStart
          /\ IsLR(estimator) \/ ~loc[t].full => loc[t].cand = estimator
    /\ pc[t] = "swap" =>
          /\ IsLR(estimator) => IsLR(loc[t].cand)
          /\ loc[t].rejected => loc[t].cand = estimator
          /\ IsLR(loc[t].cand) /\ ~loc[t].rejected =>
                /\ lr[loc[t].cand.obj].rows = loc[t].snap
                /\ loc[t].snap >= ColdStart /\ loc[t].snap >= FullFitMin
    /\ pc[t] \in {"clear", "fill"} => IsLR(estimator) /\ lr[estimator.obj].rows = loc[t].snap

\* A new model is published, or about to be, and its reference is still to be set.
Republishes(t) ==
    \/ pc[t] \in {"clear", "fill"}
    \/ pc[t] = "swap" /\ IsLR(loc[t].cand) /\ ~loc[t].rejected

ReferenceInv(t) ==
    /\ ~unchecked
    /\ ~up => reference = 0
    /\ ~Republishes(t) /\ reference # 0 => IsLR(estimator) /\ reference = lr[estimator.obj].rows
    /\ referenced /\ pc[t] # "fill" => reference # 0

SeqInv(t) == TallyInv(t) /\ PromotedInv /\ CandidateInv(t) /\ ReferenceInv(t)

\* Within retrain() nothing is counted, and the snapshot stays.
LEMMA TallyInRetrain ==
    ASSUME NEW t \in Threads, TallyInv(t), UNCHANGED <<up, saved, counter, fresh, tried>>,
           pc[t] \in RetrainPCs \ {"snapshot"}, pc'[t] \in RetrainPCs \ {"snapshot"},
           loc'[t].snap = loc[t].snap
    PROVE  TallyInv(t)'
BY DEF TallyInv, RetrainPCs

\* A step that publishes nothing and leaves the reference alone, before the fit.
LEMMA QuietReference ==
    ASSUME NEW t \in Threads, CandidateInv(t), ReferenceInv(t),
           UNCHANGED <<up, estimator, lr, reference, referenced, unchecked>>,
           pc[t] \notin {"fit", "swap", "clear", "fill"},
           pc'[t] \notin {"clear", "fill"},
           pc'[t] = "swap" => ~IsLR(loc'[t].cand)
    PROVE  ReferenceInv(t)'
BY DEF ReferenceInv, CandidateInv, Republishes

LEMMA RecordSeq ==
    ASSUME NEW t \in Threads, TypeOK, SeqInv(t),
           Record(t) \/ Save(t) \/ Count(t) \/ CountLoad(t) \/ CountStore(t) \/ CountTest(t)
    PROVE  SeqInv(t)'
<1> DEFINE Before == {"idle", "save", "count", "store", "test"}
<1>1. /\ pc[t] \in Before /\ pc'[t] \in Before \cup {"snapshot"}
      /\ UNCHANGED <<up, estimator, lr, reference, referenced, unchecked, tried>>
      /\ saved' \in Nat /\ saved' >= saved
  <2> USE DEF Goto, TypeOK, data, history
  <2>1. CASE Record(t) \/ CountLoad(t)
    BY <2>1 DEF Record, CountLoad
  <2>2. CASE Save(t)
    BY <2>2 DEF Save
  <2>3. CASE Count(t) \/ CountStore(t)
    BY <2>3 DEF Count, CountStore
  <2>4. CASE CountTest(t)
    BY <2>4 DEF CountTest, Finish
  <2> QED
    BY <2>1, <2>2, <2>3, <2>4
<1>2. ~loc'[t].rejected
  <2>1. loc'[t] = loc[t] \/ loc'[t] = [loc[t] EXCEPT !.loaded = counter] \/ loc'[t] = NoLocals
    BY DEF Record, Save, Count, CountLoad, CountStore, CountTest, Goto, Finish, TypeOK
  <2>2. ~loc[t].rejected
    BY <1>1 DEF SeqInv, CandidateInv
  <2>3. loc[t] \in Locals
    BY DEF TypeOK
  <2> QED
    BY <2>1, <2>2, <2>3 DEF Locals, NoLocals
<1>3. PromotedInv'
  BY <1>1, RankerAssumption DEF SeqInv, PromotedInv, IsLR, TypeOK
<1>4. CandidateInv(t)'
  BY <1>1, <1>2 DEF SeqInv, CandidateInv
<1>5. ReferenceInv(t)'
  BY <1>1, QuietReference DEF SeqInv
<1>6. TallyInv(t)'
  <2> USE DEF TallyInv, SeqInv
  <2>1. CASE Record(t)
    BY <2>1 DEF Record, Goto, TypeOK, data, history, RetrainPCs
  <2>2. CASE Save(t)
    BY <2>2 DEF Save, Goto, TypeOK, RetrainPCs
  <2>3. CASE Count(t)
    BY <2>3, RankerAssumption DEF Count, Goto, TypeOK, history, RetrainPCs
  <2>4. CASE CountLoad(t)
    <3>1. loc'[t] = [loc[t] EXCEPT !.loaded = counter] /\ pc[t] = "count" /\ pc'[t] = "store"
      BY <2>4 DEF CountLoad, Goto, TypeOK
    <3>2. loc'[t].loaded = counter
      BY <3>1 DEF TypeOK, Locals
    <3> QED
      BY <2>4, <3>1, <3>2 DEF CountLoad, data, history, RetrainPCs
  <2>5. CASE CountStore(t)
    BY <2>5 DEF CountStore, Goto, TypeOK, history, RetrainPCs
  <2>6. CASE CountTest(t)
    BY <2>6, RankerAssumption DEF CountTest, Goto, Finish, TypeOK, data, history, RetrainPCs
  <2> QED
    BY <2>1, <2>2, <2>3, <2>4, <2>5, <2>6
<1> QED
  BY <1>3, <1>4, <1>5, <1>6 DEF SeqInv

LEMMA ReadSeq ==
    ASSUME NEW t \in Threads, TypeOK, SeqInv(t),
           Retrain(t) \/ Snapshot(t) \/ ReadBase(t) \/ DriftCheck(t)
    PROVE  SeqInv(t)'
<1>0. loc[t] \in Locals
  BY DEF TypeOK
<1>1. /\ pc[t] \in {"idle", "snapshot", "base", "check"}
      /\ pc'[t] \in {"snapshot", "base", "check", "choose"}
      /\ UNCHANGED <<up, saved, counter, estimator, lr, reference, fresh, tried, referenced>>
      /\ pc[t] = "idle" => pc'[t] = "snapshot"
      /\ pc[t] = "snapshot" => pc'[t] = "base"
      /\ pc[t] = "base" => pc'[t] = "check"
  BY DEF Retrain, Snapshot, ReadBase, DriftCheck, Goto, TypeOK, data, history
<1>2. ~unchecked'
  BY DEF Retrain, Snapshot, ReadBase, DriftCheck, history, SeqInv, ReferenceInv
<1>3. /\ loc'[t].rejected = loc[t].rejected
      /\ pc'[t] = "base" => loc'[t].snap = saved
      /\ pc'[t] \in {"check", "choose"} => loc'[t].snap = loc[t].snap
      /\ pc'[t] = "check" => loc'[t].base = estimator
      /\ pc'[t] = "choose" => pc[t] = "check" /\ loc'[t].base = loc[t].base
  <2>1. CASE Retrain(t) \/ DriftCheck(t)
    BY <2>1 DEF Retrain, DriftCheck, Goto, TypeOK
  <2>2. CASE Snapshot(t)
    <3>1. loc'[t] = [loc[t] EXCEPT !.snap = saved] /\ pc'[t] = "base"
      BY <2>2 DEF Snapshot, Goto, TypeOK
    <3> QED
      BY <1>0, <3>1 DEF Locals
  <2>3. CASE ReadBase(t)
    <3>1. loc'[t] = [loc[t] EXCEPT !.base = estimator] /\ pc'[t] = "check"
      BY <2>3 DEF ReadBase, Goto, TypeOK
    <3> QED
      BY <1>0, <3>1 DEF Locals
  <2> QED
    BY <2>1, <2>2, <2>3
<1>4. PromotedInv'
  BY <1>1 DEF SeqInv, PromotedInv
<1>5. CandidateInv(t)'
  BY <1>1, <1>3 DEF SeqInv, CandidateInv
<1>6. ReferenceInv(t)'
  BY <1>1, <1>2 DEF SeqInv, ReferenceInv, Republishes
<1>7. TallyInv(t)'
  <2>1. pc'[t] # "snapshot" => pc'[t] \in {"base", "check", "choose"} /\ loc'[t].snap = saved
    BY <1>1, <1>3 DEF SeqInv, TallyInv, RetrainPCs
  <2>2. up /\ up'
    BY DEF SeqInv, TallyInv, Retrain, Snapshot, ReadBase, DriftCheck
  <2> QED
    BY <1>1, <2>1, <2>2 DEF SeqInv, TallyInv, RetrainPCs
<1> QED
  BY <1>4, <1>5, <1>6, <1>7 DEF SeqInv

LEMMA ChooseSeq ==
    ASSUME NEW t \in Threads, TypeOK, SeqInv(t),
           FitHeuristic(t) \/ ChooseSame(t) \/ ChooseNew(t)
    PROVE  SeqInv(t)'
<1>1. /\ loc[t] \in Locals /\ pc[t] = "choose" /\ pc'[t] \in {"swap", "fit"}
      /\ UNCHANGED <<up, saved, counter, estimator, reference, history>>
      /\ loc[t].base = estimator /\ loc[t].snap = saved /\ ~loc[t].rejected
  BY DEF FitHeuristic, ChooseSame, ChooseNew, Goto, TypeOK, data, history,
         SeqInv, TallyInv, CandidateInv, RetrainPCs
<1>2. ASSUME loc'[t].snap = loc[t].snap PROVE TallyInv(t)' /\ PromotedInv'
  BY <1>1, <1>2, TallyInRetrain DEF SeqInv, PromotedInv, IsLR, RetrainPCs, history
<1>3. CASE FitHeuristic(t)
  <2> DEFINE e == Heuristic(loc[t].snap)
  <2>1. pc'[t] = "swap" /\ loc'[t] = [loc[t] EXCEPT !.cand = e] /\ UNCHANGED lr
    BY <1>3 DEF FitHeuristic, Goto, TypeOK, data
  <2>2. ~IsLR(e)
    BY <1>1, EstimatorsTyped DEF IsLR, Locals
  <2>3. ~IsLR(estimator)
    BY <1>1, <1>3, RankerAssumption DEF FitHeuristic, SeqInv, PromotedInv, TypeOK
  <2> HIDE DEF e
  <2>4. /\ loc'[t].cand = e /\ ~loc'[t].rejected /\ loc'[t].base = estimator
        /\ loc'[t].snap = loc[t].snap
    BY <1>1, <2>1 DEF Locals
  <2>5. CandidateInv(t)'
    BY <1>1, <2>1, <2>2, <2>3, <2>4 DEF CandidateInv
  <2>6. ReferenceInv(t)'
    BY <1>1, <2>1, <2>2, <2>4, QuietReference DEF SeqInv, history
  <2> QED
    BY <1>2, <2>4, <2>5, <2>6 DEF SeqInv
<1>4. CASE ChooseSame(t)
  <2> DEFINE full == lr[loc[t].base.obj].rows = 0 \/ lr[loc[t].base.obj].incr >= FullEvery
             new == [loc[t] EXCEPT !.cand = loc[t].base, !.full = full]
  <2>1. /\ pc'[t] = "fit" /\ loc'[t] = new /\ UNCHANGED lr
        /\ loc[t].snap >= ColdStart
    BY <1>4 DEF ChooseSame, Goto, TypeOK, data
  <2>2. /\ new.snap = loc[t].snap /\ new.base = loc[t].base /\ new.cand = loc[t].base
        /\ new.rejected = loc[t].rejected
    BY <1>1 DEF Locals
  <2> HIDE DEF new
  <2>3. CandidateInv(t)'
    BY <1>1, <2>1, <2>2 DEF CandidateInv
  <2>4. ReferenceInv(t)'
    BY <1>1, <2>1, QuietReference DEF SeqInv, history
  <2> QED
    BY <1>2, <2>1, <2>2, <2>3, <2>4 DEF SeqInv
<1>5. CASE ChooseNew(t)
  <2> DEFINE new(o) == [loc[t] EXCEPT !.cand = LambdaRank(o), !.full = TRUE]
  <2>1. PICK o \in Objs : loc' = [loc EXCEPT ![t] = new(o)]
    BY <1>5 DEF ChooseNew
  <2>2. /\ pc'[t] = "fit" /\ loc'[t] = new(o)
        /\ loc[t].snap >= ColdStart /\ ~IsLR(estimator)
    BY <1>1, <1>5, <2>1 DEF ChooseNew, Goto, TypeOK, IsLR
  <2>3. /\ new(o).snap = loc[t].snap /\ new(o).base = loc[t].base
        /\ new(o).rejected = loc[t].rejected /\ new(o).full
    BY <1>1 DEF Locals
  <2> HIDE DEF new
  <2>4. CandidateInv(t)'
    BY <1>1, <2>2, <2>3 DEF CandidateInv
  <2>5. reference = 0 /\ ~referenced /\ ~unchecked
    BY <1>1, <2>2 DEF SeqInv, ReferenceInv, Republishes
  <2>6. ReferenceInv(t)'
    BY <1>1, <2>5 DEF ReferenceInv, history
  <2> QED
    BY <1>2, <2>2, <2>3, <2>4, <2>6 DEF SeqInv
<1> QED
  BY <1>3, <1>4, <1>5

LEMMA FitSeq ==
    ASSUME NEW t \in Threads, TypeOK, SeqInv(t),
           FitFull(t) \/ FitIncremental(t) \/ FitRejected(t) \/ FitInsufficient(t)
    PROVE  SeqInv(t)'
<1> DEFINE o == loc[t].cand.obj
<1>1. /\ loc[t] \in Locals /\ pc[t] = "fit" /\ pc'[t] \in {"swap", "reset"}
      /\ UNCHANGED <<up, saved, counter, estimator, reference>>
      /\ UNCHANGED <<fresh, tried, referenced, unchecked>>
  <2>1. CASE FitFull(t) \/ FitIncremental(t) \/ FitRejected(t)
    BY <2>1 DEF FitFull, FitIncremental, FitRejected, Goto, TypeOK, history
  <2>2. CASE FitInsufficient(t)
    BY <2>2 DEF FitInsufficient, Goto, TypeOK, data, history
  <2> QED
    BY <2>1, <2>2
<1>2. /\ IsLR(loc[t].cand) /\ o \in Objs /\ loc[t].snap \in Nat /\ saved \in Nat
      /\ loc[t].base = estimator /\ loc[t].snap = saved /\ ~loc[t].rejected
      /\ loc[t].snap >= ColdStart
      /\ IsLR(estimator) \/ ~loc[t].full => loc[t].cand = estimator
      /\ IsLR(estimator) => loc[t].snap >= FullFitMin
      /\ reference # 0 => IsLR(estimator) /\ reference = lr[estimator.obj].rows
      /\ referenced => reference # 0
      /\ ~unchecked /\ up
  BY <1>1 DEF TypeOK, IsLR, Locals, SeqInv, TallyInv, PromotedInv, CandidateInv, ReferenceInv,
              Republishes, RetrainPCs
<1>3. PromotedInv'
  BY <1>1 DEF SeqInv, PromotedInv, IsLR
<1>4. ASSUME loc'[t].snap = loc[t].snap PROVE TallyInv(t)'
  BY <1>1, <1>4, TallyInRetrain DEF SeqInv, RetrainPCs
<1>5. CASE FitFull(t) \/ FitIncremental(t)
  <2>1. pc'[t] = "swap" /\ UNCHANGED loc /\ lr'[o].rows = loc[t].snap
    <3>1. CASE FitFull(t)
      BY <1>2, <3>1 DEF FitFull, Goto, TypeOK
    <3>2. CASE FitIncremental(t)
      BY <1>2, <3>2 DEF FitIncremental, Goto, TypeOK
    <3> QED
      BY <1>5, <3>1, <3>2
  <2>2. loc[t].snap >= FullFitMin
    <3>1. CASE FitFull(t)
      BY <3>1 DEF FitFull
    <3>2. CASE FitIncremental(t)
      BY <1>2, <3>2 DEF FitIncremental
    <3> QED
      BY <1>5, <3>1, <3>2
  <2>3. CandidateInv(t)'
    BY <1>1, <1>2, <2>1, <2>2 DEF CandidateInv
  <2>4. ReferenceInv(t)'
    BY <1>1, <1>2, <2>1 DEF ReferenceInv, Republishes
  <2> QED
    BY <1>3, <1>4, <2>1, <2>3, <2>4 DEF SeqInv
<1>6. CASE FitRejected(t)
  <2>1. pc'[t] = "swap" /\ loc'[t] = [loc[t] EXCEPT !.rejected = TRUE]
    BY <1>6 DEF FitRejected, Goto, TypeOK
  <2>2. \A p \in Objs : lr'[p].rows = lr[p].rows
    BY <1>2, <1>6 DEF FitRejected, TypeOK
  <2>3. /\ loc'[t].rejected /\ loc'[t].base = loc[t].base /\ loc'[t].cand = loc[t].cand
        /\ loc'[t].snap = loc[t].snap
    BY <1>1, <2>1 DEF Locals
  <2>4. loc[t].cand = estimator
    BY <1>2, <1>6 DEF FitRejected
  <2>5. CandidateInv(t)'
    BY <1>1, <1>2, <2>1, <2>3, <2>4 DEF CandidateInv
  <2>6. ReferenceInv(t)'
    <3>1. reference # 0 => IsLR(estimator) /\ estimator.obj \in Objs
      BY <1>2 DEF TypeOK, IsLR
    <3> QED
      BY <1>1, <1>2, <2>1, <2>2, <3>1 DEF ReferenceInv, IsLR
  <2> QED
    BY <1>3, <1>4, <2>3, <2>5, <2>6 DEF SeqInv
<1>7. CASE FitInsufficient(t) /\ AllowDegrade
  <2> DEFINE e == Gradient(loc[t].snap)
  <2>1. pc'[t] = "swap" /\ loc'[t] = [loc[t] EXCEPT !.cand = e] /\ UNCHANGED lr
    BY <1>7 DEF FitInsufficient, Goto, TypeOK, data
  <2>2. ~IsLR(e)
    BY <1>2, EstimatorsTyped DEF IsLR
  <2>3. ~IsLR(estimator)
    BY <1>2, <1>7, RankerAssumption DEF FitInsufficient
  <2> HIDE DEF e
  <2>4. /\ loc'[t].cand = e /\ ~loc'[t].rejected /\ loc'[t].base = estimator
        /\ loc'[t].snap = loc[t].snap
    BY <1>1, <1>2, <2>1 DEF Locals
  <2>5. CandidateInv(t)'
    BY <1>1, <2>1, <2>2, <2>3, <2>4 DEF CandidateInv
  <2>6. ReferenceInv(t)'
    BY <1>1, <1>2, <2>3 DEF ReferenceInv
  <2> QED
    BY <1>3, <1>4, <2>4, <2>5, <2>6 DEF SeqInv
<1>8. CASE FitInsufficient(t) /\ ~AllowDegrade
  <2>1. pc'[t] = "reset" /\ UNCHANGED <<loc, lr>>
    BY <1>8 DEF FitInsufficient, Goto, TypeOK, data
  <2>2. CandidateInv(t)'
    BY <1>2, <2>1 DEF CandidateInv
  <2>3. ReferenceInv(t)'
    BY <1>1, <1>2, <2>1 DEF ReferenceInv, Republishes
  <2> QED
    BY <1>3, <1>4, <2>1, <2>2, <2>3 DEF SeqInv
<1> QED
  BY <1>5, <1>6, <1>7, <1>8

LEMMA ErrorSeq ==
    ASSUME NEW t \in Threads, TypeOK, SeqInv(t), FitError(t)
    PROVE  SeqInv(t)'
<1>1. /\ pc[t] \in {"choose", "fit"} /\ pc'[t] = "reset"
      /\ UNCHANGED <<up, saved, counter, estimator, lr, reference, loc>>
      /\ UNCHANGED <<fresh, tried, referenced, unchecked>>
  BY DEF FitError, Goto, TypeOK, data
<1>2. TallyInv(t)'
  BY <1>1, TallyInRetrain DEF SeqInv, RetrainPCs
<1>3. PromotedInv' /\ CandidateInv(t)'
  BY <1>1 DEF SeqInv, PromotedInv, CandidateInv
<1>4. ReferenceInv(t)'
  BY <1>1 DEF SeqInv, ReferenceInv, Republishes
<1> QED
  BY <1>2, <1>3, <1>4 DEF SeqInv

LEMMA PublishSeq ==
    ASSUME NEW t \in Threads, TypeOK, SeqInv(t),
           Swap(t) \/ ClearReference(t) \/ FillReference(t) \/ Reset(t)
    PROVE  SeqInv(t)'
<1>1. /\ loc[t].snap = saved /\ up /\ ~unchecked /\ saved \in Nat /\ reference \in Nat
      /\ saved = tried + fresh
  BY DEF Swap, ClearReference, FillReference, Reset, TypeOK,
         SeqInv, TallyInv, ReferenceInv, RetrainPCs
<1>2. CASE Swap(t)
  <2>1. /\ pc[t] = "swap" /\ estimator' = loc[t].cand
        /\ UNCHANGED <<up, saved, counter, lr, reference, loc>>
        /\ UNCHANGED <<fresh, tried, referenced, unchecked>>
    BY <1>2 DEF Swap, history
  <2>2. pc'[t] = IF IsLR(loc[t].cand) /\ ~loc[t].rejected THEN "clear" ELSE "reset"
    BY <1>2 DEF Swap, Goto, IsLR, TypeOK
  <2>3. TallyInv(t)'
    BY <2>1, <2>2, TallyInRetrain DEF SeqInv, RetrainPCs
  <2>4. PromotedInv'
    BY <1>1, <2>1 DEF SeqInv, PromotedInv, CandidateInv, IsLR
  <2>5. CandidateInv(t)'
    BY <2>1, <2>2 DEF SeqInv, CandidateInv, IsLR
  <2>6. ReferenceInv(t)'
    BY <1>1, <2>1, <2>2 DEF SeqInv, CandidateInv, ReferenceInv, Republishes, IsLR
  <2> QED
    BY <2>3, <2>4, <2>5, <2>6 DEF SeqInv
<1>3. CASE ClearReference(t)
  <2>1. /\ pc[t] = "clear" /\ pc'[t] = "fill" /\ reference' = 0
        /\ UNCHANGED <<up, saved, counter, estimator, lr, loc>>
        /\ UNCHANGED <<fresh, tried, referenced, unchecked>>
    BY <1>3 DEF ClearReference, Goto, TypeOK, history
  <2>2. TallyInv(t)'
    BY <2>1, TallyInRetrain DEF SeqInv, RetrainPCs
  <2>3. PromotedInv' /\ CandidateInv(t)'
    BY <2>1 DEF SeqInv, PromotedInv, CandidateInv, IsLR
  <2>4. ReferenceInv(t)'
    BY <1>1, <2>1 DEF ReferenceInv, Republishes
  <2> QED
    BY <2>2, <2>3, <2>4 DEF SeqInv
<1>4. CASE FillReference(t)
  <2>1. /\ pc[t] = "fill" /\ pc'[t] = "reset" /\ reference' = loc[t].snap
        /\ UNCHANGED <<up, saved, counter, estimator, lr, loc>>
        /\ UNCHANGED <<fresh, tried, unchecked>>
    BY <1>4 DEF FillReference, Goto, TypeOK
  <2>2. IsLR(estimator) /\ lr[estimator.obj].rows = saved /\ saved > 0
    BY <1>1, <2>1, RankerAssumption DEF SeqInv, CandidateInv, PromotedInv
  <2>3. TallyInv(t)'
    BY <2>1, TallyInRetrain DEF SeqInv, RetrainPCs
  <2>4. PromotedInv' /\ CandidateInv(t)'
    BY <2>1 DEF SeqInv, PromotedInv, CandidateInv, IsLR
  <2>5. ReferenceInv(t)'
    BY <1>1, <2>1, <2>2 DEF ReferenceInv, IsLR
  <2> QED
    BY <2>3, <2>4, <2>5 DEF SeqInv
<1>5. CASE Reset(t)
  <2>1. /\ pc[t] = "reset" /\ pc'[t] = "idle" /\ loc'[t] = NoLocals
        /\ counter' = 0 /\ fresh' = 0 /\ tried' = saved
        /\ UNCHANGED <<up, saved, estimator, lr, reference, referenced, unchecked>>
    BY <1>1, <1>5 DEF Reset, Goto, Finish, TypeOK
  <2>2. TallyInv(t)'
    BY <1>1, <2>1, RankerAssumption DEF TallyInv, RetrainPCs
  <2>3. PromotedInv' /\ CandidateInv(t)'
    BY <2>1 DEF SeqInv, PromotedInv, CandidateInv, IsLR, NoLocals
  <2>4. ReferenceInv(t)'
    BY <2>1 DEF SeqInv, ReferenceInv, Republishes, IsLR
  <2> QED
    BY <2>2, <2>3, <2>4 DEF SeqInv
<1> QED
  BY <1>2, <1>3, <1>4, <1>5

LEMMA ProcessSeq ==
    ASSUME NEW t \in Threads, TypeOK, SeqInv(t), Crash \/ Restart
    PROVE  SeqInv(t)'
<1>1. CASE Crash
  <2>1. /\ up' = FALSE /\ fresh' = 0 /\ counter' = 0 /\ reference' = 0
        /\ referenced' = FALSE /\ UNCHANGED unchecked
        /\ pc'[t] = "idle" /\ loc'[t] = NoLocals /\ estimator' = Heuristic(0)
    BY <1>1 DEF Crash
  <2>2. ~IsLR(estimator')
    BY <2>1, EstimatorsTyped DEF IsLR
  <2>3. TallyInv(t)'
    BY <2>1, RankerAssumption DEF TallyInv, RetrainPCs
  <2>4. PromotedInv' /\ CandidateInv(t)'
    BY <2>1, <2>2 DEF PromotedInv, CandidateInv, NoLocals
  <2>5. ReferenceInv(t)'
    BY <2>1 DEF SeqInv, ReferenceInv
  <2> QED
    BY <2>3, <2>4, <2>5 DEF SeqInv
<1>2. CASE WarmStart
  <2>1. /\ ~up /\ up' /\ tried' = saved
        /\ UNCHANGED <<saved, counter, reference, pc, loc, fresh, referenced, unchecked>>
    BY <1>2 DEF WarmStart
  <2>2. pc[t] = "idle" /\ fresh = 0 /\ reference = 0 /\ ~referenced /\ ~loc[t].rejected
    BY <2>1 DEF SeqInv, TallyInv, CandidateInv, ReferenceInv
  <2>3. IsLR(estimator') => saved >= ColdStart /\ saved >= FullFitMin
    BY <1>2, EstimatorsTyped DEF WarmStart, IsLR, TypeOK
  <2>4. TallyInv(t)'
    BY <2>1, <2>2 DEF SeqInv, TallyInv, RetrainPCs, TypeOK
  <2>5. PromotedInv' /\ CandidateInv(t)'
    BY <2>1, <2>2, <2>3 DEF PromotedInv, CandidateInv
  <2>6. ReferenceInv(t)'
    BY <2>1, <2>2 DEF SeqInv, ReferenceInv
  <2> QED
    BY <2>4, <2>5, <2>6 DEF SeqInv
<1>3. CASE WarmStartInsufficient \/ WarmStartError
  <2>1. /\ UNCHANGED <<up, saved, counter, estimator, lr, reference, pc, loc>>
        /\ UNCHANGED <<fresh, tried, referenced, unchecked>>
    BY <1>3 DEF WarmStartInsufficient, WarmStartError, data
  <2> QED
    BY <2>1 DEF SeqInv, TallyInv, PromotedInv, CandidateInv, ReferenceInv, Republishes
<1> QED
  BY <1>1, <1>2, <1>3 DEF Restart

LEMMA NextSeq ==
    ASSUME NEW t, Threads = {t}
    PROVE  TypeOK /\ SeqInv(t) /\ [Next]_vars => SeqInv(t)'
<1> SUFFICES ASSUME TypeOK, SeqInv(t), [Next]_vars PROVE SeqInv(t)'
  OBVIOUS
<1>1. CASE ThreadStep(t)
  BY <1>1, RecordSeq, ReadSeq, ChooseSeq, FitSeq, ErrorSeq, PublishSeq DEF ThreadStep, Work
<1>2. CASE UNCHANGED vars
  BY <1>2 DEF vars, data, history, SeqInv, TallyInv, PromotedInv, CandidateInv, ReferenceInv,
              Republishes, IsLR
<1> QED
  BY <1>1, <1>2, ProcessSeq DEF Next

LEMMA InitSeq ==
    ASSUME NEW t, Threads = {t}
    PROVE  Init => SeqInv(t)
<1> SUFFICES ASSUME Init PROVE SeqInv(t)
  OBVIOUS
<1>1. ~IsLR(estimator)
  BY EstimatorsTyped DEF Init, IsLR
<1>2. pc[t] = "idle" /\ loc[t] = NoLocals
  BY DEF Init
<1>3. TallyInv(t)
  BY <1>2, RankerAssumption DEF Init, TallyInv, RetrainPCs
<1>4. CandidateInv(t)
  BY <1>2 DEF CandidateInv, NoLocals
<1>5. ReferenceInv(t) /\ PromotedInv
  BY <1>1, <1>2 DEF Init, ReferenceInv, PromotedInv
<1> QED
  BY <1>3, <1>4, <1>5 DEF SeqInv

LEMMA StaysSequential ==
    ASSUME NEW t, Threads = {t}
    PROVE  Spec => [](TypeOK /\ SeqInv(t))
BY InitSeq, NextSeq, TypeCorrect, PTL DEF Spec

\* At rest fewer than retrain_every_n records have not been looked at by any
\* retrain attempt, whether the attempts succeeded, degraded, raised or were
\* cut short by a crash.
THEOREM SequentialRetrainsInTime ==
    ASSUME Sequential PROVE Spec => []RetrainedInTime
<1> PICK t : Threads = {t}
  BY DEF Sequential
<1>1. TypeOK /\ SeqInv(t) => RetrainedInTime
  BY DEF TypeOK, SeqInv, TallyInv, RetrainedInTime, AtRest
<1>2. Spec => [](TypeOK /\ SeqInv(t))
  BY StaysSequential
<1> QED
  BY <1>1, <1>2, PTL

\* At rest the drift reference is what the model in use was fitted to.
THEOREM SequentialReferenceFollows ==
    ASSUME Sequential PROVE Spec => []ReferenceFollowsModel
<1> PICK t : Threads = {t}
  BY DEF Sequential
<1>1. TypeOK /\ SeqInv(t) => ReferenceFollowsModel
  BY DEF SeqInv, ReferenceInv, Republishes, ReferenceFollowsModel, AtRest, IsLR, Rows
<1>2. Spec => [](TypeOK /\ SeqInv(t))
  BY StaysSequential
<1> QED
  BY <1>1, <1>2, PTL

\* No retrain goes without its drift check once a reference has been set: the
\* empty dictionary set_reference() publishes is seen by nobody.
THEOREM SequentialChecksDrift ==
    ASSUME Sequential PROVE Spec => []DriftIsChecked
<1> PICK t : Threads = {t}
  BY DEF Sequential
<1>1. SeqInv(t) => DriftIsChecked
  BY DEF SeqInv, ReferenceInv, DriftIsChecked
<1>2. Spec => [](TypeOK /\ SeqInv(t))
  BY StaysSequential
<1> QED
  BY <1>1, <1>2, PTL

\* A published LambdaRank model is never replaced by a heuristic or a gradient.
THEOREM SequentialNeverDemotes ==
    ASSUME Sequential PROVE Spec => NeverDemoted
<1> PICK t : Threads = {t}
  BY DEF Sequential
<1>1. SeqInv(t) /\ [Next]_vars =>
         [up /\ up' /\ estimator.kind = "lambdarank" => estimator'.kind = "lambdarank"]_vars
  <2> SUFFICES ASSUME SeqInv(t), Next, up, up', estimator.kind = "lambdarank"
               PROVE  estimator'.kind = "lambdarank"
    OBVIOUS
  <2>1. CASE Swap(t)
    BY <2>1 DEF Swap, SeqInv, CandidateInv, IsLR
  <2>2. CASE ThreadStep(t) /\ ~Swap(t)
    <3>1. UNCHANGED estimator
      BY <2>2 DEF ThreadStep, Work, Record, Save, Count, CountLoad, CountStore, CountTest,
                  Retrain, Snapshot, ReadBase, DriftCheck, FitHeuristic, ChooseSame, ChooseNew,
                  FitFull, FitIncremental, FitRejected, FitInsufficient, FitError,
                  ClearReference, FillReference, Reset, data
    <3> QED
      BY <3>1
  <2>3. ~Crash /\ ~Restart
    BY DEF Crash, Restart, WarmStart, WarmStartInsufficient, WarmStartError, data
  <2> QED
    BY <2>1, <2>2, <2>3 DEF Next
<1>2. Spec => [](TypeOK /\ SeqInv(t))
  BY StaysSequential
<1> QED
  BY <1>1, <1>2, PTL DEF Spec, NeverDemoted

\* An automatic retrain never starts on fewer than retrain_every_n records
\* saved since the last attempt ended: a fit that raises is not retried at once.
THEOREM SequentialSpacesAttempts ==
    ASSUME Sequential PROVE Spec => AttemptsAreSpaced
<1> PICK t : Threads = {t}
  BY DEF Sequential
<1>1. TypeOK /\ SeqInv(t) /\ [Next]_vars => [StartsAreSpaced]_vars
  <2> SUFFICES ASSUME TypeOK, SeqInv(t), Next,
                      pc[t] \in {"count", "test"}, pc'[t] = "snapshot"
               PROVE  fresh >= RetrainEvery
    BY DEF StartsAreSpaced
  <2>1. Count(t) \/ CountTest(t)
    <3>1. ThreadStep(t)
      BY DEF Next, Crash, Restart, WarmStart, WarmStartInsufficient, WarmStartError,
             SeqInv, TallyInv
    <3> QED
      BY <3>1 DEF ThreadStep, Work, Record, Save, CountLoad, CountStore, Goto, TypeOK,
                  Retrain, Snapshot, ReadBase, DriftCheck, FitHeuristic, ChooseSame, ChooseNew,
                  FitFull, FitIncremental, FitRejected, FitInsufficient, FitError, Swap,
                  ClearReference, FillReference, Reset
  <2>2. CASE Count(t)
    BY <2>2 DEF Count, Goto, TypeOK, SeqInv, TallyInv
  <2>3. CASE CountTest(t)
    BY <2>3 DEF CountTest, Goto, Finish, TypeOK, SeqInv, TallyInv
  <2> QED
    BY <2>1, <2>2, <2>3
<1>2. Spec => [](TypeOK /\ SeqInv(t))
  BY StaysSequential
<1> QED
  BY <1>1, <1>2, PTL DEF Spec, AttemptsAreSpaced
=============================================================================
