---------------------------- MODULE LambdaRankProofs ----------------------------
(***************************************************************************)
(* Proofs about LambdaRank, for any threads, data and scores.              *)
(***************************************************************************)
EXTENDS LambdaRank, SequenceTheorems, TLAPS

-----------------------------------------------------------------------------
(* What the actions do to the threads *)

JobShape(j) ==
    j = [full |-> j.full, data |-> j.data, prev |-> j.prev, prevRho |-> j.prevRho,
         want |-> j.want, slot |-> j.slot, codes |-> j.codes, new |-> j.new]

\* The variables of the threads are those that Init gives them.
Shape ==
    /\ pc = [t \in Threads |-> pc[t]]
    /\ job = [t \in Threads |-> job[t]]
    /\ \A t \in Threads : JobShape(job[t])

\* t goes on at place, and no other thread moves.
Moves(t, place) ==
    /\ Shape'
    /\ pc'[t] = place
    /\ \A u \in Threads \ {t} : pc'[u] = pc[u] /\ job'[u] = job[u]

LEMMA Moved ==
    ASSUME Shape, NEW t \in Threads, NEW place, NEW local, JobShape(local), Goto(t, place, local)
    PROVE  Moves(t, place) /\ job'[t] = local
<1>1. /\ pc' = [u \in Threads |-> IF u = t THEN place ELSE pc[u]]
      /\ job' = [u \in Threads |-> IF u = t THEN local ELSE job[u]]
  BY DEF Shape, Goto
<1>2. /\ pc'[t] = place /\ job'[t] = local
      /\ \A u \in Threads \ {t} : pc'[u] = pc[u] /\ job'[u] = job[u]
  BY <1>1
<1>3. pc' = [u \in Threads |-> pc'[u]] /\ job' = [u \in Threads |-> job'[u]]
  BY <1>1
<1>4. \A u \in Threads : JobShape(job'[u])
  BY <1>2 DEF Shape
<1> QED  BY <1>2, <1>3, <1>4 DEF Moves, Shape, JobShape

\* Updates of one field.
LEMMA JobUpdates ==
    ASSUME NEW j, JobShape(j), NEW a
    PROVE  /\ JobShape([j EXCEPT !.full = a]) /\ JobShape([j EXCEPT !.data = a])
           /\ JobShape([j EXCEPT !.prev = a]) /\ JobShape([j EXCEPT !.prevRho = a])
           /\ JobShape([j EXCEPT !.want = a]) /\ JobShape([j EXCEPT !.slot = a])
           /\ JobShape([j EXCEPT !.codes = a]) /\ JobShape([j EXCEPT !.new = a])
<1>1. JobShape([j EXCEPT !.full = a]) /\ JobShape([j EXCEPT !.data = a])
  BY DEF JobShape
<1>2. JobShape([j EXCEPT !.prev = a]) /\ JobShape([j EXCEPT !.prevRho = a])
  BY DEF JobShape
<1>3. JobShape([j EXCEPT !.want = a]) /\ JobShape([j EXCEPT !.slot = a])
  BY DEF JobShape
<1>4. JobShape([j EXCEPT !.codes = a]) /\ JobShape([j EXCEPT !.new = a])
  BY DEF JobShape
<1> QED  BY <1>1, <1>2, <1>3, <1>4

LEMMA IdleShape == JobShape(Idle)
BY DEF JobShape, Idle

LEMMA IdleFields ==
    /\ ~Idle.full /\ Idle.want = <<>> /\ Idle.new = NoModel /\ Idle.prev = NoModel
    /\ Idle.codes = NoCodes
BY DEF Idle

\* The local variables that the actions leave.
StartOf(full, data) == [Idle EXCEPT !.full = full, !.data = data]
AskOf(prev, data, want) == [Idle EXCEPT !.prev = prev, !.data = data, !.want = want]
ReadOf(j, prev, prevRho, want) ==
    [j EXCEPT !.prev = prev, !.prevRho = prevRho, !.want = want]
WantOf(j, want) == [j EXCEPT !.want = want]
SlotOf(j, slot) == [j EXCEPT !.slot = slot]
PutOf(j, want, slot) == [j EXCEPT !.want = want, !.slot = slot]
CodedOf(j, codes) == [j EXCEPT !.codes = codes]
FullOf(full) == [Idle EXCEPT !.full = full]
TrainedOf(full, new) == [Idle EXCEPT !.full = full, !.new = new]
NewOf(j, new) == [j EXCEPT !.new = new]

LEMMA Started ==
    ASSUME NEW full, NEW data
    PROVE  LET k == StartOf(full, data)
           IN  /\ JobShape(k)
               /\ k.full = full
               /\ k.data = data
               /\ k.prev = Idle.prev /\ k.prevRho = Idle.prevRho /\ k.want = Idle.want
               /\ k.new = Idle.new
<1> DEFINE k1 == [Idle EXCEPT !.full = full]
           k2 == [k1 EXCEPT !.data = data]
<1>1. /\ JobShape(k1) /\ k1.full = full
      /\ k1.prev = Idle.prev /\ k1.prevRho = Idle.prevRho /\ k1.want = Idle.want /\ k1.new = Idle.new
      /\ k1.data = Idle.data
  BY JobUpdates, IdleShape DEF Idle
<1> HIDE DEF k1
<1>2. /\ JobShape(k2) /\ k2.data = data
      /\ k2.prev = k1.prev /\ k2.prevRho = k1.prevRho /\ k2.want = k1.want /\ k2.new = k1.new
      /\ k2.full = k1.full
  BY <1>1 DEF JobShape
<1>3. k2 = StartOf(full, data)
  BY Zenon DEF k1, StartOf
<1> HIDE DEF k2
<1> QED  BY <1>1, <1>2, <1>3

LEMMA Asked ==
    ASSUME NEW prev, NEW data, NEW want
    PROVE  LET k == AskOf(prev, data, want)
           IN  /\ JobShape(k)
               /\ k.prev = prev
               /\ k.data = data
               /\ k.want = want
               /\ k.full = Idle.full /\ k.prevRho = Idle.prevRho /\ k.new = Idle.new
<1> DEFINE k1 == [Idle EXCEPT !.prev = prev]
           k2 == [k1 EXCEPT !.data = data]
           k3 == [k2 EXCEPT !.want = want]
<1>1. /\ JobShape(k1) /\ k1.prev = prev
      /\ k1.full = Idle.full /\ k1.prevRho = Idle.prevRho /\ k1.new = Idle.new /\ k1.data = Idle.data
      /\ k1.want = Idle.want
  BY JobUpdates, IdleShape DEF Idle
<1> HIDE DEF k1
<1>2. /\ JobShape(k2) /\ k2.data = data
      /\ k2.full = k1.full /\ k2.prevRho = k1.prevRho /\ k2.new = k1.new /\ k2.prev = k1.prev
      /\ k2.want = k1.want
  BY <1>1 DEF JobShape
<1> HIDE DEF k2
<1>3. /\ JobShape(k3) /\ k3.want = want
      /\ k3.full = k2.full /\ k3.prevRho = k2.prevRho /\ k3.new = k2.new /\ k3.prev = k2.prev
      /\ k3.data = k2.data
  BY <1>2 DEF JobShape
<1>4. k3 = AskOf(prev, data, want)
  BY Zenon DEF k1, k2, AskOf
<1> HIDE DEF k3
<1> QED  BY <1>1, <1>2, <1>3, <1>4

LEMMA HasRead ==
    ASSUME NEW j, NEW prev, NEW prevRho, NEW want, JobShape(j)
    PROVE  LET k == ReadOf(j, prev, prevRho, want)
           IN  /\ JobShape(k)
               /\ k.prev = prev
               /\ k.prevRho = prevRho
               /\ k.want = want
               /\ k.full = j.full /\ k.data = j.data /\ k.new = j.new
<1> DEFINE k1 == [j EXCEPT !.prev = prev]
           k2 == [k1 EXCEPT !.prevRho = prevRho]
           k3 == [k2 EXCEPT !.want = want]
<1>1. /\ JobShape(k1) /\ k1.prev = prev
      /\ k1.full = j.full /\ k1.data = j.data /\ k1.new = j.new /\ k1.prevRho = j.prevRho
      /\ k1.want = j.want
  BY DEF JobShape
<1> HIDE DEF k1
<1>2. /\ JobShape(k2) /\ k2.prevRho = prevRho
      /\ k2.full = k1.full /\ k2.data = k1.data /\ k2.new = k1.new /\ k2.prev = k1.prev
      /\ k2.want = k1.want
  BY <1>1 DEF JobShape
<1> HIDE DEF k2
<1>3. /\ JobShape(k3) /\ k3.want = want
      /\ k3.full = k2.full /\ k3.data = k2.data /\ k3.new = k2.new /\ k3.prev = k2.prev
      /\ k3.prevRho = k2.prevRho
  BY <1>2 DEF JobShape
<1>4. k3 = ReadOf(j, prev, prevRho, want)
  BY Zenon DEF k1, k2, ReadOf
<1> HIDE DEF k3
<1> QED  BY <1>1, <1>2, <1>3, <1>4

LEMMA HasWant ==
    ASSUME NEW j, NEW want, JobShape(j)
    PROVE  LET k == WantOf(j, want)
           IN  /\ JobShape(k)
               /\ k.want = want
               /\ k.full = j.full /\ k.data = j.data /\ k.prev = j.prev
               /\ k.prevRho = j.prevRho /\ k.new = j.new
<1> DEFINE k1 == [j EXCEPT !.want = want]
<1>1. /\ JobShape(k1) /\ k1.want = want
      /\ k1.full = j.full /\ k1.data = j.data /\ k1.prev = j.prev /\ k1.prevRho = j.prevRho
      /\ k1.new = j.new
  BY DEF JobShape
<1> QED  BY <1>1 DEF WantOf

LEMMA HasSlot ==
    ASSUME NEW j, NEW slot, JobShape(j)
    PROVE  LET k == SlotOf(j, slot)
           IN  /\ JobShape(k)
               /\ k.slot = slot
               /\ k.full = j.full /\ k.data = j.data /\ k.prev = j.prev
               /\ k.prevRho = j.prevRho /\ k.want = j.want /\ k.new = j.new
<1> DEFINE k1 == [j EXCEPT !.slot = slot]
<1>1. /\ JobShape(k1) /\ k1.slot = slot
      /\ k1.full = j.full /\ k1.data = j.data /\ k1.prev = j.prev /\ k1.prevRho = j.prevRho
      /\ k1.want = j.want /\ k1.new = j.new
  BY DEF JobShape
<1> QED  BY <1>1 DEF SlotOf

LEMMA HasPut ==
    ASSUME NEW j, NEW want, NEW slot, JobShape(j)
    PROVE  LET k == PutOf(j, want, slot)
           IN  /\ JobShape(k)
               /\ k.want = want
               /\ k.slot = slot
               /\ k.full = j.full /\ k.data = j.data /\ k.prev = j.prev
               /\ k.prevRho = j.prevRho /\ k.new = j.new
<1> DEFINE k1 == [j EXCEPT !.want = want]
           k2 == [k1 EXCEPT !.slot = slot]
<1>1. /\ JobShape(k1) /\ k1.want = want
      /\ k1.full = j.full /\ k1.data = j.data /\ k1.prev = j.prev /\ k1.prevRho = j.prevRho
      /\ k1.new = j.new /\ k1.slot = j.slot
  BY DEF JobShape
<1> HIDE DEF k1
<1>2. /\ JobShape(k2) /\ k2.slot = slot
      /\ k2.full = k1.full /\ k2.data = k1.data /\ k2.prev = k1.prev /\ k2.prevRho = k1.prevRho
      /\ k2.new = k1.new /\ k2.want = k1.want
  BY <1>1 DEF JobShape
<1>3. k2 = PutOf(j, want, slot)
  BY Zenon DEF k1, PutOf
<1> HIDE DEF k2
<1> QED  BY <1>1, <1>2, <1>3

LEMMA HasCodes ==
    ASSUME NEW j, NEW codes, JobShape(j)
    PROVE  LET k == CodedOf(j, codes)
           IN  /\ JobShape(k)
               /\ k.codes = codes
               /\ k.full = j.full /\ k.data = j.data /\ k.prev = j.prev
               /\ k.prevRho = j.prevRho /\ k.want = j.want /\ k.new = j.new
<1> DEFINE k1 == [j EXCEPT !.codes = codes]
<1>1. /\ JobShape(k1) /\ k1.codes = codes
      /\ k1.full = j.full /\ k1.data = j.data /\ k1.prev = j.prev /\ k1.prevRho = j.prevRho
      /\ k1.want = j.want /\ k1.new = j.new
  BY DEF JobShape
<1> QED  BY <1>1 DEF CodedOf

LEMMA HasKind ==
    ASSUME NEW full
    PROVE  LET k == FullOf(full)
           IN  /\ JobShape(k)
               /\ k.full = full
               /\ k.data = Idle.data /\ k.prev = Idle.prev /\ k.prevRho = Idle.prevRho
               /\ k.want = Idle.want /\ k.new = Idle.new
<1> DEFINE k1 == [Idle EXCEPT !.full = full]
<1>1. /\ JobShape(k1) /\ k1.full = full
      /\ k1.data = Idle.data /\ k1.prev = Idle.prev /\ k1.prevRho = Idle.prevRho /\ k1.want = Idle.want
      /\ k1.new = Idle.new
  BY JobUpdates, IdleShape DEF Idle
<1> QED  BY <1>1 DEF FullOf

LEMMA HasTrained ==
    ASSUME NEW full, NEW new
    PROVE  LET k == TrainedOf(full, new)
           IN  /\ JobShape(k)
               /\ k.full = full
               /\ k.new = new
               /\ k.data = Idle.data /\ k.prev = Idle.prev /\ k.prevRho = Idle.prevRho
               /\ k.want = Idle.want
<1> DEFINE k1 == [Idle EXCEPT !.full = full]
           k2 == [k1 EXCEPT !.new = new]
<1>1. /\ JobShape(k1) /\ k1.full = full
      /\ k1.data = Idle.data /\ k1.prev = Idle.prev /\ k1.prevRho = Idle.prevRho /\ k1.want = Idle.want
      /\ k1.new = Idle.new
  BY JobUpdates, IdleShape DEF Idle
<1> HIDE DEF k1
<1>2. /\ JobShape(k2) /\ k2.new = new
      /\ k2.data = k1.data /\ k2.prev = k1.prev /\ k2.prevRho = k1.prevRho /\ k2.want = k1.want
      /\ k2.full = k1.full
  BY <1>1 DEF JobShape
<1>3. k2 = TrainedOf(full, new)
  BY Zenon DEF k1, TrainedOf
<1> HIDE DEF k2
<1> QED  BY <1>1, <1>2, <1>3

LEMMA HasNew ==
    ASSUME NEW j, NEW new, JobShape(j)
    PROVE  LET k == NewOf(j, new)
           IN  /\ JobShape(k)
               /\ k.new = new
               /\ k.full = j.full /\ k.data = j.data /\ k.prev = j.prev
               /\ k.prevRho = j.prevRho /\ k.want = j.want
<1> DEFINE k1 == [j EXCEPT !.new = new]
<1>1. /\ JobShape(k1) /\ k1.new = new
      /\ k1.full = j.full /\ k1.data = j.data /\ k1.prev = j.prev /\ k1.prevRho = j.prevRho
      /\ k1.want = j.want
  BY DEF JobShape
<1> QED  BY <1>1 DEF NewOf

\* fit() decides on its kind.
LEMMA BeginDoes ==
    ASSUME Shape, NEW t \in Threads, Begin(t)
    PROVE  /\ t \in Fitters /\ pc[t] = "idle"
           /\ \/ /\ Moves(t, "reset") /\ job'[t].full
                 /\ model = NoModel \/ incrementals >= FullEvery
              \/ /\ Moves(t, "previous") /\ ~job'[t].full
                 /\ ~(model = NoModel \/ incrementals >= FullEvery)
           /\ \E d \in Datasets : job'[t].data = Groups(d)
           /\ alone' = (alone /\ Busy = {})
           /\ UNCHANGED <<model, rho, incrementals, encoder, stranded>>
<1> DEFINE full == model = NoModel \/ incrementals >= FullEvery
           local(d) == StartOf(full, Groups(d))
<1>1. PICK d \in Datasets : Goto(t, IF full THEN "reset" ELSE "previous", local(d))
  BY Zenon DEF Begin, StartOf
<1>2. JobShape(local(d)) /\ local(d).full = full /\ local(d).data = Groups(d)
  BY Started
<1> HIDE DEF local
<1>3. CASE full
  <2>1. Goto(t, "reset", local(d))
    BY <1>1, <1>3
  <2>2. Moves(t, "reset") /\ job'[t] = local(d)
    BY <1>2, <2>1, Moved
  <2> QED  BY <1>2, <1>3, <2>2 DEF Begin, swapped
<1>4. CASE ~full
  <2>1. Goto(t, "previous", local(d))
    BY <1>1, <1>4
  <2>2. Moves(t, "previous") /\ job'[t] = local(d)
    BY <1>2, <2>1, Moved
  <2> QED  BY <1>2, <1>4, <2>2 DEF Begin, swapped
<1> QED  BY <1>3, <1>4

LEMMA ReadPreviousDoes ==
    ASSUME Shape, NEW t \in Threads, ReadPrevious(t)
    PROVE  /\ pc[t] = "previous" /\ Moves(t, "extend")
           /\ job'[t].prev = model /\ job'[t].prevRho = rho
           /\ job'[t].want = RowTypes(job[t].data)
           /\ job'[t].full = job[t].full /\ job'[t].data = job[t].data
           /\ UNCHANGED <<model, rho, incrementals, encoder, alone, stranded>>
<1> DEFINE local == ReadOf(job[t], model, rho, RowTypes(job[t].data))
<1>1. Goto(t, "extend", local)
  BY Zenon DEF ReadPrevious, ReadOf
<1>2. /\ JobShape(local) /\ local.prev = model /\ local.prevRho = rho
      /\ local.want = RowTypes(job[t].data)
      /\ local.full = job[t].full /\ local.data = job[t].data
  <2>1. JobShape(job[t])
    BY DEF Shape
  <2> QED  BY <2>1, HasRead
<1> HIDE DEF local
<1>3. Moves(t, "extend") /\ job'[t] = local
  BY <1>1, <1>2, Moved
<1> QED  BY <1>2, <1>3 DEF ReadPrevious, swapped

LEMMA ResetDoes ==
    ASSUME Shape, NEW t \in Threads, Reset(t)
    PROVE  /\ pc[t] = "reset" /\ Moves(t, "extend")
           /\ encoder' = [gen |-> encoder.gen + 1, codes |-> NoCodes]
           /\ job'[t].want = RowTypes(job[t].data)
           /\ job'[t].full = job[t].full /\ job'[t].data = job[t].data
           /\ UNCHANGED <<model, rho, incrementals, alone, stranded>>
<1> DEFINE local == WantOf(job[t], RowTypes(job[t].data))
<1>1. Goto(t, "extend", local)
  BY Zenon DEF Reset, WantOf
<1>2. JobShape(job[t])
  BY DEF Shape
<1>3. /\ JobShape(local) /\ local.want = RowTypes(job[t].data)
      /\ local.full = job[t].full /\ local.data = job[t].data
  BY <1>2, HasWant
<1> HIDE DEF local
<1>4. Moves(t, "extend") /\ job'[t] = local
  BY <1>1, <1>3, Moved
<1> QED  BY <1>3, <1>4 DEF Reset, swapped

LEMMA AskDoes ==
    ASSUME Shape, NEW t \in Threads, Ask(t)
    PROVE  /\ t \in Predictors /\ pc[t] = "idle" /\ Moves(t, "extend") /\ model # NoModel
           /\ job'[t].prev = model
           /\ \E batch \in Batches :
                job'[t].data = <<batch>> /\ job'[t].want = RowTypes(<<batch>>)
           /\ alone' = (alone /\ Busy = {})
           /\ UNCHANGED <<model, rho, incrementals, encoder, stranded>>
<1> DEFINE local(batch) == AskOf(model, <<batch>>, RowTypes(<<batch>>))
<1>1. PICK batch \in Batches : Goto(t, "extend", local(batch))
  BY Zenon DEF Ask, AskOf
<1>2. /\ JobShape(local(batch)) /\ local(batch).prev = model
      /\ local(batch).data = <<batch>> /\ local(batch).want = RowTypes(<<batch>>)
  BY Asked
<1> HIDE DEF local
<1>3. Moves(t, "extend") /\ job'[t] = local(batch)
  BY <1>1, <1>2, Moved
<1> QED  BY <1>2, <1>3 DEF Ask, swapped

\* A code that there is is passed over; for one that there is not a number is taken.
LEMMA LookDoes ==
    ASSUME Shape, NEW t \in Threads, Look(t)
    PROVE  /\ pc[t] = "extend" /\ job[t].want # <<>>
           /\ \/ /\ Moves(t, "extend") /\ job'[t].want = Tail(job[t].want)
                 /\ Head(job[t].want) \in DOMAIN encoder.codes
              \/ /\ Moves(t, "put") /\ job'[t].want = job[t].want
                 /\ job'[t].slot = <<encoder.gen, Cardinality(DOMAIN encoder.codes)>>
                 /\ Head(job[t].want) \notin DOMAIN encoder.codes
           /\ job'[t].full = job[t].full /\ job'[t].data = job[t].data
           /\ job'[t].prev = job[t].prev /\ job'[t].prevRho = job[t].prevRho
           /\ UNCHANGED <<model, rho, incrementals, encoder, alone, stranded>>
<1>1. JobShape(job[t])
  BY DEF Shape
<1>2. CASE Head(job[t].want) \in DOMAIN encoder.codes
  <2> DEFINE local == WantOf(job[t], Tail(job[t].want))
  <2>1. Goto(t, "extend", local)
    BY <1>2, Zenon DEF Look, WantOf
  <2>2. /\ JobShape(local) /\ local.want = Tail(job[t].want)
        /\ local.full = job[t].full /\ local.data = job[t].data
        /\ local.prev = job[t].prev /\ local.prevRho = job[t].prevRho
    BY <1>1, HasWant
  <2> HIDE DEF local
  <2>3. Moves(t, "extend") /\ job'[t] = local
    BY <2>1, <2>2, Moved
  <2>4. /\ pc[t] = "extend" /\ job[t].want # <<>>
        /\ UNCHANGED <<model, rho, incrementals, encoder, alone, stranded>>
    BY DEF Look, swapped
  <2> QED  BY <1>2, <2>2, <2>3, <2>4
<1>3. CASE Head(job[t].want) \notin DOMAIN encoder.codes
  <2> DEFINE slot == <<encoder.gen, Cardinality(DOMAIN encoder.codes)>>
             local == SlotOf(job[t], slot)
  <2>1. Goto(t, "put", local)
    BY <1>3, Zenon DEF Look, SlotOf
  <2>2. /\ JobShape(local) /\ local.slot = slot /\ local.want = job[t].want
        /\ local.full = job[t].full /\ local.data = job[t].data
        /\ local.prev = job[t].prev /\ local.prevRho = job[t].prevRho
    BY <1>1, HasSlot
  <2> HIDE DEF local
  <2>3. Moves(t, "put") /\ job'[t] = local
    BY <2>1, <2>2, Moved
  <2>4. /\ pc[t] = "extend" /\ job[t].want # <<>>
        /\ UNCHANGED <<model, rho, incrementals, encoder, alone, stranded>>
    BY DEF Look, swapped
  <2> QED  BY <1>3, <2>2, <2>3, <2>4
<1> QED  BY <1>2, <1>3

LEMMA PutDoes ==
    ASSUME Shape, NEW t \in Threads, Put(t)
    PROVE  /\ pc[t] = "put" /\ Moves(t, "extend") /\ job'[t].want = Tail(job[t].want)
           /\ job'[t].full = job[t].full /\ job'[t].data = job[t].data
           /\ job'[t].prev = job[t].prev /\ job'[t].prevRho = job[t].prevRho
           /\ UNCHANGED <<model, rho, incrementals, alone, stranded>>
<1> DEFINE local == PutOf(job[t], Tail(job[t].want), <<>>)
<1>1. Goto(t, "extend", local)
  BY Zenon DEF Put, PutOf
<1>2. JobShape(job[t])
  BY DEF Shape
<1>3. /\ JobShape(local) /\ local.want = Tail(job[t].want)
      /\ local.full = job[t].full /\ local.data = job[t].data
      /\ local.prev = job[t].prev /\ local.prevRho = job[t].prevRho
  BY <1>2, HasPut
<1> HIDE DEF local
<1>4. Moves(t, "extend") /\ job'[t] = local
  BY <1>1, <1>3, Moved
<1>5. pc[t] = "put" /\ UNCHANGED <<model, rho, incrementals, alone, stranded>>
  BY DEF Put, swapped
<1> QED  BY <1>3, <1>4, <1>5

LEMMA EncodeDoes ==
    ASSUME Shape, NEW t \in Threads, Encode(t)
    PROVE  /\ t \in Fitters /\ pc[t] = "extend" /\ job[t].want = <<>>
           /\ \/ Moves(t, "idle") /\ job[t].full /\ stranded'
              \/ /\ Moves(t, "train") /\ UNCHANGED stranded
                 /\ job'[t].codes = CodesOf(Range(RowTypes(job[t].data)))
                 /\ job'[t].full = job[t].full /\ job'[t].prev = job[t].prev
                 /\ job'[t].prevRho = job[t].prevRho
           /\ UNCHANGED <<model, rho, incrementals, encoder, alone>>
<1>0. /\ t \in Fitters /\ pc[t] = "extend" /\ job[t].want = <<>>
      /\ UNCHANGED <<model, rho, incrementals, encoder, alone>>
  BY DEF Encode, swapped
<1>1. CASE job[t].full /\ Len(job[t].data) < MinGroups
  <2>1. Goto(t, "idle", Idle) /\ stranded'
    BY <1>1, Zenon DEF Encode
  <2> QED  BY <1>0, <1>1, <2>1, IdleShape, Moved
<1>2. CASE ~(job[t].full /\ Len(job[t].data) < MinGroups)
  <2> DEFINE codes == CodesOf(Range(RowTypes(job[t].data)))
             local == CodedOf(job[t], codes)
  <2>1. Goto(t, "train", local) /\ UNCHANGED stranded
    BY <1>2, Zenon DEF Encode, CodedOf
  <2>2. JobShape(job[t])
    BY DEF Shape
  <2>3. /\ JobShape(local) /\ local.codes = codes /\ local.full = job[t].full
        /\ local.prev = job[t].prev /\ local.prevRho = job[t].prevRho
    BY <2>2, HasCodes
  <2> HIDE DEF local
  <2>4. Moves(t, "train") /\ job'[t] = local
    BY <2>1, <2>3, Moved
  <2> QED  BY <1>0, <2>1, <2>3, <2>4
<1> QED  BY <1>1, <1>2

LEMMA ScoreDoes ==
    ASSUME Shape, NEW t \in Threads, Score(t)
    PROVE  /\ t \in Predictors /\ pc[t] = "extend" /\ Moves(t, "scored")
           /\ job'[t].codes = CodesOf(Range(RowTypes(job[t].data)))
           /\ job'[t].prev = job[t].prev
           /\ UNCHANGED <<model, rho, incrementals, encoder, alone, stranded>>
<1> DEFINE codes == CodesOf(Range(RowTypes(job[t].data)))
           local == CodedOf(job[t], codes)
<1>1. Goto(t, "scored", local)
  BY Zenon DEF Score, CodedOf
<1>2. JobShape(job[t])
  BY DEF Shape
<1>3. JobShape(local) /\ local.codes = codes /\ local.prev = job[t].prev
  BY <1>2, HasCodes
<1> HIDE DEF local
<1>4. Moves(t, "scored") /\ job'[t] = local
  BY <1>1, <1>3, Moved
<1>5. /\ t \in Predictors /\ pc[t] = "extend"
      /\ UNCHANGED <<model, rho, incrementals, encoder, alone, stranded>>
  BY DEF Score, swapped
<1> QED  BY <1>3, <1>4, <1>5

LEMMA AnswerDoes ==
    ASSUME Shape, NEW t \in Threads, Answer(t)
    PROVE  /\ Moves(t, "idle")
           /\ UNCHANGED <<model, rho, incrementals, encoder, alone, stranded>>
BY IdleShape, Moved DEF Answer, swapped

\* Training is rejected or makes a model with the rho of its evaluation.
LEMMA TrainDoes ==
    ASSUME Shape, NEW t \in Threads, Train(t)
    PROVE  /\ pc[t] = "train" /\ job'[t].full = job[t].full
           /\ \E r \in Evaluations(Validation(job[t].data)) :
                \/ Moves(t, "count") /\ Rejected(job[t], r)
                \/ /\ Moves(t, "publish") /\ ~Rejected(job[t], r)
                   /\ job'[t].new = Trained(job[t], r)
           /\ UNCHANGED <<model, rho, incrementals, encoder, alone, stranded>>
<1>1. /\ pc[t] = "train"
      /\ UNCHANGED <<model, rho, incrementals, encoder, alone, stranded>>
  BY DEF Train, swapped
<1>2. PICK r \in Evaluations(Validation(job[t].data)) :
        IF Rejected(job[t], r)
        THEN Goto(t, "count", FullOf(job[t].full))
        ELSE Goto(t, "publish", TrainedOf(job[t].full, Trained(job[t], r)))
  BY Zenon DEF Train, FullOf, TrainedOf
<1>3. CASE Rejected(job[t], r)
  <2>1. Moves(t, "count") /\ job'[t] = FullOf(job[t].full)
    BY <1>2, <1>3, HasKind, Moved
  <2>2. job'[t].full = job[t].full
    BY <2>1, HasKind
  <2> QED  BY <1>1, <1>3, <2>1, <2>2
<1>4. CASE ~Rejected(job[t], r)
  <2> DEFINE new == Trained(job[t], r)
  <2>1. Goto(t, "publish", TrainedOf(job[t].full, new))
    BY <1>2, <1>4
  <2> HIDE DEF new
  <2>2. Moves(t, "publish") /\ job'[t] = TrainedOf(job[t].full, new)
    BY <2>1, HasTrained, Moved
  <2>3. job'[t].full = job[t].full /\ job'[t].new = new
    BY <2>2, HasTrained
  <2> QED  BY <1>1, <1>4, <2>2, <2>3 DEF new
<1> QED  BY <1>3, <1>4

LEMMA TrainFailsDoes ==
    ASSUME Shape, NEW t \in Threads, TrainFails(t)
    PROVE  /\ pc[t] = "train" /\ Moves(t, "idle")
           /\ stranded' = (stranded \/ job[t].full)
           /\ UNCHANGED <<model, rho, incrementals, encoder, alone>>
BY IdleShape, Moved DEF TrainFails, swapped

LEMMA PublishDoes ==
    ASSUME Shape, NEW t \in Threads, Publish(t)
    PROVE  /\ pc[t] = "publish" /\ Moves(t, "count") /\ job'[t].full = job[t].full
           /\ model' = job[t].new /\ rho' = job[t].new.rho
           /\ stranded' = (stranded /\ ~job[t].full)
           /\ UNCHANGED <<incrementals, encoder, alone>>
<1> DEFINE local == NewOf(job[t], NoModel)
<1>1. Goto(t, "count", local)
  BY Zenon DEF Publish, NewOf
<1>2. JobShape(job[t])
  BY DEF Shape
<1>3. JobShape(local) /\ local.full = job[t].full
  BY <1>2, HasNew
<1> HIDE DEF local
<1>4. Moves(t, "count") /\ job'[t] = local
  BY <1>1, <1>3, Moved
<1> QED  BY <1>3, <1>4 DEF Publish

LEMMA CountDoes ==
    ASSUME Shape, NEW t \in Threads, Count(t)
    PROVE  /\ pc[t] = "count" /\ Moves(t, "idle")
           /\ incrementals' = IF job[t].full THEN 0 ELSE incrementals + 1
           /\ UNCHANGED <<model, rho, encoder, alone, stranded>>
BY IdleShape, Moved DEF Count, swapped

-----------------------------------------------------------------------------
(* What is accepted *)

\* An extension knows the model it extends together with that model's own rho; what
\* drops the codes is no extension.
KnowsPrevious(t) ==
    /\ pc[t] = "reset" => job[t].full
    /\ (pc[t] = "train" \/ (t \in Fitters /\ pc[t] \in {"extend", "put"})) =>
         job[t].full \/ job[t].prevRho = job[t].prev.rho

\* What is about to be published has passed its test.
HasPassed(t) == pc[t] = "publish" => Tolerated(job[t].new)

AcceptInv ==
    /\ Shape
    /\ AcceptedWithinDelta
    /\ \A t \in Threads : KnowsPrevious(t) /\ HasPassed(t)

LEMMA InitAccept == Init => AcceptInv
<1> SUFFICES ASSUME Init PROVE AcceptInv
  OBVIOUS
<1>1. /\ pc = [t \in Threads |-> "idle"] /\ job = [t \in Threads |-> Idle]
      /\ model = NoModel /\ rho = 0
  BY DEF Init
<1>2. \A t \in Threads : pc[t] = "idle" /\ job[t] = Idle
  BY <1>1
<1>3. pc = [t \in Threads |-> pc[t]]
  BY <1>1
<1>4. job = [t \in Threads |-> job[t]]
  BY <1>1
<1>5. Shape
  BY <1>2, <1>3, <1>4, IdleShape DEF Shape
<1>6. AcceptedWithinDelta
  BY <1>1 DEF AcceptedWithinDelta, NoModel, Tolerated
<1>7. \A t \in Threads : KnowsPrevious(t) /\ HasPassed(t)
  BY <1>2 DEF KnowsPrevious, HasPassed
<1> QED  BY <1>5, <1>6, <1>7 DEF AcceptInv

\* What holds of a thread holds as long as it does not move; a step that publishes
\* nothing has only its own thread to answer for.
LEMMA OneAccept ==
    ASSUME AcceptInv, NEW t \in Threads, NEW place, Moves(t, place),
           AcceptedWithinDelta', KnowsPrevious(t)', HasPassed(t)'
    PROVE  AcceptInv'
<1>1. \A u \in Threads \ {t} : (KnowsPrevious(u) /\ HasPassed(u))'
  BY DEF AcceptInv, Moves, KnowsPrevious, HasPassed, Tolerated
<1> QED  BY <1>1 DEF AcceptInv, Moves

LEMMA SameAccept ==
    ASSUME AcceptInv, UNCHANGED <<model, rho>>
    PROVE  AcceptedWithinDelta'
BY DEF AcceptInv, AcceptedWithinDelta, Tolerated

LEMMA BeginAccept ==
    ASSUME AcceptInv, NEW t \in Threads, Begin(t)
    PROVE  AcceptInv'
<1> USE DEF AcceptInv
<1>1. CASE Moves(t, "reset") /\ job'[t].full
  <2>1. KnowsPrevious(t)' /\ HasPassed(t)'
    BY <1>1 DEF Moves, KnowsPrevious, HasPassed
  <2> QED  BY <1>1, <2>1, BeginDoes, SameAccept, OneAccept
<1>2. CASE Moves(t, "previous")
  <2>1. KnowsPrevious(t)' /\ HasPassed(t)'
    BY <1>2 DEF Moves, KnowsPrevious, HasPassed
  <2> QED  BY <1>2, <2>1, BeginDoes, SameAccept, OneAccept
<1> QED  BY <1>1, <1>2, BeginDoes

LEMMA ReadPreviousAccept ==
    ASSUME AcceptInv, NEW t \in Threads, ReadPrevious(t)
    PROVE  AcceptInv'
<1> USE DEF AcceptInv
<1>1. Moves(t, "extend") /\ job'[t].prevRho = job'[t].prev.rho
  BY ReadPreviousDoes DEF AcceptedWithinDelta
<1>2. KnowsPrevious(t)' /\ HasPassed(t)'
  BY <1>1 DEF Moves, KnowsPrevious, HasPassed
<1> QED  BY <1>1, <1>2, ReadPreviousDoes, SameAccept, OneAccept

LEMMA ResetAccept ==
    ASSUME AcceptInv, NEW t \in Threads, Reset(t)
    PROVE  AcceptInv'
<1> USE DEF AcceptInv
<1>1. Moves(t, "extend") /\ job'[t].full
  BY ResetDoes DEF KnowsPrevious
<1>2. KnowsPrevious(t)' /\ HasPassed(t)'
  BY <1>1 DEF Moves, KnowsPrevious, HasPassed
<1> QED  BY <1>1, <1>2, ResetDoes, SameAccept, OneAccept

LEMMA AskAccept ==
    ASSUME AcceptInv, NEW t \in Threads, Ask(t)
    PROVE  AcceptInv'
<1> USE DEF AcceptInv
<1>1. Moves(t, "extend") /\ t \notin Fitters
  BY AskDoes, LambdaRankAssumption
<1>2. KnowsPrevious(t)' /\ HasPassed(t)'
  BY <1>1 DEF Moves, KnowsPrevious, HasPassed
<1> QED  BY <1>1, <1>2, AskDoes, SameAccept, OneAccept

LEMMA LookAccept ==
    ASSUME AcceptInv, NEW t \in Threads, Look(t)
    PROVE  AcceptInv'
<1> USE DEF AcceptInv
<1>1. /\ pc[t] = "extend"
      /\ job'[t].full = job[t].full /\ job'[t].prev = job[t].prev
      /\ job'[t].prevRho = job[t].prevRho
      /\ UNCHANGED <<model, rho>>
  BY LookDoes
<1>2. ASSUME NEW place \in {"extend", "put"}, Moves(t, place) PROVE AcceptInv'
  <2>1. KnowsPrevious(t)' /\ HasPassed(t)'
    BY <1>1, <1>2 DEF Moves, KnowsPrevious, HasPassed
  <2> QED  BY <1>1, <1>2, <2>1, SameAccept, OneAccept
<1> QED  BY <1>2, LookDoes

LEMMA PutAccept ==
    ASSUME AcceptInv, NEW t \in Threads, Put(t)
    PROVE  AcceptInv'
<1> USE DEF AcceptInv
<1>1. /\ pc[t] = "put" /\ Moves(t, "extend")
      /\ job'[t].full = job[t].full /\ job'[t].prev = job[t].prev
      /\ job'[t].prevRho = job[t].prevRho
  BY PutDoes
<1>2. KnowsPrevious(t)' /\ HasPassed(t)'
  BY <1>1 DEF Moves, KnowsPrevious, HasPassed
<1> QED  BY <1>1, <1>2, PutDoes, SameAccept, OneAccept

LEMMA EncodeAccept ==
    ASSUME AcceptInv, NEW t \in Threads, Encode(t)
    PROVE  AcceptInv'
<1> USE DEF AcceptInv
<1>1. CASE Moves(t, "idle")
  <2>1. KnowsPrevious(t)' /\ HasPassed(t)'
    BY <1>1 DEF Moves, KnowsPrevious, HasPassed
  <2> QED  BY <1>1, <2>1, EncodeDoes, SameAccept, OneAccept
<1>2. CASE /\ Moves(t, "train")
           /\ job'[t].full = job[t].full /\ job'[t].prev = job[t].prev
           /\ job'[t].prevRho = job[t].prevRho
  <2>1. t \in Fitters /\ pc[t] = "extend"
    BY EncodeDoes
  <2>2. KnowsPrevious(t)' /\ HasPassed(t)'
    BY <1>2, <2>1 DEF Moves, KnowsPrevious, HasPassed
  <2> QED  BY <1>2, <2>2, EncodeDoes, SameAccept, OneAccept
<1> QED  BY <1>1, <1>2, EncodeDoes

LEMMA ScoreAccept ==
    ASSUME AcceptInv, NEW t \in Threads, Score(t)
    PROVE  AcceptInv'
<1> USE DEF AcceptInv
<1>1. Moves(t, "scored")
  BY ScoreDoes
<1>2. KnowsPrevious(t)' /\ HasPassed(t)'
  BY <1>1 DEF Moves, KnowsPrevious, HasPassed
<1> QED  BY <1>1, <1>2, ScoreDoes, SameAccept, OneAccept

LEMMA AnswerAccept ==
    ASSUME AcceptInv, NEW t \in Threads, Answer(t)
    PROVE  AcceptInv'
<1> USE DEF AcceptInv
<1>1. Moves(t, "idle")
  BY AnswerDoes
<1>2. KnowsPrevious(t)' /\ HasPassed(t)'
  BY <1>1 DEF Moves, KnowsPrevious, HasPassed
<1> QED  BY <1>1, <1>2, AnswerDoes, SameAccept, OneAccept

LEMMA TrainFailsAccept ==
    ASSUME AcceptInv, NEW t \in Threads, TrainFails(t)
    PROVE  AcceptInv'
<1> USE DEF AcceptInv
<1>1. Moves(t, "idle")
  BY TrainFailsDoes
<1>2. KnowsPrevious(t)' /\ HasPassed(t)'
  BY <1>1 DEF Moves, KnowsPrevious, HasPassed
<1> QED  BY <1>1, <1>2, TrainFailsDoes, SameAccept, OneAccept

LEMMA CountAccept ==
    ASSUME AcceptInv, NEW t \in Threads, Count(t)
    PROVE  AcceptInv'
<1> USE DEF AcceptInv
<1>1. Moves(t, "idle")
  BY CountDoes
<1>2. KnowsPrevious(t)' /\ HasPassed(t)'
  BY <1>1 DEF Moves, KnowsPrevious, HasPassed
<1> QED  BY <1>1, <1>2, CountDoes, SameAccept, OneAccept

LEMMA TrainAccept ==
    ASSUME AcceptInv, NEW t \in Threads, Train(t)
    PROVE  AcceptInv'
<1> USE DEF AcceptInv
<1>1. UNCHANGED <<model, rho>>
  BY TrainDoes
<1>2. CASE Moves(t, "count")
  <2>1. KnowsPrevious(t)' /\ HasPassed(t)'
    BY <1>2 DEF Moves, KnowsPrevious, HasPassed
  <2> QED  BY <1>1, <1>2, <2>1, SameAccept, OneAccept
<1>3. ASSUME NEW r, Moves(t, "publish"), ~Rejected(job[t], r),
             job'[t].new = Trained(job[t], r)
      PROVE  AcceptInv'
  <2> DEFINE new == Trained(job[t], r)
             tested == ~job[t].full /\ Validation(job[t].data) # <<>>
  <2>1. new.rho = r /\ new.from = IF tested THEN {job[t].prev.rho} ELSE {}
    BY DEF Trained
  <2>2. ~job[t].full => job[t].prevRho = job[t].prev.rho
    BY TrainDoes DEF KnowsPrevious
  <2>3. tested => ~(r < job[t].prevRho - Delta)
    BY <1>3, Zenon DEF Rejected
  <2>4. tested => ~(r < job[t].prev.rho - Delta)
    BY <2>2, <2>3, Zenon
  <2> HIDE DEF new, tested
  <2>5. Tolerated(new)
    BY <2>1, <2>4 DEF Tolerated
  <2>6. KnowsPrevious(t)' /\ HasPassed(t)'
    BY <1>3, <2>5 DEF Moves, KnowsPrevious, HasPassed, Tolerated, new
  <2> QED  BY <1>1, <1>3, <2>6, SameAccept, OneAccept
<1> QED  BY <1>2, <1>3, TrainDoes

LEMMA PublishAccept ==
    ASSUME AcceptInv, NEW t \in Threads, Publish(t)
    PROVE  AcceptInv'
<1> USE DEF AcceptInv
<1>1. pc[t] = "publish" /\ Moves(t, "count") /\ model' = job[t].new /\ rho' = job[t].new.rho
  BY PublishDoes
<1>2. AcceptedWithinDelta'
  BY <1>1 DEF HasPassed, AcceptedWithinDelta, Tolerated
<1>3. KnowsPrevious(t)' /\ HasPassed(t)'
  BY <1>1 DEF Moves, KnowsPrevious, HasPassed
<1> QED  BY <1>1, <1>2, <1>3, OneAccept

LEMMA NextAccept == AcceptInv /\ [Next]_vars => AcceptInv'
<1> SUFFICES ASSUME AcceptInv, [Next]_vars PROVE AcceptInv'
  OBVIOUS
<1>1. CASE UNCHANGED vars
  BY <1>1 DEF vars, swapped, AcceptInv, Shape, JobShape, AcceptedWithinDelta, KnowsPrevious,
              HasPassed, Tolerated
<1>2. ASSUME NEW t \in Threads,
             \/ Begin(t) \/ ReadPrevious(t) \/ Reset(t) \/ Ask(t) \/ Look(t) \/ Put(t)
             \/ Encode(t) \/ Score(t) \/ Answer(t)
             \/ Train(t) \/ TrainFails(t) \/ Publish(t) \/ Count(t)
      PROVE  AcceptInv'
  BY <1>2, BeginAccept, ReadPreviousAccept, ResetAccept, AskAccept, LookAccept, PutAccept,
     EncodeAccept, ScoreAccept, AnswerAccept, TrainAccept, TrainFailsAccept, PublishAccept,
     CountAccept
<1> QED  BY <1>1, <1>2 DEF Next

\* Whatever threads fit and whatever their models score, in any interleaving: the swap
\* publishes a model with its own rho, and an extension that was tested lost at most
\* Delta against the model it extends (lambdarank.py, the comparison with previous_rho
\* and the swap).
THEOREM AcceptedSafe == Spec => []AcceptedWithinDelta
<1>1. AcceptInv => AcceptedWithinDelta
  BY DEF AcceptInv
<1> QED  BY InitAccept, NextAccept, <1>1, PTL DEF Spec

-----------------------------------------------------------------------------
(* As long as calls do not overlap *)

Sole(t) == \A u \in Threads \ {t} : pc[u] = "idle"

AloneInv ==
    /\ Shape
    /\ alone => \A t \in Threads : pc[t] = "idle" \/ Sole(t)

LEMMA InitAlone == Init => AloneInv
BY InitAccept DEF Init, AcceptInv, AloneInv, Threads

\* A step after which calls have not overlapped was taken while nobody else was busy.
LEMMA StepAlone ==
    ASSUME AloneInv, NEW t \in Threads, alone',
           \/ Begin(t) \/ ReadPrevious(t) \/ Reset(t) \/ Ask(t) \/ Look(t) \/ Put(t)
           \/ Encode(t) \/ Score(t) \/ Answer(t)
           \/ Train(t) \/ TrainFails(t) \/ Publish(t) \/ Count(t)
    PROVE  alone /\ Sole(t)
<1> USE DEF AloneInv
<1>1. CASE Begin(t) \/ Ask(t)
  <2>1. alone /\ Busy = {}
    BY <1>1, BeginDoes, AskDoes
  <2> QED  BY <2>1 DEF Busy, Sole
<1>2. CASE ReadPrevious(t) \/ Reset(t) \/ Look(t) \/ Put(t) \/ Encode(t) \/ Score(t)
           \/ Answer(t) \/ Train(t) \/ TrainFails(t) \/ Publish(t) \/ Count(t)
  <2>1. pc[t] # "idle" /\ alone' = alone
    BY <1>2 DEF ReadPrevious, Reset, Look, Put, Encode, Score, Answer, Train, TrainFails, Publish, Count
  <2> QED  BY <2>1
<1> QED  BY <1>1, <1>2

LEMMA SoleMoves ==
    ASSUME NEW t \in Threads, NEW place, Moves(t, place), Sole(t)
    PROVE  Sole(t)'
BY DEF Moves, Sole

LEMMA NextMoves ==
    ASSUME Shape, NEW t \in Threads,
           \/ Begin(t) \/ ReadPrevious(t) \/ Reset(t) \/ Ask(t) \/ Look(t) \/ Put(t)
           \/ Encode(t) \/ Score(t) \/ Answer(t)
           \/ Train(t) \/ TrainFails(t) \/ Publish(t) \/ Count(t)
    PROVE  \E place : Moves(t, place)
<1>1. CASE Begin(t)
  BY <1>1, BeginDoes
<1>2. CASE ReadPrevious(t)
  BY <1>2, ReadPreviousDoes
<1>3. CASE Reset(t)
  BY <1>3, ResetDoes
<1>4. CASE Ask(t)
  BY <1>4, AskDoes
<1>5. CASE Look(t)
  BY <1>5, LookDoes
<1>6. CASE Put(t)
  BY <1>6, PutDoes
<1>7. CASE Encode(t)
  BY <1>7, EncodeDoes
<1>8. CASE Score(t)
  BY <1>8, ScoreDoes
<1>9. CASE Answer(t)
  BY <1>9, AnswerDoes
<1>10. CASE Train(t)
  BY <1>10, TrainDoes
<1>11. CASE TrainFails(t)
  BY <1>11, TrainFailsDoes
<1>12. CASE Publish(t)
  BY <1>12, PublishDoes
<1>13. CASE Count(t)
  BY <1>13, CountDoes
<1> QED  BY <1>1, <1>2, <1>3, <1>4, <1>5, <1>6, <1>7, <1>8, <1>9, <1>10, <1>11, <1>12, <1>13


LEMMA NextAlone == AloneInv /\ [Next]_vars => AloneInv'
<1> SUFFICES ASSUME AloneInv, [Next]_vars PROVE AloneInv'
  OBVIOUS
<1>1. CASE UNCHANGED vars
  BY <1>1 DEF vars, AloneInv, Shape, JobShape, Sole
<1>2. ASSUME NEW t \in Threads,
             \/ Begin(t) \/ ReadPrevious(t) \/ Reset(t) \/ Ask(t) \/ Look(t) \/ Put(t)
             \/ Encode(t) \/ Score(t) \/ Answer(t)
             \/ Train(t) \/ TrainFails(t) \/ Publish(t) \/ Count(t)
      PROVE  AloneInv'
  <2>1. PICK place : Moves(t, place)
    BY <1>2, NextMoves DEF AloneInv
  <2>2. ASSUME alone' PROVE Sole(t)'
    BY <1>2, <2>1, <2>2, StepAlone, SoleMoves
  <2>3. alone' => \A u \in Threads : (pc[u] = "idle" \/ Sole(u))'
    BY <2>2 DEF Sole
  <2> QED  BY <2>1, <2>3 DEF AloneInv, Moves
<1> QED  BY <1>1, <1>2 DEF Next

-----------------------------------------------------------------------------
(* Extensions are counted *)

\* What t may still add to the model is covered by the count.
Counted(t) ==
    /\ pc[t] = "reset" => job[t].full
    /\ pc[t] = "previous" => incrementals < FullEvery
    /\ (pc[t] = "train" \/ (t \in Fitters /\ pc[t] \in {"extend", "put"})) /\ ~job[t].full =>
         /\ incrementals < FullEvery
         /\ job[t].prev.extended \in Int /\ job[t].prev.extended <= incrementals
    /\ pc[t] = "publish" =>
         /\ job[t].new.extended \in Int
         /\ IF job[t].full THEN job[t].new.extended = 0
            ELSE incrementals < FullEvery /\ job[t].new.extended <= incrementals + 1
    /\ pc[t] = "count" =>
         IF job[t].full THEN model.extended <= 0
         ELSE incrementals < FullEvery /\ model.extended <= incrementals + 1

\* Between fits the count covers the model.
Covered ==
    /\ incrementals \in 0..FullEvery /\ model.extended \in Int
    /\ (\A t \in Threads : pc[t] # "count") => model.extended <= incrementals

AllCounted == Covered /\ \A t \in Threads : Counted(t)

TreesInv == AloneInv /\ (alone => AllCounted)

LEMMA InitTrees == Init => TreesInv
<1> SUFFICES ASSUME Init PROVE TreesInv
  OBVIOUS
<1>1. \A t \in Threads : pc[t] = "idle"
  BY DEF Init
<1>2. Covered
  BY LambdaRankAssumption DEF Init, Covered, NoModel
<1>3. \A t \in Threads : Counted(t)
  BY <1>1 DEF Counted
<1> QED  BY <1>2, <1>3, InitAlone DEF TreesInv, AllCounted

\* Only the thread that moves has to answer for what it leaves.
LEMMA OneCounted ==
    ASSUME NEW t \in Threads, NEW place, Moves(t, place), Sole(t), Counted(t)',
           incrementals' \in 0..FullEvery, model'.extended \in Int,
           place = "count" \/ model'.extended <= incrementals'
    PROVE  AllCounted'
<1>1. \A u \in Threads \ {t} : pc'[u] = "idle"
  BY DEF Moves, Sole
<1>2. \A u \in Threads \ {t} : Counted(u)'
  BY <1>1 DEF Counted
<1>3. Covered'
  BY DEF Covered, Moves
<1> QED  BY <1>2, <1>3 DEF AllCounted

LEMMA SameCounted ==
    ASSUME AllCounted, NEW t \in Threads, NEW place, Moves(t, place), Sole(t), Counted(t)',
           pc[t] # "count", UNCHANGED <<model, incrementals>>
    PROVE  AllCounted'
<1>1. model.extended <= incrementals
  BY DEF AllCounted, Covered, Sole
<1> QED  BY <1>1, OneCounted DEF AllCounted, Covered

LEMMA BeginCounted ==
    ASSUME TreesInv, NEW t \in Threads, Begin(t), alone'
    PROVE  AllCounted'
<1>1. Shape /\ alone /\ Sole(t) /\ AllCounted
  BY StepAlone DEF TreesInv, AloneInv
<1>2. pc[t] = "idle" /\ UNCHANGED <<model, incrementals>>
  BY <1>1, BeginDoes
<1>3. CASE Moves(t, "reset") /\ job'[t].full
  <2>1. Counted(t)'
    BY <1>3 DEF Moves, Counted
  <2> QED  BY <1>1, <1>2, <1>3, <2>1, SameCounted
<1>4. CASE Moves(t, "previous") /\ ~(model = NoModel \/ incrementals >= FullEvery)
  <2>1. incrementals < FullEvery
    BY <1>1, <1>4, LambdaRankAssumption DEF AllCounted, Covered
  <2>2. Counted(t)'
    BY <1>2, <1>4, <2>1 DEF Moves, Counted
  <2> QED  BY <1>1, <1>2, <1>4, <2>2, SameCounted
<1> QED  BY <1>1, <1>3, <1>4, BeginDoes

LEMMA ReadPreviousCounted ==
    ASSUME TreesInv, NEW t \in Threads, ReadPrevious(t), alone'
    PROVE  AllCounted'
<1>1. Shape /\ alone /\ Sole(t) /\ AllCounted
  BY StepAlone DEF TreesInv, AloneInv
<1>2. /\ pc[t] = "previous" /\ Moves(t, "extend") /\ job'[t].prev = model
      /\ UNCHANGED <<model, incrementals>>
  BY <1>1, ReadPreviousDoes
<1>3. incrementals < FullEvery /\ model.extended \in Int /\ model.extended <= incrementals
  BY <1>1, <1>2 DEF AllCounted, Covered, Counted, Sole
<1>4. Counted(t)'
  BY <1>2, <1>3 DEF Moves, Counted
<1> QED  BY <1>1, <1>2, <1>4, SameCounted

LEMMA ResetCounted ==
    ASSUME TreesInv, NEW t \in Threads, Reset(t), alone'
    PROVE  AllCounted'
<1>1. Shape /\ alone /\ Sole(t) /\ AllCounted
  BY StepAlone DEF TreesInv, AloneInv
<1>2. /\ pc[t] = "reset" /\ Moves(t, "extend") /\ job'[t].full = job[t].full
      /\ UNCHANGED <<model, incrementals>>
  BY <1>1, ResetDoes
<1>3. Counted(t)'
  BY <1>1, <1>2 DEF Moves, AllCounted, Counted
<1> QED  BY <1>1, <1>2, <1>3, SameCounted

LEMMA AskCounted ==
    ASSUME TreesInv, NEW t \in Threads, Ask(t), alone'
    PROVE  AllCounted'
<1>1. Shape /\ alone /\ Sole(t) /\ AllCounted
  BY StepAlone DEF TreesInv, AloneInv
<1>2. /\ t \notin Fitters /\ pc[t] = "idle" /\ Moves(t, "extend")
      /\ UNCHANGED <<model, incrementals>>
  BY <1>1, AskDoes, LambdaRankAssumption
<1>3. Counted(t)'
  BY <1>2 DEF Moves, Counted
<1> QED  BY <1>1, <1>2, <1>3, SameCounted

LEMMA LookCounted ==
    ASSUME TreesInv, NEW t \in Threads, Look(t), alone'
    PROVE  AllCounted'
<1>1. Shape /\ alone /\ Sole(t) /\ AllCounted
  BY StepAlone DEF TreesInv, AloneInv
<1>2. /\ pc[t] = "extend"
      /\ job'[t].full = job[t].full /\ job'[t].prev = job[t].prev
      /\ UNCHANGED <<model, incrementals>>
  BY <1>1, LookDoes
<1>3. PICK place \in {"extend", "put"} : Moves(t, place)
  BY <1>1, LookDoes
<1>4. Counted(t)'
  BY <1>1, <1>2, <1>3 DEF Moves, AllCounted, Counted
<1> QED  BY <1>1, <1>2, <1>3, <1>4, SameCounted

LEMMA PutCounted ==
    ASSUME TreesInv, NEW t \in Threads, Put(t), alone'
    PROVE  AllCounted'
<1>1. Shape /\ alone /\ Sole(t) /\ AllCounted
  BY StepAlone DEF TreesInv, AloneInv
<1>2. /\ pc[t] = "put" /\ Moves(t, "extend")
      /\ job'[t].full = job[t].full /\ job'[t].prev = job[t].prev
      /\ UNCHANGED <<model, incrementals>>
  BY <1>1, PutDoes
<1>3. Counted(t)'
  BY <1>1, <1>2 DEF Moves, AllCounted, Counted
<1> QED  BY <1>1, <1>2, <1>3, SameCounted

LEMMA EncodeCounted ==
    ASSUME TreesInv, NEW t \in Threads, Encode(t), alone'
    PROVE  AllCounted'
<1>1. Shape /\ alone /\ Sole(t) /\ AllCounted
  BY StepAlone DEF TreesInv, AloneInv
<1>2. t \in Fitters /\ pc[t] = "extend" /\ UNCHANGED <<model, incrementals>>
  BY <1>1, EncodeDoes
<1>3. CASE Moves(t, "idle")
  <2>1. Counted(t)'
    BY <1>3 DEF Moves, Counted
  <2> QED  BY <1>1, <1>2, <1>3, <2>1, SameCounted
<1>4. CASE Moves(t, "train") /\ job'[t].full = job[t].full /\ job'[t].prev = job[t].prev
  <2>1. Counted(t)'
    BY <1>1, <1>2, <1>4 DEF Moves, AllCounted, Counted
  <2> QED  BY <1>1, <1>2, <1>4, <2>1, SameCounted
<1> QED  BY <1>1, <1>3, <1>4, EncodeDoes

LEMMA ScoreCounted ==
    ASSUME TreesInv, NEW t \in Threads, Score(t), alone'
    PROVE  AllCounted'
<1>1. Shape /\ alone /\ Sole(t) /\ AllCounted
  BY StepAlone DEF TreesInv, AloneInv
<1>2. pc[t] # "count" /\ Moves(t, "scored") /\ UNCHANGED <<model, incrementals>>
  BY <1>1, ScoreDoes DEF Score
<1>3. Counted(t)'
  BY <1>2 DEF Moves, Counted
<1> QED  BY <1>1, <1>2, <1>3, SameCounted

LEMMA AnswerCounted ==
    ASSUME TreesInv, NEW t \in Threads, Answer(t), alone'
    PROVE  AllCounted'
<1>1. Shape /\ alone /\ Sole(t) /\ AllCounted
  BY StepAlone DEF TreesInv, AloneInv
<1>2. pc[t] # "count" /\ Moves(t, "idle") /\ UNCHANGED <<model, incrementals>>
  BY <1>1, AnswerDoes DEF Answer
<1>3. Counted(t)'
  BY <1>2 DEF Moves, Counted
<1> QED  BY <1>1, <1>2, <1>3, SameCounted

LEMMA TrainFailsCounted ==
    ASSUME TreesInv, NEW t \in Threads, TrainFails(t), alone'
    PROVE  AllCounted'
<1>1. Shape /\ alone /\ Sole(t) /\ AllCounted
  BY StepAlone DEF TreesInv, AloneInv
<1>2. pc[t] # "count" /\ Moves(t, "idle") /\ UNCHANGED <<model, incrementals>>
  BY <1>1, TrainFailsDoes DEF TrainFails
<1>3. Counted(t)'
  BY <1>2 DEF Moves, Counted
<1> QED  BY <1>1, <1>2, <1>3, SameCounted

LEMMA TrainCounted ==
    ASSUME TreesInv, NEW t \in Threads, Train(t), alone'
    PROVE  AllCounted'
<1>1. Shape /\ alone /\ Sole(t) /\ AllCounted
  BY StepAlone DEF TreesInv, AloneInv
<1>2. /\ pc[t] = "train" /\ job'[t].full = job[t].full
      /\ UNCHANGED <<model, incrementals>>
  BY <1>1, TrainDoes
<1>3. /\ incrementals \in Int /\ model.extended \in Int /\ model.extended <= incrementals
      /\ ~job[t].full =>
           /\ incrementals < FullEvery
           /\ job[t].prev.extended \in Int /\ job[t].prev.extended <= incrementals
  BY <1>1, <1>2 DEF AllCounted, Covered, Counted, Sole
<1>4. ASSUME NEW r, Moves(t, "count"), Rejected(job[t], r) PROVE AllCounted'
  <2>1. ~job[t].full
    BY <1>4 DEF Rejected
  <2>2. Counted(t)'
    BY <1>2, <1>3, <1>4, <2>1 DEF Moves, Counted
  <2> QED  BY <1>1, <1>2, <1>4, <2>2, SameCounted
<1>5. ASSUME NEW r, Moves(t, "publish"), job'[t].new = Trained(job[t], r) PROVE AllCounted'
  <2>1. job'[t].new.extended = IF job[t].full THEN 0 ELSE job[t].prev.extended + 1
    BY <1>5 DEF Trained
  <2>2. Counted(t)'
    BY <1>2, <1>3, <1>5, <2>1 DEF Moves, Counted
  <2> QED  BY <1>1, <1>2, <1>5, <2>2, SameCounted
<1> QED  BY <1>1, <1>4, <1>5, TrainDoes

LEMMA PublishCounted ==
    ASSUME TreesInv, NEW t \in Threads, Publish(t), alone'
    PROVE  AllCounted'
<1>1. Shape /\ alone /\ Sole(t) /\ AllCounted
  BY StepAlone DEF TreesInv, AloneInv
<1>2. /\ pc[t] = "publish" /\ Moves(t, "count") /\ job'[t].full = job[t].full
      /\ model' = job[t].new /\ UNCHANGED incrementals
  BY <1>1, PublishDoes
<1>3. Counted(t)' /\ model'.extended \in Int
  BY <1>1, <1>2 DEF Moves, AllCounted, Counted
<1>4. incrementals' \in 0..FullEvery
  BY <1>1, <1>2 DEF AllCounted, Covered
<1> QED  BY <1>1, <1>2, <1>3, <1>4, OneCounted

LEMMA CountCounted ==
    ASSUME TreesInv, NEW t \in Threads, Count(t), alone'
    PROVE  AllCounted'
<1>1. Shape /\ alone /\ Sole(t) /\ AllCounted
  BY StepAlone DEF TreesInv, AloneInv
<1>2. /\ pc[t] = "count" /\ Moves(t, "idle") /\ UNCHANGED model
      /\ incrementals' = IF job[t].full THEN 0 ELSE incrementals + 1
  BY <1>1, CountDoes
<1>3. /\ incrementals \in 0..FullEvery /\ model.extended \in Int
      /\ IF job[t].full THEN model.extended <= 0
         ELSE incrementals < FullEvery /\ model.extended <= incrementals + 1
  BY <1>1, <1>2 DEF AllCounted, Covered, Counted
<1>4. incrementals' \in 0..FullEvery /\ model'.extended <= incrementals'
  BY <1>2, <1>3, LambdaRankAssumption
<1>5. Counted(t)'
  BY <1>2 DEF Moves, Counted
<1> QED  BY <1>1, <1>2, <1>3, <1>4, <1>5, OneCounted

LEMMA NextTrees == TreesInv /\ [Next]_vars => TreesInv'
<1> SUFFICES ASSUME TreesInv, [Next]_vars PROVE TreesInv'
  OBVIOUS
<1>1. AloneInv'
  BY NextAlone DEF TreesInv
<1>2. CASE UNCHANGED vars
  BY <1>1, <1>2 DEF vars, swapped, TreesInv, AllCounted, Covered, Counted
<1>3. ASSUME NEW t \in Threads, alone',
             \/ Begin(t) \/ ReadPrevious(t) \/ Reset(t) \/ Ask(t) \/ Look(t) \/ Put(t)
             \/ Encode(t) \/ Score(t) \/ Answer(t)
             \/ Train(t) \/ TrainFails(t) \/ Publish(t) \/ Count(t)
      PROVE  AllCounted'
  BY <1>3, BeginCounted, ReadPreviousCounted, ResetCounted, AskCounted, LookCounted,
     PutCounted, EncodeCounted, ScoreCounted, AnswerCounted, TrainCounted,
     TrainFailsCounted, PublishCounted, CountCounted
<1> QED  BY <1>1, <1>2, <1>3 DEF Next, TreesInv

\* For any threads and data: as long as calls of fit() do not overlap, a model is extended
\* at most full_refit_every_n_incrementals times before it is fitted anew, however many
\* of the fits were rejected or raised (lambdarank.py, needs_full and the count at the
\* end of fit()).
THEOREM TreesStayBounded == Spec => []TreesAreBounded
<1>1. TreesInv => TreesAreBounded
  <2> SUFFICES ASSUME AllCounted PROVE model.extended <= FullEvery
    BY DEF TreesInv, TreesAreBounded
  <2>1. CASE \A t \in Threads : pc[t] # "count"
    BY <2>1, LambdaRankAssumption DEF AllCounted, Covered
  <2>2. ASSUME NEW t \in Threads, pc[t] = "count" PROVE model.extended <= FullEvery
    BY <2>2, LambdaRankAssumption DEF AllCounted, Covered, Counted
  <2> QED  BY <2>1, <2>2
<1> QED  BY InitTrees, NextTrees, <1>1, PTL DEF Spec

-----------------------------------------------------------------------------
(* Codes and models match *)

AllTypes == Types \cup {Unknown}

\* Whatever is coded here has the same code in the encoder.
Agrees(codes) ==
    \A type \in DOMAIN codes :
        type \in DOMAIN encoder.codes /\ encoder.codes[type] = codes[type]

\* t is about to replace the model whose codes it has dropped.
Refits(t) ==
    t \in Fitters /\ pc[t] \in {"extend", "put", "train", "publish"} /\ job[t].full

\* A fit that prepares its matrix: the types that have no code are still to come.
Preparing(t) ==
    t \in Fitters /\ pc[t] \in {"extend", "put"} =>
        /\ job[t].want \in Seq(AllTypes) /\ (pc[t] = "put" => job[t].want # <<>>)
        /\ \A type \in Range(RowTypes(job[t].data)) :
             type \in DOMAIN encoder.codes \/ type \in Range(job[t].want)
        /\ job[t].full \/ job[t].prev = model

\* A type that is about to get a code has none.
Putting(t) ==
    pc[t] = "put" =>
        job[t].slot[1] = encoder.gen /\ Head(job[t].want) \notin DOMAIN encoder.codes

\* A fit that has its matrix, and then its model.
Training(t) ==
    /\ pc[t] = "train" => Agrees(job[t].codes) /\ (job[t].full \/ job[t].prev = model)
    /\ pc[t] = "publish" /\ (job[t].full \/ ~stranded) => Agrees(job[t].new.codes)

Predicting(t) ==
    /\ t \in Predictors /\ pc[t] \in {"extend", "put"} => job[t].prev = model
    /\ pc[t] = "scored" /\ ~stranded =>
         \A type \in DOMAIN job[t].codes \cap DOMAIN job[t].prev.codes :
             job[t].codes[type] = job[t].prev.codes[type]

Starting(t) ==
    /\ pc[t] = "reset" => job[t].full
    /\ pc[t] \in {"reset", "previous"} =>
         t \in Fitters /\ \E d \in Datasets : job[t].data = Groups(d)

Coded(t) == Starting(t) /\ Preparing(t) /\ Putting(t) /\ Training(t) /\ Predicting(t)

\* Unless its codes were dropped, the model's matrix is coded as the encoder does.
ModelCoded == ~stranded /\ (\A t \in Threads : ~Refits(t)) => Agrees(model.codes)

AllCoded == ModelCoded /\ \A t \in Threads : Coded(t)

MatchInv == AloneInv /\ (alone => AllCoded)

LEMMA InitMatch == Init => MatchInv
<1> SUFFICES ASSUME Init PROVE MatchInv
  OBVIOUS
<1>1. \A t \in Threads : pc[t] = "idle"
  BY DEF Init
<1>2. ModelCoded
  BY DEF Init, ModelCoded, Agrees, NoModel, NoCodes
<1>3. \A t \in Threads : Coded(t)
  BY <1>1 DEF Coded, Starting, Preparing, Putting, Training, Predicting
<1> QED  BY <1>2, <1>3, InitAlone DEF MatchInv, AllCoded

LEMMA OneCoded ==
    ASSUME NEW t \in Threads, NEW place, Moves(t, place), Sole(t), Coded(t)', ModelCoded'
    PROVE  AllCoded'
<1>1. \A u \in Threads \ {t} : pc'[u] = "idle"
  BY DEF Moves, Sole
<1>2. \A u \in Threads \ {t} : Coded(u)'
  BY <1>1 DEF Coded, Starting, Preparing, Putting, Training, Predicting
<1> QED  BY <1>2 DEF AllCoded

\* The model stays coded if neither it nor the encoder nor what t does to it changes.
LEMMA SameModelCoded ==
    ASSUME AllCoded, NEW t \in Threads, NEW place, Moves(t, place), Sole(t),
           UNCHANGED <<model, encoder>>, stranded' \/ Refits(t)' \/ (~stranded /\ ~Refits(t))
    PROVE  ModelCoded'
<1>1. \A u \in Threads \ {t} : ~Refits(u)
  BY DEF Sole, Refits
<1>2. stranded' \/ Refits(t)' \/ Agrees(model.codes)
  BY <1>1 DEF AllCoded, ModelCoded
<1> QED  BY <1>2 DEF ModelCoded, Agrees

\* Elsewhere a thread has nothing to answer for.
LEMMA FreeOfCodes ==
    ASSUME NEW t \in Threads, NEW place \in {"idle", "count"}, Moves(t, place)
    PROVE  Coded(t)' /\ ~Refits(t)'
BY DEF Moves, Coded, Starting, Preparing, Putting, Training, Predicting, Refits

LEMMA RangeOfTail ==
    ASSUME NEW S, NEW s \in Seq(S), s # <<>>
    PROVE  /\ Tail(s) \in Seq(S)
           /\ \A x \in Range(s) : x = Head(s) \/ x \in Range(Tail(s))
<1>1. Tail(s) \in Seq(S) /\ Len(Tail(s)) = Len(s) - 1
  BY HeadTailProperties
<1>2. ASSUME NEW i \in DOMAIN s PROVE s[i] = Head(s) \/ s[i] \in Range(Tail(s))
  <2>1. CASE i = 1
    BY <2>1
  <2>2. CASE i # 1
    <3>1. i - 1 \in 1..Len(Tail(s)) /\ Tail(s)[i - 1] = s[(i - 1) + 1]
      BY <1>1, <2>2, HeadTailProperties, LenProperties
    <3>2. i - 1 \in DOMAIN Tail(s) /\ Tail(s)[i - 1] = s[i]
      BY <1>1, <2>2, <3>1, LenProperties
    <3> QED  BY <3>2 DEF Range
  <2> QED  BY <2>1, <2>2
<1> QED  BY <1>1, <1>2 DEF Range

LEMMA BeginCoded ==
    ASSUME MatchInv, NEW t \in Threads, Begin(t), alone'
    PROVE  AllCoded'
<1>1. Shape /\ alone /\ Sole(t) /\ AllCoded
  BY StepAlone DEF MatchInv, AloneInv
<1>2. /\ t \in Fitters /\ pc[t] = "idle" /\ UNCHANGED <<model, encoder, stranded>>
      /\ \E d \in Datasets : job'[t].data = Groups(d)
  BY <1>1, BeginDoes
<1>3. ASSUME NEW place \in {"reset", "previous"}, Moves(t, place),
             place = "reset" => job'[t].full
      PROVE  AllCoded'
  <2>1. Coded(t)' /\ ~Refits(t)
    BY <1>2, <1>3 DEF Moves, Refits, Coded, Starting, Preparing, Putting, Training, Predicting
  <2>2. ModelCoded'
    BY <1>1, <1>2, <1>3, <2>1, SameModelCoded
  <2> QED  BY <1>1, <1>3, <2>1, <2>2, OneCoded
<1> QED  BY <1>1, <1>3, BeginDoes

LEMMA ReadPreviousCoded ==
    ASSUME MatchInv, NEW t \in Threads, ReadPrevious(t), alone'
    PROVE  AllCoded'
<1>1. Shape /\ alone /\ Sole(t) /\ AllCoded
  BY StepAlone DEF MatchInv, AloneInv
<1>2. /\ pc[t] = "previous" /\ Moves(t, "extend") /\ job'[t].prev = model
      /\ job'[t].want = RowTypes(job[t].data) /\ job'[t].data = job[t].data
      /\ UNCHANGED <<model, encoder, stranded>>
  BY <1>1, ReadPreviousDoes
<1>3. RowTypes(job[t].data) \in Seq(AllTypes) /\ t \in Fitters
  BY <1>1, <1>2, RowsAssumption DEF AllCoded, Coded, Starting, AllTypes
<1>4. Coded(t)' /\ ~Refits(t)
  BY <1>2, <1>3, LambdaRankAssumption DEF Moves, Refits, Coded, Starting, Preparing, Putting, Training, Predicting
<1>5. ModelCoded'
  BY <1>1, <1>2, <1>4, SameModelCoded
<1> QED  BY <1>1, <1>2, <1>4, <1>5, OneCoded

LEMMA ResetCoded ==
    ASSUME MatchInv, NEW t \in Threads, Reset(t), alone'
    PROVE  AllCoded'
<1>1. Shape /\ alone /\ Sole(t) /\ AllCoded
  BY StepAlone DEF MatchInv, AloneInv
<1>2. /\ pc[t] = "reset" /\ Moves(t, "extend") /\ job'[t].full = job[t].full
      /\ job'[t].want = RowTypes(job[t].data) /\ job'[t].data = job[t].data
  BY <1>1, ResetDoes
<1>3. RowTypes(job[t].data) \in Seq(AllTypes) /\ t \in Fitters /\ job[t].full
  BY <1>1, <1>2, RowsAssumption DEF AllCoded, Coded, Starting, AllTypes
<1>4. Coded(t)' /\ Refits(t)'
  BY <1>2, <1>3, LambdaRankAssumption DEF Moves, Refits, Coded, Starting, Preparing, Putting, Training, Predicting
<1>5. ModelCoded'
  BY <1>4 DEF ModelCoded
<1> QED  BY <1>1, <1>2, <1>4, <1>5, OneCoded

LEMMA AskCoded ==
    ASSUME MatchInv, NEW t \in Threads, Ask(t), alone'
    PROVE  AllCoded'
<1>1. Shape /\ alone /\ Sole(t) /\ AllCoded
  BY StepAlone DEF MatchInv, AloneInv
<1>2. /\ t \in Predictors /\ t \notin Fitters /\ pc[t] = "idle" /\ Moves(t, "extend")
      /\ job'[t].prev = model /\ UNCHANGED <<model, encoder, stranded>>
  BY <1>1, AskDoes, LambdaRankAssumption
<1>3. Coded(t)' /\ ~Refits(t)
  BY <1>2 DEF Moves, Refits, Coded, Starting, Preparing, Putting, Training, Predicting
<1>4. ModelCoded'
  BY <1>1, <1>2, <1>3, SameModelCoded
<1> QED  BY <1>1, <1>2, <1>3, <1>4, OneCoded

LEMMA LookCoded ==
    ASSUME MatchInv, NEW t \in Threads, Look(t), alone'
    PROVE  AllCoded'
<1>1. Shape /\ alone /\ Sole(t) /\ AllCoded
  BY StepAlone DEF MatchInv, AloneInv
<1>2. /\ pc[t] = "extend" /\ job[t].want # <<>>
      /\ job'[t].full = job[t].full /\ job'[t].data = job[t].data
      /\ job'[t].prev = job[t].prev
      /\ UNCHANGED <<model, encoder, stranded>>
  BY <1>1, LookDoes
<1>3. Preparing(t) /\ Predicting(t)
  BY <1>1 DEF AllCoded, Coded
<1>4. ASSUME NEW place \in {"extend", "put"}, Moves(t, place), Coded(t)' PROVE AllCoded'
  <2>1. Refits(t)' = Refits(t)
    BY <1>2, <1>4 DEF Moves, Refits
  <2>2. ModelCoded'
    BY <1>1, <1>2, <1>4, <2>1, SameModelCoded
  <2> QED  BY <1>1, <1>4, <2>2, OneCoded
<1>5. CASE /\ Moves(t, "extend") /\ job'[t].want = Tail(job[t].want)
           /\ Head(job[t].want) \in DOMAIN encoder.codes
  <2>1. Preparing(t)'
    BY <1>2, <1>3, <1>5, RangeOfTail DEF Moves, Preparing
  <2>2. Coded(t)'
    BY <1>2, <1>3, <1>5, <2>1 DEF Moves, Coded, Starting, Putting, Training, Predicting
  <2> QED  BY <1>4, <1>5, <2>2
<1>6. CASE /\ Moves(t, "put") /\ job'[t].want = job[t].want
           /\ job'[t].slot = <<encoder.gen, Cardinality(DOMAIN encoder.codes)>>
           /\ Head(job[t].want) \notin DOMAIN encoder.codes
  <2>1. Coded(t)'
    BY <1>2, <1>3, <1>6 DEF Moves, Coded, Starting, Preparing, Putting, Training, Predicting
  <2> QED  BY <1>4, <1>6, <2>1
<1> QED  BY <1>1, <1>5, <1>6, LookDoes

\* A new code leaves the others as they are.
LEMMA PutAddsCode ==
    ASSUME NEW t \in Threads, Put(t), Putting(t)
    PROVE  /\ DOMAIN encoder'.codes = DOMAIN encoder.codes \cup {Head(job[t].want)}
           /\ \A type \in DOMAIN encoder.codes : encoder'.codes[type] = encoder.codes[type]
<1> DEFINE new == Head(job[t].want)
           codes == [u \in DOMAIN encoder.codes \cup {new} |->
                       IF u = new THEN job[t].slot[2] ELSE encoder.codes[u]]
<1>1. job[t].slot[1] = encoder.gen /\ new \notin DOMAIN encoder.codes
  BY DEF Put, Putting
<1>2. encoder' = [gen |-> encoder.gen, codes |-> codes]
  BY <1>1, Zenon DEF Put
<1> HIDE DEF new
<1>3. encoder'.codes = codes
  BY <1>2
<1> QED  BY <1>1, <1>3 DEF new

LEMMA PutCoded ==
    ASSUME MatchInv, NEW t \in Threads, Put(t), alone'
    PROVE  AllCoded'
<1>1. Shape /\ alone /\ Sole(t) /\ AllCoded
  BY StepAlone DEF MatchInv, AloneInv
<1>2. /\ pc[t] = "put" /\ Moves(t, "extend") /\ job'[t].want = Tail(job[t].want)
      /\ job'[t].full = job[t].full /\ job'[t].data = job[t].data
      /\ job'[t].prev = job[t].prev
      /\ UNCHANGED <<model, stranded>>
  BY <1>1, PutDoes
<1>3. Preparing(t) /\ Putting(t) /\ Predicting(t)
  BY <1>1 DEF AllCoded, Coded
<1>4. /\ DOMAIN encoder'.codes = DOMAIN encoder.codes \cup {Head(job[t].want)}
      /\ \A type \in DOMAIN encoder.codes : encoder'.codes[type] = encoder.codes[type]
  BY <1>3, PutAddsCode
<1>5. Preparing(t)'
  <2> SUFFICES ASSUME t \in Fitters PROVE Preparing(t)'
    BY DEF Preparing
  <2>1. /\ job[t].want \in Seq(AllTypes) /\ job[t].want # <<>>
        /\ \A type \in Range(RowTypes(job[t].data)) :
             type \in DOMAIN encoder.codes \/ type \in Range(job[t].want)
        /\ job[t].full \/ job[t].prev = model
    BY <1>2, <1>3 DEF Preparing
  <2>2. /\ Tail(job[t].want) \in Seq(AllTypes)
        /\ \A type \in Range(job[t].want) :
             type = Head(job[t].want) \/ type \in Range(Tail(job[t].want))
    BY <2>1, RangeOfTail
  <2> QED  BY <1>2, <1>4, <2>1, <2>2 DEF Moves, Preparing
<1>6. Coded(t)'
  BY <1>2, <1>3, <1>5 DEF Moves, Coded, Starting, Putting, Training, Predicting
<1>7. Refits(t)' = Refits(t)
  BY <1>2 DEF Moves, Refits
<1>8. ModelCoded'
  <2>1. \A u \in Threads \ {t} : ~Refits(u)
    BY <1>1 DEF Sole, Refits
  <2>2. stranded \/ Refits(t) \/ Agrees(model.codes)
    BY <1>1, <2>1 DEF AllCoded, ModelCoded
  <2>3. Agrees(model.codes) => Agrees(model.codes)'
    BY <1>2, <1>4 DEF Agrees
  <2> QED  BY <1>2, <1>7, <2>2, <2>3 DEF ModelCoded
<1> QED  BY <1>1, <1>2, <1>6, <1>8, OneCoded

LEMMA EncodeCoded ==
    ASSUME MatchInv, NEW t \in Threads, Encode(t), alone'
    PROVE  AllCoded'
<1>1. Shape /\ alone /\ Sole(t) /\ AllCoded
  BY StepAlone DEF MatchInv, AloneInv
<1>2. /\ t \in Fitters /\ pc[t] = "extend" /\ job[t].want = <<>>
      /\ UNCHANGED <<model, encoder>>
  BY <1>1, EncodeDoes
<1>3. CASE Moves(t, "idle") /\ stranded'
  <2>1. ModelCoded'
    BY <1>3 DEF ModelCoded
  <2> QED  BY <1>1, <1>3, <2>1, FreeOfCodes, OneCoded
<1>4. CASE /\ Moves(t, "train") /\ UNCHANGED stranded
           /\ job'[t].codes = CodesOf(Range(RowTypes(job[t].data)))
           /\ job'[t].full = job[t].full /\ job'[t].prev = job[t].prev
  <2> DEFINE types == Range(RowTypes(job[t].data))
  <2>1. Range(job[t].want) = {}
    BY <1>2 DEF Range
  <2>2. (\A type \in types : type \in DOMAIN encoder.codes) /\ (job[t].full \/ job[t].prev = model)
    BY <1>1, <1>2, <2>1 DEF AllCoded, Coded, Preparing
  <2> HIDE DEF types
  <2>3. /\ DOMAIN CodesOf(types) = types
        /\ \A type \in types : CodesOf(types)[type] = encoder.codes[type]
    BY <2>2 DEF CodesOf
  <2>4. Agrees(CodesOf(types))
    BY <2>2, <2>3 DEF Agrees
  <2>5. Training(t)'
    BY <1>2, <1>4, <2>2, <2>4 DEF Moves, Training, Agrees, types
  <2>6. Coded(t)' /\ Refits(t)' = Refits(t)
    BY <1>2, <1>4, <2>5 DEF Moves, Refits, Coded, Starting, Preparing, Putting, Predicting
  <2>7. ModelCoded'
    BY <1>1, <1>2, <1>4, <2>6, SameModelCoded
  <2> QED  BY <1>1, <1>4, <2>6, <2>7, OneCoded
<1> QED  BY <1>1, <1>3, <1>4, EncodeDoes

LEMMA ScoreCoded ==
    ASSUME MatchInv, NEW t \in Threads, Score(t), alone'
    PROVE  AllCoded'
<1>1. Shape /\ alone /\ Sole(t) /\ AllCoded
  BY StepAlone DEF MatchInv, AloneInv
<1>2. /\ t \in Predictors /\ t \notin Fitters /\ pc[t] = "extend" /\ Moves(t, "scored")
      /\ job'[t].codes = CodesOf(Range(RowTypes(job[t].data))) /\ job'[t].prev = job[t].prev
      /\ UNCHANGED <<model, encoder, stranded>>
  BY <1>1, ScoreDoes, LambdaRankAssumption
<1>3. ~Refits(t) /\ ~Refits(t)' /\ job[t].prev = model
  BY <1>1, <1>2 DEF Refits, AllCoded, Coded, Predicting
<1>4. ~stranded => Agrees(model.codes)
  BY <1>1, <1>3 DEF Sole, Refits, AllCoded, ModelCoded
<1> DEFINE types == Range(RowTypes(job[t].data))
<1>5. /\ DOMAIN CodesOf(types) = types
      /\ \A type \in types : type \in DOMAIN encoder.codes => CodesOf(types)[type] = encoder.codes[type]
  <2> HIDE DEF types
  <2> QED  BY DEF CodesOf
<1>6. Predicting(t)'
  BY <1>2, <1>3, <1>4, <1>5 DEF Moves, Predicting, Agrees
<1>7. Coded(t)'
  BY <1>2, <1>6 DEF Moves, Coded, Starting, Preparing, Putting, Training
<1>8. ModelCoded'
  BY <1>1, <1>2, <1>3, SameModelCoded
<1> QED  BY <1>1, <1>2, <1>7, <1>8, OneCoded

LEMMA AnswerCoded ==
    ASSUME MatchInv, NEW t \in Threads, Answer(t), alone'
    PROVE  AllCoded'
<1>1. Shape /\ alone /\ Sole(t) /\ AllCoded
  BY StepAlone DEF MatchInv, AloneInv
<1>2. pc[t] = "scored" /\ Moves(t, "idle") /\ UNCHANGED <<model, encoder, stranded>>
  BY <1>1, AnswerDoes DEF Answer
<1>3. ~Refits(t)
  BY <1>2 DEF Refits
<1>4. ModelCoded'
  BY <1>1, <1>2, <1>3, SameModelCoded
<1> QED  BY <1>1, <1>2, <1>4, FreeOfCodes, OneCoded

LEMMA TrainCoded ==
    ASSUME MatchInv, NEW t \in Threads, Train(t), alone'
    PROVE  AllCoded'
<1>1. Shape /\ alone /\ Sole(t) /\ AllCoded
  BY StepAlone DEF MatchInv, AloneInv
<1>2. /\ pc[t] = "train" /\ job'[t].full = job[t].full
      /\ UNCHANGED <<model, encoder, stranded>>
  BY <1>1, TrainDoes
<1>3. Agrees(job[t].codes) /\ (job[t].full \/ job[t].prev = model)
  BY <1>1, <1>2 DEF AllCoded, Coded, Training
<1>4. ASSUME NEW r, Moves(t, "count"), Rejected(job[t], r) PROVE AllCoded'
  <2>1. ~Refits(t)
    BY <1>4 DEF Rejected, Refits
  <2>2. ModelCoded'
    BY <1>1, <1>2, <1>4, <2>1, SameModelCoded
  <2> QED  BY <1>1, <1>4, <2>2, FreeOfCodes, OneCoded
<1>5. ASSUME NEW r, Moves(t, "publish"), job'[t].new = Trained(job[t], r) PROVE AllCoded'
  <2>1. (job[t].full \/ ~stranded) => Agrees(job'[t].new.codes)
    <3>1. CASE job[t].full
      <4>1. job'[t].new.codes = job[t].codes
        BY <1>5, <3>1 DEF Trained
      <4> QED  BY <1>3, <4>1
    <3>2. CASE ~job[t].full /\ ~stranded
      <4>1. Agrees(job[t].prev.codes)
        BY <1>1, <1>3, <3>2 DEF Sole, Refits, AllCoded, ModelCoded
      <4> DEFINE old == job[t].prev.codes
                 own == job[t].codes
                 both == [u \in DOMAIN own \cup DOMAIN old |->
                            IF u \in DOMAIN own THEN own[u] ELSE old[u]]
      <4>2. job'[t].new.codes = both
        BY <1>5, <3>2 DEF Trained
      <4> HIDE DEF old, own
      <4>3. Agrees(both)
        BY <1>3, <4>1 DEF Agrees, old, own
      <4> QED  BY <4>2, <4>3
    <3> QED  BY <3>1, <3>2
  <2>2. Training(t)'
    BY <1>2, <1>5, <2>1 DEF Moves, Training, Agrees
  <2>3. Coded(t)'
    BY <1>5, <2>2 DEF Moves, Coded, Starting, Preparing, Putting, Predicting
  <2>4. stranded' \/ Refits(t)' \/ (~stranded /\ ~Refits(t))
    BY <1>1, <1>2, <1>5 DEF Moves, Refits
  <2>5. ModelCoded'
    BY <1>1, <1>2, <1>5, <2>4, SameModelCoded
  <2> QED  BY <1>1, <1>5, <2>3, <2>5, OneCoded
<1> QED  BY <1>1, <1>4, <1>5, TrainDoes

LEMMA TrainFailsCoded ==
    ASSUME MatchInv, NEW t \in Threads, TrainFails(t), alone'
    PROVE  AllCoded'
<1>1. Shape /\ alone /\ Sole(t) /\ AllCoded
  BY StepAlone DEF MatchInv, AloneInv
<1>2. /\ pc[t] = "train" /\ Moves(t, "idle") /\ stranded' = (stranded \/ job[t].full)
      /\ UNCHANGED <<model, encoder>>
  BY <1>1, TrainFailsDoes
<1>3. stranded' \/ (~stranded /\ ~Refits(t))
  BY <1>2 DEF Refits
<1>4. ModelCoded'
  BY <1>1, <1>2, <1>3, SameModelCoded
<1> QED  BY <1>1, <1>2, <1>4, FreeOfCodes, OneCoded

LEMMA PublishCoded ==
    ASSUME MatchInv, NEW t \in Threads, Publish(t), alone'
    PROVE  AllCoded'
<1>1. Shape /\ alone /\ Sole(t) /\ AllCoded
  BY StepAlone DEF MatchInv, AloneInv
<1>2. /\ pc[t] = "publish" /\ Moves(t, "count") /\ model' = job[t].new
      /\ stranded' = (stranded /\ ~job[t].full) /\ UNCHANGED encoder
  BY <1>1, PublishDoes
<1>3. (job[t].full \/ ~stranded) => Agrees(job[t].new.codes)
  BY <1>1, <1>2 DEF AllCoded, Coded, Training
<1>4. ModelCoded'
  BY <1>2, <1>3 DEF ModelCoded, Agrees
<1> QED  BY <1>1, <1>2, <1>4, FreeOfCodes, OneCoded

LEMMA CountCoded ==
    ASSUME MatchInv, NEW t \in Threads, Count(t), alone'
    PROVE  AllCoded'
<1>1. Shape /\ alone /\ Sole(t) /\ AllCoded
  BY StepAlone DEF MatchInv, AloneInv
<1>2. pc[t] = "count" /\ Moves(t, "idle") /\ UNCHANGED <<model, encoder, stranded>>
  BY <1>1, CountDoes
<1>3. ~Refits(t)
  BY <1>2 DEF Refits
<1>4. ModelCoded'
  BY <1>1, <1>2, <1>3, SameModelCoded
<1> QED  BY <1>1, <1>2, <1>4, FreeOfCodes, OneCoded

LEMMA NextMatch == MatchInv /\ [Next]_vars => MatchInv'
<1> SUFFICES ASSUME MatchInv, [Next]_vars PROVE MatchInv'
  OBVIOUS
<1>1. AloneInv'
  BY NextAlone DEF MatchInv
<1>2. CASE UNCHANGED vars
  <2>1. UNCHANGED <<model, encoder, pc, job, alone, stranded>>
    BY <1>2 DEF vars, swapped
  <2>2. ModelCoded' = ModelCoded
    BY <2>1 DEF ModelCoded, Refits, Agrees
  <2>3. \A t \in Threads : Coded(t)' = Coded(t)
    BY <2>1 DEF Coded, Starting, Preparing, Putting, Training, Predicting, Agrees
  <2> QED  BY <1>1, <2>1, <2>2, <2>3 DEF MatchInv, AllCoded
<1>3. ASSUME NEW t \in Threads, alone',
             \/ Begin(t) \/ ReadPrevious(t) \/ Reset(t) \/ Ask(t) \/ Look(t) \/ Put(t)
             \/ Encode(t) \/ Score(t) \/ Answer(t)
             \/ Train(t) \/ TrainFails(t) \/ Publish(t) \/ Count(t)
      PROVE  AllCoded'
  BY <1>3, BeginCoded, ReadPreviousCoded, ResetCoded, AskCoded, LookCoded,
     PutCoded, EncodeCoded, ScoreCoded, AnswerCoded, TrainCoded,
     TrainFailsCoded, PublishCoded, CountCoded
<1> QED  BY <1>1, <1>2, <1>3 DEF Next, MatchInv

\* For any threads, data and types: as long as calls do not overlap, a prediction feeds
\* the model codes that its own matrix was built with, through extensions, rejections
\* and refits, unless the last full fit raised after it had dropped the codes
\* (lambdarank.py, reset and _build_matrix).
THEOREM PredictionsStayMatched == Spec => []SequentialPredictionsMatch
<1>1. MatchInv => SequentialPredictionsMatch
  BY DEF MatchInv, AllCoded, Coded, Predicting, SequentialPredictionsMatch,
         PredictionIsOfItsModel, Threads
<1> QED  BY InitMatch, NextMatch, <1>1, PTL DEF Spec
=============================================================================
