---------------------------- MODULE SimulatorProofs ----------------------------
(***************************************************************************)
(* Proofs about Simulator, for traces of any length, any number of workers *)
(* and every policy; and about the metrics, for any completion times.      *)
(***************************************************************************)
EXTENDS Simulator, FiniteSetTheorems, WellFoundedInduction, TLAPS

-----------------------------------------------------------------------------
(* The inductive invariant *)

\* What is scheduled for a process that goes on at once is due now.
Punctual == \A e \in calendar : e.kind \in {"request", "acquire", "release"} => e.at = now

\* As long as a request waits, every free slot is about to be given out.
SlotsAreOffered == queued > 0 => capacity - users <= Cardinality(Pending("release"))

Arrived(j) == j \in waiting \/ start[j] >= 0

\* One arrival is awaited, at its time, and those before it have arrived.
ArrivalInv ==
    /\ \A e, f \in Pending("arrive") : e = f
    /\ \A e \in Pending("arrive") :
          e.at = arrival[e.job] /\ \A j \in Jobs : Arrived(j) <=> j < e.job
    /\ Pending("arrive") = {} => \A j \in Jobs : Arrived(j)

\* A job waits, runs or has ended; what runs has one end scheduled at most.
PlaceInv ==
    /\ waiting \cap running = {}
    /\ \A j \in waiting : start[j] < 0
    /\ \A j \in running : start[j] >= 0
    /\ \A j \in Jobs : start[j] <= now
    /\ \A e \in Pending("finish") : e.job \in running
    /\ \A e, f \in Pending("finish") : e.job = f.job => e = f

ArrivalsAreSorted == \A i, j \in Jobs : i <= j => arrival[i] <= arrival[j]

SimInv ==
    /\ TypeOK /\ IsFiniteSet(calendar) /\ ArrivalsAreSorted
    /\ Punctual /\ SelectHasChoice /\ SlotsAreOffered /\ ArrivalInv /\ PlaceInv

-----------------------------------------------------------------------------
(* The calendar *)

LEMMA EventTyped ==
    ASSUME NEW at \in Nat, NEW n \in Nat, NEW kind \in Kinds, NEW j \in Jobs
    PROVE  /\ Event(at, n, kind, j) \in Events
           /\ Event(at, n, kind, j).at = at /\ Event(at, n, kind, j).eid = n
           /\ Event(at, n, kind, j).kind = kind /\ Event(at, n, kind, j).job = j
BY DEF Event, Events

\* The part of the type invariant that an event disturbs.
CalendarOK ==
    /\ now \in Nat /\ eid \in Nat
    /\ calendar \subseteq Events /\ IsFiniteSet(calendar)
    /\ \A e, f \in calendar : e.eid = f.eid => e = f
    /\ \A e \in calendar : e.at >= now /\ e.eid < eid

\* Processing the next event: time goes on to it, no event is overtaken, and
\* what it schedules is new.
LEMMA Processed ==
    ASSUME TypeOK, IsFiniteSet(calendar), NEW e \in calendar, NEW kind,
           NEW new \in SUBSET Events, IsFiniteSet(new), Process(e, kind, new),
           \A f \in new : f.at >= e.at /\ f.eid >= eid /\ f.eid < eid + Cardinality(new),
           \A f, g \in new : f.eid = g.eid => f = g
    PROVE  /\ e.kind = kind /\ e.at \in Nat /\ e.job \in Jobs /\ e.at >= now /\ now' = e.at
           /\ \A f \in calendar : e.at <= f.at
           /\ calendar' = (calendar \ {e}) \cup new /\ new \cap calendar = {}
           /\ UNCHANGED experiment
           /\ CalendarOK'
<1>1. /\ calendar \subseteq Events /\ now \in Nat /\ eid \in Nat
      /\ \A f, g \in calendar : f.eid = g.eid => f = g
      /\ \A f \in calendar : f.at >= now /\ f.eid < eid
  BY DEF TypeOK
<1>2. /\ e.kind = kind /\ now' = e.at /\ calendar' = (calendar \ {e}) \cup new
      /\ eid' = eid + Cardinality(new) /\ UNCHANGED experiment
      /\ \A f \in calendar \ {e} : Precedes(e, f)
  BY DEF Process
<1>3. \A f \in Events : f.at \in Nat /\ f.eid \in Nat /\ f.job \in Jobs
  BY DEF Events
<1>4. \A f \in calendar : e.at <= f.at
  BY <1>1, <1>2, <1>3 DEF Precedes
<1>5. new \cap calendar = {}
  BY <1>1, <1>3
<1>6. Cardinality(new) \in Nat
  BY FS_CardinalityType
<1>7. IsFiniteSet(calendar')
  <2>1. IsFiniteSet(calendar \ {e})
    BY FS_RemoveElement
  <2> QED
    BY <1>2, <2>1, FS_Union
<1>8. \A f, g \in calendar' : f.eid = g.eid => f = g
  BY <1>1, <1>2, <1>3
<1>9. \A f \in calendar' : f.at >= now' /\ f.eid < eid'
  BY <1>1, <1>2, <1>3, <1>4, <1>6
<1>10. CalendarOK'
  BY <1>1, <1>2, <1>3, <1>6, <1>7, <1>8, <1>9 DEF CalendarOK
<1> QED
  BY <1>1, <1>2, <1>3, <1>4, <1>5, <1>10

\* How the events of one kind change.
LEMMA PendingFinite ==
    ASSUME IsFiniteSet(calendar), NEW kind
    PROVE  IsFiniteSet(Pending(kind)) /\ Cardinality(Pending(kind)) \in Nat
<1>1. Pending(kind) \in SUBSET calendar
  BY DEF Pending
<1>2. IsFiniteSet(Pending(kind))
  BY <1>1, FS_Subset
<1> QED
  BY <1>2, FS_CardinalityType

LEMMA PendingKept ==
    ASSUME NEW e \in calendar, NEW new, calendar' = (calendar \ {e}) \cup new,
           NEW kind, e.kind # kind, \A f \in new : f.kind # kind
    PROVE  Pending(kind)' = Pending(kind)
BY DEF Pending

LEMMA PendingRemoved ==
    ASSUME IsFiniteSet(calendar),
           NEW e \in calendar, NEW new, calendar' = (calendar \ {e}) \cup new,
           NEW kind, e.kind = kind, \A f \in new : f.kind # kind
    PROVE  /\ Pending(kind)' = Pending(kind) \ {e}
           /\ Cardinality(Pending(kind)') = Cardinality(Pending(kind)) - 1
           /\ Cardinality(Pending(kind)) > 0
<1>1. Pending(kind)' = Pending(kind) \ {e} /\ e \in Pending(kind)
  BY DEF Pending
<1>2. /\ Cardinality(Pending(kind)') = Cardinality(Pending(kind)) - 1
      /\ Cardinality(Pending(kind)') \in Nat
  BY <1>1, PendingFinite, FS_RemoveElement, FS_CardinalityType
<1>3. Cardinality(Pending(kind)) \in Nat
  BY PendingFinite
<1> QED
  BY <1>1, <1>2, <1>3

LEMMA PendingAdded ==
    ASSUME IsFiniteSet(calendar),
           NEW e \in calendar, NEW new, calendar' = (calendar \ {e}) \cup new,
           NEW kind, e.kind # kind,
           NEW f \in new, f \notin calendar, f.kind = kind, \A g \in new : g.kind = kind => g = f
    PROVE  /\ Pending(kind)' = Pending(kind) \cup {f}
           /\ Cardinality(Pending(kind)') = Cardinality(Pending(kind)) + 1
<1>1. Pending(kind)' = Pending(kind) \cup {f} /\ f \notin Pending(kind)
  BY DEF Pending
<1> QED
  BY <1>1, PendingFinite, FS_AddElement

\* Jobs are finitely many.
LEMMA JobsFinite ==
    ASSUME NEW S \in SUBSET Jobs
    PROVE  IsFiniteSet(S) /\ Cardinality(S) \in Nat
<1>1. IsFiniteSet(Jobs)
  BY FS_Interval, SimulatorAssumption DEF Jobs
<1>2. IsFiniteSet(S)
  BY <1>1, FS_Subset
<1> QED
  BY <1>2, FS_CardinalityType

\* What every event keeps of the invariant.
LEMMA OnTime ==
    ASSUME SimInv, NEW e \in calendar, e.at \in Nat, e.at >= now, \A f \in calendar : e.at <= f.at
    PROVE  /\ \A f \in calendar : f.kind \in {"request", "acquire", "release"} => f.at = e.at
           /\ \A j \in Jobs : start[j] <= e.at
<1>1. /\ \A f \in calendar : f.kind \in {"request", "acquire", "release"} => f.at = now
      /\ now \in Nat
  BY DEF SimInv, Punctual, TypeOK
<1>2. \A j \in Jobs : start[j] \in Int /\ start[j] <= now
  BY DEF SimInv, PlaceInv, TypeOK
<1> QED
  BY <1>1, <1>2

\* The sets that are counted, and their numbers.
LEMMA Counts ==
    ASSUME SimInv
    PROVE  /\ IsFiniteSet(waiting) /\ Cardinality(waiting) \in Nat
           /\ IsFiniteSet(running) /\ Cardinality(running) \in Nat
           /\ \A kind : Cardinality(Pending(kind)) \in Nat
           /\ queued \in Nat /\ users \in Nat /\ capacity \in Nat
<1>1. /\ waiting \in SUBSET Jobs /\ running \in SUBSET Jobs
      /\ queued \in Nat /\ users \in 0..capacity /\ capacity \in Nat
  BY SimulatorAssumption DEF SimInv, TypeOK
<1>2. \A kind : Cardinality(Pending(kind)) \in Nat
  BY PendingFinite DEF SimInv
<1> QED
  BY <1>1, <1>2, JobsFinite

LEMMA ArriveSim ==
    ASSUME SimInv, NEW e \in calendar, Arrive(e)
    PROVE  SimInv'
<1> DEFINE next == e.job + 1
           r == Event(e.at, eid, "request", e.job)
           a == Event(Later(e.at, arrival[next]), eid + 1, "arrive", next)
           new == {r} \cup (IF e.job < N THEN {a} ELSE {})
<1>1. /\ Process(e, "arrive", new) /\ waiting' = waiting \cup {e.job}
      /\ UNCHANGED <<queued, users, running, start, end>>
  BY DEF Arrive, resource
<1>2. /\ e.kind = "arrive" /\ e.job \in Jobs /\ e.at \in Nat /\ eid \in Nat
      /\ e \in Pending("arrive") /\ N \in Nat
  BY <1>1, SimulatorAssumption DEF Process, SimInv, TypeOK, Events, Pending
<1>3. /\ e.at = arrival[e.job]
      /\ \A j \in Jobs : Arrived(j) <=> j < e.job
      /\ \A f \in Pending("arrive") : f = e
  BY <1>2 DEF SimInv, ArrivalInv
<1>4. ASSUME e.job < N
      PROVE  /\ next \in Jobs /\ arrival[next] \in Nat
             /\ Later(e.at, arrival[next]) = arrival[next] /\ arrival[next] >= e.at
  <2>1. next \in Jobs /\ e.job \in Jobs /\ e.job <= next
    BY <1>2, <1>4 DEF Jobs
  <2>2. \A j \in Jobs : arrival[j] \in Nat
    BY SimulatorAssumption DEF SimInv, TypeOK
  <2>3. arrival[e.job] <= arrival[next]
    BY <2>1 DEF SimInv, ArrivalsAreSorted
  <2> QED
    BY <1>3, <2>1, <2>2, <2>3 DEF Later
<1>5. /\ r \in Events /\ r.at = e.at /\ r.eid = eid /\ r.kind = "request" /\ r.job = e.job
  BY <1>2, EventTyped DEF Kinds
<1>6. ASSUME e.job < N
      PROVE  /\ a \in Events /\ a.at = arrival[next] /\ a.eid = eid + 1 /\ a.kind = "arrive"
             /\ a.job = next
  <2>1. eid + 1 \in Nat /\ "arrive" \in Kinds
    BY <1>2 DEF Kinds
  <2> QED
    BY <1>4, <1>6, <2>1, EventTyped
<1> HIDE DEF r, a
<1>7. /\ new \in SUBSET Events /\ IsFiniteSet(new)
      /\ Cardinality(new) = IF e.job < N THEN 2 ELSE 1
  <2>1. IsFiniteSet({r}) /\ Cardinality({r}) = 1
    BY FS_Singleton
  <2>2. CASE e.job < N
    <3>1. new = {r} \cup {a} /\ a \notin {r}
      BY <1>5, <1>6, <2>2
    <3>2. IsFiniteSet(new) /\ Cardinality(new) = 2
      BY <2>1, <3>1, FS_AddElement
    <3> QED
      BY <1>5, <1>6, <2>2, <3>2
  <2>3. CASE ~(e.job < N)
    BY <1>5, <2>1, <2>3
  <2> QED
    BY <2>2, <2>3
<1>8. \A f \in new : f = r \/ (f = a /\ e.job < N)
  OBVIOUS
<1>9. /\ \A f \in new : f.at >= e.at /\ f.eid >= eid /\ f.eid < eid + Cardinality(new)
      /\ \A f, g \in new : f.eid = g.eid => f = g
  BY <1>2, <1>4, <1>5, <1>6, <1>7, <1>8
<1>10. r \in new /\ (e.job < N => a \in new)
  OBVIOUS
<1> HIDE DEF new
<1>11. /\ e.at >= now /\ now' = e.at
       /\ \A f \in calendar : e.at <= f.at
       /\ calendar' = (calendar \ {e}) \cup new /\ new \cap calendar = {}
       /\ UNCHANGED experiment
       /\ CalendarOK'
  BY <1>1, <1>7, <1>9, Processed DEF SimInv
<1>12. /\ e.job \notin waiting /\ e.job \notin running /\ start[e.job] < 0
  <2>1. ~Arrived(e.job) /\ start[e.job] \in Int
    BY <1>2, <1>3 DEF Jobs, SimInv, TypeOK
  <2> QED
    BY <1>2, <2>1 DEF Arrived, SimInv, PlaceInv
<1>13. TypeOK'
  BY <1>1, <1>2, <1>11 DEF SimInv, TypeOK, CalendarOK, experiment
<1>14. Punctual'
  BY <1>5, <1>6, <1>8, <1>11, <1>2, OnTime DEF Punctual
<1>15. /\ Cardinality(Pending("request")') = Cardinality(Pending("request")) + 1
       /\ Pending("acquire")' = Pending("acquire")
       /\ Pending("release")' = Pending("release")
       /\ Pending("finish")' = Pending("finish")
  <2>1. \A f \in new : f.kind \in {"request", "arrive"} /\ (f.kind = "request" => f = r)
    BY <1>5, <1>6, <1>8
  <2>2. r \notin calendar /\ IsFiniteSet(calendar)
    BY <1>10, <1>11 DEF SimInv
  <2>3. Cardinality(Pending("request")') = Cardinality(Pending("request")) + 1
    BY <1>2, <1>5, <1>10, <1>11, <2>1, <2>2, PendingAdded
  <2>4. ASSUME NEW kind \in {"acquire", "release", "finish"} PROVE Pending(kind)' = Pending(kind)
    BY <1>2, <1>11, <2>1, PendingKept
  <2> QED
    BY <2>3, <2>4
<1>16. SelectHasChoice'
  <2>1. Cardinality(waiting') = Cardinality(waiting) + 1
    BY <1>1, <1>12, Counts, FS_AddElement
  <2> QED
    BY <1>1, <1>15, <2>1, Counts DEF SimInv, SelectHasChoice
<1>17. SlotsAreOffered'
  BY <1>1, <1>11, <1>15 DEF SimInv, SlotsAreOffered, experiment
<1>18. ArrivalInv'
  <2>1. \A j \in Jobs : Arrived(j)' <=> j < next
    BY <1>1, <1>2, <1>3 DEF Arrived, Jobs
  <2>2. \A f \in Pending("arrive")' : e.job < N /\ f = a
    BY <1>3, <1>5, <1>8, <1>11 DEF Pending
  <2>3. arrival' = arrival
    BY <1>11 DEF experiment
  <2>4. CASE e.job < N
    <3>1. a \in Pending("arrive")'
      BY <1>6, <1>10, <1>11, <2>4 DEF Pending
    <3> QED
      BY <1>6, <2>1, <2>2, <2>3, <2>4, <3>1 DEF ArrivalInv
  <2>5. CASE ~(e.job < N)
    <3>1. \A j \in Jobs : j < next
      BY <1>2, <2>5 DEF Jobs
    <3> QED
      BY <2>1, <2>2, <2>5, <3>1 DEF ArrivalInv
  <2> QED
    BY <2>4, <2>5
<1>19. PlaceInv'
  <2>1. waiting' \cap running' = {}
    BY <1>1, <1>12 DEF SimInv, PlaceInv
  <2>2. (\A j \in waiting : start[j] < 0)' /\ (\A j \in running : start[j] >= 0)'
    BY <1>1, <1>12 DEF SimInv, PlaceInv
  <2>3. \A j \in Jobs : start'[j] <= now'
    BY <1>1, <1>2, <1>11, OnTime
  <2> QED
    BY <1>1, <1>15, <2>1, <2>2, <2>3 DEF SimInv, PlaceInv
<1>20. ArrivalsAreSorted'
  BY <1>11 DEF SimInv, ArrivalsAreSorted, experiment
<1> QED
  BY <1>11, <1>13, <1>14, <1>16, <1>17, <1>18, <1>19, <1>20 DEF SimInv, CalendarOK

\* The resource learns of a request or of a slot that is free.
LEMMA TriggerSim ==
    ASSUME SimInv, NEW e \in calendar, NEW kind \in {"request", "release"},
           NEW requests, requests = IF kind = "request" THEN queued + 1 ELSE queued,
           Trigger(e, kind, requests), UNCHANGED <<waiting, running, start, end>>
    PROVE  SimInv'
<1> DEFINE grants == requests > 0 /\ users < capacity
           q == Event(e.at, eid, "acquire", e.job)
           new == IF grants THEN {q} ELSE {}
<1>1. /\ Process(e, kind, new)
      /\ users' = IF grants THEN users + 1 ELSE users
      /\ queued' = IF grants THEN requests - 1 ELSE requests
  <2>1. CASE grants
    BY <2>1 DEF Trigger
  <2>2. CASE ~grants
    BY <2>2 DEF Trigger
  <2> QED
    BY <2>1, <2>2
<1>2. /\ e.kind = kind /\ e.job \in Jobs /\ e.at \in Nat /\ eid \in Nat /\ requests \in Nat
      /\ users \in 0..capacity /\ queued \in Nat /\ capacity \in Nat
  BY <1>1, SimulatorAssumption DEF Process, SimInv, TypeOK, Events
<1>3. q \in Events /\ q.at = e.at /\ q.eid = eid /\ q.kind = "acquire" /\ q.job = e.job
  BY <1>2, EventTyped DEF Kinds
<1> HIDE DEF q
<1>4. /\ new \in SUBSET Events /\ IsFiniteSet(new)
      /\ Cardinality(new) = IF grants THEN 1 ELSE 0
  <2>1. IsFiniteSet({q}) /\ Cardinality({q}) = 1 /\ IsFiniteSet({}) /\ Cardinality({}) = 0
    BY FS_Singleton, FS_EmptySet
  <2>2. CASE grants
    BY <1>3, <2>1, <2>2
  <2>3. CASE ~grants
    BY <2>1, <2>3
  <2> QED
    BY <2>2, <2>3
<1>5. \A f \in new : grants /\ f = q
  OBVIOUS
<1>6. grants => q \in new
  OBVIOUS
<1> HIDE DEF new, grants
<1>7. /\ \A f \in new : f.at >= e.at /\ f.eid >= eid /\ f.eid < eid + Cardinality(new)
      /\ \A f, g \in new : f.eid = g.eid => f = g
  BY <1>2, <1>3, <1>4, <1>5
<1>8. /\ e.at >= now /\ now' = e.at
      /\ \A f \in calendar : e.at <= f.at
      /\ calendar' = (calendar \ {e}) \cup new /\ new \cap calendar = {}
      /\ UNCHANGED experiment
      /\ CalendarOK'
  BY <1>1, <1>4, <1>7, Processed DEF SimInv
<1>9. \A f \in new : f.kind = "acquire"
  BY <1>3, <1>5
<1>10. capacity' = capacity /\ arrival' = arrival
  BY <1>8 DEF experiment
<1>11. /\ Cardinality(Pending("request")') =
            Cardinality(Pending("request")) - (IF kind = "request" THEN 1 ELSE 0)
       /\ Cardinality(Pending("release")') =
            Cardinality(Pending("release")) - (IF kind = "release" THEN 1 ELSE 0)
       /\ Cardinality(Pending("release")') \in Nat
  <2>1. IsFiniteSet(calendar) /\ IsFiniteSet(calendar')
    BY <1>8 DEF SimInv, CalendarOK
  <2>2. Cardinality(Pending("release")') \in Nat
    <3>1. Pending("release")' \in SUBSET (calendar')
      BY DEF Pending
    <3>2. IsFiniteSet(Pending("release")')
      BY <2>1, <3>1, FS_Subset
    <3> QED
      BY <3>2, FS_CardinalityType
  <2>3. CASE kind = "request"
    <3>1. Cardinality(Pending("request")') = Cardinality(Pending("request")) - 1
      BY <1>2, <1>8, <1>9, <2>1, <2>3, PendingRemoved
    <3>2. Pending("release")' = Pending("release")
      BY <1>2, <1>8, <1>9, <2>3, PendingKept
    <3> QED
      BY <2>2, <2>3, <3>1, <3>2, Counts
  <2>4. CASE kind = "release"
    <3>1. Cardinality(Pending("release")') = Cardinality(Pending("release")) - 1
      BY <1>2, <1>8, <1>9, <2>1, <2>4, PendingRemoved
    <3>2. Pending("request")' = Pending("request")
      BY <1>2, <1>8, <1>9, <2>4, PendingKept
    <3> QED
      BY <2>2, <2>4, <3>1, <3>2, Counts
  <2> QED
    BY <2>3, <2>4
<1>12. Cardinality(Pending("acquire")') =
         Cardinality(Pending("acquire")) + (IF grants THEN 1 ELSE 0)
  <2>1. CASE grants
    <3>1. /\ q \in new /\ q \notin calendar /\ q.kind = "acquire" /\ IsFiniteSet(calendar)
          /\ \A g \in new : g.kind = "acquire" => g = q
          /\ e.kind # "acquire" /\ calendar' = (calendar \ {e}) \cup new
      BY <1>2, <1>3, <1>5, <1>6, <1>8, <2>1 DEF SimInv
    <3>2. /\ Pending("acquire")' = Pending("acquire") \cup {q}
          /\ q \notin Pending("acquire")
      BY <3>1 DEF Pending
    <3>3. IsFiniteSet(Pending("acquire"))
      BY PendingFinite DEF SimInv
    <3>4. Cardinality(Pending("acquire")') = Cardinality(Pending("acquire")) + 1
      BY <3>2, <3>3, FS_AddElement
    <3> QED
      BY <2>1, <3>4
  <2>2. CASE ~grants
    <3>1. Pending("acquire")' = Pending("acquire")
      BY <1>2, <1>5, <1>8, <2>2, PendingKept
    <3> QED
      BY <2>2, <3>1, Counts
  <2> QED
    BY <2>1, <2>2
<1>13. Pending("arrive")' = Pending("arrive") /\ Pending("finish")' = Pending("finish")
  BY <1>2, <1>8, <1>9, PendingKept
<1>14. users' \in 0..capacity /\ queued' \in Nat
  BY <1>1, <1>2 DEF grants
<1>15. TypeOK'
  BY <1>8, <1>14 DEF SimInv, TypeOK, CalendarOK, experiment
<1>16. Punctual'
  BY <1>2, <1>3, <1>5, <1>8, OnTime DEF Punctual
<1>17. SelectHasChoice'
  <2>1. /\ Cardinality(waiting) =
             Cardinality(Pending("request")) + queued + Cardinality(Pending("acquire"))
        /\ users = Cardinality(running) + Cardinality(Pending("acquire"))
    BY DEF SimInv, SelectHasChoice
  <2>2. /\ Cardinality(waiting) \in Nat /\ Cardinality(running) \in Nat
        /\ Cardinality(Pending("request")) \in Nat /\ Cardinality(Pending("acquire")) \in Nat
    BY Counts
  <2>3. /\ Cardinality(waiting) =
             Cardinality(Pending("request")') + queued' + Cardinality(Pending("acquire")')
        /\ users' = Cardinality(running) + Cardinality(Pending("acquire")')
    <3>1. CASE kind = "request" /\ grants
      BY <1>1, <1>2, <1>11, <1>12, <2>1, <2>2, <3>1
    <3>2. CASE kind = "request" /\ ~grants
      BY <1>1, <1>2, <1>11, <1>12, <2>1, <2>2, <3>2
    <3>3. CASE kind = "release" /\ grants
      BY <1>1, <1>2, <1>11, <1>12, <2>1, <2>2, <3>3
    <3>4. CASE kind = "release" /\ ~grants
      BY <1>1, <1>2, <1>11, <1>12, <2>1, <2>2, <3>4
    <3> QED
      BY <3>1, <3>2, <3>3, <3>4
  <2> QED
    BY <2>3 DEF SelectHasChoice
<1>18. SlotsAreOffered'
  <2>1. queued > 0 => capacity - users <= Cardinality(Pending("release"))
    BY DEF SimInv, SlotsAreOffered
  <2>2. ASSUME queued' > 0
        PROVE  capacity - users' <= Cardinality(Pending("release")')
    <3>1. CASE grants
      <4>1. queued > 0 /\ users' = users + 1
        BY <1>1, <1>2, <2>2, <3>1
      <4> QED
        BY <1>2, <1>11, <2>1, <4>1, Counts
    <3>2. CASE ~grants
      <4>1. users = capacity /\ users' = users
        BY <1>1, <1>2, <2>2, <3>2 DEF grants
      <4> QED
        BY <1>2, <1>11, <4>1
    <3> QED
      BY <3>1, <3>2
  <2> QED
    BY <1>10, <2>2 DEF SlotsAreOffered
<1>19. ArrivalInv'
  BY <1>10, <1>13 DEF SimInv, ArrivalInv, Arrived
<1>20. PlaceInv'
  <2>1. \A j \in Jobs : start'[j] <= now'
    BY <1>2, <1>8, OnTime
  <2> QED
    BY <1>13, <2>1 DEF SimInv, PlaceInv
<1>21. ArrivalsAreSorted'
  BY <1>10 DEF SimInv, ArrivalsAreSorted
<1> QED
  BY <1>8, <1>15, <1>16, <1>17, <1>18, <1>19, <1>20, <1>21 DEF SimInv, CalendarOK

LEMMA RequestSim ==
    ASSUME SimInv, NEW e \in calendar, Request(e)
    PROVE  SimInv'
<1>1. /\ Trigger(e, "request", queued + 1) /\ UNCHANGED <<waiting, running, start, end>>
      /\ "request" \in {"request", "release"}
      /\ queued + 1 = IF "request" = "request" THEN queued + 1 ELSE queued
  BY DEF Request
<1> QED
  BY <1>1, TriggerSim

LEMMA ReleaseSim ==
    ASSUME SimInv, NEW e \in calendar, Release(e)
    PROVE  SimInv'
<1>1. /\ Trigger(e, "release", queued) /\ UNCHANGED <<waiting, running, start, end>>
      /\ "release" \in {"request", "release"}
      /\ queued = IF "release" = "request" THEN queued + 1 ELSE queued
  BY DEF Release
<1> QED
  BY <1>1, TriggerSim

\* What Select() names waits.
LEMMA SelectWaits ==
    ASSUME NEW j \in Select
    PROVE  j \in waiting
<1>1. CASE policy = "random"
  BY <1>1 DEF Select
<1>2. CASE policy = "lambdarank"
  BY <1>2 DEF Select, Ranked
<1>3. CASE policy \notin {"random", "lambdarank"}
  BY <1>3 DEF Select
<1> QED
  BY <1>1, <1>2, <1>3

LEMMA AcquireSim ==
    ASSUME SimInv, NEW e \in calendar, Acquire(e)
    PROVE  SimInv'
<1>1. PICK j \in Select :
         /\ Process(e, "acquire", {Event(e.at + true[j], eid, "finish", j)})
         /\ waiting' = waiting \ {j}
         /\ running' = running \cup {j}
         /\ start' = [start EXCEPT ![j] = e.at]
         /\ queued' = queued /\ users' = users /\ end' = end
  BY DEF Acquire, resource
<1> DEFINE due == e.at + true[j]
           q == Event(due, eid, "finish", j)
           new == {q}
<1>2. /\ e.kind = "acquire" /\ e.job \in Jobs /\ e.at \in Nat /\ eid \in Nat
  BY <1>1 DEF Process, SimInv, TypeOK, Events
<1>3. /\ j \in waiting /\ j \in Jobs /\ true[j] \in Nat
      /\ start \in [Jobs -> Nat \cup {-1}] /\ start' = [start EXCEPT ![j] = e.at]
      /\ j \notin running
  BY <1>1, SelectWaits, SimulatorAssumption DEF SimInv, TypeOK, PlaceInv
<1>4. /\ q \in Events /\ q.at = due /\ q.eid = eid /\ q.kind = "finish" /\ q.job = j
      /\ due \in Nat /\ due >= e.at
  <2>1. due \in Nat /\ due >= e.at /\ "finish" \in Kinds
    BY <1>2, <1>3 DEF Kinds
  <2> HIDE DEF due
  <2>2. eid \in Nat /\ j \in Jobs
    BY <1>2, <1>3
  <2>3. q \in Events /\ q.at = due /\ q.eid = eid /\ q.kind = "finish" /\ q.job = j
    BY <2>1, <2>2, EventTyped
  <2> QED
    BY <2>1, <2>3
<1> HIDE DEF due, q
<1>5. new \in SUBSET Events /\ IsFiniteSet(new) /\ Cardinality(new) = 1 /\ q \in new /\ \A f \in new : f = q
  BY <1>4, FS_Singleton
<1> HIDE DEF new
<1>6. /\ \A f \in new : f.at >= e.at /\ f.eid >= eid /\ f.eid < eid + Cardinality(new)
      /\ \A f, g \in new : f.eid = g.eid => f = g
  BY <1>2, <1>3, <1>4, <1>5
<1>7. /\ e.at >= now /\ now' = e.at
      /\ \A f \in calendar : e.at <= f.at
      /\ calendar' = (calendar \ {e}) \cup new /\ new \cap calendar = {}
      /\ UNCHANGED experiment
      /\ CalendarOK'
  <2>1. Process(e, "acquire", new)
    BY <1>1 DEF q, due, new
  <2> QED
    BY <1>5, <1>6, <2>1, Processed DEF SimInv
<1>8. capacity' = capacity /\ arrival' = arrival
  BY <1>7 DEF experiment
<1>9. start'[j] = e.at /\ \A k \in Jobs \ {j} : start'[k] = start[k]
  BY <1>3
<1>10. /\ Cardinality(Pending("acquire")') = Cardinality(Pending("acquire")) - 1
       /\ Cardinality(Pending("acquire")) > 0
       /\ Pending("request")' = Pending("request")
       /\ Pending("release")' = Pending("release")
       /\ Pending("arrive")' = Pending("arrive")
       /\ Pending("finish")' = Pending("finish") \cup {q}
  <2>1. IsFiniteSet(calendar) /\ \A f \in new : f.kind = "finish"
    BY <1>4, <1>5 DEF SimInv
  <2>2. /\ Cardinality(Pending("acquire")') = Cardinality(Pending("acquire")) - 1
        /\ Cardinality(Pending("acquire")) > 0
    BY <1>2, <1>7, <2>1, PendingRemoved
  <2>3. ASSUME NEW kind \in {"request", "release", "arrive"} PROVE Pending(kind)' = Pending(kind)
    BY <1>2, <1>7, <2>1, PendingKept
  <2>4. Pending("finish")' = Pending("finish") \cup {q}
    BY <1>2, <1>4, <1>5, <1>7 DEF Pending
  <2> QED
    BY <2>2, <2>3, <2>4
<1>11. TypeOK'
  <2>1. waiting' \subseteq Jobs /\ running' \subseteq Jobs /\ start' \in [Jobs -> Nat \cup {-1}]
    BY <1>1, <1>2, <1>3 DEF SimInv, TypeOK
  <2> QED
    BY <1>1, <1>7, <2>1 DEF SimInv, TypeOK, CalendarOK, experiment
<1>12. Punctual'
  BY <1>2, <1>4, <1>5, <1>7, OnTime DEF Punctual
<1>13. SelectHasChoice'
  <2>1. /\ Cardinality(waiting') = Cardinality(waiting) - 1
        /\ Cardinality(running') = Cardinality(running) + 1
    BY <1>1, <1>3, Counts, FS_RemoveElement, FS_AddElement
  <2>2. /\ Cardinality(waiting) =
             Cardinality(Pending("request")) + queued + Cardinality(Pending("acquire"))
        /\ users = Cardinality(running) + Cardinality(Pending("acquire"))
    BY DEF SimInv, SelectHasChoice
  <2>3. /\ Cardinality(waiting) \in Nat /\ Cardinality(running) \in Nat
        /\ Cardinality(Pending("request")) \in Nat /\ Cardinality(Pending("acquire")) \in Nat
        /\ queued \in Nat /\ users \in Nat
    BY Counts
  <2>4. /\ Cardinality(waiting') =
             Cardinality(Pending("request")') + queued' + Cardinality(Pending("acquire")')
        /\ users' = Cardinality(running') + Cardinality(Pending("acquire")')
    BY <1>1, <1>10, <2>1, <2>2, <2>3
  <2> QED
    BY <2>4 DEF SelectHasChoice
<1>14. SlotsAreOffered'
  BY <1>1, <1>8, <1>10 DEF SimInv, SlotsAreOffered
<1>15. ArrivalInv'
  <2>1. ASSUME NEW k \in Jobs PROVE Arrived(k)' <=> Arrived(k)
    BY <1>1, <1>2, <1>3, <1>9 DEF Arrived
  <2> QED
    BY <1>8, <1>10, <2>1 DEF SimInv, ArrivalInv
<1>16. PlaceInv'
  <2>1. waiting' \cap running' = {}
    BY <1>1 DEF SimInv, PlaceInv
  <2>2. \A k \in waiting' : start'[k] < 0
    BY <1>1, <1>9 DEF SimInv, PlaceInv, TypeOK
  <2>3. \A k \in running' : start'[k] >= 0
    BY <1>1, <1>2, <1>9 DEF SimInv, PlaceInv, TypeOK
  <2>4. \A k \in Jobs : start'[k] <= now'
    BY <1>2, <1>7, <1>9, OnTime
  <2>5. \A f \in Pending("finish")' : f.job \in running'
    BY <1>1, <1>4, <1>10 DEF SimInv, PlaceInv
  <2>6. \A f, g \in Pending("finish")' : f.job = g.job => f = g
    BY <1>3, <1>4, <1>10 DEF SimInv, PlaceInv
  <2> QED
    BY <2>1, <2>2, <2>3, <2>4, <2>5, <2>6 DEF PlaceInv
<1>17. ArrivalsAreSorted'
  BY <1>8 DEF SimInv, ArrivalsAreSorted
<1> QED
  BY <1>7, <1>11, <1>12, <1>13, <1>14, <1>15, <1>16, <1>17 DEF SimInv, CalendarOK

LEMMA FinishSim ==
    ASSUME SimInv, NEW e \in calendar, Finish(e)
    PROVE  SimInv'
<1> DEFINE q == Event(e.at, eid, "release", e.job)
           new == {q}
<1>1. /\ Process(e, "finish", new)
      /\ running' = running \ {e.job}
      /\ end' = [end EXCEPT ![e.job] = e.at]
      /\ users' = users - 1
      /\ UNCHANGED <<queued, waiting, start>>
  BY DEF Finish
<1>2. /\ e.kind = "finish" /\ e.job \in Jobs /\ e.at \in Nat /\ eid \in Nat
      /\ e \in Pending("finish")
  BY <1>1 DEF Process, SimInv, TypeOK, Events, Pending
<1>3. e.job \in running
  BY <1>2 DEF SimInv, PlaceInv
<1>4. q \in Events /\ q.at = e.at /\ q.eid = eid /\ q.kind = "release" /\ q.job = e.job
  <2>1. "release" \in Kinds
    BY DEF Kinds
  <2> QED
    BY <1>2, <2>1, EventTyped
<1> HIDE DEF q
<1>5. new \in SUBSET Events /\ IsFiniteSet(new) /\ Cardinality(new) = 1 /\ q \in new /\ \A f \in new : f = q
  BY <1>4, FS_Singleton
<1> HIDE DEF new
<1>6. /\ \A f \in new : f.at >= e.at /\ f.eid >= eid /\ f.eid < eid + Cardinality(new)
      /\ \A f, g \in new : f.eid = g.eid => f = g
  BY <1>2, <1>4, <1>5
<1>7. /\ e.at >= now /\ now' = e.at
      /\ \A f \in calendar : e.at <= f.at
      /\ calendar' = (calendar \ {e}) \cup new /\ new \cap calendar = {}
      /\ UNCHANGED experiment
      /\ CalendarOK'
  BY <1>1, <1>5, <1>6, Processed DEF SimInv
<1>8. capacity' = capacity /\ arrival' = arrival
  BY <1>7 DEF experiment
<1>9. /\ Pending("acquire")' = Pending("acquire")
      /\ Pending("request")' = Pending("request")
      /\ Pending("arrive")' = Pending("arrive")
      /\ Cardinality(Pending("release")') = Cardinality(Pending("release")) + 1
      /\ Pending("finish")' = Pending("finish") \ {e}
  <2>1. IsFiniteSet(calendar) /\ \A f \in new : f.kind = "release"
    BY <1>4, <1>5 DEF SimInv
  <2>2. /\ q \in new /\ q \notin calendar /\ q.kind = "release"
        /\ \A g \in new : g.kind = "release" => g = q
        /\ e.kind # "release" /\ calendar' = (calendar \ {e}) \cup new
    BY <1>2, <1>4, <1>5, <1>7
  <2>3. Cardinality(Pending("release")') = Cardinality(Pending("release")) + 1
    BY <2>1, <2>2, PendingAdded
  <2>4. ASSUME NEW kind \in {"request", "acquire", "arrive"} PROVE Pending(kind)' = Pending(kind)
    BY <1>2, <1>7, <2>1, PendingKept
  <2>5. Pending("finish")' = Pending("finish") \ {e}
    BY <1>2, <1>4, <1>5, <1>7 DEF Pending
  <2> QED
    BY <2>3, <2>4, <2>5
<1>10. /\ Cardinality(running') = Cardinality(running) - 1
       /\ Cardinality(running) > 0
  <2>1. Cardinality(running') = Cardinality(running) - 1
    BY <1>1, <1>3, Counts, FS_RemoveElement
  <2>2. IsFiniteSet(running') /\ Cardinality(running') \in Nat
    BY <1>1, Counts, FS_Subset, FS_CardinalityType
  <2> QED
    BY <2>1, <2>2, Counts
<1>11. /\ Cardinality(waiting) =
             Cardinality(Pending("request")) + queued + Cardinality(Pending("acquire"))
       /\ users = Cardinality(running) + Cardinality(Pending("acquire"))
       /\ Cardinality(running) \in Nat /\ Cardinality(Pending("acquire")) \in Nat
       /\ users \in 0..capacity /\ capacity \in Nat
  BY Counts DEF SimInv, SelectHasChoice, TypeOK
<1>12. users' \in 0..capacity
  BY <1>1, <1>10, <1>11
<1>13. TypeOK'
  <2>1. running' \subseteq Jobs /\ end' \in [Jobs -> Nat \cup {-1}]
    BY <1>1, <1>2 DEF SimInv, TypeOK
  <2> QED
    BY <1>1, <1>7, <1>12, <2>1 DEF SimInv, TypeOK, CalendarOK, experiment
<1>14. Punctual'
  BY <1>2, <1>4, <1>5, <1>7, OnTime DEF Punctual
<1>15. SelectHasChoice'
  <2>1. users' = Cardinality(running') + Cardinality(Pending("acquire")')
    BY <1>1, <1>9, <1>10, <1>11
  <2> QED
    BY <1>1, <1>9, <1>11, <2>1 DEF SelectHasChoice
<1>16. SlotsAreOffered'
  <2>1. Cardinality(Pending("release")) \in Nat
    BY Counts
  <2> QED
    BY <1>1, <1>8, <1>9, <1>11, <2>1 DEF SimInv, SlotsAreOffered
<1>17. ArrivalInv'
  BY <1>1, <1>8, <1>9 DEF SimInv, ArrivalInv, Arrived
<1>18. PlaceInv'
  <2>1. \A k \in Jobs : start'[k] <= now'
    BY <1>1, <1>2, <1>7, OnTime
  <2>2. \A f \in Pending("finish")' : f.job \in running'
    BY <1>1, <1>2, <1>9 DEF SimInv, PlaceInv
  <2> QED
    BY <1>1, <1>9, <2>1, <2>2 DEF SimInv, PlaceInv
<1>19. ArrivalsAreSorted'
  BY <1>8 DEF SimInv, ArrivalsAreSorted
<1> QED
  BY <1>7, <1>13, <1>14, <1>15, <1>16, <1>17, <1>18, <1>19 DEF SimInv, CalendarOK

-----------------------------------------------------------------------------
(* The run *)

LEMMA InitSim == Init => SimInv
<1> SUFFICES ASSUME Init PROVE SimInv
  OBVIOUS
<1> DEFINE a == Event(arrival[1], 0, "arrive", 1)
<1>1. /\ arrival \in [Jobs -> Arrivals] /\ 1 \in Jobs /\ arrival[1] \in Nat
      /\ capacity \in Nat \ {0}
  <2>1. arrival \in [Jobs -> Arrivals] /\ capacity \in Capacities
    BY DEF Init
  <2>2. 1 \in Jobs
    BY SimulatorAssumption DEF Jobs
  <2> QED
    BY <2>1, <2>2, SimulatorAssumption
<1>2. /\ a \in Events /\ a.at = arrival[1] /\ a.eid = 0 /\ a.kind = "arrive" /\ a.job = 1
  <2>1. "arrive" \in Kinds /\ 0 \in Nat
    BY DEF Kinds
  <2> QED
    BY <1>1, <2>1, EventTyped
<1>3. calendar = {a}
  BY DEF Init
<1> HIDE DEF a
<1>4. TypeOK
  <2>1. /\ calendar \subseteq Events /\ \A e, f \in calendar : e.eid = f.eid => e = f
        /\ \A e \in calendar : e.at >= now /\ e.eid < eid
    BY <1>1, <1>2, <1>3 DEF Init
  <2>2. /\ queued \in Nat /\ users \in 0..capacity /\ now \in Nat /\ eid \in Nat
        /\ waiting \subseteq Jobs /\ running \subseteq Jobs
    BY <1>1 DEF Init
  <2>3. start \in [Jobs -> Nat \cup {-1}] /\ end \in [Jobs -> Nat \cup {-1}]
    BY DEF Init
  <2> QED
    BY <2>1, <2>2, <2>3 DEF Init, TypeOK
<1>5. IsFiniteSet(calendar)
  BY <1>3, FS_Singleton
<1>6. ArrivalsAreSorted
  BY DEF Init, ArrivalsAreSorted
<1>7. /\ Pending("request") = {} /\ Pending("acquire") = {} /\ Pending("release") = {}
      /\ Pending("finish") = {} /\ Pending("arrive") = {a}
  BY <1>2, <1>3 DEF Pending
<1>8. Punctual
  BY <1>2, <1>3 DEF Punctual
<1>9. SelectHasChoice /\ SlotsAreOffered
  BY <1>7, FS_EmptySet DEF Init, SelectHasChoice, SlotsAreOffered
<1>10. ArrivalInv
  <2>1. \A j \in Jobs : start[j] = -1 /\ j \notin waiting /\ ~(j < 1)
    BY DEF Init, Jobs
  <2>2. \A j \in Jobs : Arrived(j) <=> j < 1
    BY <2>1 DEF Arrived
  <2> QED
    BY <1>2, <1>7, <2>2 DEF ArrivalInv
<1>11. PlaceInv
  BY <1>7 DEF Init, PlaceInv
<1> QED
  BY <1>4, <1>5, <1>6, <1>8, <1>9, <1>10, <1>11 DEF SimInv

LEMMA StepSim ==
    ASSUME SimInv, [Next]_vars
    PROVE  SimInv'
<1>1. CASE Next
  <2>1. PICK e \in calendar : Arrive(e) \/ Request(e) \/ Acquire(e) \/ Finish(e) \/ Release(e)
    BY <1>1 DEF Next
  <2> QED
    BY <2>1, ArriveSim, RequestSim, AcquireSim, FinishSim, ReleaseSim
<1>2. CASE UNCHANGED vars
  <2>1. /\ UNCHANGED <<arrival, true, priority, capacity, policy, now, calendar, eid>>
        /\ UNCHANGED <<queued, users, waiting, running, start, end>>
    BY <1>2 DEF vars, experiment, resource
  <2>2. \A kind : Pending(kind)' = Pending(kind)
    BY <2>1 DEF Pending
  <2>3. TypeOK' /\ IsFiniteSet(calendar') /\ ArrivalsAreSorted'
    BY <2>1 DEF SimInv, TypeOK, ArrivalsAreSorted
  <2>4. Punctual' /\ SelectHasChoice' /\ SlotsAreOffered'
    BY <2>1, <2>2 DEF SimInv, Punctual, SelectHasChoice, SlotsAreOffered
  <2>5. ArrivalInv' /\ PlaceInv'
    BY <2>1, <2>2 DEF SimInv, ArrivalInv, PlaceInv, Arrived
  <2> QED
    BY <2>3, <2>4, <2>5 DEF SimInv
<1> QED
  BY <1>1, <1>2

LEMMA SimInvHolds == Spec => []SimInv
BY InitSim, StepSim, PTL DEF Spec

\* The policy is never asked to select from an empty list, and a slot is taken by a
\* job that runs or by a process that is about to select one (_worker_proc): for
\* traces of any length, any number of workers and every policy.
THEOREM SelectHasChoiceHolds == Spec => []SelectHasChoice
<1>1. SimInv => SelectHasChoice
  BY DEF SimInv
<1> QED
  BY <1>1, SimInvHolds, PTL

-----------------------------------------------------------------------------
(* Time and the policies *)

\* Whatever happens, time goes on to the first event and the trace stays.
LEMMA StepTakesFirst ==
    ASSUME SimInv, NEW e \in calendar,
           Arrive(e) \/ Request(e) \/ Acquire(e) \/ Finish(e) \/ Release(e)
    PROVE  /\ now' = e.at /\ e.at \in Nat /\ e.at >= now /\ UNCHANGED experiment
           /\ \A f \in calendar : e.at <= f.at
           /\ start' = start \/ Acquire(e)
<1>1. PICK kind, new : Process(e, kind, new) /\ (start' = start \/ Acquire(e))
  <2>1. CASE Arrive(e)
    BY <2>1 DEF Arrive
  <2>2. CASE Request(e) \/ Release(e)
    BY <2>2 DEF Request, Release, Trigger
  <2>3. CASE Acquire(e)
    BY <2>3 DEF Acquire
  <2>4. CASE Finish(e)
    BY <2>4 DEF Finish
  <2> QED
    BY <2>1, <2>2, <2>3, <2>4
<1>2. /\ now' = e.at /\ UNCHANGED experiment
      /\ \A f \in calendar \ {e} : Precedes(e, f)
  BY <1>1 DEF Process
<1>3. /\ now \in Nat /\ \A f \in calendar : f.at \in Nat /\ f.at >= now
  BY DEF SimInv, TypeOK, Events
<1> QED
  BY <1>1, <1>2, <1>3 DEF Precedes

WorkConserved == now' > now => waiting = {} \/ Cardinality(running) = capacity

LEMMA StepConserves ==
    ASSUME SimInv, Next
    PROVE  WorkConserved
<1>1. PICK e \in calendar : Arrive(e) \/ Request(e) \/ Acquire(e) \/ Finish(e) \/ Release(e)
  BY DEF Next
<1>2. now' = e.at /\ e.at \in Nat /\ now \in Nat /\ \A f \in calendar : e.at <= f.at
  BY <1>1, StepTakesFirst DEF SimInv, TypeOK
<1> SUFFICES ASSUME now' > now PROVE waiting = {} \/ Cardinality(running) = capacity
  BY DEF WorkConserved
<1>3. \A f \in calendar : f.kind \notin {"request", "acquire", "release"}
  BY <1>2 DEF SimInv, Punctual
<1>4. Pending("request") = {} /\ Pending("acquire") = {} /\ Pending("release") = {}
  BY <1>3 DEF Pending
<1>5. Cardinality(waiting) = queued /\ users = Cardinality(running)
  BY <1>4, FS_EmptySet, Counts DEF SimInv, SelectHasChoice
<1>6. CASE queued = 0
  BY <1>5, <1>6, FS_EmptySet, Counts
<1>7. CASE queued > 0
  <2>1. capacity - users <= 0 /\ users \in 0..capacity /\ capacity \in Nat
    BY <1>4, <1>7, FS_EmptySet, Counts DEF SimInv, SlotsAreOffered, TypeOK
  <2> QED
    BY <1>5, <2>1
<1> QED
  BY <1>6, <1>7, Counts

\* Time never passes while a job waits and a worker is free: the resource hands out
\* every slot that was released before the next event of a later time.
THEOREM WorkConservingHolds == Spec => WorkConserving
<1>1. SimInv /\ [Next]_vars => [WorkConserved]_vars
  BY StepConserves
<1>2. Spec => [][WorkConserved]_vars
  BY <1>1, SimInvHolds, PTL DEF Spec
<1>3. WorkConserving <=> [][WorkConserved]_vars
  BY DEF WorkConserving, WorkConserved
<1> QED
  BY <1>2, <1>3

\* Which job a policy prefers, by what the policy promises of it.
Prefers(i, j) ==
    /\ policy = "fcfs" => arrival[i] <= arrival[j]
    /\ policy = "priority_fcfs" => priority[i] >= priority[j]
    /\ policy = "sjf_oracle" => true[i] <= true[j]

LEMMA SelectPrefers ==
    ASSUME SimInv, NEW j \in Select, NEW k \in waiting \ {j}
    PROVE  Prefers(j, k)
<1>1. /\ j \in Jobs /\ k \in Jobs
      /\ arrival[j] \in Nat /\ arrival[k] \in Nat /\ true[j] \in Nat /\ true[k] \in Nat
      /\ priority[j] \in Nat /\ priority[k] \in Nat
  BY SelectWaits, SimulatorAssumption DEF SimInv, TypeOK
<1>2. ASSUME policy \in {"fcfs", "priority_fcfs", "sjf_oracle"}
      PROVE  Key(j)[1] < Key(k)[1] \/ Key(j)[1] = Key(k)[1]
  <2>1. Before(j, k)
    BY <1>2 DEF Select
  <2> QED
    BY <2>1 DEF Before
<1>3. ASSUME policy = "fcfs" PROVE arrival[j] <= arrival[k]
  BY <1>1, <1>2, <1>3 DEF Key
<1>4. ASSUME policy = "priority_fcfs" PROVE priority[j] >= priority[k]
  BY <1>1, <1>2, <1>4 DEF Key
<1>5. ASSUME policy = "sjf_oracle" PROVE true[j] <= true[k]
  BY <1>1, <1>2, <1>5 DEF Key
<1> QED
  BY <1>3, <1>4, <1>5 DEF Prefers

\* Whoever should have arrived before the next event has.
LEMMA EarlyHaveArrived ==
    ASSUME SimInv, NEW e \in calendar, e.at \in Nat, \A f \in calendar : e.at <= f.at,
           NEW k \in Jobs, arrival[k] < e.at
    PROVE  Arrived(k)
<1>1. CASE Pending("arrive") = {}
  BY <1>1 DEF SimInv, ArrivalInv
<1>2. CASE Pending("arrive") # {}
  <2>1. PICK f \in Pending("arrive") : TRUE
    BY <1>2
  <2>2. /\ f \in calendar /\ f.job \in Jobs /\ f.at = arrival[f.job]
        /\ Arrived(k) <=> k < f.job
    BY <2>1 DEF Pending, SimInv, ArrivalInv, TypeOK, Events
  <2>3. arrival[k] \in Nat /\ arrival[f.job] \in Nat
    BY <2>2, SimulatorAssumption DEF SimInv, TypeOK
  <2>4. arrival[k] < arrival[f.job]
    BY <2>2, <2>3
  <2>5. ~(f.job <= k)
    BY <2>2, <2>3, <2>4 DEF SimInv, ArrivalsAreSorted
  <2> QED
    BY <2>2, <2>5 DEF Jobs
<1> QED
  BY <1>1, <1>2

LEMMA StepKeepsPolicy ==
    ASSUME SimInv, PolicyIsKept, [Next]_vars
    PROVE  PolicyIsKept'
<1>1. CASE start' = start /\ UNCHANGED experiment
  BY <1>1 DEF PolicyIsKept, experiment
<1>2. ASSUME NEW e \in calendar, Acquire(e) PROVE PolicyIsKept'
  <2>1. /\ now' = e.at /\ e.at \in Nat /\ e.at >= now /\ \A f \in calendar : e.at <= f.at
        /\ UNCHANGED <<arrival, true, priority, policy>>
    BY <1>2, StepTakesFirst DEF experiment
  <2>2. PICK j \in Select : start' = [start EXCEPT ![j] = e.at]
    BY <1>2 DEF Acquire
  <2>3. /\ j \in waiting /\ j \in Jobs /\ start[j] < 0
        /\ start \in [Jobs -> Nat \cup {-1}]
    BY <2>2, SelectWaits DEF SimInv, TypeOK, PlaceInv
  <2>4. start'[j] = e.at /\ \A k \in Jobs \ {j} : start'[k] = start[k]
    BY <2>2, <2>3
  <2>5. ASSUME NEW i \in Jobs, NEW k \in Jobs,
               start'[i] >= 0, arrival[k] < start'[i], start'[k] < 0 \/ start'[k] > start'[i]
        PROVE  Prefers(i, k)
    <3>1. CASE i # j
      <4>1. start[i] >= 0 /\ arrival[k] < start[i] /\ (start[k] < 0 \/ start[k] > start[i])
        BY <2>3, <2>4, <2>5, <3>1
      <4> QED
        BY <4>1 DEF PolicyIsKept, Prefers
    <3>2. CASE i = j
      <4>1. k # j
        BY <2>1, <2>4, <2>5, <3>2
      <4>2. start'[k] = start[k] /\ start[k] \in Int /\ start[k] <= e.at
        BY <2>1, <2>3, <2>4, <4>1, OnTime
      <4>3. start[k] < 0
        BY <2>1, <2>4, <2>5, <3>2, <4>2
      <4>4. arrival[k] < e.at
        BY <2>4, <2>5, <3>2
      <4>5. k \in waiting
        <5>1. Arrived(k)
          BY <2>1, <4>4, EarlyHaveArrived
        <5> QED
          BY <4>2, <4>3, <5>1 DEF Arrived
      <4> QED
        BY <2>2, <3>2, <4>1, <4>5, SelectPrefers
    <3> QED
      BY <3>1, <3>2
  <2> QED
    BY <2>1, <2>5 DEF PolicyIsKept, Prefers
<1>3. CASE Next
  <2>1. PICK e \in calendar : Arrive(e) \/ Request(e) \/ Acquire(e) \/ Finish(e) \/ Release(e)
    BY <1>3 DEF Next
  <2> QED
    BY <1>1, <1>2, <2>1, StepTakesFirst
<1>4. CASE UNCHANGED vars
  BY <1>1, <1>4 DEF vars
<1> QED
  BY <1>3, <1>4

\* Of two jobs that were there when one of them was started, the policy did not
\* prefer the other: by arrival, by priority, or by the true duration.
THEOREM PolicyIsKeptHolds == Spec => []PolicyIsKept
<1>1. Init => PolicyIsKept
  BY DEF Init, PolicyIsKept
<1>2. PolicyIsKept /\ SimInv /\ [Next]_vars => PolicyIsKept'
  BY StepKeepsPolicy
<1> QED
  BY <1>1, <1>2, SimInvHolds, PTL DEF Spec

-----------------------------------------------------------------------------
(* Sums.  Induction is over the set of the numbers that have a property. *)

\* Numbers have a least one among them.
LEMMA LeastNatural ==
    ASSUME NEW T \in SUBSET Nat, T # {}
    PROVE  \E x \in T : \A y \in T : x <= y
<1> DEFINE R == OpToRel(<, Nat)
<1>1. IsWellFoundedOn(R, Nat)
  BY NatLessThanWellFounded
<1>2. \A x, y \in Nat : x < y => <<x, y>> \in R
  BY DEF OpToRel
<1> HIDE DEF R
<1>3. PICK x \in T : \A y \in T : ~ (<<y, x>> \in R)
  BY <1>1, WFMin, Zenon
<1>4. \A y \in T : ~(y < x)
  BY <1>2, <1>3
<1> QED
  BY <1>4

\* Induction over the numbers that have a property, as a set of numbers.
LEMMA Induction ==
    ASSUME NEW S, 0 \in S, \A n \in Nat : n \in S => n + 1 \in S
    PROVE  Nat \subseteq S
<1> SUFFICES ASSUME Nat \ S # {} PROVE FALSE
  OBVIOUS
<1>1. PICK x \in Nat \ S : \A y \in Nat \ S : x <= y
  BY LeastNatural
<1>2. x - 1 \in Nat /\ x - 1 < x /\ (x - 1) + 1 = x
  BY <1>1
<1>3. x - 1 \in S
  BY <1>1, <1>2
<1> QED
  BY <1>1, <1>2, <1>3

\* e starts with c and its k-th value is what f[k] makes of the one before.
Unfolds(e, c, f, m) == e[0] = c /\ \A k \in 1..m : e[k] = f[k][e[k - 1]]

\* A function may be defined by its first value and each next one.
LEMMA Recursion ==
    ASSUME NEW n \in Nat, NEW c \in Int, NEW f \in [1..n -> [Int -> Int]]
    PROVE  \E e \in [0..n -> Int] : Unfolds(e, c, f, n)
<1> DEFINE Built(m) == \E e \in [0..m -> Int] : Unfolds(e, c, f, m)
           S == {m \in Nat : m <= n => Built(m)}
<1>1. Built(0)
  <2> DEFINE e == [k \in 0..0 |-> c]
  <2>1. e \in [0..0 -> Int] /\ e[0] = c /\ 1..0 = {}
    OBVIOUS
  <2> HIDE DEF e
  <2>2. Unfolds(e, c, f, 0)
    BY <2>1 DEF Unfolds
  <2> QED
    BY <2>1, <2>2
<1>2. ASSUME NEW m \in Nat, m + 1 <= n, Built(m) PROVE Built(m + 1)
  <2>1. PICK e \in [0..m -> Int] : Unfolds(e, c, f, m)
    BY <1>2
  <2> DEFINE g == [k \in 0..(m + 1) |-> IF k = m + 1 THEN f[m + 1][e[m]] ELSE e[k]]
  <2>2. m + 1 \in 1..n /\ e[m] \in Int
    BY <1>2, <2>1
  <2>3. f[m + 1] \in [Int -> Int]
    BY <2>2
  <2>4. f[m + 1][e[m]] \in Int
    BY <2>2, <2>3
  <2>5. g \in [0..(m + 1) -> Int]
    BY <2>1, <2>4
  <2>6. g[m + 1] = f[m + 1][e[m]] /\ \A k \in 0..m : g[k] = e[k]
    OBVIOUS
  <2> HIDE DEF g
  <2>7. g[0] = c
    <3>1. 0 \in 0..m /\ e[0] = c
      BY <2>1 DEF Unfolds
    <3> QED
      BY <2>6, <3>1
  <2>8. ASSUME NEW k \in 1..(m + 1) PROVE g[k] = f[k][g[k - 1]]
    <3>1. CASE k = m + 1
      <4>1. k - 1 = m /\ m \in 0..m
        BY <3>1
      <4> QED
        BY <2>6, <3>1, <4>1
    <3>2. CASE k # m + 1
      <4>1. k \in 1..m /\ k \in 0..m /\ k - 1 \in 0..m
        BY <3>2
      <4> QED
        BY <2>1, <2>6, <4>1 DEF Unfolds
    <3> QED
      BY <3>1, <3>2
  <2>9. Unfolds(g, c, f, m + 1)
    BY <2>7, <2>8 DEF Unfolds
  <2> QED
    BY <2>5, <2>9
<1> HIDE DEF Built
<1>3. 0 \in S /\ \A m \in Nat : m \in S => m + 1 \in S
  BY <1>1, <1>2
<1> HIDE DEF S
<1>4. n \in S
  BY <1>3, Induction
<1>5. Built(n)
  BY <1>4 DEF S
<1> QED
  BY <1>5 DEF Built

\* A function over the first n numbers is a sequence.
LEMMA Indexed ==
    ASSUME NEW n \in Nat, NEW s \in [1..n -> Int]
    PROVE  s \in Seq(Int) /\ Len(s) = n /\ DOMAIN s = 1..n
OBVIOUS

\* The sums of the first values exist and are what their name says.
LEMMA SumsAre ==
    ASSUME NEW n \in Nat, NEW s \in [1..n -> Int]
    PROVE  /\ Sums(s) \in [0..n -> Int] /\ Sums(s)[0] = 0
           /\ \A k \in 1..n : Sums(s)[k] = Sums(s)[k - 1] + s[k]
           /\ Sum(s) = Sums(s)[n] /\ Sum(s) \in Int
<1> DEFINE f == [k \in 1..n |-> [v \in Int |-> v + s[k]]]
<1>1. f \in [1..n -> [Int -> Int]]
  OBVIOUS
<1>2. PICK e \in [0..n -> Int] : Unfolds(e, 0, f, n)
  <2> HIDE DEF f
  <2>1. 0 \in Int
    OBVIOUS
  <2> QED
    BY <1>1, <2>1, Recursion
<1>3. \A k \in 1..n : e[k - 1] \in Int /\ e[k] = e[k - 1] + s[k]
  <2>1. \A k \in 1..n : e[k] = f[k][e[k - 1]]
    BY <1>2 DEF Unfolds
  <2>2. \A k \in 1..n : k - 1 \in 0..n
    OBVIOUS
  <2>3. \A k \in 1..n : e[k - 1] \in Int
    BY <1>2, <2>2
  <2> QED
    BY <2>1, <2>3
<1>4. e = [k \in 0..n |-> IF k = 0 THEN 0 ELSE e[k - 1] + s[k]]
  <2>1. e[0] = 0
    BY <1>2 DEF Unfolds
  <2>2. e = [k \in 0..n |-> e[k]]
    BY <1>2
  <2>3. \A k \in 0..n : e[k] = IF k = 0 THEN 0 ELSE e[k - 1] + s[k]
    BY <1>3, <2>1
  <2> QED
    BY <2>2, <2>3
<1>5. Len(s) = n
  BY Indexed
<1> DEFINE Is(g) == g = [k \in 0..n |-> IF k = 0 THEN 0 ELSE g[k - 1] + s[k]]
<1>6. Sums(s) = CHOOSE g : Is(g)
  BY <1>5 DEF Sums
<1>7. Is(e)
  BY <1>4
<1> HIDE DEF Is
<1>8. Is(Sums(s))
  BY <1>6, <1>7
<1> DEFINE t == Sums(s)
<1>9. t = [k \in 0..n |-> IF k = 0 THEN 0 ELSE t[k - 1] + s[k]]
  BY <1>8 DEF Is
<1> HIDE DEF t
<1>10. t[0] = 0 /\ \A k \in 1..n : t[k] = t[k - 1] + s[k]
  BY <1>9
<1> DEFINE S == {m \in Nat : m <= n => t[m] \in Int}
<1>11. 0 \in S /\ \A m \in Nat : m \in S => m + 1 \in S
  <2>1. ASSUME NEW m \in Nat, m \in S, m + 1 <= n PROVE t[m + 1] \in Int
    <3>1. m + 1 \in 1..n /\ (m + 1) - 1 = m /\ t[m] \in Int /\ s[m + 1] \in Int
      BY <2>1
    <3> QED
      BY <1>10, <3>1
  <2> QED
    BY <1>10, <2>1
<1> HIDE DEF S
<1>12. \A m \in 0..n : t[m] \in Int
  <2>1. Nat \subseteq S
    BY <1>11, Induction
  <2> QED
    BY <2>1 DEF S
<1>13. t \in [0..n -> Int]
  BY <1>9, <1>12
<1> QED
  BY <1>5, <1>10, <1>13 DEF t, Sum

\* The same for the next of two places.
LEMMA SumSteps ==
    ASSUME NEW n \in Nat, NEW s \in [1..n -> Int], NEW m \in Nat, m + 1 <= n
    PROVE  /\ m + 1 \in 1..n /\ s[m + 1] \in Int
           /\ Sums(s)[m] \in Int /\ Sums(s)[m + 1] = Sums(s)[m] + s[m + 1]
<1>1. m + 1 \in 1..n /\ (m + 1) - 1 = m /\ m \in 0..n
  OBVIOUS
<1>2. /\ Sums(s) \in [0..n -> Int]
      /\ \A k \in 1..n : Sums(s)[k] = Sums(s)[k - 1] + s[k]
  BY SumsAre
<1>3. Sums(s)[m + 1] = Sums(s)[(m + 1) - 1] + s[m + 1]
  BY <1>1, <1>2
<1> QED
  BY <1>1, <1>2, <1>3

\* Sums are linear, grow with their values, and count what is one.
LEMMA SumPlus ==
    ASSUME NEW n \in Nat, NEW f \in [1..n -> Int], NEW g \in [1..n -> Int], NEW h \in [1..n -> Int],
           \A k \in 1..n : h[k] = f[k] + g[k]
    PROVE  Sum(h) = Sum(f) + Sum(g)
<1> DEFINE S == {m \in Nat : m <= n => Sums(h)[m] = Sums(f)[m] + Sums(g)[m]}
<1>1. 0 \in S
  <2>1. Sums(h)[0] = 0 /\ Sums(f)[0] = 0 /\ Sums(g)[0] = 0
    BY SumsAre
  <2> QED
    BY <2>1
<1>2. ASSUME NEW m \in Nat, m \in S PROVE m + 1 \in S
  <2> SUFFICES ASSUME m + 1 <= n PROVE Sums(h)[m + 1] = Sums(f)[m + 1] + Sums(g)[m + 1]
    OBVIOUS
  <2>1. Sums(h)[m] = Sums(f)[m] + Sums(g)[m]
    BY <1>2
  <2>2. /\ m + 1 \in 1..n
        /\ f[m + 1] \in Int /\ Sums(f)[m] \in Int /\ Sums(f)[m + 1] = Sums(f)[m] + f[m + 1]
        /\ g[m + 1] \in Int /\ Sums(g)[m] \in Int /\ Sums(g)[m + 1] = Sums(g)[m] + g[m + 1]
        /\ Sums(h)[m + 1] = Sums(h)[m] + h[m + 1]
    BY SumSteps
  <2>3. h[m + 1] = f[m + 1] + g[m + 1]
    BY <2>2
  <2> HIDE DEF S
  <2> QED
    BY <2>1, <2>2, <2>3
<1> HIDE DEF S
<1>3. n \in S
  BY <1>1, <1>2, Induction
<1>4. Sum(h) = Sums(h)[n] /\ Sum(f) = Sums(f)[n] /\ Sum(g) = Sums(g)[n]
  BY SumsAre
<1> QED
  BY <1>3, <1>4 DEF S

LEMMA SumTimes ==
    ASSUME NEW n \in Nat, NEW f \in [1..n -> Int], NEW h \in [1..n -> Int], NEW a \in Int,
           \A k \in 1..n : h[k] = a * f[k]
    PROVE  Sum(h) = a * Sum(f)
<1> DEFINE S == {m \in Nat : m <= n => Sums(h)[m] = a * Sums(f)[m]}
<1>1. 0 \in S
  <2>1. Sums(h)[0] = 0 /\ Sums(f)[0] = 0 /\ a * 0 = 0
    BY SumsAre
  <2> QED
    BY <2>1
<1>2. ASSUME NEW m \in Nat, m \in S PROVE m + 1 \in S
  <2> SUFFICES ASSUME m + 1 <= n PROVE Sums(h)[m + 1] = a * Sums(f)[m + 1]
    OBVIOUS
  <2> DEFINE p == Sums(f)[m]
             x == f[m + 1]
  <2>1. Sums(h)[m] = a * p
    BY <1>2
  <2>2. /\ m + 1 \in 1..n /\ p \in Int /\ x \in Int /\ Sums(f)[m + 1] = p + x
        /\ Sums(h)[m + 1] = Sums(h)[m] + h[m + 1]
    BY SumSteps
  <2>3. h[m + 1] = a * x
    BY <2>2
  <2> HIDE DEF S, p, x
  <2>4. a * p + a * x = a * (p + x)
    BY <2>2
  <2> QED
    BY <2>1, <2>2, <2>3, <2>4
<1> HIDE DEF S
<1>3. n \in S
  BY <1>1, <1>2, Induction
<1>4. Sum(h) = Sums(h)[n] /\ Sum(f) = Sums(f)[n]
  BY SumsAre
<1> QED
  BY <1>3, <1>4 DEF S

LEMMA SumConstant ==
    ASSUME NEW n \in Nat, NEW h \in [1..n -> Int], NEW c \in Int, \A k \in 1..n : h[k] = c
    PROVE  Sum(h) = c * n
<1> DEFINE S == {m \in Nat : m <= n => Sums(h)[m] = c * m}
<1>1. 0 \in S
  <2>1. Sums(h)[0] = 0 /\ c * 0 = 0
    BY SumsAre
  <2> QED
    BY <2>1
<1>2. ASSUME NEW m \in Nat, m \in S PROVE m + 1 \in S
  <2> SUFFICES ASSUME m + 1 <= n PROVE Sums(h)[m + 1] = c * (m + 1)
    OBVIOUS
  <2>1. Sums(h)[m] = c * m
    BY <1>2
  <2>2. m + 1 \in 1..n /\ Sums(h)[m + 1] = Sums(h)[m] + h[m + 1]
    BY SumSteps
  <2>3. c * m + c = c * (m + 1)
    OBVIOUS
  <2> HIDE DEF S
  <2> QED
    BY <2>1, <2>2, <2>3
<1> HIDE DEF S
<1>3. n \in S
  BY <1>1, <1>2, Induction
<1> QED
  BY <1>3, SumsAre DEF S

LEMMA SumMonotone ==
    ASSUME NEW n \in Nat, NEW f \in [1..n -> Int], NEW g \in [1..n -> Int],
           \A k \in 1..n : f[k] <= g[k]
    PROVE  Sum(f) <= Sum(g)
<1> DEFINE S == {m \in Nat : m <= n => Sums(f)[m] <= Sums(g)[m]}
<1>1. 0 \in S
  <2>1. Sums(f)[0] = 0 /\ Sums(g)[0] = 0
    BY SumsAre
  <2> QED
    BY <2>1
<1>2. ASSUME NEW m \in Nat, m \in S PROVE m + 1 \in S
  <2> SUFFICES ASSUME m + 1 <= n PROVE Sums(f)[m + 1] <= Sums(g)[m + 1]
    OBVIOUS
  <2>1. Sums(f)[m] <= Sums(g)[m]
    BY <1>2
  <2>2. /\ m + 1 \in 1..n
        /\ f[m + 1] \in Int /\ Sums(f)[m] \in Int /\ Sums(f)[m + 1] = Sums(f)[m] + f[m + 1]
        /\ g[m + 1] \in Int /\ Sums(g)[m] \in Int /\ Sums(g)[m + 1] = Sums(g)[m] + g[m + 1]
    BY SumSteps
  <2>3. f[m + 1] <= g[m + 1]
    BY <2>2
  <2> HIDE DEF S
  <2> QED
    BY <2>1, <2>2, <2>3
<1> HIDE DEF S
<1>3. n \in S
  BY <1>1, <1>2, Induction
<1>4. Sum(f) = Sums(f)[n] /\ Sum(g) = Sums(g)[n]
  BY SumsAre
<1> QED
  BY <1>3, <1>4 DEF S

\* The sum of d over the members of T, places up to n.
Over(n, T, d) == Sum([k \in 1..n |-> IF k \in T THEN d[k] ELSE 0])

One(n) == [k \in 1..n |-> 1]

\* It is a number.
LEMMA OverIs ==
    ASSUME NEW n \in Nat, NEW T, NEW d \in [1..n -> Int]
    PROVE  /\ [k \in 1..n |-> IF k \in T THEN d[k] ELSE 0] \in [1..n -> Int]
           /\ Over(n, T, d) \in Int
<1>1. [k \in 1..n |-> IF k \in T THEN d[k] ELSE 0] \in [1..n -> Int]
  OBVIOUS
<1> QED
  BY <1>1, SumsAre DEF Over

\* How many members T has.
LEMMA OverCounts ==
    ASSUME NEW n \in Nat, NEW T \in SUBSET (1..n)
    PROVE  IsFiniteSet(T) /\ Over(n, T, One(n)) = Cardinality(T)
<1> DEFINE s == [k \in 1..n |-> IF k \in T THEN One(n)[k] ELSE 0]
           Below(m) == T \cap 1..m
           S == {m \in Nat : m <= n => Sums(s)[m] = Cardinality(Below(m))}
<1>1. s \in [1..n -> Int] /\ \A k \in 1..n : s[k] = IF k \in T THEN 1 ELSE 0
  BY DEF One
<1>2. IsFiniteSet(1..n)
  BY FS_Interval
<1>3. IsFiniteSet(T) /\ \A m : IsFiniteSet(Below(m))
  BY <1>2, FS_Subset
<1> HIDE DEF s
<1>4. 0 \in S
  <2>1. Below(0) = {}
    OBVIOUS
  <2> QED
    BY <1>1, <2>1, SumsAre, FS_EmptySet
<1>5. ASSUME NEW m \in Nat, m \in S PROVE m + 1 \in S
  <2> SUFFICES ASSUME m + 1 <= n PROVE Sums(s)[m + 1] = Cardinality(Below(m + 1))
    OBVIOUS
  <2>1. Sums(s)[m] = Cardinality(Below(m))
    BY <1>5
  <2>2. /\ m + 1 \in 1..n /\ Sums(s)[m] \in Int /\ Sums(s)[m + 1] = Sums(s)[m] + s[m + 1]
    BY <1>1, SumSteps
  <2>3. CASE m + 1 \in T
    <3>1. Below(m + 1) = Below(m) \cup {m + 1} /\ m + 1 \notin Below(m)
      BY <2>3
    <3>2. Cardinality(Below(m + 1)) = Cardinality(Below(m)) + 1
      BY <1>3, <3>1, FS_AddElement
    <3> QED
      BY <1>1, <2>1, <2>2, <2>3, <3>2
  <2>4. CASE m + 1 \notin T
    <3>1. Below(m + 1) = Below(m)
      BY <2>4
    <3>2. s[m + 1] = 0
      BY <1>1, <2>2, <2>4
    <3>3. Sums(s)[m + 1] = Sums(s)[m]
      BY <2>2, <3>2
    <3> QED
      BY <2>1, <3>1, <3>3
  <2> QED
    BY <2>3, <2>4
<1> HIDE DEF S
<1>6. n \in S
  BY <1>4, <1>5, Induction
<1>7. Below(n) = T
  OBVIOUS
<1>8. Sums(s)[n] = Cardinality(T)
  BY <1>6, <1>7 DEF S
<1> QED
  BY <1>1, <1>3, <1>8, SumsAre DEF s, Over

\* The sum over no members, over one, and over two sets that share none.
LEMMA OverNone ==
    ASSUME NEW n \in Nat, NEW d \in [1..n -> Int]
    PROVE  Over(n, {}, d) = 0
<1> DEFINE s == [k \in 1..n |-> IF k \in {} THEN d[k] ELSE 0]
<1>1. s \in [1..n -> Int] /\ \A k \in 1..n : s[k] = 0
  OBVIOUS
<1>2. Over(n, {}, d) = Sum(s)
  BY Zenon DEF Over
<1> HIDE DEF s
<1>3. \A k \in 1..n : s[k] = s[k] + s[k]
  BY <1>1
<1>4. Sum(s) \in Int
  BY <1>1, SumsAre
<1>5. Sum(s) = Sum(s) + Sum(s)
  BY <1>1, <1>3, SumPlus
<1> QED
  BY <1>2, <1>4, <1>5

LEMMA OverOne ==
    ASSUME NEW n \in Nat, NEW d \in [1..n -> Int], NEW x \in 1..n
    PROVE  Over(n, {x}, d) = d[x]
<1> DEFINE s == [k \in 1..n |-> IF k \in {x} THEN d[k] ELSE 0]
           S == {m \in Nat : m <= n => Sums(s)[m] = IF x <= m THEN d[x] ELSE 0}
<1>1. s \in [1..n -> Int] /\ \A k \in 1..n : s[k] = IF k = x THEN d[k] ELSE 0
  OBVIOUS
<1>2. Over(n, {x}, d) = Sum(s)
  BY Zenon DEF Over
<1> HIDE DEF s
<1>3. 0 \in S
  BY <1>1, SumsAre
<1>4. ASSUME NEW m \in Nat, m \in S PROVE m + 1 \in S
  <2> SUFFICES ASSUME m + 1 <= n PROVE Sums(s)[m + 1] = IF x <= m + 1 THEN d[x] ELSE 0
    OBVIOUS
  <2>1. Sums(s)[m] = IF x <= m THEN d[x] ELSE 0
    BY <1>4
  <2>2. /\ m + 1 \in 1..n /\ Sums(s)[m] \in Int /\ Sums(s)[m + 1] = Sums(s)[m] + s[m + 1]
    BY <1>1, SumSteps
  <2>3. s[m + 1] = IF m + 1 = x THEN d[m + 1] ELSE 0
    BY <1>1, <2>2
  <2>4. d[x] \in Int
    OBVIOUS
  <2> HIDE DEF S
  <2> QED
    BY <2>1, <2>2, <2>3, <2>4
<1> HIDE DEF S
<1>5. n \in S
  BY <1>3, <1>4, Induction
<1>6. Sums(s)[n] = d[x]
  BY <1>5 DEF S
<1> QED
  BY <1>1, <1>2, <1>6, SumsAre

LEMMA OverUnion ==
    ASSUME NEW n \in Nat, NEW d \in [1..n -> Int], NEW S, NEW T, S \cap T = {}
    PROVE  Over(n, S \cup T, d) = Over(n, S, d) + Over(n, T, d)
<1> DEFINE f == [k \in 1..n |-> IF k \in S THEN d[k] ELSE 0]
           g == [k \in 1..n |-> IF k \in T THEN d[k] ELSE 0]
           h == [k \in 1..n |-> IF k \in S \cup T THEN d[k] ELSE 0]
<1>1. f \in [1..n -> Int] /\ g \in [1..n -> Int] /\ h \in [1..n -> Int]
  OBVIOUS
<1>2. \A k \in 1..n : h[k] = f[k] + g[k]
  OBVIOUS
<1>3. Over(n, S \cup T, d) = Sum(h) /\ Over(n, S, d) = Sum(f) /\ Over(n, T, d) = Sum(g)
  BY Zenon DEF Over
<1> HIDE DEF f, g, h
<1>4. Sum(h) = Sum(f) + Sum(g)
  <2> HIDE DEF Sum, Over
  <2>1. \A a, b, c \in [1..n -> Int] : (\A k \in 1..n : c[k] = a[k] + b[k]) => Sum(c) = Sum(a) + Sum(b)
    BY SumPlus
  <2> QED
    BY <1>1, <1>2, <2>1
<1> QED
  BY <1>3, <1>4, Zenon

\* One member more, and all of them.
LEMMA OverAdd ==
    ASSUME NEW n \in Nat, NEW d \in [1..n -> Int], NEW T, NEW x \in 1..n, x \notin T
    PROVE  Over(n, T \cup {x}, d) = Over(n, T, d) + d[x]
<1>1. T \cap {x} = {}
  OBVIOUS
<1>2. Over(n, T \cup {x}, d) = Over(n, T, d) + Over(n, {x}, d)
  BY <1>1, OverUnion
<1>3. Over(n, {x}, d) = d[x]
  BY OverOne
<1> QED
  BY <1>2, <1>3, Zenon

LEMMA OverAll ==
    ASSUME NEW n \in Nat, NEW d \in [1..n -> Int]
    PROVE  Over(n, 1..n, d) = Sum(d)
<1>1. [k \in 1..n |-> IF k \in 1..n THEN d[k] ELSE 0] = d
  OBVIOUS
<1> QED
  BY <1>1 DEF Over

\* Of values that are never negative fewer members have the smaller sum.
LEMMA OverGrows ==
    ASSUME NEW n \in Nat, NEW d \in [1..n -> Int], NEW S, NEW T,
           S \subseteq T, \A k \in 1..n : d[k] >= 0
    PROVE  Over(n, S, d) <= Over(n, T, d)
<1> DEFINE f == [k \in 1..n |-> IF k \in S THEN d[k] ELSE 0]
           g == [k \in 1..n |-> IF k \in T THEN d[k] ELSE 0]
<1>1. f \in [1..n -> Int] /\ g \in [1..n -> Int]
  OBVIOUS
<1>2. \A k \in 1..n : f[k] <= g[k]
  OBVIOUS
<1>3. Over(n, S, d) = Sum(f) /\ Over(n, T, d) = Sum(g)
  BY Zenon DEF Over
<1> HIDE DEF f, g
<1> QED
  BY <1>1, <1>2, <1>3, SumMonotone

\* With every value c less the sum is less by c times the members.
LEMMA OverShift ==
    ASSUME NEW n \in Nat, NEW d \in [1..n -> Int], NEW e \in [1..n -> Int], NEW c \in Int,
           NEW T \in SUBSET (1..n), \A k \in 1..n : e[k] = d[k] - c
    PROVE  Over(n, T, d) = Over(n, T, e) + c * Cardinality(T)
<1> DEFINE f == [k \in 1..n |-> IF k \in T THEN e[k] ELSE 0]
           u == [k \in 1..n |-> IF k \in T THEN One(n)[k] ELSE 0]
           g == [k \in 1..n |-> IF k \in T THEN c ELSE 0]
           h == [k \in 1..n |-> IF k \in T THEN d[k] ELSE 0]
<1>1. /\ f \in [1..n -> Int] /\ g \in [1..n -> Int] /\ h \in [1..n -> Int]
      /\ \A k \in 1..n : u[k] = IF k \in T THEN 1 ELSE 0
      /\ u \in [1..n -> Int]
  BY DEF One
<1>2. \A k \in 1..n : h[k] = f[k] + g[k]
  OBVIOUS
<1>3. \A k \in 1..n : g[k] = c * u[k]
  <2>1. \A k \in 1..n : c * u[k] = IF k \in T THEN c ELSE 0
    BY <1>1
  <2> QED
    BY <2>1
<1>4. Over(n, T, d) = Sum(h) /\ Over(n, T, e) = Sum(f) /\ Sum(u) = Over(n, T, One(n))
  BY Zenon DEF Over
<1> HIDE DEF f, g, h, u
<1>5. Sum(h) = Sum(f) + Sum(g)
  <2>1. \A a, b, t \in [1..n -> Int] : (\A k \in 1..n : t[k] = a[k] + b[k]) => Sum(t) = Sum(a) + Sum(b)
    BY SumPlus
  <2> QED
    BY <1>1, <1>2, <2>1
<1>6. Sum(g) = c * Sum(u)
  BY <1>1, <1>3, SumTimes
<1>7. Sum(u) = Cardinality(T)
  BY <1>4, OverCounts
<1> QED
  BY <1>4, <1>5, <1>6, <1>7

\* As many members, each that is not shared no greater than any of the other's.
LEMMA Exchange ==
    ASSUME NEW n \in Nat, NEW d \in [1..n -> Nat],
           NEW S \in SUBSET (1..n), NEW T \in SUBSET (1..n), Cardinality(S) = Cardinality(T),
           \A y \in S \ T : \A u \in T \ S : d[y] <= d[u]
    PROVE  Over(n, S, d) <= Over(n, T, d)
<1>1. IsFiniteSet(S) /\ IsFiniteSet(T)
  BY OverCounts
<1>2. CASE T \subseteq S
  <2>1. S = T
    BY <1>1, <1>2, FS_Subset
  <2>2. d \in [1..n -> Int]
    OBVIOUS
  <2>3. Over(n, S, d) \in Int
    BY <2>2, OverIs
  <2> QED
    BY <2>1, <2>3
<1>3. CASE ~(T \subseteq S)
  <2> DEFINE V == {d[u] : u \in T \ S}
  <2>1. V \in SUBSET Nat /\ V # {}
    BY <1>3
  <2>2. PICK c \in V : \A v \in V : c <= v
    <3> HIDE DEF V
    <3> QED
      BY <2>1, LeastNatural
  <2>3. c \in Int /\ (\A u \in T \ S : c <= d[u]) /\ (\A y \in S \ T : d[y] <= c)
    BY <2>1, <2>2
  <2> HIDE DEF V
  <2> DEFINE e == [k \in 1..n |-> d[k] - c]
             f == [k \in 1..n |-> IF k \in S THEN e[k] ELSE 0]
             g == [k \in 1..n |-> IF k \in T THEN e[k] ELSE 0]
  <2>4. d \in [1..n -> Int] /\ e \in [1..n -> Int] /\ \A k \in 1..n : e[k] = d[k] - c
    BY <2>3
  <2>5. f \in [1..n -> Int] /\ g \in [1..n -> Int]
    BY <2>4
  <2>6. \A k \in 1..n : f[k] <= g[k]
    <3> HIDE DEF e
    <3> SUFFICES ASSUME NEW k \in 1..n PROVE f[k] <= g[k]
      OBVIOUS
    <3>1. e[k] \in Int /\ d[k] \in Int /\ e[k] = d[k] - c
      BY <2>4
    <3>2. CASE k \in S /\ k \in T
      BY <3>1, <3>2
    <3>3. CASE k \in S /\ k \notin T
      <4>1. f[k] = e[k] /\ g[k] = 0 /\ d[k] <= c
        BY <2>3, <3>3
      <4> QED
        BY <2>3, <3>1, <4>1
    <3>4. CASE k \notin S /\ k \in T
      <4>1. f[k] = 0 /\ g[k] = e[k] /\ c <= d[k]
        BY <2>3, <3>4
      <4> QED
        BY <2>3, <3>1, <4>1
    <3>5. CASE k \notin S /\ k \notin T
      BY <3>5
    <3> QED
      BY <3>2, <3>3, <3>4, <3>5
  <2>7. Over(n, S, e) = Sum(f) /\ Over(n, T, e) = Sum(g)
    BY Zenon DEF Over
  <2> HIDE DEF e, f, g
  <2>8. Over(n, S, e) <= Over(n, T, e)
    BY <2>5, <2>6, <2>7, SumMonotone
  <2>9. Over(n, S, d) = Over(n, S, e) + c * Cardinality(S)
    BY <2>3, <2>4, OverShift
  <2>10. Over(n, T, d) = Over(n, T, e) + c * Cardinality(T)
    BY <2>3, <2>4, OverShift
  <2>11. c * Cardinality(S) = c * Cardinality(T) /\ c * Cardinality(T) \in Int
    BY <1>1, <2>3, FS_CardinalityType
  <2>12. Over(n, S, e) \in Int /\ Over(n, T, e) \in Int
    BY <2>4, OverIs
  <2> HIDE DEF Over
  <2> QED
    BY <2>8, <2>9, <2>10, <2>11, <2>12
<1> QED
  BY <1>2, <1>3

-----------------------------------------------------------------------------
(* The summary of completion times *)

\* The places of the values from the smallest to the i-th.
Upto(n, s, i) == {j \in 1..n : s[j] < s[i] \/ (s[j] = s[i] /\ j <= i)}

LEMMA RankIs ==
    ASSUME NEW n \in Nat, NEW s \in [1..n -> Nat], NEW i \in 1..n
    PROVE  /\ Rank(s, i) = Cardinality(Upto(n, s, i))
           /\ IsFiniteSet(Upto(n, s, i)) /\ Rank(s, i) \in 1..n
<1>1. DOMAIN s = 1..n
  OBVIOUS
<1>2. Rank(s, i) = Cardinality(Upto(n, s, i))
  BY <1>1 DEF Rank, Upto
<1>3. IsFiniteSet(1..n) /\ Cardinality(1..n) = n
  <2>1. n >= 1
    OBVIOUS
  <2> QED
    BY <2>1, FS_Interval
<1>4. Upto(n, s, i) \in SUBSET (1..n) /\ i \in Upto(n, s, i)
  BY DEF Upto
<1>5. /\ IsFiniteSet(Upto(n, s, i))
      /\ Cardinality(Upto(n, s, i)) <= n
      /\ Cardinality(Upto(n, s, i)) \in Nat
  <2>1. IsFiniteSet(Upto(n, s, i)) /\ Cardinality(Upto(n, s, i)) <= n
    BY <1>3, <1>4, FS_Subset
  <2> QED
    BY <2>1, FS_CardinalityType
<1>6. Cardinality(Upto(n, s, i)) # 0
  BY <1>4, <1>5, FS_EmptySet
<1> QED
  BY <1>2, <1>5, <1>6

\* No two places have the same rank.
LEMMA RankDiffers ==
    ASSUME NEW n \in Nat, NEW s \in [1..n -> Nat], NEW i \in 1..n, NEW k \in 1..n,
           s[i] < s[k] \/ (s[i] = s[k] /\ i < k)
    PROVE  Rank(s, i) < Rank(s, k)
<1>1. s[i] \in Nat /\ s[k] \in Nat /\ \A j \in 1..n : s[j] \in Nat
  OBVIOUS
<1>2. Upto(n, s, i) \subseteq Upto(n, s, k) \ {k}
  BY <1>1 DEF Upto
<1>3. k \in Upto(n, s, k)
  BY DEF Upto
<1>4. /\ IsFiniteSet(Upto(n, s, k)) /\ Rank(s, k) = Cardinality(Upto(n, s, k))
      /\ Rank(s, i) = Cardinality(Upto(n, s, i)) /\ Rank(s, i) \in Nat /\ Rank(s, k) \in Nat
  <2>1. Rank(s, i) = Cardinality(Upto(n, s, i)) /\ Rank(s, i) \in 1..n
    BY RankIs
  <2>2. /\ IsFiniteSet(Upto(n, s, k)) /\ Rank(s, k) = Cardinality(Upto(n, s, k))
        /\ Rank(s, k) \in 1..n
    BY RankIs
  <2> QED
    BY <2>1, <2>2
<1>5. /\ IsFiniteSet(Upto(n, s, k) \ {k})
      /\ Cardinality(Upto(n, s, k) \ {k}) = Cardinality(Upto(n, s, k)) - 1
  BY <1>3, <1>4, FS_RemoveElement
<1>6. Cardinality(Upto(n, s, i)) <= Cardinality(Upto(n, s, k) \ {k})
  BY <1>2, <1>5, FS_Subset
<1> QED
  BY <1>4, <1>5, <1>6

\* Every rank is taken.
LEMMA RankTaken ==
    ASSUME NEW n \in Nat, NEW s \in [1..n -> Nat], NEW r \in 1..n
    PROVE  \E i \in 1..n : Rank(s, i) = r
<1> DEFINE R == [i \in 1..n |-> Rank(s, i)]
<1>1. R \in [1..n -> 1..n]
  BY RankIs
<1>2. ASSUME NEW i \in 1..n, NEW k \in 1..n, R[i] = R[k] PROVE i = k
  <2>1. Rank(s, i) = Rank(s, k) /\ Rank(s, i) \in Nat
    BY <1>2, RankIs
  <2>2. ~(s[i] < s[k] \/ (s[i] = s[k] /\ i < k))
    <3>1. s[i] < s[k] \/ (s[i] = s[k] /\ i < k) => Rank(s, i) < Rank(s, k)
      BY RankDiffers
    <3> QED
      BY <2>1, <3>1
  <2>3. ~(s[k] < s[i] \/ (s[k] = s[i] /\ k < i))
    <3>1. s[k] < s[i] \/ (s[k] = s[i] /\ k < i) => Rank(s, k) < Rank(s, i)
      BY RankDiffers
    <3> QED
      BY <2>1, <3>1
  <2>4. s[i] \in Nat /\ s[k] \in Nat
    OBVIOUS
  <2> QED
    BY <2>2, <2>3, <2>4
<1>3. R[r] = Rank(s, r) /\ \A i \in 1..n : R[i] = Rank(s, i)
  OBVIOUS
<1> HIDE DEF R
<1>4. R \in Injection(1..n, 1..n)
  BY <1>1, <1>2 DEF Injection, IsInjective
<1>5. IsFiniteSet(1..n)
  BY FS_Interval
<1>6. R \in Surjection(1..n, 1..n)
  BY <1>4, <1>5, FS_Injection
<1>7. \E i \in 1..n : R[i] = r
  BY <1>6 DEF Surjection
<1> QED
  BY <1>3, <1>7

LEMMA PercentileIs ==
    ASSUME NEW n \in Nat \ {0}, NEW s \in [1..n -> Nat], NEW p \in {50, 95, 99}
    PROVE  IsPercentile(Percentile(s, p), s, p)
<1> DEFINE r == (p * n + 99) \div 100
<1>1. Len(s) = n /\ DOMAIN s = 1..n /\ s # <<>>
  <2>1. s \in [1..n -> Int]
    OBVIOUS
  <2>2. Len(s) = n /\ DOMAIN s = 1..n
    BY <2>1, Indexed
  <2>3. Len(<<>>) = 0
    OBVIOUS
  <2> QED
    BY <2>2, <2>3
<1>2. r \in Nat /\ r >= 1 /\ r <= n /\ 100 * r >= p * n /\ 100 * (r - 1) < p * n
  <2>1. CASE p = 50
    BY <2>1
  <2>2. CASE p = 95
    BY <2>2
  <2>3. CASE p = 99
    BY <2>3
  <2> QED
    BY <2>1, <2>2, <2>3
<1> DEFINE i == CHOOSE i \in 1..n : Rank(s, i) = r
<1>3. Percentile(s, p) = s[i]
  BY <1>1, <1>2 DEF Percentile
<1> HIDE DEF r
<1>4. i \in 1..n /\ Rank(s, i) = r
  <2>1. \E k \in 1..n : Rank(s, k) = r
    BY <1>2, RankTaken
  <2> QED
    BY <2>1
<1> HIDE DEF i
<1> DEFINE Within(x) == {k \in 1..n : s[k] <= x}
<1>5. IsFiniteSet(1..n)
  BY FS_Interval
<1>6. \A x : IsFiniteSet(Within(x)) /\ Cardinality(Within(x)) \in Nat
  <2>1. \A x : Within(x) \in SUBSET (1..n)
    OBVIOUS
  <2>2. \A x : IsFiniteSet(Within(x))
    BY <1>5, <2>1, FS_Subset
  <2> HIDE DEF Within
  <2> QED
    BY <2>2, FS_CardinalityType
<1>7. s[i] \in Nat /\ \A k \in 1..n : s[k] \in Nat
  BY <1>4
<1>8. IsFiniteSet(Upto(n, s, i)) /\ Cardinality(Upto(n, s, i)) = r /\ i \in Upto(n, s, i)
  <2>1. IsFiniteSet(Upto(n, s, i)) /\ Rank(s, i) = Cardinality(Upto(n, s, i))
    BY <1>4, RankIs
  <2>2. i \in Upto(n, s, i)
    BY <1>4 DEF Upto
  <2> QED
    BY <1>4, <2>1, <2>2
<1>9. 100 * Cardinality(Within(s[i])) >= p * n
  <2>1. Upto(n, s, i) \subseteq Within(s[i])
    BY <1>7 DEF Upto
  <2> HIDE DEF Within
  <2>2. IsFiniteSet(Within(s[i])) /\ Cardinality(Within(s[i])) \in Nat
    BY <1>6
  <2>3. r <= Cardinality(Within(s[i]))
    BY <1>8, <2>1, <2>2, FS_Subset
  <2>4. 100 * r <= 100 * Cardinality(Within(s[i]))
    BY <1>2, <2>2, <2>3
  <2>5. p * n \in Int
    OBVIOUS
  <2> QED
    BY <1>2, <2>2, <2>4, <2>5
<1>10. ASSUME NEW k \in 1..n, 100 * Cardinality(Within(s[k])) >= p * n
       PROVE  s[k] >= s[i]
  <2> SUFFICES ASSUME s[k] < s[i] PROVE FALSE
    BY <1>7
  <2>1. Within(s[k]) \subseteq Upto(n, s, i) \ {i}
    BY <1>7 DEF Upto
  <2>2. /\ IsFiniteSet(Upto(n, s, i) \ {i})
        /\ Cardinality(Upto(n, s, i) \ {i}) = r - 1
    BY <1>8, FS_RemoveElement
  <2>3. Cardinality(Within(s[k])) <= r - 1
    BY <2>1, <2>2, FS_Subset
  <2> HIDE DEF Within
  <2>4. 100 * Cardinality(Within(s[k])) <= 100 * (r - 1)
    BY <1>2, <1>6, <2>3
  <2>5. p * n \in Int /\ 100 * Cardinality(Within(s[k])) \in Int /\ 100 * (r - 1) \in Int
    BY <1>2, <1>6
  <2> QED
    BY <1>2, <1>10, <2>4, <2>5
<1> QED
  BY <1>1, <1>3, <1>4, <1>9, <1>10 DEF IsPercentile

\* The larger factor has the larger product.
LEMMA ProductGrows ==
    ASSUME NEW a \in Int, NEW b \in Int, NEW x \in Nat, a <= b
    PROVE  a * x <= b * x /\ a * x \in Int /\ b * x \in Int
<1> DEFINE m == b - a
<1>1. m \in Nat /\ b = a + m
  OBVIOUS
<1> HIDE DEF m
<1>2. m * x \in Nat
  BY <1>1
<1>3. (a + m) * x = a * x + m * x
  BY <1>1
<1> QED
  BY <1>1, <1>2, <1>3

\* No value is greater than the sum.
LEMMA SumBounds ==
    ASSUME NEW n \in Nat, NEW s \in [1..n -> Nat]
    PROVE  s \in [1..n -> Int] /\ Sum(s) \in Nat /\ \A i \in 1..n : s[i] <= Sum(s)
<1>1. s \in [1..n -> Int] /\ \A k \in 1..n : s[k] >= 0
  OBVIOUS
<1>2. Over(n, 1..n, s) = Sum(s)
  BY <1>1, OverAll
<1>3. ASSUME NEW i \in 1..n PROVE s[i] <= Sum(s)
  <2>1. Over(n, {i}, s) <= Over(n, 1..n, s)
    BY <1>1, OverGrows
  <2>2. Over(n, {i}, s) = s[i]
    BY <1>1, OverOne
  <2> QED
    BY <1>2, <2>1, <2>2
<1>4. Over(n, {}, s) <= Over(n, 1..n, s) /\ Over(n, {}, s) = 0
  BY <1>1, OverGrows, OverNone
<1>5. Sum(s) \in Int
  BY <1>1, SumsAre
<1> QED
  BY <1>1, <1>2, <1>3, <1>4, <1>5

\* Markov: fewer than one in three are more than three times the mean.
LEMMA FewBlock ==
    ASSUME NEW n \in Nat \ {0}, NEW s \in [1..n -> Nat]
    PROVE  3 * HolBlocking(s, 3) < n
<1> DEFINE t == Sum(s)
           B == {i \in 1..n : n * s[i] > 3 * t}
           c == Cardinality(B)
           u == [k \in 1..n |-> IF k \in B THEN One(n)[k] ELSE 0]
           e == [k \in 1..n |-> IF k \in B THEN 3 * t + 1 ELSE 0]
           m == [k \in 1..n |-> n * s[k]]
<1>1. s \in [1..n -> Int] /\ t \in Nat /\ Len(s) = n /\ DOMAIN s = 1..n
  <2>1. s \in [1..n -> Int] /\ t \in Nat
    BY SumBounds
  <2> QED
    BY <2>1, Indexed
<1>2. HolBlocking(s, 3) = c
  BY <1>1 DEF HolBlocking
<1> HIDE DEF t
<1>3. \A k \in 1..n : s[k] \in Nat /\ n * s[k] \in Nat
  OBVIOUS
<1>4. /\ u \in [1..n -> Int] /\ e \in [1..n -> Int] /\ m \in [1..n -> Int]
      /\ \A k \in 1..n : u[k] = IF k \in B THEN 1 ELSE 0
  BY <1>1, <1>3 DEF One
<1>5. \A k \in 1..n : e[k] <= m[k]
  BY <1>1, <1>3
<1>6. \A k \in 1..n : e[k] = (3 * t + 1) * u[k]
  <2> DEFINE a == 3 * t + 1
  <2>1. a \in Int
    BY <1>1
  <2>2. \A k \in 1..n : e[k] = IF k \in B THEN a ELSE 0
    OBVIOUS
  <2> HIDE DEF a, e
  <2>3. a * 0 = 0 /\ a * 1 = a
    BY <2>1
  <2> HIDE DEF B, u
  <2>4. \A k \in 1..n : a * u[k] = IF k \in B THEN a ELSE 0
    BY <1>4, <2>3
  <2>5. \A k \in 1..n : e[k] = a * u[k]
    BY <2>2, <2>4
  <2> QED
    BY <2>5 DEF a
<1>7. Sum(u) = Over(n, B, One(n))
  BY Zenon DEF Over
<1>8. \A k \in 1..n : m[k] = n * s[k]
  OBVIOUS
<1>9. B \in SUBSET (1..n)
  OBVIOUS
<1> HIDE DEF u, e, m, B
<1>10. Sum(u) = c /\ c \in Nat
  BY <1>7, <1>9, OverCounts, FS_CardinalityType
<1> HIDE DEF c
<1>11. Sum(e) = (3 * t + 1) * c
  <2>1. 3 * t + 1 \in Int
    BY <1>1
  <2>2. Sum(e) = (3 * t + 1) * Sum(u)
    BY <1>4, <1>6, <2>1, SumTimes
  <2> QED
    BY <1>10, <2>2
<1>12. Sum(m) = n * t
  <2>1. n \in Int
    OBVIOUS
  <2>2. \A f, h \in [1..n -> Int] : \A a \in Int :
            (\A k \in 1..n : h[k] = a * f[k]) => Sum(h) = a * Sum(f)
    BY SumTimes
  <2>3. Sum(m) = n * Sum(s)
    BY <1>1, <1>4, <1>8, <2>1, <2>2
  <2> QED
    BY <2>3 DEF t
<1>13. (3 * t + 1) * c <= n * t
  BY <1>4, <1>5, <1>11, <1>12, SumMonotone
<1>14. 3 * c < n
  <2> SUFFICES ASSUME 3 * c >= n PROVE FALSE
    BY <1>10
  <2>1. c >= 1
    BY <1>10
  <2>2. (3 * t + 1) * c = (3 * c) * t + c
    BY <1>1, <1>10
  <2>3. (3 * c) * t >= n * t
    <3> DEFINE a == 3 * c
    <3>1. a \in Nat /\ a >= n
      BY <1>10
    <3> HIDE DEF a
    <3>2. a * t >= n * t
      BY <1>1, <3>1, ProductGrows
    <3> QED
      BY <3>2 DEF a
  <2>4. n * t \in Int /\ (3 * c) * t \in Int
    BY <1>1, <1>10
  <2> QED
    BY <1>10, <1>13, <2>1, <2>2, <2>3, <2>4
<1> QED
  BY <1>2, <1>14

\* The sum of the squares lies between the square of the sum and an n-th of it.
LEMMA Squares ==
    ASSUME NEW n \in Nat \ {0}, NEW s \in [1..n -> Nat], NEW q \in [1..n -> Int],
           \A k \in 1..n : q[k] = s[k] * s[k]
    PROVE  /\ Sum(q) \in Nat
           /\ Sum(q) <= Sum(s) * Sum(s)
           /\ Sum(s) * Sum(s) <= n * Sum(q)
<1> DEFINE t == Sum(s)
           v == Sum(q)
           nn == n * n
           nt == -2 * n * t
           tt == t * t
           m == [k \in 1..n |-> t * s[k]]
           x == [k \in 1..n |-> nn * q[k]]
           y == [k \in 1..n |-> nt * s[k]]
           z == [k \in 1..n |-> tt]
           xy == [k \in 1..n |-> x[k] + y[k]]
           w == [k \in 1..n |-> xy[k] + z[k]]
<1>1. s \in [1..n -> Int] /\ t \in Nat /\ \A k \in 1..n : s[k] \in Nat /\ s[k] <= t
  BY SumBounds
<1> HIDE DEF t
<1>2. \A k \in 1..n : q[k] \in Nat /\ q[k] <= t * s[k] /\ t * s[k] \in Int
  <2> SUFFICES ASSUME NEW k \in 1..n PROVE q[k] \in Nat /\ q[k] <= t * s[k] /\ t * s[k] \in Int
    OBVIOUS
  <2> DEFINE a == s[k]
  <2>1. a \in Nat /\ a <= t /\ q[k] = a * a
    BY <1>1
  <2> HIDE DEF a
  <2>2. a * a <= t * a /\ t * a \in Int
    BY <1>1, <2>1, ProductGrows
  <2>3. a * a \in Nat
    BY <2>1
  <2>4. q[k] \in Nat /\ q[k] <= t * a
    BY <2>1, <2>2, <2>3
  <2> QED
    BY <2>2, <2>4 DEF a
<1>3. v \in Nat
  <2>1. q \in [1..n -> Nat]
    BY <1>2
  <2> QED
    BY <2>1, SumBounds
<1>4. \A f, h \in [1..n -> Int] : \A a \in Int :
          (\A k \in 1..n : h[k] = a * f[k]) => Sum(h) = a * Sum(f)
  BY SumTimes
<1>5. \A a, b, c \in [1..n -> Int] :
          (\A k \in 1..n : c[k] = a[k] + b[k]) => Sum(c) = Sum(a) + Sum(b)
  BY SumPlus
<1>6. v <= t * t
  <2>1. m \in [1..n -> Int]
    BY <1>2
  <2>2. \A k \in 1..n : q[k] <= m[k] /\ m[k] = t * s[k]
    BY <1>2
  <2>3. t \in Int
    BY <1>1
  <2> HIDE DEF m
  <2>4. Sum(m) = t * Sum(s)
    BY <1>1, <1>4, <2>1, <2>2, <2>3
  <2>5. Sum(q) <= Sum(m)
    BY <2>1, <2>2, SumMonotone
  <2> QED
    BY <2>4, <2>5 DEF t
<1>7. nn \in Int /\ nt \in Int /\ tt \in Int /\ n \in Int
  BY <1>1
<1>8. \A k \in 1..n : LET a == n * s[k] - t
                     IN  a * a \in Nat /\ a * a = nn * q[k] + nt * s[k] + tt
  <2> SUFFICES ASSUME NEW k \in 1..n
               PROVE  LET a == n * s[k] - t
                      IN  a * a \in Nat /\ a * a = nn * q[k] + nt * s[k] + tt
    OBVIOUS
  <2> DEFINE c == s[k]
             b == n * c
             a == b - t
  <2>1. c \in Int /\ q[k] = c * c
    BY <1>1
  <2> HIDE DEF c
  <2>2. b \in Int
    BY <2>1
  <2>3. b * b = nn * (c * c)
    BY <2>1
  <2>4. nt * c = -2 * (b * t)
    BY <1>1, <2>1
  <2> HIDE DEF b
  <2>5. a \in Int /\ a * a = b * b - 2 * (b * t) + t * t
    BY <1>1, <2>2
  <2> HIDE DEF a
  <2>6. a * a \in Nat
    BY <2>5
  <2>7. b * b \in Int /\ b * t \in Int /\ t * t \in Int
    BY <1>1, <2>2
  <2> HIDE DEF nn, nt
  <2>8. a * a = nn * q[k] + nt * c + tt
    BY <2>1, <2>3, <2>4, <2>5, <2>7
  <2> QED
    BY <2>6, <2>8 DEF a, b, c
<1> HIDE DEF nn, nt, tt
<1>9. \A k \in 1..n : nn * q[k] \in Int /\ nt * s[k] \in Int
  <2> SUFFICES ASSUME NEW k \in 1..n PROVE nn * q[k] \in Int /\ nt * s[k] \in Int
    OBVIOUS
  <2> DEFINE a == q[k]
             b == s[k]
  <2>1. a \in Int /\ b \in Int
    BY <1>1, <1>2
  <2> HIDE DEF a, b
  <2>2. nn * a \in Int /\ nt * b \in Int
    BY <1>7, <2>1
  <2> QED
    BY <2>2 DEF a, b
<1>10. x \in [1..n -> Int] /\ y \in [1..n -> Int] /\ z \in [1..n -> Int]
  BY <1>7, <1>9
<1>11. \A k \in 1..n : x[k] = nn * q[k] /\ y[k] = nt * s[k] /\ z[k] = tt
  OBVIOUS
<1> HIDE DEF x, y, z
<1>12. xy \in [1..n -> Int] /\ \A k \in 1..n : xy[k] = x[k] + y[k]
  BY <1>10
<1> HIDE DEF xy
<1>13. w \in [1..n -> Int] /\ \A k \in 1..n : w[k] = xy[k] + z[k]
  <2>1. xy \in [1..n -> Int] /\ z \in [1..n -> Int]
    BY <1>10, <1>12
  <2>2. \A k \in 1..n : xy[k] + z[k] \in Int
    BY <2>1
  <2> QED
    BY <2>2
<1> HIDE DEF w
<1>14. w \in [1..n -> Nat]
  <2> SUFFICES ASSUME NEW k \in 1..n PROVE w[k] \in Nat
    BY <1>13
  <2> DEFINE a == n * s[k] - t
             b == a * a
  <2>1. b \in Nat /\ b = nn * q[k] + nt * s[k] + tt
    BY <1>8
  <2> HIDE DEF b
  <2>2. w[k] = nn * q[k] + nt * s[k] + tt
    BY <1>11, <1>12, <1>13
  <2> QED
    BY <2>1, <2>2
<1>15. Sum(w) = Sum(x) + Sum(y) + Sum(z)
  <2>1. Sum(w) = Sum(xy) + Sum(z)
    BY <1>5, <1>10, <1>12, <1>13
  <2>2. Sum(xy) = Sum(x) + Sum(y)
    BY <1>5, <1>10, <1>12
  <2> QED
    BY <2>1, <2>2
<1>16. Sum(x) = nn * v
  <2>1. \A k \in 1..n : x[k] = nn * q[k]
    BY <1>11
  <2> QED
    BY <1>4, <1>7, <1>10, <2>1
<1>17. Sum(y) = nt * t
  <2>1. \A k \in 1..n : y[k] = nt * s[k]
    BY <1>11
  <2>2. Sum(y) = nt * Sum(s)
    BY <1>1, <1>4, <1>7, <1>10, <2>1
  <2> QED
    BY <2>2 DEF t
<1>18. Sum(z) = tt * n
  <2>1. \A k \in 1..n : z[k] = tt
    BY <1>11
  <2> QED
    BY <1>7, <1>10, <2>1, SumConstant
<1>19. Sum(w) \in Nat
  BY <1>14, SumBounds
<1> HIDE DEF v
<1>20. 0 <= nn * v + nt * t + tt * n
  BY <1>15, <1>16, <1>17, <1>18, <1>19
<1>21. t * t <= n * v
  <2> DEFINE a == n * v
             b == t * t
  <2>1. a \in Int /\ b \in Int
    BY <1>1, <1>3
  <2>2. nn * v = n * a
    BY <1>3 DEF nn
  <2>3. nt * t = -2 * (n * b)
    BY <1>1 DEF nt
  <2>4. tt * n = n * b
    BY <1>1 DEF tt
  <2> HIDE DEF a, b
  <2>5. n * a \in Int /\ n * b \in Int
    BY <2>1
  <2>6. n * b <= n * a
    BY <1>20, <2>2, <2>3, <2>4, <2>5
  <2>7. b <= a
    <3> SUFFICES ASSUME a + 1 <= b PROVE FALSE
      BY <2>1
    <3>1. (a + 1) * n <= b * n
      BY <2>1, ProductGrows
    <3>2. (a + 1) * n = n * a + n /\ b * n = n * b
      BY <2>1
    <3> QED
      BY <2>5, <2>6, <3>1, <3>2
  <2> QED
    BY <2>7 DEF a, b
<1> QED
  BY <1>3, <1>6, <1>21 DEF t, v

\* For completion times of any number and size the percentiles of metrics/jct.py are
\* the least values that so many percent do not exceed, fewer than a third of the
\* jobs are counted as blocked, and Jain's index lies between 1/n and 1.
THEOREM SummaryIsTrue ==
    ASSUME NEW n \in Nat \ {0}, NEW s \in [1..n -> Nat]
    PROVE  Summarised(s)
<1> DEFINE q == [i \in DOMAIN s |-> s[i] * s[i]]
           t == Sum(s)
           v == Sum(q)
<1>1. Len(s) = n /\ DOMAIN s = 1..n
  <2>1. s \in [1..n -> Int]
    OBVIOUS
  <2> QED
    BY <2>1, Indexed
<1>2. q \in [1..n -> Int] /\ \A k \in 1..n : q[k] = s[k] * s[k]
  <2>1. \A k \in 1..n : s[k] * s[k] \in Int
    OBVIOUS
  <2> QED
    BY <1>1, <2>1
<1>3. Fairness(s) = IF v = 0 THEN <<1, 1>> ELSE <<t * t, n * v>>
  BY <1>1 DEF Fairness
<1> HIDE DEF q
<1>4. v \in Nat /\ v <= t * t /\ t * t <= n * v
  BY <1>2, Squares
<1>5. t \in Nat
  BY SumBounds
<1> HIDE DEF t, v
<1>6. Fairness(s)[1] <= Fairness(s)[2] /\ Fairness(s)[2] <= n * Fairness(s)[1]
  <2>1. CASE v = 0
    <3>1. Fairness(s)[1] = 1 /\ Fairness(s)[2] = 1
      BY <1>3, <2>1
    <3> QED
      BY <3>1
  <2>2. CASE v # 0
    <3>1. Fairness(s)[1] = t * t /\ Fairness(s)[2] = n * v
      BY <1>3, <2>2
    <3> DEFINE b == t * t
    <3>2. b \in Nat
      BY <1>5
    <3>3. n * v <= n * b
      <4>1. v <= b
        BY <1>4
      <4> HIDE DEF b
      <4>2. v * n <= b * n
        BY <1>4, <3>2, <4>1, ProductGrows
      <4> QED
        BY <1>4, <3>2, <4>2
    <3>4. t * t <= n * v
      BY <1>4
    <3> QED
      BY <3>1, <3>3, <3>4, Zenon
  <2> QED
    BY <2>1, <2>2
<1>7. \A p \in {50, 95, 99} : IsPercentile(Percentile(s, p), s, p)
  BY PercentileIs
<1>8. 3 * HolBlocking(s, 3) < n
  BY FewBlock
<1> QED
  BY <1>1, <1>6, <1>7, <1>8 DEF Summarised

-----------------------------------------------------------------------------
(* The textbook schedule *)

\* The recursion has a solution, and it is what its name says.
LEMMA LindleyIs ==
    ASSUME NEW a \in [Jobs -> Nat], NEW d \in [Jobs -> Nat]
    PROVE  /\ Lindley(a, d) \in [0..N -> Nat] /\ Lindley(a, d)[0] = 0
           /\ \A j \in Jobs : /\ j - 1 \in 0..N
                              /\ Lindley(a, d)[j] = Later(Lindley(a, d)[j - 1], a[j]) + d[j]
<1> DEFINE f == [k \in 1..N |-> [v \in Int |-> Later(v, a[k]) + d[k]]]
<1>1. \A k \in 1..N : a[k] \in Int /\ d[k] \in Int
  BY DEF Jobs
<1>2. f \in [1..N -> [Int -> Int]]
  <2>1. \A k \in 1..N : \A v \in Int : Later(v, a[k]) + d[k] \in Int
    BY <1>1 DEF Later
  <2> QED
    BY <2>1
<1>3. N \in Nat
  BY SimulatorAssumption
<1>4. PICK e \in [0..N -> Int] : Unfolds(e, 0, f, N)
  <2> HIDE DEF f
  <2>1. 0 \in Int
    OBVIOUS
  <2> QED
    BY <1>2, <1>3, <2>1, Recursion
<1>5. \A k \in 1..N : e[k - 1] \in Int /\ e[k] = Later(e[k - 1], a[k]) + d[k]
  <2>1. \A k \in 1..N : e[k] = f[k][e[k - 1]]
    BY <1>4 DEF Unfolds
  <2>2. \A k \in 1..N : k - 1 \in 0..N
    BY <1>3
  <2>3. \A k \in 1..N : e[k - 1] \in Int
    BY <1>4, <2>2
  <2> QED
    BY <2>1, <2>3
<1>6. e = [j \in 0..N |-> IF j = 0 THEN 0 ELSE Later(e[j - 1], a[j]) + d[j]]
  <2>1. e[0] = 0
    BY <1>4 DEF Unfolds
  <2>2. e = [k \in 0..N |-> e[k]]
    BY <1>4
  <2>3. \A k \in 0..N : e[k] = IF k = 0 THEN 0 ELSE Later(e[k - 1], a[k]) + d[k]
    BY <1>3, <1>5, <2>1
  <2> QED
    BY <2>2, <2>3
<1> DEFINE Is(g) == g = [j \in 0..N |-> IF j = 0 THEN 0 ELSE Later(g[j - 1], a[j]) + d[j]]
<1>7. Lindley(a, d) = CHOOSE g : Is(g)
  BY DEF Lindley
<1>8. Is(e)
  BY <1>6
<1> HIDE DEF Is
<1>9. Is(Lindley(a, d))
  BY <1>7, <1>8
<1> DEFINE t == Lindley(a, d)
<1>10. t = [j \in 0..N |-> IF j = 0 THEN 0 ELSE Later(t[j - 1], a[j]) + d[j]]
  BY <1>9 DEF Is
<1> HIDE DEF t
<1>11. t[0] = 0 /\ \A k \in 1..N : t[k] = Later(t[k - 1], a[k]) + d[k]
  BY <1>3, <1>10
<1> DEFINE S == {m \in Nat : m <= N => t[m] \in Nat}
<1>12. 0 \in S /\ \A m \in Nat : m \in S => m + 1 \in S
  <2>1. ASSUME NEW m \in Nat, m \in S, m + 1 <= N PROVE t[m + 1] \in Nat
    <3>1. m + 1 \in 1..N /\ (m + 1) - 1 = m /\ t[m] \in Nat
      BY <1>3, <2>1
    <3>2. a[m + 1] \in Nat /\ d[m + 1] \in Nat
      BY <3>1 DEF Jobs
    <3>3. t[m + 1] = Later(t[m], a[m + 1]) + d[m + 1]
      BY <1>11, <3>1
    <3> QED
      BY <3>1, <3>2, <3>3 DEF Later
  <2> QED
    BY <1>11, <2>1
<1> HIDE DEF S
<1>13. \A m \in 0..N : t[m] \in Nat
  <2>1. Nat \subseteq S
    BY <1>12, Induction
  <2> QED
    BY <2>1 DEF S
<1>14. t \in [0..N -> Nat]
  BY <1>10, <1>13
<1> QED
  BY <1>3, <1>11, <1>14 DEF t, Jobs

\* The same for the next of two places.
LEMMA LindleySteps ==
    ASSUME NEW a \in [Jobs -> Nat], NEW d \in [Jobs -> Nat], NEW m \in Nat, m + 1 <= N
    PROVE  /\ m + 1 \in Jobs /\ Lindley(a, d)[m] \in Nat /\ Lindley(a, d)[m + 1] \in Nat
           /\ a[m + 1] \in Nat /\ d[m + 1] \in Nat
           /\ Lindley(a, d)[m + 1] = Later(Lindley(a, d)[m], a[m + 1]) + d[m + 1]
<1>1. m + 1 \in Jobs /\ (m + 1) - 1 = m /\ m \in 0..N /\ m + 1 \in 0..N
  BY SimulatorAssumption DEF Jobs
<1>2. /\ Lindley(a, d) \in [0..N -> Nat]
      /\ \A j \in Jobs : Lindley(a, d)[j] = Later(Lindley(a, d)[j - 1], a[j]) + d[j]
  BY LindleyIs
<1>3. Lindley(a, d)[m + 1] = Later(Lindley(a, d)[(m + 1) - 1], a[m + 1]) + d[m + 1]
  BY <1>1, <1>2
<1> QED
  BY <1>1, <1>2, <1>3

\* Jobs end in their order.
LEMMA LindleyGrows ==
    ASSUME NEW a \in [Jobs -> Nat], NEW d \in [Jobs -> Nat],
           NEW j \in 0..N, NEW k \in 0..N, j <= k
    PROVE  Lindley(a, d)[j] <= Lindley(a, d)[k]
<1> DEFINE t == Lindley(a, d)
           S == {m \in Nat : j <= m /\ m <= N => t[j] <= t[m]}
<1>1. t \in [0..N -> Nat] /\ N \in Nat
  BY LindleyIs, SimulatorAssumption
<1>2. 0 \in S
  BY <1>1
<1>3. ASSUME NEW m \in Nat, m \in S PROVE m + 1 \in S
  <2> SUFFICES ASSUME j <= m + 1, m + 1 <= N PROVE t[j] <= t[m + 1]
    OBVIOUS
  <2>1. /\ t[m] \in Nat /\ t[m + 1] \in Nat /\ a[m + 1] \in Nat /\ d[m + 1] \in Nat
        /\ t[m + 1] = Later(t[m], a[m + 1]) + d[m + 1]
    BY LindleySteps
  <2>2. t[m] <= t[m + 1]
    BY <2>1 DEF Later
  <2>3. CASE j = m + 1
    BY <2>1, <2>3
  <2>4. CASE j # m + 1
    <3>1. j <= m /\ m <= N
      BY <1>1, <2>4
    <3>2. t[j] <= t[m]
      BY <1>3, <3>1
    <3>3. t[j] \in Nat
      BY <1>1
    <3> HIDE DEF S, t
    <3> QED
      BY <2>1, <2>2, <3>2, <3>3
  <2> QED
    BY <2>3, <2>4
<1> HIDE DEF S
<1>4. k \in S /\ k <= N /\ k \in Nat
  <2>1. Nat \subseteq S
    BY <1>2, <1>3, Induction
  <2> QED
    BY <1>1, <2>1
<1> QED
  BY <1>4 DEF S

\* The sum of one place more.
LEMMA OverNext ==
    ASSUME NEW d \in [Jobs -> Nat], NEW i \in Jobs, NEW m \in Nat, m + 1 <= N, i <= m + 1
    PROVE  /\ Over(N, i..(m + 1), d) = Over(N, i..m, d) + d[m + 1]
           /\ Over(N, i..m, d) \in Int /\ Over(N, i..(m + 1), d) \in Int
<1>1. /\ d \in [1..N -> Int] /\ N \in Nat /\ m + 1 \in 1..N
      /\ i..(m + 1) = (i..m) \cup {m + 1} /\ m + 1 \notin i..m
  BY SimulatorAssumption DEF Jobs
<1>2. Over(N, (i..m) \cup {m + 1}, d) = Over(N, i..m, d) + d[m + 1]
  <2>1. \A T : \A x \in 1..N : x \notin T => Over(N, T \cup {x}, d) = Over(N, T, d) + d[x]
    BY <1>1, OverAdd
  <2> QED
    BY <1>1, <2>1
<1>3. Over(N, i..m, d) \in Int /\ Over(N, i..(m + 1), d) \in Int
  BY <1>1, OverIs
<1> QED
  BY <1>1, <1>2, <1>3

\* A job ends no earlier than when those from i on take turns once i is there,
\* and for some i exactly then.
LEMMA LindleyBusy ==
    ASSUME NEW a \in [Jobs -> Nat], NEW d \in [Jobs -> Nat], NEW k \in Jobs
    PROVE  /\ \A i \in 1..k : Lindley(a, d)[k] >= a[i] + Over(N, i..k, d)
           /\ \E i \in 1..k : Lindley(a, d)[k] = a[i] + Over(N, i..k, d)
<1> DEFINE t == Lindley(a, d)
           Lower(m) == \A i \in 1..m : t[m] >= a[i] + Over(N, i..m, d)
           Meets(m) == \E i \in 1..m : t[m] = a[i] + Over(N, i..m, d)
           S == {m \in Nat : 1 <= m /\ m <= N => Lower(m) /\ Meets(m)}
<1>1. N \in Nat /\ \A i \in 1..N : a[i] \in Nat
  BY SimulatorAssumption DEF Jobs
<1>2. 0 \in S
  OBVIOUS
<1>3. ASSUME NEW m \in Nat, m \in S PROVE m + 1 \in S
  <2> SUFFICES ASSUME m + 1 <= N PROVE Lower(m + 1) /\ Meets(m + 1)
    OBVIOUS
  <2>1. /\ t[m] \in Nat /\ t[m + 1] \in Nat /\ a[m + 1] \in Nat /\ d[m + 1] \in Nat
        /\ t[m + 1] = Later(t[m], a[m + 1]) + d[m + 1]
    BY LindleySteps
  <2>2. \A i \in 1..(m + 1) :
           /\ Over(N, i..(m + 1), d) = Over(N, i..m, d) + d[m + 1]
           /\ Over(N, i..m, d) \in Int /\ Over(N, i..(m + 1), d) \in Int /\ a[i] \in Nat
    <3> SUFFICES ASSUME NEW i \in 1..(m + 1)
                 PROVE  /\ Over(N, i..(m + 1), d) = Over(N, i..m, d) + d[m + 1]
                        /\ Over(N, i..m, d) \in Int /\ Over(N, i..(m + 1), d) \in Int /\ a[i] \in Nat
      OBVIOUS
    <3>1. i \in Jobs /\ i \in 1..N /\ i <= m + 1
      BY <1>1 DEF Jobs
    <3> QED
      BY <1>1, <3>1, OverNext
  <2>3. m + 1 \in 1..(m + 1) /\ \A i \in 1..(m + 1) : i = m + 1 \/ i \in 1..m
    OBVIOUS
  <2>4. Over(N, (m + 1)..(m + 1), d) = d[m + 1]
    <3>1. (m + 1)..(m + 1) = {m + 1} /\ d \in [1..N -> Int] /\ m + 1 \in 1..N
      BY <1>1 DEF Jobs
    <3>2. \A x \in 1..N : Over(N, {x}, d) = d[x]
      BY <1>1, <3>1, OverOne
    <3> QED
      BY <3>1, <3>2
  <2>5. m # 0 => Lower(m) /\ Meets(m)
    <3> HIDE DEF Lower, Meets
    <3> QED
      BY <1>1, <1>3
  <2>6. m = 0 => t[m] = 0
    BY LindleyIs
  <2> HIDE DEF S, t
  <2>7. Lower(m + 1)
    <3> SUFFICES ASSUME NEW i \in 1..(m + 1) PROVE t[m + 1] >= a[i] + Over(N, i..(m + 1), d)
      OBVIOUS
    <3>1. CASE i = m + 1
      <4>1. t[m + 1] >= a[m + 1] + d[m + 1]
        BY <2>1 DEF Later
      <4> QED
        BY <2>4, <3>1, <4>1
    <3>2. CASE i \in 1..m
      <4>1. t[m] >= a[i] + Over(N, i..m, d)
        BY <2>5, <3>2
      <4>2. t[m + 1] >= t[m] + d[m + 1]
        BY <2>1 DEF Later
      <4>3. /\ Over(N, i..(m + 1), d) = Over(N, i..m, d) + d[m + 1]
            /\ Over(N, i..m, d) \in Int /\ a[i] \in Nat
        BY <2>2
      <4> QED
        BY <2>1, <4>1, <4>2, <4>3
    <3> QED
      BY <2>3, <3>1, <3>2
  <2>8. Meets(m + 1)
    <3>1. CASE t[m] >= a[m + 1] /\ m # 0
      <4>1. PICK i \in 1..m : t[m] = a[i] + Over(N, i..m, d)
        BY <2>5, <3>1
      <4>2. t[m + 1] = t[m] + d[m + 1]
        BY <2>1, <3>1 DEF Later
      <4>3. i \in 1..(m + 1)
        BY <4>1
      <4>4. /\ Over(N, i..(m + 1), d) = Over(N, i..m, d) + d[m + 1]
            /\ Over(N, i..m, d) \in Int /\ a[i] \in Nat
        BY <2>2, <4>3
      <4>5. t[m + 1] = a[i] + Over(N, i..(m + 1), d)
        BY <2>1, <4>1, <4>2, <4>4
      <4> QED
        BY <4>3, <4>5
    <3>2. CASE t[m] < a[m + 1] \/ m = 0
      <4>1. t[m + 1] = a[m + 1] + d[m + 1]
        BY <2>1, <2>6, <3>2 DEF Later
      <4> QED
        BY <2>3, <2>4, <4>1
    <3> QED
      BY <2>1, <3>1, <3>2
  <2> QED
    BY <2>7, <2>8
<1> HIDE DEF S
<1>4. k \in S
  <2>1. k \in Nat
    BY DEF Jobs
  <2> QED
    BY <1>2, <1>3, <2>1, Induction
<1>5. 1 <= k /\ k <= N
  BY SimulatorAssumption DEF Jobs
<1> QED
  BY <1>4, <1>5 DEF S

-----------------------------------------------------------------------------
(* Jobs end on time *)

Due(j) == start[j] + true[j]

Started == {j \in Jobs : start[j] >= 0}

\* What runs ends on time, and what ended did; no job starts before it arrives.
EndInv ==
    /\ \A f \in Pending("finish") : f.at = Due(f.job)
    /\ \A j \in running : \E f \in Pending("finish") : f.job = j
    /\ \A j \in Started \ running : end[j] = Due(j) /\ Due(j) <= now
    /\ \A j \in Started : start[j] >= arrival[j]
    /\ \A j \in waiting : arrival[j] <= now

\* What each event changes.
LEMMA ArriveDoes ==
    ASSUME SimInv, NEW e \in calendar, Arrive(e)
    PROVE  /\ e.job \in Jobs /\ e.at = arrival[e.job] /\ e.job \notin Started
           /\ waiting' = waiting \cup {e.job}
           /\ UNCHANGED <<running, start, end>>
           /\ Pending("finish")' = Pending("finish")
<1> DEFINE r == Event(e.at, eid, "request", e.job)
           a == Event(Later(e.at, arrival[e.job + 1]), eid + 1, "arrive", e.job + 1)
           new == {r} \cup (IF e.job < N THEN {a} ELSE {})
<1>1. /\ Process(e, "arrive", new) /\ waiting' = waiting \cup {e.job}
      /\ UNCHANGED <<running, start, end>>
  BY DEF Arrive
<1>2. \A f \in new : f.kind # "finish"
  <2>1. r.kind = "request" /\ a.kind = "arrive"
    BY DEF Event
  <2> HIDE DEF r, a
  <2>2. \A f \in new : f = r \/ f = a
    OBVIOUS
  <2> QED
    BY <2>1, <2>2
<1> HIDE DEF new
<1>3. e.kind = "arrive" /\ calendar' = (calendar \ {e}) \cup new
  BY <1>1 DEF Process
<1>4. Pending("finish")' = Pending("finish")
  BY <1>2, <1>3, PendingKept
<1>5. e \in Pending("arrive") /\ e.job \in Jobs
  BY <1>3 DEF Pending, SimInv, TypeOK, Events
<1>6. e.at = arrival[e.job] /\ ~Arrived(e.job)
  <2>1. e.at = arrival[e.job] /\ (Arrived(e.job) <=> e.job < e.job)
    BY <1>5 DEF SimInv, ArrivalInv
  <2> QED
    BY <1>5, <2>1 DEF Jobs
<1> QED
  BY <1>1, <1>4, <1>5, <1>6 DEF Arrived, Started

LEMMA TriggerDoes ==
    ASSUME SimInv, NEW e \in calendar, Request(e) \/ Release(e)
    PROVE  /\ UNCHANGED <<waiting, running, start, end>>
           /\ Pending("finish")' = Pending("finish")
<1>1. UNCHANGED <<waiting, running, start, end>>
  BY DEF Request, Release
<1>2. PICK kind, requests : kind \in {"request", "release"} /\ Trigger(e, kind, requests)
  BY DEF Request, Release
<1>3. PICK new : Process(e, kind, new) /\ \A f \in new : f.kind = "acquire"
  <2>1. Event(e.at, eid, "acquire", e.job).kind = "acquire"
    BY DEF Event
  <2> QED
    BY <1>2, <2>1 DEF Trigger
<1>4. e.kind = kind /\ calendar' = (calendar \ {e}) \cup new
  BY <1>3 DEF Process
<1>5. Pending("finish")' = Pending("finish")
  BY <1>2, <1>3, <1>4, PendingKept
<1> QED
  BY <1>1, <1>5

LEMMA AcquireDoes ==
    ASSUME SimInv, NEW e \in calendar, Acquire(e)
    PROVE  /\ e.at = now
           /\ capacity = 1 => running = {}
           /\ \E j \in Select, q \in Pending("finish")' :
                /\ j \in waiting /\ j \in Jobs /\ j \notin Started
                /\ waiting' = waiting \ {j} /\ running' = running \cup {j} /\ end' = end
                /\ start'[j] = now /\ \A k \in Jobs \ {j} : start'[k] = start[k]
                /\ start' \in [Jobs -> Int]
                /\ q.at = now + true[j] /\ q.job = j
                /\ Pending("finish")' = Pending("finish") \cup {q}
<1>1. PICK j \in Select :
         /\ Process(e, "acquire", {Event(e.at + true[j], eid, "finish", j)})
         /\ waiting' = waiting \ {j}
         /\ running' = running \cup {j}
         /\ start' = [start EXCEPT ![j] = e.at]
         /\ end' = end
  BY DEF Acquire
<1> DEFINE q == Event(e.at + true[j], eid, "finish", j)
<1>2. q.at = e.at + true[j] /\ q.job = j /\ q.kind = "finish"
  BY DEF Event
<1> HIDE DEF q
<1>3. e.kind = "acquire" /\ calendar' = (calendar \ {e}) \cup {q}
  BY <1>1 DEF Process, q
<1>4. e.at = now /\ now \in Nat
  BY <1>3 DEF SimInv, Punctual, TypeOK
<1>5. Pending("finish")' = Pending("finish") \cup {q}
  BY <1>2, <1>3 DEF Pending
<1>6. j \in waiting /\ j \in Jobs /\ j \notin Started
  BY <1>1, SelectWaits DEF SimInv, TypeOK, PlaceInv, Started
<1>7. /\ start' \in [Jobs -> Int] /\ start'[j] = now
      /\ \A k \in Jobs \ {j} : start'[k] = start[k]
  <2>1. start \in [Jobs -> Nat \cup {-1}]
    BY DEF SimInv, TypeOK
  <2> QED
    BY <1>1, <1>4, <1>6, <2>1
<1>8. ASSUME capacity = 1 PROVE running = {}
  <2>1. /\ users = Cardinality(running) + Cardinality(Pending("acquire")) /\ users \in 0..capacity
        /\ IsFiniteSet(running) /\ Cardinality(running) \in Nat
        /\ Cardinality(Pending("acquire")) \in Nat
    BY Counts DEF SimInv, SelectHasChoice, TypeOK
  <2>2. Cardinality(Pending("acquire")) # 0
    <3>1. e \in Pending("acquire")
      BY <1>3 DEF Pending
    <3>2. IsFiniteSet(Pending("acquire"))
      BY PendingFinite DEF SimInv
    <3> QED
      BY <3>1, <3>2, FS_EmptySet
  <2>3. Cardinality(running) = 0
    BY <1>8, <2>1, <2>2
  <2> QED
    BY <2>1, <2>3, FS_EmptySet
<1> QED
  BY <1>1, <1>2, <1>4, <1>5, <1>6, <1>7, <1>8

LEMMA FinishDoes ==
    ASSUME SimInv, NEW e \in calendar, Finish(e)
    PROVE  /\ e \in Pending("finish") /\ e.job \in Jobs /\ e.job \in running
           /\ running' = running \ {e.job} /\ waiting' = waiting /\ start' = start
           /\ end'[e.job] = e.at /\ \A k \in Jobs \ {e.job} : end'[k] = end[k]
           /\ Pending("finish")' = Pending("finish") \ {e}
<1> DEFINE q == Event(e.at, eid, "release", e.job)
<1>1. /\ Process(e, "finish", {q})
      /\ running' = running \ {e.job} /\ waiting' = waiting /\ start' = start
      /\ end' = [end EXCEPT ![e.job] = e.at]
  BY DEF Finish
<1>2. q.kind = "release"
  BY DEF Event
<1> HIDE DEF q
<1>3. e.kind = "finish" /\ calendar' = (calendar \ {e}) \cup {q}
  BY <1>1 DEF Process
<1>4. e \in Pending("finish") /\ e.job \in Jobs
  BY <1>3 DEF Pending, SimInv, TypeOK, Events
<1>5. e.job \in running
  BY <1>4 DEF SimInv, PlaceInv
<1>6. Pending("finish")' = Pending("finish") \ {e}
  BY <1>2, <1>3 DEF Pending
<1>7. end \in [Jobs -> Nat \cup {-1}]
  BY DEF SimInv, TypeOK
<1> QED
  BY <1>1, <1>4, <1>5, <1>6, <1>7

\* The types that the following lemmas need.
LEMMA TimesAre ==
    ASSUME SimInv
    PROVE  /\ now \in Nat /\ start \in [Jobs -> Int] /\ end \in [Jobs -> Int]
           /\ true \in [Jobs -> Nat] /\ arrival \in [Jobs -> Nat]
           /\ \A j \in Jobs : start[j] \in Int /\ true[j] \in Nat /\ true[j] > 0 /\ arrival[j] \in Nat
           /\ \A j \in Jobs : Due(j) \in Int
           /\ waiting \subseteq Jobs /\ running \subseteq Started /\ Started \subseteq Jobs
           /\ waiting \cap Started = {}
<1>1. /\ now \in Nat /\ start \in [Jobs -> Nat \cup {-1}] /\ end \in [Jobs -> Nat \cup {-1}]
      /\ waiting \subseteq Jobs /\ running \subseteq Jobs
  BY DEF SimInv, TypeOK
<1>2. start \in [Jobs -> Int] /\ end \in [Jobs -> Int]
  BY <1>1
<1>3. /\ true \in [Jobs -> Nat] /\ arrival \in [Jobs -> Nat]
      /\ \A j \in Jobs : start[j] \in Int /\ true[j] \in Nat /\ true[j] > 0 /\ arrival[j] \in Nat
  <2>1. true \in [Jobs -> Durations] /\ arrival \in [Jobs -> Arrivals]
    BY DEF SimInv, TypeOK
  <2>2. \A j \in Jobs : true[j] \in Nat /\ true[j] > 0
    <3>1. Durations \subseteq Nat \ {0}
      BY SimulatorAssumption
    <3>2. \A d \in Durations : d \in Nat /\ d > 0
      BY <3>1
    <3> HIDE DEF Jobs
    <3> QED
      BY <2>1, <3>2
  <2>3. \A j \in Jobs : arrival[j] \in Nat
    BY <2>1, SimulatorAssumption
  <2> QED
    BY <1>2, <2>1, <2>2, <2>3
<1>4. \A j \in Jobs : Due(j) \in Int
  BY <1>3 DEF Due
<1>5. /\ running \subseteq Started /\ Started \subseteq Jobs
      /\ waiting \cap Started = {}
  BY <1>1, <1>3 DEF SimInv, PlaceInv, Started
<1> QED
  BY <1>1, <1>2, <1>3, <1>4, <1>5

\* Whatever happens, jobs end on time.
LEMMA StepEnds ==
    ASSUME SimInv, EndInv, [Next]_vars
    PROVE  EndInv'
<1>1. CASE UNCHANGED vars
  <2>1. /\ UNCHANGED <<arrival, true, now, calendar, waiting, running, start, end>>
    BY <1>1 DEF vars, experiment
  <2>2. Pending("finish")' = Pending("finish") /\ Started' = Started /\ \A j : Due(j)' = Due(j)
    BY <2>1 DEF Pending, Started, Due
  <2> QED
    BY <2>1, <2>2 DEF EndInv
<1>2. CASE Next
  <2>1. PICK e \in calendar : Arrive(e) \/ Request(e) \/ Acquire(e) \/ Finish(e) \/ Release(e)
    BY <1>2 DEF Next
  <2>2. /\ now' = e.at /\ e.at \in Nat /\ e.at >= now
        /\ arrival' = arrival /\ true' = true
        /\ \A f \in calendar : e.at <= f.at
    BY <2>1, StepTakesFirst DEF experiment
  <2>3. /\ now \in Nat
        /\ \A j \in Jobs : start[j] \in Int /\ true[j] \in Nat /\ arrival[j] \in Nat /\ Due(j) \in Int
        /\ waiting \subseteq Jobs /\ running \subseteq Started /\ Started \subseteq Jobs
    BY TimesAre
  <2>4. ASSUME start' = start
        PROVE  Started' = Started /\ \A j : Due(j)' = Due(j)
    BY <2>2, <2>4 DEF Started, Due
  <2>5. CASE Arrive(e)
    <3>1. /\ e.job \in Jobs /\ e.at = arrival[e.job] /\ e.job \notin Started
          /\ waiting' = waiting \cup {e.job}
          /\ running' = running /\ start' = start /\ end' = end
          /\ Pending("finish")' = Pending("finish")
      BY <2>5, ArriveDoes
    <3> QED
      BY <2>2, <2>3, <2>4, <3>1 DEF EndInv
  <2>6. CASE Request(e) \/ Release(e)
    <3>1. /\ waiting' = waiting /\ running' = running /\ start' = start /\ end' = end
          /\ Pending("finish")' = Pending("finish")
      BY <2>6, TriggerDoes
    <3> QED
      BY <2>2, <2>3, <2>4, <3>1 DEF EndInv
  <2>7. CASE Acquire(e)
    <3>1. e.at = now
      BY <2>7, AcquireDoes
    <3>2. PICK j \in Select, q \in Pending("finish")' :
             /\ j \in waiting /\ j \in Jobs /\ j \notin Started
             /\ waiting' = waiting \ {j} /\ running' = running \cup {j} /\ end' = end
             /\ start'[j] = now /\ \A k \in Jobs \ {j} : start'[k] = start[k]
             /\ start' \in [Jobs -> Int]
             /\ q.at = now + true[j] /\ q.job = j
             /\ Pending("finish")' = Pending("finish") \cup {q}
      BY <2>7, AcquireDoes
    <3>3. /\ Started' = Started \cup {j} /\ Due(j)' = now + true[j]
          /\ \A k \in Jobs \ {j} : Due(k)' = Due(k)
      BY <2>2, <2>3, <3>2 DEF Started, Due
    <3>4. \A f \in Pending("finish")' : f.at = Due(f.job)'
      <4>1. \A f \in Pending("finish") : f.at = Due(f.job) /\ f.job \in Jobs /\ f.job \in Started
        BY <2>3 DEF EndInv, SimInv, PlaceInv
      <4>2. \A f \in Pending("finish") : f.at = Due(f.job)'
        BY <3>2, <3>3, <4>1
      <4>3. q.at = Due(q.job)'
        BY <3>2, <3>3
      <4> QED
        BY <3>2, <4>2, <4>3
    <3>5. \A k \in running' : \E f \in Pending("finish")' : f.job = k
      BY <3>2 DEF EndInv
    <3>6. \A k \in Started' \ running' : end'[k] = Due(k)' /\ Due(k)' <= now'
      BY <2>2, <2>3, <3>1, <3>2, <3>3 DEF EndInv
    <3>7. \A k \in Started' : start'[k] >= arrival'[k]
      BY <2>2, <2>3, <3>2, <3>3 DEF EndInv
    <3>8. \A k \in waiting' : arrival'[k] <= now'
      BY <2>2, <3>1, <3>2 DEF EndInv
    <3> QED
      BY <3>4, <3>5, <3>6, <3>7, <3>8 DEF EndInv
  <2>8. CASE Finish(e)
    <3>1. /\ e \in Pending("finish") /\ e.job \in Jobs /\ e.job \in running
          /\ running' = running \ {e.job} /\ waiting' = waiting /\ start' = start
          /\ end'[e.job] = e.at /\ \A k \in Jobs \ {e.job} : end'[k] = end[k]
          /\ Pending("finish")' = Pending("finish") \ {e}
      BY <2>8, FinishDoes
    <3>2. e.at = Due(e.job)
      BY <3>1 DEF EndInv
    <3>3. \A k \in running' : \E f \in Pending("finish")' : f.job = k
      <4>1. ASSUME NEW k \in running, k # e.job PROVE \E f \in Pending("finish") \ {e} : f.job = k
        BY <4>1 DEF EndInv
      <4> QED
        BY <3>1, <4>1
    <3>4. \A k \in Started \ running' : end'[k] = Due(k) /\ Due(k) <= now'
      BY <2>2, <2>3, <3>1, <3>2 DEF EndInv
    <3> QED
      BY <2>2, <2>3, <2>4, <3>1, <3>3, <3>4 DEF EndInv
  <2> QED
    BY <2>1, <2>5, <2>6, <2>7, <2>8
<1> QED
  BY <1>1, <1>2

-----------------------------------------------------------------------------
(* One worker *)

\* With one worker that is free and jobs that wait, either the last job has just
\* ended or all of them have just arrived.
IdleInv ==
    capacity = 1 /\ running = {} /\ waiting # {} =>
        (\E j \in Started : Due(j) = now) \/ \A w \in waiting : arrival[w] = now

\* Both hold before the first arrival.
LEMMA InitEnds == Init => EndInv /\ IdleInv
<1> SUFFICES ASSUME Init PROVE EndInv /\ IdleInv
  OBVIOUS
<1>1. Started = {} /\ waiting = {} /\ running = {}
  BY DEF Init, Started
<1>2. Pending("finish") = {}
  <2>1. Event(arrival[1], 0, "arrive", 1).kind = "arrive"
    BY DEF Event
  <2> QED
    BY <2>1 DEF Init, Pending
<1> QED
  BY <1>1, <1>2 DEF EndInv, IdleInv

\* A worker that is free has had no time to be idle.
LEMMA StepIdles ==
    ASSUME SimInv, EndInv, IdleInv, [Next]_vars
    PROVE  IdleInv'
<1>1. CASE UNCHANGED vars
  <2>1. /\ UNCHANGED <<arrival, true, capacity, now, waiting, running, start>>
    BY <1>1 DEF vars, experiment
  <2>2. Started' = Started /\ \A j : Due(j)' = Due(j)
    BY <2>1 DEF Started, Due
  <2> QED
    BY <2>1, <2>2 DEF IdleInv
<1>2. CASE Next
  <2>1. PICK e \in calendar : Arrive(e) \/ Request(e) \/ Acquire(e) \/ Finish(e) \/ Release(e)
    BY <1>2 DEF Next
  <2>2. /\ now' = e.at /\ e.at \in Nat /\ e.at >= now /\ now \in Nat
        /\ arrival' = arrival /\ true' = true /\ capacity' = capacity
    BY <2>1, StepTakesFirst, TimesAre DEF experiment
  <2>3. start' = start => Started' = Started /\ \A j : Due(j)' = Due(j)
    BY <2>2 DEF Started, Due
  <2>4. ASSUME capacity = 1, running = {}, waiting # {} PROVE now' = now
    <3>1. Cardinality(running) # capacity
      BY <2>4, FS_EmptySet
    <3>2. ~(now' > now)
      BY <1>2, <2>4, <3>1, StepConserves DEF WorkConserved
    <3> QED
      BY <2>2, <3>2
  <2> SUFFICES ASSUME capacity = 1, running' = {}, waiting' # {}
               PROVE  (\E j \in Started' : Due(j)' = now') \/ \A w \in waiting' : arrival'[w] = now'
    BY <2>2 DEF IdleInv
  <2>5. CASE Arrive(e)
    <3>1. /\ e.at = arrival[e.job] /\ waiting' = waiting \cup {e.job}
          /\ running' = running /\ start' = start
      BY <2>5, ArriveDoes
    <3>2. CASE waiting = {}
      BY <2>2, <3>1, <3>2
    <3>3. CASE waiting # {}
      BY <2>2, <2>3, <2>4, <3>1, <3>3 DEF IdleInv
    <3> QED
      BY <3>2, <3>3
  <2>6. CASE Request(e) \/ Release(e)
    <3>1. waiting' = waiting /\ running' = running /\ start' = start
      BY <2>6, TriggerDoes
    <3> QED
      BY <2>2, <2>3, <2>4, <3>1 DEF IdleInv
  <2>7. CASE Acquire(e)
    BY <2>7, AcquireDoes
  <2>8. CASE Finish(e)
    <3>1. /\ e \in Pending("finish") /\ e.job \in running /\ start' = start
      BY <2>8, FinishDoes
    <3>2. e.at = Due(e.job) /\ e.job \in Started
      BY <3>1, TimesAre DEF EndInv
    <3> QED
      BY <2>2, <2>3, <3>1, <3>2
  <2> QED
    BY <2>1, <2>5, <2>6, <2>7, <2>8
<1> QED
  BY <1>1, <1>2

\* The work of the jobs of S from i on.
Work(S, i, d) == Over(N, S \cap (i..N), d)

\* It is a number, and one job more adds its own.
LEMMA WorkIs ==
    ASSUME NEW S, NEW i, NEW d \in [Jobs -> Nat]
    PROVE  Work(S, i, d) \in Int /\ (S \cap (i..N) = {} => Work(S, i, d) = 0)
<1>1. d \in [1..N -> Int] /\ N \in Nat
  BY SimulatorAssumption DEF Jobs
<1>2. Work(S, i, d) \in Int
  BY <1>1, OverIs DEF Work
<1>3. Over(N, {}, d) = 0
  BY <1>1, OverNone
<1> QED
  BY <1>2, <1>3 DEF Work

LEMMA WorkAdded ==
    ASSUME NEW S, NEW i \in Jobs, NEW j \in Jobs, j \notin S, NEW d \in [Jobs -> Nat]
    PROVE  Work(S \cup {j}, i, d) = Work(S, i, d) + (IF i <= j THEN d[j] ELSE 0)
<1>1. d \in [1..N -> Int] /\ N \in Nat /\ j \in 1..N
  BY SimulatorAssumption DEF Jobs
<1>2. CASE i <= j
  <2>1. (S \cup {j}) \cap (i..N) = (S \cap (i..N)) \cup {j} /\ j \notin S \cap (i..N)
    BY <1>2 DEF Jobs
  <2>2. \A T : \A x \in 1..N : x \notin T => Over(N, T \cup {x}, d) = Over(N, T, d) + d[x]
    BY <1>1, OverAdd
  <2> QED
    BY <1>1, <1>2, <2>1, <2>2 DEF Work
<1>3. CASE ~(i <= j)
  <2>1. (S \cup {j}) \cap (i..N) = S \cap (i..N)
    BY <1>3 DEF Jobs
  <2>2. Work(S \cup {j}, i, d) = Work(S, i, d) /\ Work(S, i, d) \in Int
    BY <2>1, WorkIs DEF Work
  <2> QED
    BY <1>3, <2>2
<1> QED
  BY <1>2, <1>3

\* One worker is never idle while a job waits: the started jobs have been done at
\* L, which is when those from some b on take turns from b's arrival, and no
\* sooner than those from any i on could be done.
Packed(L) ==
    /\ \A j \in Started : Due(j) <= L
    /\ Started # {} =>
         /\ \E j \in Started : Due(j) = L
         /\ \E b \in Jobs : /\ \A i \in Jobs : i < b => i \in Started
                            /\ Started \cap (b..N) # {}
                            /\ L = arrival[b] + Work(Started, b, true)
    /\ \A i \in Jobs : Started \cap (i..N) # {} => L >= arrival[i] + Work(Started, i, true)

PackedInv == capacity = 1 => \E L \in Nat : Packed(L)

\* Who came before a job that has arrived has arrived.
LEMMA ArrivedBefore ==
    ASSUME SimInv, NEW j \in Jobs, Arrived(j), NEW i \in Jobs, i <= j
    PROVE  Arrived(i)
<1>1. CASE Pending("arrive") = {}
  BY <1>1 DEF SimInv, ArrivalInv
<1>2. CASE Pending("arrive") # {}
  <2>1. PICK f \in Pending("arrive") : TRUE
    BY <1>2
  <2>2. f.job \in Jobs /\ \A k \in Jobs : Arrived(k) <=> k < f.job
    BY <2>1 DEF Pending, SimInv, ArrivalInv, TypeOK, Events
  <2> HIDE DEF Arrived
  <2> QED
    BY <2>2 DEF Jobs
<1> QED
  BY <1>1, <1>2

\* The job that one worker starts next.
LEMMA AcquirePacks ==
    ASSUME SimInv, EndInv, IdleInv, capacity = 1, NEW L \in Nat, Packed(L),
           NEW e \in calendar, Acquire(e), NEW j \in Jobs, j \in waiting,
           Started' = Started \cup {j}, Due(j)' = now + true[j],
           \A k \in Jobs \ {j} : Due(k)' = Due(k)
    PROVE  /\ \A k \in Started : Due(k) <= now
           /\ Packed(now + true[j])'
<1>1. /\ now \in Nat
      /\ true \in [Jobs -> Nat] /\ arrival \in [Jobs -> Nat]
      /\ \A k \in Jobs : true[k] \in Nat /\ true[k] > 0 /\ arrival[k] \in Nat /\ start[k] \in Int
      /\ \A k \in Jobs : Due(k) \in Int
      /\ Started \subseteq Jobs /\ j \notin Started
  BY TimesAre
<1>2. e.at = now /\ running = {}
  BY AcquireDoes
<1>3. now' = now /\ arrival' = arrival /\ true' = true
  BY <1>2, StepTakesFirst DEF experiment
<1>4. \A k \in Started : Due(k) <= now
  BY <1>2 DEF EndInv
<1>5. Started # {} => L <= now
  BY <1>4 DEF Packed
<1>6. arrival[j] <= now
  BY DEF EndInv
<1>7. \A i \in Jobs : i <= j => i \in Started \/ i \in waiting
  <2>1. Arrived(j)
    BY DEF Arrived
  <2> QED
    BY <2>1, ArrivedBefore DEF Arrived, Started
<1>8. \A i \in Jobs : /\ Work(Started, i, true) \in Int
                      /\ Work(Started', i, true') = Work(Started, i, true) + (IF i <= j THEN true[j] ELSE 0)
  BY <1>1, <1>3, WorkIs, WorkAdded
<1> DEFINE M == now + true[j]
<1>9. M \in Nat /\ M > now /\ M' = M
  BY <1>1, <1>3
<1>10. \A k \in Started' : Due(k)' <= M
  BY <1>1, <1>4, <1>9
<1>11. \E k \in Started' : Due(k)' = M
  OBVIOUS
<1>12. \E b \in Jobs : /\ \A i \in Jobs : i < b => i \in Started'
                       /\ Started' \cap (b..N) # {}
                       /\ M = arrival[b] + Work(Started', b, true')
  <2>1. CASE \E k \in Started : Due(k) = now
    <3>1. L = now /\ Started # {}
      BY <1>1, <1>5, <2>1 DEF Packed
    <3>2. PICK b \in Jobs : /\ \A i \in Jobs : i < b => i \in Started
                            /\ Started \cap (b..N) # {}
                            /\ L = arrival[b] + Work(Started, b, true)
      BY <3>1 DEF Packed
    <3>3. b <= j
      BY <1>1, <3>2 DEF Jobs
    <3>4. Work(Started', b, true') = Work(Started, b, true) + true[j] /\ Work(Started, b, true) \in Int
      BY <1>8, <3>3
    <3>5. M = arrival[b] + Work(Started', b, true')
      BY <1>1, <3>1, <3>2, <3>4
    <3> QED
      BY <3>2, <3>5
  <2>2. CASE \A w \in waiting : arrival[w] = now
    <3>1. PICK b \in Jobs \ Started : \A i \in Jobs \ Started : b <= i
      <4>1. Jobs \ Started \in SUBSET Nat /\ Jobs \ Started # {}
        BY <1>1 DEF Jobs
      <4> HIDE DEF Started
      <4> QED
        BY <4>1, LeastNatural
    <3>2. b <= j /\ b \in waiting /\ arrival[b] = now
      BY <1>1, <1>7, <2>2, <3>1
    <3>3. \A i \in Jobs : i < b => i \in Started
      BY <3>1 DEF Jobs
    <3>4. Started \cap (b..N) = {}
      <4> SUFFICES ASSUME NEW k \in Started, k \in b..N PROVE FALSE
        OBVIOUS
      <4>1. k \in Jobs /\ b <= k
        BY <1>1 DEF Jobs
      <4>2. arrival[b] <= arrival[k]
        BY <3>1, <4>1 DEF SimInv, ArrivalsAreSorted
      <4>3. start[k] >= arrival[k] /\ Due(k) <= now
        BY <1>4 DEF EndInv
      <4>4. Due(k) = start[k] + true[k]
        BY DEF Due
      <4> QED
        BY <1>1, <3>2, <4>1, <4>2, <4>3, <4>4
    <3>5. Work(Started, b, true) = 0
      BY <1>1, <3>4, WorkIs
    <3>6. Work(Started', b, true') = true[j]
      BY <1>1, <1>8, <3>1, <3>2, <3>5
    <3>7. j \in b..N
      BY <3>2 DEF Jobs
    <3> QED
      BY <3>1, <3>2, <3>3, <3>6, <3>7
  <2> QED
    BY <1>2, <2>1, <2>2 DEF IdleInv
<1>13. ASSUME NEW i \in Jobs, Started' \cap (i..N) # {}
       PROVE  M >= arrival[i] + Work(Started', i, true')
  <2>1. CASE Started \cap (i..N) # {}
    <3>1. L >= arrival[i] + Work(Started, i, true) /\ L <= now
      BY <1>5, <2>1 DEF Packed
    <3>2. /\ Work(Started', i, true') = Work(Started, i, true) + (IF i <= j THEN true[j] ELSE 0)
          /\ Work(Started, i, true) \in Int /\ arrival[i] \in Nat
      BY <1>1, <1>8
    <3>3. true[j] \in Nat
      BY <1>1
    <3> QED
      BY <1>1, <3>1, <3>2, <3>3
  <2>2. CASE Started \cap (i..N) = {}
    <3>1. i <= j
      BY <1>13, <2>2 DEF Jobs
    <3>2. Work(Started', i, true') = true[j]
      BY <1>1, <1>8, <2>2, <3>1, WorkIs
    <3>3. arrival[i] <= arrival[j]
      BY <3>1 DEF SimInv, ArrivalsAreSorted
    <3>4. arrival[i] \in Nat /\ arrival[j] \in Nat /\ true[j] \in Nat
      BY <1>1
    <3> QED
      BY <1>1, <1>6, <3>2, <3>3, <3>4
  <2> QED
    BY <2>1, <2>2
<1> HIDE DEF M
<1>14. Packed(M)'
  BY <1>3, <1>9, <1>10, <1>11, <1>12, <1>13 DEF Packed
<1> QED
  BY <1>4, <1>14 DEF M

\* Sums over the same values.
LEMMA OverSame ==
    ASSUME NEW n \in Nat, NEW T, NEW d, NEW f, \A k \in (1..n) \cap T : d[k] = f[k]
    PROVE  Over(n, T, d) = Over(n, T, f)
<1>1. [k \in 1..n |-> IF k \in T THEN d[k] ELSE 0] = [k \in 1..n |-> IF k \in T THEN f[k] ELSE 0]
  OBVIOUS
<1> QED
  BY <1>1 DEF Over

\* Jobs that are done in one go from the arrival of b, and none of which is longer
\* than an earlier job that has not been done, are not done later than as many are
\* in the order of arrival.
LEMMA ShortestFirst ==
    ASSUME NEW S \in SUBSET Jobs, NEW a \in [Jobs -> Nat], NEW d \in [Jobs -> Nat],
           NEW b \in Jobs, \A i \in Jobs : i < b => i \in S, S \cap (b..N) # {},
           \A y \in S : \A u \in Jobs \ S : u < y => d[y] <= d[u]
    PROVE  /\ Cardinality(S) \in Jobs
           /\ a[b] + Work(S, b, d) <= Lindley(a, d)[Cardinality(S)]
<1> DEFINE c == Cardinality(S)
           R == S \cap (b..N)
           T == b..c
<1>1. N \in Nat /\ b \in Nat /\ b >= 1 /\ b <= N
  BY SimulatorAssumption DEF Jobs
<1>2. /\ IsFiniteSet(S) /\ c \in Nat /\ IsFiniteSet(R) /\ Cardinality(R) \in Nat
      /\ Cardinality(R) # 0 /\ Cardinality(Jobs) = N /\ c <= N
  <2>1. IsFiniteSet(S) /\ c \in Nat /\ IsFiniteSet(R) /\ Cardinality(R) \in Nat
    BY JobsFinite
  <2>2. Cardinality(R) # 0
    BY <2>1, FS_EmptySet
  <2>3. IsFiniteSet(Jobs) /\ Cardinality(Jobs) = N
    <3>1. 1 \in Int /\ N \in Int /\ ~(1 > N) /\ N - 1 + 1 = N
      BY SimulatorAssumption
    <3>2. IsFiniteSet(1..N) /\ Cardinality(1..N) = N - 1 + 1
      BY <3>1, FS_Interval
    <3> QED
      BY <3>1, <3>2 DEF Jobs
  <2>4. c <= N
    BY <2>3, FS_Subset
  <2> QED
    BY <2>1, <2>2, <2>3, <2>4
<1>3. c = (b - 1) + Cardinality(R)
  <2>1. S = (1..(b - 1)) \cup R /\ (1..(b - 1)) \cap R = {}
    <3>1. ASSUME NEW i \in S PROVE i \in 1..(b - 1) \/ i \in R
      BY <1>1 DEF Jobs
    <3>2. ASSUME NEW i \in 1..(b - 1) PROVE i \in S /\ i \notin R
      <4>1. i \in Jobs /\ i < b
        BY <1>1 DEF Jobs
      <4> QED
        BY <1>1, <4>1
    <3>3. R \subseteq S
      OBVIOUS
    <3> QED
      BY <3>1, <3>2, <3>3
  <2>2. IsFiniteSet(1..(b - 1)) /\ Cardinality(1..(b - 1)) = b - 1
    <3>1. 1 \in Int /\ b - 1 \in Int /\ (1 > b - 1 => b - 1 = 0) /\ (b - 1) - 1 + 1 = b - 1
      BY <1>1
    <3>2. IsFiniteSet(1..(b - 1)) /\ Cardinality(1..(b - 1)) = IF 1 > b - 1 THEN 0 ELSE (b - 1) - 1 + 1
      BY <3>1, FS_Interval
    <3> QED
      BY <3>1, <3>2
  <2> HIDE DEF R
  <2>3. Cardinality((1..(b - 1)) \cup R) =
           Cardinality(1..(b - 1)) + Cardinality(R) - Cardinality((1..(b - 1)) \cap R)
    BY <1>2, <2>2, FS_Union
  <2>4. Cardinality((1..(b - 1)) \cap R) = 0
    BY <2>1, FS_EmptySet
  <2> QED
    BY <1>1, <1>2, <2>1, <2>2, <2>3, <2>4
<1> HIDE DEF c
<1>4. c \in Jobs /\ b <= c
  <2> HIDE DEF R
  <2>1. c >= b /\ c >= 1 /\ c <= N
    BY <1>1, <1>2, <1>3
  <2> QED
    BY <1>1, <1>2, <2>1 DEF Jobs
<1>5. Cardinality(T) = Cardinality(R)
  <2>1. b \in Int /\ c \in Int /\ ~(b > c)
    BY <1>1, <1>2, <1>4
  <2>2. Cardinality(T) = c - b + 1
    BY <2>1, FS_Interval
  <2> QED
    BY <1>1, <1>2, <1>3, <2>2
<1>6. Over(N, R, d) <= Over(N, T, d)
  <2>1. R \in SUBSET (1..N) /\ T \in SUBSET (1..N) /\ d \in [1..N -> Nat]
    BY <1>1, <1>2 DEF Jobs
  <2>2. \A y \in R \ T : \A u \in T \ R : d[y] <= d[u]
    <3> SUFFICES ASSUME NEW y \in R \ T, NEW u \in T \ R PROVE d[y] <= d[u]
      OBVIOUS
    <3>1. y \in S /\ u \in Jobs \ S /\ u < y
      BY <1>1, <1>2 DEF Jobs
    <3> QED
      BY <3>1
  <2> HIDE DEF R, T
  <2> QED
    BY <1>1, <1>5, <2>1, <2>2, Exchange
<1>7. Lindley(a, d)[c] >= a[b] + Over(N, T, d)
  <2>1. b \in 1..c
    BY <1>1, <1>2, <1>4
  <2> QED
    BY <1>4, <2>1, LindleyBusy
<1>8. /\ Over(N, R, d) \in Int /\ Over(N, T, d) \in Int /\ a[b] \in Nat
      /\ Lindley(a, d)[c] \in Nat
  <2>1. d \in [1..N -> Int]
    BY DEF Jobs
  <2>2. c \in 0..N
    BY <1>1, <1>2
  <2>3. Lindley(a, d) \in [0..N -> Nat]
    BY LindleyIs
  <2> QED
    BY <1>1, <2>1, <2>2, <2>3, OverIs
<1>9. Work(S, b, d) = Over(N, R, d)
  BY DEF Work
<1> HIDE DEF R, T
<1> QED
  BY <1>4, <1>6, <1>7, <1>8, <1>9 DEF c

\* A started job, and what the others keep.
LEMMA AcquireStarts ==
    ASSUME SimInv, NEW e \in calendar, Acquire(e)
    PROVE  /\ now' = now /\ UNCHANGED experiment
           /\ \E j \in Select :
                /\ j \in Jobs /\ j \in waiting /\ j \notin Started
                /\ Started' = Started \cup {j} /\ Due(j)' = now + true[j]
                /\ \A k \in Jobs \ {j} : Due(k)' = Due(k)
<1>1. e.at = now
  BY AcquireDoes
<1>2. now' = e.at /\ UNCHANGED experiment
  BY StepTakesFirst
<1>3. PICK j \in Select :
         /\ j \in waiting /\ j \in Jobs /\ j \notin Started
         /\ start'[j] = now /\ \A k \in Jobs \ {j} : start'[k] = start[k]
  BY AcquireDoes
<1>4. now \in Nat /\ true' = true
  BY <1>2, TimesAre DEF experiment
<1>5. Started' = Started \cup {j} /\ Due(j)' = now + true[j] /\ \A k \in Jobs \ {j} : Due(k)' = Due(k)
  BY <1>3, <1>4 DEF Started, Due
<1> QED
  BY <1>1, <1>2, <1>3, <1>5

\* In the order of arrival jobs start in their order and end as the textbook says.
FcfsInv ==
    capacity = 1 /\ policy = "fcfs" =>
        \A j \in Started : /\ \A i \in Jobs : i < j => i \in Started
                           /\ Due(j) = Lindley(arrival, true)[j]

Dues == [j \in Jobs |-> Due(j)]

\* The shortest first: what has started is no longer than an earlier job that waits,
\* and has not been done later, in sum, than as many jobs in the order of arrival.
SjfInv ==
    capacity = 1 /\ policy = "sjf_oracle" =>
        /\ \A y \in Started : \A u \in Jobs \ Started : u < y => true[y] <= true[u]
        /\ Over(N, Started, Dues) <= Over(N, 1..Cardinality(Started), FcfsEnd)

TheoryInv == PackedInv /\ FcfsInv /\ SjfInv

\* Both are functions of the jobs.
LEMMA FcfsEndIs ==
    ASSUME SimInv
    PROVE  /\ FcfsEnd \in [Jobs -> Nat] /\ \A j \in Jobs : FcfsEnd[j] = Lindley(arrival, true)[j]
           /\ Dues \in [Jobs -> Int]
<1>1. Lindley(arrival, true) \in [0..N -> Nat]
  BY TimesAre, LindleyIs
<1>2. \A j \in Jobs : j \in 0..N
  BY SimulatorAssumption DEF Jobs
<1>3. \A j \in Jobs : Due(j) \in Int
  BY TimesAre
<1> QED
  BY <1>1, <1>2, <1>3 DEF FcfsEnd, Dues

\* Nothing has started.
LEMMA InitTheory == Init => TheoryInv
<1> SUFFICES ASSUME Init PROVE TheoryInv
  OBVIOUS
<1>1. Started = {}
  BY DEF Init, Started
<1>2. Packed(0)
  BY <1>1 DEF Packed
<1>3. SimInv
  BY InitSim
<1>4. Over(N, Started, Dues) = 0 /\ Over(N, 1..Cardinality(Started), FcfsEnd) = 0
  <2>1. Dues \in [1..N -> Int] /\ FcfsEnd \in [1..N -> Int]
    BY <1>3, FcfsEndIs DEF Jobs
  <2>2. Cardinality(Started) = 0 /\ 1..0 = {}
    BY <1>1, FS_EmptySet
  <2>3. N \in Nat
    BY SimulatorAssumption
  <2>4. Over(N, {}, Dues) = 0 /\ Over(N, {}, FcfsEnd) = 0
    BY <2>1, <2>3, OverNone
  <2> QED
    BY <1>1, <2>2, <2>4
<1> QED
  BY <1>1, <1>2, <1>4 DEF TheoryInv, PackedInv, FcfsInv, SjfInv

\* The job that is started in the order of arrival.
LEMMA AcquireFcfs ==
    ASSUME SimInv, EndInv, IdleInv, FcfsInv, capacity = 1, policy = "fcfs",
           running = {}, NEW j \in Select, j \in Jobs, j \in waiting, j \notin Started,
           \A k \in Started : Due(k) <= now
    PROVE  /\ \A i \in Jobs : i < j => i \in Started
           /\ now + true[j] = Lindley(arrival, true)[j]
<1> DEFINE t == Lindley(arrival, true)
           m == j - 1
<1>1. /\ now \in Nat /\ N \in Nat
      /\ true \in [Jobs -> Nat] /\ arrival \in [Jobs -> Nat]
      /\ \A k \in Jobs : true[k] \in Nat /\ arrival[k] \in Nat
      /\ Started \subseteq Jobs
  BY TimesAre, SimulatorAssumption
<1>2. ASSUME NEW i \in Jobs, i < j PROVE i \in Started
  <2>1. Arrived(i)
    BY <1>2, ArrivedBefore DEF Arrived, Jobs
  <2>2. i \notin waiting
    <3> SUFFICES ASSUME i \in waiting PROVE FALSE
      OBVIOUS
    <3>1. Before(j, i)
      BY <1>2 DEF Select, Jobs
    <3>2. Key(j) = <<arrival[j], 0>> /\ Key(i) = <<arrival[i], 0>>
      BY DEF Key
    <3>3. arrival[i] <= arrival[j]
      BY <1>2 DEF SimInv, ArrivalsAreSorted, Jobs
    <3>4. arrival[i] \in Nat /\ arrival[j] \in Nat
      BY <1>1
    <3> QED
      BY <1>2, <3>1, <3>2, <3>3, <3>4 DEF Before, Jobs
  <2> QED
    BY <2>1, <2>2 DEF Arrived, Started
<1>3. /\ m \in Nat /\ m + 1 = j /\ m + 1 <= N
  BY <1>1 DEF Jobs
<1>4. /\ t[m] \in Nat /\ arrival[j] \in Nat /\ true[j] \in Nat
      /\ t[j] = Later(t[m], arrival[j]) + true[j]
  BY <1>1, <1>3, LindleySteps
<1>5. ASSUME NEW k \in Started PROVE k <= m /\ k \in 0..N /\ Due(k) = t[k]
  <2>1. k \in Jobs /\ k # j
    BY <1>1
  <2>2. Due(k) = t[k] /\ ~(j < k)
    BY DEF FcfsInv
  <2> QED
    BY <1>1, <1>3, <2>1, <2>2 DEF Jobs
<1>6. t[m] <= now
  <2>1. CASE m = 0
    <3>1. t[0] = 0
      BY <1>1, LindleyIs
    <3> QED
      BY <1>1, <2>1, <3>1
  <2>2. CASE m # 0
    <3>1. m \in Started
      BY <1>1, <1>2, <1>3, <2>2 DEF Jobs
    <3> QED
      BY <1>5, <3>1
  <2> QED
    BY <2>1, <2>2
<1>7. arrival[j] <= now
  BY DEF EndInv
<1>8. now = t[m] \/ now = arrival[j]
  <2>1. CASE \E k \in Started : Due(k) = now
    <3>1. PICK k \in Started : Due(k) = now
      BY <2>1
    <3>2. k <= m /\ k \in 0..N /\ t[k] = now /\ m \in 0..N
      BY <1>1, <1>3, <1>5, <3>1
    <3>3. t[k] <= t[m]
      BY <1>1, <3>2, LindleyGrows
    <3> HIDE DEF t, m
    <3> QED
      BY <1>1, <1>4, <1>6, <3>2, <3>3
  <2>2. CASE \A w \in waiting : arrival[w] = now
    BY <2>2
  <2> QED
    BY <2>1, <2>2 DEF IdleInv
<1> HIDE DEF t, m
<1>9. now + true[j] = t[j]
  BY <1>1, <1>4, <1>6, <1>7, <1>8 DEF Later
<1> QED
  BY <1>2, <1>9 DEF t

\* The job that is started when the shortest is first.
LEMMA AcquireSjf ==
    ASSUME SimInv, SjfInv, capacity = 1, policy = "sjf_oracle",
           NEW j \in Select, j \in Jobs, j \in waiting, j \notin Started,
           Started' = Started \cup {j}, Due(j)' = now + true[j],
           \A k \in Jobs \ {j} : Due(k)' = Due(k),
           UNCHANGED experiment, now' = now, Packed(now + true[j])'
    PROVE  SjfInv'
<1> DEFINE M == now + true[j]
           c == Cardinality(Started)
<1>1. /\ now \in Nat /\ N \in Nat
      /\ true \in [Jobs -> Nat] /\ arrival \in [Jobs -> Nat]
      /\ \A k \in Jobs : true[k] \in Nat /\ arrival[k] \in Nat /\ Due(k) \in Int
      /\ Started \subseteq Jobs
  BY TimesAre, SimulatorAssumption
<1>2. arrival' = arrival /\ true' = true /\ capacity' = capacity /\ policy' = policy
  BY DEF experiment
<1>3. M \in Nat /\ M' = M
  BY <1>1, <1>2
<1>4. Packed(M)'
  OBVIOUS
<1>5. /\ FcfsEnd \in [Jobs -> Nat] /\ FcfsEnd' = FcfsEnd
      /\ \A k \in Jobs : FcfsEnd[k] = Lindley(arrival, true)[k]
      /\ Dues \in [Jobs -> Int] /\ Dues' \in [Jobs -> Int]
  <2>1. FcfsEnd' = FcfsEnd
    BY <1>2 DEF FcfsEnd
  <2>2. Dues' \in [Jobs -> Int]
    <3>1. \A k \in Jobs : Due(k)' \in Int
      BY <1>1
    <3> QED
      BY <3>1 DEF Dues
  <2> QED
    BY <2>1, <2>2, FcfsEndIs
<1>6. \A y \in Started' : \A u \in Jobs \ Started' : u < y => true[y] <= true[u]
  <2> SUFFICES ASSUME NEW y \in Started', NEW u \in Jobs \ Started', u < y PROVE true[y] <= true[u]
    OBVIOUS
  <2>1. CASE y # j
    BY <2>1 DEF SjfInv
  <2>2. CASE y = j
    <3>1. Arrived(u)
      BY <2>2, ArrivedBefore DEF Arrived, Jobs
    <3>2. u \in waiting \ {j}
      BY <3>1 DEF Arrived, Started
    <3>3. Prefers(j, u)
      BY <3>2, SelectPrefers
    <3> QED
      BY <2>2, <3>3 DEF Prefers
  <2> QED
    BY <2>1, <2>2
<1>7. c \in Nat /\ Cardinality(Started') = c + 1 /\ IsFiniteSet(Started)
  <2>1. IsFiniteSet(Started) /\ c \in Nat
    BY <1>1, JobsFinite
  <2> QED
    BY <2>1, FS_AddElement
<1>8. c + 1 \in Jobs /\ M <= FcfsEnd[c + 1]
  <2> HIDE DEF M
  <2>1. PICK b \in Jobs : /\ \A i \in Jobs : i < b => i \in Started'
                          /\ Started' \cap (b..N) # {}
                          /\ M = arrival[b] + Work(Started', b, true)
    <3>1. Started' # {}
      OBVIOUS
    <3> QED
      BY <1>2, <1>3, <1>4, <3>1 DEF Packed
  <2>2. /\ Cardinality(Started') \in Jobs
        /\ arrival[b] + Work(Started', b, true) <= Lindley(arrival, true)[Cardinality(Started')]
    <3>1. Started' \in SUBSET Jobs
      BY <1>1
    <3> DEFINE S == Started'
    <3> HIDE DEF S
    <3>2. /\ S \in SUBSET Jobs /\ \A i \in Jobs : i < b => i \in S
          /\ S \cap (b..N) # {}
          /\ \A y \in S : \A u \in Jobs \ S : u < y => true[y] <= true[u]
      BY <1>6, <2>1, <3>1 DEF S
    <3>3. /\ Cardinality(S) \in Jobs
          /\ arrival[b] + Work(S, b, true) <= Lindley(arrival, true)[Cardinality(S)]
      BY <1>1, <3>2, ShortestFirst
    <3> QED
      BY <3>3 DEF S
  <2> QED
    BY <1>5, <1>7, <2>1, <2>2
<1>9. Over(N, Started', Dues') = Over(N, Started, Dues) + M
  <2>1. Dues' \in [1..N -> Int] /\ j \in 1..N
    BY <1>5 DEF Jobs
  <2>2. \A T : \A x \in 1..N : x \notin T => Over(N, T \cup {x}, Dues') = Over(N, T, Dues') + Dues'[x]
    BY <1>1, <2>1, OverAdd
  <2>3. Over(N, Started \cup {j}, Dues') = Over(N, Started, Dues') + Dues'[j]
    BY <2>1, <2>2
  <2>4. Dues'[j] = M
    BY DEF Dues
  <2>5. Over(N, Started, Dues') = Over(N, Started, Dues)
    <3>1. \A k \in (1..N) \cap Started : Dues'[k] = Dues[k]
      BY DEF Dues, Jobs
    <3> QED
      BY <1>1, <3>1, OverSame
  <2> QED
    BY <2>3, <2>4, <2>5
<1>10. Over(N, 1..(c + 1), FcfsEnd) = Over(N, 1..c, FcfsEnd) + FcfsEnd[c + 1]
  <2>1. 1 \in Jobs /\ c + 1 <= N /\ 1 <= c + 1
    BY <1>1, <1>7, <1>8 DEF Jobs
  <2> HIDE DEF c
  <2> QED
    BY <1>5, <1>7, <2>1, OverNext
<1>11. Over(N, Started, Dues) <= Over(N, 1..c, FcfsEnd)
  BY DEF SjfInv
<1>12. Over(N, Started, Dues) \in Int /\ Over(N, 1..c, FcfsEnd) \in Int /\ FcfsEnd[c + 1] \in Nat
  <2>1. Dues \in [1..N -> Int] /\ FcfsEnd \in [1..N -> Int]
    BY <1>5 DEF Jobs
  <2>2. FcfsEnd[c + 1] \in Nat
    BY <1>5, <1>8
  <2> QED
    BY <1>1, <2>1, <2>2, OverIs
<1> HIDE DEF M, c
<1>13. Over(N, Started', Dues') <= Over(N, 1..(c + 1), FcfsEnd)
  BY <1>3, <1>8, <1>9, <1>10, <1>11, <1>12
<1> QED
  BY <1>2, <1>5, <1>6, <1>7, <1>13 DEF SjfInv

-----------------------------------------------------------------------------
(* The theory *)

\* Whatever happens, the schedule follows the theory.
LEMMA StepTheory ==
    ASSUME SimInv, EndInv, IdleInv, TheoryInv, [Next]_vars
    PROVE  TheoryInv'
<1>1. CASE start' = start /\ UNCHANGED experiment
  <2>1. /\ UNCHANGED <<arrival, true, capacity, policy>>
        /\ Started' = Started /\ \A j : Due(j)' = Due(j)
    BY <1>1 DEF experiment, Started, Due
  <2>2. Dues' = Dues /\ FcfsEnd' = FcfsEnd
    BY <2>1 DEF Dues, FcfsEnd
  <2>3. \A L : Packed(L) => Packed(L)'
    BY <2>1 DEF Packed
  <2>4. PackedInv'
    BY <2>1, <2>3 DEF TheoryInv, PackedInv
  <2>5. FcfsInv' /\ SjfInv'
    BY <2>1, <2>2 DEF TheoryInv, FcfsInv, SjfInv
  <2> QED
    BY <2>4, <2>5 DEF TheoryInv
<1>2. ASSUME NEW e \in calendar, Acquire(e) PROVE TheoryInv'
  <2>1. now' = now /\ UNCHANGED experiment
    BY <1>2, AcquireStarts
  <2>2. PICK j \in Select :
           /\ j \in Jobs /\ j \in waiting /\ j \notin Started
           /\ Started' = Started \cup {j} /\ Due(j)' = now + true[j]
           /\ \A k \in Jobs \ {j} : Due(k)' = Due(k)
    BY <1>2, AcquireStarts
  <2>3. /\ arrival' = arrival /\ true' = true /\ capacity' = capacity /\ policy' = policy
        /\ now \in Nat /\ true[j] \in Nat /\ Started \subseteq Jobs
    BY <2>1, <2>2, TimesAre DEF experiment
  <2>4. CASE capacity = 1
    <3>1. PICK L \in Nat : Packed(L)
      BY <2>4 DEF TheoryInv, PackedInv
    <3>2. /\ \A k \in Started : Due(k) <= now
          /\ Packed(now + true[j])'
      BY <1>2, <2>2, <2>4, <3>1, AcquirePacks
    <3>3. running = {}
      BY <1>2, <2>4, AcquireDoes
    <3>4. PackedInv'
      <4> DEFINE M == now + true[j]
      <4>1. M \in Nat /\ M' = M
        BY <2>1, <2>3
      <4>2. Packed(M)'
        BY <3>2
      <4> HIDE DEF M
      <4> QED
        BY <4>1, <4>2 DEF PackedInv, Packed
    <3>5. FcfsInv'
      <4> SUFFICES ASSUME policy = "fcfs" PROVE FcfsInv'
        BY <2>3 DEF FcfsInv
      <4>1. /\ \A i \in Jobs : i < j => i \in Started
            /\ now + true[j] = Lindley(arrival, true)[j]
        BY <2>2, <2>4, <3>2, <3>3, AcquireFcfs DEF TheoryInv
      <4>2. \A k \in Started : /\ \A i \in Jobs : i < k => i \in Started
                               /\ Due(k) = Lindley(arrival, true)[k]
        BY <2>4 DEF TheoryInv, FcfsInv
      <4>3. Lindley(arrival', true') = Lindley(arrival, true)
        BY <2>3
      <4>4. ASSUME NEW k \in Started'
            PROVE  /\ \A i \in Jobs : i < k => i \in Started'
                   /\ Due(k)' = Lindley(arrival', true')[k]
        <5>1. CASE k = j
          BY <2>2, <4>1, <4>3, <5>1
        <5>2. CASE k # j
          <6>1. k \in Started /\ k \in Jobs \ {j}
            BY <2>2, <2>3, <5>2
          <6> QED
            BY <2>2, <4>2, <4>3, <6>1
        <5> QED
          BY <5>1, <5>2
      <4> QED
        BY <4>4 DEF FcfsInv
    <3>6. SjfInv'
      <4> SUFFICES ASSUME policy = "sjf_oracle" PROVE SjfInv'
        BY <2>3 DEF SjfInv
      <4> QED
        BY <2>1, <2>2, <2>4, <3>2, AcquireSjf DEF TheoryInv
    <3> QED
      BY <3>4, <3>5, <3>6 DEF TheoryInv
  <2>5. CASE capacity # 1
    BY <2>3, <2>5 DEF TheoryInv, PackedInv, FcfsInv, SjfInv
  <2> QED
    BY <2>4, <2>5
<1>3. CASE Next
  <2>1. PICK e \in calendar : Arrive(e) \/ Request(e) \/ Acquire(e) \/ Finish(e) \/ Release(e)
    BY <1>3 DEF Next
  <2> QED
    BY <1>1, <1>2, <2>1, StepTakesFirst
<1>4. CASE UNCHANGED vars
  BY <1>1, <1>4 DEF vars
<1> QED
  BY <1>3, <1>4

\* The inductive invariant of a run.
RunInv == SimInv /\ EndInv /\ IdleInv /\ TheoryInv

\* It holds of every state of every run.
LEMMA RunInvHolds == Spec => []RunInv
<1>1. Init => RunInv
  BY InitSim, InitEnds, InitTheory DEF RunInv
<1>2. RunInv /\ [Next]_vars => RunInv'
  BY StepSim, StepEnds, StepIdles, StepTheory DEF RunInv
<1> QED
  BY <1>1, <1>2, PTL DEF Spec

\* When no event is left every job has ended.
LEMMA RunEnds ==
    ASSUME SimInv, EndInv, calendar = {}
    PROVE  /\ Started = Jobs /\ end = Dues
           /\ \A j \in Jobs : end[j] = Due(j) /\ end[j] - arrival[j] \in Nat
<1>1. \A kind : Pending(kind) = {}
  BY DEF Pending
<1>2. running = {}
  BY <1>1 DEF EndInv
<1>3. users = 0
  BY <1>1, <1>2, FS_EmptySet DEF SimInv, SelectHasChoice
<1>4. queued = 0
  <2>1. capacity \in Nat \ {0} /\ queued \in Nat
    BY SimulatorAssumption DEF SimInv, TypeOK
  <2>2. queued > 0 => capacity - 0 <= 0
    BY <1>1, <1>3, FS_EmptySet DEF SimInv, SlotsAreOffered
  <2> QED
    BY <2>1, <2>2
<1>5. waiting = {}
  <2>1. Cardinality(waiting) = 0
    BY <1>1, <1>4, FS_EmptySet DEF SimInv, SelectHasChoice
  <2> QED
    BY <2>1, Counts, FS_EmptySet
<1>6. Started = Jobs
  BY <1>1, <1>5 DEF SimInv, ArrivalInv, Arrived, Started
<1>7. \A j \in Jobs : end[j] = Due(j) /\ start[j] >= arrival[j]
  BY <1>2, <1>6 DEF EndInv
<1>8. end = Dues
  <2>1. end \in [Jobs -> Int]
    BY TimesAre
  <2> QED
    BY <1>7, <2>1 DEF Dues
<1>9. \A j \in Jobs : Due(j) - arrival[j] \in Nat
  BY <1>7, TimesAre DEF Due
<1> QED
  BY <1>6, <1>7, <1>8, <1>9

\* The theory of the schedule when it is complete.
LEMMA TheoryIsMatched == RunInv => MatchesTheory
<1> SUFFICES ASSUME SimInv, EndInv, TheoryInv, calendar = {} PROVE MatchesTheory
  BY DEF RunInv, MatchesTheory
<1>1. /\ Started = Jobs /\ end = Dues
      /\ \A j \in Jobs : end[j] = Due(j) /\ end[j] - arrival[j] \in Nat
  BY RunEnds
<1>2. /\ N \in Nat \ {0} /\ N \in Jobs /\ Jobs = 1..N
      /\ true \in [Jobs -> Nat] /\ arrival \in [Jobs -> Nat]
  BY TimesAre, SimulatorAssumption DEF Jobs
<1>3. /\ FcfsEnd \in [Jobs -> Nat] /\ \A j \in Jobs : FcfsEnd[j] = Lindley(arrival, true)[j]
      /\ Dues \in [Jobs -> Int]
  BY FcfsEndIs
<1>4. ASSUME capacity = 1, policy = "fcfs", NEW j \in Jobs PROVE end[j] = FcfsEnd[j]
  BY <1>1, <1>3, <1>4 DEF TheoryInv, FcfsInv
<1>5. ASSUME capacity = 1
      PROVE  \E j \in Jobs : end[j] = FcfsEnd[N] /\ \A i \in Jobs : end[i] <= end[j]
  <2>1. PICK L \in Nat : Packed(L)
    BY <1>5 DEF TheoryInv, PackedInv
  <2>2. /\ \A i \in Jobs : end[i] <= L
        /\ \E j \in Jobs : end[j] = L
        /\ \E b \in Jobs : L = arrival[b] + Work(Jobs, b, true)
        /\ \A i \in Jobs : Jobs \cap (i..N) # {} => L >= arrival[i] + Work(Jobs, i, true)
    BY <1>1, <1>2, <2>1 DEF Packed
  <2>3. ASSUME NEW i \in Jobs
        PROVE  /\ Jobs \cap (i..N) # {} /\ Work(Jobs, i, true) = Over(N, i..N, true)
               /\ Over(N, i..N, true) \in Int /\ arrival[i] \in Nat
    <3>1. Jobs \cap (i..N) = i..N /\ i \in i..N
      BY <1>2
    <3> QED
      BY <1>2, <3>1, WorkIs DEF Work
  <2>4. /\ \A i \in 1..N : FcfsEnd[N] >= arrival[i] + Over(N, i..N, true)
        /\ \E i \in 1..N : FcfsEnd[N] = arrival[i] + Over(N, i..N, true)
    <3>1. /\ \A i \in 1..N : Lindley(arrival, true)[N] >= arrival[i] + Over(N, i..N, true)
          /\ \E i \in 1..N : Lindley(arrival, true)[N] = arrival[i] + Over(N, i..N, true)
      BY <1>2, LindleyBusy
    <3>2. FcfsEnd[N] = Lindley(arrival, true)[N]
      BY <1>2, <1>3
    <3> QED
      BY <3>1, <3>2
  <2>5. FcfsEnd[N] >= L
    BY <1>2, <2>2, <2>3, <2>4
  <2>6. FcfsEnd[N] <= L
    BY <1>2, <2>2, <2>3, <2>4
  <2>7. FcfsEnd[N] = L
    BY <1>2, <1>3, <2>5, <2>6
  <2> QED
    BY <2>2, <2>7
<1>6. ASSUME capacity = 1, policy = "sjf_oracle" PROVE Sum(end) <= Sum(FcfsEnd)
  <2>1. Over(N, Started, Dues) <= Over(N, 1..Cardinality(Started), FcfsEnd)
    BY <1>6 DEF TheoryInv, SjfInv
  <2>2. Cardinality(Started) = N
    <3>1. 1 \in Int /\ N \in Int /\ ~(1 > N) /\ N - 1 + 1 = N
      BY <1>2
    <3>2. Cardinality(1..N) = N - 1 + 1
      BY <3>1, FS_Interval
    <3> QED
      BY <1>1, <1>2, <3>1, <3>2
  <2>3. Over(N, 1..N, Dues) = Sum(Dues) /\ Over(N, 1..N, FcfsEnd) = Sum(FcfsEnd)
    <3>1. Dues \in [1..N -> Int] /\ FcfsEnd \in [1..N -> Int]
      BY <1>2, <1>3
    <3> QED
      BY <1>2, <3>1, OverAll
  <2> QED
    BY <1>1, <1>2, <2>1, <2>2, <2>3
<1>7. Summarised([j \in Jobs |-> end[j] - arrival[j]])
  <2>1. [j \in Jobs |-> end[j] - arrival[j]] \in [1..N -> Nat]
    BY <1>1, <1>2
  <2> HIDE DEF Jobs
  <2> QED
    BY <1>2, <2>1, SummaryIsTrue
<1> QED
  BY <1>4, <1>5, <1>6, <1>7 DEF MatchesTheory

\* For traces of any length one worker ends every job of FCFS when Lindley's recursion
\* does and the last job of any policy no later and no earlier, the oracle's shortest
\* job first is no worse in the mean, and the summary of every run is true.
THEOREM MatchesTheoryHolds == Spec => []MatchesTheory
BY RunInvHolds, TheoryIsMatched, PTL
=============================================================================
