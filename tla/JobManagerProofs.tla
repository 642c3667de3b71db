--------------------------- MODULE JobManagerProofs ---------------------------
(***************************************************************************)
(* Proofs about JobManager, for any number of jobs, agents, dropped        *)
(* injections and transitions.  IInv adds to the types what an id stands   *)
(* for (Rows), which rows the markers and timers belong to (Marks), and    *)
(* how far the counter of auto ids is (Numbers); the last two conjuncts    *)
(* are about the delivery loop and the timers that wait for an attempt.    *)
(***************************************************************************)
EXTENDS JobManager, TLAPS, FiniteSetTheorems, SequenceTheorems, WellFoundedInduction

\* A row names the youngest job that had its id, a run that has not settled
\* keeps its row, and jobs are born in the order of their numbers.
Rows ==
  /\ \A id \in Id : row[id] # 0 =>
       /\ jobs[row[id]].id = id /\ jobs[row[id]].st # "unborn"
       /\ \A k \in Job : k > row[id] /\ jobs[k].st # "unborn" => jobs[k].id # id
  /\ \A j \in Job :
       /\ jobs[j].st # "unborn" /\ ~jobs[j].ended => row[jobs[j].id] = j
       /\ jobs[j].st = "settled" => jobs[j].ended
       /\ jobs[j].fg => ~jobs[j].seen
  /\ \A i, j \in Job : i < j /\ jobs[j].st # "unborn" => jobs[i].st # "unborn"

\* A released id has a hidden run that has not settled, a result marked as
\* consumed was there, and a row has a timer from when its run settled.
Marks ==
  /\ \A id \in released : row[id] # 0 /\ jobs[row[id]].fg /\ ~jobs[row[id]].ended
  /\ \A id \in consumed : row[id] # 0 => jobs[row[id]].ended
  /\ \A id \in Id : timer[id].s # "off" <=> row[id] # 0 /\ jobs[row[id]].ended

\* The counter is past every auto id that has a row or was listed, and no
\* further than there are jobs.
Numbers ==
  /\ \A j \in Job : jobs[j].st = "unborn" => nextAuto <= j
  /\ \A n \in Job : row[<<"bg", n>>] # 0 => n < nextAuto
  /\ \A j \in Job : jobs[j].st # "unborn" /\ jobs[j].seen /\ jobs[j].id[1] = "bg" =>
       jobs[j].id[2] < nextAuto
  /\ AutoIdNamesOneJob

Underway == {Name(d) : d \in InFlight}

Deferred == \A id \in Id : timer[id].s = "deferred" => timer[id].on \in Underway

IInv == TypeOK /\ Rows /\ Marks /\ Numbers /\ NoStrandedDelivery /\ Deferred

-----------------------------------------------------------------------------
(* The types, by groups of variables. *)

JobRec == [st: {"unborn", "running", "cancelled", "settled"}, id: Id,
           fg: BOOLEAN, ended: BOOLEAN, told: 0..2, sends: 0..2,
           dropped: BOOLEAN, seen: BOOLEAN, epoch: 0..MaxEpoch]
TimerRec == [s: {"off", "armed", "deferred", "evicting"}, on: (0..MaxJob) \X (0..2)]

JobsType == jobs \in [Job -> JobRec]
RowsType ==
  /\ row \in [Id -> 0..MaxJob] /\ nextAuto \in 1..(MaxJob + 1)
  /\ suppressed \subseteq Id /\ watched \subseteq Id
  /\ consumed \subseteq Id /\ released \subseteq Id
  /\ timer \in [Id -> TimerRec]
DeliveryType ==
  deliveries \subseteq Delivery /\ inFlight \in Seq(Attempt) /\ loop \in {"off", "on", "ending"}
RestType ==
  /\ wait \subseteq Id /\ evalWait \subseteq Job
  /\ session \in {"open", "disposing", "closed"}
  /\ epoch \in 0..MaxEpoch /\ failures \in 0..MaxFailure

\* TypeOK is the four of them, now and after a step.
LEMMA Types ==
  /\ TypeOK <=> JobsType /\ RowsType /\ DeliveryType /\ RestType
  /\ TypeOK' <=> JobsType' /\ RowsType' /\ DeliveryType' /\ RestType'
BY DEF TypeOK, JobsType, RowsType, DeliveryType, RestType, JobRec, TimerRec

\* Job numbers, and the records the operations build.
LEMMA Basics ==
  /\ MaxJob \in Nat /\ MaxJob > 0 /\ MaxEpoch \in Nat /\ MaxFailure \in Nat
  /\ Job = 1..MaxJob /\ 1 \in Job
  /\ Id = ({"bg"} \cup Agent) \X Job
  /\ NoTimer \in TimerRec /\ Armed \in TimerRec /\ Unborn \in JobRec
<1>1. MaxJob \in Nat /\ MaxJob > 0 /\ MaxEpoch \in Nat /\ MaxFailure \in Nat /\ 1 \in Job
  BY JobBoundAssumption DEF Job
<1>2. <<"bg", 1>> \in Id
  BY <1>1 DEF Id
<1>3. <<0, 0>> \in (0..MaxJob) \X (0..2)
  BY <1>1
<1>4. NoTimer \in TimerRec /\ Armed \in TimerRec
  BY <1>3 DEF NoTimer, Armed, TimerRec
<1>5. Unborn \in JobRec
  BY <1>1, <1>2 DEF Unborn, JobRec
<1> QED BY <1>1, <1>4, <1>5 DEF Job, Id

\* The fields of a job's record.
LEMMA JobFields ==
  ASSUME JobsType, NEW j \in Job
  PROVE  /\ jobs[j] \in JobRec
         /\ jobs[j].st \in {"unborn", "running", "cancelled", "settled"}
         /\ jobs[j].id \in Id /\ jobs[j].fg \in BOOLEAN /\ jobs[j].ended \in BOOLEAN
         /\ jobs[j].told \in 0..2 /\ jobs[j].sends \in 0..2
         /\ jobs[j].dropped \in BOOLEAN /\ jobs[j].seen \in BOOLEAN
BY DEF JobsType, JobRec

\* A queued delivery, and the attempt it starts, are well typed.
LEMMA DeliveryMade ==
  ASSUME JobsType, NEW j \in Job
  PROVE  [job |-> j, id |-> jobs[j].id, nth |-> Capped(jobs[j].sends + 1)] \in Delivery
<1>1. jobs[j].id \in Id /\ jobs[j].sends \in 0..2
  BY JobFields
<1>2. Capped(jobs[j].sends + 1) \in 1..2
  BY <1>1 DEF Capped
<1> QED BY <1>1, <1>2 DEF Delivery

\* #deliverDelivery starts at most one attempt, which is well typed.
LEMMA StartedFacts ==
  ASSUME RestType, NEW d \in Delivery
  PROVE  Started(d) \in Seq(Attempt)
<1>1. d.job \in Job /\ d.id \in Id /\ d.nth \in 1..2 /\ epoch \in 0..MaxEpoch
  BY DEF Delivery, RestType
<1>2. ASSUME NEW pc \in {"formatting", "parked", "built", "accepted", "failed"}
      PROVE  [job |-> d.job, id |-> d.id, nth |-> d.nth, epoch |-> epoch, pc |-> pc] \in Attempt
  BY <1>1 DEF Attempt
<1> QED BY <1>2 DEF Started

\* The attempts in flight are the elements of the sequence; more of them keep
\* the names under way.
LEMMA InFlightFacts ==
  ASSUME DeliveryType
  PROVE  /\ DOMAIN inFlight = 1..Len(inFlight) /\ Len(inFlight) \in Nat
         /\ \A i \in DOMAIN inFlight : inFlight[i] \in Attempt /\ inFlight[i] \in InFlight
         /\ InFlight \subseteq Attempt
<1>1. inFlight \in Seq(Attempt)
  BY DEF DeliveryType
<1>2. DOMAIN inFlight = 1..Len(inFlight) /\ Len(inFlight) \in Nat
  BY <1>1, LenProperties
<1>3. \A i \in DOMAIN inFlight : inFlight[i] \in Attempt
  BY <1>1, <1>2, ElementOfSeq
<1> QED BY <1>2, <1>3 DEF InFlight

\* Attempts that are started leave the ones in flight under way.
LEMMA AppendedFlight ==
  ASSUME DeliveryType, NEW more \in Seq(Attempt), inFlight' = inFlight \o more
  PROVE  inFlight' \in Seq(Attempt) /\ Underway \subseteq Underway'
<1>1. inFlight \in Seq(Attempt)
  BY DEF DeliveryType
<1>2. /\ inFlight' \in Seq(Attempt)
      /\ Len(inFlight') = Len(inFlight) + Len(more)
      /\ \A i \in 1..Len(inFlight) : inFlight'[i] = inFlight[i]
  BY <1>1, ConcatProperties, LenProperties
<1>3. DOMAIN inFlight' = 1..Len(inFlight') /\ DOMAIN inFlight = 1..Len(inFlight)
      /\ Len(inFlight) \in Nat /\ Len(more) \in Nat
  BY <1>1, <1>2, LenProperties
<1>4. \A i \in DOMAIN inFlight : i \in DOMAIN inFlight' /\ inFlight'[i] = inFlight[i]
  BY <1>2, <1>3
<1>5. InFlight \subseteq InFlight'
  BY <1>4 DEF InFlight
<1> QED BY <1>2, <1>5 DEF Underway

\* Attempts that go on, each in its place, keep their names.
LEMMA AdvancedFlight ==
  ASSUME DeliveryType, DOMAIN inFlight' = DOMAIN inFlight,
         inFlight' = [i \in DOMAIN inFlight |-> inFlight'[i]],
         \A i \in DOMAIN inFlight :
           \E pc \in {"formatting", "parked", "built", "accepted", "failed"} :
             inFlight'[i] = [inFlight[i] EXCEPT !.pc = pc]
  PROVE  inFlight' \in Seq(Attempt) /\ Underway' = Underway
<1>1. DOMAIN inFlight = 1..Len(inFlight) /\ Len(inFlight) \in Nat
  BY InFlightFacts
<1>2. \A i \in DOMAIN inFlight :
        inFlight'[i] \in Attempt /\ Name(inFlight'[i]) = Name(inFlight[i])
  <2> TAKE i \in DOMAIN inFlight
  <2>1. inFlight[i] \in Attempt
    BY InFlightFacts
  <2>2. PICK pc \in {"formatting", "parked", "built", "accepted", "failed"} :
          inFlight'[i] = [inFlight[i] EXCEPT !.pc = pc]
    OBVIOUS
  <2> QED BY <2>1, <2>2 DEF Attempt, Name
<1>3. inFlight' \in Seq(Attempt)
  BY <1>1, <1>2, IsASeq
<1>4. Underway' = Underway
  BY <1>2 DEF Underway, InFlight
<1> QED BY <1>3, <1>4

\* #enqueueDelivery: what is queued or started is well typed, nothing in
\* flight is lost, and the loop is on when something is queued.
LEMMA EnqueueFacts ==
  ASSUME TypeOK, NoStrandedDelivery, NEW js \in SUBSET Job, Enqueue(js)
  PROVE  DeliveryType' /\ NoStrandedDelivery' /\ Underway \subseteq Underway'
<1> DEFINE made == {[job |-> j, id |-> jobs[j].id, nth |-> Capped(jobs[j].sends + 1)] : j \in js}
<1>0. JobsType /\ DeliveryType /\ RestType
  BY Types
<1>1. made \subseteq Delivery
  BY <1>0, DeliveryMade
<1>2. CASE loop = "off" /\ made # {}
  <2>1. PICK d \in made : /\ deliveries' = (deliveries \cup made) \ {d}
                          /\ inFlight' = inFlight \o Started(d)
                          /\ loop' = "ending"
    BY <1>2 DEF Enqueue
  <2> HIDE DEF made
  <2>2. Started(d) \in Seq(Attempt)
    BY <1>0, <1>1, StartedFacts
  <2>3. inFlight' \in Seq(Attempt) /\ Underway \subseteq Underway'
    BY <1>0, <2>1, <2>2, AppendedFlight
  <2> QED BY <1>0, <1>1, <2>1, <2>3 DEF DeliveryType, NoStrandedDelivery
<1>3. CASE ~(loop = "off" /\ made # {})
  <2>1. deliveries' = deliveries \cup made /\ inFlight' = inFlight /\ loop' = loop
    BY <1>3 DEF Enqueue
  <2>2. Underway' = Underway
    BY <2>1 DEF Underway, InFlight
  <2> HIDE DEF made
  <2> QED BY <1>0, <1>1, <1>3, <2>1, <2>2 DEF DeliveryType, NoStrandedDelivery
<1> QED BY <1>2, <1>3

-----------------------------------------------------------------------------
(* What ids stand for. *)

\* j keeps what its row, its timer and its number depend on
SameIdentity(j) ==
  /\ jobs'[j].id = jobs[j].id /\ jobs'[j].fg = jobs[j].fg /\ jobs'[j].seen = jobs[j].seen
  /\ jobs'[j].st = "unborn" <=> jobs[j].st = "unborn"
SameJob(j) ==
  /\ SameIdentity(j)
  /\ jobs'[j].ended = jobs[j].ended
  /\ jobs'[j].st = "settled" => jobs[j].st = "settled"

Ids == Rows /\ Marks /\ Numbers

\* A row's job is a job.
LEMMA RowFacts ==
  ASSUME TypeOK, NEW id \in Id
  PROVE  row[id] \in 0..MaxJob /\ (row[id] # 0 => row[id] \in Job)
<1>1. MaxJob \in Nat /\ Job = 1..MaxJob
  BY Basics
<1>2. row[id] \in 0..MaxJob
  BY DEF TypeOK
<1> QED BY <1>1, <1>2

\* A step that leaves the rows alone, and arms a timer only where there was one.
LEMMA KeptRows ==
  ASSUME TypeOK, TypeOK', Ids, \A j \in Job : SameJob(j),
         row' = row, nextAuto' = nextAuto,
         \A id \in released' : id \in released
           \/ (row[id] # 0 /\ jobs[row[id]].fg /\ ~jobs[row[id]].ended),
         \A id \in consumed' : id \in consumed \/ (row[id] # 0 => jobs[row[id]].ended),
         \A id \in Id : timer'[id].s = "off" <=> timer[id].s = "off"
  PROVE  Ids'
<1>0. consumed' \subseteq Id /\ released' \subseteq Id
  BY DEF TypeOK
<1>1. Rows'
  <2>1. ASSUME NEW id \in Id, row'[id] # 0
        PROVE  /\ jobs'[row'[id]].id = id /\ jobs'[row'[id]].st # "unborn"
               /\ \A k \in Job : k > row'[id] /\ jobs'[k].st # "unborn" => jobs'[k].id # id
    <3>1. row[id] \in Job /\ row'[id] = row[id] /\ row[id] # 0
      BY <2>1, RowFacts
    <3> QED BY <3>1 DEF Ids, Rows, SameJob, SameIdentity
  <2>2. ASSUME NEW j \in Job
        PROVE  /\ jobs'[j].st # "unborn" /\ ~jobs'[j].ended => row'[jobs'[j].id] = j
               /\ jobs'[j].st = "settled" => jobs'[j].ended
               /\ jobs'[j].fg => ~jobs'[j].seen
    BY DEF Ids, Rows, SameJob, SameIdentity
  <2>3. \A i, j \in Job : i < j /\ jobs'[j].st # "unborn" => jobs'[i].st # "unborn"
    BY DEF Ids, Rows, SameJob, SameIdentity
  <2> QED BY <2>1, <2>2, <2>3 DEF Rows
<1>2. Marks'
  <2>1. ASSUME NEW id \in released'
        PROVE  row'[id] # 0 /\ jobs'[row'[id]].fg /\ ~jobs'[row'[id]].ended
    <3>1. id \in Id /\ row[id] # 0 /\ jobs[row[id]].fg /\ ~jobs[row[id]].ended
      BY <1>0 DEF Ids, Marks
    <3> QED BY <3>1, RowFacts DEF SameJob, SameIdentity
  <2>2. ASSUME NEW id \in consumed', row'[id] # 0
        PROVE  jobs'[row'[id]].ended
    <3>1. id \in Id /\ row[id] \in Job /\ jobs[row[id]].ended
      BY <2>2, <1>0, RowFacts DEF Ids, Marks
    <3> QED BY <3>1 DEF SameJob
  <2>3. ASSUME NEW id \in Id
        PROVE  timer'[id].s # "off" <=> row'[id] # 0 /\ jobs'[row'[id]].ended
    <3>1. timer[id].s # "off" <=> row[id] # 0 /\ jobs[row[id]].ended
      BY DEF Ids, Marks
    <3> QED BY <3>1, RowFacts DEF SameJob
  <2> QED BY <2>1, <2>2, <2>3 DEF Marks
<1>3. Numbers'
  BY DEF Ids, Numbers, AutoIdNamesOneJob, SameJob, SameIdentity
<1> QED BY <1>1, <1>2, <1>3 DEF Ids

\* What #evictJob leaves, for ids whose runs have settled.
LEMMA EvictFacts ==
  ASSUME TypeOK, NEW ids \in SUBSET Id, Evict(ids)
  PROVE  /\ \A id \in Id : /\ row'[id] = IF id \in ids THEN 0 ELSE row[id]
                           /\ timer'[id] = IF id \in ids THEN NoTimer ELSE timer[id]
         /\ row' \in [Id -> 0..MaxJob] /\ timer' \in [Id -> TimerRec]
         /\ suppressed' \subseteq Id /\ watched' \subseteq Id /\ consumed' \subseteq Id
         /\ consumed' = consumed \ ids
<1>1. 0 \in 0..MaxJob /\ NoTimer \in TimerRec
  BY Basics
<1>2. \A id \in Id : row[id] \in 0..MaxJob /\ timer[id] \in TimerRec
  BY DEF TypeOK, TimerRec
<1> QED BY <1>1, <1>2 DEF TypeOK, Evict

\* #evictJob of rows whose runs have settled.
LEMMA KeptEvict ==
  ASSUME TypeOK, Ids, \A j \in Job : SameJob(j),
         NEW ids \in SUBSET Id, Evict(ids), \A id \in ids : row[id] # 0 => jobs[row[id]].ended,
         nextAuto' = nextAuto, released' = released
  PROVE  Ids'
<1>0. released \subseteq Id /\ consumed \subseteq Id
  BY DEF TypeOK
<1>e. /\ \A id \in Id : /\ row'[id] = IF id \in ids THEN 0 ELSE row[id]
                        /\ timer'[id] = IF id \in ids THEN NoTimer ELSE timer[id]
      /\ consumed' = consumed \ ids
  BY EvictFacts
<1>1. Rows'
  <2>1. ASSUME NEW id \in Id, row'[id] # 0
        PROVE  /\ jobs'[row'[id]].id = id /\ jobs'[row'[id]].st # "unborn"
               /\ \A k \in Job : k > row'[id] /\ jobs'[k].st # "unborn" => jobs'[k].id # id
    <3>1. row[id] \in Job /\ row'[id] = row[id] /\ row[id] # 0
      BY <2>1, <1>e, RowFacts
    <3> QED BY <3>1 DEF Ids, Rows, SameJob, SameIdentity
  <2>2. ASSUME NEW j \in Job
        PROVE  /\ jobs'[j].st # "unborn" /\ ~jobs'[j].ended => row'[jobs'[j].id] = j
               /\ jobs'[j].st = "settled" => jobs'[j].ended
               /\ jobs'[j].fg => ~jobs'[j].seen
    <3>1. ASSUME jobs'[j].st # "unborn", ~jobs'[j].ended
          PROVE  row'[jobs'[j].id] = j
      <4>1. jobs[j].id \in Id /\ row[jobs[j].id] = j /\ j # 0 /\ jobs'[j].id = jobs[j].id
        BY <3>1, Types, JobFields, Basics DEF Ids, Rows, SameJob, SameIdentity
      <4>2. jobs[j].id \notin ids
        BY <3>1, <4>1 DEF SameJob
      <4> QED BY <4>1, <4>2, <1>e
    <3> QED BY <3>1 DEF Ids, Rows, SameJob, SameIdentity
  <2>3. \A i, j \in Job : i < j /\ jobs'[j].st # "unborn" => jobs'[i].st # "unborn"
    BY DEF Ids, Rows, SameJob, SameIdentity
  <2> QED BY <2>1, <2>2, <2>3 DEF Rows
<1>2. Marks'
  <2>1. ASSUME NEW id \in released
        PROVE  row'[id] # 0 /\ jobs'[row'[id]].fg /\ ~jobs'[row'[id]].ended
    <3>1. id \in Id /\ row[id] # 0 /\ jobs[row[id]].fg /\ ~jobs[row[id]].ended
      BY <1>0 DEF Ids, Marks
    <3>2. id \notin ids
      BY <3>1
    <3> QED BY <3>1, <3>2, <1>e, RowFacts DEF SameJob, SameIdentity
  <2>2. ASSUME NEW id \in consumed', row'[id] # 0
        PROVE  jobs'[row'[id]].ended
    <3>1. id \in consumed /\ id \in Id /\ row'[id] = row[id] /\ row[id] # 0
      BY <2>2, <1>0, <1>e
    <3>2. row[id] \in Job /\ jobs[row[id]].ended
      BY <3>1, RowFacts DEF Ids, Marks
    <3> QED BY <3>1, <3>2 DEF SameJob
  <2>3. ASSUME NEW id \in Id
        PROVE  timer'[id].s # "off" <=> row'[id] # 0 /\ jobs'[row'[id]].ended
    <3>1. timer[id].s # "off" <=> row[id] # 0 /\ jobs[row[id]].ended
      BY DEF Ids, Marks
    <3>2. NoTimer.s = "off"
      BY DEF NoTimer
    <3> QED BY <3>1, <3>2, <1>e, RowFacts DEF SameJob
  <2> QED BY <2>1, <2>2, <2>3, <1>e DEF Marks
<1>3. Numbers'
  <2>1. \A n \in Job : row'[<<"bg", n>>] # 0 => n < nextAuto'
    <3>1. \A n \in Job : <<"bg", n>> \in Id
      BY DEF Id
    <3> QED BY <3>1, <1>e DEF Ids, Numbers
  <2> QED BY <2>1 DEF Ids, Numbers, AutoIdNamesOneJob, SameJob, SameIdentity
<1> QED BY <1>1, <1>2, <1>3 DEF Ids

\* #discardForegroundJob of j, which settles now or has settled: it was never
\* listed, and neither was another job of that id.
LEMMA KeptDiscard ==
  ASSUME TypeOK, Ids, NEW j \in Job, jobs[j].st # "unborn", row[jobs[j].id] = j, jobs[j].fg,
         SameIdentity(j), jobs'[j].ended,
         \A k \in Job : k # j => SameJob(k),
         Discard(jobs[j].id)
  PROVE  Ids' /\ nextAuto' \in 1..(MaxJob + 1)
<1> DEFINE id == jobs[j].id
<1>0. /\ released \subseteq Id /\ consumed \subseteq Id /\ nextAuto \in 1..(MaxJob + 1)
      /\ MaxJob \in Nat /\ Job = 1..MaxJob /\ id \in Id /\ j # 0 /\ ~jobs[j].seen
  <2>1. released \subseteq Id /\ consumed \subseteq Id /\ nextAuto \in 1..(MaxJob + 1)
    BY DEF TypeOK
  <2>2. MaxJob \in Nat /\ Job = 1..MaxJob
    BY Basics
  <2>3. id \in Id
    BY Types, JobFields
  <2>4. ~jobs[j].seen
    BY DEF Ids, Rows
  <2> QED BY <2>1, <2>2, <2>3, <2>4
<1>d. /\ Evict({id}) /\ released' = released \ {id}
      /\ nextAuto' = IF id = <<"bg", nextAuto - 1>> THEN nextAuto - 1 ELSE nextAuto
  BY DEF Discard
<1>e. /\ \A x \in Id : /\ row'[x] = IF x = id THEN 0 ELSE row[x]
                       /\ timer'[x] = IF x = id THEN NoTimer ELSE timer[x]
      /\ consumed' = consumed \ {id}
  <2>1. {id} \in SUBSET Id
    BY <1>0
  <2> HIDE DEF id
  <2> QED BY <2>1, <1>d, EvictFacts
<1>s. /\ \A k \in Job : SameIdentity(k)
      /\ \A k \in Job : k # j => jobs'[k].ended = jobs[k].ended
  BY DEF SameJob
<1>r. \A x \in Id : x # id => row[x] # j
  BY <1>0 DEF Ids, Rows
<1>n. nextAuto' \in 1..(MaxJob + 1) /\ nextAuto' <= nextAuto
  <2>1. CASE id = <<"bg", nextAuto - 1>>
    <3>1. nextAuto - 1 \in Job
      BY <2>1, <1>0 DEF Id
    <3> QED BY <2>1, <3>1, <1>0, <1>d
  <2>2. CASE id # <<"bg", nextAuto - 1>>
    BY <2>2, <1>0, <1>d
  <2> QED BY <2>1, <2>2
<1> HIDE DEF id
<1>1. Rows'
  <2>1. ASSUME NEW x \in Id, row'[x] # 0
        PROVE  /\ jobs'[row'[x]].id = x /\ jobs'[row'[x]].st # "unborn"
               /\ \A k \in Job : k > row'[x] /\ jobs'[k].st # "unborn" => jobs'[k].id # x
    <3>1. row[x] \in Job /\ row'[x] = row[x] /\ row[x] # 0
      BY <2>1, <1>e, RowFacts
    <3> QED BY <3>1, <1>s DEF Ids, Rows, SameIdentity
  <2>2. ASSUME NEW k \in Job
        PROVE  /\ jobs'[k].st # "unborn" /\ ~jobs'[k].ended => row'[jobs'[k].id] = k
               /\ jobs'[k].st = "settled" => jobs'[k].ended
               /\ jobs'[k].fg => ~jobs'[k].seen
    <3>1. CASE k = j
      BY <3>1, <1>s DEF Ids, Rows, SameIdentity
    <3>2. CASE k # j
      <4>1. ASSUME jobs'[k].st # "unborn", ~jobs'[k].ended
            PROVE  row'[jobs'[k].id] = k
        <5>1. jobs[k].id \in Id /\ row[jobs[k].id] = k /\ jobs'[k].id = jobs[k].id
          BY <3>2, <4>1, Types, JobFields DEF Ids, Rows, SameJob, SameIdentity
        <5>2. jobs[k].id # id
          BY <3>2, <5>1 DEF id
        <5> QED BY <5>1, <5>2, <1>e
      <4> QED BY <3>2, <4>1 DEF Ids, Rows, SameJob, SameIdentity
    <3> QED BY <3>1, <3>2
  <2>3. \A i, k \in Job : i < k /\ jobs'[k].st # "unborn" => jobs'[i].st # "unborn"
    BY <1>s DEF Ids, Rows, SameIdentity
  <2> QED BY <2>1, <2>2, <2>3 DEF Rows
<1>2. Marks'
  <2>1. ASSUME NEW x \in released'
        PROVE  row'[x] # 0 /\ jobs'[row'[x]].fg /\ ~jobs'[row'[x]].ended
    <3>1. /\ x # id /\ x \in Id
          /\ row[x] # 0 /\ jobs[row[x]].fg /\ ~jobs[row[x]].ended
      BY <2>1, <1>0, <1>d DEF Ids, Marks
    <3>2. row'[x] = row[x] /\ row[x] \in Job /\ row[x] # j
      BY <3>1, <1>e, <1>r, RowFacts
    <3> QED BY <3>1, <3>2, <1>s DEF SameIdentity
  <2>2. ASSUME NEW x \in consumed', row'[x] # 0
        PROVE  jobs'[row'[x]].ended
    <3>1. x \in consumed /\ x \in Id /\ x # id /\ row'[x] = row[x] /\ row[x] # 0
      BY <2>2, <1>0, <1>e
    <3>2. row[x] \in Job /\ jobs[row[x]].ended
      BY <3>1, RowFacts DEF Ids, Marks
    <3> QED BY <3>1, <3>2, <1>s, <1>r
  <2>3. ASSUME NEW x \in Id
        PROVE  timer'[x].s # "off" <=> row'[x] # 0 /\ jobs'[row'[x]].ended
    <3>1. CASE x = id
      BY <3>1, <1>e DEF NoTimer
    <3>2. CASE x # id
      <4>1. row'[x] = row[x] /\ timer'[x] = timer[x] /\ row[x] # j
        BY <3>2, <1>e, <1>r
      <4>2. row[x] # 0 => jobs'[row[x]].ended = jobs[row[x]].ended
        BY <4>1, <1>s, RowFacts
      <4> QED BY <4>1, <4>2 DEF Ids, Marks
    <3> QED BY <3>1, <3>2
  <2> QED BY <2>1, <2>2, <2>3 DEF Marks
<1>3. Numbers'
  <2>1. ASSUME NEW k \in Job, jobs'[k].st = "unborn" PROVE nextAuto' <= k
    <3>1. nextAuto <= k
      BY <2>1, <1>s DEF Ids, Numbers, SameIdentity
    <3> QED BY <3>1, <1>0, <1>n
  <2>2. ASSUME NEW n \in Job, row'[<<"bg", n>>] # 0 PROVE n < nextAuto'
    <3>1. <<"bg", n>> \in Id
      BY DEF Id
    <3>2. <<"bg", n>> # id /\ n < nextAuto
      BY <2>2, <3>1, <1>e DEF Ids, Numbers
    <3>3. id = <<"bg", nextAuto - 1>> => n # nextAuto - 1
      BY <3>2
    <3> QED BY <3>2, <3>3, <1>0, <1>d
  <2>3. ASSUME NEW k \in Job, jobs'[k].st # "unborn", jobs'[k].seen, jobs'[k].id[1] = "bg"
        PROVE  jobs'[k].id[2] < nextAuto'
    <3>1. /\ jobs[k].st # "unborn" /\ jobs[k].seen /\ jobs[k].id[1] = "bg"
          /\ jobs[k].id[2] < nextAuto /\ jobs'[k].id = jobs[k].id /\ jobs[k].id \in Id
      BY <2>3, <1>s, Types, JobFields DEF Ids, Numbers, SameIdentity
    <3>2. jobs[k].id # id
      <4>1. k # j
        BY <3>1, <1>0
      <4>2. CASE k < j
        BY <3>1, <4>2 DEF Ids, Numbers, AutoIdNamesOneJob, id
      <4>3. CASE k > j
        BY <3>1, <4>3, <1>0 DEF Ids, Rows, id
      <4> QED BY <4>1, <4>2, <4>3, <1>0
    <3>3. jobs[k].id = <<"bg", jobs[k].id[2]>> /\ jobs[k].id[2] \in Job
      BY <3>1 DEF Id
    <3>4. id = <<"bg", nextAuto - 1>> => jobs[k].id[2] # nextAuto - 1
      BY <3>2, <3>3
    <3> QED BY <3>1, <3>3, <3>4, <1>0, <1>d
  <2>4. AutoIdNamesOneJob'
    BY <1>s DEF Ids, Numbers, AutoIdNamesOneJob, SameIdentity
  <2> QED BY <2>1, <2>2, <2>3, <2>4 DEF Numbers
<1> QED BY <1>n, <1>1, <1>2, <1>3 DEF Ids

\* A set of job numbers that is not empty has a least element.
LEMMA Least ==
  ASSUME NEW S \in SUBSET Nat, S # {}
  PROVE  \E m \in S : \A n \in S : m <= n
<1>1. \E x \in S : \A y \in S : ~(<<y, x>> \in OpToRel(<, Nat))
  BY NatLessThanWellFounded, WFMin
<1>2. PICK x \in S : \A y \in S : ~(<<y, x>> \in OpToRel(<, Nat))
  BY <1>1
<1>3. \A y \in S : ~(y < x)
  BY <1>2 DEF OpToRel
<1>4. \A y \in S : y \in Nat
  OBVIOUS
<1>5. ASSUME NEW y \in S PROVE x <= y
  <2>1. x \in Nat /\ y \in Nat
    BY <1>2, <1>4
  <2>2. ~(y < x)
    BY <1>3
  <2> QED BY <2>1, <2>2
<1> QED BY <1>2, <1>5

\* register() without a preferred id takes the next number: no row is past the
\* counter, and there is a number for every job.
LEMMA AutoNumberFacts ==
  ASSUME TypeOK, Ids, NEW j \in Job, jobs[j].st = "unborn"
  PROVE  AutoNumber = nextAuto /\ nextAuto \in Job /\ row[<<"bg", nextAuto>>] = 0
<1>0. MaxJob \in Nat /\ Job = 1..MaxJob /\ nextAuto \in 1..(MaxJob + 1)
  BY Basics DEF TypeOK
<1>1. nextAuto <= j
  BY DEF Ids, Numbers
<1>2. nextAuto \in Job /\ nextAuto \in nextAuto..MaxJob
  BY <1>0, <1>1
<1>3. \A n \in nextAuto..MaxJob : row[<<"bg", n>>] = 0
  <2> TAKE n \in nextAuto..MaxJob
  <2>1. n \in Job /\ ~(n < nextAuto)
    BY <1>0
  <2> QED BY <2>1 DEF Ids, Numbers
<1> DEFINE P(n) == row[<<"bg", n>>] = 0 /\ \A m \in nextAuto..(n - 1) : row[<<"bg", m>>] # 0
<1>4. P(nextAuto)
  BY <1>0, <1>2, <1>3
<1>5. ASSUME NEW n \in nextAuto..MaxJob, P(n) PROVE n = nextAuto
  <2>1. ~(nextAuto \in nextAuto..(n - 1))
    BY <1>2, <1>3, <1>5
  <2> QED BY <2>1, <1>0
<1>6. AutoNumber = CHOOSE n \in nextAuto..MaxJob : P(n)
  BY DEF AutoNumber
<1> HIDE DEF P
<1>7. AutoNumber \in nextAuto..MaxJob /\ P(AutoNumber)
  BY <1>2, <1>4, <1>6
<1>8. AutoNumber = nextAuto
  BY <1>5, <1>7
<1> QED BY <1>2, <1>3, <1>8

\* With a preferred id there is a free candidate as long as a job is unborn:
\* rows of different ids have different jobs.
LEMMA PreferredNumberFacts ==
  ASSUME TypeOK, Ids, NEW a \in Agent, NEW j \in Job, jobs[j].st = "unborn"
  PROVE  PreferredNumber(a) \in Job /\ row[<<a, PreferredNumber(a)>>] = 0
<1> DEFINE free == {n \in Job : row[<<a, n>>] = 0}
           f == [n \in Job |-> row[<<a, n>>]]
<1>0. MaxJob \in Nat /\ Job = 1..MaxJob /\ \A n \in Job : <<a, n>> \in Id
  BY Basics DEF Id
<1>1. free # {}
  <2> SUFFICES ASSUME free = {} PROVE FALSE
    OBVIOUS
  <2>1. \A n \in Job : f[n] \in Job \ {j} /\ jobs[f[n]].id = <<a, n>>
    <3> TAKE n \in Job
    <3>1. row[<<a, n>>] # 0 /\ <<a, n>> \in Id
      BY <1>0
    <3>2. row[<<a, n>>] \in Job
      BY <3>1, RowFacts
    <3>3. jobs[row[<<a, n>>]].id = <<a, n>> /\ jobs[row[<<a, n>>]].st # "unborn"
      BY <3>1 DEF Ids, Rows
    <3> QED BY <3>2, <3>3
  <2>2. f \in [Job -> Job \ {j}]
    BY <2>1
  <2>3. IsFiniteSet(Job) /\ IsFiniteSet(Job \ {j}) /\ Cardinality(Job \ {j}) < Cardinality(Job)
    <3>1. IsFiniteSet(Job)
      BY <1>0, FS_Interval
    <3>2. Cardinality(Job) \in Nat
      BY <3>1, FS_CardinalityType
    <3>3. IsFiniteSet(Job \ {j}) /\ Cardinality(Job \ {j}) = Cardinality(Job) - 1
      BY <3>1, FS_RemoveElement
    <3> QED BY <3>1, <3>2, <3>3
  <2> HIDE DEF f
  <2>4. \E x, y \in Job : x # y /\ f[x] = f[y]
    BY <2>2, <2>3, FS_PigeonHole
  <2> QED BY <2>1, <2>4
<1>2. free \in SUBSET Nat
  BY <1>0
<1>3. \E n \in free : \A m \in free : n <= m
  BY <1>1, <1>2, Least
<1> DEFINE P(n) == row[<<a, n>>] = 0 /\ \A m \in 1..(n - 1) : row[<<a, m>>] # 0
<1>4. \E n \in Job : P(n)
  <2>1. PICK n \in free : \A m \in free : n <= m
    BY <1>3
  <2>2. \A m \in 1..(n - 1) : m \in Job /\ ~(n <= m)
    BY <1>0, <2>1
  <2> QED BY <2>1, <2>2
<1>5. PreferredNumber(a) = CHOOSE n \in Job : P(n)
  BY DEF PreferredNumber
<1>6. PreferredNumber(a) \in Job /\ P(PreferredNumber(a))
  <2> HIDE DEF P
  <2> QED BY <1>4, <1>5
<1> QED BY <1>6

\* A new job takes a free id, the next number if it is an auto id.
LEMMA KeptClaim ==
  ASSUME TypeOK, Ids, NEW j \in Unused, NEW id \in Id, row[id] = 0,
         \A k \in Job : k # j => SameJob(k),
         jobs'[j].id = id, jobs'[j].st # "unborn", jobs'[j].st = "settled" => jobs'[j].ended,
         jobs'[j].fg => ~jobs'[j].seen, jobs'[j].fg \in BOOLEAN, jobs'[j].ended \in BOOLEAN,
         row' = [row EXCEPT ![id] = j], consumed' = consumed \ {id}, released' = released \ {id},
         \A x \in Id : x # id => timer'[x] = timer[x],
         timer'[id].s # "off" <=> jobs'[j].ended,
         id[1] = "bg" => id[2] = nextAuto,
         nextAuto' = IF id[1] = "bg" THEN nextAuto + 1 ELSE nextAuto
  PROVE  Ids' /\ row' \in [Id -> 0..MaxJob] /\ nextAuto' \in 1..(MaxJob + 1)
<1>0. /\ j \in Job /\ jobs[j].st = "unborn" /\ \A k \in Job : k < j => jobs[k].st # "unborn"
      /\ MaxJob \in Nat /\ Job = 1..MaxJob /\ nextAuto \in 1..(MaxJob + 1)
      /\ consumed \subseteq Id /\ released \subseteq Id /\ row \in [Id -> 0..MaxJob]
  <2>1. j \in Job /\ jobs[j].st = "unborn" /\ \A k \in 1..(j - 1) : jobs[k].st # "unborn"
    BY DEF Unused
  <2>2. MaxJob \in Nat /\ Job = 1..MaxJob
    BY Basics
  <2>3. /\ nextAuto \in 1..(MaxJob + 1)
        /\ consumed \subseteq Id /\ released \subseteq Id /\ row \in [Id -> 0..MaxJob]
    BY DEF TypeOK
  <2> QED BY <2>1, <2>2, <2>3
<1>1. \A k \in Job : k > j => jobs[k].st = "unborn"
  BY <1>0 DEF Ids, Rows
<1>e. /\ row'[id] = j /\ j # 0
      /\ \A x \in Id : x # id => row'[x] = row[x]
      /\ \A x \in Id : row[x] # j
      /\ row' \in [Id -> 0..MaxJob]
  <2>1. j # 0 /\ \A x \in Id : row[x] # j
    BY <1>0 DEF Ids, Rows
  <2> QED BY <2>1, <1>0
<1>n. nextAuto' \in 1..(MaxJob + 1) /\ nextAuto <= nextAuto' /\ nextAuto <= j
  <2>1. nextAuto <= j
    BY <1>0 DEF Ids, Numbers
  <2> QED BY <2>1, <1>0
<1>2. Rows'
  <2>1. ASSUME NEW x \in Id, row'[x] # 0
        PROVE  /\ jobs'[row'[x]].id = x /\ jobs'[row'[x]].st # "unborn"
               /\ \A k \in Job : k > row'[x] /\ jobs'[k].st # "unborn" => jobs'[k].id # x
    <3>1. CASE x = id
      <4>1. \A k \in Job : k > j => jobs'[k].st = "unborn"
        BY <1>0, <1>1 DEF SameJob, SameIdentity
      <4> QED BY <3>1, <4>1, <1>e
    <3>2. CASE x # id
      <4>1. row[x] \in Job /\ row'[x] = row[x] /\ row[x] # 0 /\ row[x] # j
        BY <2>1, <3>2, <1>e, RowFacts
      <4> QED BY <3>2, <4>1 DEF Ids, Rows, SameJob, SameIdentity
    <3> QED BY <3>1, <3>2
  <2>2. ASSUME NEW k \in Job
        PROVE  /\ jobs'[k].st # "unborn" /\ ~jobs'[k].ended => row'[jobs'[k].id] = k
               /\ jobs'[k].st = "settled" => jobs'[k].ended
               /\ jobs'[k].fg => ~jobs'[k].seen
    <3>1. CASE k = j
      BY <3>1, <1>e
    <3>2. CASE k # j
      <4>1. ASSUME jobs'[k].st # "unborn", ~jobs'[k].ended
            PROVE  row'[jobs'[k].id] = k
        <5>1. /\ jobs[k].id \in Id /\ row[jobs[k].id] = k /\ jobs'[k].id = jobs[k].id
              /\ k # 0
          BY <3>2, <4>1, <1>0, Types, JobFields DEF Ids, Rows, SameJob, SameIdentity
        <5> QED BY <5>1, <1>e
      <4> QED BY <3>2, <4>1 DEF Ids, Rows, SameJob, SameIdentity
    <3> QED BY <3>1, <3>2
  <2>3. ASSUME NEW i \in Job, NEW k \in Job, i < k, jobs'[k].st # "unborn"
        PROVE  jobs'[i].st # "unborn"
    <3>1. CASE i = j
      BY <3>1
    <3>2. CASE i # j
      <4>1. jobs[i].st # "unborn"
        <5>1. CASE k = j
          BY <5>1, <2>3, <1>0
        <5>2. CASE k # j
          BY <5>2, <2>3 DEF Ids, Rows, SameJob, SameIdentity
        <5> QED BY <5>1, <5>2
      <4> QED BY <3>2, <4>1 DEF SameJob, SameIdentity
    <3> QED BY <3>1, <3>2
  <2> QED BY <2>1, <2>2, <2>3 DEF Rows
<1>3. Marks'
  <2>1. ASSUME NEW x \in released'
        PROVE  row'[x] # 0 /\ jobs'[row'[x]].fg /\ ~jobs'[row'[x]].ended
    <3>1. /\ x # id /\ x \in Id
          /\ row[x] # 0 /\ jobs[row[x]].fg /\ ~jobs[row[x]].ended
      BY <2>1, <1>0 DEF Ids, Marks
    <3>2. row'[x] = row[x] /\ row[x] \in Job /\ row[x] # j
      BY <3>1, <1>e, RowFacts
    <3> QED BY <3>1, <3>2 DEF SameJob, SameIdentity
  <2>2. ASSUME NEW x \in consumed', row'[x] # 0
        PROVE  jobs'[row'[x]].ended
    <3>1. x \in consumed /\ x \in Id /\ x # id /\ row'[x] = row[x] /\ row[x] # 0 /\ row[x] # j
      BY <2>2, <1>0, <1>e
    <3>2. row[x] \in Job /\ jobs[row[x]].ended
      BY <3>1, RowFacts DEF Ids, Marks
    <3> QED BY <3>1, <3>2 DEF SameJob
  <2>3. ASSUME NEW x \in Id
        PROVE  timer'[x].s # "off" <=> row'[x] # 0 /\ jobs'[row'[x]].ended
    <3>1. CASE x = id
      BY <3>1, <1>e
    <3>2. CASE x # id
      <4>1. row'[x] = row[x] /\ timer'[x] = timer[x] /\ row[x] # j
        BY <3>2, <1>e
      <4>2. row[x] # 0 => jobs'[row[x]].ended = jobs[row[x]].ended
        BY <4>1, RowFacts DEF SameJob
      <4> QED BY <4>1, <4>2 DEF Ids, Marks
    <3> QED BY <3>1, <3>2
  <2> QED BY <2>1, <2>2, <2>3 DEF Marks
<1>4. Numbers'
  <2>1. ASSUME NEW k \in Job, jobs'[k].st = "unborn" PROVE nextAuto' <= k
    <3>1. k # j /\ jobs[k].st = "unborn"
      BY <2>1 DEF SameJob, SameIdentity
    <3>2. k > j
      BY <3>1, <1>0
    <3> QED BY <3>2, <1>0, <1>n
  <2>2. ASSUME NEW n \in Job, row'[<<"bg", n>>] # 0 PROVE n < nextAuto'
    <3>1. <<"bg", n>> \in Id
      BY DEF Id
    <3>2. CASE <<"bg", n>> = id
      <4>1. n = nextAuto /\ nextAuto' = nextAuto + 1
        BY <3>2
      <4> QED BY <4>1, <1>0
    <3>3. CASE <<"bg", n>> # id
      <4>1. n < nextAuto
        BY <2>2, <3>1, <3>3, <1>e DEF Ids, Numbers
      <4> QED BY <4>1, <1>0, <1>n
    <3> QED BY <3>2, <3>3
  <2>3. ASSUME NEW k \in Job, jobs'[k].st # "unborn", jobs'[k].seen, jobs'[k].id[1] = "bg"
        PROVE  jobs'[k].id[2] < nextAuto'
    <3>1. CASE k = j
      <4>1. jobs'[k].id[2] = nextAuto /\ nextAuto' = nextAuto + 1
        BY <2>3, <3>1
      <4> QED BY <4>1, <1>0
    <3>2. CASE k # j
      <4>1. /\ jobs'[k].id = jobs[k].id /\ jobs[k].id \in Id
            /\ jobs[k].id[2] < nextAuto
        BY <2>3, <3>2, Types, JobFields DEF Ids, Numbers, SameJob, SameIdentity
      <4>2. jobs[k].id[2] \in Job
        BY <4>1 DEF Id
      <4> QED BY <4>1, <4>2, <1>0, <1>n
    <3> QED BY <3>1, <3>2
  <2>4. AutoIdNamesOneJob'
    <3> SUFFICES ASSUME NEW i \in Job, NEW k \in Job, i < k, jobs'[i].id = jobs'[k].id,
                        jobs'[i].id[1] = "bg", jobs'[i].st # "unborn", jobs'[k].st # "unborn",
                        jobs'[i].seen
                 PROVE  FALSE
      BY DEF AutoIdNamesOneJob
    <3>1. i # j
      <4>1. \A x \in Job : x > j => jobs'[x].st = "unborn"
        BY <1>0, <1>1 DEF SameJob, SameIdentity
      <4> QED BY <4>1
    <3>2. jobs[i].id = jobs'[i].id /\ jobs[i].st # "unborn" /\ jobs[i].seen
      BY <3>1 DEF SameJob, SameIdentity
    <3>3. CASE k = j
      <4>1. jobs[i].id[2] = nextAuto /\ jobs[i].id[2] < nextAuto
        BY <3>2, <3>3 DEF Ids, Numbers
      <4> QED BY <4>1, <1>0
    <3>4. CASE k # j
      BY <3>2, <3>4 DEF Ids, Numbers, AutoIdNamesOneJob, SameJob, SameIdentity
    <3> QED BY <3>3, <3>4
  <2> QED BY <2>1, <2>2, <2>3, <2>4 DEF Numbers
<1> QED BY <1>e, <1>n, <1>2, <1>3, <1>4 DEF Ids

-----------------------------------------------------------------------------
(* What the shared operations leave. *)

\* An eviction that waits for an attempt goes on waiting for the same one.
LEMMA Assembled ==
  ASSUME IInv, TypeOK', Ids', NoStrandedDelivery', Underway \subseteq Underway',
         \A id \in Id : timer'[id].s = "deferred" => timer'[id] = timer[id]
  PROVE  IInv'
<1>1. Deferred'
  BY DEF IInv, Deferred
<1> QED BY <1>1 DEF IInv, Ids

\* A step that touches neither rows nor timers.
LEMMA QuietStep ==
  ASSUME IInv, JobsType', DeliveryType', RestType', suppressed' \subseteq Id, watched' \subseteq Id,
         \A j \in Job : SameJob(j), UNCHANGED <<row, nextAuto, consumed, released, timer>>,
         NoStrandedDelivery', Underway \subseteq Underway'
  PROVE  IInv'
<1>1. TypeOK /\ Ids /\ RowsType
  BY Types DEF IInv, Ids
<1>2. RowsType'
  BY <1>1 DEF RowsType
<1>3. TypeOK'
  BY <1>2, Types
<1>4. Ids'
  BY <1>1, <1>3, KeptRows
<1> QED BY <1>3, <1>4, Assembled

\* Records that differ in what was told, sent or dropped, or in an st that is
\* "cancelled" now, are the same job.
LEMMA SentFacts ==
  ASSUME NEW rec \in JobRec, NEW j, NEW js
  PROVE  /\ Sent(rec, j, js) \in JobRec
         /\ Sent(rec, j, js).id = rec.id /\ Sent(rec, j, js).fg = rec.fg
         /\ Sent(rec, j, js).seen = rec.seen /\ Sent(rec, j, js).st = rec.st
         /\ Sent(rec, j, js).ended = rec.ended
<1>1. Capped(rec.sends + 1) \in 0..2
  BY DEF JobRec, Capped
<1> QED BY <1>1 DEF Sent, JobRec

\* One more telling of a job is the same job.
LEMMA ToldFacts ==
  ASSUME NEW rec \in JobRec
  PROVE  Capped(rec.told + 1) \in 0..2 /\ [rec EXCEPT !.told = Capped(rec.told + 1)] \in JobRec
BY DEF JobRec, Capped

\* A result that is dropped on purpose belongs to the same job.
LEMMA DroppedFacts ==
  ASSUME NEW rec \in JobRec
  PROVE  [rec EXCEPT !.dropped = TRUE] \in JobRec
BY DEF JobRec

\* buildJobResult() tells results, and changes no job otherwise.
LEMMA ShowFacts ==
  ASSUME JobsType, NEW ids, Show(ids)
  PROVE  JobsType' /\ \A j \in Job : SameJob(j)
<1>1. \A j \in Job : jobs'[j] = jobs[j] \/ jobs'[j] = [jobs[j] EXCEPT !.told = Capped(jobs[j].told + 1)]
  BY DEF Show
<1>2. \A j \in Job : jobs'[j] \in JobRec
  BY <1>1, JobFields, ToldFacts
<1>3. jobs' \in [Job -> JobRec]
  BY <1>2 DEF Show
<1>4. \A j \in Job : SameJob(j)
  BY <1>1, JobFields DEF SameJob, SameIdentity, JobRec
<1> QED BY <1>3, <1>4 DEF JobsType

\* consumeJobResults() marks results that are there, and gives rows that have
\* a timer a fresh one.
LEMMA ConsumeFacts ==
  ASSUME TypeOK, Marks, NoStrandedDelivery, NEW ids \in SUBSET Id, Consume(ids), loop' = loop
  PROVE  /\ suppressed' \subseteq Id /\ consumed' \subseteq Id /\ timer' \in [Id -> TimerRec]
         /\ deliveries' \subseteq Delivery /\ NoStrandedDelivery'
         /\ \A id \in consumed' : id \in consumed \/ (row[id] # 0 => jobs[row[id]].ended)
         /\ \A id \in Id : timer'[id].s = "off" <=> timer[id].s = "off"
         /\ \A id \in Id : timer'[id].s = "deferred" => timer'[id] = timer[id]
<1>1. \A id \in Consumable(ids) : id \in Id /\ row[id] # 0 /\ jobs[row[id]].ended
  BY DEF Consumable
<1>2. \A id \in Id : timer'[id] = timer[id] \/ (timer'[id] = Armed /\ id \in Consumable(ids))
  BY DEF Consume
<1>3. Armed \in TimerRec /\ Armed.s = "armed"
  BY Basics DEF Armed
<1>4. \A id \in Consumable(ids) : timer[id].s # "off"
  BY <1>1 DEF Marks
<1>5. timer' \in [Id -> TimerRec]
  BY <1>2, <1>3, Types DEF Consume, RowsType
<1>6. suppressed' \subseteq Id /\ consumed' \subseteq Id
  BY <1>1 DEF Consume, TypeOK
<1>7. deliveries' \subseteq deliveries
  BY DEF Consume
<1>8. deliveries' \subseteq Delivery /\ NoStrandedDelivery'
  BY <1>7 DEF TypeOK, NoStrandedDelivery
<1>9. \A id \in consumed' : id \in consumed \/ (row[id] # 0 => jobs[row[id]].ended)
  BY <1>1 DEF Consume
<1>10. \A id \in Id : /\ timer'[id].s = "off" <=> timer[id].s = "off"
                      /\ timer'[id].s = "deferred" => timer'[id] = timer[id]
  BY <1>2, <1>3, <1>4
<1> QED BY <1>5, <1>6, <1>8, <1>9, <1>10

\* A tool that consumes results, whatever it does to the records of jobs.
LEMMA ConsumeStep ==
  ASSUME IInv, JobsType', RestType', \A j \in Job : SameJob(j),
         NEW ids \in SUBSET Id, Consume(ids), watched' \subseteq watched,
         UNCHANGED <<row, nextAuto, released, inFlight, loop>>
  PROVE  IInv'
<1>1. TypeOK /\ Ids /\ Marks /\ NoStrandedDelivery /\ RowsType /\ DeliveryType
  BY Types DEF IInv, Ids
<1>2. /\ suppressed' \subseteq Id /\ consumed' \subseteq Id /\ timer' \in [Id -> TimerRec]
      /\ deliveries' \subseteq Delivery /\ NoStrandedDelivery'
      /\ \A id \in consumed' : id \in consumed \/ (row[id] # 0 => jobs[row[id]].ended)
      /\ \A id \in Id : timer'[id].s = "off" <=> timer[id].s = "off"
      /\ \A id \in Id : timer'[id].s = "deferred" => timer'[id] = timer[id]
  BY <1>1, ConsumeFacts
<1>3. RowsType' /\ DeliveryType'
  BY <1>1, <1>2 DEF RowsType, DeliveryType
<1>4. TypeOK'
  BY <1>3, Types
<1>5. Ids'
  BY <1>1, <1>2, <1>4, KeptRows
<1>6. Underway' = Underway
  BY DEF Underway, InFlight
<1> QED BY <1>2, <1>4, <1>5, <1>6, Assembled

\* Without attempt i the later ones move up by one.
LEMMA WithoutIndices ==
  ASSUME DeliveryType, NEW i \in DOMAIN inFlight, inFlight' = Without(i)
  PROVE  /\ inFlight' \in Seq(Attempt)
         /\ DOMAIN inFlight' = 1..(Len(inFlight) - 1)
         /\ \A j \in DOMAIN inFlight' : inFlight'[j] = inFlight[IF j < i THEN j ELSE j + 1]
<1> DEFINE a == SubSeq(inFlight, 1, i - 1)
           b == SubSeq(inFlight, i + 1, Len(inFlight))
<1>0. /\ inFlight \in Seq(Attempt) /\ DOMAIN inFlight = 1..Len(inFlight) /\ Len(inFlight) \in Nat
      /\ i \in 1..Len(inFlight) /\ \A j \in 1..Len(inFlight) : inFlight[j] \in Attempt
  BY InFlightFacts DEF DeliveryType
<1>1. /\ a \in Seq(Attempt) /\ Len(a) = i - 1
      /\ \A j \in 1..(i - 1) : a[j] = inFlight[j]
  BY <1>0, SubSeqProperties
<1>2. /\ b \in Seq(Attempt) /\ Len(b) = Len(inFlight) - i
      /\ \A j \in 1..(Len(inFlight) - i) : b[j] = inFlight[i + j]
  <2>1. \A j \in (i + 1)..Len(inFlight) : inFlight[j] \in Attempt
    BY <1>0
  <2>2. /\ b \in Seq(Attempt)
        /\ Len(b) = IF i + 1 <= Len(inFlight) THEN Len(inFlight) - (i + 1) + 1 ELSE 0
        /\ \A j \in 1..(Len(inFlight) - (i + 1) + 1) : b[j] = inFlight[(i + 1) + j - 1]
    BY <1>0, <2>1, SubSeqProperties
  <2> HIDE DEF b
  <2>3. Len(b) = Len(inFlight) - i
    BY <1>0, <2>2
  <2>4. ASSUME NEW j \in 1..(Len(inFlight) - i) PROVE b[j] = inFlight[i + j]
    <3>1. j \in 1..(Len(inFlight) - (i + 1) + 1) /\ (i + 1) + j - 1 = i + j
      BY <1>0
    <3>2. b[j] = inFlight[(i + 1) + j - 1]
      BY <2>2, <3>1
    <3> QED BY <3>1, <3>2
  <2> QED BY <2>2, <2>3, <2>4
<1>3. inFlight' = a \o b
  BY DEF Without
<1> HIDE DEF a, b
<1>4. /\ inFlight' \in Seq(Attempt)
      /\ Len(inFlight') = Len(a) + Len(b)
      /\ \A j \in 1..(Len(a) + Len(b)) :
           inFlight'[j] = IF j <= Len(a) THEN a[j] ELSE b[j - Len(a)]
  BY <1>1, <1>2, <1>3, ConcatProperties
<1>5. DOMAIN inFlight' = 1..(Len(inFlight) - 1)
  BY <1>0, <1>1, <1>2, <1>4, LenProperties
<1>6. ASSUME NEW j \in DOMAIN inFlight'
      PROVE  inFlight'[j] = inFlight[IF j < i THEN j ELSE j + 1]
  <2>1. CASE j < i
    <3>1. j \in 1..(i - 1) /\ j <= Len(a) /\ j \in 1..(Len(a) + Len(b))
      BY <2>1, <1>0, <1>1, <1>2, <1>5
    <3> QED BY <2>1, <3>1, <1>1, <1>4
  <2>2. CASE ~(j < i)
    <3>1. /\ ~(j <= Len(a)) /\ j \in 1..(Len(a) + Len(b))
          /\ j - Len(a) \in 1..(Len(inFlight) - i) /\ i + (j - Len(a)) = j + 1
      BY <2>2, <1>0, <1>1, <1>2, <1>5
    <3>2. inFlight'[j] = b[j - Len(a)]
      BY <3>1, <1>4
    <3>3. b[j - Len(a)] = inFlight[i + (j - Len(a))]
      BY <3>1, <1>2
    <3> QED BY <2>2, <3>1, <3>2, <3>3
  <2> QED BY <2>1, <2>2
<1> QED BY <1>4, <1>5, <1>6

\* What is left in flight without attempt i: the other attempts.
LEMMA WithoutFacts ==
  ASSUME DeliveryType, NEW i \in DOMAIN inFlight, inFlight' = Without(i)
  PROVE  /\ inFlight' \in Seq(Attempt)
         /\ \A n \in Underway : n = Name(inFlight[i]) \/ n \in Underway'
<1>0. DOMAIN inFlight = 1..Len(inFlight) /\ Len(inFlight) \in Nat
  BY InFlightFacts
<1>1. /\ inFlight' \in Seq(Attempt)
      /\ DOMAIN inFlight' = 1..(Len(inFlight) - 1)
      /\ \A j \in DOMAIN inFlight' : inFlight'[j] = inFlight[IF j < i THEN j ELSE j + 1]
  BY WithoutIndices
<1>2. ASSUME NEW k \in DOMAIN inFlight, k # i
      PROVE  \E j \in DOMAIN inFlight' : inFlight'[j] = inFlight[k]
  <2>1. CASE k < i
    <3>1. k \in DOMAIN inFlight'
      BY <2>1, <1>0, <1>1
    <3> QED BY <2>1, <3>1, <1>1
  <2>2. CASE k > i
    <3>1. k - 1 \in DOMAIN inFlight' /\ ~(k - 1 < i) /\ (k - 1) + 1 = k
      BY <2>2, <1>0, <1>1
    <3> QED BY <3>1, <1>1
  <2> QED BY <2>1, <2>2, <1>2, <1>0
<1>3. ASSUME NEW n \in Underway, n # Name(inFlight[i])
      PROVE  n \in Underway'
  <2>1. PICK k \in DOMAIN inFlight : n = Name(inFlight[k])
    BY DEF Underway, InFlight
  <2>2. PICK j \in DOMAIN inFlight' : inFlight'[j] = inFlight[k]
    BY <1>2, <1>3, <2>1
  <2> QED BY <2>1, <2>2 DEF Underway, InFlight
<1> QED BY <1>1, <1>3

\* A settled attempt wakes the evictions that wait for it, and no other.
LEMMA WokenFacts ==
  ASSUME TypeOK, NEW d
  PROVE  /\ Woken(d) \in [Id -> TimerRec]
         /\ \A id \in Id : Woken(d)[id].s = "off" <=> timer[id].s = "off"
         /\ \A id \in Id : Woken(d)[id].s = "deferred" =>
              Woken(d)[id] = timer[id] /\ timer[id].on # Name(d)
<1>1. \A id \in Id : timer[id] \in TimerRec
  BY Types DEF RowsType
<1>2. \A id \in Id : Woken(d)[id] = IF timer[id].s = "deferred" /\ timer[id].on = Name(d)
                                    THEN [timer[id] EXCEPT !.s = "evicting"] ELSE timer[id]
  BY DEF Woken
<1>3. \A id \in Id : [timer[id] EXCEPT !.s = "evicting"] \in TimerRec
                     /\ [timer[id] EXCEPT !.s = "evicting"].s = "evicting"
  BY <1>1 DEF TimerRec
<1>4. Woken(d) \in [Id -> TimerRec]
  BY <1>1, <1>3 DEF Woken
<1> QED BY <1>2, <1>3, <1>4

\* A taken delivery is dropped or in flight; the loop is off only when nothing
\* is queued.
LEMMA TakeStep ==
  ASSUME IInv, NEW d \in deliveries, Take(d)
  PROVE  IInv'
<1>0. TypeOK /\ JobsType /\ DeliveryType /\ RestType /\ NoStrandedDelivery
  BY Types DEF IInv
<1>1. UNCHANGED <<jobs, row, nextAuto, markers, timer, loop, wait, evalWait, owner>>
  BY DEF Take
<1>2. d \in Delivery /\ deliveries' \subseteq deliveries
  BY <1>0 DEF Take, DeliveryType
<1>3. inFlight' \in Seq(Attempt) /\ Underway \subseteq Underway'
  <2>1. CASE Suppressed(d.id)
    BY <2>1, <1>0 DEF Take, Underway, InFlight, DeliveryType
  <2>2. CASE ~Suppressed(d.id)
    <3>1. inFlight' = inFlight \o Started(d) /\ Started(d) \in Seq(Attempt)
      BY <2>2, <1>0, <1>2, StartedFacts DEF Take
    <3> QED BY <3>1, <1>0, AppendedFlight
  <2> QED BY <2>1, <2>2
<1>4. JobsType' /\ RestType' /\ DeliveryType' /\ NoStrandedDelivery'
  BY <1>0, <1>1, <1>2, <1>3 DEF JobsType, RestType, DeliveryType, NoStrandedDelivery, owner
<1>5. suppressed' \subseteq Id /\ watched' \subseteq Id
  BY <1>0, <1>1 DEF TypeOK, markers
<1>6. \A j \in Job : SameJob(j)
  BY <1>1 DEF SameJob, SameIdentity
<1> QED BY <1>1, <1>3, <1>4, <1>5, <1>6, QuietStep DEF markers

\* A step of the loop that moves its own state only.
LEMMA LoopStep ==
  ASSUME IInv, LoopRunsDry \/ LoopEnds
  PROVE  IInv'
<1>0. TypeOK /\ JobsType /\ DeliveryType /\ RestType /\ NoStrandedDelivery
  BY Types DEF IInv
<1>1. UNCHANGED <<jobs, row, nextAuto, markers, timer, deliveries, inFlight, wait, evalWait, owner>>
  BY DEF LoopRunsDry, LoopEnds
<1>2. JobsType' /\ RestType' /\ DeliveryType' /\ NoStrandedDelivery'
  BY <1>0, <1>1 DEF JobsType, RestType, DeliveryType, NoStrandedDelivery, owner, LoopRunsDry, LoopEnds
<1>3. suppressed' \subseteq Id /\ watched' \subseteq Id /\ Underway' = Underway
  BY <1>0, <1>1 DEF TypeOK, markers, Underway, InFlight
<1>4. \A j \in Job : SameJob(j)
  BY <1>1 DEF SameJob, SameIdentity
<1> QED BY <1>1, <1>2, <1>3, <1>4, QuietStep DEF markers

\* Attempts that go on in their places, with nothing else changed but records.
LEMMA AdvanceStep ==
  ASSUME IInv, DOMAIN inFlight' = DOMAIN inFlight,
         inFlight' = [i \in DOMAIN inFlight |-> inFlight'[i]],
         \A i \in DOMAIN inFlight :
           \E pc \in {"formatting", "parked", "built", "accepted", "failed"} :
             inFlight'[i] = [inFlight[i] EXCEPT !.pc = pc],
         JobsType', RestType', \A j \in Job : SameJob(j),
         UNCHANGED <<row, nextAuto, markers, timer, deliveries, loop>>
  PROVE  IInv'
<1>0. TypeOK /\ DeliveryType /\ NoStrandedDelivery
  BY Types DEF IInv
<1>1. inFlight' \in Seq(Attempt) /\ Underway' = Underway
  BY <1>0, AdvancedFlight
<1>2. DeliveryType' /\ NoStrandedDelivery' /\ suppressed' \subseteq Id /\ watched' \subseteq Id
  BY <1>0, <1>1 DEF DeliveryType, NoStrandedDelivery, TypeOK, markers
<1> QED BY <1>1, <1>2, QuietStep DEF markers

\* An attempt is parked on the yield queue, or skipped.
LEMMA FormattedStep ==
  ASSUME IInv, NEW i \in DOMAIN inFlight, Formatted(i)
  PROVE  IInv'
<1>0. TypeOK /\ JobsType /\ DeliveryType /\ RestType
  BY Types DEF IInv
<1>1. UNCHANGED <<jobs, row, nextAuto, markers, timer, deliveries, loop, wait, evalWait, owner>>
  BY DEF Formatted
<1>2. PICK pc \in {"accepted", "parked"} : inFlight' = [inFlight EXCEPT ![i].pc = pc]
  BY DEF Formatted
<1>3. \A k \in DOMAIN inFlight : inFlight[k] = [inFlight[k] EXCEPT !.pc = inFlight[k].pc]
  BY <1>0, InFlightFacts DEF Attempt
<1>4. \A k \in DOMAIN inFlight :
        inFlight[k].pc \in {"formatting", "parked", "built", "accepted", "failed"}
  BY <1>0, InFlightFacts DEF Attempt
<1>5. \A k \in DOMAIN inFlight :
        \E c \in {"formatting", "parked", "built", "accepted", "failed"} :
          inFlight'[k] = [inFlight[k] EXCEPT !.pc = c]
  BY <1>2, <1>3, <1>4
<1>6. DOMAIN inFlight' = DOMAIN inFlight /\ inFlight' = [k \in DOMAIN inFlight |-> inFlight'[k]]
  BY <1>2
<1>7. JobsType' /\ RestType' /\ \A j \in Job : SameJob(j)
  BY <1>0, <1>1 DEF JobsType, RestType, owner, SameJob, SameIdentity
<1> QED BY <1>1, <1>5, <1>6, <1>7, AdvanceStep

\* The attempts at "built" go on, the others stay.
LEMMA ConcludeFacts ==
  ASSUME DeliveryType, NEW pc \in {"accepted", "failed"}, Conclude(pc)
  PROVE  /\ DOMAIN inFlight' = DOMAIN inFlight
         /\ inFlight' = [i \in DOMAIN inFlight |-> inFlight'[i]]
         /\ \A i \in DOMAIN inFlight :
              \E c \in {"formatting", "parked", "built", "accepted", "failed"} :
                inFlight'[i] = [inFlight[i] EXCEPT !.pc = c]
<1>1. \A k \in DOMAIN inFlight :
        /\ inFlight[k] = [inFlight[k] EXCEPT !.pc = inFlight[k].pc]
        /\ inFlight[k].pc \in {"formatting", "parked", "built", "accepted", "failed"}
  BY InFlightFacts DEF Attempt
<1>2. \A k \in DOMAIN inFlight :
        inFlight'[k] = inFlight[k] \/ inFlight'[k] = [inFlight[k] EXCEPT !.pc = pc]
  BY DEF Conclude
<1> QED BY <1>1, <1>2 DEF Conclude

\* What is parked fails, the others stay: the yield queue is cleared.
LEMMA ClearedFacts ==
  ASSUME DeliveryType,
         inFlight' = [i \in DOMAIN inFlight |->
           IF inFlight[i].pc = "parked" THEN [inFlight[i] EXCEPT !.pc = "failed"] ELSE inFlight[i]]
  PROVE  /\ DOMAIN inFlight' = DOMAIN inFlight
         /\ inFlight' = [i \in DOMAIN inFlight |-> inFlight'[i]]
         /\ \A i \in DOMAIN inFlight :
              \E c \in {"formatting", "parked", "built", "accepted", "failed"} :
                inFlight'[i] = [inFlight[i] EXCEPT !.pc = c]
<1>1. \A k \in DOMAIN inFlight :
        /\ inFlight[k] = [inFlight[k] EXCEPT !.pc = inFlight[k].pc]
        /\ inFlight[k].pc \in {"formatting", "parked", "built", "accepted", "failed"}
  BY InFlightFacts DEF Attempt
<1>2. \A k \in DOMAIN inFlight :
        inFlight'[k] = inFlight[k] \/ inFlight'[k] = [inFlight[k] EXCEPT !.pc = "failed"]
  OBVIOUS
<1> QED BY <1>1, <1>2

\* What is parked is built into a message, or found stale.
LEMMA DrainStep ==
  ASSUME IInv, Drain
  PROVE  IInv'
<1>0. TypeOK /\ JobsType /\ DeliveryType /\ RestType
  BY Types DEF IInv
<1>1. UNCHANGED <<jobs, row, nextAuto, markers, timer, deliveries, loop, wait, evalWait, owner>>
  BY DEF Drain
<1>2. \A k \in DOMAIN inFlight :
        /\ inFlight[k] = [inFlight[k] EXCEPT !.pc = inFlight[k].pc]
        /\ inFlight[k].pc \in {"formatting", "parked", "built", "accepted", "failed"}
  BY <1>0, InFlightFacts DEF Attempt
<1>3. \A k \in DOMAIN inFlight :
        \/ inFlight'[k] = inFlight[k]
        \/ inFlight'[k] = [inFlight[k] EXCEPT !.pc = "failed"]
        \/ inFlight'[k] = [inFlight[k] EXCEPT !.pc = "built"]
  BY DEF Drain
<1>4. \A k \in DOMAIN inFlight :
        \E c \in {"formatting", "parked", "built", "accepted", "failed"} :
          inFlight'[k] = [inFlight[k] EXCEPT !.pc = c]
  BY <1>2, <1>3
<1>5. DOMAIN inFlight' = DOMAIN inFlight /\ inFlight' = [k \in DOMAIN inFlight |-> inFlight'[k]]
  BY DEF Drain
<1>6. JobsType' /\ RestType' /\ \A j \in Job : SameJob(j)
  BY <1>0, <1>1 DEF JobsType, RestType, owner, SameJob, SameIdentity
<1> QED BY <1>1, <1>4, <1>5, <1>6, AdvanceStep

\* The message enters the transcript.
LEMMA CommitStep ==
  ASSUME IInv, Commit
  PROVE  IInv'
<1>0. TypeOK /\ JobsType /\ DeliveryType /\ RestType
  BY Types DEF IInv
<1>1. Conclude("accepted") /\ UNCHANGED <<row, nextAuto, markers, timer, deliveries, loop, wait, evalWait, owner>>
  BY DEF Commit
<1>2. \A j \in Job : jobs'[j] = jobs[j] \/ jobs'[j] = [jobs[j] EXCEPT !.told = Capped(jobs[j].told + 1)]
  BY DEF Commit
<1>3. \A j \in Job : jobs'[j] \in JobRec
  BY <1>0, <1>2, JobFields, ToldFacts
<1>4. JobsType'
  BY <1>3 DEF Commit, JobsType
<1>5. \A j \in Job : SameJob(j)
  BY <1>0, <1>2, JobFields DEF SameJob, SameIdentity, JobRec
<1>6. RestType'
  BY <1>0, <1>1 DEF RestType, owner
<1> QED BY <1>0, <1>1, <1>4, <1>5, <1>6, ConcludeFacts, AdvanceStep

\* The run ends before it commits the message.
LEMMA DropInjectionStep ==
  ASSUME IInv, DropInjection
  PROVE  IInv'
<1>0. TypeOK /\ JobsType /\ DeliveryType /\ RestType
  BY Types DEF IInv
<1>1. /\ Conclude("failed") /\ failures < MaxFailure /\ failures' = failures + 1
      /\ UNCHANGED <<jobs, row, nextAuto, markers, timer, deliveries, loop, wait, evalWait, session, epoch>>
  BY DEF DropInjection
<1>2. JobsType' /\ \A j \in Job : SameJob(j)
  BY <1>0, <1>1 DEF JobsType, SameJob, SameIdentity
<1>3. RestType'
  BY <1>0, <1>1, Basics DEF RestType
<1> QED BY <1>0, <1>1, <1>2, <1>3, ConcludeFacts, AdvanceStep

\* beginDispose() clears the yield queue.
LEMMA BeginDisposeStep ==
  ASSUME IInv, BeginDispose
  PROVE  IInv'
<1>0. TypeOK /\ JobsType /\ DeliveryType /\ RestType
  BY Types DEF IInv
<1>1. /\ session' = "disposing" /\ evalWait' = {}
      /\ inFlight' = [i \in DOMAIN inFlight |->
           IF inFlight[i].pc = "parked" THEN [inFlight[i] EXCEPT !.pc = "failed"] ELSE inFlight[i]]
      /\ UNCHANGED <<jobs, row, nextAuto, markers, timer, deliveries, loop, wait, epoch, failures>>
  BY DEF BeginDispose
<1>2. JobsType' /\ RestType' /\ \A j \in Job : SameJob(j)
  BY <1>0, <1>1 DEF JobsType, RestType, SameJob, SameIdentity
<1> QED BY <1>0, <1>1, <1>2, ClearedFacts, AdvanceStep

\* A row that goes took no run that goes on with it; its timer was the one
\* that fired, or waited for an attempt.
LEMMA EvictRowStep ==
  ASSUME IInv, NEW id \in Id, timer[id].s # "off", EvictRow(id),
         UNCHANGED <<nextAuto, released, delivery, wait, evalWait, owner>>
  PROVE  IInv'
<1>0. TypeOK /\ Ids /\ JobsType /\ RowsType /\ DeliveryType /\ RestType /\ NoStrandedDelivery
  BY Types DEF IInv, Ids
<1>1. row[id] # 0 /\ jobs[row[id]].ended /\ row[id] \in Job
  BY <1>0, RowFacts DEF Ids, Marks
<1>2. Evict({id}) /\ {id} \in SUBSET Id
  BY DEF EvictRow
<1>3. jobs' = jobs \/ jobs' = [jobs EXCEPT ![row[id]].dropped = TRUE]
  BY DEF EvictRow
<1>4. JobsType' /\ \A j \in Job : SameJob(j)
  <2>1. \A j \in Job : jobs'[j] = jobs[j] \/ jobs'[j] = [jobs[j] EXCEPT !.dropped = TRUE]
    BY <1>0, <1>3 DEF JobsType
  <2>2. ASSUME NEW j \in Job PROVE jobs'[j] \in JobRec
    <3>1. jobs[j] \in JobRec
      BY <1>0, JobFields
    <3>2. [jobs[j] EXCEPT !.dropped = TRUE] \in JobRec
      BY <3>1, DroppedFacts
    <3> QED BY <2>1, <3>1, <3>2
  <2>3. jobs' \in [Job -> JobRec]
    BY <1>0, <1>3, <2>2 DEF JobsType
  <2>4. \A j \in Job : SameJob(j)
    BY <1>0, <2>1, JobFields DEF SameJob, SameIdentity, JobRec
  <2> QED BY <2>3, <2>4 DEF JobsType
<1>5. /\ row' \in [Id -> 0..MaxJob] /\ timer' \in [Id -> TimerRec]
      /\ suppressed' \subseteq Id /\ watched' \subseteq Id /\ consumed' \subseteq Id
      /\ \A x \in Id : timer'[x] = IF x \in {id} THEN NoTimer ELSE timer[x]
  BY <1>0, <1>2, EvictFacts
<1>6. RowsType' /\ RestType' /\ DeliveryType' /\ NoStrandedDelivery' /\ Underway' = Underway
  BY <1>0, <1>5 DEF RowsType, RestType, DeliveryType, NoStrandedDelivery, Underway, InFlight,
                    delivery, owner
<1>7. TypeOK'
  BY <1>4, <1>6, Types
<1>8. Ids'
  BY <1>0, <1>1, <1>2, <1>4, KeptEvict
<1>9. \A x \in Id : timer'[x].s = "deferred" => timer'[x] = timer[x]
  BY <1>5 DEF NoTimer
<1> QED BY <1>6, <1>7, <1>8, <1>9, Assembled

\* An eviction that waited for an attempt goes ahead.
LEMMA DeferredEvictsStep ==
  ASSUME IInv, NEW id \in Id, DeferredEvicts(id)
  PROVE  IInv'
BY EvictRowStep DEF DeferredEvicts

\* A timer evicts its row, or waits for an attempt of that row that is in
\* flight.
LEMMA TimerFiresStep ==
  ASSUME IInv, NEW id \in Id, TimerFires(id)
  PROVE  IInv'
<1> DEFINE held == {i \in DOMAIN inFlight : inFlight[i].id = id}
<1>0. TypeOK /\ Ids /\ JobsType /\ RowsType /\ DeliveryType /\ RestType /\ NoStrandedDelivery
  BY Types DEF IInv, Ids
<1>1. timer[id].s = "armed" /\ UNCHANGED <<nextAuto, released, delivery, wait, evalWait, owner>>
  BY DEF TimerFires
<1>2. CASE held = {} \/ ~Suppressed(id)
  BY <1>1, <1>2, EvictRowStep DEF TimerFires
<1>3. CASE ~(held = {} \/ ~Suppressed(id))
  <2>1. /\ UNCHANGED <<jobs, row, suppressed, watched, consumed>>
        /\ \E i \in held :
             timer' = [timer EXCEPT ![id] = [s |-> "deferred", on |-> Name(inFlight[i])]]
    BY <1>3 DEF TimerFires
  <2>2. PICK i \in DOMAIN inFlight :
          timer' = [timer EXCEPT ![id] = [s |-> "deferred", on |-> Name(inFlight[i])]]
    BY <2>1
  <2>3. inFlight[i] \in Attempt /\ Name(inFlight[i]) \in Underway
    BY <1>0, InFlightFacts DEF Underway
  <2>4. Name(inFlight[i]) \in (0..MaxJob) \X (0..2)
    BY <2>3, Basics DEF Attempt, Name
  <2>5. /\ timer' \in [Id -> TimerRec]
        /\ timer'[id].s = "deferred" /\ timer'[id].on \in Underway
        /\ \A x \in Id : x # id => timer'[x] = timer[x]
    BY <1>0, <2>2, <2>3, <2>4 DEF RowsType, TimerRec
  <2>6. \A j \in Job : SameJob(j)
    BY <2>1 DEF SameJob, SameIdentity
  <2>7. TypeOK'
    <3>1. JobsType' /\ RowsType' /\ DeliveryType' /\ RestType'
      BY <1>0, <1>1, <2>1, <2>5 DEF JobsType, RowsType, DeliveryType, RestType, delivery, owner
    <3> QED BY <3>1, Types
  <2>8. Ids'
    <3>1. \A x \in Id : timer'[x].s = "off" <=> timer[x].s = "off"
      BY <1>1, <2>5
    <3> QED BY <1>0, <1>1, <2>1, <2>6, <2>7, <3>1, KeptRows
  <2>9. Deferred'
    <3>1. Underway' = Underway
      BY <1>1 DEF Underway, InFlight, delivery
    <3> QED BY <2>5, <3>1 DEF IInv, Deferred
  <2>10. NoStrandedDelivery'
    BY <1>0, <1>1 DEF NoStrandedDelivery, delivery
  <2> QED BY <2>7, <2>8, <2>9, <2>10 DEF IInv, Ids
<1> QED BY <1>2, <1>3

\* The session leaves a transcript: the rows that go are those whose runs have
\* settled.
LEMMA CancelOwnStep ==
  ASSUME IInv, CancelOwn, RestType'
  PROVE  IInv'
<1> DEFINE done == {id \in Id : row[id] # 0 /\ Settled(row[id])}
<1>0. TypeOK /\ Ids /\ JobsType /\ RowsType /\ DeliveryType /\ NoStrandedDelivery
  BY Types DEF IInv, Ids
<1>1. /\ Evict(done) /\ UNCHANGED <<nextAuto, released, loop>>
      /\ deliveries' \subseteq deliveries
      /\ inFlight' = [i \in DOMAIN inFlight |->
           IF inFlight[i].pc = "parked" THEN [inFlight[i] EXCEPT !.pc = "failed"] ELSE inFlight[i]]
  BY DEF CancelOwn
<1>2. done \in SUBSET Id /\ \A id \in done : row[id] # 0 => jobs[row[id]].ended
  BY <1>0, RowFacts DEF Settled, Ids, Rows
<1>3. JobsType' /\ \A j \in Job : SameJob(j)
  <2>1. ASSUME NEW j \in Job
        PROVE  jobs'[j] \in JobRec /\ SameJob(j)
    <3>1. CASE jobs[j].st = "running"
      <4>1. jobs'[j] = [jobs[j] EXCEPT !.st = "cancelled"]
        BY <3>1 DEF CancelOwn
      <4> QED BY <4>1, <3>1, <1>0, JobFields DEF JobRec, SameJob, SameIdentity
    <3>2. CASE jobs[j].st # "running"
      <4>1. PICK x \in BOOLEAN : jobs'[j] = [jobs[j] EXCEPT !.dropped = x]
        <5>1. jobs'[j] = [jobs[j] EXCEPT !.dropped =
                            @ \/ (jobs[j].st = "settled" /\ jobs[j].told = 0)]
          BY <3>2 DEF CancelOwn
        <5> QED BY <5>1
      <4> QED BY <4>1, <1>0, JobFields DEF JobRec, SameJob, SameIdentity
    <3> QED BY <3>1, <3>2
  <2>2. jobs' \in [Job -> JobRec]
    BY <2>1 DEF CancelOwn
  <2> QED BY <2>1, <2>2 DEF JobsType
<1> HIDE DEF done
<1>4. /\ row' \in [Id -> 0..MaxJob] /\ timer' \in [Id -> TimerRec]
      /\ suppressed' \subseteq Id /\ watched' \subseteq Id /\ consumed' \subseteq Id
      /\ \A x \in Id : timer'[x] = IF x \in done THEN NoTimer ELSE timer[x]
  BY <1>0, <1>1, <1>2, EvictFacts
<1>5. inFlight' \in Seq(Attempt) /\ Underway' = Underway
  BY <1>0, <1>1, ClearedFacts, AdvancedFlight
<1>6. RowsType' /\ DeliveryType' /\ NoStrandedDelivery'
  BY <1>0, <1>1, <1>4, <1>5 DEF RowsType, DeliveryType, NoStrandedDelivery
<1>7. TypeOK'
  BY <1>3, <1>6, Types
<1>8. Ids'
  BY <1>0, <1>1, <1>2, <1>3, KeptEvict
<1>9. \A x \in Id : timer'[x].s = "deferred" => timer'[x] = timer[x]
  BY <1>4 DEF NoTimer
<1> QED BY <1>5, <1>6, <1>7, <1>8, <1>9, Assembled

\* The session moves to another transcript.
LEMMA TransitionStep ==
  ASSUME IInv, Transition
  PROVE  IInv'
<1>1. RestType
  BY Types DEF IInv
<1>2. RestType'
  BY <1>1, Basics DEF RestType, Transition
<1> QED BY <1>2, CancelOwnStep DEF Transition

\* The owner's jobs go with the session.
LEMMA DisposeOwnedStep ==
  ASSUME IInv, DisposeOwned
  PROVE  IInv'
<1>1. RestType
  BY Types DEF IInv
<1>2. RestType'
  BY <1>1 DEF RestType, DisposeOwned
<1> QED BY <1>2, CancelOwnStep DEF DisposeOwned

\* The end of an attempt, whatever it does to the records: the evictions that
\* waited for it are woken, and the loop goes on if something is queued.
LEMMA AttemptEnds ==
  ASSUME IInv, NEW i \in DOMAIN inFlight, inFlight' = Without(i), Restart,
         JobsType', \A j \in Job : SameJob(j),
         deliveries' \subseteq Delivery,
         consumed' \subseteq Id,
         \A id \in consumed' : id \in consumed \/ (row[id] # 0 => jobs[row[id]].ended),
         timer' \in [Id -> TimerRec],
         \A id \in Id : timer'[id].s = "off" <=> timer[id].s = "off",
         \A id \in Id : timer'[id].s = "deferred" => timer'[id] = Woken(inFlight[i])[id],
         UNCHANGED <<row, nextAuto, suppressed, watched, released, wait, evalWait, owner>>
  PROVE  IInv'
<1>0. TypeOK /\ Ids /\ RowsType /\ DeliveryType /\ RestType /\ NoStrandedDelivery
  BY Types DEF IInv, Ids
<1>1. /\ inFlight' \in Seq(Attempt)
      /\ \A n \in Underway : n = Name(inFlight[i]) \/ n \in Underway'
  BY <1>0, WithoutFacts
<1>2. DeliveryType' /\ NoStrandedDelivery'
  BY <1>0, <1>1 DEF DeliveryType, NoStrandedDelivery, Restart
<1>3. RowsType' /\ RestType'
  BY <1>0 DEF RowsType, RestType, owner
<1>4. TypeOK'
  BY <1>2, <1>3, Types
<1>5. Ids'
  BY <1>0, <1>4, KeptRows
<1>6. Deferred'
  <2> SUFFICES ASSUME NEW id \in Id, timer'[id].s = "deferred"
               PROVE  timer'[id].on \in Underway'
    BY DEF Deferred
  <2>1. timer'[id] = timer[id] /\ timer[id].on # Name(inFlight[i])
    BY <1>0, WokenFacts
  <2>2. timer[id].on \in Underway
    BY <2>1 DEF IInv, Deferred
  <2> QED BY <2>1, <2>2, <1>1
<1> QED BY <1>2, <1>4, <1>5, <1>6 DEF IInv, Ids

\* The sink returned: a row gets a fresh timer only if its run has settled.
LEMMA AttemptAcceptedStep ==
  ASSUME IInv, NEW i \in DOMAIN inFlight, AttemptAccepted(i)
  PROVE  IInv'
<1> DEFINE d == inFlight[i]
<1>0. TypeOK /\ Ids /\ JobsType /\ RowsType /\ DeliveryType
  BY Types DEF IInv, Ids
<1>d. d.id \in Id
  BY <1>0, InFlightFacts DEF Attempt
<1>1. /\ inFlight' = Without(i) /\ Restart /\ deliveries' = deliveries
      /\ consumed' = consumed \cup Consumable({d.id})
      /\ \/ timer' = Woken(d)
         \/ timer' = [Woken(d) EXCEPT ![d.id] = Armed]
            /\ ((d.id \in consumed /\ row[d.id] # 0) \/ d.id \in Consumable({d.id}))
      /\ UNCHANGED <<jobs, row, nextAuto, suppressed, watched, released, wait, evalWait, owner>>
  BY DEF AttemptAccepted
<1>2. \A id \in Consumable({d.id}) : id \in Id /\ row[id] # 0 /\ jobs[row[id]].ended
  BY <1>d DEF Consumable
<1>3. d.id \in consumed /\ row[d.id] # 0 => jobs[row[d.id]].ended
  BY <1>0 DEF Ids, Marks
<1> HIDE DEF d
<1>4. /\ Woken(d) \in [Id -> TimerRec]
      /\ \A id \in Id : Woken(d)[id].s = "off" <=> timer[id].s = "off"
  BY <1>0, WokenFacts
<1>5. Armed \in TimerRec /\ Armed.s = "armed"
  BY Basics DEF Armed
<1>6. /\ timer' \in [Id -> TimerRec]
      /\ \A id \in Id : timer'[id].s = "off" <=> timer[id].s = "off"
      /\ \A id \in Id : timer'[id].s = "deferred" => timer'[id] = Woken(d)[id]
  <2>1. CASE timer' = Woken(d)
    BY <2>1, <1>4
  <2>2. CASE /\ timer' = [Woken(d) EXCEPT ![d.id] = Armed]
             /\ ((d.id \in consumed /\ row[d.id] # 0) \/ d.id \in Consumable({d.id}))
    <3>1. row[d.id] # 0 /\ jobs[row[d.id]].ended
      BY <2>2, <1>2, <1>3
    <3>2. timer[d.id].s # "off"
      BY <3>1, <1>0, <1>d DEF Ids, Marks
    <3>3. \A id \in Id : timer'[id] = IF id = d.id THEN Armed ELSE Woken(d)[id]
      BY <2>2, <1>4
    <3> QED BY <2>2, <3>2, <3>3, <1>4, <1>5
  <2> QED BY <1>1, <2>1, <2>2
<1>7. consumed' \subseteq Id /\ \A id \in consumed' : id \in consumed \/ jobs[row[id]].ended
  BY <1>0, <1>1, <1>2 DEF RowsType
<1>8. JobsType' /\ deliveries' \subseteq Delivery /\ \A j \in Job : SameJob(j)
  BY <1>0, <1>1 DEF JobsType, DeliveryType, SameJob, SameIdentity
<1> QED BY <1>1, <1>6, <1>7, <1>8, AttemptEnds DEF d

\* The sink threw: the retry is queued, and the loop restarted.
LEMMA AttemptFailedStep ==
  ASSUME IInv, NEW i \in DOMAIN inFlight, AttemptFailed(i)
  PROVE  IInv'
<1> DEFINE d == inFlight[i]
<1>0. TypeOK /\ Ids /\ JobsType /\ RowsType /\ DeliveryType
  BY Types DEF IInv, Ids
<1>d. d.id \in Id /\ d.job \in Job /\ d.nth \in 1..2
  BY <1>0, InFlightFacts DEF Attempt
<1>1. /\ inFlight' = Without(i) /\ Restart /\ timer' = Woken(d)
      /\ deliveries' \subseteq deliveries \cup {[job |-> d.job, id |-> d.id, nth |-> d.nth]}
      /\ jobs' = jobs \/ jobs' = [jobs EXCEPT ![d.job].dropped = TRUE]
      /\ UNCHANGED <<row, nextAuto, markers, wait, evalWait, owner>>
  BY DEF AttemptFailed
<1>2. deliveries' \subseteq Delivery
  <2>1. [job |-> d.job, id |-> d.id, nth |-> d.nth] \in Delivery
    BY <1>d DEF Delivery
  <2> QED BY <2>1, <1>0, <1>1 DEF DeliveryType
<1> HIDE DEF d
<1>3. JobsType' /\ \A j \in Job : SameJob(j)
  <2>1. \A j \in Job : jobs'[j] = jobs[j] \/ jobs'[j] = [jobs[j] EXCEPT !.dropped = TRUE]
    BY <1>0, <1>1 DEF JobsType
  <2>2. ASSUME NEW j \in Job PROVE jobs'[j] \in JobRec
    <3>1. jobs[j] \in JobRec
      BY <1>0, JobFields
    <3>2. [jobs[j] EXCEPT !.dropped = TRUE] \in JobRec
      BY <3>1, DroppedFacts
    <3> QED BY <2>1, <3>1, <3>2
  <2>3. jobs' \in [Job -> JobRec]
    BY <1>0, <1>1, <2>2 DEF JobsType
  <2>4. \A j \in Job : SameJob(j)
    BY <1>0, <2>1, JobFields DEF SameJob, SameIdentity, JobRec
  <2> QED BY <2>3, <2>4 DEF JobsType
<1>4. /\ timer' \in [Id -> TimerRec]
      /\ \A id \in Id : timer'[id].s = "off" <=> timer[id].s = "off"
  BY <1>0, <1>1, WokenFacts
<1>5. consumed' = consumed /\ consumed \subseteq Id
  BY <1>0, <1>1 DEF RowsType, markers
<1> QED BY <1>1, <1>2, <1>3, <1>4, <1>5, AttemptEnds DEF d, markers

-----------------------------------------------------------------------------
(* The calls. *)

\* The record of a new job.
LEMMA BornFacts ==
  ASSUME TypeOK, NEW id \in Id, NEW st \in {"running", "settled"}, NEW fg \in BOOLEAN
  PROVE  /\ Born(id, st, fg) \in JobRec
         /\ Born(id, st, fg).id = id /\ Born(id, st, fg).st = st /\ Born(id, st, fg).fg = fg
         /\ Born(id, st, fg).seen = ~fg /\ Born(id, st, fg).ended = (st = "settled")
<1>1. epoch \in 0..MaxEpoch
  BY DEF TypeOK
<1>2. Unborn \in JobRec
  BY Basics
<1>3. (st = "settled") \in BOOLEAN /\ (~fg) \in BOOLEAN
  OBVIOUS
<1>4. Born(id, st, fg) \in JobRec
  BY <1>1, <1>2, <1>3 DEF Born, JobRec
<1>5. Born(id, st, fg).id = id /\ Born(id, st, fg).st = st /\ Born(id, st, fg).fg = fg
  BY <1>2 DEF Born, JobRec
<1>6. Born(id, st, fg).seen = ~fg /\ Born(id, st, fg).ended = (st = "settled")
  BY <1>2 DEF Born, JobRec
<1> QED BY <1>4, <1>5, <1>6

\* A job that is added to the records leaves the others the same.
LEMMA AddedFacts ==
  ASSUME JobsType, NEW j \in Job, NEW rec \in JobRec, jobs' = [jobs EXCEPT ![j] = rec]
  PROVE  JobsType' /\ jobs'[j] = rec /\ \A k \in Job : k # j => SameJob(k)
BY DEF JobsType, SameJob, SameIdentity

\* A job takes the next auto id.
LEMMA RegisterAutoStep ==
  ASSUME IInv, NEW fg \in BOOLEAN, RegisterAuto(fg)
  PROVE  IInv'
<1>0. TypeOK /\ Ids /\ JobsType /\ RowsType /\ DeliveryType /\ RestType /\ NoStrandedDelivery
  BY Types DEF IInv, Ids
<1> DEFINE id == <<"bg", AutoNumber>>
<1>1. PICK j \in Unused :
        /\ jobs' = [jobs EXCEPT ![j] = Born(id, "running", fg)]
        /\ Claim(j, id, fg) /\ nextAuto' = AutoNumber + 1
        /\ UNCHANGED <<watched, timer, delivery, wait, evalWait, owner>>
  BY DEF RegisterAuto
<1>2. j \in Job /\ jobs[j].st = "unborn"
  BY DEF Unused
<1>3. AutoNumber = nextAuto /\ id \in Id /\ row[id] = 0
  BY <1>0, <1>2, AutoNumberFacts DEF Id
<1>4. /\ Born(id, "running", fg) \in JobRec
      /\ Born(id, "running", fg).id = id /\ Born(id, "running", fg).st = "running"
      /\ Born(id, "running", fg).fg = fg
      /\ Born(id, "running", fg).seen = ~fg /\ Born(id, "running", fg).ended = FALSE
  BY <1>0, <1>3, BornFacts
<1>5. JobsType' /\ jobs'[j] = Born(id, "running", fg) /\ \A k \in Job : k # j => SameJob(k)
  BY <1>0, <1>1, <1>2, <1>4, AddedFacts
<1>6. timer[id].s = "off"
  BY <1>0, <1>3 DEF Ids, Marks
<1>7. id[1] = "bg" /\ id[2] = nextAuto
  BY <1>3
<1> HIDE DEF id
<1>8. Ids' /\ row' \in [Id -> 0..MaxJob] /\ nextAuto' \in 1..(MaxJob + 1)
  BY <1>0, <1>1, <1>3, <1>4, <1>5, <1>6, <1>7, KeptClaim DEF Claim
<1>9. RowsType' /\ DeliveryType' /\ RestType' /\ NoStrandedDelivery' /\ Underway' = Underway
  BY <1>0, <1>1, <1>3, <1>8 DEF RowsType, DeliveryType, RestType, NoStrandedDelivery, Underway,
     InFlight, Claim, delivery, owner
<1>10. TypeOK'
  BY <1>5, <1>9, Types
<1> QED BY <1>1, <1>8, <1>9, <1>10, Assembled

\* A job takes the first free candidate of the agent's id.
LEMMA RegisterNamedStep ==
  ASSUME IInv, NEW a \in Agent, RegisterNamed(a)
  PROVE  IInv'
<1>0. TypeOK /\ Ids /\ JobsType /\ RowsType /\ DeliveryType /\ RestType /\ NoStrandedDelivery
  BY Types DEF IInv, Ids
<1> DEFINE id == <<a, PreferredNumber(a)>>
<1>1. PICK j \in Unused :
        /\ jobs' = [jobs EXCEPT ![j] = Born(id, "running", FALSE)]
        /\ Claim(j, id, FALSE)
        /\ UNCHANGED <<nextAuto, watched, timer, delivery, wait, evalWait, owner>>
  BY DEF RegisterNamed
<1>2. j \in Job /\ jobs[j].st = "unborn"
  BY DEF Unused
<1>3. id \in Id /\ row[id] = 0 /\ id[1] # "bg"
  BY <1>0, <1>2, PreferredNumberFacts, JobBoundAssumption DEF Id
<1>4. /\ Born(id, "running", FALSE) \in JobRec
      /\ Born(id, "running", FALSE).id = id /\ Born(id, "running", FALSE).st = "running"
      /\ Born(id, "running", FALSE).fg = FALSE
      /\ Born(id, "running", FALSE).seen = TRUE /\ Born(id, "running", FALSE).ended = FALSE
  BY <1>0, <1>3, BornFacts
<1>5. JobsType' /\ jobs'[j] = Born(id, "running", FALSE) /\ \A k \in Job : k # j => SameJob(k)
  BY <1>0, <1>1, <1>2, <1>4, AddedFacts
<1>6. timer[id].s = "off"
  BY <1>0, <1>3 DEF Ids, Marks
<1> HIDE DEF id
<1>8. Ids' /\ row' \in [Id -> 0..MaxJob] /\ nextAuto' \in 1..(MaxJob + 1)
  BY <1>0, <1>1, <1>3, <1>4, <1>5, <1>6, KeptClaim DEF Claim
<1>9. RowsType' /\ DeliveryType' /\ RestType' /\ NoStrandedDelivery' /\ Underway' = Underway
  BY <1>0, <1>1, <1>3, <1>8 DEF RowsType, DeliveryType, RestType, NoStrandedDelivery, Underway,
     InFlight, Claim, delivery, owner
<1>10. TypeOK'
  BY <1>5, <1>9, Types
<1> QED BY <1>1, <1>8, <1>9, <1>10, Assembled

\* A job that is settled from the start takes an id, and has a timer at once.
LEMMA PublishStep ==
  ASSUME IInv, NEW a \in Agent, Publish(a)
  PROVE  IInv'
<1>0. TypeOK /\ Ids /\ JobsType /\ RowsType /\ DeliveryType /\ RestType /\ NoStrandedDelivery
  BY Types DEF IInv, Ids
<1> DEFINE id == <<a, PreferredNumber(a)>>
           rec == Born(id, "settled", FALSE)
           js(j) == IF id \in watched THEN {} ELSE {j}
           made(j) == [job |-> j, id |-> id, nth |-> 1]
<1>1. PICK j \in Unused :
        /\ jobs' = [jobs EXCEPT ![j] = Sent(rec, j, js(j))]
        /\ Claim(j, id, FALSE)
        /\ \/ UNCHANGED delivery
           \/ /\ inFlight' = inFlight \o Started(made(j))
              /\ loop' = "ending" /\ deliveries' = deliveries
           \/ /\ deliveries' = deliveries \cup {made(j)}
              /\ loop # "off" /\ UNCHANGED <<inFlight, loop>>
        /\ timer' = [timer EXCEPT ![id] = Armed]
        /\ UNCHANGED <<nextAuto, watched, wait, evalWait, owner>>
  BY DEF Publish
<1>2. j \in Job /\ jobs[j].st = "unborn"
  BY DEF Unused
<1>3. id \in Id /\ row[id] = 0 /\ id[1] # "bg"
  BY <1>0, <1>2, PreferredNumberFacts, JobBoundAssumption DEF Id
<1>4. /\ rec \in JobRec /\ rec.id = id /\ rec.st = "settled" /\ rec.fg = FALSE
      /\ rec.seen = TRUE /\ rec.ended = TRUE
  BY <1>0, <1>3, BornFacts
<1> HIDE DEF rec
<1>5. LET sent == Sent(rec, j, js(j))
      IN /\ sent \in JobRec /\ sent.id = id /\ sent.st = "settled" /\ sent.fg = FALSE
         /\ sent.seen = TRUE /\ sent.ended = TRUE
  BY <1>4, SentFacts
<1>6. /\ JobsType' /\ \A k \in Job : k # j => SameJob(k)
      /\ jobs'[j].id = id /\ jobs'[j].st = "settled" /\ jobs'[j].fg = FALSE
      /\ jobs'[j].seen = TRUE /\ jobs'[j].ended = TRUE
  BY <1>0, <1>1, <1>2, <1>5, AddedFacts
<1>7. made(j) \in Delivery
  BY <1>2, <1>3 DEF Delivery
<1> HIDE DEF id, js, made
<1>8. Started(made(j)) \in Seq(Attempt)
  BY <1>0, <1>7, StartedFacts
<1>9. DeliveryType' /\ NoStrandedDelivery' /\ Underway \subseteq Underway'
  <2>1. CASE UNCHANGED delivery
    BY <2>1, <1>0 DEF delivery, DeliveryType, NoStrandedDelivery, Underway, InFlight
  <2>2. CASE /\ inFlight' = inFlight \o Started(made(j))
             /\ loop' = "ending" /\ deliveries' = deliveries
    BY <2>2, <1>0, <1>8, AppendedFlight DEF DeliveryType, NoStrandedDelivery
  <2>3. CASE /\ deliveries' = deliveries \cup {made(j)}
             /\ loop # "off" /\ UNCHANGED <<inFlight, loop>>
    BY <2>3, <1>0, <1>7 DEF DeliveryType, NoStrandedDelivery, Underway, InFlight
  <2> QED BY <1>1, <2>1, <2>2, <2>3
<1>10. /\ timer' \in [Id -> TimerRec] /\ timer'[id].s = "armed"
       /\ \A x \in Id : x # id => timer'[x] = timer[x]
  <2>1. Armed \in TimerRec /\ Armed.s = "armed"
    BY Basics DEF Armed
  <2> QED BY <2>1, <1>0, <1>1, <1>3, SMTT(30) DEF RowsType
<1>11. Ids' /\ row' \in [Id -> 0..MaxJob] /\ nextAuto' \in 1..(MaxJob + 1)
  <2>1. /\ row' = [row EXCEPT ![id] = j] /\ consumed' = consumed \ {id}
        /\ released' = released \ {id} /\ nextAuto' = nextAuto
    BY <1>1 DEF Claim
  <2>2. \A x \in Id : x # id => timer'[x] = timer[x]
    BY <1>10
  <2>3. /\ jobs'[j].st # "unborn" /\ (jobs'[j].st = "settled" => jobs'[j].ended)
        /\ (jobs'[j].fg => ~jobs'[j].seen) /\ jobs'[j].fg \in BOOLEAN /\ jobs'[j].ended \in BOOLEAN
        /\ (timer'[id].s # "off" <=> jobs'[j].ended)
    BY <1>6, <1>10
  <2> QED BY <1>0, <1>3, <1>6, <2>1, <2>2, <2>3, KeptClaim
<1>12. RowsType' /\ RestType'
  BY <1>0, <1>1, <1>3, <1>10, <1>11 DEF RowsType, RestType, Claim, owner
<1>13. TypeOK'
  BY <1>6, <1>9, <1>12, Types
<1>14. \A x \in Id : timer'[x].s = "deferred" => timer'[x] = timer[x]
  BY <1>10
<1> QED BY <1>9, <1>11, <1>13, <1>14, Assembled

\* What a discarded row leaves behind.
LEMMA DiscardFacts ==
  ASSUME RowsType, TypeOK, NEW id \in Id, Discard(id), nextAuto' \in 1..(MaxJob + 1)
  PROVE  RowsType' /\ \A x \in Id : timer'[x].s = "deferred" => timer'[x] = timer[x]
<1>1. {id} \in SUBSET Id /\ Evict({id})
  BY DEF Discard
<1>2. /\ \A x \in Id : timer'[x] = IF x \in {id} THEN NoTimer ELSE timer[x]
      /\ row' \in [Id -> 0..MaxJob] /\ timer' \in [Id -> TimerRec]
      /\ suppressed' \subseteq Id /\ watched' \subseteq Id /\ consumed' \subseteq Id
  BY <1>1, EvictFacts
<1>3. released' \subseteq Id
  BY DEF Discard, RowsType
<1> QED BY <1>2, <1>3 DEF RowsType, NoTimer

\* The run of j settles, and its row is kept: it has a timer from now on.
LEMMA KeptSettle ==
  ASSUME TypeOK, Ids, NEW j \in Job, row[jobs[j].id] = j, jobs[j].id \notin released,
         SameIdentity(j), jobs'[j].ended, \A k \in Job : k # j => SameJob(k),
         UNCHANGED <<row, nextAuto, markers>>, timer' = [timer EXCEPT ![jobs[j].id] = Armed]
  PROVE  Ids'
<1> DEFINE id == jobs[j].id
<1>0. /\ released \subseteq Id /\ consumed \subseteq Id /\ id \in Id /\ j # 0
      /\ timer \in [Id -> TimerRec]
  <2>1. released \subseteq Id /\ consumed \subseteq Id
    BY DEF TypeOK
  <2>2. id \in Id /\ timer \in [Id -> TimerRec]
    BY Types, JobFields DEF RowsType
  <2>3. j # 0
    BY Basics
  <2> QED BY <2>1, <2>2, <2>3
<1>1. \A x \in Id : x # id => row[x] # j
  BY <1>0 DEF Ids, Rows
<1>2. /\ \A k \in Job : SameIdentity(k)
      /\ \A k \in Job : k # j => jobs'[k].ended = jobs[k].ended
  BY DEF SameJob
<1>3. Rows'
  <2>1. ASSUME NEW x \in Id, row'[x] # 0
        PROVE  /\ jobs'[row'[x]].id = x /\ jobs'[row'[x]].st # "unborn"
               /\ \A k \in Job : k > row'[x] /\ jobs'[k].st # "unborn" => jobs'[k].id # x
    <3>1. row[x] \in Job /\ row'[x] = row[x] /\ row[x] # 0
      BY <2>1, RowFacts
    <3> QED BY <3>1, <1>2 DEF Ids, Rows, SameIdentity
  <2>2. ASSUME NEW k \in Job
        PROVE  /\ jobs'[k].st # "unborn" /\ ~jobs'[k].ended => row'[jobs'[k].id] = k
               /\ jobs'[k].st = "settled" => jobs'[k].ended
               /\ jobs'[k].fg => ~jobs'[k].seen
    <3>1. CASE k = j
      BY <3>1, <1>2 DEF Ids, Rows, SameIdentity
    <3>2. CASE k # j
      BY <3>2 DEF Ids, Rows, SameJob, SameIdentity
    <3> QED BY <3>1, <3>2
  <2>3. \A i, k \in Job : i < k /\ jobs'[k].st # "unborn" => jobs'[i].st # "unborn"
    BY <1>2 DEF Ids, Rows, SameIdentity
  <2> QED BY <2>1, <2>2, <2>3 DEF Rows
<1>4. Marks'
  <2>1. ASSUME NEW x \in released
        PROVE  row'[x] # 0 /\ jobs'[row'[x]].fg /\ ~jobs'[row'[x]].ended
    <3>1. /\ x # id /\ x \in Id
          /\ row[x] # 0 /\ jobs[row[x]].fg /\ ~jobs[row[x]].ended
      BY <2>1, <1>0 DEF Ids, Marks
    <3>2. row'[x] = row[x] /\ row[x] \in Job /\ row[x] # j
      BY <3>1, <1>1, RowFacts
    <3> QED BY <3>1, <3>2, <1>2 DEF SameIdentity
  <2>2. ASSUME NEW x \in consumed, row'[x] # 0
        PROVE  jobs'[row'[x]].ended
    <3>1. x \in Id /\ row'[x] = row[x] /\ row[x] \in Job /\ jobs[row[x]].ended
      BY <2>2, <1>0, RowFacts DEF Ids, Marks
    <3> QED BY <3>1, <1>2
  <2>3. ASSUME NEW x \in Id
        PROVE  timer'[x].s # "off" <=> row'[x] # 0 /\ jobs'[row'[x]].ended
    <3>1. CASE x = id
      BY <3>1, <1>0 DEF Armed
    <3>2. CASE x # id
      <4>1. row'[x] = row[x] /\ timer'[x] = timer[x] /\ row[x] # j
        BY <3>2, <1>0, <1>1
      <4>2. row[x] # 0 => jobs'[row[x]].ended = jobs[row[x]].ended
        BY <4>1, <1>2, RowFacts
      <4> QED BY <4>1, <4>2 DEF Ids, Marks
    <3> QED BY <3>1, <3>2
  <2> QED BY <2>1, <2>2, <2>3 DEF Marks, markers
<1>5. Numbers'
  BY <1>2 DEF Ids, Numbers, AutoIdNamesOneJob, SameIdentity
<1> QED BY <1>3, <1>4, <1>5 DEF Ids

\* A run settles: its row goes if the id was released, else it gets a timer.
LEMMA SettleStep ==
  ASSUME IInv, NEW j \in Job, Settle(j)
  PROVE  IInv'
<1> DEFINE id == jobs[j].id
           js == IF jobs[j].st = "running" /\ ~Suppressed(id) THEN {j} ELSE {}
           rec == [jobs[j] EXCEPT !.ended = TRUE,
                                  !.st = IF @ = "running" THEN "settled" ELSE @]
<1>0. TypeOK /\ Ids /\ JobsType /\ RowsType /\ DeliveryType /\ RestType /\ NoStrandedDelivery
  BY Types DEF IInv, Ids
<1>1. /\ jobs[j].st \in {"running", "cancelled"} /\ ~jobs[j].ended
      /\ jobs' = [jobs EXCEPT ![j] = Sent(rec, j, js)]
      /\ Enqueue(js) /\ UNCHANGED <<wait, evalWait, owner>>
  BY DEF Settle
<1>2. jobs[j] \in JobRec /\ id \in Id /\ row[id] = j
  BY <1>0, <1>1, JobFields DEF Ids, Rows
<1>3. /\ rec \in JobRec /\ rec.id = jobs[j].id /\ rec.fg = jobs[j].fg /\ rec.seen = jobs[j].seen
      /\ rec.ended = TRUE /\ rec.st \in {"settled", "cancelled"}
  BY <1>1, <1>2 DEF JobRec
<1> HIDE DEF rec
<1>4. LET sent == Sent(rec, j, js)
      IN /\ sent \in JobRec /\ sent.id = jobs[j].id /\ sent.fg = jobs[j].fg
         /\ sent.seen = jobs[j].seen /\ sent.ended = TRUE /\ sent.st \in {"settled", "cancelled"}
  BY <1>3, SentFacts
<1>5. /\ JobsType' /\ \A k \in Job : k # j => SameJob(k)
      /\ SameIdentity(j) /\ jobs'[j].ended
  BY <1>0, <1>1, <1>4, AddedFacts DEF SameIdentity
<1>6. js \in SUBSET Job
  OBVIOUS
<1> HIDE DEF js
<1>7. DeliveryType' /\ NoStrandedDelivery' /\ Underway \subseteq Underway'
  BY <1>0, <1>1, <1>6, EnqueueFacts
<1>8. RestType'
  BY <1>0, <1>1 DEF RestType, owner
<1>9. CASE id \in released
  <2>1. Discard(id)
    BY <1>9 DEF Settle
  <2>2. jobs[j].fg /\ jobs[j].st # "unborn"
    BY <1>0, <1>1, <1>2, <1>9 DEF Ids, Marks
  <2>3. Ids' /\ nextAuto' \in 1..(MaxJob + 1)
    BY <1>0, <1>2, <1>5, <2>1, <2>2, KeptDiscard
  <2> HIDE DEF id
  <2>4. RowsType' /\ \A x \in Id : timer'[x].s = "deferred" => timer'[x] = timer[x]
    BY <1>0, <1>2, <2>1, <2>3, DiscardFacts
  <2>5. TypeOK'
    BY <1>5, <1>7, <1>8, <2>4, Types
  <2> QED BY <1>7, <2>3, <2>4, <2>5, Assembled
<1>10. CASE id \notin released
  <2>1. timer' = [timer EXCEPT ![id] = Armed] /\ UNCHANGED <<row, nextAuto, markers>>
    BY <1>10 DEF Settle
  <2>2. Ids'
    BY <1>0, <1>2, <1>5, <1>10, <2>1, KeptSettle
  <2> HIDE DEF id
  <2>3. timer' \in [Id -> TimerRec] /\ \A x \in Id : timer'[x].s = "deferred" => timer'[x] = timer[x]
    <3>1. Armed \in TimerRec /\ Armed.s = "armed"
      BY Basics DEF Armed
    <3> QED BY <3>1, <1>0, <1>2, <2>1 DEF RowsType
  <2>4. RowsType'
    BY <1>0, <2>1, <2>3 DEF RowsType, markers
  <2>5. TypeOK'
    BY <1>5, <1>7, <1>8, <2>4, Types
  <2> QED BY <1>7, <2>2, <2>3, <2>5, Assembled
<1> QED BY <1>9, <1>10

\* A record whose st becomes "cancelled" belongs to the same job.
LEMMA CancelledFacts ==
  ASSUME NEW rec \in JobRec
  PROVE  [rec EXCEPT !.st = "cancelled"] \in JobRec
BY DEF JobRec

\* A running job that is cancelled keeps its row until its run settles.
LEMMA CancelStep ==
  ASSUME IInv, NEW id \in Id, Cancel(id)
  PROVE  IInv'
<1>0. TypeOK /\ JobsType /\ DeliveryType /\ RestType /\ NoStrandedDelivery
  BY Types DEF IInv
<1>1. /\ row[id] # 0 /\ jobs[row[id]].st = "running"
      /\ jobs' = [jobs EXCEPT ![row[id]].st = "cancelled"]
      /\ UNCHANGED <<row, nextAuto, markers, timer, delivery, wait, evalWait, owner>>
  BY DEF Cancel
<1>2. row[id] \in Job
  BY <1>0, <1>1, RowFacts
<1>3. jobs[row[id]] \in JobRec /\ [jobs[row[id]] EXCEPT !.st = "cancelled"] \in JobRec
  BY <1>0, <1>2, JobFields, CancelledFacts
<1>4. JobsType' /\ \A j \in Job : SameJob(j)
  <2>1. JobsType'
    BY <1>0, <1>1, <1>2, <1>3 DEF JobsType
  <2>2. ASSUME NEW j \in Job PROVE SameJob(j)
    <3>1. CASE j = row[id]
      BY <3>1, <1>0, <1>1, <1>3 DEF JobsType, JobRec, SameJob, SameIdentity
    <3>2. CASE j # row[id]
      BY <3>2, <1>0, <1>1 DEF JobsType, SameJob, SameIdentity
    <3> QED BY <3>1, <3>2
  <2> QED BY <2>1, <2>2
<1>5. /\ DeliveryType' /\ RestType' /\ NoStrandedDelivery' /\ Underway' = Underway
      /\ suppressed' \subseteq Id /\ watched' \subseteq Id
  BY <1>0, <1>1 DEF DeliveryType, RestType, NoStrandedDelivery, Underway, InFlight, delivery,
                    owner, markers, TypeOK
<1> QED BY <1>1, <1>4, <1>5, QuietStep DEF markers

\* The call that ran a hidden job lets go of it: the row goes if the run has
\* settled, and waits for it otherwise.
LEMMA ReleaseStep ==
  ASSUME IInv, NEW j \in Job, ForegroundCall(j), NEW rec \in JobRec,
         rec.id = jobs[j].id, rec.fg = jobs[j].fg, rec.seen = jobs[j].seen,
         rec.ended = jobs[j].ended, rec.st = "unborn" <=> jobs[j].st = "unborn",
         rec.st = "settled" => jobs[j].st = "settled",
         Release(j, rec)
  PROVE  IInv'
<1> DEFINE id == jobs[j].id
<1>0. TypeOK /\ Ids /\ JobsType /\ RowsType /\ DeliveryType /\ RestType /\ NoStrandedDelivery
  BY Types DEF IInv, Ids
<1>1. jobs' = [jobs EXCEPT ![j] = rec] /\ UNCHANGED <<delivery, wait, evalWait, owner>>
  BY DEF Release
<1>2. jobs[j].fg /\ row[id] = j /\ id \notin released /\ id \in Id /\ j # 0
  <2>1. id \in Id
    BY <1>0, JobFields
  <2>2. j # 0
    BY Basics
  <2> QED BY <2>1, <2>2 DEF ForegroundCall
<1>3. jobs[j].st # "unborn"
  BY <1>0, <1>2 DEF Ids, Rows
<1>4. JobsType' /\ jobs'[j] = rec /\ \A k \in Job : k # j => SameJob(k)
  BY <1>0, <1>1, AddedFacts
<1>5. SameJob(j) /\ SameIdentity(j)
  BY <1>4 DEF SameJob, SameIdentity
<1>6. DeliveryType' /\ RestType' /\ NoStrandedDelivery' /\ Underway' = Underway
  BY <1>0, <1>1 DEF DeliveryType, RestType, NoStrandedDelivery, Underway, InFlight, delivery, owner
<1>7. CASE rec.ended
  <2>1. Discard(id)
    BY <1>7 DEF Release
  <2>2. jobs'[j].ended
    BY <1>4, <1>7
  <2>3. Ids' /\ nextAuto' \in 1..(MaxJob + 1)
    BY <1>0, <1>2, <1>3, <1>4, <1>5, <2>1, <2>2, KeptDiscard
  <2> HIDE DEF id
  <2>4. RowsType' /\ \A x \in Id : timer'[x].s = "deferred" => timer'[x] = timer[x]
    BY <1>0, <1>2, <2>1, <2>3, DiscardFacts
  <2>5. TypeOK'
    BY <1>4, <1>6, <2>4, Types
  <2> QED BY <1>6, <2>3, <2>4, <2>5, Assembled
<1>8. CASE ~rec.ended
  <2>1. /\ released' = released \cup {id}
        /\ UNCHANGED <<row, nextAuto, timer, suppressed, watched, consumed>>
    BY <1>8 DEF Release
  <2>2. row[id] # 0 /\ jobs[row[id]].fg /\ ~jobs[row[id]].ended
    BY <1>2, <1>8
  <2>3. \A k \in Job : SameJob(k)
    BY <1>4, <1>5
  <2> HIDE DEF id
  <2>4. RowsType'
    BY <1>0, <1>2, <2>1 DEF RowsType
  <2>5. TypeOK'
    BY <1>4, <1>6, <2>4, Types
  <2>6. Ids'
    BY <1>0, <2>1, <2>2, <2>3, <2>5, KeptRows
  <2> QED BY <1>6, <2>1, <2>5, <2>6, Assembled
<1> QED BY <1>7, <1>8

\* The call returns the result of its job itself.
LEMMA ForegroundReturnsStep ==
  ASSUME IInv, NEW j \in Job, ForegroundReturns(j)
  PROVE  IInv'
<1> DEFINE rec == [jobs[j] EXCEPT !.told = Capped(jobs[j].told + 1)]
<1>1. ForegroundCall(j) /\ Release(j, rec)
  BY DEF ForegroundReturns
<1>2. jobs[j] \in JobRec
  BY Types, JobFields DEF IInv
<1>3. rec \in JobRec
  BY <1>2, ToldFacts
<1>4. /\ rec.id = jobs[j].id /\ rec.fg = jobs[j].fg /\ rec.seen = jobs[j].seen
      /\ rec.ended = jobs[j].ended /\ rec.st = jobs[j].st
  BY <1>2 DEF JobRec
<1> HIDE DEF rec
<1> QED BY <1>1, <1>3, <1>4, ReleaseStep

\* The call is aborted, and its job cancelled.
LEMMA ForegroundAbortsStep ==
  ASSUME IInv, NEW j \in Job, ForegroundAborts(j)
  PROVE  IInv'
<1> DEFINE rec == [jobs[j] EXCEPT !.dropped = TRUE,
                                  !.st = IF @ = "running" THEN "cancelled" ELSE @]
<1>1. ForegroundCall(j) /\ Release(j, rec)
  BY DEF ForegroundAborts
<1>2. jobs[j] \in JobRec
  BY Types, JobFields DEF IInv
<1>3. rec \in JobRec
  BY <1>2 DEF JobRec
<1>4. /\ rec.id = jobs[j].id /\ rec.fg = jobs[j].fg /\ rec.seen = jobs[j].seen
      /\ rec.ended = jobs[j].ended
      /\ rec.st = IF jobs[j].st = "running" THEN "cancelled" ELSE jobs[j].st
  BY <1>2 DEF JobRec
<1> HIDE DEF rec
<1> QED BY <1>1, <1>3, <1>4, ReleaseStep

\* A hidden job that is listed keeps its row; its id, if it is an auto id, is
\* below the counter, and no later job has it.
LEMMA KeptListed ==
  ASSUME TypeOK, Ids, NEW j \in Job, ForegroundCall(j), \A k \in Job : k # j => SameJob(k),
         jobs'[j].id = jobs[j].id, jobs'[j].st = jobs[j].st, jobs'[j].ended = jobs[j].ended,
         jobs'[j].fg = FALSE,
         UNCHANGED <<row, nextAuto, consumed, released, timer>>
  PROVE  Ids'
<1> DEFINE id == jobs[j].id
<1>0. /\ released \subseteq Id /\ consumed \subseteq Id /\ id \in Id
      /\ j # 0 /\ row[id] = j /\ id \notin released
  <2>1. released \subseteq Id /\ consumed \subseteq Id
    BY DEF TypeOK
  <2>2. id \in Id
    BY Types, JobFields
  <2>3. j # 0
    BY Basics
  <2> QED BY <2>1, <2>2, <2>3 DEF ForegroundCall
<1>1. /\ \A k \in Job : /\ jobs'[k].id = jobs[k].id /\ jobs'[k].ended = jobs[k].ended
                        /\ jobs'[k].st = "unborn" <=> jobs[k].st = "unborn"
                        /\ jobs'[k].st = "settled" => jobs[k].st = "settled"
      /\ \A k \in Job : k # j => jobs'[k].fg = jobs[k].fg /\ jobs'[k].seen = jobs[k].seen
  BY DEF SameJob, SameIdentity
<1>2. Rows'
  <2>1. ASSUME NEW x \in Id, row'[x] # 0
        PROVE  /\ jobs'[row'[x]].id = x /\ jobs'[row'[x]].st # "unborn"
               /\ \A k \in Job : k > row'[x] /\ jobs'[k].st # "unborn" => jobs'[k].id # x
    <3>1. row[x] \in Job /\ row'[x] = row[x] /\ row[x] # 0
      BY <2>1, RowFacts
    <3> QED BY <3>1, <1>1 DEF Ids, Rows
  <2>2. ASSUME NEW k \in Job
        PROVE  /\ jobs'[k].st # "unborn" /\ ~jobs'[k].ended => row'[jobs'[k].id] = k
               /\ jobs'[k].st = "settled" => jobs'[k].ended
               /\ jobs'[k].fg => ~jobs'[k].seen
    BY <1>1 DEF Ids, Rows
  <2>3. \A i, k \in Job : i < k /\ jobs'[k].st # "unborn" => jobs'[i].st # "unborn"
    BY <1>1 DEF Ids, Rows
  <2> QED BY <2>1, <2>2, <2>3 DEF Rows
<1>3. Marks'
  <2>1. ASSUME NEW x \in released
        PROVE  row'[x] # 0 /\ jobs'[row'[x]].fg /\ ~jobs'[row'[x]].ended
    <3>1. x \in Id /\ row[x] # 0 /\ jobs[row[x]].fg /\ ~jobs[row[x]].ended
      BY <1>0 DEF Ids, Marks
    <3>2. row[x] \in Job /\ row[x] # j
      BY <3>1, <1>0, RowFacts DEF Ids, Rows
    <3> QED BY <3>1, <3>2, <1>1
  <2>2. ASSUME NEW x \in consumed, row'[x] # 0
        PROVE  jobs'[row'[x]].ended
    <3>1. x \in Id /\ row[x] \in Job /\ jobs[row[x]].ended
      BY <2>2, <1>0, RowFacts DEF Ids, Marks
    <3> QED BY <3>1, <1>1
  <2>3. ASSUME NEW x \in Id
        PROVE  timer'[x].s # "off" <=> row'[x] # 0 /\ jobs'[row'[x]].ended
    <3>1. timer[x].s # "off" <=> row[x] # 0 /\ jobs[row[x]].ended
      BY DEF Ids, Marks
    <3> QED BY <3>1, <1>1, RowFacts
  <2> QED BY <2>1, <2>2, <2>3 DEF Marks
<1>4. id[1] = "bg" => id[2] < nextAuto
  <2>1. id[1] = "bg" => id = <<"bg", id[2]>> /\ id[2] \in Job
    BY <1>0 DEF Id
  <2> HIDE DEF id
  <2> QED BY <2>1, <1>0 DEF Ids, Numbers
<1>5. Numbers'
  <2>1. \A k \in Job : jobs'[k].st = "unborn" => nextAuto' <= k
    BY <1>1 DEF Ids, Numbers
  <2>2. \A n \in Job : row'[<<"bg", n>>] # 0 => n < nextAuto'
    BY DEF Ids, Numbers
  <2>3. ASSUME NEW k \in Job, jobs'[k].st # "unborn", jobs'[k].seen, jobs'[k].id[1] = "bg"
        PROVE  jobs'[k].id[2] < nextAuto'
    <3>1. CASE k = j
      BY <3>1, <2>3, <1>1, <1>4
    <3>2. CASE k # j
      BY <3>2, <2>3, <1>1 DEF Ids, Numbers
    <3> QED BY <3>1, <3>2
  <2>4. AutoIdNamesOneJob'
    <3> SUFFICES ASSUME NEW i \in Job, NEW k \in Job, i < k, jobs'[i].id = jobs'[k].id,
                        jobs'[i].id[1] = "bg", jobs'[i].st # "unborn", jobs'[k].st # "unborn"
                 PROVE  ~jobs'[i].seen
      BY DEF AutoIdNamesOneJob
    <3>1. /\ jobs[i].id = jobs[k].id /\ jobs[i].id[1] = "bg"
          /\ jobs[i].st # "unborn" /\ jobs[k].st # "unborn"
      BY <1>1
    <3>2. i # j
      <4> SUFFICES ASSUME i = j PROVE FALSE
        OBVIOUS
      <4>1. k > row[id]
        BY <1>0, Basics
      <4>2. jobs[k].id # id
        BY <3>1, <4>1, <1>0 DEF Ids, Rows
      <4> QED BY <3>1, <4>2
    <3> QED BY <3>1, <3>2, <1>1 DEF Ids, Numbers, AutoIdNamesOneJob
  <2> QED BY <2>1, <2>2, <2>3, <2>4 DEF Numbers
<1> QED BY <1>2, <1>3, <1>5 DEF Ids

\* The call stops waiting: its job is listed, and delivered if it has settled.
LEMMA ForegroundBackgroundsStep ==
  ASSUME IInv, NEW j \in Job, ForegroundBackgrounds(j)
  PROVE  IInv'
<1> DEFINE js == IF Settled(j) /\ jobs[j].id \notin watched THEN {j} ELSE {}
           rec == [jobs[j] EXCEPT !.fg = FALSE, !.seen = TRUE]
<1>0. TypeOK /\ Ids /\ JobsType /\ RowsType /\ DeliveryType /\ RestType /\ NoStrandedDelivery
  BY Types DEF IInv, Ids
<1>1. /\ ForegroundCall(j)
      /\ jobs' = [jobs EXCEPT ![j] = Sent([@ EXCEPT !.fg = FALSE, !.seen = TRUE], j, js)]
      /\ suppressed' = suppressed \ {jobs[j].id}
      /\ Enqueue(js)
      /\ UNCHANGED <<row, nextAuto, watched, consumed, released, timer, wait, evalWait, owner>>
  BY DEF ForegroundBackgrounds
<1>2. jobs' = [jobs EXCEPT ![j] = Sent(rec, j, js)]
  BY <1>0, <1>1 DEF JobsType
<1>3. jobs[j] \in JobRec
  BY <1>0, JobFields
<1>4. /\ rec \in JobRec /\ rec.id = jobs[j].id /\ rec.st = jobs[j].st
      /\ rec.ended = jobs[j].ended /\ rec.fg = FALSE
  BY <1>3 DEF JobRec
<1>5. js \in SUBSET Job
  OBVIOUS
<1> HIDE DEF rec, js
<1>6. LET sent == Sent(rec, j, js)
      IN /\ sent \in JobRec /\ sent.id = jobs[j].id /\ sent.st = jobs[j].st
         /\ sent.ended = jobs[j].ended /\ sent.fg = FALSE
  BY <1>4, SentFacts
<1>7. JobsType' /\ jobs'[j] = Sent(rec, j, js) /\ \A k \in Job : k # j => SameJob(k)
  BY <1>0, <1>2, <1>6, AddedFacts
<1>8. Ids'
  BY <1>0, <1>1, <1>6, <1>7, KeptListed
<1>9. DeliveryType' /\ NoStrandedDelivery' /\ Underway \subseteq Underway'
  BY <1>0, <1>1, <1>5, EnqueueFacts
<1>10. RowsType' /\ RestType'
  BY <1>0, <1>1 DEF RowsType, RestType, owner
<1>11. TypeOK'
  BY <1>7, <1>9, <1>10, Types
<1> QED BY <1>1, <1>8, <1>9, <1>11, Assembled

-----------------------------------------------------------------------------
(* The wait tool, the kill of a job, and an eval cell's wait(). *)

\* A wait finds results that are on their way, and takes them.
LEMMA WaitRecoversStep ==
  ASSUME IInv, WaitRecovers
  PROVE  IInv'
<1>0. JobsType /\ RestType
  BY Types DEF IInv
<1>1. /\ Show(UndeliveredIds) /\ Consume(UndeliveredIds) /\ UndeliveredIds \in SUBSET Id
      /\ UNCHANGED <<row, nextAuto, watched, released, inFlight, loop, wait, evalWait, owner>>
  BY DEF WaitRecovers, UndeliveredIds
<1>2. JobsType' /\ \A j \in Job : SameJob(j)
  BY <1>0, <1>1, ShowFacts
<1>3. RestType'
  BY <1>0, <1>1 DEF RestType, owner
<1> QED BY <1>1, <1>2, <1>3, ConsumeStep

\* A wait watches what runs.
LEMMA WaitBlocksStep ==
  ASSUME IInv, WaitBlocks
  PROVE  IInv'
<1>0. TypeOK /\ JobsType /\ DeliveryType /\ RestType /\ NoStrandedDelivery
  BY Types DEF IInv
<1>1. /\ wait' = RunningIds /\ watched' = watched \cup RunningIds /\ RunningIds \subseteq Id
      /\ UNCHANGED <<jobs, row, nextAuto, suppressed, consumed, released, timer, delivery,
                     evalWait, owner>>
  BY DEF WaitBlocks, RunningIds
<1>2. JobsType' /\ DeliveryType' /\ RestType' /\ NoStrandedDelivery' /\ Underway' = Underway
  BY <1>0, <1>1 DEF JobsType, DeliveryType, RestType, NoStrandedDelivery, Underway, InFlight,
                    delivery, owner
<1>3. suppressed' \subseteq Id /\ watched' \subseteq Id /\ \A j \in Job : SameJob(j)
  BY <1>0, <1>1 DEF TypeOK, SameJob, SameIdentity
<1> QED BY <1>1, <1>2, <1>3, QuietStep

\* A wait shows what settled, and watches no longer.
LEMMA WaitShowsStep ==
  ASSUME IInv, WaitShows
  PROVE  IInv'
<1> DEFINE done == {id \in wait : row[id] # 0 /\ jobs[row[id]].st # "running"}
<1>0. JobsType /\ RestType
  BY Types DEF IInv
<1>1. /\ Show(done) /\ Consume(done) /\ watched' \subseteq watched /\ wait' = {}
      /\ UNCHANGED <<row, nextAuto, released, inFlight, loop, evalWait, owner>>
  BY DEF WaitShows
<1>2. done \in SUBSET Id
  BY <1>0 DEF RestType
<1> HIDE DEF done
<1>3. JobsType' /\ \A j \in Job : SameJob(j)
  BY <1>0, <1>1, ShowFacts
<1>4. RestType'
  BY <1>0, <1>1 DEF RestType, owner
<1> QED BY <1>1, <1>2, <1>3, <1>4, ConsumeStep

\* A wait that is cut short hands what it held back to delivery.
LEMMA WaitYieldsStep ==
  ASSUME IInv, WaitYields
  PROVE  IInv'
<1> DEFINE js == Requeued(wait)
<1>0. TypeOK /\ JobsType /\ DeliveryType /\ RestType /\ NoStrandedDelivery
  BY Types DEF IInv
<1>1. /\ Enqueue(js) /\ watched' = watched \ wait /\ wait' = {}
      /\ jobs' = [j \in Job |-> Sent(jobs[j], j, js)]
      /\ UNCHANGED <<row, nextAuto, suppressed, consumed, released, timer, evalWait, owner>>
  BY DEF WaitYields
<1>2. js \in SUBSET Job
  <2>1. wait \subseteq Id
    BY <1>0 DEF RestType
  <2> QED BY <2>1, <1>0, RowFacts DEF Requeued
<1> HIDE DEF js
<1>3. ASSUME NEW j \in Job PROVE jobs'[j] \in JobRec /\ SameJob(j)
  <2>1. jobs[j] \in JobRec /\ jobs'[j] = Sent(jobs[j], j, js)
    BY <1>0, <1>1, JobFields
  <2> QED BY <2>1, SentFacts DEF SameJob, SameIdentity
<1>4. JobsType'
  BY <1>1, <1>3 DEF JobsType
<1>5. DeliveryType' /\ NoStrandedDelivery' /\ Underway \subseteq Underway'
  BY <1>0, <1>1, <1>2, EnqueueFacts
<1>6. RestType' /\ suppressed' \subseteq Id /\ watched' \subseteq Id
  BY <1>0, <1>1 DEF RestType, owner, TypeOK
<1> QED BY <1>1, <1>3, <1>4, <1>5, <1>6, QuietStep

\* A job whose st becomes "cancelled" is the same job.
LEMMA CancelledJobs ==
  ASSUME JobsType, NEW which \in SUBSET Job,
         jobs' = [j \in Job |-> IF j \in which THEN [jobs[j] EXCEPT !.st = "cancelled"] ELSE jobs[j]],
         \A j \in which : jobs[j].st # "unborn"
  PROVE  JobsType' /\ \A j \in Job : SameJob(j)
<1>1. ASSUME NEW j \in Job PROVE jobs'[j] \in JobRec /\ SameJob(j)
  <2>1. jobs[j] \in JobRec /\ [jobs[j] EXCEPT !.st = "cancelled"] \in JobRec
    BY JobFields, CancelledFacts
  <2>2. CASE j \in which
    <3>1. jobs'[j] = [jobs[j] EXCEPT !.st = "cancelled"]
      BY <2>2
    <3> QED BY <2>1, <2>2, <3>1 DEF JobRec, SameJob, SameIdentity
  <2>3. CASE j \notin which
    BY <2>1, <2>3 DEF SameJob, SameIdentity
  <2> QED BY <2>2, <2>3
<1> QED BY <1>1 DEF JobsType

\* The agent kills a job, and takes its result if it has one.
LEMMA KillJobStep ==
  ASSUME IInv, NEW id \in Id, KillJob(id)
  PROVE  IInv'
<1>0. TypeOK /\ JobsType /\ RestType
  BY Types DEF IInv
<1>1. /\ Consume({id}) /\ {id} \in SUBSET Id /\ row[id] # 0
      /\ UNCHANGED <<row, nextAuto, watched, released, inFlight, loop, wait, evalWait, owner>>
  BY DEF KillJob, Visible
<1>2. row[id] \in Job
  BY <1>0, <1>1, RowFacts
<1>3. JobsType' /\ \A j \in Job : SameJob(j)
  <2>1. CASE jobs[row[id]].st = "running"
    <3>1. jobs' = [jobs EXCEPT ![row[id]].st = "cancelled"]
      BY <2>1 DEF KillJob
    <3> DEFINE which == {row[id]}
    <3>2. /\ which \in SUBSET Job /\ \A j \in which : jobs[j].st # "unborn"
          /\ jobs' = [j \in Job |-> IF j \in which THEN [jobs[j] EXCEPT !.st = "cancelled"]
                                    ELSE jobs[j]]
      BY <3>1, <2>1, <1>0, <1>2 DEF JobsType
    <3> HIDE DEF which
    <3> QED BY <3>2, <1>0, CancelledJobs
  <2>2. CASE jobs[row[id]].st # "running"
    <3>1. Show({id})
      BY <2>2 DEF KillJob
    <3> QED BY <3>1, <1>0, ShowFacts
  <2> QED BY <2>1, <2>2
<1>4. RestType'
  BY <1>0, <1>1 DEF RestType, owner
<1> QED BY <1>1, <1>3, <1>4, ConsumeStep

\* An eval cell resolves its handles.
LEMMA EvalWaitBeginsStep ==
  ASSUME IInv, EvalWaitBegins
  PROVE  IInv'
<1>0. TypeOK /\ JobsType /\ DeliveryType /\ RestType /\ NoStrandedDelivery
  BY Types DEF IInv
<1>1. /\ \E ids \in SUBSET {id \in Id : id[1] \in Agent /\ row[id] # 0} :
           evalWait' = {row[id] : id \in ids}
      /\ UNCHANGED <<jobs, row, nextAuto, markers, timer, delivery, wait, owner>>
  BY DEF EvalWaitBegins
<1>2. evalWait' \subseteq Job
  BY <1>0, <1>1, RowFacts
<1>3. JobsType' /\ DeliveryType' /\ RestType' /\ NoStrandedDelivery' /\ Underway' = Underway
  BY <1>0, <1>1, <1>2 DEF JobsType, DeliveryType, RestType, NoStrandedDelivery, Underway,
                          InFlight, delivery, owner
<1>4. suppressed' \subseteq Id /\ watched' \subseteq Id /\ \A j \in Job : SameJob(j)
  BY <1>0, <1>1 DEF TypeOK, markers, SameJob, SameIdentity
<1> QED BY <1>1, <1>3, <1>4, QuietStep DEF markers

\* It returns what it holds, and consumes by id.
LEMMA EvalWaitEndsStep ==
  ASSUME IInv, EvalWaitEnds
  PROVE  IInv'
<1> DEFINE done == {j \in evalWait : jobs[j].st # "running"}
           ids == {jobs[j].id : j \in done}
<1>0. TypeOK /\ JobsType /\ RestType
  BY Types DEF IInv
<1>1. /\ jobs' = [j \in Job |-> IF j \in done /\ Settled(j) /\ jobs[j].told = 0
                               THEN [jobs[j] EXCEPT !.told = 1] ELSE jobs[j]]
      /\ Consume(ids) /\ evalWait' = {}
      /\ UNCHANGED <<row, nextAuto, watched, released, inFlight, loop, wait, owner>>
  BY DEF EvalWaitEnds
<1>2. ids \in SUBSET Id
  BY <1>0, JobFields DEF RestType
<1> HIDE DEF ids
<1>3. ASSUME NEW j \in Job PROVE jobs'[j] \in JobRec /\ SameJob(j)
  <2>1. jobs[j] \in JobRec
    BY <1>0, JobFields
  <2>2. jobs'[j] = jobs[j] \/ jobs'[j] = [jobs[j] EXCEPT !.told = 1]
    BY <1>1
  <2> QED BY <2>1, <2>2 DEF JobRec, SameJob, SameIdentity
<1>4. JobsType'
  BY <1>1, <1>3 DEF JobsType
<1>5. RestType'
  BY <1>0, <1>1 DEF RestType, owner
<1> QED BY <1>1, <1>2, <1>3, <1>4, <1>5, ConsumeStep

\* It is aborted, and cancels what its handles name.
LEMMA EvalWaitAbortsStep ==
  ASSUME IInv, EvalWaitAborts
  PROVE  IInv'
<1> DEFINE ids == {jobs[j].id : j \in evalWait}
           which == {j \in Job : jobs[j].st = "running" /\ jobs[j].id \in ids /\ row[jobs[j].id] = j}
<1>0. TypeOK /\ JobsType /\ DeliveryType /\ RestType /\ NoStrandedDelivery
  BY Types DEF IInv
<1>1. /\ jobs' = [j \in Job |-> IF j \in which THEN [jobs[j] EXCEPT !.st = "cancelled"] ELSE jobs[j]]
      /\ evalWait' = {}
      /\ UNCHANGED <<row, nextAuto, markers, timer, delivery, wait, owner>>
  BY DEF EvalWaitAborts
<1>2. which \in SUBSET Job /\ \A j \in which : jobs[j].st # "unborn"
  OBVIOUS
<1> HIDE DEF which
<1>3. JobsType' /\ \A j \in Job : SameJob(j)
  BY <1>0, <1>1, <1>2, CancelledJobs
<1>4. DeliveryType' /\ RestType' /\ NoStrandedDelivery' /\ Underway' = Underway
  BY <1>0, <1>1 DEF DeliveryType, RestType, NoStrandedDelivery, Underway, InFlight, delivery, owner
<1>5. suppressed' \subseteq Id /\ watched' \subseteq Id
  BY <1>0, <1>1 DEF TypeOK, markers
<1> QED BY <1>1, <1>3, <1>4, <1>5, QuietStep DEF markers

-----------------------------------------------------------------------------
(* The theorems. *)

\* IInv holds at the start.
LEMMA InitIInv == Init => IInv
<1> SUFFICES ASSUME Init PROVE IInv
  OBVIOUS
<1>1. \A j \in Job : jobs[j] = Unborn
  BY DEF Init
<1>2. TypeOK
  <2>1. JobsType
    BY Basics DEF Init, JobsType
  <2>2. RowsType
    BY Basics DEF Init, RowsType
  <2>3. DeliveryType
    BY EmptySeq DEF Init, DeliveryType
  <2>4. RestType
    BY Basics DEF Init, RestType
  <2> QED BY <2>1, <2>2, <2>3, <2>4, Types
<1>3. \A id \in Id : row[id] = 0 /\ timer[id].s = "off"
  BY DEF Init, NoTimer
<1>4. \A j \in Job : jobs[j].st = "unborn" /\ ~jobs[j].fg /\ ~jobs[j].ended /\ ~jobs[j].seen
  BY <1>1 DEF Unborn
<1>5. Rows
  BY <1>3, <1>4 DEF Rows
<1>6. Marks
  BY <1>3, <1>4 DEF Marks, Init
<1>7. Numbers
  <2>1. \A j \in Job : nextAuto <= j
    BY Basics DEF Init
  <2>2. \A n \in Job : row[<<"bg", n>>] = 0
    BY <1>3 DEF Id
  <2> QED BY <2>1, <2>2, <1>4 DEF Numbers, AutoIdNamesOneJob
<1>8. NoStrandedDelivery /\ Deferred
  BY <1>3 DEF Init, NoStrandedDelivery, Deferred
<1> QED BY <1>2, <1>5, <1>6, <1>7, <1>8 DEF IInv

\* Every step preserves IInv.
LEMMA NextIInv == IInv /\ [Next]_vars => IInv'
<1> SUFFICES ASSUME IInv, [Next]_vars PROVE IInv'
  OBVIOUS
<1>1. CASE Manager
  <2>1. ASSUME NEW d \in deliveries, LoopTakes(d) \/ DrainTakes(d) PROVE IInv'
    BY <2>1, TakeStep DEF LoopTakes, DrainTakes
  <2>2. ASSUME NEW i \in DOMAIN inFlight, Formatted(i) PROVE IInv'
    BY <2>2, FormattedStep
  <2>3. ASSUME NEW i \in DOMAIN inFlight, AttemptAccepted(i) PROVE IInv'
    BY <2>3, AttemptAcceptedStep
  <2>4. ASSUME NEW i \in DOMAIN inFlight, AttemptFailed(i) PROVE IInv'
    BY <2>4, AttemptFailedStep
  <2>5. ASSUME NEW id \in Id, TimerFires(id) PROVE IInv'
    BY <2>5, TimerFiresStep
  <2>6. ASSUME NEW id \in Id, DeferredEvicts(id) PROVE IInv'
    BY <2>6, DeferredEvictsStep
  <2> QED BY <1>1, <2>1, <2>2, <2>3, <2>4, <2>5, <2>6, LoopStep DEF Manager
<1>2. CASE Caller
  <2>1. ASSUME NEW fg \in BOOLEAN, RegisterAuto(fg) PROVE IInv'
    BY <2>1, RegisterAutoStep
  <2>2. ASSUME NEW a \in Agent, RegisterNamed(a) PROVE IInv'
    BY <2>2, RegisterNamedStep
  <2>3. ASSUME NEW a \in Agent, Publish(a) PROVE IInv'
    BY <2>3, PublishStep
  <2>4. ASSUME NEW j \in Job, Settle(j) PROVE IInv'
    BY <2>4, SettleStep
  <2>5. ASSUME NEW j \in Job, ForegroundReturns(j) PROVE IInv'
    BY <2>5, ForegroundReturnsStep
  <2>6. ASSUME NEW j \in Job, ForegroundAborts(j) PROVE IInv'
    BY <2>6, ForegroundAbortsStep
  <2>7. ASSUME NEW j \in Job, ForegroundBackgrounds(j) PROVE IInv'
    BY <2>7, ForegroundBackgroundsStep
  <2>8. ASSUME NEW id \in Id, Cancel(id) PROVE IInv'
    BY <2>8, CancelStep
  <2>9. ASSUME NEW id \in Id, KillJob(id) PROVE IInv'
    BY <2>9, KillJobStep
  <2>10. ASSUME WaitRecovers \/ WaitBlocks \/ WaitShows \/ WaitYields PROVE IInv'
    BY <2>10, WaitRecoversStep, WaitBlocksStep, WaitShowsStep, WaitYieldsStep
  <2>11. ASSUME EvalWaitBegins \/ EvalWaitEnds \/ EvalWaitAborts PROVE IInv'
    BY <2>11, EvalWaitBeginsStep, EvalWaitEndsStep, EvalWaitAbortsStep
  <2> QED BY <1>2, <2>1, <2>2, <2>3, <2>4, <2>5, <2>6, <2>7, <2>8, <2>9, <2>10, <2>11 DEF Caller
<1>3. CASE Owner
  BY <1>3, DrainStep, CommitStep, DropInjectionStep, TransitionStep, BeginDisposeStep,
     DisposeOwnedStep DEF Owner
<1>4. CASE UNCHANGED vars
  <2>0. TypeOK /\ JobsType /\ DeliveryType /\ RestType /\ NoStrandedDelivery
    BY Types DEF IInv
  <2>1. /\ JobsType' /\ DeliveryType' /\ RestType' /\ NoStrandedDelivery' /\ Underway' = Underway
        /\ suppressed' \subseteq Id /\ watched' \subseteq Id
    BY <1>4, <2>0 DEF vars, JobsType, DeliveryType, RestType, NoStrandedDelivery, Underway,
                      InFlight, delivery, owner, markers, TypeOK
  <2>2. \A j \in Job : SameJob(j)
    BY <1>4 DEF vars, SameJob, SameIdentity
  <2> QED BY <1>4, <2>1, <2>2, QuietStep DEF vars, markers
<1> QED BY <1>1, <1>2, <1>3, <1>4 DEF Next

\* The inductive invariant of the job manager.
THEOREM Invariance == Spec => []IInv
BY InitIInv, NextIInv, PTL DEF Spec

\* Every variable keeps its shape: no attempt, timer or marker names a job or
\* an id that is not there, and the counter of auto ids never runs out.
THEOREM TypeCorrect == Spec => []TypeOK
<1>1. IInv => TypeOK
  BY DEF IInv
<1> QED BY <1>1, Invariance, PTL

\* A queued delivery always has a loop to take it, whenever it is queued: the
\* finally of #ensureDeliveryLoop looks at the queue again.
THEOREM DeliveriesServed == Spec => []NoStrandedDelivery
<1>1. IInv => NoStrandedDelivery
  BY DEF IInv
<1> QED BY <1>1, Invariance, PTL

\* Exactly the rows whose run has settled have a timer, and an eviction that
\* was put off waits for an attempt that is still in flight, so no row leaks.
THEOREM RowsTimed == Spec => []RowIsTimed
<1>1. IInv => RowIsTimed
  BY DEF IInv, Marks, Deferred, Underway, RowIsTimed
<1> QED BY <1>1, Invariance, PTL

\* An auto id that named a listed job never names another, although
\* #discardForegroundJob hands the ids of hidden jobs back.
THEOREM AutoIdsUnique == Spec => []AutoIdNamesOneJob
<1>1. IInv => AutoIdNamesOneJob
  BY DEF IInv, Numbers
<1> QED BY <1>1, Invariance, PTL

-----------------------------------------------------------------------------
\* That no result is lost and none is told twice, for any number of jobs,
\* agents, dropped injections and transitions, where no id is used again.
\*
\* OwnInv adds to IInv whose ids the markers, the deliveries and the tools
\* under way speak of.  An id belongs to at most one listed job; a hidden
\* job that is discarded hands its id back, and never had a delivery.

Told(j) == jobs[j].told > 0
Answered(j) == Told(j) \/ jobs[j].dropped
Listed(j) == jobs[j].st # "unborn" /\ ~jobs[j].fg
IdOf(j) == jobs[j].id
Parcels == deliveries \cup InFlight

\* Of two jobs with one id the earlier was never listed; only jobs with an auto
\* id are hidden, and a job that runs has not ended.  A listed job is told once it
\* has settled.
Owners ==
  /\ \A i, j \in Job :
       i < j /\ jobs[i].st # "unborn" /\ jobs[j].st # "unborn" /\ IdOf(i) = IdOf(j) => jobs[i].fg
  /\ \A j \in Job :
       /\ jobs[j].st = "unborn" => ~jobs[j].fg
       /\ Listed(j) /\ ~Settled(j) => ~Told(j)
       /\ jobs[j].st # "unborn" => jobs[j].seen = ~jobs[j].fg
       /\ jobs[j].fg => IdOf(j)[1] = "bg"
       /\ jobs[j].st = "running" => ~jobs[j].ended

\* A delivery is of the settled, listed job that has its id, which no wait
\* watches, and what is queued has neither been told nor suppressed.
Addressed ==
  /\ \A d \in Parcels :
       /\ d.id = IdOf(d.job) /\ Settled(d.job) /\ ~jobs[d.job].fg
       /\ d.id \notin watched
  /\ \A d \in deliveries : ~Told(d.job) /\ d.id \notin suppressed

\* A job has one delivery at a time, queued or in flight.
OneParcel ==
  /\ \A d, e \in deliveries : d.job = e.job => d = e
  /\ \A d \in deliveries : \A e \in InFlight : d.job # e.job
  /\ \A d, e \in InFlight : d.job = e.job => d = e
Separate == \A i, k \in DOMAIN inFlight : inFlight[i].job = inFlight[k].job => i = k

\* An attempt that can only be refused, its row gone.
Doomed(d) ==
  row[d.id] = 0 /\ (d.pc = "failed" \/ d.epoch # epoch \/ session = "closed")

\* How far an attempt may get once its result is known.
Attempts ==
  \A d \in InFlight :
    /\ d.epoch <= epoch
    /\ d.epoch # epoch => Answered(d.job)
    /\ d.pc = "parked" => d.epoch = epoch /\ session = "open"
    /\ d.pc = "built" => ~Told(d.job)
    /\ d.pc = "accepted" => Answered(d.job) \/ session # "open"
    /\ d.pc \in {"formatting", "parked", "failed"} =>
         ~Told(d.job) \/ d.id \in suppressed \/ Doomed(d)

\* A wait watches listed jobs, one whose row is left without a break; an eval cell
\* holds listed jobs; and no tool is under way while a message waits to be committed.
Tools ==
  /\ watched \subseteq wait
  /\ \A id \in wait :
       /\ \E j \in Job : Listed(j) /\ IdOf(j) = id
       /\ row[id] # 0 => id \in watched /\ id \notin consumed
  /\ \A j \in evalWait : Listed(j)
  /\ evalWait # {} => wait = {}
  /\ (\E d \in InFlight : d.pc = "built") =>
       wait = {} /\ evalWait = {} /\ \A j \in Job : ~ForegroundCall(j)

\* A hidden job is suppressed and untold, until its call returns; a listed one is
\* suppressed or consumed only when its result was told, dropped or will not be.
Marked ==
  \A j \in Job :
    /\ jobs[j].fg /\ row[IdOf(j)] = j =>
         /\ IdOf(j) \in suppressed /\ IdOf(j) \notin consumed
         /\ IdOf(j) \notin released => ~Told(j)
    /\ Listed(j) /\ IdOf(j) \in suppressed =>
         jobs[j].st # "running" /\ (Settled(j) => Answered(j))
    /\ Listed(j) /\ Settled(j) /\ row[IdOf(j)] = j /\ IdOf(j) \in consumed =>
         Answered(j) \/ session # "open"

\* A told result is marked as consumed, or about to be before another tool runs.
Consumed ==
  \A j \in Job :
    Listed(j) /\ Settled(j) /\ row[IdOf(j)] = j /\ Told(j) =>
      \/ IdOf(j) \in consumed
      \/ wait = {} /\ \E d \in InFlight : d.job = j /\ d.pc = "accepted"

\* An eviction is put off for a suppressed result that is in flight, and goes ahead
\* when it is not any more.
PutOff ==
  \A id \in Id :
    /\ timer[id].s \in {"deferred", "evicting"} => id \in suppressed /\ Visible(id)
    /\ timer[id].s = "deferred" =>
         \E d \in InFlight : Name(d) = timer[id].on /\ d.id = id
    /\ timer[id].s = "evicting" => \A d \in InFlight : d.id # id

OwnInv ==
  /\ IInv
  /\ Owners /\ Addressed /\ OneParcel /\ Separate /\ Attempts /\ Tools /\ Marked /\ Consumed /\ PutOff
  /\ NoResultLost /\ DeliveredOnce

\* These only name an expression; every proof below expands them.
USE DEF Told, Answered, Listed, IdOf, Parcels, Settled

-----------------------------------------------------------------------------
(* What the parts say together. *)

\* A row's job has the row's id, and is a job.
LEMMA RowOwner ==
  ASSUME OwnInv, NEW id \in Id, row[id] # 0
  PROVE  row[id] \in Job /\ jobs[row[id]].id = id /\ jobs[row[id]].st # "unborn"
BY RowFacts DEF OwnInv, IInv, Rows

\* An id belongs to at most one listed job, and only that job can have its row.
LEMMA ListedFacts ==
  ASSUME OwnInv
  PROVE  /\ \A i, j \in Job : Listed(i) /\ Listed(j) /\ IdOf(i) = IdOf(j) => i = j
         /\ \A j \in Job : Listed(j) => row[IdOf(j)] \in {0, j}
         /\ \A j \in Job : IdOf(j) \in Id
<1>1. Job \subseteq Nat
  BY Basics
<1>2. \A j \in Job : IdOf(j) \in Id
  BY Types, JobFields DEF OwnInv, IInv
<1>3. \A i, j \in Job : Listed(i) /\ Listed(j) /\ IdOf(i) = IdOf(j) => i = j
  <2> SUFFICES ASSUME NEW i \in Job, NEW j \in Job, Listed(i), Listed(j), IdOf(i) = IdOf(j), i # j
               PROVE  FALSE
    OBVIOUS
  <2>1. i < j \/ j < i
    BY <1>1
  <2> QED BY <2>1 DEF OwnInv, Owners
<1>4. ASSUME NEW j \in Job, Listed(j), row[IdOf(j)] # 0 PROVE row[IdOf(j)] = j
  <2> DEFINE r == row[IdOf(j)]
  <2>1. r \in Job /\ IdOf(r) = IdOf(j) /\ jobs[r].st # "unborn"
    BY <1>2, <1>4, RowOwner
  <2>2. \A k \in Job : k > r /\ jobs[k].st # "unborn" => IdOf(k) # IdOf(j)
    BY <1>2, <1>4 DEF OwnInv, IInv, Rows
  <2> HIDE DEF r
  <2>3. ~(j > r)
    BY <2>2, <1>4
  <2>4. ~(r > j)
    BY <2>1, <1>4, <1>1 DEF OwnInv, Owners
  <2>5. r = j
    BY <2>1, <2>3, <2>4, <1>1
  <2> QED BY <2>5 DEF r
<1> QED BY <1>2, <1>3, <1>4

\* A delivery's id is that of a settled listed job, whose row it has or nobody
\* has, and no other delivery has the id.
LEMMA ParcelFacts ==
  ASSUME OwnInv
  PROVE  /\ \A d \in Parcels : /\ d.job \in Job /\ d.id \in Id /\ d.id = IdOf(d.job)
                               /\ Listed(d.job) /\ Settled(d.job) /\ row[d.id] \in {0, d.job}
         /\ \A d, e \in InFlight : d.id = e.id => d = e
         /\ \A d \in deliveries : \A e \in InFlight : d.id # e.id
         /\ \A d, e \in deliveries : d.id = e.id => d = e
<1>1. \A d \in Parcels : d.job \in Job /\ d.id \in Id
  <2>1. deliveries \subseteq Delivery /\ InFlight \subseteq Attempt
    BY Types, InFlightFacts DEF OwnInv, IInv, DeliveryType
  <2> QED BY <2>1 DEF Delivery, Attempt
<1>2. \A d \in Parcels : d.id = IdOf(d.job) /\ Listed(d.job) /\ Settled(d.job)
  BY <1>1 DEF OwnInv, Addressed
<1>3. \A d \in Parcels : row[d.id] \in {0, d.job}
  BY <1>1, <1>2, ListedFacts
<1>4. \A d, e \in Parcels : d.id = e.id => d.job = e.job
  BY <1>1, <1>2, ListedFacts
<1> QED BY <1>1, <1>2, <1>3, <1>4 DEF OwnInv, OneParcel

\* A hidden job that has its row shares its id with no listed job.
LEMMA HiddenFacts ==
  ASSUME OwnInv, NEW j \in Job, jobs[j].fg, row[IdOf(j)] = j
  PROVE  /\ IdOf(j) \in Id /\ jobs[j].st # "unborn"
         /\ \A k \in Job : Listed(k) => IdOf(k) # IdOf(j)
         /\ \A d \in Parcels : d.id # IdOf(j)
         /\ IdOf(j) \notin wait /\ IdOf(j) \notin watched
<1>1. IdOf(j) \in Id /\ jobs[j].st # "unborn" /\ j # 0
  BY ListedFacts, Basics DEF OwnInv, Owners
<1>2. \A k \in Job : Listed(k) => IdOf(k) # IdOf(j)
  BY <1>1, ListedFacts
<1>3. \A d \in Parcels : d.id # IdOf(j)
  BY <1>2, ParcelFacts
<1>4. IdOf(j) \notin wait
  BY <1>2 DEF OwnInv, Tools
<1> QED BY <1>1, <1>2, <1>3, <1>4 DEF OwnInv, Tools

-----------------------------------------------------------------------------
(* The attempts in flight, as they advance, start and end. *)

Kin(e, d) == e.job = d.job /\ e.id = d.id /\ e.nth = d.nth /\ e.epoch = d.epoch

\* Attempts that go on stay one for each job.
LEMMA FlightAdvances ==
  ASSUME DeliveryType, Separate, DOMAIN inFlight' = DOMAIN inFlight,
         \A i \in DOMAIN inFlight :
           \E pc \in {"formatting", "parked", "built", "accepted", "failed"} :
             inFlight'[i] = [inFlight[i] EXCEPT !.pc = pc]
  PROVE  /\ Separate'
         /\ \A i \in DOMAIN inFlight :
              /\ inFlight[i] \in InFlight /\ inFlight'[i] \in InFlight'
              /\ Kin(inFlight'[i], inFlight[i])
         /\ \A e \in InFlight' : \E i \in DOMAIN inFlight : e = inFlight'[i]
         /\ \A d \in InFlight : \E i \in DOMAIN inFlight : d = inFlight[i]
<1>1. \A i \in DOMAIN inFlight : Kin(inFlight'[i], inFlight[i])
  BY InFlightFacts DEF Attempt, Kin
<1>2. Separate'
  BY <1>1 DEF Separate, Kin
<1> QED BY <1>1, <1>2 DEF InFlight

\* An attempt that is started is of a job that has none.
LEMMA FlightGrows ==
  ASSUME DeliveryType, Separate, NEW d, Started(d) \in Seq(Attempt), inFlight' = inFlight \o Started(d),
         \A e \in InFlight : e.job # d.job
  PROVE  /\ Separate' /\ InFlight \subseteq InFlight'
         /\ \A e \in InFlight' : e \in InFlight \/
              /\ session # "closed" /\ e.job = d.job /\ e.id = d.id /\ e.epoch = epoch
              /\ e.pc = IF session = "disposing" THEN "accepted" ELSE "formatting"
         /\ \A e, f \in InFlight' : e \notin InFlight /\ f \notin InFlight => e = f
         /\ session # "closed" => \E e \in InFlight' : e.job = d.job
<1> DEFINE n == Len(inFlight)
           new == [job |-> d.job, id |-> d.id, nth |-> d.nth, epoch |-> epoch,
                   pc |-> IF session = "disposing" THEN "accepted" ELSE "formatting"]
<1>0. inFlight \in Seq(Attempt) /\ n \in Nat /\ DOMAIN inFlight = 1..n
  BY InFlightFacts DEF DeliveryType
<1>1. CASE session = "closed"
  <2>1. Started(d) = <<>>
    BY <1>1 DEF Started
  <2>2. inFlight' = inFlight
    BY <2>1, <1>0, ConcatEmptySeq
  <2> QED BY <2>2, <1>1 DEF Separate, InFlight
<1>2. CASE session # "closed"
  <2>1. Started(d) = <<new>> /\ new \in Attempt
    BY <1>2 DEF Started
  <2> HIDE DEF new
  <2>2. inFlight' = Append(inFlight, new)
    BY <2>1, <1>0, AppendIsConcat
  <2>3. /\ DOMAIN inFlight' = 1..(n + 1) /\ inFlight'[n + 1] = new
        /\ \A i \in 1..n : inFlight'[i] = inFlight[i]
    BY <2>1, <2>2, <1>0, AppendProperties
  <2>4. InFlight' = InFlight \cup {new}
    BY <2>3, <1>0 DEF InFlight
  <2>5. new.job = d.job
    BY DEF new
  <2>6. Separate'
    <3> SUFFICES ASSUME NEW i \in DOMAIN inFlight', NEW k \in DOMAIN inFlight',
                        inFlight'[i].job = inFlight'[k].job
                 PROVE  i = k
      BY DEF Separate
    <3>1. \A j \in 1..n : inFlight[j].job # d.job
      BY <1>0 DEF InFlight
    <3>2. \A j \in DOMAIN inFlight' : j \in 1..n \/ j = n + 1
      BY <1>0, <2>3
    <3> QED BY <3>1, <3>2, <2>3, <2>5, <1>0 DEF Separate
  <2>7. /\ new.job = d.job /\ new.id = d.id /\ new.epoch = epoch
        /\ new.pc = IF session = "disposing" THEN "accepted" ELSE "formatting"
    BY DEF new
  <2> QED BY <2>4, <2>6, <2>7, <1>2
<1> QED BY <1>1, <1>2

\* An attempt that ends is gone, and was the only one of its job.
LEMMA FlightShrinks ==
  ASSUME DeliveryType, Separate, NEW i \in DOMAIN inFlight, inFlight' = Without(i)
  PROVE  /\ Separate' /\ InFlight' = InFlight \ {inFlight[i]}
         /\ \A e \in InFlight' : e.job # inFlight[i].job
<1> DEFINE old(j) == IF j < i THEN j ELSE j + 1
<1>0. DOMAIN inFlight = 1..Len(inFlight) /\ Len(inFlight) \in Nat
  BY InFlightFacts
<1>1. /\ DOMAIN inFlight' = 1..(Len(inFlight) - 1)
      /\ \A j \in DOMAIN inFlight' : inFlight'[j] = inFlight[old(j)]
  BY WithoutIndices
<1>2. \A j \in DOMAIN inFlight' : old(j) \in DOMAIN inFlight /\ old(j) # i
  BY <1>0, <1>1
<1>3. \A j, k \in DOMAIN inFlight' : old(j) = old(k) => j = k
  BY <1>0, <1>1
<1>4. \A k \in DOMAIN inFlight : k # i => \E j \in DOMAIN inFlight' : old(j) = k
  <2> TAKE k \in DOMAIN inFlight
  <2> HAVE k # i
  <2>1. CASE k < i
    BY <2>1, <1>0, <1>1
  <2>2. CASE k > i
    <3>1. k - 1 \in DOMAIN inFlight' /\ old(k - 1) = k
      BY <2>2, <1>0, <1>1
    <3> QED BY <3>1
  <2> QED BY <2>1, <2>2, <1>0
<1> HIDE DEF old
<1>5. Separate'
  BY <1>1, <1>2, <1>3 DEF Separate
<1>6. \A e \in InFlight' : e \in InFlight /\ e.job # inFlight[i].job
  BY <1>1, <1>2 DEF Separate, InFlight
<1>7. \A e \in InFlight : e # inFlight[i] => e \in InFlight'
  <2> TAKE e \in InFlight
  <2> HAVE e # inFlight[i]
  <2>1. PICK k \in DOMAIN inFlight : e = inFlight[k]
    BY DEF InFlight
  <2>2. PICK j \in DOMAIN inFlight' : old(j) = k
    BY <2>1, <1>4
  <2> QED BY <2>1, <2>2, <1>1 DEF InFlight
<1> QED BY <1>5, <1>6, <1>7

\* The deliveries of js are added to the queue, the first of them started with
\* them when there is no loop.
Grown(js) ==
  /\ deliveries \subseteq deliveries' /\ InFlight \subseteq InFlight'
  /\ \A d \in deliveries' : d \in deliveries \/ (d.job \in js /\ d.id = jobs'[d.job].id)
  /\ \A e \in InFlight' : e \in InFlight \/
       /\ session # "closed" /\ e.epoch = epoch
       /\ e.pc = IF session = "disposing" THEN "accepted" ELSE "formatting"
       /\ e.job \in js /\ e.id = jobs'[e.job].id
  /\ session # "closed" => \A j \in js : \E e \in deliveries' \cup InFlight' : e.job = j

\* #enqueueDelivery of made
Queueing(made) ==
  \/ deliveries' = deliveries \cup made /\ inFlight' = inFlight
  \/ loop = "off" /\ \E d \in made : /\ deliveries' = (deliveries \cup made) \ {d}
                                     /\ inFlight' = inFlight \o Started(d)

\* What it leaves when the jobs of made have no delivery yet.
LEMMA QueueGrows ==
  ASSUME TypeOK, NoStrandedDelivery, OneParcel, Separate,
         NEW js, NEW made \in SUBSET Delivery,
         \A d, e \in made : d.job = e.job => d = e,
         \A d \in made : d.job \in js /\ d.id = jobs'[d.job].id,
         \A j \in js : \E d \in made : d.job = j,
         \A d \in Parcels : d.job \notin js,
         Queueing(made)
  PROVE  Grown(js) /\ OneParcel' /\ Separate'
<1>0. DeliveryType /\ RestType
  BY Types
<1>1. CASE deliveries' = deliveries \cup made /\ inFlight' = inFlight
  <2>1. InFlight' = InFlight
    BY <1>1 DEF InFlight
  <2>2. OneParcel' /\ Separate'
    BY <1>1, <2>1 DEF OneParcel, Separate
  <2> QED BY <1>1, <2>1, <2>2 DEF Grown
<1>2. CASE loop = "off" /\ \E d \in made : /\ deliveries' = (deliveries \cup made) \ {d}
                                           /\ inFlight' = inFlight \o Started(d)
  <2>1. PICK d \in made : /\ deliveries' = (deliveries \cup made) \ {d}
                          /\ inFlight' = inFlight \o Started(d)
    BY <1>2
  <2>2. deliveries = {}
    BY <1>2 DEF NoStrandedDelivery
  <2>3. Started(d) \in Seq(Attempt)
    BY <1>0, StartedFacts
  <2>4. /\ Separate' /\ InFlight \subseteq InFlight'
        /\ \A e \in InFlight' : e \in InFlight \/
             /\ session # "closed" /\ e.job = d.job /\ e.id = d.id /\ e.epoch = epoch
             /\ e.pc = IF session = "disposing" THEN "accepted" ELSE "formatting"
        /\ \A e, f \in InFlight' : e \notin InFlight /\ f \notin InFlight => e = f
        /\ session # "closed" => \E e \in InFlight' : e.job = d.job
    BY <1>0, <2>1, <2>3, FlightGrows
  <2>5. OneParcel'
    BY <2>1, <2>2, <2>4 DEF OneParcel
  <2>6. Grown(js)
    BY <2>1, <2>2, <2>4 DEF Grown
  <2> QED BY <2>4, <2>5, <2>6
<1> QED BY <1>1, <1>2 DEF Queueing

\* #enqueueDelivery for jobs that have no delivery.
LEMMA EnqueueGrows ==
  ASSUME TypeOK, NoStrandedDelivery, OneParcel, Separate, NEW js \in SUBSET Job, Enqueue(js),
         \A j \in js : jobs'[j].id = jobs[j].id, \A d \in Parcels : d.job \notin js
  PROVE  Grown(js) /\ OneParcel' /\ Separate'
<1> DEFINE made == {[job |-> j, id |-> jobs[j].id, nth |-> Capped(jobs[j].sends + 1)] : j \in js}
<1>1. made \in SUBSET Delivery
  BY Types, DeliveryMade
<1>2. /\ \A d, e \in made : d.job = e.job => d = e
      /\ \A d \in made : d.job \in js /\ d.id = jobs'[d.job].id
      /\ \A j \in js : \E d \in made : d.job = j
  <2>1. \A d \in made : \E j \in js :
          d = [job |-> j, id |-> jobs[j].id, nth |-> Capped(jobs[j].sends + 1)]
    OBVIOUS
  <2>2. \A d \in made :
          /\ d.job \in js /\ d.id = jobs[d.job].id
          /\ d = [job |-> d.job, id |-> jobs[d.job].id, nth |-> Capped(jobs[d.job].sends + 1)]
    BY <2>1
  <2>3. \A d, e \in made : d.job = e.job => d = e
    BY <2>2
  <2>4. \A j \in js :
          [job |-> j, id |-> jobs[j].id, nth |-> Capped(jobs[j].sends + 1)] \in made
    OBVIOUS
  <2> QED BY <2>2, <2>3, <2>4
<1>3. Queueing(made)
  BY DEF Enqueue, Queueing
<1> HIDE DEF made
<1> QED BY <1>1, <1>2, <1>3, QueueGrows

-----------------------------------------------------------------------------
(* Steps of attempts and of the loop. *)

\* Only attempts advance: what they are of stays.
LEMMA AdvancedOwn ==
  ASSUME OwnInv, IInv', DOMAIN inFlight' = DOMAIN inFlight,
         \A i \in DOMAIN inFlight :
           \E pc \in {"formatting", "parked", "built", "accepted", "failed"} :
             inFlight'[i] = [inFlight[i] EXCEPT !.pc = pc],
         UNCHANGED <<jobs, row, markers, timer, deliveries, wait>>,
         session' = "open" => session = "open",
         Attempts', Tools', Consumed'
  PROVE  OwnInv'
<1>0. DeliveryType
  BY Types DEF OwnInv, IInv
<1>1. /\ Separate'
      /\ \A i \in DOMAIN inFlight :
           /\ inFlight[i] \in InFlight /\ inFlight'[i] \in InFlight'
           /\ Kin(inFlight'[i], inFlight[i])
      /\ \A e \in InFlight' : \E i \in DOMAIN inFlight : e = inFlight'[i]
      /\ \A d \in InFlight : \E i \in DOMAIN inFlight : d = inFlight[i]
  BY <1>0, FlightAdvances DEF OwnInv
<1>2. /\ \A e \in InFlight' : \E d \in InFlight : Kin(e, d)
      /\ \A d \in InFlight : \E e \in InFlight' : Kin(e, d)
  BY <1>1
<1>3. UNCHANGED <<jobs, row, suppressed, watched, consumed, released, timer, deliveries, wait>>
  BY DEF markers
<1>4. Owners' /\ DeliveredOnce'
  BY <1>3 DEF OwnInv, Owners, DeliveredOnce
<1>5. Addressed'
  BY <1>2, <1>3 DEF OwnInv, Addressed, Kin
<1>6. OneParcel'
  <2>1. \A e, f \in InFlight' : e.job = f.job => e = f
    BY <1>1 DEF Separate, OwnInv, Kin
  <2> QED BY <2>1, <1>2, <1>3 DEF OwnInv, OneParcel, Kin
<1>7. Marked'
  BY <1>3 DEF OwnInv, Marked
<1>8. PutOff'
  BY <1>2, <1>3 DEF OwnInv, PutOff, Kin, Name, Visible
<1>9. NoResultLost'
  BY <1>2, <1>3 DEF OwnInv, NoResultLost, Pending, Kin
<1> QED BY <1>1, <1>4, <1>5, <1>6, <1>7, <1>8, <1>9 DEF OwnInv

\* The pcs an attempt may move to are well typed.
LEMMA PcFacts ==
  ASSUME DeliveryType
  PROVE  \A k \in DOMAIN inFlight :
           /\ inFlight[k] = [inFlight[k] EXCEPT !.pc = inFlight[k].pc]
           /\ inFlight[k].pc \in {"formatting", "parked", "built", "accepted", "failed"}
BY InFlightFacts DEF Attempt

\* An attempt that moves to c is there.
LEMMA MovedFacts ==
  ASSUME DeliveryType, NEW k \in DOMAIN inFlight, NEW c
  PROVE  [inFlight[k] EXCEPT !.pc = c].pc = c
BY InFlightFacts DEF Attempt

\* An attempt skips the park when its result was answered, its transcript left,
\* or its session is going.
LEMMA FormattedOwn ==
  ASSUME OwnInv, NEW i \in DOMAIN inFlight, Formatted(i)
  PROVE  OwnInv'
<1> DEFINE d == inFlight[i]
           pc == IF session # "open" \/ d.epoch # epoch \/ Suppressed(d.id) THEN "accepted" ELSE "parked"
<1>0. DeliveryType /\ IInv' /\ IInv
  BY Types, FormattedStep DEF OwnInv, IInv
<1>1. /\ d.pc = "formatting" /\ inFlight' = [inFlight EXCEPT ![i].pc = pc]
      /\ UNCHANGED <<jobs, row, suppressed, watched, consumed, released, timer, deliveries, wait,
                     evalWait, session, epoch>>
  BY DEF Formatted, markers, owner
<1>2. \A k \in DOMAIN inFlight : inFlight'[k] =
        IF k = i THEN [inFlight[k] EXCEPT !.pc = pc] ELSE inFlight[k]
  BY <1>1
<1> HIDE DEF pc
<1>3. DOMAIN inFlight' = DOMAIN inFlight
  BY <1>1
<1>4. \A k \in DOMAIN inFlight :
        \E c \in {"formatting", "parked", "built", "accepted", "failed"} :
          inFlight'[k] = [inFlight[k] EXCEPT !.pc = c]
  BY <1>0, <1>2, PcFacts DEF pc
<1>5. /\ \A k \in DOMAIN inFlight :
           /\ inFlight[k] \in InFlight /\ inFlight'[k] \in InFlight'
           /\ Kin(inFlight'[k], inFlight[k])
      /\ \A e \in InFlight' : \E k \in DOMAIN inFlight : e = inFlight'[k]
      /\ \A e \in InFlight : \E k \in DOMAIN inFlight : e = inFlight[k]
  BY <1>0, <1>2, <1>3, <1>4, FlightAdvances DEF OwnInv
<1>p. \A k \in DOMAIN inFlight : inFlight'[k].pc = IF k = i THEN pc ELSE inFlight[k].pc
  <2>1. [inFlight[i] EXCEPT !.pc = pc].pc = pc
    BY <1>0, MovedFacts
  <2> QED BY <1>2, <2>1
<1>6. /\ d \in InFlight /\ d.job \in Job /\ d.id = IdOf(d.job) /\ Listed(d.job) /\ Settled(d.job)
      /\ d.id \notin watched
  BY <1>5, <1>p, ParcelFacts DEF OwnInv, Addressed
<1>7. pc = "accepted" => Answered(d.job) \/ session # "open"
  BY <1>6 DEF OwnInv, Attempts, Marked, Suppressed, pc
<1>8. pc = "parked" => d.epoch = epoch /\ session = "open"
  BY DEF pc
<1>9. pc \in {"accepted", "parked"}
  BY DEF pc
<1>10. Attempts'
  <2> SUFFICES ASSUME NEW e \in InFlight'
               PROVE  /\ e.epoch <= epoch
                      /\ e.epoch # epoch => Answered(e.job)
                      /\ e.pc = "parked" => e.epoch = epoch /\ session = "open"
                      /\ e.pc = "built" => ~Told(e.job)
                      /\ e.pc = "accepted" => Answered(e.job) \/ session # "open"
                      /\ e.pc \in {"formatting", "parked", "failed"} =>
                           ~Told(e.job) \/ e.id \in suppressed \/ Doomed(e)
    BY <1>1 DEF Attempts, Doomed
  <2>1. PICK k \in DOMAIN inFlight : e = inFlight'[k]
    BY <1>5
  <2>2. Kin(e, inFlight[k]) /\ inFlight[k] \in InFlight
    BY <1>5, <2>1
  <2>3. CASE k # i
    BY <1>p, <2>1, <2>2, <2>3 DEF OwnInv, Attempts, Doomed, Kin
  <2>4. CASE k = i
    <3>1. e.pc = pc
      BY <1>p, <2>1, <2>4
    <3> QED BY <1>1, <1>7, <1>8, <1>9, <2>2, <2>4, <3>1 DEF OwnInv, Attempts, Doomed, Kin
  <2> QED BY <2>3, <2>4
<1>11. Tools'
  <2>1. (\E e \in InFlight' : e.pc = "built") => \E e \in InFlight : e.pc = "built"
    BY <1>5, <1>p, <1>9
  <2> QED BY <2>1, <1>1 DEF OwnInv, Tools, ForegroundCall
<1>12. Consumed'
  <2>1. \A e \in InFlight : e.pc = "accepted" => \E f \in InFlight' : f.job = e.job /\ f.pc = "accepted"
    BY <1>1, <1>5, <1>p DEF Kin
  <2> QED BY <2>1, <1>1 DEF OwnInv, Consumed
<1>13. UNCHANGED <<jobs, row, markers, timer, deliveries, wait>>
  BY DEF Formatted
<1> QED BY <1>0, <1>1, <1>3, <1>4, <1>10, <1>11, <1>12, <1>13, AdvancedOwn

\* What is built into a message was not told; what is stale fails.
LEMMA DrainOwn ==
  ASSUME OwnInv, Drain
  PROVE  OwnInv'
<1>0. DeliveryType /\ IInv' /\ IInv
  BY Types, DrainStep DEF OwnInv, IInv
<1>1. /\ Boundary
      /\ UNCHANGED <<jobs, row, suppressed, watched, consumed, released, timer, deliveries, wait,
                     evalWait, session, epoch>>
  BY DEF Drain, markers, owner
<1>2. /\ DOMAIN inFlight' = DOMAIN inFlight
      /\ \A k \in DOMAIN inFlight : inFlight'[k] =
           IF inFlight[k].pc # "parked" THEN inFlight[k]
           ELSE [inFlight[k] EXCEPT !.pc =
                   IF inFlight[k].epoch # epoch \/ Suppressed(inFlight[k].id) THEN "failed" ELSE "built"]
  BY DEF Drain
<1>4. \A k \in DOMAIN inFlight :
        \E c \in {"formatting", "parked", "built", "accepted", "failed"} :
          inFlight'[k] = [inFlight[k] EXCEPT !.pc = c]
  BY <1>0, <1>2, PcFacts
<1>5. /\ \A k \in DOMAIN inFlight :
           /\ inFlight[k] \in InFlight /\ inFlight'[k] \in InFlight'
           /\ Kin(inFlight'[k], inFlight[k])
      /\ \A e \in InFlight' : \E k \in DOMAIN inFlight : e = inFlight'[k]
      /\ \A e \in InFlight : \E k \in DOMAIN inFlight : e = inFlight[k]
  BY <1>0, <1>2, <1>4, FlightAdvances DEF OwnInv
<1>p. \A k \in DOMAIN inFlight : inFlight'[k].pc =
        IF inFlight[k].pc # "parked" THEN inFlight[k].pc
        ELSE IF inFlight[k].epoch # epoch \/ Suppressed(inFlight[k].id) THEN "failed" ELSE "built"
  <2> TAKE k \in DOMAIN inFlight
  <2> DEFINE c == IF inFlight[k].epoch # epoch \/ Suppressed(inFlight[k].id) THEN "failed" ELSE "built"
  <2>1. [inFlight[k] EXCEPT !.pc = c].pc = c
    BY <1>0, MovedFacts
  <2>2. inFlight'[k] = IF inFlight[k].pc # "parked" THEN inFlight[k] ELSE [inFlight[k] EXCEPT !.pc = c]
    BY <1>2
  <2> HIDE DEF c
  <2>3. inFlight'[k].pc = IF inFlight[k].pc # "parked" THEN inFlight[k].pc ELSE c
    BY <2>1, <2>2
  <2> QED BY <2>3 DEF c
<1>6. Attempts'
  BY <1>1, <1>5, <1>p DEF OwnInv, Attempts, Doomed, Kin, Suppressed
<1>7. Tools'
  BY <1>1 DEF OwnInv, Tools, Boundary, ForegroundCall
<1>8. Consumed'
  <2>1. \A e \in InFlight : e.pc = "accepted" => \E f \in InFlight' : f.job = e.job /\ f.pc = "accepted"
    BY <1>5, <1>p DEF Kin
  <2> QED BY <2>1, <1>1 DEF OwnInv, Consumed
<1>9. UNCHANGED <<jobs, row, markers, timer, deliveries, wait>>
  BY DEF Drain
<1> QED BY <1>0, <1>1, <1>2, <1>4, <1>6, <1>7, <1>8, <1>9, AdvancedOwn

\* A message that is not committed leaves its results untold.
LEMMA DropInjectionOwn ==
  ASSUME OwnInv, DropInjection
  PROVE  OwnInv'
<1>0. DeliveryType /\ IInv' /\ IInv
  BY Types, DropInjectionStep DEF OwnInv, IInv
<1>1. UNCHANGED <<jobs, row, suppressed, watched, consumed, released, timer, deliveries, wait,
                  evalWait, session, epoch>>
  BY DEF DropInjection, markers
<1>2. /\ DOMAIN inFlight' = DOMAIN inFlight
      /\ \A k \in DOMAIN inFlight : inFlight'[k] =
           IF inFlight[k].pc = "built" THEN [inFlight[k] EXCEPT !.pc = "failed"] ELSE inFlight[k]
  BY DEF DropInjection, Conclude
<1>4. \A k \in DOMAIN inFlight :
        \E c \in {"formatting", "parked", "built", "accepted", "failed"} :
          inFlight'[k] = [inFlight[k] EXCEPT !.pc = c]
  BY <1>0, <1>2, PcFacts
<1>5. /\ \A k \in DOMAIN inFlight :
           /\ inFlight[k] \in InFlight /\ inFlight'[k] \in InFlight'
           /\ Kin(inFlight'[k], inFlight[k])
      /\ \A e \in InFlight' : \E k \in DOMAIN inFlight : e = inFlight'[k]
      /\ \A e \in InFlight : \E k \in DOMAIN inFlight : e = inFlight[k]
  BY <1>0, <1>2, <1>4, FlightAdvances DEF OwnInv
<1>p. \A k \in DOMAIN inFlight : inFlight'[k].pc = IF inFlight[k].pc = "built" THEN "failed" ELSE inFlight[k].pc
  <2> TAKE k \in DOMAIN inFlight
  <2>1. [inFlight[k] EXCEPT !.pc = "failed"].pc = "failed"
    BY <1>0, MovedFacts
  <2> QED BY <1>2, <2>1
<1>6. Attempts'
  BY <1>1, <1>5, <1>p DEF OwnInv, Attempts, Doomed, Kin
<1>7. Tools'
  <2>1. ~\E e \in InFlight' : e.pc = "built"
    BY <1>5, <1>p
  <2> QED BY <2>1, <1>1 DEF OwnInv, Tools
<1>8. Consumed'
  <2>1. \A e \in InFlight : e.pc = "accepted" => \E f \in InFlight' : f.job = e.job /\ f.pc = "accepted"
    BY <1>5, <1>p DEF Kin
  <2> QED BY <2>1, <1>1 DEF OwnInv, Consumed
<1>9. UNCHANGED <<jobs, row, markers, timer, deliveries, wait>>
  BY DEF DropInjection
<1> QED BY <1>0, <1>1, <1>2, <1>4, <1>6, <1>7, <1>8, <1>9, AdvancedOwn

\* beginDispose() clears the yield queue and the eval cell.
LEMMA BeginDisposeOwn ==
  ASSUME OwnInv, BeginDispose
  PROVE  OwnInv'
<1>0. DeliveryType /\ IInv' /\ IInv
  BY Types, BeginDisposeStep DEF OwnInv, IInv
<1>1. /\ session = "open" /\ session' = "disposing" /\ evalWait' = {}
      /\ UNCHANGED <<jobs, row, suppressed, watched, consumed, released, timer, deliveries, wait, epoch>>
  BY DEF BeginDispose, markers
<1>2. /\ DOMAIN inFlight' = DOMAIN inFlight
      /\ \A k \in DOMAIN inFlight : inFlight'[k] =
           IF inFlight[k].pc = "parked" THEN [inFlight[k] EXCEPT !.pc = "failed"] ELSE inFlight[k]
  BY DEF BeginDispose
<1>4. \A k \in DOMAIN inFlight :
        \E c \in {"formatting", "parked", "built", "accepted", "failed"} :
          inFlight'[k] = [inFlight[k] EXCEPT !.pc = c]
  BY <1>0, <1>2, PcFacts
<1>5. /\ \A k \in DOMAIN inFlight :
           /\ inFlight[k] \in InFlight /\ inFlight'[k] \in InFlight'
           /\ Kin(inFlight'[k], inFlight[k])
      /\ \A e \in InFlight' : \E k \in DOMAIN inFlight : e = inFlight'[k]
      /\ \A e \in InFlight : \E k \in DOMAIN inFlight : e = inFlight[k]
  BY <1>0, <1>2, <1>4, FlightAdvances DEF OwnInv
<1>p. \A k \in DOMAIN inFlight : inFlight'[k].pc = IF inFlight[k].pc = "parked" THEN "failed" ELSE inFlight[k].pc
  <2> TAKE k \in DOMAIN inFlight
  <2>1. [inFlight[k] EXCEPT !.pc = "failed"].pc = "failed"
    BY <1>0, MovedFacts
  <2> QED BY <1>2, <2>1
<1>6. Attempts'
  BY <1>1, <1>5, <1>p DEF OwnInv, Attempts, Doomed, Kin
<1>7. Tools'
  <2>1. (\E e \in InFlight' : e.pc = "built") => \E e \in InFlight : e.pc = "built"
    BY <1>5, <1>p
  <2> QED BY <2>1, <1>1 DEF OwnInv, Tools, ForegroundCall
<1>8. Consumed'
  <2>1. \A e \in InFlight : e.pc = "accepted" => \E f \in InFlight' : f.job = e.job /\ f.pc = "accepted"
    BY <1>5, <1>p DEF Kin
  <2> QED BY <2>1, <1>1 DEF OwnInv, Consumed
<1>9. UNCHANGED <<jobs, row, markers, timer, deliveries, wait>>
  BY DEF BeginDispose
<1> QED BY <1>0, <1>1, <1>2, <1>4, <1>6, <1>7, <1>8, <1>9, AdvancedOwn

\* The message enters the transcript: what it holds was not told, and no tool
\* runs until the manager has heard of it.
LEMMA CommitOwn ==
  ASSUME OwnInv, Commit
  PROVE  OwnInv'
<1>0. DeliveryType /\ JobsType /\ IInv' /\ IInv
  BY Types, CommitStep DEF OwnInv, IInv
<1>1. UNCHANGED <<row, suppressed, watched, consumed, released, timer, deliveries, wait,
                  evalWait, session, epoch>>
  BY DEF Commit, markers, owner
<1>2. /\ DOMAIN inFlight' = DOMAIN inFlight
      /\ \A k \in DOMAIN inFlight : inFlight'[k] =
           IF inFlight[k].pc = "built" THEN [inFlight[k] EXCEPT !.pc = "accepted"] ELSE inFlight[k]
  BY DEF Commit, Conclude
<1>4. \A k \in DOMAIN inFlight :
        \E c \in {"formatting", "parked", "built", "accepted", "failed"} :
          inFlight'[k] = [inFlight[k] EXCEPT !.pc = c]
  BY <1>0, <1>2, PcFacts
<1>5. /\ Separate'
      /\ \A k \in DOMAIN inFlight :
           /\ inFlight[k] \in InFlight /\ inFlight'[k] \in InFlight'
           /\ Kin(inFlight'[k], inFlight[k])
      /\ \A e \in InFlight' : \E k \in DOMAIN inFlight : e = inFlight'[k]
      /\ \A e \in InFlight : \E k \in DOMAIN inFlight : e = inFlight[k]
  BY <1>0, <1>2, <1>4, FlightAdvances DEF OwnInv
<1>p. \A k \in DOMAIN inFlight :
        inFlight'[k].pc = IF inFlight[k].pc = "built" THEN "accepted" ELSE inFlight[k].pc
  <2> TAKE k \in DOMAIN inFlight
  <2>1. [inFlight[k] EXCEPT !.pc = "accepted"].pc = "accepted"
    BY <1>0, MovedFacts
  <2> QED BY <1>2, <2>1
<1>6. /\ \A e \in InFlight' : \E d \in InFlight :
           Kin(e, d) /\ e.pc = IF d.pc = "built" THEN "accepted" ELSE d.pc
      /\ \A d \in InFlight : \E e \in InFlight' :
           Kin(e, d) /\ e.pc = IF d.pc = "built" THEN "accepted" ELSE d.pc
  BY <1>5, <1>p
<1> DEFINE News(j) == \E d \in InFlight : d.pc = "built" /\ d.job = j
<1>7. \A j \in Job : jobs'[j] = IF News(j) THEN [jobs[j] EXCEPT !.told = Capped(@ + 1)] ELSE jobs[j]
  <2>1. \A j \in Job : News(j) <=> \E i \in At("built") : inFlight[i].job = j
    BY DEF At, InFlight
  <2> HIDE DEF News
  <2> QED BY <2>1 DEF Commit
<1>8. \A j \in Job : News(j) => Listed(j) /\ Settled(j) /\ ~Told(j)
  BY ParcelFacts DEF OwnInv, Attempts
<1>9. \A j \in Job :
        /\ jobs'[j].id = jobs[j].id /\ jobs'[j].st = jobs[j].st /\ jobs'[j].fg = jobs[j].fg
        /\ jobs'[j].seen = jobs[j].seen /\ jobs'[j].ended = jobs[j].ended
        /\ jobs'[j].dropped = jobs[j].dropped
        /\ jobs'[j].told = IF News(j) THEN 1 ELSE jobs[j].told
  <2> TAKE j \in Job
  <2>1. jobs[j] \in JobRec
    BY <1>0, JobFields
  <2>2. News(j) => jobs[j].told = 0
    BY <1>8, <2>1 DEF JobRec
  <2> HIDE DEF News
  <2>3. CASE News(j)
    <3>1. Capped(jobs[j].told + 1) = 1
      BY <2>2, <2>3 DEF Capped
    <3>2. jobs'[j] = [jobs[j] EXCEPT !.told = 1]
      BY <1>7, <2>3, <3>1
    <3> QED BY <2>1, <2>3, <3>2 DEF JobRec
  <2>4. CASE ~News(j)
    BY <1>7, <2>4
  <2> QED BY <2>3, <2>4
<1>10. \E d \in InFlight : d.pc = "built"
  BY DEF Commit, At, InFlight
<1>11. wait = {} /\ evalWait = {} /\ \A j \in Job : ~ForegroundCall(j)
  BY <1>10 DEF OwnInv, Tools
<1>12. Owners' /\ DeliveredOnce'
  BY <1>8, <1>9 DEF OwnInv, Owners, DeliveredOnce
<1>13. Addressed'
  <2>1. \A d \in deliveries : ~News(d.job)
    BY DEF OwnInv, OneParcel
  <2>2. \A d \in Parcels : d.job \in Job
    BY ParcelFacts
  <2> HIDE DEF News
  <2> QED BY <1>1, <1>6, <1>9, <2>1, <2>2 DEF OwnInv, Addressed, Kin
<1>14. OneParcel'
  <2>1. \A e, f \in InFlight' : e.job = f.job => e = f
    BY <1>5 DEF Separate, OwnInv, Kin
  <2> QED BY <2>1, <1>1, <1>6 DEF OwnInv, OneParcel, Kin
<1>15. Attempts'
  <2> SUFFICES ASSUME NEW e \in InFlight'
               PROVE  /\ e.epoch <= epoch
                      /\ e.epoch # epoch => Answered(e.job)'
                      /\ e.pc = "parked" => e.epoch = epoch /\ session = "open"
                      /\ e.pc = "built" => ~Told(e.job)'
                      /\ e.pc = "accepted" => Answered(e.job)' \/ session # "open"
                      /\ e.pc \in {"formatting", "parked", "failed"} =>
                           ~Told(e.job)' \/ e.id \in suppressed \/ Doomed(e)
    BY <1>1 DEF Attempts, Doomed
  <2>1. PICK d \in InFlight : Kin(e, d) /\ e.pc = IF d.pc = "built" THEN "accepted" ELSE d.pc
    BY <1>6
  <2>2. d.job \in Job
    BY ParcelFacts
  <2>3. d.pc # "built" => ~News(d.job)
    BY DEF OwnInv, OneParcel
  <2>4. d.pc = "built" => News(d.job)
    OBVIOUS
  <2> HIDE DEF News
  <2> QED BY <1>1, <1>9, <2>1, <2>2, <2>3, <2>4 DEF OwnInv, Attempts, Doomed, Kin
<1>16. Tools'
  <2>1. ~\E e \in InFlight' : e.pc = "built"
    BY <1>6
  <2> QED BY <2>1, <1>1, <1>11 DEF OwnInv, Tools
<1>17. Marked'
  <2>1. \A j \in Job : jobs[j].fg => ~News(j)
    BY <1>8
  <2> HIDE DEF News
  <2> QED BY <1>1, <1>9, <2>1 DEF OwnInv, Marked
<1>18. Consumed'
  <2> SUFFICES ASSUME NEW j \in Job, Listed(j)', Settled(j)', row[IdOf(j)] = j, Told(j)',
                      IdOf(j) \notin consumed
               PROVE  \E e \in InFlight' : e.job = j /\ e.pc = "accepted"
    BY <1>1, <1>9, <1>11 DEF Consumed
  <2>1. CASE News(j)
    <3>1. PICK d \in InFlight : d.pc = "built" /\ d.job = j
      BY <2>1
    <3> QED BY <3>1, <1>6 DEF Kin
  <2>2. CASE ~News(j)
    <3>1. PICK d \in InFlight : d.job = j /\ d.pc = "accepted"
      BY <1>9, <2>2 DEF OwnInv, Consumed
    <3> QED BY <3>1, <1>6 DEF Kin
  <2> QED BY <2>1, <2>2
<1>19. PutOff'
  <2>1. \A id \in Id : row[id] # 0 => row[id] \in Job
    BY RowOwner
  <2> HIDE DEF News
  <2> QED BY <1>1, <1>6, <1>9, <2>1 DEF OwnInv, PutOff, Kin, Name, Visible
<1>20. NoResultLost'
  <2> HIDE DEF News
  <2> QED BY <1>1, <1>6, <1>9 DEF OwnInv, NoResultLost, Pending, Kin
<1> QED BY <1>0, <1>5, <1>12, <1>13, <1>14, <1>15, <1>16, <1>17, <1>18, <1>19, <1>20 DEF OwnInv

\* A delivery that is taken is attempted, unless the sink is gone: its id is
\* neither suppressed nor watched.
LEMMA TakeOwn ==
  ASSUME OwnInv, NEW d \in deliveries, Take(d)
  PROVE  OwnInv'
<1>0. TypeOK /\ DeliveryType /\ RestType /\ IInv' /\ IInv
  BY Types, TakeStep DEF OwnInv, IInv
<1>1. UNCHANGED <<jobs, row, suppressed, watched, consumed, released, timer, wait, evalWait,
                  session, epoch>>
  BY DEF Take, markers, owner
<1>2. /\ d \in Delivery /\ d.job \in Job /\ d.id = IdOf(d.job) /\ Listed(d.job) /\ Settled(d.job)
      /\ d.id \notin watched /\ d.id \notin suppressed /\ ~Told(d.job)
  BY <1>0, ParcelFacts DEF OwnInv, Addressed, DeliveryType
<1>3. deliveries' = deliveries \ {d} /\ inFlight' = inFlight \o Started(d)
  BY <1>2 DEF Take, Suppressed
<1>4. \A e \in InFlight : e.job # d.job
  BY DEF OwnInv, OneParcel
<1>5. Started(d) \in Seq(Attempt)
  BY <1>0, <1>2, StartedFacts
<1>6. /\ Separate' /\ InFlight \subseteq InFlight'
      /\ \A e \in InFlight' : e \in InFlight \/
           /\ session # "closed" /\ e.job = d.job /\ e.id = d.id /\ e.epoch = epoch
           /\ e.pc = IF session = "disposing" THEN "accepted" ELSE "formatting"
      /\ \A e, f \in InFlight' : e \notin InFlight /\ f \notin InFlight => e = f
      /\ session # "closed" => \E e \in InFlight' : e.job = d.job
  BY <1>0, <1>3, <1>4, <1>5, FlightGrows DEF OwnInv
<1>7. Owners' /\ DeliveredOnce' /\ Marked'
  BY <1>1 DEF OwnInv, Owners, DeliveredOnce, Marked
<1>8. Addressed'
  BY <1>1, <1>2, <1>3, <1>6 DEF OwnInv, Addressed
<1>9. OneParcel'
  BY <1>3, <1>4, <1>6 DEF OwnInv, OneParcel
<1>10. Attempts'
  BY <1>0, <1>1, <1>2, <1>6 DEF OwnInv, Attempts, Doomed, RestType
<1>11. Tools'
  BY <1>1, <1>6 DEF OwnInv, Tools, ForegroundCall
<1>12. Consumed'
  BY <1>1, <1>6 DEF OwnInv, Consumed
<1>13. PutOff'
  BY <1>1, <1>2, <1>6 DEF OwnInv, PutOff, Visible
<1>14. NoResultLost'
  BY <1>1, <1>3, <1>6 DEF OwnInv, NoResultLost, Pending
<1> QED BY <1>0, <1>6, <1>7, <1>8, <1>9, <1>10, <1>11, <1>12, <1>13, <1>14 DEF OwnInv

\* What an ended attempt leaves: nobody waits any more for an eviction that
\* waited for it.
LEMMA WokenOwn ==
  ASSUME OwnInv, NEW i \in DOMAIN inFlight, InFlight' = InFlight \ {inFlight[i]},
         UNCHANGED <<row, suppressed>>, \A j \in Job : jobs'[j].fg = jobs[j].fg,
         \A id \in Id : timer'[id].s \in {"deferred", "evicting"} => timer'[id] = Woken(inFlight[i])[id]
  PROVE  PutOff'
<1> DEFINE d == inFlight[i]
<1>0. TypeOK /\ d \in InFlight
  BY Types, InFlightFacts DEF OwnInv, IInv
<1>1. \A id \in Id : Woken(d)[id] = IF timer[id].s = "deferred" /\ timer[id].on = Name(d)
                                    THEN [timer[id] EXCEPT !.s = "evicting"] ELSE timer[id]
  BY DEF Woken
<1> HIDE DEF d
<1> SUFFICES ASSUME NEW id \in Id
             PROVE  /\ timer'[id].s \in {"deferred", "evicting"} => id \in suppressed /\ Visible(id)'
                    /\ timer'[id].s = "deferred" =>
                         \E e \in InFlight' : Name(e) = timer'[id].on /\ e.id = id
                    /\ timer'[id].s = "evicting" => \A e \in InFlight' : e.id # id
  BY DEF PutOff
<1>2. timer[id] \in TimerRec
  BY <1>0, Types DEF RowsType
<1>3. Visible(id) => Visible(id)'
  BY RowOwner DEF Visible
<1>4. CASE timer[id].s = "deferred" /\ timer[id].on = Name(d)
  <2>1. PICK e \in InFlight : Name(e) = Name(d) /\ e.id = id
    BY <1>4 DEF OwnInv, PutOff
  <2>2. e = d
    BY <1>0, <2>1 DEF OwnInv, OneParcel, Name
  <2>3. \A f \in InFlight' : f.id # id
    BY <1>0, <2>1, <2>2, ParcelFacts DEF d
  <2>4. Woken(d)[id] = [timer[id] EXCEPT !.s = "evicting"]
    BY <1>1, <1>4
  <2>5. Woken(d)[id].s = "evicting"
    BY <1>2, <2>4 DEF TimerRec
  <2>6. timer'[id].s \in {"deferred", "evicting"} => timer'[id].s = "evicting"
    BY <2>5 DEF d
  <2> QED BY <1>3, <1>4, <2>3, <2>6 DEF OwnInv, PutOff
<1>5. CASE ~(timer[id].s = "deferred" /\ timer[id].on = Name(d))
  <2>1. timer'[id].s \in {"deferred", "evicting"} => timer'[id] = timer[id]
    BY <1>1, <1>5 DEF d
  <2>2. \A e \in InFlight : Name(e) = timer[id].on /\ timer[id].s = "deferred" => e \in InFlight'
    BY <1>5 DEF d
  <2> QED BY <1>3, <2>1, <2>2 DEF OwnInv, PutOff, d
<1> QED BY <1>4, <1>5

\* The sink returned: the result was told, or the session is going.
LEMMA AttemptAcceptedOwn ==
  ASSUME OwnInv, NEW i \in DOMAIN inFlight, AttemptAccepted(i)
  PROVE  OwnInv'
<1> DEFINE d == inFlight[i]
<1>0. TypeOK /\ DeliveryType /\ IInv' /\ IInv
  BY Types, AttemptAcceptedStep DEF OwnInv, IInv
<1>1. /\ d.pc = "accepted" /\ inFlight' = Without(i)
      /\ consumed' = consumed \cup Consumable({d.id})
      /\ UNCHANGED <<jobs, row, suppressed, watched, released, deliveries, wait, evalWait,
                     session, epoch>>
  BY DEF AttemptAccepted, owner
<1>2. /\ Separate' /\ InFlight' = InFlight \ {d} /\ \A e \in InFlight' : e.job # d.job
  BY <1>0, <1>1, FlightShrinks DEF OwnInv
<1>3. /\ d \in InFlight /\ d.job \in Job /\ d.id \in Id /\ d.id = IdOf(d.job)
      /\ Listed(d.job) /\ Settled(d.job)
      /\ row[d.id] \in {0, d.job} /\ d.id \notin watched
      /\ Answered(d.job) \/ session # "open"
  BY <1>0, <1>1, InFlightFacts, ParcelFacts DEF OwnInv, Addressed, Attempts
<1>4. /\ \A id \in Consumable({d.id}) : id = d.id /\ row[id] = d.job
      /\ row[d.id] = d.job => d.id \in consumed'
  <2>1. jobs[d.job].ended
    BY <1>3 DEF OwnInv, IInv, Rows
  <2>2. d.job # 0
    BY <1>3, Basics
  <2> QED BY <1>1, <1>3, <2>1, <2>2 DEF Consumable
<1>5. \A id \in Id : timer'[id].s \in {"deferred", "evicting"} => timer'[id] = Woken(d)[id]
  <2>1. timer' = Woken(d) \/ timer' = [Woken(d) EXCEPT ![d.id] = Armed]
    BY DEF AttemptAccepted
  <2>2. Armed.s = "armed" /\ DOMAIN Woken(d) = Id
    BY DEF Armed, Woken
  <2> HIDE DEF d
  <2> QED BY <1>3, <2>1, <2>2
<1>6. PutOff'
  BY <1>1, <1>2, <1>5, WokenOwn
<1> HIDE DEF d
<1>7. Owners' /\ DeliveredOnce' /\ Addressed' /\ OneParcel'
  BY <1>1, <1>2 DEF OwnInv, Owners, DeliveredOnce, Addressed, OneParcel
<1>8. Attempts'
  BY <1>1, <1>2 DEF OwnInv, Attempts, Doomed
<1>9. Tools'
  <2>1. \A id \in wait : id \in consumed' => id \in consumed \/ row[id] = 0
    BY <1>1, <1>3, <1>4 DEF OwnInv, Tools
  <2> QED BY <2>1, <1>1, <1>2 DEF OwnInv, Tools, ForegroundCall
<1>10. Marked'
  <2>1. \A j \in Job : jobs[j].fg => j # d.job
    BY <1>3
  <2> QED BY <2>1, <1>1, <1>3, <1>4 DEF OwnInv, Marked
<1>11. Consumed'
  <2> SUFFICES ASSUME NEW j \in Job, Listed(j), Settled(j), row[IdOf(j)] = j, Told(j),
                      IdOf(j) \notin consumed'
               PROVE  wait = {} /\ \E e \in InFlight' : e.job = j /\ e.pc = "accepted"
    BY <1>1 DEF Consumed
  <2>1. wait = {} /\ \E e \in InFlight : e.job = j /\ e.pc = "accepted"
    BY <1>1 DEF OwnInv, Consumed
  <2>2. j # d.job
    BY <1>3, <1>4
  <2> QED BY <2>1, <2>2, <1>2
<1>12. NoResultLost'
  <2> SUFFICES ASSUME session = "open", NEW j \in Job, Settled(j), ~jobs[j].fg, ~jobs[j].dropped,
                      jobs[j].told = 0
               PROVE  Pending(j)'
    BY <1>1 DEF NoResultLost
  <2>1. Pending(j) /\ j # d.job
    BY <1>3 DEF OwnInv, NoResultLost
  <2>2. \A id \in watched : id \in consumed' => id \in consumed
    BY <1>1, <1>3, <1>4
  <2> QED BY <2>1, <2>2, <1>1, <1>2 DEF Pending
<1> QED BY <1>0, <1>2, <1>6, <1>7, <1>8, <1>9, <1>10, <1>11, <1>12 DEF OwnInv

\* The sink threw: a retry is queued, or the result was told or dropped.
LEMMA AttemptFailedOwn ==
  ASSUME OwnInv, NEW i \in DOMAIN inFlight, AttemptFailed(i)
  PROVE  OwnInv'
<1> DEFINE d == inFlight[i]
           again == [job |-> d.job, id |-> d.id, nth |-> d.nth]
           retry == ~Suppressed(d.id) /\ row[d.id] # 0
<1>0. TypeOK /\ DeliveryType /\ JobsType /\ IInv' /\ IInv
  BY Types, AttemptFailedStep DEF OwnInv, IInv
<1>1. /\ d.pc = "failed" /\ inFlight' = Without(i) /\ timer' = Woken(d)
      /\ deliveries' = IF retry THEN deliveries \cup {again} ELSE deliveries
      /\ jobs' = IF row[d.id] = 0 THEN [jobs EXCEPT ![d.job].dropped = TRUE] ELSE jobs
      /\ UNCHANGED <<row, suppressed, watched, consumed, released, wait, evalWait, session, epoch>>
  BY DEF AttemptFailed, markers, owner
<1>2. /\ Separate' /\ InFlight' = InFlight \ {d} /\ \A e \in InFlight' : e.job # d.job
  BY <1>0, <1>1, FlightShrinks DEF OwnInv
<1>3. /\ d \in InFlight /\ d.job \in Job /\ d.id \in Id /\ d.id = IdOf(d.job)
      /\ Listed(d.job) /\ Settled(d.job)
      /\ row[d.id] \in {0, d.job} /\ d.id \notin watched
      /\ ~Told(d.job) \/ d.id \in suppressed \/ row[d.id] = 0
  BY <1>0, <1>1, InFlightFacts, ParcelFacts DEF OwnInv, Addressed, Attempts, Doomed
<1>4. again.job = d.job /\ again.id = d.id
  OBVIOUS
<1>5. \A j \in Job :
        /\ jobs'[j].id = jobs[j].id /\ jobs'[j].st = jobs[j].st /\ jobs'[j].fg = jobs[j].fg
        /\ jobs'[j].seen = jobs[j].seen /\ jobs'[j].ended = jobs[j].ended
        /\ jobs'[j].told = jobs[j].told
        /\ jobs'[j].dropped = (jobs[j].dropped \/ (j = d.job /\ row[d.id] = 0))
  <2> TAKE j \in Job
  <2>1. jobs[j] \in JobRec /\ jobs[j].dropped \in BOOLEAN
    BY <1>0, JobFields
  <2> HIDE DEF d
  <2>2. CASE j = d.job /\ row[d.id] = 0
    <3>1. jobs'[j] = [jobs[j] EXCEPT !.dropped = TRUE]
      BY <1>0, <1>1, <2>2 DEF JobsType
    <3> QED BY <2>1, <2>2, <3>1 DEF JobRec
  <2>3. CASE ~(j = d.job /\ row[d.id] = 0)
    <3>1. jobs'[j] = jobs[j]
      BY <1>0, <1>1, <2>3 DEF JobsType
    <3> QED BY <2>1, <2>3, <3>1
  <2> QED BY <2>2, <2>3
<1>6. PutOff'
  BY <1>1, <1>2, <1>5, WokenOwn
<1> HIDE DEF d, again, retry
<1>7. /\ \A x \in deliveries' : x \in deliveries \/ (retry /\ x = again)
      /\ deliveries \subseteq deliveries' /\ (retry => again \in deliveries')
  BY <1>1
<1>8. retry => ~Told(d.job) /\ d.id \notin suppressed
  BY <1>3 DEF retry, Suppressed
<1>9. Owners' /\ DeliveredOnce'
  BY <1>5 DEF OwnInv, Owners, DeliveredOnce
<1>10. Addressed'
  <2>1. \A x \in Parcels : x.job \in Job
    BY ParcelFacts
  <2>2. Addressed
    BY DEF OwnInv
  <2>3. ASSUME NEW x \in Parcels'
        PROVE  x \in Parcels \/ (x.job = d.job /\ x.id = d.id)
    BY <1>2, <1>4, <1>7 DEF Parcels
  <2>4. d \in Parcels
    BY <1>3 DEF Parcels
  <2>5. ASSUME NEW x \in Parcels'
        PROVE  x.id = IdOf(x.job)' /\ Settled(x.job)' /\ ~jobs'[x.job].fg /\ x.id \notin watched'
    <3>1. x.id = IdOf(x.job) /\ Settled(x.job) /\ ~jobs[x.job].fg /\ x.id \notin watched
      BY <2>2, <2>3, <2>4 DEF Addressed
    <3>2. x.job \in Job
      BY <1>3, <2>1, <2>3
    <3> QED BY <1>1, <1>5, <3>1, <3>2 DEF IdOf, Settled
  <2>6. ASSUME NEW x \in deliveries'
        PROVE  ~Told(x.job)' /\ x.id \notin suppressed'
    <3>1. x \in deliveries => x \in Parcels /\ ~Told(x.job) /\ x.id \notin suppressed
      BY <2>2 DEF Addressed, Parcels
    <3>2. ~Told(x.job) /\ x.id \notin suppressed /\ x.job \in Job
      BY <1>3, <1>4, <1>7, <1>8, <2>1, <3>1
    <3> QED BY <1>1, <1>5, <3>2 DEF Told
  <2> QED BY <2>5, <2>6 DEF Addressed
<1>11. OneParcel'
  BY <1>2, <1>3, <1>4, <1>7 DEF OwnInv, OneParcel
<1>12. Attempts'
  <2>1. \A x \in Parcels : x.job \in Job
    BY ParcelFacts
  <2> QED BY <2>1, <1>1, <1>2, <1>5 DEF OwnInv, Attempts, Doomed
<1>13. Tools'
  <2>1. evalWait \subseteq Job
    BY <1>0 DEF TypeOK
  <2> QED BY <2>1, <1>1, <1>2, <1>5 DEF OwnInv, Tools, ForegroundCall
<1>14. Marked'
  BY <1>1, <1>5 DEF OwnInv, Marked
<1>15. Consumed'
  <2>1. \A e \in InFlight : e.pc = "accepted" => e \in InFlight'
    BY <1>1, <1>2
  <2> QED BY <2>1, <1>1, <1>5 DEF OwnInv, Consumed
<1>16. NoResultLost'
  <2> SUFFICES ASSUME session = "open", NEW j \in Job, Settled(j), ~jobs[j].fg, ~jobs[j].dropped,
                      jobs[j].told = 0, ~(j = d.job /\ row[d.id] = 0)
               PROVE  Pending(j)'
    BY <1>1, <1>5 DEF NoResultLost
  <2>1. Pending(j)
    BY DEF OwnInv, NoResultLost
  <2>2. CASE j = d.job
    <3>1. retry
      BY <1>3, <2>2 DEF retry, Suppressed, OwnInv, Marked
    <3> QED BY <2>2, <3>1, <1>4, <1>7 DEF Pending
  <2>3. CASE j # d.job
    BY <2>1, <2>3, <1>1, <1>2, <1>5, <1>7 DEF Pending
  <2> QED BY <2>2, <2>3
<1> QED BY <1>0, <1>2, <1>6, <1>9, <1>10, <1>11, <1>12, <1>13, <1>14, <1>15, <1>16 DEF OwnInv

-----------------------------------------------------------------------------
(* The wait tool, the kill of a job, and an eval cell's wait(). *)

\* What of a job the ownership of results depends on: it stays, but for jobs
\* that are cancelled as they run.
Same(j) ==
  /\ jobs'[j].id = jobs[j].id /\ jobs'[j].fg = jobs[j].fg /\ jobs'[j].seen = jobs[j].seen
  /\ jobs'[j].ended = jobs[j].ended /\ jobs'[j].dropped = jobs[j].dropped
  /\ jobs'[j].st = jobs[j].st \/ (jobs[j].st = "running" /\ jobs'[j].st = "cancelled")

\* Jobs may be cancelled as they run, and an eval cell may begin or give up.
LEMMA QuietOwn ==
  ASSUME OwnInv, IInv', \A j \in Job : Same(j) /\ jobs'[j].told = jobs[j].told,
         UNCHANGED <<row, suppressed, watched, consumed, released, timer, deliveries, inFlight,
                     wait, session, epoch>>,
         \A j \in evalWait' : j \in Job /\ Listed(j),
         evalWait' # {} => wait = {} /\ \A d \in InFlight : d.pc # "built"
  PROVE  OwnInv'
<1>1. InFlight' = InFlight
  BY DEF InFlight
<1>2. /\ \A d \in Parcels : d.job \in Job
      /\ \A id \in Id : row[id] # 0 => row[id] \in Job
  BY ParcelFacts, RowOwner
<1>3. Owners' /\ DeliveredOnce' /\ Separate' /\ OneParcel'
  BY <1>1 DEF OwnInv, Owners, DeliveredOnce, Separate, OneParcel, Same
<1>4. Addressed' /\ Attempts'
  BY <1>1, <1>2 DEF OwnInv, Addressed, Attempts, Doomed, Same
<1>5. Tools'
  BY <1>1 DEF OwnInv, Tools, ForegroundCall, Same
<1>6. Marked' /\ Consumed'
  BY <1>1 DEF OwnInv, Marked, Consumed, Same
<1>7. PutOff'
  BY <1>1, <1>2 DEF OwnInv, PutOff, Visible, Same
<1>8. NoResultLost'
  BY <1>1 DEF OwnInv, NoResultLost, Pending, Same
<1> QED BY <1>3, <1>4, <1>5, <1>6, <1>7, <1>8 DEF OwnInv

\* Results that are consumed are told, or were: what is queued of them goes,
\* what is in flight is refused, and no wait goes on.
LEMMA ConsumeOwn ==
  ASSUME OwnInv, IInv', NEW ids \in SUBSET Id, Consume(ids),
         \A j \in Job : Same(j) /\ jobs'[j].told >= jobs[j].told /\ jobs'[j].told <= 1,
         \A j \in Job : jobs'[j].told # jobs[j].told => Listed(j) /\ Settled(j) /\ IdOf(j) \in ids,
         \A j \in Job : Listed(j) /\ IdOf(j) \in ids =>
           jobs'[j].st # "running" /\ (Settled(j) => jobs'[j].told > 0 \/ jobs[j].dropped),
         \A id \in ids : row[id] # 0 => ~jobs[row[id]].fg,
         \A d \in InFlight : d.pc # "built",
         wait' = {}, watched' = {},
         \A id \in wait : row[id] # 0 /\ Settled(row[id]) => id \in ids,
         evalWait' \subseteq evalWait,
         UNCHANGED <<row, released, inFlight, session, epoch>>
  PROVE  OwnInv'
<1>1. InFlight' = InFlight
  BY DEF InFlight
<1>2. /\ \A d \in Parcels : d.job \in Job /\ d.id = IdOf(d.job)
      /\ \A id \in Id : row[id] # 0 => row[id] \in Job
      /\ \A j \in Job : IdOf(j) \in Id /\ jobs[j].told \in 0..2 /\ jobs'[j].told \in 0..2
  BY ParcelFacts, RowOwner, ListedFacts, Types, JobFields DEF OwnInv, IInv, JobsType, JobRec
<1>3. /\ suppressed' = suppressed \cup ids
      /\ deliveries' \subseteq deliveries
      /\ \A d \in deliveries' : d.id \notin suppressed'
      /\ \A d \in deliveries : d.id \notin ids => d \in deliveries'
      /\ consumed' = consumed \cup Consumable(ids)
      /\ \A id \in Id : timer'[id] = timer[id] \/ timer'[id].s = "armed"
  BY DEF Consume, OwnInv, Addressed, Armed
<1>4. /\ Consumable(ids) \subseteq ids
      /\ \A id \in ids : row[id] # 0 /\ jobs[row[id]].ended => id \in consumed'
  BY <1>3 DEF Consumable
<1>5. Owners' /\ DeliveredOnce' /\ Separate' /\ OneParcel'
  <2>1. Owners'
    BY <1>2 DEF OwnInv, Owners, Same
  <2>2. DeliveredOnce' /\ Separate' /\ OneParcel'
    BY <1>1, <1>3 DEF OwnInv, DeliveredOnce, Separate, OneParcel
  <2> QED BY <2>1, <2>2
<1>6. Addressed'
  BY <1>1, <1>2, <1>3 DEF OwnInv, Addressed, Same
<1>7. Attempts'
  BY <1>1, <1>2, <1>3 DEF OwnInv, Attempts, Doomed, Same
<1>8. Tools'
  <2>1. evalWait \subseteq Job
    BY Types DEF OwnInv, IInv, RestType
  <2> QED BY <2>1, <1>1 DEF OwnInv, Tools, Same
<1>9. Marked'
  <2> SUFFICES ASSUME NEW j \in Job
               PROVE  /\ jobs'[j].fg /\ row[IdOf(j)'] = j =>
                           /\ IdOf(j)' \in suppressed' /\ IdOf(j)' \notin consumed'
                           /\ IdOf(j)' \notin released => ~Told(j)'
                      /\ Listed(j)' /\ IdOf(j)' \in suppressed' =>
                           jobs'[j].st # "running" /\ (Settled(j)' => Answered(j)')
                      /\ Listed(j)' /\ Settled(j)' /\ row[IdOf(j)'] = j /\ IdOf(j)' \in consumed' =>
                           Answered(j)' \/ session # "open"
    BY DEF Marked
  <2>1. jobs'[j].fg /\ row[IdOf(j)'] = j =>
           /\ IdOf(j)' \in suppressed' /\ IdOf(j)' \notin consumed'
           /\ IdOf(j)' \notin released => ~Told(j)'
    <3>1. jobs[j].fg /\ row[IdOf(j)] = j => IdOf(j) \notin ids
      BY Basics
    <3> QED BY <3>1, <1>2, <1>3, <1>4 DEF OwnInv, Marked, Same
  <2>2. Listed(j)' /\ IdOf(j)' \in suppressed' =>
           jobs'[j].st # "running" /\ (Settled(j)' => Answered(j)')
    BY <1>2, <1>3 DEF OwnInv, Marked, Same
  <2>3. Listed(j)' /\ Settled(j)' /\ row[IdOf(j)'] = j /\ IdOf(j)' \in consumed' =>
           Answered(j)' \/ session # "open"
    BY <1>2, <1>3, <1>4 DEF OwnInv, Marked, Same
  <2> QED BY <2>1, <2>2, <2>3
<1>10. Consumed'
  <2> SUFFICES ASSUME NEW j \in Job, Listed(j), Settled(j), row[IdOf(j)] = j, Told(j)',
                      IdOf(j) \notin consumed'
               PROVE  \E d \in InFlight : d.job = j /\ d.pc = "accepted"
    BY <1>1 DEF Consumed, Same
  <2>1. jobs[j].ended /\ j # 0
    BY Basics DEF OwnInv, IInv, Rows
  <2>2. IdOf(j) \notin ids
    BY <1>4, <2>1
  <2> QED BY <2>2, <1>3 DEF OwnInv, Consumed
<1>11. PutOff'
  BY <1>1, <1>2, <1>3 DEF OwnInv, PutOff, Visible, Same
<1>12. NoResultLost'
  <2> SUFFICES ASSUME session = "open", NEW j \in Job, Settled(j), ~jobs[j].fg, ~jobs[j].dropped,
                      jobs'[j].told = 0
               PROVE  Pending(j)'
    BY DEF NoResultLost, Same
  <2>1. Pending(j) /\ IdOf(j) \notin ids
    BY <1>2 DEF OwnInv, NoResultLost
  <2>2. \E d \in deliveries \cup InFlight : d.job = j
    BY <2>1, Basics DEF Pending
  <2> QED BY <2>1, <2>2, <1>1, <1>2, <1>3 DEF Pending
<1> QED BY <1>5, <1>6, <1>7, <1>8, <1>9, <1>10, <1>11, <1>12 DEF OwnInv

\* The loop ends or goes on, and a stuttering step.
LEMMA IdleOwn ==
  ASSUME OwnInv, LoopRunsDry \/ LoopEnds \/ UNCHANGED vars
  PROVE  OwnInv'
<1>1. IInv'
  BY NextIInv, LoopStep DEF OwnInv, Next, Manager
<1>2. UNCHANGED <<jobs, row, suppressed, watched, consumed, released, timer, deliveries, inFlight,
                  wait, evalWait, session, epoch>>
  BY DEF LoopRunsDry, LoopEnds, vars, markers, owner, delivery
<1>3. \A j \in Job : Same(j) /\ jobs'[j].told = jobs[j].told
  BY <1>2 DEF Same
<1>4. evalWait \subseteq Job
  BY Types DEF OwnInv, IInv, RestType
<1> QED BY <1>1, <1>2, <1>3, <1>4, QuietOwn DEF OwnInv, Tools

\* Jobs that are cancelled as they run stay what they were otherwise.
LEMMA CancelledSame ==
  ASSUME JobsType, NEW which,
         jobs' = [j \in Job |-> IF j \in which THEN [jobs[j] EXCEPT !.st = "cancelled"] ELSE jobs[j]],
         \A j \in which : jobs[j].st = "running"
  PROVE  \A j \in Job : /\ Same(j) /\ jobs'[j].told = jobs[j].told
                        /\ j \in which => jobs'[j].st = "cancelled"
                        /\ j \notin which => jobs'[j].st = jobs[j].st
<1> TAKE j \in Job
<1>1. jobs[j] \in JobRec
  BY JobFields
<1>2. jobs'[j] = IF j \in which THEN [jobs[j] EXCEPT !.st = "cancelled"] ELSE jobs[j]
  OBVIOUS
<1> QED BY <1>1, <1>2 DEF JobRec, Same

\* A user cancels a job.
LEMMA CancelJobOwn ==
  ASSUME OwnInv, NEW id \in Id, Cancel(id)
  PROVE  OwnInv'
<1>0. JobsType /\ RestType /\ IInv' /\ row[id] \in Job
  BY Types, CancelStep, RowOwner DEF OwnInv, IInv, Cancel
<1> DEFINE which == {row[id]}
<1>1. /\ UNCHANGED <<row, suppressed, watched, consumed, released, timer, deliveries, inFlight,
                     wait, evalWait, session, epoch>>
      /\ \A j \in which : jobs[j].st = "running"
      /\ jobs' = [j \in Job |-> IF j \in which THEN [jobs[j] EXCEPT !.st = "cancelled"] ELSE jobs[j]]
  BY <1>0 DEF Cancel, markers, owner, delivery, JobsType
<1> HIDE DEF which
<1>2. \A j \in Job : Same(j) /\ jobs'[j].told = jobs[j].told
  BY <1>0, <1>1, CancelledSame
<1>3. \A j \in evalWait : j \in Job
  BY <1>0 DEF RestType
<1> QED BY <1>0, <1>1, <1>2, <1>3, QuietOwn DEF OwnInv, Tools

\* An eval cell resolves its handles: agents' jobs, which are listed.
LEMMA EvalWaitBeginsOwn ==
  ASSUME OwnInv, EvalWaitBegins
  PROVE  OwnInv'
<1>1. UNCHANGED <<jobs, row, suppressed, watched, consumed, released, timer, deliveries, inFlight,
                  wait, session, epoch>>
  BY DEF EvalWaitBegins, markers, owner, delivery
<1>2. \A j \in evalWait' : j \in Job /\ Listed(j)
  <2>1. PICK ids \in SUBSET {id \in Id : id[1] \in Agent /\ row[id] # 0} :
          evalWait' = {row[id] : id \in ids}
    BY DEF EvalWaitBegins
  <2>2. \A id \in ids : id \in Id /\ id[1] # "bg" /\ row[id] # 0
    BY JobBoundAssumption
  <2>3. \A id \in ids : row[id] \in Job /\ Listed(row[id])
    BY <2>2, RowOwner DEF OwnInv, Owners
  <2> QED BY <2>1, <2>3
<1>3. wait = {} /\ \A d \in InFlight : d.pc # "built"
  BY DEF EvalWaitBegins, ToolTime
<1>4. \A j \in Job : Same(j) /\ jobs'[j].told = jobs[j].told
  BY <1>1 DEF Same
<1>5. IInv'
  BY EvalWaitBeginsStep DEF OwnInv
<1> QED BY <1>1, <1>2, <1>3, <1>4, <1>5, QuietOwn

\* An eval cell is aborted, and cancels what its handles name.
LEMMA EvalWaitAbortsOwn ==
  ASSUME OwnInv, EvalWaitAborts
  PROVE  OwnInv'
<1> DEFINE ids == {jobs[j].id : j \in evalWait}
           which == {j \in Job : jobs[j].st = "running" /\ jobs[j].id \in ids /\ row[jobs[j].id] = j}
<1>0. JobsType /\ IInv'
  BY Types, EvalWaitAbortsStep DEF OwnInv, IInv
<1>1. /\ jobs' = [j \in Job |-> IF j \in which THEN [jobs[j] EXCEPT !.st = "cancelled"] ELSE jobs[j]]
      /\ UNCHANGED <<row, suppressed, watched, consumed, released, timer, deliveries, inFlight,
                     wait, session, epoch>>
      /\ evalWait' = {}
  BY DEF EvalWaitAborts, markers, owner, delivery
<1>2. \A j \in which : jobs[j].st = "running"
  OBVIOUS
<1> HIDE DEF which
<1>3. \A j \in Job : Same(j) /\ jobs'[j].told = jobs[j].told
  BY <1>0, <1>1, <1>2, CancelledSame
<1> QED BY <1>0, <1>1, <1>3, QuietOwn

\* buildJobResult() tells what is shown, once each time.
LEMMA ShownFacts ==
  ASSUME OwnInv, NEW ids \in SUBSET Id, Show(ids), \A j \in Shown(ids) : jobs[j].told = 0
  PROVE  \A j \in Job :
           /\ Same(j) /\ jobs'[j].told >= jobs[j].told /\ jobs'[j].told <= 1
           /\ jobs'[j].told # jobs[j].told => j \in Shown(ids)
           /\ j \in Shown(ids) => jobs'[j].told = 1
<1> TAKE j \in Job
<1>0. jobs[j] \in JobRec
  BY Types, JobFields DEF OwnInv, IInv
<1>1. CASE j \in Shown(ids)
  <2>1. Capped(jobs[j].told + 1) = 1
    BY <1>1 DEF Capped
  <2>2. jobs'[j] = [jobs[j] EXCEPT !.told = 1]
    BY <1>1, <2>1 DEF Show
  <2> QED BY <1>0, <1>1, <2>2 DEF JobRec, Same
<1>2. CASE j \notin Shown(ids)
  BY <1>0, <1>2 DEF Show, JobRec, Same, OwnInv, DeliveredOnce
<1> QED BY <1>1, <1>2

\* What wait recovers at once was not told, and is told now.
LEMMA WaitRecoversOwn ==
  ASSUME OwnInv, WaitRecovers
  PROVE  OwnInv'
<1> DEFINE ids == UndeliveredIds
<1>0. JobsType /\ RestType /\ IInv'
  BY Types, WaitRecoversStep DEF OwnInv, IInv
<1>1. /\ ids \in SUBSET Id /\ wait = {} /\ watched = {} /\ evalWait = {}
      /\ \A d \in InFlight : d.pc \notin {"built", "accepted"}
      /\ Show(ids) /\ Consume(ids) /\ wait' = {} /\ watched' = {} /\ evalWait' = {}
      /\ UNCHANGED <<row, released, inFlight, session, epoch>>
  BY DEF WaitRecovers, UndeliveredIds, ToolTime, OwnInv, Tools, owner
<1>2. \A id \in ids : /\ row[id] \in Job /\ IdOf(row[id]) = id /\ Listed(row[id]) /\ Settled(row[id])
                      /\ row[id] # 0 /\ id \notin consumed
  BY RowOwner DEF UndeliveredIds, Visible
<1> HIDE DEF ids
<1>3. \A id \in ids : jobs[row[id]].told = 0 /\ row[id] \in Shown(ids)
  <2> TAKE id \in ids
  <2>1. jobs[row[id]].told \in 0..2
    BY <1>0, <1>2, JobFields
  <2>2. ~Told(row[id])
    BY <1>1, <1>2 DEF OwnInv, Consumed
  <2> QED BY <1>2, <2>1, <2>2 DEF Shown
<1>4. \A j \in Shown(ids) : \E id \in ids : j = row[id]
  BY DEF Shown
<1>5. \A j \in Job : /\ Same(j) /\ jobs'[j].told >= jobs[j].told /\ jobs'[j].told <= 1
                     /\ jobs'[j].told # jobs[j].told => j \in Shown(ids)
                     /\ j \in Shown(ids) => jobs'[j].told = 1
  BY <1>1, <1>3, <1>4, ShownFacts
<1>6. \A j \in Job : jobs'[j].told # jobs[j].told => Listed(j) /\ Settled(j) /\ IdOf(j) \in ids
  BY <1>2, <1>4, <1>5
<1>7. \A j \in Job : Listed(j) /\ IdOf(j) \in ids =>
        jobs'[j].st # "running" /\ (Settled(j) => jobs'[j].told > 0 \/ jobs[j].dropped)
  <2> TAKE j \in Job
  <2> HAVE Listed(j) /\ IdOf(j) \in ids
  <2>1. row[IdOf(j)] = j
    BY <1>2, ListedFacts
  <2> QED BY <2>1, <1>2, <1>3, <1>5 DEF Same
<1>8. \A id \in ids : row[id] # 0 => ~jobs[row[id]].fg
  BY <1>2
<1> QED BY <1>0, <1>1, <1>5, <1>6, <1>7, <1>8, ConsumeOwn

\* What a wait shows was neither told nor consumed, and is both now.
LEMMA WaitShowsOwn ==
  ASSUME OwnInv, WaitShows
  PROVE  OwnInv'
<1> DEFINE ids == {id \in wait : row[id] # 0 /\ jobs[row[id]].st # "running"}
<1>0. JobsType /\ RestType /\ IInv'
  BY Types, WaitShowsStep DEF OwnInv, IInv
<1>1. /\ wait # {} /\ ids \in SUBSET Id /\ watched \subseteq wait
      /\ Show(ids) /\ Consume(ids) /\ wait' = {} /\ watched' = {}
      /\ UNCHANGED <<row, released, inFlight, session, epoch, evalWait>>
  BY <1>0 DEF WaitShows, RestType, OwnInv, Tools, owner
<1>2. \A id \in ids : /\ row[id] \in Job /\ IdOf(row[id]) = id /\ Listed(row[id])
                      /\ jobs[row[id]].st # "running" /\ id \notin consumed /\ id \in Id /\ row[id] # 0
  <2> TAKE id \in ids
  <2>1. id \in wait /\ id \in Id /\ row[id] # 0 /\ jobs[row[id]].st # "running"
    BY <1>1
  <2>2. row[id] \in Job /\ IdOf(row[id]) = id
    BY <2>1, RowOwner
  <2>3. id \notin consumed /\ \E j \in Job : Listed(j) /\ IdOf(j) = id
    BY <2>1 DEF OwnInv, Tools
  <2>4. Listed(row[id])
    BY <2>1, <2>3, ListedFacts
  <2> QED BY <2>1, <2>2, <2>3, <2>4
<1>w. \A id \in wait : row[id] # 0 /\ Settled(row[id]) => id \in ids
  OBVIOUS
<1> HIDE DEF ids
<1>3. \A id \in ids : Settled(row[id]) => jobs[row[id]].told = 0 /\ row[id] \in Shown(ids)
  <2> TAKE id \in ids
  <2> HAVE Settled(row[id])
  <2>1. jobs[row[id]].told \in 0..2
    BY <1>0, <1>2, JobFields
  <2>2. ~Told(row[id])
    BY <1>1, <1>2 DEF OwnInv, Consumed
  <2> QED BY <1>2, <2>1, <2>2 DEF Shown
<1>4. \A j \in Shown(ids) : \E id \in ids : j = row[id] /\ Settled(j)
  BY DEF Shown
<1>5. \A j \in Job : /\ Same(j) /\ jobs'[j].told >= jobs[j].told /\ jobs'[j].told <= 1
                     /\ jobs'[j].told # jobs[j].told => j \in Shown(ids)
                     /\ j \in Shown(ids) => jobs'[j].told = 1
  BY <1>1, <1>3, <1>4, ShownFacts
<1>6. \A j \in Job : jobs'[j].told # jobs[j].told => Listed(j) /\ Settled(j) /\ IdOf(j) \in ids
  BY <1>2, <1>4, <1>5
<1>7. \A j \in Job : Listed(j) /\ IdOf(j) \in ids =>
        jobs'[j].st # "running" /\ (Settled(j) => jobs'[j].told > 0 \/ jobs[j].dropped)
  <2> TAKE j \in Job
  <2> HAVE Listed(j) /\ IdOf(j) \in ids
  <2>1. row[IdOf(j)] = j
    BY <1>2, ListedFacts
  <2> QED BY <2>1, <1>2, <1>3, <1>5 DEF Same
<1>8. \A id \in ids : row[id] # 0 => ~jobs[row[id]].fg
  BY <1>2
<1>9. \A d \in InFlight : d.pc # "built"
  BY <1>1 DEF OwnInv, Tools
<1> QED BY <1>0, <1>1, <1>5, <1>6, <1>7, <1>8, <1>9, <1>w, ConsumeOwn

\* A job the agent kills is cancelled, or its result is told unless it was.
LEMMA KillJobOwn ==
  ASSUME OwnInv, NEW id \in Id, KillJob(id)
  PROVE  OwnInv'
<1> DEFINE r == row[id]
<1>0. JobsType /\ RestType /\ IInv'
  BY Types, KillJobStep DEF OwnInv, IInv
<1>1. /\ wait = {} /\ watched = {} /\ r # 0 /\ ~jobs[r].fg /\ session = "open"
      /\ \A d \in InFlight : d.pc \notin {"built", "accepted"}
      /\ Consume({id}) /\ {id} \in SUBSET Id /\ wait' = {} /\ watched' = {}
      /\ UNCHANGED <<row, released, inFlight, session, epoch, evalWait>>
  BY DEF KillJob, Visible, ToolTime, OwnInv, Tools, owner
<1>2. r \in Job /\ IdOf(r) = id /\ Listed(r)
  BY <1>1, RowOwner
<1>3. \A j \in Job : Listed(j) /\ IdOf(j) = id => j = r
  BY <1>2, ListedFacts
<1>s. r = row[id]
  OBVIOUS
<1> HIDE DEF r
<1>4. CASE jobs[r].st = "running"
  <2> DEFINE which == {r}
  <2>1. /\ \A j \in which : jobs[j].st = "running"
        /\ jobs' = [j \in Job |-> IF j \in which THEN [jobs[j] EXCEPT !.st = "cancelled"] ELSE jobs[j]]
    BY <1>0, <1>2, <1>4, <1>s DEF KillJob, JobsType
  <2>2. r \in which
    OBVIOUS
  <2> HIDE DEF which
  <2>3. /\ \A j \in Job : Same(j) /\ jobs'[j].told = jobs[j].told
        /\ jobs'[r].st = "cancelled"
    BY <1>0, <1>2, <2>1, <2>2, CancelledSame
  <2>4. \A j \in Job : Listed(j) /\ IdOf(j) \in {id} =>
          jobs'[j].st # "running" /\ (Settled(j) => jobs'[j].told > 0 \/ jobs[j].dropped)
    BY <1>3, <1>4, <2>3
  <2>5. \A j \in Job : jobs'[j].told >= jobs[j].told /\ jobs'[j].told <= 1
    <3> TAKE j \in Job
    <3>1. jobs[j].told \in 0..2 /\ jobs[j].told <= 1
      BY <1>0, JobFields DEF OwnInv, DeliveredOnce
    <3> QED BY <3>1, <2>3
  <2>6. \A x \in {id} : row[x] # 0 => ~jobs[row[x]].fg
    BY <1>1, <1>s
  <2> QED BY <1>0, <1>1, <2>3, <2>4, <2>5, <2>6, ConsumeOwn
<1>5. CASE jobs[r].st # "running"
  <2>1. Show({id})
    BY <1>5, <1>s DEF KillJob
  <2>2. \A j \in Shown({id}) : j = r /\ Settled(r) /\ id \notin consumed
    BY <1>s DEF Shown
  <2>3. \A j \in Shown({id}) : jobs[j].told = 0
    <3> TAKE j \in Shown({id})
    <3>1. jobs[r].told \in 0..2
      BY <1>0, <1>2, JobFields
    <3>2. ~Told(r)
      BY <1>1, <1>2, <1>s, <2>2 DEF OwnInv, Consumed
    <3> QED BY <2>2, <3>1, <3>2
  <2>4. \A j \in Job : /\ Same(j) /\ jobs'[j].told >= jobs[j].told /\ jobs'[j].told <= 1
                       /\ jobs'[j].told # jobs[j].told => j \in Shown({id})
                       /\ j \in Shown({id}) => jobs'[j].told = 1
    BY <1>1, <2>1, <2>3, ShownFacts
  <2>5. \A j \in Job : jobs'[j].told # jobs[j].told => Listed(j) /\ Settled(j) /\ IdOf(j) \in {id}
    BY <1>2, <2>2, <2>4
  <2>6. Settled(r) => jobs'[r].told > 0 \/ jobs[r].dropped
    <3> SUFFICES ASSUME Settled(r) PROVE jobs'[r].told > 0 \/ jobs[r].dropped
      OBVIOUS
    <3>1. CASE id \notin consumed
      <4>1. r \in Shown({id})
        BY <1>1, <1>s, <3>1 DEF Shown
      <4> QED BY <4>1, <1>2, <2>4
    <3>2. CASE id \in consumed
      <4>1. jobs[r].told > 0 \/ jobs[r].dropped
        BY <1>1, <1>2, <1>s, <3>2 DEF OwnInv, Marked
      <4>2. jobs[r].told \in 0..2 /\ jobs'[r].told >= jobs[r].told /\ jobs'[r].told \in 0..2
        BY <1>0, <1>2, <2>4, JobFields, Types DEF IInv, JobsType, JobRec
      <4> QED BY <4>1, <4>2
    <3> QED BY <3>1, <3>2
  <2>7. \A j \in Job : Listed(j) /\ IdOf(j) \in {id} =>
          jobs'[j].st # "running" /\ (Settled(j) => jobs'[j].told > 0 \/ jobs[j].dropped)
    BY <1>3, <1>5, <2>4, <2>6 DEF Same
  <2>8. \A x \in {id} : row[x] # 0 => ~jobs[row[x]].fg
    BY <1>1, <1>s
  <2> QED BY <1>0, <1>1, <2>4, <2>5, <2>7, <2>8, ConsumeOwn
<1> QED BY <1>4, <1>5

\* What an eval cell's wait() returns is told unless it was, by the ids of its jobs.
LEMMA EvalWaitEndsOwn ==
  ASSUME OwnInv, EvalWaitEnds
  PROVE  OwnInv'
<1> DEFINE done == {j \in evalWait : jobs[j].st # "running"}
           ids == {jobs[j].id : j \in done}
<1>0. JobsType /\ RestType /\ IInv'
  BY Types, EvalWaitEndsStep DEF OwnInv, IInv
<1>1. /\ jobs' = [j \in Job |-> IF j \in done /\ Settled(j) /\ jobs[j].told = 0
                               THEN [jobs[j] EXCEPT !.told = 1] ELSE jobs[j]]
      /\ Consume(ids) /\ evalWait' = {} /\ evalWait # {}
      /\ UNCHANGED <<row, watched, released, inFlight, session, epoch, wait>>
  BY DEF EvalWaitEnds, owner
<1>2. \A j \in done : j \in Job /\ Listed(j) /\ jobs[j].st # "running" /\ IdOf(j) \in ids
  BY <1>0 DEF RestType, OwnInv, Tools
<1>3. \A id \in ids : \E j \in done : IdOf(j) = id
  OBVIOUS
<1> HIDE DEF ids, done
<1>4. wait = {} /\ watched = {} /\ \A d \in InFlight : d.pc # "built"
  BY <1>1 DEF OwnInv, Tools
<1>5. ids \in SUBSET Id
  BY <1>2, <1>3, ListedFacts
<1>6. \A j \in Job : /\ Same(j)
                     /\ jobs'[j].told = IF j \in done /\ Settled(j) /\ jobs[j].told = 0 THEN 1
                                        ELSE jobs[j].told
  <2> TAKE j \in Job
  <2>1. jobs[j] \in JobRec
    BY <1>0, JobFields
  <2> QED BY <2>1, <1>1 DEF JobRec, Same
<1>7. \A j \in Job : jobs[j].told \in 0..2 /\ jobs[j].told <= 1
  BY <1>0, JobFields DEF OwnInv, DeliveredOnce
<1>8. \A j \in Job : /\ Same(j) /\ jobs'[j].told >= jobs[j].told /\ jobs'[j].told <= 1
                     /\ jobs'[j].told # jobs[j].told => Listed(j) /\ Settled(j) /\ IdOf(j) \in ids
  BY <1>2, <1>6, <1>7
<1>9. \A j \in Job : Listed(j) /\ IdOf(j) \in ids =>
        jobs'[j].st # "running" /\ (Settled(j) => jobs'[j].told > 0 \/ jobs[j].dropped)
  <2> TAKE j \in Job
  <2> HAVE Listed(j) /\ IdOf(j) \in ids
  <2>1. j \in done
    BY <1>2, <1>3, ListedFacts
  <2> QED BY <2>1, <1>2, <1>6, <1>7 DEF Same
<1>10. \A id \in ids : row[id] # 0 => ~jobs[row[id]].fg
  <2> TAKE id \in ids
  <2>1. PICK j \in done : IdOf(j) = id
    BY <1>3
  <2> QED BY <2>1, <1>2, ListedFacts
<1> QED BY <1>0, <1>1, <1>4, <1>5, <1>8, <1>9, <1>10, ConsumeOwn

-----------------------------------------------------------------------------
(* Waiting, and the steps that enqueue results. *)

\* The records after #enqueueDelivery.
LEMMA SentSame ==
  ASSUME NEW rec \in JobRec, NEW j, NEW js
  PROVE  /\ Sent(rec, j, js).id = rec.id /\ Sent(rec, j, js).fg = rec.fg
         /\ Sent(rec, j, js).seen = rec.seen /\ Sent(rec, j, js).st = rec.st
         /\ Sent(rec, j, js).ended = rec.ended /\ Sent(rec, j, js).told = rec.told
         /\ Sent(rec, j, js).dropped = rec.dropped
BY DEF Sent, JobRec

\* What was queued or in flight stays what it was when deliveries are added.
KeptParcel(d) ==
  /\ jobs'[d.job].id = jobs[d.job].id /\ jobs'[d.job].st = jobs[d.job].st
  /\ jobs'[d.job].fg = jobs[d.job].fg /\ jobs'[d.job].told = jobs[d.job].told
  /\ jobs'[d.job].dropped = jobs[d.job].dropped
  /\ d.id \notin watched' /\ row'[d.id] = row[d.id]
  /\ d.id \in suppressed' <=> d.id \in suppressed

\* The deliveries are addressed, and the attempts as far as they may be, when
\* those of untold results of listed jobs are added.
LEMMA GrownParcels ==
  ASSUME OwnInv, NEW js, Grown(js), \A d \in Parcels : KeptParcel(d),
         \A j \in js : /\ jobs'[j].st = "settled" /\ ~jobs'[j].fg /\ ~(jobs'[j].told > 0)
                       /\ jobs'[j].id \notin suppressed' /\ jobs'[j].id \notin watched',
         UNCHANGED <<session, epoch>>
  PROVE  /\ Addressed' /\ Attempts'
         /\ \A e \in InFlight' : e.pc = "built" => e \in InFlight
<1>0. epoch \in Nat /\ Parcels = deliveries \cup InFlight
  BY Types, Basics DEF OwnInv, IInv, RestType
<1>1. \A d \in deliveries' :
        d \in deliveries \/ (d.job \in js /\ d.id = jobs'[d.job].id)
  BY DEF Grown
<1>2. \A e \in InFlight' : e \in InFlight \/
        /\ e.epoch = epoch /\ e.pc = IF session = "disposing" THEN "accepted" ELSE "formatting"
        /\ e.job \in js /\ e.id = jobs'[e.job].id
  BY DEF Grown
<1>3. Addressed'
  <2>1. ASSUME NEW d \in deliveries' \cup InFlight'
        PROVE  /\ d.id = jobs'[d.job].id /\ jobs'[d.job].st = "settled" /\ ~jobs'[d.job].fg
               /\ d.id \notin watched'
    <3>1. CASE d \in Parcels
      BY <3>1 DEF OwnInv, Addressed, KeptParcel
    <3>2. CASE d \notin Parcels
      BY <3>2, <1>0, <1>1, <1>2
    <3> QED BY <3>1, <3>2
  <2>2. ASSUME NEW d \in deliveries'
        PROVE  ~(jobs'[d.job].told > 0) /\ d.id \notin suppressed'
    <3>1. CASE d \in deliveries
      BY <3>1 DEF OwnInv, Addressed, KeptParcel
    <3>2. CASE d \notin deliveries
      BY <3>2, <1>1
    <3> QED BY <3>1, <3>2
  <2> QED BY <2>1, <2>2 DEF Addressed
<1>4. Attempts'
  <2> SUFFICES ASSUME NEW e \in InFlight'
               PROVE  /\ e.epoch <= epoch
                      /\ e.epoch # epoch => Answered(e.job)'
                      /\ e.pc = "parked" => e.epoch = epoch /\ session = "open"
                      /\ e.pc = "built" => ~Told(e.job)'
                      /\ e.pc = "accepted" => Answered(e.job)' \/ session # "open"
                      /\ e.pc \in {"formatting", "parked", "failed"} =>
                           ~Told(e.job)' \/ e.id \in suppressed' \/ Doomed(e)'
    BY DEF Attempts
  <2>1. CASE e \in InFlight
    <3>1. KeptParcel(e)
      BY <2>1
    <3> QED BY <2>1, <3>1 DEF OwnInv, Attempts, KeptParcel, Doomed
  <2>2. CASE e \notin InFlight
    BY <2>2, <1>0, <1>2
  <2> QED BY <2>1, <2>2
<1>5. \A e \in InFlight' : e.pc = "built" => e \in InFlight
  BY <1>2
<1> QED BY <1>3, <1>4, <1>5

\* A wait blocks on the running jobs, which are listed and not consumed.
LEMMA WaitBlocksOwn ==
  ASSUME OwnInv, WaitBlocks
  PROVE  OwnInv'
<1>0. IInv'
  BY WaitBlocksStep DEF OwnInv
<1>1. /\ wait = {} /\ watched = {} /\ evalWait = {} /\ wait' = RunningIds /\ watched' = RunningIds
      /\ \A d \in InFlight : d.pc \notin {"built", "accepted"}
      /\ UNCHANGED <<jobs, row, suppressed, consumed, released, timer, deliveries, inFlight,
                     session, epoch, evalWait>>
  BY DEF WaitBlocks, ToolTime, OwnInv, Tools, delivery, owner
<1>2. InFlight' = InFlight
  BY <1>1 DEF InFlight
<1>3. \A id \in RunningIds : /\ id \in Id /\ row[id] \in Job /\ IdOf(row[id]) = id /\ Listed(row[id])
                             /\ jobs[row[id]].st = "running" /\ id \notin consumed /\ row[id] # 0
  <2> TAKE id \in RunningIds
  <2>1. id \in Id /\ row[id] # 0 /\ ~jobs[row[id]].fg /\ jobs[row[id]].st = "running"
    BY DEF RunningIds, Visible
  <2>2. row[id] \in Job /\ IdOf(row[id]) = id /\ Listed(row[id])
    BY <2>1, RowOwner
  <2>3. id \notin consumed
    BY <2>1, <2>2 DEF OwnInv, Owners, IInv, Marks
  <2> QED BY <2>1, <2>2, <2>3
<1>4. Owners' /\ OneParcel' /\ Separate' /\ Attempts' /\ Marked' /\ PutOff' /\ DeliveredOnce'
  BY <1>1, <1>2 DEF OwnInv, Owners, OneParcel, Separate, Attempts, Doomed, Marked, PutOff, Visible,
                    DeliveredOnce
<1>5. Addressed'
  <2>1. \A d \in Parcels : d.id \notin RunningIds
    BY <1>3, ParcelFacts
  <2> QED BY <2>1, <1>1, <1>2 DEF OwnInv, Addressed
<1>6. Tools'
  BY <1>1, <1>2, <1>3 DEF Tools
<1>7. Consumed'
  BY <1>1, <1>2 DEF OwnInv, Consumed
<1>8. NoResultLost'
  BY <1>1, <1>2 DEF OwnInv, NoResultLost, Pending
<1> QED BY <1>0, <1>4, <1>5, <1>6, <1>7, <1>8 DEF OwnInv

\* A wait that yields hands what it watched back to delivery.
LEMMA WaitYieldsOwn ==
  ASSUME OwnInv, WaitYields
  PROVE  OwnInv'
<1> DEFINE js == Requeued(wait)
<1>0. IInv' /\ TypeOK /\ NoStrandedDelivery /\ JobsType /\ RestType
  BY WaitYieldsStep, Types DEF OwnInv, IInv
<1>1. /\ wait # {} /\ evalWait = {} /\ wait' = {} /\ watched' = {} /\ Enqueue(js)
      /\ jobs' = [j \in Job |-> Sent(jobs[j], j, js)]
      /\ \A d \in InFlight : d.pc # "built"
      /\ UNCHANGED <<row, suppressed, consumed, released, timer, session, epoch, evalWait>>
  BY DEF WaitYields, OwnInv, Tools, owner
<1>2. \A j \in js : /\ j \in Job /\ Listed(j) /\ Settled(j) /\ ~Told(j) /\ row[IdOf(j)] = j
                    /\ IdOf(j) \notin suppressed /\ \A d \in Parcels : d.id # IdOf(j)
  <2> TAKE j \in js
  <2>1. PICK i \in wait \cap watched :
               /\ j = row[i] /\ row[i] # 0 /\ Settled(row[i])
               /\ i \notin suppressed /\ i \notin consumed
               /\ ~\E d \in deliveries \cup InFlight : d.id = i
    BY DEF Requeued
  <2>2. i \in Id
    BY <1>0 DEF RestType
  <2>3. j \in Job /\ IdOf(j) = i /\ Listed(j)
    <3>1. row[i] \in Job /\ IdOf(row[i]) = i
      BY <2>1, <2>2, RowOwner
    <3>2. \E k \in Job : Listed(k) /\ IdOf(k) = i
      BY <2>1 DEF OwnInv, Tools
    <3> QED BY <2>1, <3>1, <3>2, ListedFacts
  <2>4. ~Told(j)
    BY <1>1, <2>1, <2>3 DEF OwnInv, Consumed
  <2> QED BY <2>1, <2>3, <2>4
<1>3. ASSUME NEW j \in Job, Settled(j), ~jobs[j].fg, Pending(j)
      PROVE  (\E d \in Parcels : d.job = j) \/ j \in js
  <2> SUFFICES ASSUME ~\E d \in Parcels : d.job = j PROVE j \in js
    OBVIOUS
  <2>1. /\ row[IdOf(j)] = j /\ IdOf(j) \in wait \cap watched
        /\ IdOf(j) \notin suppressed /\ IdOf(j) \notin consumed
    BY <1>3 DEF Pending
  <2>2. ~\E d \in Parcels : d.id = IdOf(j)
    BY <1>3, ListedFacts, ParcelFacts
  <2> QED BY <2>1, <2>2, <1>3, Basics DEF Requeued
<1> HIDE DEF js
<1>4. \A j \in Job : Same(j) /\ jobs'[j].told = jobs[j].told /\ jobs'[j].st = jobs[j].st
  <2> TAKE j \in Job
  <2>1. jobs[j] \in JobRec /\ jobs'[j] = Sent(jobs[j], j, js)
    BY <1>0, <1>1, JobFields
  <2> QED BY <2>1, SentSame DEF Same
<1>5. Grown(js) /\ OneParcel' /\ Separate'
  <2>1. js \in SUBSET Job /\ \A j \in js : jobs'[j].id = jobs[j].id
    BY <1>2, <1>4 DEF Same
  <2>2. \A d \in Parcels : d.job \notin js
    BY <1>2, ParcelFacts
  <2> QED BY <1>0, <1>1, <2>1, <2>2, EnqueueGrows DEF OwnInv
<1>6. Addressed' /\ Attempts' /\ \A e \in InFlight' : e.pc = "built" => e \in InFlight
  <2>1. \A d \in Parcels : KeptParcel(d)
    BY <1>1, <1>4, ParcelFacts DEF KeptParcel, Same
  <2>2. \A j \in js : /\ jobs'[j].st = "settled" /\ ~jobs'[j].fg /\ ~(jobs'[j].told > 0)
                      /\ jobs'[j].id \notin suppressed' /\ jobs'[j].id \notin watched'
    BY <1>1, <1>2, <1>4 DEF Same
  <2> QED BY <1>1, <1>5, <2>1, <2>2, GrownParcels
<1>7. Owners' /\ DeliveredOnce'
  BY <1>4 DEF OwnInv, Owners, DeliveredOnce, Same
<1>8. Tools'
  BY <1>1, <1>6 DEF Tools
<1>9. Marked' /\ Consumed'
  BY <1>1, <1>4 DEF OwnInv, Marked, Consumed, Same
<1>10. PutOff'
  <2>1. \A id \in Id : row[id] # 0 => row[id] \in Job
    BY RowOwner
  <2>2. \A e \in InFlight' : e \in InFlight \/ e.id \notin suppressed
    BY <1>2, <1>4, <1>5 DEF Grown, Same
  <2> QED BY <1>1, <1>4, <1>5, <2>1, <2>2 DEF OwnInv, PutOff, Visible, Grown, Same
<1>11. NoResultLost'
  <2> SUFFICES ASSUME session = "open", NEW j \in Job, Settled(j), ~jobs[j].fg, ~jobs[j].dropped,
                      jobs[j].told = 0
               PROVE  Pending(j)'
    BY <1>1, <1>4 DEF NoResultLost, Same
  <2>1. (\E d \in Parcels : d.job = j) \/ j \in js
    BY <1>3 DEF OwnInv, NoResultLost
  <2>2. \E d \in deliveries' \cup InFlight' : d.job = j
    BY <2>1, <1>5 DEF Grown
  <2> QED BY <2>2 DEF Pending
<1> QED BY <1>0, <1>5, <1>6, <1>7, <1>8, <1>9, <1>10, <1>11 DEF OwnInv

-----------------------------------------------------------------------------
(* Retention, and the end of a transcript or of the session. *)

\* j is told what it was, and may be dropped, or cancelled as it runs.
Kept(j) ==
  /\ jobs'[j].id = jobs[j].id /\ jobs'[j].fg = jobs[j].fg /\ jobs'[j].seen = jobs[j].seen
  /\ jobs'[j].ended = jobs[j].ended /\ jobs'[j].told = jobs[j].told
  /\ jobs'[j].st = jobs[j].st \/ (jobs[j].st = "running" /\ jobs'[j].st = "cancelled")
  /\ jobs[j].dropped => jobs'[j].dropped

\* A row that is evicted is not in flight with its id suppressed, and no wait
\* is about to show its result.
LEMMA EvictRowOwn ==
  ASSUME OwnInv, IInv', NEW id \in Id, EvictRow(id), Visible(id),
         id \notin suppressed \/ \A d \in InFlight : d.id # id,
         id \notin wait \/ id \in suppressed,
         UNCHANGED <<released, deliveries, inFlight, wait, evalWait, session, epoch>>
  PROVE  OwnInv'
<1>0. JobsType /\ RestType /\ TypeOK
  BY Types DEF OwnInv, IInv
<1>1. /\ \A x \in Id : /\ row'[x] = IF x = id THEN 0 ELSE row[x]
                       /\ timer'[x] = IF x = id THEN NoTimer ELSE timer[x]
      /\ suppressed' = suppressed \ {id} /\ watched' = watched \ {id} /\ consumed' = consumed \ {id}
  <2>1. Evict({id}) /\ {id} \in SUBSET Id
    BY DEF EvictRow
  <2>2. \A x \in Id : /\ row'[x] = IF x \in {id} THEN 0 ELSE row[x]
                      /\ timer'[x] = IF x \in {id} THEN NoTimer ELSE timer[x]
    BY <1>0, <2>1, EvictFacts
  <2> QED BY <2>1, <2>2 DEF Evict
<1>2. /\ row[id] \in Job /\ IdOf(row[id]) = id /\ Listed(row[id]) /\ row[id] # 0
      /\ \A j \in Job : j # 0 /\ IdOf(j) \in Id
  BY RowOwner, ListedFacts, Basics DEF Visible
<1>3. \A j \in Job : Kept(j) /\ jobs'[j].st = jobs[j].st
  <2> TAKE j \in Job
  <2>1. jobs[j] \in JobRec
    BY <1>0, JobFields
  <2>2. jobs'[j] = jobs[j] \/ jobs'[j] = [jobs[j] EXCEPT !.dropped = TRUE]
    BY <1>0 DEF EvictRow, JobsType
  <2> QED BY <2>1, <2>2 DEF JobRec, Kept
<1>4. InFlight' = InFlight /\ \A d \in Parcels : d.job \in Job /\ d.id \in Id
  BY ParcelFacts DEF InFlight
<1>5. Owners' /\ DeliveredOnce' /\ OneParcel' /\ Separate'
  BY <1>3, <1>4 DEF OwnInv, Owners, DeliveredOnce, OneParcel, Separate, Kept
<1>6. Addressed'
  BY <1>1, <1>3, <1>4 DEF OwnInv, Addressed, Kept
<1>7. Attempts'
  BY <1>1, <1>2, <1>3, <1>4 DEF OwnInv, Attempts, Doomed, Kept
<1>8. Tools'
  <2>1. wait \subseteq Id /\ evalWait \subseteq Job
    BY <1>0 DEF RestType
  <2>2. watched' \subseteq wait' /\ \A j \in evalWait' : Listed(j)'
    BY <1>1, <1>3, <2>1 DEF OwnInv, Tools, Kept
  <2>3. \A x \in wait' : /\ \E j \in Job : Listed(j)' /\ IdOf(j)' = x
                         /\ row'[x] # 0 => x \in watched' /\ x \notin consumed'
    BY <1>1, <1>3, <2>1 DEF OwnInv, Tools, Kept
  <2>4. \A j \in Job : ForegroundCall(j)' => ForegroundCall(j)
    BY <1>1, <1>2, <1>3 DEF ForegroundCall, Kept
  <2> QED BY <1>4, <2>2, <2>3, <2>4 DEF OwnInv, Tools
<1>9. Marked'
  BY <1>1, <1>2, <1>3 DEF OwnInv, Marked, Kept
<1>10. Consumed'
  BY <1>1, <1>2, <1>3, <1>4 DEF OwnInv, Consumed, Kept
<1>11. PutOff'
  <2>1. \A x \in Id : row[x] # 0 => row[x] \in Job
    BY RowOwner
  <2> QED BY <1>1, <1>3, <1>4, <2>1 DEF OwnInv, PutOff, Visible, Kept, NoTimer
<1>12. NoResultLost'
  <2> SUFFICES ASSUME session = "open", NEW j \in Job, Settled(j), ~jobs[j].fg, ~jobs[j].dropped,
                      jobs[j].told = 0
               PROVE  Pending(j)'
    BY <1>3 DEF NoResultLost, Kept
  <2>1. Pending(j)
    BY DEF OwnInv, NoResultLost
  <2> QED BY <2>1, <1>1, <1>2, <1>3, <1>4 DEF Pending, Kept
<1> QED BY <1>5, <1>6, <1>7, <1>8, <1>9, <1>10, <1>11, <1>12 DEF OwnInv

\* An eviction that was put off goes ahead.
LEMMA DeferredEvictsOwn ==
  ASSUME OwnInv, NEW id \in Id, DeferredEvicts(id)
  PROVE  OwnInv'
<1>1. IInv'
  BY DeferredEvictsStep DEF OwnInv
<1>2. /\ EvictRow(id)
      /\ UNCHANGED <<released, deliveries, inFlight, wait, evalWait, session, epoch>>
  BY DEF DeferredEvicts, delivery, owner
<1>3. Visible(id) /\ id \in suppressed /\ \A d \in InFlight : d.id # id
  BY DEF DeferredEvicts, OwnInv, PutOff
<1> QED BY <1>1, <1>2, <1>3, EvictRowOwn

\* A timer evicts its row, or puts it off for what is suppressed and in flight.
LEMMA TimerFiresOwn ==
  ASSUME OwnInv, NEW id \in Id, TimerFires(id)
  PROVE  OwnInv'
<1> DEFINE held == {i \in DOMAIN inFlight : inFlight[i].id = id}
<1>0. IInv' /\ RowsType
  BY TimerFiresStep, Types DEF OwnInv, IInv
<1>1. /\ Visible(id) /\ id \notin wait /\ id \notin watched
      /\ UNCHANGED <<released, deliveries, inFlight, wait, evalWait, session, epoch>>
  BY DEF TimerFires, delivery, owner, OwnInv, Tools
<1>2. CASE held = {} \/ ~Suppressed(id)
  <2>1. EvictRow(id)
    BY <1>2 DEF TimerFires
  <2>2. id \notin suppressed \/ \A d \in InFlight : d.id # id
    BY <1>2 DEF Suppressed, InFlight
  <2> QED BY <1>0, <1>1, <2>1, <2>2, EvictRowOwn
<1>3. CASE ~(held = {} \/ ~Suppressed(id))
  <2>1. /\ UNCHANGED <<jobs, row, suppressed, watched, consumed>>
        /\ \E i \in held :
             timer' = [timer EXCEPT ![id] = [s |-> "deferred", on |-> Name(inFlight[i])]]
    BY <1>3 DEF TimerFires
  <2>2. PICK i \in held :
          timer' = [timer EXCEPT ![id] = [s |-> "deferred", on |-> Name(inFlight[i])]]
    BY <2>1
  <2>3. inFlight[i] \in InFlight /\ inFlight[i].id = id
    BY DEF InFlight
  <2>4. /\ timer'[id].s = "deferred" /\ timer'[id].on = Name(inFlight[i])
        /\ \A x \in Id : x # id => timer'[x] = timer[x]
    BY <1>0, <2>2 DEF RowsType
  <2>5. InFlight' = InFlight
    BY <1>1 DEF InFlight
  <2>6. id \in suppressed
    BY <1>1, <1>3 DEF Suppressed
  <2>7. PutOff'
    BY <1>1, <2>1, <2>3, <2>4, <2>5, <2>6 DEF OwnInv, PutOff, Visible, Name
  <2>8. /\ Owners' /\ Addressed' /\ OneParcel' /\ Separate' /\ Attempts' /\ Tools' /\ Marked'
        /\ Consumed' /\ NoResultLost' /\ DeliveredOnce'
    BY <1>1, <2>1, <2>5 DEF OwnInv, Owners, Addressed, OneParcel, Separate, Attempts, Doomed,
                            Tools, ForegroundCall, Marked, Consumed, NoResultLost, Pending, DeliveredOnce
  <2> QED BY <1>0, <2>7, <2>8 DEF OwnInv
<1> QED BY <1>2, <1>3

\* Whatever settled goes when a transcript or the session ends: its result is
\* told or dropped, and what is in flight of it can only be refused.
LEMMA CancelOwnOwn ==
  ASSUME OwnInv, IInv', CancelOwn, wait' = wait, evalWait' = evalWait,
         \/ session' = "closed" /\ epoch' = epoch /\ session = "disposing"
         \/ session' = session /\ epoch' = epoch + 1 /\ \A d \in InFlight : d.pc # "built"
  PROVE  OwnInv'
<1> DEFINE done == {id \in Id : row[id] # 0 /\ Settled(row[id])}
<1>0. JobsType /\ RestType /\ TypeOK /\ DeliveryType /\ epoch \in Nat
  BY Types, Basics DEF OwnInv, IInv, RestType
<1>d. \A x \in Id : x \in done <=> row[x] # 0 /\ Settled(row[x])
  OBVIOUS
<1>1. /\ Evict(done) /\ done \in SUBSET Id /\ released' = released
      /\ deliveries' \subseteq deliveries
      /\ inFlight' = [i \in DOMAIN inFlight |->
           IF inFlight[i].pc = "parked" THEN [inFlight[i] EXCEPT !.pc = "failed"] ELSE inFlight[i]]
  BY DEF CancelOwn
<1>2. \A j \in Job : Kept(j) /\ jobs'[j].st # "running" /\ (Settled(j)' => Settled(j) /\ Answered(j)')
  <2> TAKE j \in Job
  <2>1. jobs[j] \in JobRec
    BY <1>0, JobFields
  <2>2. CASE jobs[j].st = "running"
    <3>1. jobs'[j] = [jobs[j] EXCEPT !.st = "cancelled"]
      BY <2>2 DEF CancelOwn
    <3> QED BY <3>1, <2>1, <2>2 DEF JobRec, Kept
  <2>3. CASE jobs[j].st # "running"
    <3>1. jobs'[j] = [jobs[j] EXCEPT !.dropped = @ \/ (jobs[j].st = "settled" /\ jobs[j].told = 0)]
      BY <2>3 DEF CancelOwn
    <3>2. PICK x \in BOOLEAN : /\ jobs'[j] = [jobs[j] EXCEPT !.dropped = x]
                               /\ x <=> jobs[j].dropped \/ (jobs[j].st = "settled" /\ jobs[j].told = 0)
      BY <3>1, <2>1 DEF JobRec
    <3> QED BY <3>2, <2>1, <2>3 DEF JobRec, Kept
  <2> QED BY <2>2, <2>3
<1> HIDE DEF done
<1>3. /\ \A x \in Id : /\ row'[x] = IF x \in done THEN 0 ELSE row[x]
                       /\ timer'[x] = IF x \in done THEN NoTimer ELSE timer[x]
      /\ suppressed' = suppressed \ done /\ watched' = watched \ done /\ consumed' = consumed \ done
  <2>1. \A x \in Id : /\ row'[x] = IF x \in done THEN 0 ELSE row[x]
                      /\ timer'[x] = IF x \in done THEN NoTimer ELSE timer[x]
    BY <1>0, <1>1, EvictFacts
  <2> QED BY <1>1, <2>1 DEF Evict
<1>4. /\ Separate'
      /\ \A i \in DOMAIN inFlight :
           /\ inFlight[i] \in InFlight /\ inFlight'[i] \in InFlight'
           /\ Kin(inFlight'[i], inFlight[i])
      /\ \A e \in InFlight' : \E i \in DOMAIN inFlight : e = inFlight'[i]
      /\ \A d \in InFlight : \E i \in DOMAIN inFlight : d = inFlight[i]
  <2>1. /\ DOMAIN inFlight' = DOMAIN inFlight
        /\ \A i \in DOMAIN inFlight :
             \E c \in {"formatting", "parked", "built", "accepted", "failed"} :
               inFlight'[i] = [inFlight[i] EXCEPT !.pc = c]
    BY <1>0, <1>1, ClearedFacts
  <2> QED BY <1>0, <2>1, FlightAdvances DEF OwnInv
<1>p. \A k \in DOMAIN inFlight :
        inFlight'[k].pc = IF inFlight[k].pc = "parked" THEN "failed" ELSE inFlight[k].pc
  <2> TAKE k \in DOMAIN inFlight
  <2>1. [inFlight[k] EXCEPT !.pc = "failed"].pc = "failed"
    BY <1>0, MovedFacts
  <2> QED BY <1>1, <2>1
<1>5. /\ \A e \in InFlight' : \E d \in InFlight :
           Kin(e, d) /\ e.pc = IF d.pc = "parked" THEN "failed" ELSE d.pc
      /\ \A d \in InFlight : \E e \in InFlight' : Kin(e, d)
  BY <1>4, <1>p
<1>6. \A d \in Parcels : /\ d.job \in Job /\ d.id \in Id /\ d.id = IdOf(d.job) /\ Listed(d.job)
                         /\ Settled(d.job) /\ row[d.id] \in {0, d.job}
  BY ParcelFacts
<1>7. \A x \in Id : row[x] # 0 => row[x] \in Job
  BY RowOwner
<1>8. \A j \in Job : j # 0 /\ IdOf(j) \in Id /\ jobs[j].told \in 0..2
  BY <1>0, ListedFacts, Basics, JobFields
<1>9. Owners' /\ DeliveredOnce'
  BY <1>2 DEF OwnInv, Owners, DeliveredOnce, Kept
<1>10. Addressed'
  BY <1>1, <1>2, <1>3, <1>5, <1>6 DEF OwnInv, Addressed, Kept, Kin
<1>11. OneParcel'
  <2>1. \A e, f \in InFlight' : e.job = f.job => e = f
    BY <1>4 DEF Separate, OwnInv, Kin
  <2> QED BY <2>1, <1>1, <1>5 DEF OwnInv, OneParcel, Kin
<1>12. Attempts'
  <2> SUFFICES ASSUME NEW e \in InFlight'
               PROVE  /\ e.epoch <= epoch'
                      /\ e.epoch # epoch' => Answered(e.job)'
                      /\ e.pc = "parked" => e.epoch = epoch' /\ session' = "open"
                      /\ e.pc = "built" => ~Told(e.job)'
                      /\ e.pc = "accepted" => Answered(e.job)' \/ session' # "open"
                      /\ e.pc \in {"formatting", "parked", "failed"} =>
                           ~Told(e.job)' \/ e.id \in suppressed' \/ Doomed(e)'
    BY DEF Attempts
  <2>1. PICK d \in InFlight : Kin(e, d) /\ e.pc = IF d.pc = "parked" THEN "failed" ELSE d.pc
    BY <1>5
  <2>2. e.job \in Job /\ e.id \in Id /\ Settled(e.job) /\ row[e.id] \in {0, e.job}
    BY <1>6, <2>1 DEF Kin
  <2>3. Answered(e.job)' /\ row'[e.id] = 0
    BY <1>2, <1>3, <1>d, <2>2 DEF Kept
  <2>4. d.epoch <= epoch /\ d.epoch \in Nat
    <3>1. d \in Attempt
      BY <1>0, InFlightFacts
    <3> QED BY <3>1, Basics DEF OwnInv, Attempts, Attempt
  <2>5. e.epoch <= epoch' /\ (e.epoch # epoch' \/ session' = "closed")
    BY <1>0, <2>1, <2>4 DEF Kin
  <2>6. Doomed(e)'
    BY <2>3, <2>5 DEF Doomed
  <2>7. e.pc = "built" => ~Told(e.job)'
    BY <1>2, <2>1, <2>2 DEF OwnInv, Attempts, Kin, Kept
  <2> QED BY <2>1, <2>3, <2>5, <2>6, <2>7
<1>13. Tools'
  <2>1. wait \subseteq Id /\ evalWait \subseteq Job
    BY <1>0 DEF RestType
  <2>2. watched' \subseteq wait' /\ \A j \in evalWait' : Listed(j)'
    BY <1>2, <1>3, <2>1 DEF OwnInv, Tools, Kept
  <2>3. \A x \in wait' : /\ \E j \in Job : Listed(j)' /\ IdOf(j)' = x
                         /\ row'[x] # 0 => x \in watched' /\ x \notin consumed'
    BY <1>2, <1>3, <2>1 DEF OwnInv, Tools, Kept
  <2>4. \A j \in Job : ForegroundCall(j)' => ForegroundCall(j)
    BY <1>1, <1>2, <1>3, <1>8 DEF ForegroundCall, Kept
  <2>5. (\E e \in InFlight' : e.pc = "built") => \E d \in InFlight : d.pc = "built"
    BY <1>5
  <2> QED BY <2>2, <2>3, <2>4, <2>5 DEF OwnInv, Tools
<1>14. Marked'
  <2> SUFFICES ASSUME NEW j \in Job
               PROVE  /\ jobs'[j].fg /\ row'[IdOf(j)'] = j =>
                           /\ IdOf(j)' \in suppressed' /\ IdOf(j)' \notin consumed'
                           /\ IdOf(j)' \notin released' => ~Told(j)'
                      /\ Listed(j)' /\ IdOf(j)' \in suppressed' =>
                           jobs'[j].st # "running" /\ (Settled(j)' => Answered(j)')
                      /\ Listed(j)' /\ Settled(j)' /\ row'[IdOf(j)'] = j /\ IdOf(j)' \in consumed' =>
                           Answered(j)' \/ session' # "open"
    BY DEF Marked
  <2>1. jobs'[j].fg /\ row'[IdOf(j)'] = j =>
           jobs[j].fg /\ row[IdOf(j)] = j /\ IdOf(j) \notin done /\ IdOf(j)' = IdOf(j)
    BY <1>2, <1>3, <1>8 DEF Kept
  <2> QED BY <2>1, <1>1, <1>2, <1>3 DEF OwnInv, Marked, Kept
<1>15. Consumed'
  <2>1. \A j \in Job : ~(Settled(j)' /\ row'[IdOf(j)'] = j)
    BY <1>2, <1>3, <1>d, <1>8 DEF Kept
  <2> QED BY <2>1 DEF Consumed
<1>16. PutOff'
  <2>1. \A x \in Id : Visible(x) /\ x \notin done => Visible(x)'
    BY <1>2, <1>3, <1>7 DEF Visible, Kept
  <2> QED BY <2>1, <1>3, <1>5 DEF OwnInv, PutOff, NoTimer, Kin, Name
<1>17. NoResultLost'
  BY <1>2, <1>8 DEF NoResultLost, Kept
<1> QED BY <1>4, <1>9, <1>10, <1>11, <1>12, <1>13, <1>14, <1>15, <1>16, <1>17 DEF OwnInv

\* The session moves to another transcript.
LEMMA TransitionOwn ==
  ASSUME OwnInv, Transition
  PROVE  OwnInv'
<1>1. IInv'
  BY TransitionStep DEF OwnInv
<1> QED BY <1>1, CancelOwnOwn DEF Transition, Boundary, ToolTime

\* The owner's jobs go with the session.
LEMMA DisposeOwnedOwn ==
  ASSUME OwnInv, DisposeOwned
  PROVE  OwnInv'
<1>1. IInv'
  BY DisposeOwnedStep DEF OwnInv
<1> QED BY <1>1, CancelOwnOwn DEF DisposeOwned

-----------------------------------------------------------------------------
(* Settling, and the calls that back a command with a hidden job. *)

\* What becomes of a hidden job whose row goes, or whose call lets go of it,
\* concerns no listed job.
LEMMA HiddenOwn ==
  ASSUME OwnInv, IInv', NEW j \in Job, jobs[j].fg, row[IdOf(j)] = j,
         jobs'[j].id = jobs[j].id, jobs'[j].fg, ~jobs'[j].seen, jobs'[j].st # "unborn",
         jobs'[j].st = "running" => ~jobs'[j].ended, jobs'[j].told <= 1,
         \A k \in Job : k # j => jobs'[k] = jobs[k],
         \/ Discard(IdOf(j))
         \/ released' = released \cup {IdOf(j)} /\ UNCHANGED <<row, timer, suppressed, watched, consumed>>,
         UNCHANGED <<deliveries, inFlight, wait, evalWait, session, epoch>>
  PROVE  OwnInv'
<1> DEFINE id == IdOf(j)
<1>0. JobsType /\ RestType /\ TypeOK
  BY Types DEF OwnInv, IInv
<1>1. /\ id \in Id /\ jobs[j].st # "unborn"
      /\ \A k \in Job : Listed(k) => IdOf(k) # id
      /\ \A d \in Parcels : d.id # id
      /\ id \notin wait /\ id \notin watched
  BY HiddenFacts
<1>2. /\ \A x \in Id : x # id => /\ row'[x] = row[x] /\ timer'[x] = timer[x]
                                 /\ x \in suppressed' <=> x \in suppressed
                                 /\ x \in watched' <=> x \in watched
                                 /\ x \in consumed' <=> x \in consumed
                                 /\ x \in released' <=> x \in released
      /\ timer'[id].s \in {"off", timer[id].s}
      /\ row'[id] = 0 \/ /\ row'[id] = row[id] /\ id \in released'
                         /\ suppressed' = suppressed /\ consumed' = consumed
      /\ watched' = watched
  <2>1. CASE Discard(id)
    <3>1. Evict({id}) /\ {id} \in SUBSET Id /\ released' = released \ {id}
      BY <2>1, <1>1 DEF Discard
    <3>2. \A x \in Id : /\ row'[x] = IF x \in {id} THEN 0 ELSE row[x]
                        /\ timer'[x] = IF x \in {id} THEN NoTimer ELSE timer[x]
      BY <1>0, <3>1, EvictFacts
    <3>3. /\ suppressed' = suppressed \ {id} /\ watched' = watched \ {id} /\ consumed' = consumed \ {id}
      BY <3>1 DEF Evict
    <3>4. row'[id] = 0 /\ timer'[id].s = "off" /\ watched' = watched
      BY <3>2, <3>3, <1>1 DEF NoTimer
    <3> HIDE DEF id
    <3> QED BY <3>1, <3>2, <3>3, <3>4
  <2>2. CASE released' = released \cup {id} /\ UNCHANGED <<row, timer, suppressed, watched, consumed>>
    <3> HIDE DEF id
    <3> QED BY <2>2
  <2> QED BY <2>1, <2>2
<1>s. id = jobs[j].id
  OBVIOUS
<1> HIDE DEF id
<1>3. /\ InFlight' = InFlight
      /\ \A d \in Parcels : d.job \in Job /\ d.id \in Id /\ d.job # j
      /\ \A k \in Job : k # 0 /\ IdOf(k) \in Id
  BY <1>1, <1>s, ParcelFacts, ListedFacts, Basics DEF InFlight
<1>4. \A k \in Job : Listed(k)' => Listed(k) /\ k # j /\ jobs'[k] = jobs[k] /\ IdOf(k) # id
  BY <1>1
<1>5. \A k \in Job : /\ jobs'[k].id = jobs[k].id /\ jobs'[k].fg = jobs[k].fg /\ jobs'[k].told \in 0..2
                     /\ jobs'[k].st = "unborn" <=> jobs[k].st = "unborn"
  <2>1. JobsType'
    BY Types DEF IInv
  <2> QED BY <2>1, <1>1 DEF JobsType, JobRec
<1>6. Owners'
  <2>1. \A a, b \in Job :
          a < b /\ jobs'[a].st # "unborn" /\ jobs'[b].st # "unborn" /\ jobs'[a].id = jobs'[b].id
            => jobs'[a].fg
    BY <1>5 DEF OwnInv, Owners
  <2>2. ASSUME NEW k \in Job
        PROVE  /\ jobs'[k].st = "unborn" => ~jobs'[k].fg
               /\ Listed(k)' /\ ~Settled(k)' => ~Told(k)'
               /\ jobs'[k].st # "unborn" => jobs'[k].seen = ~jobs'[k].fg
               /\ jobs'[k].fg => jobs'[k].id[1] = "bg"
               /\ jobs'[k].st = "running" => ~jobs'[k].ended
    <3>1. CASE k = j
      <4>1. jobs'[j].seen \in BOOLEAN /\ jobs'[j].fg \in BOOLEAN
        BY Types, JobFields DEF IInv, JobsType, JobRec
      <4> QED BY <3>1, <4>1 DEF OwnInv, Owners
    <3>2. CASE k # j
      BY <3>2 DEF OwnInv, Owners
    <3> QED BY <3>1, <3>2
  <2> QED BY <2>1, <2>2 DEF Owners
<1>7. DeliveredOnce' /\ OneParcel' /\ Separate'
  <2>1. \A k \in Job : jobs'[k].told <= 1
    BY DEF OwnInv, DeliveredOnce
  <2> QED BY <2>1, <1>3 DEF OwnInv, DeliveredOnce, OneParcel, Separate
<1>8. Addressed'
  BY <1>1, <1>2, <1>3 DEF OwnInv, Addressed
<1>9. Attempts'
  BY <1>1, <1>2, <1>3 DEF OwnInv, Attempts, Doomed
<1>10. Tools'
  <2>1. \A k \in Job : ForegroundCall(k)' => ForegroundCall(k)
    BY <1>2, <1>3, <1>5, <1>s DEF ForegroundCall
  <2>2. \A x \in wait' : /\ \E k \in Job : Listed(k)' /\ IdOf(k)' = x
                         /\ row'[x] # 0 => x \in watched' /\ x \notin consumed'
    <3> TAKE x \in wait'
    <3>1. x \in Id /\ x # id
      BY <1>0, <1>1 DEF RestType
    <3>2. PICK k \in Job : Listed(k) /\ IdOf(k) = x
      BY DEF OwnInv, Tools
    <3>3. jobs'[k] = jobs[k]
      BY <3>1, <3>2, <1>s
    <3> QED BY <3>1, <3>2, <3>3, <1>2 DEF OwnInv, Tools
  <2>3. \A k \in evalWait' : Listed(k)'
    <3> TAKE k \in evalWait'
    <3>1. k \in Job /\ Listed(k) /\ k # j
      BY <1>0 DEF OwnInv, Tools, RestType
    <3> QED BY <3>1
  <2> QED BY <2>1, <2>2, <2>3, <1>2, <1>3 DEF OwnInv, Tools
<1>11. Marked'
  <2> SUFFICES ASSUME NEW k \in Job
               PROVE  /\ jobs'[k].fg /\ row'[IdOf(k)'] = k =>
                           /\ IdOf(k)' \in suppressed' /\ IdOf(k)' \notin consumed'
                           /\ IdOf(k)' \notin released' => ~Told(k)'
                      /\ Listed(k)' /\ IdOf(k)' \in suppressed' =>
                           jobs'[k].st # "running" /\ (Settled(k)' => Answered(k)')
                      /\ Listed(k)' /\ Settled(k)' /\ row'[IdOf(k)'] = k /\ IdOf(k)' \in consumed' =>
                           Answered(k)' \/ session' # "open"
    BY DEF Marked
  <2>1. CASE k = j
    BY <2>1, <1>1, <1>2, <1>3, <1>4, <1>s DEF OwnInv, Marked
  <2>2. CASE k # j
    <3>1. jobs'[k] = jobs[k] /\ IdOf(k) \in Id
      BY <2>2, <1>3
    <3>2. CASE IdOf(k) = id
      BY <3>1, <3>2, <2>2, <1>2, <1>4, <1>s, <1>3
    <3>3. CASE IdOf(k) # id
      BY <3>1, <3>3, <1>2 DEF OwnInv, Marked
    <3> QED BY <3>2, <3>3
  <2> QED BY <2>1, <2>2
<1>12. Consumed'
  BY <1>2, <1>3, <1>4 DEF OwnInv, Consumed
<1>13. PutOff'
  <2>1. \A x \in Id : x # id /\ Visible(x) => Visible(x)'
    BY <1>2, <1>5, RowOwner DEF Visible
  <2>2. timer[id].s \notin {"deferred", "evicting"}
    BY <1>1, <1>s DEF OwnInv, PutOff, Visible
  <2>3. timer'[id].s \notin {"deferred", "evicting"}
    BY <2>2, <1>2
  <2> QED BY <2>1, <2>3, <1>2, <1>3 DEF OwnInv, PutOff
<1>14. NoResultLost'
  <2> SUFFICES ASSUME session = "open", NEW k \in Job, Settled(k)', ~jobs'[k].fg, ~jobs'[k].dropped,
                      jobs'[k].told = 0
               PROVE  Pending(k)'
    BY DEF NoResultLost
  <2>1. Listed(k) /\ k # j /\ jobs'[k] = jobs[k] /\ IdOf(k) # id /\ IdOf(k) \in Id
    BY <1>3, <1>4
  <2>2. Pending(k)
    BY <2>1 DEF OwnInv, NoResultLost
  <2> QED BY <2>1, <2>2, <1>2, <1>3 DEF Pending
<1> QED BY <1>6, <1>7, <1>8, <1>9, <1>10, <1>11, <1>12, <1>13, <1>14 DEF OwnInv

\* releaseForegroundJob() of a hidden job.
LEMMA ReleaseOwn ==
  ASSUME OwnInv, IInv', NEW j \in Job, ForegroundCall(j), NEW rec \in JobRec, Release(j, rec),
         rec.id = jobs[j].id, rec.fg = jobs[j].fg, rec.seen = jobs[j].seen,
         rec.ended = jobs[j].ended, rec.st = "unborn" <=> jobs[j].st = "unborn",
         rec.st = "running" => jobs[j].st = "running", rec.told <= 1
  PROVE  OwnInv'
<1>0. JobsType
  BY Types DEF OwnInv, IInv
<1>1. jobs[j].fg /\ row[IdOf(j)] = j
  BY DEF ForegroundCall
<1>2. jobs'[j] = rec /\ \A k \in Job : k # j => jobs'[k] = jobs[k]
  BY <1>0 DEF Release, JobsType
<1>3. jobs[j].st # "unborn" /\ ~jobs[j].seen /\ (jobs[j].st = "running" => ~jobs[j].ended)
  BY <1>1, HiddenFacts DEF OwnInv, Owners
<1>4. \/ Discard(IdOf(j))
      \/ released' = released \cup {IdOf(j)} /\ UNCHANGED <<row, timer, suppressed, watched, consumed>>
  BY DEF Release
<1>5. UNCHANGED <<deliveries, inFlight, wait, evalWait, session, epoch>>
  BY DEF Release, delivery, owner
<1> QED BY <1>1, <1>2, <1>3, <1>4, <1>5, HiddenOwn

\* The call returns the result itself, which nobody told.
LEMMA ForegroundReturnsOwn ==
  ASSUME OwnInv, NEW j \in Job, ForegroundReturns(j)
  PROVE  OwnInv'
<1> DEFINE rec == [jobs[j] EXCEPT !.told = Capped(jobs[j].told + 1)]
<1>1. ForegroundCall(j) /\ Release(j, rec) /\ IInv'
  BY ForegroundReturnsStep DEF ForegroundReturns, OwnInv
<1>2. jobs[j] \in JobRec
  BY Types, JobFields DEF OwnInv, IInv
<1>3. jobs[j].told = 0
  BY <1>1, <1>2 DEF ForegroundCall, OwnInv, Marked, JobRec
<1>4. Capped(jobs[j].told + 1) = 1
  BY <1>3 DEF Capped
<1>5. rec \in JobRec
  BY <1>2, ToldFacts
<1>6. /\ rec.id = jobs[j].id /\ rec.fg = jobs[j].fg /\ rec.seen = jobs[j].seen
      /\ rec.ended = jobs[j].ended /\ rec.st = jobs[j].st /\ rec.told <= 1
  BY <1>2, <1>4 DEF JobRec
<1> HIDE DEF rec
<1> QED BY <1>1, <1>5, <1>6, ReleaseOwn

\* The call is aborted.
LEMMA ForegroundAbortsOwn ==
  ASSUME OwnInv, NEW j \in Job, ForegroundAborts(j)
  PROVE  OwnInv'
<1> DEFINE rec == [jobs[j] EXCEPT !.dropped = TRUE,
                                  !.st = IF @ = "running" THEN "cancelled" ELSE @]
<1>1. ForegroundCall(j) /\ Release(j, rec) /\ IInv'
  BY ForegroundAbortsStep DEF ForegroundAborts, OwnInv
<1>2. jobs[j] \in JobRec
  BY Types, JobFields DEF OwnInv, IInv
<1>3. rec \in JobRec
  BY <1>2 DEF JobRec
<1>4. /\ rec.id = jobs[j].id /\ rec.fg = jobs[j].fg /\ rec.seen = jobs[j].seen
      /\ rec.ended = jobs[j].ended /\ rec.told = jobs[j].told
      /\ rec.st = IF jobs[j].st = "running" THEN "cancelled" ELSE jobs[j].st
  BY <1>2 DEF JobRec
<1>5. rec.told <= 1
  BY <1>4 DEF OwnInv, DeliveredOnce
<1> HIDE DEF rec
<1> QED BY <1>1, <1>3, <1>4, <1>5, ReleaseOwn

\* The run of a released job settles: its row goes, and nothing is enqueued.
\* The run of any other job settles: its result is queued, unless its id is
\* suppressed, or watched by a wait that is about to show it.
LEMMA SettleOwn ==
  ASSUME OwnInv, NEW j \in Job, Settle(j)
  PROVE  OwnInv'
<1> DEFINE id == jobs[j].id
           js == IF jobs[j].st = "running" /\ ~Suppressed(id) THEN {j} ELSE {}
           rec == [jobs[j] EXCEPT !.ended = TRUE,
                                  !.st = IF @ = "running" THEN "settled" ELSE @]
<1>0. /\ TypeOK /\ JobsType /\ RestType /\ RowsType /\ NoStrandedDelivery /\ IInv'
      /\ jobs[j] \in JobRec
  BY Types, JobFields, SettleStep DEF OwnInv, IInv
<1>1. /\ jobs[j].st \in {"running", "cancelled"} /\ ~jobs[j].ended
      /\ jobs' = [jobs EXCEPT ![j] = Sent(rec, j, js)]
      /\ Enqueue(js) /\ UNCHANGED <<wait, evalWait, session, epoch>>
  BY DEF Settle, owner
<1>2. id \in Id /\ row[id] = j /\ j # 0
  <2>1. id \in Id
    BY <1>0, JobFields
  <2>2. row[id] = j
    <3>1. Rows
      BY DEF OwnInv, IInv
    <3> QED BY <1>1, <3>1 DEF Rows
  <2>3. j # 0
    BY Basics
  <2> QED BY <2>1, <2>2, <2>3
<1>3. /\ rec \in JobRec /\ rec.id = jobs[j].id /\ rec.fg = jobs[j].fg /\ rec.seen = jobs[j].seen
      /\ rec.ended /\ rec.told = jobs[j].told /\ rec.dropped = jobs[j].dropped
      /\ rec.st = IF jobs[j].st = "running" THEN "settled" ELSE "cancelled"
  BY <1>0, <1>1 DEF JobRec
<1> HIDE DEF rec
<1>4. /\ jobs'[j].id = id /\ jobs'[j].fg = jobs[j].fg /\ jobs'[j].seen = jobs[j].seen
      /\ jobs'[j].ended /\ jobs'[j].told = jobs[j].told /\ jobs'[j].dropped = jobs[j].dropped
      /\ jobs'[j].st = IF jobs[j].st = "running" THEN "settled" ELSE "cancelled"
      /\ \A k \in Job : k # j => jobs'[k] = jobs[k]
  <2>1. jobs'[j] = Sent(rec, j, js) /\ \A k \in Job : k # j => jobs'[k] = jobs[k]
    BY <1>0, <1>1 DEF JobsType
  <2> QED BY <2>1, <1>3, SentSame
<1>j. /\ js \subseteq {j} /\ (js # {} => jobs[j].st = "running" /\ id \notin suppressed /\ id \notin watched)
      /\ (jobs[j].st = "running" /\ id \notin suppressed /\ id \notin watched => j \in js)
  BY DEF Suppressed
<1>r. /\ id \in released => Discard(id)
      /\ id \notin released => timer' = [timer EXCEPT ![id] = Armed] /\ UNCHANGED <<row, markers>>
  BY DEF Settle
<1>s. id = IdOf(j)
  OBVIOUS
<1> HIDE DEF id, js
<1>5. CASE id \in released
  <2>1. jobs[j].fg
    BY <1>2, <1>5 DEF OwnInv, IInv, Marks
  <2>2. js = {}
    BY <2>1, <1>j, <1>2, <1>s DEF OwnInv, Marked
  <2>3. deliveries' = deliveries /\ inFlight' = inFlight
    BY <1>1, <2>2 DEF Enqueue
  <2>4. Discard(IdOf(j)) /\ row[IdOf(j)] = j
    BY <1>5, <1>r, <1>s, <1>2
  <2>5. /\ ~jobs'[j].seen /\ jobs'[j].st # "unborn" /\ jobs'[j].st # "running" /\ jobs'[j].fg
        /\ jobs'[j].told <= 1 /\ jobs'[j].id = jobs[j].id
    <3>1. jobs[j].st # "unborn" /\ ~jobs[j].seen /\ jobs[j].told <= 1
      BY <1>1, <2>1 DEF OwnInv, Owners, DeliveredOnce
    <3>2. jobs'[j].st \in {"settled", "cancelled"}
      BY <1>4
    <3> QED BY <3>1, <3>2, <1>4, <2>1, <1>s
  <2> QED BY <1>0, <1>1, <1>4, <2>1, <2>3, <2>4, <2>5, HiddenOwn
<1>6. CASE id \notin released
  <2>1. /\ timer'[id].s = "armed" /\ \A x \in Id : x # id => timer'[x] = timer[x]
        /\ UNCHANGED <<row, suppressed, watched, consumed, released>>
    BY <1>0, <1>2, <1>6, <1>r DEF markers, RowsType, Armed
  <2>2. \A d \in Parcels : d.job \in Job /\ d.job # j
    BY <1>1, ParcelFacts
  <2>3. Grown(js) /\ OneParcel' /\ Separate'
    <3>1. /\ js \in SUBSET Job /\ \A k \in js : jobs'[k].id = jobs[k].id
          /\ \A d \in Parcels : d.job \notin js
      BY <1>j, <1>4, <1>s, <2>2
    <3> QED BY <1>0, <1>1, <3>1, EnqueueGrows DEF OwnInv
  <2>4. js # {} => Listed(j) /\ ~Told(j) /\ jobs'[j].st = "settled"
    <3>1. js # {} => ~jobs[j].fg
      BY <1>j, <1>2, <1>s DEF OwnInv, Marked
    <3> QED BY <3>1, <1>1, <1>j, <1>4 DEF OwnInv, Owners
  <2>5. Addressed' /\ Attempts' /\ \A e \in InFlight' : e.pc = "built" => e \in InFlight
    <3>1. \A d \in Parcels : KeptParcel(d)
      BY <1>4, <2>1, <2>2 DEF KeptParcel, OwnInv, Addressed
    <3>2. \A k \in js : /\ jobs'[k].st = "settled" /\ ~jobs'[k].fg /\ ~(jobs'[k].told > 0)
                        /\ jobs'[k].id \notin suppressed' /\ jobs'[k].id \notin watched'
      BY <1>4, <1>j, <2>1, <2>4
    <3> QED BY <1>1, <2>3, <3>1, <3>2, GrownParcels
  <2>6. Owners' /\ DeliveredOnce'
    <3>1. \A k \in Job : jobs'[k].id = jobs[k].id /\ jobs'[k].fg = jobs[k].fg /\ jobs'[k].told = jobs[k].told
                         /\ jobs'[k].seen = jobs[k].seen
                         /\ (jobs'[k].st = "unborn" <=> jobs[k].st = "unborn")
                         /\ (jobs'[k].st = "running" => jobs[k].st = "running" /\ jobs'[k].ended = jobs[k].ended)
                         /\ (jobs[k].st = "settled" => jobs'[k].st = "settled")
      BY <1>1, <1>4, <1>s
    <3> QED BY <3>1 DEF OwnInv, Owners, DeliveredOnce
  <2>7. Tools'
    <3>1. \A k \in Job : Listed(k)' <=> Listed(k)
      BY <1>1, <1>4
    <3>2. \A k \in Job : ForegroundCall(k)' <=> ForegroundCall(k)
      BY <1>4, <1>s, <2>1 DEF ForegroundCall
    <3>3. \A k \in Job : IdOf(k)' = IdOf(k)
      BY <1>4, <1>s
    <3>4. evalWait \subseteq Job
      BY <1>0 DEF RestType
    <3> QED BY <3>1, <3>2, <3>3, <3>4, <1>1, <2>1, <2>5 DEF OwnInv, Tools
  <2>8. Marked'
    <3> SUFFICES ASSUME NEW k \in Job
                 PROVE  /\ jobs'[k].fg /\ row'[IdOf(k)'] = k =>
                             /\ IdOf(k)' \in suppressed' /\ IdOf(k)' \notin consumed'
                             /\ IdOf(k)' \notin released' => ~Told(k)'
                        /\ Listed(k)' /\ IdOf(k)' \in suppressed' =>
                             jobs'[k].st # "running" /\ (Settled(k)' => Answered(k)')
                        /\ Listed(k)' /\ Settled(k)' /\ row'[IdOf(k)'] = k /\ IdOf(k)' \in consumed' =>
                             Answered(k)' \/ session' # "open"
      BY DEF Marked
    <3>1. CASE k # j
      BY <3>1, <1>1, <1>4, <2>1 DEF OwnInv, Marked
    <3>2. CASE k = j
      <4>1. id \notin consumed
        BY <1>1, <1>2 DEF OwnInv, IInv, Marks
      <4> QED BY <3>2, <4>1, <1>1, <1>2, <1>4, <1>s, <2>1 DEF OwnInv, Marked
    <3> QED BY <3>1, <3>2
  <2>9. Consumed'
    <3> SUFFICES ASSUME NEW k \in Job, Listed(k)', Settled(k)', row'[IdOf(k)'] = k, Told(k)'
                 PROVE  \/ IdOf(k)' \in consumed'
                        \/ wait' = {} /\ \E d \in InFlight' : d.job = k /\ d.pc = "accepted"
      BY DEF Consumed
    <3>1. k # j
      BY <1>1, <1>4 DEF OwnInv, Owners
    <3> QED BY <3>1, <1>1, <1>4, <2>1, <2>3 DEF OwnInv, Consumed, Grown
  <2>10. PutOff'
    <3>1. \A x \in Id : Visible(x)' <=> Visible(x)
      BY <1>4, <1>s, <2>1, RowOwner DEF Visible
    <3>2. \A e \in InFlight' : e \in InFlight \/ e.id = id
      BY <2>3, <1>j, <1>4, <1>s DEF Grown
    <3> QED BY <3>1, <3>2, <2>1, <2>3 DEF OwnInv, PutOff, Grown
  <2>11. NoResultLost'
    <3> SUFFICES ASSUME session = "open", NEW k \in Job, Settled(k)', ~jobs'[k].fg, ~jobs'[k].dropped,
                        jobs'[k].told = 0
                 PROVE  Pending(k)'
      BY <1>1 DEF NoResultLost
    <3>1. CASE k # j
      <4>1. Pending(k)
        BY <3>1, <1>4 DEF OwnInv, NoResultLost
      <4> QED BY <3>1, <4>1, <1>1, <1>4, <2>1, <2>3 DEF Pending, Grown
    <3>2. CASE k = j
      <4>1. jobs[j].st = "running" /\ Listed(j)
        BY <3>2, <1>1, <1>4
      <4>2. id \notin suppressed
        BY <4>1, <1>s DEF OwnInv, Marked
      <4>3. CASE id \in watched
        <5>1. id \in wait /\ id \notin consumed
          BY <4>3, <1>1, <1>2 DEF OwnInv, Tools, IInv, Marks
        <5> QED BY <5>1, <4>2, <4>3, <3>2, <1>1, <1>2, <1>4, <2>1 DEF Pending
      <4>4. CASE id \notin watched
        <5>1. \E d \in deliveries' \cup InFlight' : d.job = j
          BY <4>1, <4>2, <4>4, <1>j, <2>3 DEF Grown
        <5> QED BY <5>1, <3>2 DEF Pending
      <4> QED BY <4>3, <4>4
    <3> QED BY <3>1, <3>2
  <2> QED BY <1>0, <2>3, <2>5, <2>6, <2>7, <2>8, <2>9, <2>10, <2>11 DEF OwnInv
<1> QED BY <1>5, <1>6

\* The call's wait is over: its job is listed, and its result queued if it is there.
LEMMA ForegroundBackgroundsOwn ==
  ASSUME OwnInv, NEW j \in Job, ForegroundBackgrounds(j)
  PROVE  OwnInv'
<1> DEFINE id == jobs[j].id
           js == IF Settled(j) /\ id \notin watched THEN {j} ELSE {}
           rec == [jobs[j] EXCEPT !.fg = FALSE, !.seen = TRUE]
<1>0. /\ TypeOK /\ JobsType /\ RestType /\ NoStrandedDelivery /\ IInv' /\ jobs[j] \in JobRec
  BY Types, JobFields, ForegroundBackgroundsStep DEF OwnInv, IInv
<1>1. /\ jobs[j].fg /\ row[id] = j /\ id \notin released /\ ForegroundCall(j)
      /\ jobs' = [jobs EXCEPT ![j] = Sent(rec, j, js)]
      /\ suppressed' = suppressed \ {id} /\ Enqueue(js)
      /\ UNCHANGED <<row, watched, consumed, released, timer, wait, evalWait, session, epoch>>
  BY DEF ForegroundBackgrounds, ForegroundCall, owner
<1>2. /\ id \in Id /\ jobs[j].st # "unborn"
      /\ \A k \in Job : Listed(k) => IdOf(k) # id
      /\ \A d \in Parcels : d.id # id
      /\ id \notin wait /\ id \notin watched
  BY <1>1, HiddenFacts
<1>3. rec \in JobRec /\ rec.id = id /\ ~rec.fg /\ rec.seen /\ rec.st = jobs[j].st
      /\ rec.ended = jobs[j].ended /\ rec.told = jobs[j].told /\ rec.dropped = jobs[j].dropped
  BY <1>0 DEF JobRec
<1> HIDE DEF rec
<1>4. /\ jobs'[j].id = id /\ ~jobs'[j].fg /\ jobs'[j].seen /\ jobs'[j].st = jobs[j].st
      /\ jobs'[j].ended = jobs[j].ended /\ jobs'[j].told = jobs[j].told
      /\ \A k \in Job : k # j => jobs'[k] = jobs[k]
  <2>1. jobs'[j] = Sent(rec, j, js) /\ \A k \in Job : k # j => jobs'[k] = jobs[k]
    BY <1>0, <1>1 DEF JobsType
  <2> QED BY <2>1, <1>3, SentSame
<1>5. ~Told(j) /\ id \notin consumed
  BY <1>1 DEF OwnInv, Marked
<1>6. js \subseteq {j} /\ (Settled(j) <=> j \in js)
  BY <1>2
<1>s. id = IdOf(j)
  OBVIOUS
<1>7. \A d \in Parcels : d.job \in Job /\ d.id \in Id /\ d.job # j /\ d.id # id
  BY <1>2, ParcelFacts
<1> HIDE DEF id, js
<1>8. Grown(js) /\ OneParcel' /\ Separate'
  <2>1. /\ js \in SUBSET Job /\ \A k \in js : jobs'[k].id = jobs[k].id
        /\ \A d \in Parcels : d.job \notin js
    BY <1>4, <1>6, <1>7, <1>s
  <2> QED BY <1>0, <1>1, <2>1, EnqueueGrows DEF OwnInv
<1>9. Addressed' /\ Attempts' /\ \A e \in InFlight' : e.pc = "built" => e \in InFlight
  <2>1. \A d \in Parcels : KeptParcel(d)
    BY <1>1, <1>4, <1>7 DEF KeptParcel, OwnInv, Addressed
  <2>2. \A k \in js : /\ jobs'[k].st = "settled" /\ ~jobs'[k].fg /\ ~(jobs'[k].told > 0)
                      /\ jobs'[k].id \notin suppressed' /\ jobs'[k].id \notin watched'
    BY <1>1, <1>2, <1>4, <1>5, <1>6
  <2> QED BY <1>1, <1>8, <2>1, <2>2, GrownParcels
<1>10. Owners' /\ DeliveredOnce'
  <2>1. \A k \in Job : /\ jobs'[k].id = jobs[k].id /\ jobs'[k].told = jobs[k].told
                       /\ jobs'[k].st = jobs[k].st /\ jobs'[k].ended = jobs[k].ended
    BY <1>4, <1>s
  <2>2. ASSUME NEW a \in Job, NEW b \in Job, a < b, jobs'[a].st # "unborn", jobs'[b].st # "unborn",
               jobs'[a].id = jobs'[b].id
        PROVE  jobs'[a].fg
    <3>1. jobs[a].fg
      BY <2>1, <2>2 DEF OwnInv, Owners
    <3>2. a # j
      BY <1>1, <1>2, <1>s, <2>1, <2>2, Basics DEF OwnInv, IInv, Rows
    <3> QED BY <3>1, <3>2, <1>4
  <2>3. ASSUME NEW k \in Job
        PROVE  /\ jobs'[k].st = "unborn" => ~jobs'[k].fg
               /\ Listed(k)' /\ ~Settled(k)' => ~Told(k)'
               /\ jobs'[k].st # "unborn" => jobs'[k].seen = ~jobs'[k].fg
               /\ jobs'[k].fg => jobs'[k].id[1] = "bg"
               /\ jobs'[k].st = "running" => ~jobs'[k].ended
    <3>1. CASE k = j
      <4>1. jobs'[j].seen \in BOOLEAN /\ jobs'[j].fg \in BOOLEAN
        BY <1>0, Types DEF IInv, JobsType, JobRec
      <4> QED BY <3>1, <4>1, <1>4, <1>5 DEF OwnInv, Owners
    <3>2. CASE k # j
      BY <3>2, <1>4 DEF OwnInv, Owners
    <3> QED BY <3>1, <3>2
  <2> QED BY <2>1, <2>2, <2>3 DEF Owners, OwnInv, DeliveredOnce
<1>11. Tools'
  <2>1. \A e \in InFlight' : e.pc # "built"
    BY <1>1, <1>9 DEF OwnInv, Tools
  <2>2. \A k \in Job : Listed(k) => Listed(k)' /\ IdOf(k)' = IdOf(k)
    BY <1>1, <1>4
  <2>3. evalWait \subseteq Job
    BY <1>0 DEF RestType
  <2> QED BY <2>1, <2>2, <2>3, <1>1 DEF OwnInv, Tools
<1>12. Marked'
  <2> SUFFICES ASSUME NEW k \in Job
               PROVE  /\ jobs'[k].fg /\ row'[IdOf(k)'] = k =>
                           /\ IdOf(k)' \in suppressed' /\ IdOf(k)' \notin consumed'
                           /\ IdOf(k)' \notin released' => ~Told(k)'
                      /\ Listed(k)' /\ IdOf(k)' \in suppressed' =>
                           jobs'[k].st # "running" /\ (Settled(k)' => Answered(k)')
                      /\ Listed(k)' /\ Settled(k)' /\ row'[IdOf(k)'] = k /\ IdOf(k)' \in consumed' =>
                           Answered(k)' \/ session' # "open"
    BY DEF Marked
  <2>1. CASE k # j
    <3>1. jobs'[k] = jobs[k] /\ (row[IdOf(k)] = k => IdOf(k) # id)
      BY <2>1, <1>1, <1>4
    <3> QED BY <3>1, <1>1 DEF OwnInv, Marked
  <2>2. CASE k = j
    BY <2>2, <1>1, <1>4, <1>5
  <2> QED BY <2>1, <2>2
<1>13. Consumed'
  <2> SUFFICES ASSUME NEW k \in Job, Listed(k)', Settled(k)', row'[IdOf(k)'] = k, Told(k)'
               PROVE  \/ IdOf(k)' \in consumed'
                      \/ wait' = {} /\ \E d \in InFlight' : d.job = k /\ d.pc = "accepted"
    BY DEF Consumed
  <2>1. k # j
    BY <1>4, <1>5
  <2> QED BY <2>1, <1>1, <1>4, <1>8 DEF OwnInv, Consumed, Grown
<1>14. PutOff'
  <2>1. \A x \in Id : Visible(x) => x # id /\ Visible(x)'
    BY <1>1, <1>4, RowOwner DEF Visible
  <2>2. \A e \in InFlight' : e \in InFlight \/ e.id = id
    BY <1>4, <1>6, <1>8 DEF Grown
  <2> QED BY <2>1, <2>2, <1>1, <1>8 DEF OwnInv, PutOff, Grown
<1>15. NoResultLost'
  <2> SUFFICES ASSUME session = "open", NEW k \in Job, Settled(k)', ~jobs'[k].fg, ~jobs'[k].dropped,
                      jobs'[k].told = 0
               PROVE  Pending(k)'
    BY <1>1 DEF NoResultLost
  <2>1. CASE k # j
    <3>1. Pending(k)
      BY <2>1, <1>4 DEF OwnInv, NoResultLost
    <3>2. CASE \E d \in deliveries \cup InFlight : d.job = k
      BY <3>2, <1>8 DEF Pending, Grown
    <3>3. CASE ~\E d \in deliveries \cup InFlight : d.job = k
      BY <3>1, <3>3, <2>1, <1>1, <1>4 DEF Pending
    <3> QED BY <3>2, <3>3
  <2>2. CASE k = j
    <3>1. \E d \in deliveries' \cup InFlight' : d.job = j
      BY <2>2, <1>4, <1>6, <1>8 DEF Grown
    <3> QED BY <3>1, <2>2 DEF Pending
  <2> QED BY <2>1, <2>2
<1> QED BY <1>0, <1>8, <1>9, <1>10, <1>11, <1>12, <1>13, <1>14, <1>15 DEF OwnInv

-----------------------------------------------------------------------------
(* Registering. *)

\* A new job takes an id that no listed job had: none is awaited, queued or in
\* flight under it.  Its result is queued at once if it is there.
LEMMA ClaimOwn ==
  ASSUME OwnInv, IInv', NEW j \in Unused, NEW id \in Id, NEW hide \in BOOLEAN, NEW js,
         row[id] = 0, \A k \in Job : Listed(k) => IdOf(k) # id,
         \A k \in Job : k # j => jobs'[k] = jobs[k],
         jobs'[j].id = id, jobs'[j].fg = hide, jobs'[j].seen = ~hide, jobs'[j].told = 0,
         jobs'[j].st = "settled" \/ (jobs'[j].st = "running" /\ ~jobs'[j].ended),
         hide => jobs'[j].st = "running" /\ id[1] = "bg" /\ \A d \in InFlight : d.pc # "built",
         Claim(j, id, hide),
         timer'[id].s \in {"off", "armed"}, \A x \in Id : x # id => timer'[x] = timer[x],
         js \subseteq {j}, j \in js <=> jobs'[j].st = "settled",
         Grown(js), OneParcel', Separate',
         UNCHANGED <<watched, wait, evalWait, session, epoch>>
  PROVE  OwnInv'
<1>0. /\ JobsType /\ RestType /\ RowsType /\ j \in Job /\ j # 0 /\ jobs[j].st = "unborn"
  BY Types, Basics DEF OwnInv, IInv, Unused
<1>1. /\ row'[id] = j /\ \A x \in Id : x # id => /\ row'[x] = row[x]
                                                 /\ x \in suppressed' <=> x \in suppressed
                                                 /\ x \in consumed' <=> x \in consumed
                                                 /\ x \in released' <=> x \in released
      /\ id \in suppressed' <=> hide
      /\ id \notin consumed' /\ id \notin released'
  BY <1>0 DEF Claim, RowsType
<1>2. \A d \in Parcels : d.job \in Job /\ d.id \in Id /\ d.job # j /\ d.id # id
  BY <1>0, ParcelFacts
<1>3. id \notin wait /\ id \notin watched
  BY DEF OwnInv, Tools
<1>4. \A k \in Job : jobs[k].st # "unborn" => k < j
  <2> TAKE k \in Job
  <2> HAVE jobs[k].st # "unborn"
  <2>1. ~(j < k) /\ j # k
    BY <1>0 DEF OwnInv, IInv, Rows
  <2> QED BY <2>1, <1>0, Basics
<1>5. \A k \in Job : IdOf(k) \in Id /\ k # 0
  BY ListedFacts, Basics
<1>6. Addressed' /\ Attempts' /\ \A e \in InFlight' : e.pc = "built" => e \in InFlight
  <2>1. \A d \in Parcels : KeptParcel(d)
    BY <1>1, <1>2 DEF KeptParcel, OwnInv, Addressed
  <2>2. \A k \in js : /\ jobs'[k].st = "settled" /\ ~jobs'[k].fg /\ ~(jobs'[k].told > 0)
                      /\ jobs'[k].id \notin suppressed' /\ jobs'[k].id \notin watched'
    BY <1>1, <1>3
  <2> QED BY <2>1, <2>2, GrownParcels
<1>7. Owners'
  <2>1. ASSUME NEW a \in Job, NEW b \in Job, a < b, jobs'[a].st # "unborn", jobs'[b].st # "unborn",
               jobs'[a].id = jobs'[b].id
        PROVE  jobs'[a].fg
    <3>1. CASE a # j /\ b # j
      BY <2>1, <3>1 DEF OwnInv, Owners
    <3>2. CASE b = j
      <4>1. a # j
        BY <2>1, <3>2, Basics
      <4> QED BY <2>1, <3>2, <4>1
    <3>3. CASE a = j
      <4>1. b # j /\ b < j
        BY <2>1, <3>3, <1>4, Basics
      <4> QED BY <4>1, <2>1, <3>3, Basics
    <3> QED BY <3>1, <3>2, <3>3
  <2>2. ASSUME NEW k \in Job
        PROVE  /\ jobs'[k].st = "unborn" => ~jobs'[k].fg
               /\ Listed(k)' /\ ~Settled(k)' => ~Told(k)'
               /\ jobs'[k].st # "unborn" => jobs'[k].seen = ~jobs'[k].fg
               /\ jobs'[k].fg => jobs'[k].id[1] = "bg"
               /\ jobs'[k].st = "running" => ~jobs'[k].ended
    <3>1. CASE k = j
      BY <3>1
    <3>2. CASE k # j
      BY <3>2 DEF OwnInv, Owners
    <3> QED BY <3>1, <3>2
  <2> QED BY <2>1, <2>2 DEF Owners
<1>8. DeliveredOnce'
  BY DEF OwnInv, DeliveredOnce
<1>9. Tools'
  <2>1. \A k \in Job : Listed(k) => Listed(k)' /\ IdOf(k)' = IdOf(k)
    BY <1>0
  <2>2. \A k \in Job : ForegroundCall(k)' => ForegroundCall(k) \/ hide
    BY <1>1, <1>5 DEF ForegroundCall
  <2>3. wait \subseteq Id /\ evalWait \subseteq Job
    BY <1>0 DEF RestType
  <2>4. watched' \subseteq wait' /\ \A k \in evalWait' : Listed(k)'
    BY <2>1, <2>3 DEF OwnInv, Tools
  <2>5. \A x \in wait' : /\ \E k \in Job : Listed(k)' /\ IdOf(k)' = x
                         /\ row'[x] # 0 => x \in watched' /\ x \notin consumed'
    <3> TAKE x \in wait'
    <3>1. x \in Id /\ x # id
      BY <1>3, <2>3
    <3> QED BY <3>1, <1>1, <2>1 DEF OwnInv, Tools
  <2> QED BY <2>2, <2>4, <2>5, <1>6 DEF OwnInv, Tools
<1>10. Marked'
  <2> SUFFICES ASSUME NEW k \in Job
               PROVE  /\ jobs'[k].fg /\ row'[IdOf(k)'] = k =>
                           /\ IdOf(k)' \in suppressed' /\ IdOf(k)' \notin consumed'
                           /\ IdOf(k)' \notin released' => ~Told(k)'
                      /\ Listed(k)' /\ IdOf(k)' \in suppressed' =>
                           jobs'[k].st # "running" /\ (Settled(k)' => Answered(k)')
                      /\ Listed(k)' /\ Settled(k)' /\ row'[IdOf(k)'] = k /\ IdOf(k)' \in consumed' =>
                           Answered(k)' \/ session' # "open"
    BY DEF Marked
  <2>1. CASE k # j
    <3>1. jobs'[k] = jobs[k] /\ IdOf(k) \in Id
      BY <2>1, <1>5
    <3>2. CASE IdOf(k) = id
      BY <2>1, <3>1, <3>2, <1>1
    <3>3. CASE IdOf(k) # id
      BY <3>1, <3>3, <1>1 DEF OwnInv, Marked
    <3> QED BY <3>2, <3>3
  <2>2. CASE k = j
    BY <2>2, <1>1
  <2> QED BY <2>1, <2>2
<1>11. Consumed'
  <2> SUFFICES ASSUME NEW k \in Job, Listed(k)', Settled(k)', row'[IdOf(k)'] = k, Told(k)'
               PROVE  \/ IdOf(k)' \in consumed'
                      \/ wait' = {} /\ \E d \in InFlight' : d.job = k /\ d.pc = "accepted"
    BY DEF Consumed
  <2>1. k # j
    OBVIOUS
  <2>2. jobs'[k] = jobs[k] /\ IdOf(k) # id
    BY <2>1
  <2> QED BY <2>2, <1>1, <1>5 DEF OwnInv, Consumed, Grown
<1>12. PutOff'
  <2>1. \A x \in Id : x # id /\ Visible(x) => Visible(x)'
    BY <1>0, <1>1, RowOwner DEF Visible
  <2>2. \A e \in InFlight' : e \in InFlight \/ e.id = id
    BY DEF Grown
  <2> QED BY <2>1, <2>2, <1>1 DEF OwnInv, PutOff, Grown
<1>13. NoResultLost'
  <2> SUFFICES ASSUME session = "open", NEW k \in Job, Settled(k)', ~jobs'[k].fg, ~jobs'[k].dropped,
                      jobs'[k].told = 0
               PROVE  Pending(k)'
    BY DEF NoResultLost
  <2>1. CASE k # j
    <3>1. Pending(k) /\ IdOf(k) # id /\ IdOf(k) \in Id /\ jobs'[k] = jobs[k]
      BY <2>1, <1>5 DEF OwnInv, NoResultLost
    <3>2. CASE \E d \in deliveries \cup InFlight : d.job = k
      BY <3>2 DEF Pending, Grown
    <3>3. CASE ~\E d \in deliveries \cup InFlight : d.job = k
      BY <3>1, <3>3, <2>1, <1>1 DEF Pending
    <3> QED BY <3>2, <3>3
  <2>2. CASE k = j
    <3>1. \E d \in deliveries' \cup InFlight' : d.job = j
      BY <2>2 DEF Grown
    <3> QED BY <3>1, <2>2 DEF Pending
  <2> QED BY <2>1, <2>2
<1> QED BY <1>6, <1>7, <1>8, <1>9, <1>10, <1>11, <1>12, <1>13 DEF OwnInv

\* Nothing is enqueued.
LEMMA NothingGrows ==
  ASSUME OneParcel, Separate, UNCHANGED <<deliveries, inFlight>>
  PROVE  Grown({}) /\ OneParcel' /\ Separate'
<1>1. InFlight' = InFlight
  BY DEF InFlight
<1> QED BY <1>1 DEF Grown, OneParcel, Separate

\* A job takes the next auto id, past those of all listed jobs.
LEMMA RegisterAutoOwn ==
  ASSUME OwnInv, NEW fg \in BOOLEAN, RegisterAuto(fg)
  PROVE  OwnInv'
<1> DEFINE id == <<"bg", AutoNumber>>
<1>0. TypeOK /\ Ids /\ JobsType /\ IInv'
  BY RegisterAutoStep, Types DEF OwnInv, IInv, Ids
<1>1. PICK j \in Unused :
        /\ jobs' = [jobs EXCEPT ![j] = Born(id, "running", fg)]
        /\ Claim(j, id, fg)
        /\ fg => ToolTime
        /\ UNCHANGED <<watched, timer, deliveries, inFlight, wait, evalWait, session, epoch>>
  BY DEF RegisterAuto, delivery, owner
<1>2. j \in Job /\ jobs[j].st = "unborn"
  BY DEF Unused
<1>3. AutoNumber = nextAuto /\ id \in Id /\ row[id] = 0 /\ id[1] = "bg" /\ id[2] = nextAuto
  BY <1>0, <1>2, AutoNumberFacts DEF Id
<1>4. timer[id].s = "off"
  BY <1>0, <1>3 DEF Ids, Marks
<1> HIDE DEF id
<1>5. \A k \in Job : Listed(k) => IdOf(k) # id
  <2> SUFFICES ASSUME NEW k \in Job, Listed(k), IdOf(k) = id PROVE FALSE
    OBVIOUS
  <2>1. jobs[k].seen
    BY DEF OwnInv, Owners
  <2>2. nextAuto < nextAuto
    BY <1>0, <1>3, <2>1 DEF Ids, Numbers
  <2> QED BY <2>2, <1>0 DEF TypeOK
<1>6. /\ jobs'[j].id = id /\ jobs'[j].fg = fg /\ jobs'[j].seen = ~fg /\ jobs'[j].told = 0
      /\ jobs'[j].st = "running" /\ ~jobs'[j].ended
      /\ \A k \in Job : k # j => jobs'[k] = jobs[k]
  <2>1. jobs'[j] = Born(id, "running", fg) /\ \A k \in Job : k # j => jobs'[k] = jobs[k]
    BY <1>0, <1>1, <1>2 DEF JobsType
  <2>2. Born(id, "running", fg).told = 0
    BY DEF Born, Unborn
  <2>3. /\ Born(id, "running", fg).id = id /\ Born(id, "running", fg).st = "running"
        /\ Born(id, "running", fg).fg = fg /\ Born(id, "running", fg).seen = ~fg
        /\ Born(id, "running", fg).ended = FALSE
    <3>1. TypeOK /\ id \in Id /\ fg \in BOOLEAN
      BY <1>0, <1>3
    <3>2. /\ Born(id, "running", fg).id = id /\ Born(id, "running", fg).st = "running"
          /\ Born(id, "running", fg).fg = fg /\ Born(id, "running", fg).seen = ~fg
      BY <3>1, BornFacts
    <3>3. Born(id, "running", fg).ended = ("running" = "settled")
      BY <3>1, BornFacts
    <3> QED BY <3>2, <3>3
  <2> QED BY <2>1, <2>2, <2>3
<1>7. Grown({}) /\ OneParcel' /\ Separate'
  BY <1>1, NothingGrows DEF OwnInv
<1>8. fg => \A d \in InFlight : d.pc # "built"
  BY <1>1 DEF ToolTime
<1> QED BY <1>0, <1>1, <1>3, <1>4, <1>5, <1>6, <1>7, <1>8, ClaimOwn

\* A job takes an agent's id that no job had.
LEMMA RegisterNamedOwn ==
  ASSUME OwnInv, "reuse" \notin Env, NEW a \in Agent, RegisterNamed(a)
  PROVE  OwnInv'
<1> DEFINE id == <<a, PreferredNumber(a)>>
<1>0. TypeOK /\ Ids /\ JobsType /\ IInv'
  BY RegisterNamedStep, Types DEF OwnInv, IInv, Ids
<1>1. PICK j \in Unused :
        /\ jobs' = [jobs EXCEPT ![j] = Born(id, "running", FALSE)]
        /\ Claim(j, id, FALSE) /\ Fresh(id)
        /\ UNCHANGED <<watched, timer, deliveries, inFlight, wait, evalWait, session, epoch>>
  BY DEF RegisterNamed, delivery, owner
<1>2. j \in Job /\ jobs[j].st = "unborn"
  BY DEF Unused
<1>3. id \in Id /\ row[id] = 0
  BY <1>0, <1>2, PreferredNumberFacts DEF Id
<1>4. timer[id].s = "off"
  BY <1>0, <1>3 DEF Ids, Marks
<1> HIDE DEF id
<1>5. \A k \in Job : Listed(k) => IdOf(k) # id
  BY <1>1 DEF Fresh
<1>6. /\ jobs'[j].id = id /\ jobs'[j].fg = FALSE /\ jobs'[j].seen = TRUE /\ jobs'[j].told = 0
      /\ jobs'[j].st = "running" /\ ~jobs'[j].ended
      /\ \A k \in Job : k # j => jobs'[k] = jobs[k]
  <2>1. jobs'[j] = Born(id, "running", FALSE) /\ \A k \in Job : k # j => jobs'[k] = jobs[k]
    BY <1>0, <1>1, <1>2 DEF JobsType
  <2>2. Born(id, "running", FALSE).told = 0
    BY DEF Born, Unborn
  <2>3. /\ Born(id, "running", FALSE).id = id /\ Born(id, "running", FALSE).st = "running"
        /\ Born(id, "running", FALSE).fg = FALSE /\ Born(id, "running", FALSE).seen = TRUE
        /\ Born(id, "running", FALSE).ended = FALSE
    <3>1. TypeOK /\ id \in Id
      BY <1>0, <1>3
    <3>2. /\ Born(id, "running", FALSE).id = id /\ Born(id, "running", FALSE).st = "running"
          /\ Born(id, "running", FALSE).fg = FALSE /\ Born(id, "running", FALSE).seen = ~FALSE
      BY <3>1, BornFacts
    <3>3. Born(id, "running", FALSE).ended = ("running" = "settled")
      BY <3>1, BornFacts
    <3> QED BY <3>2, <3>3
  <2> QED BY <2>1, <2>2, <2>3
<1>7. Grown({}) /\ OneParcel' /\ Separate'
  BY <1>1, NothingGrows DEF OwnInv
<1> QED BY <1>0, <1>1, <1>3, <1>4, <1>5, <1>6, <1>7, ClaimOwn

\* A job that is settled from the start takes such an id, and is queued.
LEMMA PublishOwn ==
  ASSUME OwnInv, "reuse" \notin Env, NEW a \in Agent, Publish(a)
  PROVE  OwnInv'
<1> DEFINE id == <<a, PreferredNumber(a)>>
           rec == Born(id, "settled", FALSE)
           js(j) == IF id \in watched THEN {} ELSE {j}
           one(j) == [job |-> j, id |-> id, nth |-> 1]
<1>0. TypeOK /\ Ids /\ JobsType /\ RowsType /\ IInv' /\ NoStrandedDelivery
  BY PublishStep, Types DEF OwnInv, IInv, Ids
<1>1. PICK j \in Unused :
        /\ jobs' = [jobs EXCEPT ![j] = Sent(rec, j, js(j))]
        /\ Claim(j, id, FALSE) /\ Fresh(id)
        /\ IF js(j) = {} THEN UNCHANGED delivery
           ELSE IF loop = "off"
                THEN /\ inFlight' = inFlight \o Started(one(j))
                     /\ loop' = "ending" /\ UNCHANGED deliveries
                ELSE /\ deliveries' = deliveries \cup {one(j)}
                     /\ UNCHANGED <<inFlight, loop>>
        /\ timer' = [timer EXCEPT ![id] = Armed]
        /\ UNCHANGED <<watched, wait, evalWait, session, epoch>>
  BY DEF Publish, owner
<1>2. j \in Job /\ jobs[j].st = "unborn"
  BY DEF Unused
<1>3. id \in Id /\ row[id] = 0
  BY <1>0, <1>2, PreferredNumberFacts DEF Id
<1>4. \A k \in Job : Listed(k) => IdOf(k) # id
  BY <1>1 DEF Fresh
<1>5. id \notin watched
  BY <1>4 DEF OwnInv, Tools
<1>6. /\ rec \in JobRec /\ rec.id = id /\ rec.st = "settled" /\ rec.fg = FALSE
      /\ rec.seen = TRUE /\ rec.told = 0
  <2>1. rec.told = 0
    BY DEF Born, Unborn
  <2> QED BY <2>1, <1>0, <1>3, BornFacts
<1>7. one(j) \in Delivery /\ one(j).job = j /\ one(j).id = id
  BY <1>2, <1>3 DEF Delivery
<1>8. js(j) = {j}
  BY <1>5
<1>9. \/ inFlight' = inFlight \o Started(one(j)) /\ deliveries' = deliveries /\ loop = "off"
      \/ deliveries' = deliveries \cup {one(j)} /\ inFlight' = inFlight
  BY <1>1, <1>8
<1> HIDE DEF id, rec, js, one
<1>10. /\ jobs'[j].id = id /\ jobs'[j].fg = FALSE /\ jobs'[j].seen = TRUE /\ jobs'[j].told = 0
       /\ jobs'[j].st = "settled" /\ \A k \in Job : k # j => jobs'[k] = jobs[k]
  <2>1. jobs'[j] = Sent(rec, j, js(j)) /\ \A k \in Job : k # j => jobs'[k] = jobs[k]
    BY <1>0, <1>1, <1>2 DEF JobsType
  <2> QED BY <2>1, <1>6, SentSame
<1>11. /\ timer'[id].s = "armed" /\ \A x \in Id : x # id => timer'[x] = timer[x]
  BY <1>0, <1>1, <1>3 DEF RowsType, Armed
<1>12. Grown({j}) /\ OneParcel' /\ Separate'
  <2> DEFINE made == {one(j)}
  <2>1. \A d \in Parcels : d.job \notin {j}
    BY <1>2, ParcelFacts
  <2>2. Queueing(made)
    <3>1. CASE inFlight' = inFlight \o Started(one(j)) /\ deliveries' = deliveries /\ loop = "off"
      <4>1. deliveries = {}
        BY <1>0, <3>1 DEF NoStrandedDelivery
      <4> QED BY <3>1, <4>1 DEF Queueing
    <3>2. CASE deliveries' = deliveries \cup {one(j)} /\ inFlight' = inFlight
      BY <3>2 DEF Queueing
    <3> QED BY <1>9, <3>1, <3>2
  <2>3. /\ made \in SUBSET Delivery
        /\ \A d, e \in made : d.job = e.job => d = e
        /\ \A d \in made : d.job \in {j} /\ d.id = jobs'[d.job].id
        /\ \A k \in {j} : \E d \in made : d.job = k
    BY <1>7, <1>10
  <2> HIDE DEF made
  <2> QED BY <1>0, <2>1, <2>2, <2>3, QueueGrows DEF OwnInv
<1> QED BY <1>0, <1>1, <1>3, <1>4, <1>10, <1>11, <1>12, ClaimOwn

-----------------------------------------------------------------------------
(* The theorems. *)

\* OwnInv holds at the start.
LEMMA InitOwnInv == Init => OwnInv
<1> SUFFICES ASSUME Init PROVE OwnInv
  OBVIOUS
<1>1. IInv
  BY InitIInv
<1>2. \A j \in Job : /\ jobs[j].st = "unborn" /\ ~jobs[j].fg /\ ~jobs[j].seen /\ ~jobs[j].ended
                     /\ jobs[j].told = 0
  BY DEF Init, Unborn
<1>3. /\ InFlight = {} /\ deliveries = {} /\ DOMAIN inFlight = {} /\ wait = {} /\ watched = {}
      /\ evalWait = {} /\ suppressed = {} /\ \A id \in Id : timer[id].s = "off"
  BY DEF Init, InFlight, NoTimer
<1>4. Owners /\ DeliveredOnce /\ Marked /\ Consumed /\ NoResultLost
  BY <1>2 DEF Owners, DeliveredOnce, Marked, Consumed, NoResultLost
<1>5. Addressed /\ OneParcel /\ Separate /\ Attempts /\ Tools /\ PutOff
  BY <1>3 DEF Addressed, OneParcel, Separate, Attempts, Tools, PutOff
<1> QED BY <1>1, <1>4, <1>5 DEF OwnInv

\* Every step preserves OwnInv, where no id is used again.
LEMMA NextOwnInv ==
  ASSUME OwnInv, "reuse" \notin Env, [Next]_vars
  PROVE  OwnInv'
<1>1. CASE Manager
  <2>1. ASSUME NEW d \in deliveries, LoopTakes(d) \/ DrainTakes(d) PROVE OwnInv'
    BY <2>1, TakeOwn DEF LoopTakes, DrainTakes
  <2>2. ASSUME NEW i \in DOMAIN inFlight, Formatted(i) PROVE OwnInv'
    BY <2>2, FormattedOwn
  <2>3. ASSUME NEW i \in DOMAIN inFlight, AttemptAccepted(i) PROVE OwnInv'
    BY <2>3, AttemptAcceptedOwn
  <2>4. ASSUME NEW i \in DOMAIN inFlight, AttemptFailed(i) PROVE OwnInv'
    BY <2>4, AttemptFailedOwn
  <2>5. ASSUME NEW id \in Id, TimerFires(id) PROVE OwnInv'
    BY <2>5, TimerFiresOwn
  <2>6. ASSUME NEW id \in Id, DeferredEvicts(id) PROVE OwnInv'
    BY <2>6, DeferredEvictsOwn
  <2> QED BY <1>1, <2>1, <2>2, <2>3, <2>4, <2>5, <2>6, IdleOwn DEF Manager
<1>2. CASE Caller
  <2>1. ASSUME NEW fg \in BOOLEAN, RegisterAuto(fg) PROVE OwnInv'
    BY <2>1, RegisterAutoOwn
  <2>2. ASSUME NEW a \in Agent, RegisterNamed(a) PROVE OwnInv'
    BY <2>2, RegisterNamedOwn
  <2>3. ASSUME NEW a \in Agent, Publish(a) PROVE OwnInv'
    BY <2>3, PublishOwn
  <2>4. ASSUME NEW j \in Job, Settle(j) PROVE OwnInv'
    BY <2>4, SettleOwn
  <2>5. ASSUME NEW j \in Job, ForegroundReturns(j) PROVE OwnInv'
    BY <2>5, ForegroundReturnsOwn
  <2>6. ASSUME NEW j \in Job, ForegroundAborts(j) PROVE OwnInv'
    BY <2>6, ForegroundAbortsOwn
  <2>7. ASSUME NEW j \in Job, ForegroundBackgrounds(j) PROVE OwnInv'
    BY <2>7, ForegroundBackgroundsOwn
  <2>8. ASSUME NEW id \in Id, Cancel(id) PROVE OwnInv'
    BY <2>8, CancelJobOwn
  <2>9. ASSUME NEW id \in Id, KillJob(id) PROVE OwnInv'
    BY <2>9, KillJobOwn
  <2>10. ASSUME WaitRecovers \/ WaitBlocks \/ WaitShows \/ WaitYields PROVE OwnInv'
    BY <2>10, WaitRecoversOwn, WaitBlocksOwn, WaitShowsOwn, WaitYieldsOwn
  <2>11. ASSUME EvalWaitBegins \/ EvalWaitEnds \/ EvalWaitAborts PROVE OwnInv'
    BY <2>11, EvalWaitBeginsOwn, EvalWaitEndsOwn, EvalWaitAbortsOwn
  <2> QED BY <1>2, <2>1, <2>2, <2>3, <2>4, <2>5, <2>6, <2>7, <2>8, <2>9, <2>10, <2>11 DEF Caller
<1>3. CASE Owner
  BY <1>3, DrainOwn, CommitOwn, DropInjectionOwn, TransitionOwn, BeginDisposeOwn,
     DisposeOwnedOwn DEF Owner
<1>4. CASE UNCHANGED vars
  BY <1>4, IdleOwn
<1> QED BY <1>1, <1>2, <1>3, <1>4 DEF Next

\* What OwnInv says holds in every state, where no id is used again.
LEMMA Ownership == "reuse" \notin Env => (Spec => []OwnInv)
<1> SUFFICES ASSUME "reuse" \notin Env PROVE Spec => []OwnInv
  OBVIOUS
<1>1. Init => OwnInv
  BY InitOwnInv
<1>2. OwnInv /\ [Next]_vars => OwnInv'
  BY NextOwnInv
<1> QED BY <1>1, <1>2, PTL DEF Spec

\* Where no id is used again, the settled result of a listed job of an open
\* session is told, dropped on purpose or on its way: no skip of a suppressed or
\* watched id, and no refusal to retry, drops one nobody recovered.
THEOREM NoResultIsLost == "reuse" \notin Env => (Spec => []NoResultLost)
<1> SUFFICES ASSUME "reuse" \notin Env PROVE Spec => []NoResultLost
  OBVIOUS
<1>1. Spec => []OwnInv
  BY Ownership
<1>2. OwnInv => NoResultLost
  BY DEF OwnInv
<1> QED BY <1>1, <1>2, PTL

\* Where no id is used again, no result is given to the model twice, whichever of
\* a delivery, a wait, a kill, an eval cell and a foreground call was first.
THEOREM ResultsToldOnce == "reuse" \notin Env => (Spec => []DeliveredOnce)
<1> SUFFICES ASSUME "reuse" \notin Env PROVE Spec => []DeliveredOnce
  OBVIOUS
<1>1. Spec => []OwnInv
  BY Ownership
<1>2. OwnInv => DeliveredOnce
  BY DEF OwnInv
<1> QED BY <1>1, <1>2, PTL

=============================================================================
