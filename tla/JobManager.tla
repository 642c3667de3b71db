----------------------------- MODULE JobManager -----------------------------
(***************************************************************************)
(* AsyncJobManager: the rows of one owner's background jobs, the markers   *)
(* kept beside them (suppressed, watched, consumed, released), the timer   *)
(* that evicts a settled row, and the delivery of each result to the       *)
(* owner's session: the manager's queue and loop, an attempt in flight,    *)
(* the entry it parks on the session's yield queue, and the injection.     *)
(*                                                                         *)
(* A job is one AsyncJob object; an id names one row, and may name several *)
(* jobs in turn.  An id is the name asked for, or "bg", and a number: the  *)
(* n of bg_n, 1 for a preferred id as such and n for its n-th candidate.   *)
(* Code between two awaits is one step.  The running-job cap and dispose() *)
(* of the manager itself are not modelled.                                 *)
(***************************************************************************)
EXTENDS Naturals, Sequences, FiniteSets

CONSTANTS
  Agent,       \* preferred ids: agents whose jobs carry the agent's id
  MaxJob,      \* bound: jobs in one behaviour
  MaxFailure,  \* bound: injections a run drops before committing them
  MaxEpoch,    \* bound: transitions of the session to another transcript
  Env          \* what happens besides jobs, wait and the session's steps

Happening == {"foreground", "kill", "eval", "reuse", "dispose"}

ASSUME JobBoundAssumption ==
  /\ MaxJob \in Nat \ {0} /\ MaxFailure \in Nat /\ MaxEpoch \in Nat
  /\ Env \subseteq Happening /\ "bg" \notin Agent

VARIABLES
  jobs,        \* every AsyncJob: its id, status, and what became of its result
  row,         \* #jobs: the job each id names, or 0
  nextAuto,    \* #nextAutoId
  suppressed,  \* #suppressedDeliveries
  watched,     \* #watchedJobs
  consumed,    \* #consumedJobResults
  released,    \* #releasedForegroundJobs
  timer,       \* #evictionTimers: armed, or fired and waiting for an attempt
  deliveries,  \* #deliveries, the order of its due times left open
  inFlight,    \* #inFlightDeliveries, each with how far its attempt got
  loop,        \* #deliveryLoop: "off", "on", or "ending" before its finally
  wait,        \* the ids a blocked wait tool watches
  evalWait,    \* the jobs an eval cell's wait() holds, as it resolved them
  session,     \* the owner: "open", "disposing" or "closed"
  epoch,       \* #asyncDeliveryEpoch
  failures     \* injections dropped so far

markers == <<suppressed, watched, consumed, released>>
delivery == <<deliveries, inFlight, loop>>
owner == <<session, epoch, failures>>
vars == <<jobs, row, nextAuto, markers, timer, delivery, wait, evalWait, owner>>

Job == 1..MaxJob
Id  == ({"bg"} \cup Agent) \X Job

\* "told" counts how often the model was given the result unasked, or by wait
Unborn == [st |-> "unborn", id |-> <<"bg", 1>>, fg |-> FALSE, ended |-> FALSE,
           told |-> 0, sends |-> 0, dropped |-> FALSE, seen |-> FALSE, epoch |-> 0]
NoTimer == [s |-> "off", on |-> <<0, 0>>]
Armed   == [s |-> "armed", on |-> <<0, 0>>]

\* a queued delivery; nth tells the deliveries of one job apart
Delivery == [job: Job, id: Id, nth: 1..2]
Attempt  == [job: Job, id: Id, nth: 1..2, epoch: 0..MaxEpoch,
             pc: {"formatting", "parked", "built", "accepted", "failed"}]
Name(d)  == <<d.job, d.nth>>

Capped(n) == IF n > 2 THEN 2 ELSE n
InFlight == {inFlight[i] : i \in DOMAIN inFlight}
Suppressed(id) == id \in suppressed \/ id \in watched
Settled(j) == jobs[j].st = "settled"
Visible(id) == row[id] # 0 /\ ~jobs[row[id]].fg

\* the agent runs tools only when no injection waits to be committed, or was
\* committed a moment ago and has not told the manager yet
ToolTime == session = "open" /\ \A d \in InFlight : d.pc \notin {"built", "accepted"}

\* a call runs a hidden job and has not released or promoted it
ForegroundCall(j) == jobs[j].fg /\ row[jobs[j].id] = j /\ jobs[j].id \notin released

\* a step boundary, or the end of the run: no tool call is under way, an eval
\* cell that waits for its handles included
Boundary == ToolTime /\ wait = {} /\ evalWait = {} /\ \A j \in Job : ~ForegroundCall(j)

Init ==
  /\ jobs = [j \in Job |-> Unborn]
  /\ row = [id \in Id |-> 0]
  /\ nextAuto = 1
  /\ suppressed = {} /\ watched = {} /\ consumed = {} /\ released = {}
  /\ timer = [id \in Id |-> NoTimer]
  /\ deliveries = {} /\ inFlight = <<>> /\ loop = "off"
  /\ wait = {} /\ evalWait = {}
  /\ session = "open" /\ epoch = 0 /\ failures = 0

-----------------------------------------------------------------------------
(* Enqueueing, evicting and consuming, shared by the operations.           *)

\* #deliverDelivery(d) up to the sink's first await: nothing without a sink,
\* and a disposed session's sink returns at once, which counts as delivered
Started(d) ==
  IF session = "closed" THEN <<>>
  ELSE <<[job |-> d.job, id |-> d.id, nth |-> d.nth, epoch |-> epoch,
          pc |-> IF session = "disposing" THEN "accepted" ELSE "formatting"]>>

\* #enqueueDelivery for each job of js, suppressed ids left out by the caller:
\* with no loop the first is started within the call
Enqueue(js) ==
  LET made == {[job |-> j, id |-> jobs[j].id, nth |-> Capped(jobs[j].sends + 1)] : j \in js}
  IN IF loop = "off" /\ made # {}
     THEN \E d \in made :
            /\ deliveries' = (deliveries \cup made) \ {d}
            /\ inFlight' = inFlight \o Started(d)
            /\ loop' = "ending"
     ELSE /\ deliveries' = deliveries \cup made
          /\ UNCHANGED <<inFlight, loop>>

\* the records of the same jobs after Enqueue
Sent(rec, j, js) == IF j \in js THEN [rec EXCEPT !.sends = Capped(@ + 1)] ELSE rec

\* Mutated form: the timer outlives the row.
EvictKeepsTimer(ids) ==
  /\ row' = [id \in Id |-> IF id \in ids THEN 0 ELSE row[id]]
  /\ suppressed' = suppressed \ ids
  /\ watched' = watched \ ids
  /\ consumed' = consumed \ ids
  /\ UNCHANGED timer

\* #evictJob for every id of ids, the markers as they stand after added and gone
Evict(ids) ==
  /\ row' = [id \in Id |-> IF id \in ids THEN 0 ELSE row[id]]
  /\ timer' = [id \in Id |-> IF id \in ids THEN NoTimer ELSE timer[id]]
  /\ suppressed' = suppressed \ ids
  /\ watched' = watched \ ids
  /\ consumed' = consumed \ ids

\* the ids among ids whose result #consumeJobResult newly marks
Consumable(ids) == {id \in ids \ consumed : row[id] # 0 /\ jobs[row[id]].ended}

\* consumeJobResults(ids): suppress, drop what is queued, mark, and give the
\* rows no delivery holds a fresh (short) timer
Consume(ids) ==
  /\ suppressed' = suppressed \cup ids
  /\ deliveries' = {d \in deliveries : d.id \notin suppressed \cup ids \cup watched}
  /\ consumed' = consumed \cup Consumable(ids)
  /\ timer' = [id \in Id |->
       IF id \in Consumable(ids) /\ ~\E d \in deliveries' \cup InFlight : d.id = id
       THEN Armed ELSE timer[id]]

\* #claimJobId: the row and the markers of a new job j under id
Claim(j, id, hide) ==
  /\ row' = [row EXCEPT ![id] = j]
  /\ suppressed' = IF hide THEN suppressed \cup {id} ELSE suppressed \ {id}
  /\ consumed' = consumed \ {id}
  /\ released' = released \ {id}

-----------------------------------------------------------------------------
(* Registering a job and settling it.                                      *)

Unused == {j \in Job : jobs[j].st = "unborn" /\ \A i \in 1..(j - 1) : jobs[i].st # "unborn"}

\* Mutated form: the lowest number no row has.
LowestFreeNumber == CHOOSE n \in Job :
                      row[<<"bg", n>>] = 0 /\ \A m \in 1..(n - 1) : row[<<"bg", m>>] # 0

\* #resolveJobId without a preferred id: the counter, past the ids in use
AutoNumber == CHOOSE n \in nextAuto..MaxJob :
                /\ row[<<"bg", n>>] = 0
                /\ \A m \in nextAuto..(n - 1) : row[<<"bg", m>>] # 0

\* and with one: the first candidate no row has
PreferredNumber(a) == CHOOSE n \in Job :
                        row[<<a, n>>] = 0 /\ \A m \in 1..(n - 1) : row[<<a, m>>] # 0

Fresh(id) == "reuse" \in Env \/ \A j \in Job : jobs[j].st # "unborn" => jobs[j].id # id

Born(id, st, fg) ==
  [Unborn EXCEPT !.st = st, !.id = id, !.fg = fg, !.ended = (st = "settled"),
                 !.seen = ~fg, !.epoch = epoch]

\* register() of a bash or eval job, which takes an auto id
RegisterAuto(fg) ==
  \E j \in Unused :
    LET id == <<"bg", AutoNumber>> IN
    /\ session = "open"
    /\ fg => "foreground" \in Env /\ ToolTime /\ wait = {}
    /\ jobs' = [jobs EXCEPT ![j] = Born(id, "running", fg)]
    /\ Claim(j, id, fg)
    /\ nextAuto' = AutoNumber + 1
    /\ UNCHANGED <<watched, timer, delivery, wait, evalWait, owner>>

\* register() of an agent's job, under the agent's id
RegisterNamed(a) ==
  \E j \in Unused :
    LET id == <<a, PreferredNumber(a)>> IN
    /\ session = "open" /\ Fresh(id)
    /\ jobs' = [jobs EXCEPT ![j] = Born(id, "running", FALSE)]
    /\ Claim(j, id, FALSE)
    /\ UNCHANGED <<nextAuto, watched, timer, delivery, wait, evalWait, owner>>

\* publishCompleted(): a row that is settled from the start
Publish(a) ==
  \E j \in Unused :
    LET id == <<a, PreferredNumber(a)>>
        rec == Born(id, "settled", FALSE)
        js == IF id \in watched THEN {} ELSE {j}
        made == [job |-> j, id |-> id, nth |-> 1]
    IN
    /\ Fresh(id)
    /\ jobs' = [jobs EXCEPT ![j] = Sent(rec, j, js)]
    /\ Claim(j, id, FALSE)
    /\ IF js = {} THEN UNCHANGED delivery
       ELSE IF loop = "off"
            THEN /\ inFlight' = inFlight \o Started(made)
                 /\ loop' = "ending" /\ UNCHANGED deliveries
            ELSE /\ deliveries' = deliveries \cup {made}
                 /\ UNCHANGED <<inFlight, loop>>
    /\ timer' = [timer EXCEPT ![id] = Armed]
    /\ UNCHANGED <<nextAuto, watched, wait, evalWait, owner>>

\* #discardForegroundJob: the row goes, and with it the newest auto id
Discard(id) ==
  /\ Evict({id})
  /\ released' = released \ {id}
  /\ nextAuto' = IF id = <<"bg", nextAuto - 1>> THEN nextAuto - 1 ELSE nextAuto

\* the job's run settles: the tail of the promise register() started
Settle(j) ==
  LET id == jobs[j].id
      js == IF jobs[j].st = "running" /\ ~Suppressed(id) THEN {j} ELSE {}
      rec == [jobs[j] EXCEPT !.ended = TRUE, !.st = IF @ = "running" THEN "settled" ELSE @]
  IN
  /\ jobs[j].st \in {"running", "cancelled"} /\ ~jobs[j].ended
  /\ jobs' = [jobs EXCEPT ![j] = Sent(rec, j, js)]
  /\ Enqueue(js)
  /\ IF id \in released THEN Discard(id)
     ELSE /\ timer' = [timer EXCEPT ![id] = Armed]
          /\ UNCHANGED <<row, nextAuto, markers>>
  /\ UNCHANGED <<wait, evalWait, owner>>

\* cancel() from a user's view of the jobs
Cancel(id) ==
  /\ "kill" \in Env
  /\ row[id] # 0 /\ jobs[row[id]].st = "running" /\ ~jobs[row[id]].fg
  /\ jobs' = [jobs EXCEPT ![row[id]].st = "cancelled"]
  /\ UNCHANGED <<row, nextAuto, markers, timer, delivery, wait, evalWait, owner>>

-----------------------------------------------------------------------------
(* A call that backs its command with a hidden job while it waits for it.  *)

\* releaseForegroundJob()
Release(j, rec) ==
  LET id == jobs[j].id IN
  /\ jobs' = [jobs EXCEPT ![j] = rec]
  /\ IF rec.ended THEN Discard(id)
     ELSE /\ released' = released \cup {id}
          /\ UNCHANGED <<row, nextAuto, timer, suppressed, watched, consumed>>
  /\ UNCHANGED <<delivery, wait, evalWait, owner>>

\* the call returns the result itself, at the earliest as the run hands it over
ForegroundReturns(j) ==
  /\ ForegroundCall(j) /\ jobs[j].st \in {"running", "settled"}
  /\ Release(j, [jobs[j] EXCEPT !.told = Capped(@ + 1)])

\* the call is aborted: cancel(), then release
ForegroundAborts(j) ==
  /\ ForegroundCall(j)
  /\ Release(j, [jobs[j] EXCEPT !.dropped = TRUE, !.st = IF @ = "running" THEN "cancelled" ELSE @])

\* the wait is over: backgroundJob() promotes the job, which may have settled
ForegroundBackgrounds(j) ==
  LET js == IF Settled(j) /\ jobs[j].id \notin watched THEN {j} ELSE {} IN
  /\ ForegroundCall(j)
  /\ jobs' = [jobs EXCEPT ![j] = Sent([@ EXCEPT !.fg = FALSE, !.seen = TRUE], j, js)]
  /\ suppressed' = suppressed \ {jobs[j].id}
  /\ Enqueue(js)
  /\ UNCHANGED <<row, nextAuto, watched, consumed, released, timer, wait, evalWait, owner>>

-----------------------------------------------------------------------------
(* The wait tool, the kill of a job, and an eval cell's wait().            *)

\* buildJobResult() over ids: the unconsumed results are shown, all consumed
Shown(ids) == {row[id] : id \in {i \in ids \ consumed : row[i] # 0 /\ Settled(row[i])}}
Show(ids) ==
  jobs' = [j \in Job |-> IF j \in Shown(ids) THEN [jobs[j] EXCEPT !.told = Capped(@ + 1)] ELSE jobs[j]]

RunningIds == {id \in Id : Visible(id) /\ jobs[row[id]].st = "running"}
UndeliveredIds ==
  {id \in Id : Visible(id) /\ Settled(row[id]) /\ id \notin consumed /\ ~Suppressed(id)}

\* an accepted result that has not reached the transcript is returned at once
WaitRecovers ==
  /\ ToolTime /\ wait = {} /\ evalWait = {} /\ UndeliveredIds # {}
  /\ Show(UndeliveredIds) /\ Consume(UndeliveredIds)
  /\ UNCHANGED <<row, nextAuto, watched, released, inFlight, loop, wait, evalWait, owner>>

\* otherwise the running jobs are watched
WaitBlocks ==
  /\ ToolTime /\ wait = {} /\ evalWait = {} /\ UndeliveredIds = {} /\ RunningIds # {}
  /\ wait' = RunningIds
  /\ watched' = watched \cup RunningIds
  /\ UNCHANGED <<jobs, row, nextAuto, suppressed, consumed, released, timer, delivery,
                 evalWait, owner>>

\* a job, a service or the cap ended it: show and consume what settled, unwatch
WaitShows ==
  LET done == {id \in wait : row[id] # 0 /\ jobs[row[id]].st # "running"} IN
  /\ wait # {}
  /\ Show(done) /\ Consume(done)
  /\ watched' = watched \ wait
  /\ wait' = {}
  /\ UNCHANGED <<row, nextAuto, released, inFlight, loop, evalWait, owner>>

\* Mutated form: unwatchJobs() only forgets the watch.
NothingRequeued(ids) == {}

\* what unwatchJobs(ids) hands back to ordinary delivery
Requeued(ids) ==
  {row[id] : id \in {i \in ids \cap watched :
      /\ row[i] # 0 /\ Settled(row[i])
      /\ i \notin suppressed /\ i \notin consumed
      /\ ~\E d \in deliveries \cup InFlight : d.id = i}}

\* a message or an interrupt ended it: nothing is shown
WaitYields ==
  /\ wait # {}
  /\ Enqueue(Requeued(wait))
  /\ jobs' = [j \in Job |-> Sent(jobs[j], j, Requeued(wait))]
  /\ watched' = watched \ wait
  /\ wait' = {}
  /\ UNCHANGED <<row, nextAuto, suppressed, consumed, released, timer, evalWait, owner>>

\* the agent kills a job: cancel(), then a result that shows and consumes it
KillJob(id) ==
  LET j == row[id] IN
  /\ "kill" \in Env /\ ToolTime /\ wait = {} /\ Visible(id)
  /\ IF jobs[j].st = "running"
     THEN jobs' = [jobs EXCEPT ![j].st = "cancelled"]
     ELSE Show({id})
  /\ Consume({id})
  /\ UNCHANGED <<row, nextAuto, watched, released, inFlight, loop, wait, evalWait, owner>>

\* runEvalWait in a foreground cell: it resolves its handles to the jobs their
\* ids name now
EvalWaitBegins ==
  /\ "eval" \in Env /\ ToolTime /\ wait = {} /\ evalWait = {}
  /\ \E ids \in (SUBSET {id \in Id : id[1] \in Agent /\ row[id] # 0}) \ {{}} :
       evalWait' = {row[id] : id \in ids}
  /\ UNCHANGED <<jobs, row, nextAuto, markers, timer, delivery, wait, owner>>

\* all settled or the wait timed out: it returns those jobs' snapshots, and
\* consumes by id
EvalWaitEnds ==
  LET done == {j \in evalWait : jobs[j].st # "running"} IN
  /\ evalWait # {}
  /\ jobs' = [j \in Job |-> IF j \in done /\ Settled(j) /\ jobs[j].told = 0
                            THEN [jobs[j] EXCEPT !.told = 1] ELSE jobs[j]]
  /\ Consume({jobs[j].id : j \in done})
  /\ evalWait' = {}
  /\ UNCHANGED <<row, nextAuto, watched, released, inFlight, loop, wait, owner>>

\* the cell is aborted: cancel() what its handles name
EvalWaitAborts ==
  LET ids == {jobs[j].id : j \in evalWait} IN
  /\ evalWait # {}
  /\ jobs' = [j \in Job |->
       IF jobs[j].st = "running" /\ jobs[j].id \in ids /\ row[jobs[j].id] = j
       THEN [jobs[j] EXCEPT !.st = "cancelled"] ELSE jobs[j]]
  /\ evalWait' = {}
  /\ UNCHANGED <<row, nextAuto, markers, timer, delivery, wait, owner>>

-----------------------------------------------------------------------------
(* The delivery loop and the attempts in flight.                           *)

\* shifted off the queue: dropped if its id is suppressed, else attempted
Take(d) ==
  /\ deliveries' = deliveries \ {d}
  /\ inFlight' = IF Suppressed(d.id) THEN inFlight ELSE inFlight \o Started(d)
  /\ UNCHANGED <<jobs, row, nextAuto, markers, timer, loop, wait, evalWait, owner>>

\* one turn of #runDeliveryLoop on a delivery that is due
LoopTakes(d) == loop = "on" /\ Take(d)

\* #deliverNextFiltered, as the owner drains its own deliveries
DrainTakes(d) == session = "open" /\ ~Suppressed(d.id) /\ Take(d)

LoopRunsDry ==
  /\ loop = "on" /\ deliveries = {}
  /\ loop' = "ending"
  /\ UNCHANGED <<jobs, row, nextAuto, markers, timer, deliveries, inFlight, wait, evalWait, owner>>

\* Mutated form: the finally does not look at the queue again.
LoopForgets ==
  /\ loop = "ending"
  /\ loop' = "off"
  /\ UNCHANGED <<jobs, row, nextAuto, markers, timer, deliveries, inFlight, wait, evalWait, owner>>

\* the finally of #ensureDeliveryLoop looks at the queue once more
LoopEnds ==
  /\ loop = "ending"
  /\ loop' = IF deliveries = {} THEN "off" ELSE "on"
  /\ UNCHANGED <<jobs, row, nextAuto, markers, timer, deliveries, inFlight, wait, evalWait, owner>>

At(pc) == {i \in DOMAIN inFlight : inFlight[i].pc = pc}

\* #deliverAsyncJobResult after the formatting await
Formatted(i) ==
  LET d == inFlight[i] IN
  /\ d.pc = "formatting"
  /\ inFlight' = [inFlight EXCEPT ![i].pc =
       IF session # "open" \/ d.epoch # epoch \/ Suppressed(d.id) THEN "accepted" ELSE "parked"]
  /\ UNCHANGED <<jobs, row, nextAuto, markers, timer, deliveries, loop, wait, evalWait, owner>>

\* a step boundary or an idle flush: drain the yield queue and build the
\* message from the entries that are not stale
Drain ==
  /\ Boundary /\ At("parked") # {}
  /\ inFlight' = [i \in DOMAIN inFlight |->
       IF inFlight[i].pc # "parked" THEN inFlight[i]
       ELSE [inFlight[i] EXCEPT !.pc =
              IF inFlight[i].epoch # epoch \/ Suppressed(inFlight[i].id)
              THEN "failed" ELSE "built"]]
  /\ UNCHANGED <<jobs, row, nextAuto, markers, timer, deliveries, loop, wait, evalWait, owner>>

\* the attempts at pc "built" all go to pc
Conclude(pc) ==
  inFlight' = [i \in DOMAIN inFlight |->
                 IF inFlight[i].pc = "built" THEN [inFlight[i] EXCEPT !.pc = pc] ELSE inFlight[i]]

\* the message enters the transcript
Commit ==
  /\ At("built") # {}
  /\ Conclude("accepted")
  /\ jobs' = [j \in Job |->
       IF \E i \in At("built") : inFlight[i].job = j
       THEN [jobs[j] EXCEPT !.told = Capped(@ + 1)] ELSE jobs[j]]
  /\ UNCHANGED <<row, nextAuto, markers, timer, deliveries, loop, wait, evalWait, owner>>

\* the run ends before it commits the message
DropInjection ==
  /\ At("built") # {} /\ failures < MaxFailure
  /\ failures' = failures + 1
  /\ Conclude("failed")
  /\ UNCHANGED <<jobs, row, nextAuto, markers, timer, deliveries, loop, wait, evalWait, session, epoch>>

Without(i) == SubSeq(inFlight, 1, i - 1) \o SubSeq(inFlight, i + 1, Len(inFlight))

\* an eviction that waited for attempt d goes ahead
Woken(d) == [id \in Id |-> IF timer[id].s = "deferred" /\ timer[id].on = Name(d)
                           THEN [timer[id] EXCEPT !.s = "evicting"] ELSE timer[id]]
Restart == loop' = IF loop = "off" /\ deliveries' # {} THEN "on" ELSE loop

\* the sink returned: the id's result counts as consumed
AttemptAccepted(i) ==
  LET d == inFlight[i]
      rest == {inFlight[k] : k \in DOMAIN inFlight \ {i}}
      arm == \/ d.id \in consumed /\ row[d.id] # 0
             \/ d.id \in Consumable({d.id}) /\ ~\E x \in deliveries \cup rest : x.id = d.id
  IN
  /\ d.pc = "accepted"
  /\ inFlight' = Without(i)
  /\ consumed' = consumed \cup Consumable({d.id})
  /\ timer' = IF arm THEN [Woken(d) EXCEPT ![d.id] = Armed] ELSE Woken(d)
  /\ UNCHANGED deliveries
  /\ Restart
  /\ UNCHANGED <<jobs, row, nextAuto, suppressed, watched, released, wait, evalWait, owner>>

\* Mutated form: what the session did not take is not tried again.
FailsForGood(i) ==
  LET d == inFlight[i] IN
  /\ d.pc = "failed"
  /\ inFlight' = Without(i)
  /\ jobs' = IF row[d.id] = 0 THEN [jobs EXCEPT ![d.job].dropped = TRUE] ELSE jobs
  /\ timer' = Woken(d)
  /\ UNCHANGED deliveries
  /\ Restart
  /\ UNCHANGED <<row, nextAuto, markers, wait, evalWait, owner>>

\* the sink threw: retry, unless the id is suppressed or its row is gone
AttemptFailed(i) ==
  LET d == inFlight[i]
      retry == ~Suppressed(d.id) /\ row[d.id] # 0
  IN
  /\ d.pc = "failed"
  /\ inFlight' = Without(i)
  /\ deliveries' = IF retry THEN deliveries \cup {[job |-> d.job, id |-> d.id, nth |-> d.nth]}
                   ELSE deliveries
  /\ jobs' = IF row[d.id] = 0 THEN [jobs EXCEPT ![d.job].dropped = TRUE] ELSE jobs
  /\ timer' = Woken(d)
  /\ Restart
  /\ UNCHANGED <<row, nextAuto, markers, wait, evalWait, owner>>

-----------------------------------------------------------------------------
(* Retention.                                                              *)

\* nothing holds j's result but its row
OnlyRow(j) == ~\E d \in deliveries \cup InFlight : d.job = j

EvictRow(id) ==
  /\ Evict({id})
  /\ jobs' = IF OnlyRow(row[id]) /\ Settled(row[id]) /\ jobs[row[id]].told = 0
             THEN [jobs EXCEPT ![row[id]].dropped = TRUE] ELSE jobs

\* Mutated form: a row is evicted though its suppressed entry is parked.
TimerEvicts(id) ==
  /\ timer[id].s = "armed" /\ id \notin wait /\ Visible(id)
  /\ \A d \in InFlight : d.id = id => d.pc \in {"parked", "built"}
  /\ EvictRow(id)
  /\ UNCHANGED <<nextAuto, released, delivery, wait, evalWait, owner>>

\* the timer fires, half a minute or more after it was armed: not while a wait
\* its job woke, the call the job backs, or the formatting of the result is
\* about to go on, but at any point of an entry parked or built
TimerFires(id) ==
  LET held == {i \in DOMAIN inFlight : inFlight[i].id = id} IN
  /\ timer[id].s = "armed" /\ id \notin wait /\ Visible(id)
  /\ \A d \in InFlight : d.id = id => d.pc \in {"parked", "built"}
  /\ IF held = {} \/ ~Suppressed(id)
     THEN EvictRow(id)
     ELSE /\ \E i \in held :
               /\ \A k \in held : i <= k
               /\ timer' = [timer EXCEPT ![id] = [s |-> "deferred", on |-> Name(inFlight[i])]]
          /\ UNCHANGED <<jobs, row, suppressed, watched, consumed>>
  /\ UNCHANGED <<nextAuto, released, delivery, wait, evalWait, owner>>

DeferredEvicts(id) ==
  /\ timer[id].s = "evicting"
  /\ EvictRow(id)
  /\ UNCHANGED <<nextAuto, released, delivery, wait, evalWait, owner>>

-----------------------------------------------------------------------------
(* The session moves to another transcript, or is disposed.                *)

\* #cancelOwnAsyncJobs: cancel what runs, evict what settled, clear the yield
\* queue; a delivery of an evicted job is dropped from the queue with it
CancelOwn ==
  LET done == {id \in Id : row[id] # 0 /\ Settled(row[id])}
      cleared == IF done = {} THEN deliveries
                 ELSE {d \in deliveries : ~Suppressed(d.id) /\ d.id \notin done}
  IN
  /\ jobs' = [j \in Job |->
       IF jobs[j].st = "running" THEN [jobs[j] EXCEPT !.st = "cancelled"]
       ELSE [jobs[j] EXCEPT !.dropped = @ \/ (jobs[j].st = "settled" /\ jobs[j].told = 0)]]
  /\ deliveries' = cleared
  /\ Evict(done)
  /\ inFlight' = [i \in DOMAIN inFlight |->
       IF inFlight[i].pc = "parked" THEN [inFlight[i] EXCEPT !.pc = "failed"] ELSE inFlight[i]]
  /\ UNCHANGED <<nextAuto, released, loop>>

\* /new, resume, branch: the run was aborted first, so no tool call is under
\* way and no injection is half done
Transition ==
  /\ Boundary /\ epoch < MaxEpoch
  /\ CancelOwn
  /\ epoch' = epoch + 1
  /\ UNCHANGED <<wait, evalWait, session, failures>>

\* beginDispose() clears the yield queue ...
BeginDispose ==
  /\ "dispose" \in Env /\ session = "open"
  /\ session' = "disposing"
  /\ evalWait' = {}
  /\ inFlight' = [i \in DOMAIN inFlight |->
       IF inFlight[i].pc = "parked" THEN [inFlight[i] EXCEPT !.pc = "failed"] ELSE inFlight[i]]
  /\ UNCHANGED <<jobs, row, nextAuto, markers, timer, deliveries, loop, wait, epoch, failures>>

\* ... and later the sink goes, and the owner's jobs
DisposeOwned ==
  /\ session = "disposing"
  /\ session' = "closed"
  /\ CancelOwn
  /\ UNCHANGED <<wait, evalWait, epoch, failures>>

-----------------------------------------------------------------------------

Manager ==
  \/ \E d \in deliveries : LoopTakes(d) \/ DrainTakes(d)
  \/ LoopRunsDry
  \/ LoopEnds
  \/ \E i \in DOMAIN inFlight : Formatted(i) \/ AttemptAccepted(i) \/ AttemptFailed(i)
  \/ \E id \in Id : TimerFires(id) \/ DeferredEvicts(id)

Caller ==
  \/ \E fg \in BOOLEAN : RegisterAuto(fg)
  \/ \E a \in Agent : RegisterNamed(a) \/ Publish(a)
  \/ \E j \in Job : Settle(j)
  \/ \E j \in Job : ForegroundReturns(j) \/ ForegroundAborts(j) \/ ForegroundBackgrounds(j)
  \/ \E id \in Id : Cancel(id) \/ KillJob(id)
  \/ WaitRecovers \/ WaitBlocks \/ WaitShows \/ WaitYields
  \/ EvalWaitBegins \/ EvalWaitEnds \/ EvalWaitAborts

Owner == Drain \/ Commit \/ DropInjection \/ Transition \/ BeginDispose \/ DisposeOwned

Next == Manager \/ Caller \/ Owner

Spec == Init /\ [][Next]_vars

\* promises and timers are served; a blocked wait ends by its cap; a run that
\* holds a message commits it or ends, and an idle session flushes its queue
FairSpec ==
  /\ Spec
  /\ \A d \in Delivery : WF_vars(d \in deliveries /\ LoopTakes(d))
  /\ WF_vars(LoopRunsDry) /\ WF_vars(LoopEnds)
  /\ WF_vars(\E i \in DOMAIN inFlight : Formatted(i) \/ AttemptAccepted(i) \/ AttemptFailed(i))
  /\ WF_vars(WaitShows \/ WaitYields) /\ WF_vars(EvalWaitEnds \/ EvalWaitAborts)
  /\ WF_vars(\E j \in Job : ForegroundReturns(j) \/ ForegroundAborts(j) \/ ForegroundBackgrounds(j))
  /\ SF_vars(Drain)
  /\ WF_vars(Commit \/ DropInjection)

-----------------------------------------------------------------------------
(* Properties.                                                             *)

\* every variable keeps its shape
TypeOK ==
  /\ jobs \in [Job -> [st: {"unborn", "running", "cancelled", "settled"}, id: Id,
                       fg: BOOLEAN, ended: BOOLEAN, told: 0..2, sends: 0..2,
                       dropped: BOOLEAN, seen: BOOLEAN, epoch: 0..MaxEpoch]]
  /\ row \in [Id -> 0..MaxJob]
  /\ nextAuto \in 1..(MaxJob + 1)
  /\ suppressed \subseteq Id /\ watched \subseteq Id
  /\ consumed \subseteq Id /\ released \subseteq Id
  /\ timer \in [Id -> [s: {"off", "armed", "deferred", "evicting"},
                       on: (0..MaxJob) \X (0..2)]]
  /\ deliveries \subseteq Delivery /\ inFlight \in Seq(Attempt)
  /\ loop \in {"off", "on", "ending"}
  /\ wait \subseteq Id /\ evalWait \subseteq Job
  /\ session \in {"open", "disposing", "closed"}
  /\ epoch \in 0..MaxEpoch /\ failures \in 0..MaxFailure

\* a delivery of j's result is under way, or the wait that watches j is about to
\* show it or hand it back to delivery
Pending(j) ==
  \/ \E d \in deliveries \cup InFlight : d.job = j
  \/ LET id == jobs[j].id IN
     row[id] = j /\ id \in wait \cap watched /\ id \notin suppressed \cup consumed

\* The result of a settled background job of an open session has been given to
\* the model, or dropped on purpose (the session moved on, the call it backed
\* was aborted, its row expired first), or it is pending.  The skips of
\* #enqueueDelivery, #runDeliveryLoop and the sink, and the refusals to retry,
\* never drop a result nobody recovered.
NoResultLost ==
  session = "open" =>
    \A j \in Job :
      Settled(j) /\ ~jobs[j].fg /\ ~jobs[j].dropped /\ jobs[j].told = 0 => Pending(j)

\* No result is given to the model twice: once a wait, a kill, a foreground
\* call or an eval wait recovered it, no injection repeats it, whatever was
\* queued, parked on the yield queue or waiting to retry at that moment, and
\* after an injection no wait shows it again.
DeliveredOnce == \A j \in Job : jobs[j].told <= 1

\* A queued delivery always has a loop to take it, also when it is queued
\* between the end of the loop's body and the finally that forgets the loop.
NoStrandedDelivery == deliveries # {} => loop # "off"

\* A row whose run has settled always has an eviction timer, armed or deferred,
\* and no timer outlives its row, so a row neither leaks nor takes the timer
\* of the job that had its id before. An eviction put off until an attempt
\* settles waits for an attempt that is still in flight; otherwise nothing
\* would ever take it up again.
RowIsTimed ==
  \A id \in Id :
    /\ timer[id].s # "off" <=> row[id] # 0 /\ jobs[row[id]].ended
    /\ timer[id].s = "deferred" => \E d \in InFlight : Name(d) = timer[id].on

\* An auto id that named a listed job never names another one ("bg_N names one
\* job for the whole session"), though the ids of hidden jobs are handed back.
AutoIdNamesOneJob ==
  \A i, j \in Job :
    i < j /\ jobs[i].id = jobs[j].id /\ jobs[i].id[1] = "bg"
      /\ jobs[i].st # "unborn" /\ jobs[j].st # "unborn" => ~jobs[i].seen

\* What a job of one transcript found is never given to the model in a later
\* one: evictCompletedJobs() drops every queued delivery, and the epoch guards
\* the attempts in flight.
OwnTranscriptOnly ==
  [][\A j \in Job : jobs'[j].told > jobs[j].told => jobs[j].epoch = epoch]_vars

\* A settled job whose delivery was skipped while it was watched, and whose
\* result nobody consumed, has a delivery again when the watch is dropped.
SkippedIsRequeued ==
  [][\A id \in watched \ watched' :
       row'[id] # 0 /\ jobs'[row'[id]].st = "settled" /\ id \notin suppressed' \cup consumed'
         => \E d \in deliveries' \cup InFlight' : d.job = row'[id]]_vars

\* In a session that stays open every settled background result reaches the
\* model, by injection or by a wait, unless it is dropped on purpose.
ResultReachesOwner ==
  \A j \in Job :
    Settled(j) /\ ~jobs[j].fg ~> jobs[j].told > 0 \/ jobs[j].dropped \/ session # "open"

=============================================================================
