----------------------------- MODULE AgentQueues -----------------------------
(***************************************************************************)
(* The queued input of one agent (packages/agent/src/agent.ts): the        *)
(* steering and follow-up queues, the batch a preparation has claimed, the *)
(* batches dequeued and not recorded yet, the steering a provider took     *)
(* into the response it streams (live-steering.ts), and the two processes  *)
(* of a run that dequeue: its loop (agent-loop.ts) at the boundaries, and  *)
(* the pump of a provider with live steering.  A run's events reach the    *)
(* transcript through a stream that a consumer reads one event at a time;  *)
(* aborts, queue edits of the user and a session reset come in between.    *)
(*                                                                         *)
(* Messages are numbers, posted in order.  The context a preparation adds, *)
(* tool batches, asides and the direct prompt's own messages are left out: *)
(* they are never in a queue.                                              *)
(***************************************************************************)
EXTENDS Integers, Sequences, FiniteSets, SequencesExt, Filter

CONSTANTS
  MaxMsg,     \* how many messages are posted
  Run,        \* the abort controllers of runs; one is reused when its run is over
  NoRun,      \* #abortController undefined
  MaxFaults,  \* bound on aborts, failed preparations, failed responses, deadlines
  MaxEdits    \* bound on the user's queue edits and resets

ASSUME BoundAssumption == MaxMsg \in Nat /\ MaxFaults \in Nat /\ MaxEdits \in Nat
ASSUME RunAssumption   == IsFiniteSet(Run) /\ NoRun \notin Run

Msg   == 1..MaxMsg
Queue == {"steering", "followUp"}
\* the two dequeuers of a run
Proc  == Run \X {"loop", "live"}

NoClaim == [by |-> <<NoRun, "loop">>, msgs |-> <<>>]
Idle    == [step |-> "none", queue |-> "steering"]
NewLoop == [at |-> "unused", held |-> <<>>, opening |-> 0, more |-> FALSE]
NewLive == [sent |-> <<>>, accepted |-> <<>>, deferred |-> <<>>, stopped |-> FALSE]

VARIABLES
  queues,       \* #steeringQueue and #followUpQueue
  claims,       \* #queuedMessageClaims: who prepares which batch of a queue
  deliveries,   \* #queuedMessageDeliveries, each with its messages from `next` on
  liveSteered,  \* #liveSteered
  withdrawn,    \* #withdrawnMessages: the run that must not record a message
  controller,   \* #abortController
  aborted,      \* the runs whose signal is aborted
  taking,       \* where each dequeuer is in #dequeue...AfterHooks / #prepareQueuedMessageBatch
  loop,         \* the agent loop of each run: where it is and its pendingMessages
  live,         \* the LiveSteeringChannel of each run's response
  stream,       \* message events pushed and not consumed yet
  recorded,     \* how many times the transcript holds each message
  order,        \* history: each queue's messages in order of arrival
  taken,        \* history: messages given back to the user or dropped on purpose
  unrecoverable, \* history: messages whose delivery record a queue edit dropped
  late,         \* history: messages a pump still prepared when its run was over
  faults, edits

heldVars == <<queues, claims, deliveries, liveSteered>>
runVars  == <<controller, aborted, taking, loop, live, stream>>
histVars == <<order, taken, unrecoverable, late, faults, edits>>
vars     == <<heldVars, withdrawn, runVars, recorded, histVars>>

Init ==
  /\ queues = [q \in Queue |-> <<>>]
  /\ claims = [q \in Queue |-> NoClaim]
  /\ deliveries = <<>>
  /\ liveSteered = <<>>
  /\ withdrawn = [m \in Msg |-> NoRun]
  /\ controller = NoRun
  /\ aborted = {}
  /\ taking = [p \in Proc |-> Idle]
  /\ loop = [r \in Run |-> NewLoop]
  /\ live = [r \in Run |-> NewLive]
  /\ stream = [r \in Run |-> <<>>]
  /\ recorded = [m \in Msg |-> 0]
  /\ order = [q \in Queue |-> <<>>]
  /\ taken = {}
  /\ unrecoverable = {}
  /\ late = {}
  /\ faults = 0
  /\ edits = 0

-----------------------------------------------------------------------------
(* Helpers *)

Posted == ToSet(order["steering"]) \union ToSet(order["followUp"])

\* peekSteeringQueue() / peekFollowUpQueue(): the claimed batch, then the queue
Peek(q) == claims[q].msgs \o queues[q]

\* The undelivered messages of the delivery records ds, and what was live-steered by es
MessagesOf(ds) == UNION {ToSet(d.msgs) : d \in ds}
MessagesIn(ds) == FlattenSeq([i \in DOMAIN ds |-> ds[i].msgs])
SteeredIn(es)  == [i \in DOMAIN es |-> es[i].msg]

\* What Array.filter leaves of the records of run r, and of those for its queue q
SteeredBy(r)     == Without(liveSteered, {e \in ToSet(liveSteered) : e.run # r})
DequeuedBy(r, q) == Without(deliveries, {d \in ToSet(deliveries) : d.run # r \/ d.queue # q})

\* What is dequeued or queued and neither recorded nor given back
Pending ==
  (UNION {ToSet(Peek(q)) : q \in Queue})
    \union MessagesOf(ToSet(deliveries))
    \union {e.msg : e \in ToSet(liveSteered)}

Fault == faults < MaxFaults /\ faults' = faults + 1
Edit  == edits < MaxEdits /\ edits' = edits + 1

\* #cancelQueuedMessagePreparation(queue, true): the batch goes back in front.
Restored(q) == claims[q].msgs \o queues[q]

\* replaceQueue(), replaceQueues() and moveFollowUpsToSteering(): the queues
\* become new; those in Q lose their claim and their delivery records.
Replace(Q, new) ==
  /\ queues' = new
  /\ claims' = [q \in Queue |-> IF q \in Q THEN NoClaim ELSE claims[q]]
  /\ deliveries' = Without(deliveries, {d \in ToSet(deliveries) : d.queue \in Q})
  /\ unrecoverable' = unrecoverable \union MessagesOf({d \in ToSet(deliveries) : d.queue \in Q})

-----------------------------------------------------------------------------
(* The user and the session *)

\* steer() and followUp()
Post(q) ==
  /\ Cardinality(Posted) < MaxMsg
  /\ LET m == Cardinality(Posted) + 1
     IN /\ queues' = [queues EXCEPT ![q] = Append(@, m)]
        /\ order' = [order EXCEPT ![q] = Append(@, m)]
  /\ UNCHANGED <<claims, deliveries, liveSteered, withdrawn, runVars, recorded,
                 taken, unrecoverable, late, faults, edits>>

\* takeQueuedMessage(): one pending message leaves its queue for the editor.
TakeQueuedMessage(q, i) ==
  /\ Edit
  /\ i \in DOMAIN Peek(q)
  /\ Replace({q}, [queues EXCEPT ![q] = RemoveAt(Peek(q), i)])
  /\ taken' = taken \union {Peek(q)[i]}
  /\ UNCHANGED <<liveSteered, withdrawn, runVars, recorded, order, late, faults>>

\* popLastQueuedMessage(): the newest one does, steering first.
PopLastQueuedMessage ==
  /\ Edit
  /\ \E q \in Queue :
       /\ Peek(q) # <<>>
       /\ q = "followUp" => Peek("steering") = <<>>
       /\ Replace(Queue, [x \in Queue |-> IF x = q THEN Front(Peek(x)) ELSE Peek(x)])
       /\ taken' = taken \union {Last(Peek(q))}
  /\ UNCHANGED <<liveSteered, withdrawn, runVars, recorded, order, late, faults>>

\* promoteQueuedMessage(): a follow-up moves to the end of the steering queue,
\* whose claim and deliveries stay.
PromoteQueuedMessage(i) ==
  /\ Edit
  /\ i \in DOMAIN Peek("followUp")
  /\ LET m == Peek("followUp")[i]
     IN /\ Replace({"followUp"}, [q \in Queue |->
                     IF q = "steering" THEN Append(queues[q], m) ELSE RemoveAt(Peek(q), i)])
        /\ order' = [q \in Queue |->
                     IF q = "steering" THEN Append(order[q], m)
                     ELSE Without(order[q], {m})]
  /\ UNCHANGED <<liveSteered, withdrawn, runVars, recorded, taken, late, faults>>

\* clearQueue(): everything pending goes back to the editor.
ClearQueue ==
  /\ Edit
  /\ Replace(Queue, [q \in Queue |-> <<>>])
  /\ taken' = taken \union UNION {ToSet(Peek(q)) : q \in Queue}
  /\ UNCHANGED <<liveSteered, withdrawn, runVars, recorded, order, late, faults>>

\* The withdrawal marks of withdrawUndeliveredQueuedMessages().
\* Mutated form: the batches dequeued for the next call are not marked.
MarkedLiveOnly ==
  [m \in Msg |-> IF \E e \in ToSet(liveSteered) : e.msg = m
                 THEN controller ELSE withdrawn[m]]
Marked ==
  [m \in Msg |->
     IF \E e \in ToSet(liveSteered) : e.msg = m
     THEN (CHOOSE e \in ToSet(liveSteered) : e.msg = m).run
     ELSE IF \E d \in ToSet(deliveries) : m \in ToSet(d.msgs)
     THEN (CHOOSE d \in ToSet(deliveries) : m \in ToSet(d.msgs)).run
     ELSE withdrawn[m]]

\* clearQueue({ forInterrupt: true }): also what the run dequeued and has not
\* recorded; the run that abort() is about to end must not record it.
ClearQueueForInterrupt ==
  /\ Edit
  /\ withdrawn' = Marked
  /\ liveSteered' = <<>>
  /\ deliveries' = <<>>
  /\ queues' = [q \in Queue |-> <<>>]
  /\ claims' = [q \in Queue |-> NoClaim]
  /\ taken' = taken \union Pending
  /\ UNCHANGED <<runVars, recorded, order, unrecoverable, late, faults>>

\* abort()
Abort ==
  /\ controller \in Run \ aborted
  /\ Fault
  /\ aborted' = aborted \union {controller}
  /\ UNCHANGED <<heldVars, withdrawn, controller, taking, loop, live, stream,
                 recorded, order, taken, unrecoverable, late, edits>>

HasClaim == \E q \in Queue : claims[q] # NoClaim

\* reset(), once abort() has waited for the run: the run is over, or it hangs
\* in a preparation and is detached.
Reset ==
  /\ Edit
  /\ controller = NoRun \/ (controller \in aborted /\ HasClaim)
  /\ controller' = NoRun
  /\ queues' = [q \in Queue |-> <<>>]
  /\ claims' = [q \in Queue |-> NoClaim]
  /\ deliveries' = <<>>
  /\ liveSteered' = <<>>
  /\ taken' = taken \union Pending
  /\ UNCHANGED <<withdrawn, aborted, taking, loop, live, stream, recorded,
                 order, unrecoverable, late, faults>>

-----------------------------------------------------------------------------
(* A run begins *)

LiveQuiet(r) == taking[<<r, "live">>] = Idle /\ live[r].sent = <<>>

\* A run's new controller; the slot's previous run and its pump are over.
Begin(r, at) ==
  /\ controller = NoRun
  /\ loop[r].at = "unused"
  /\ LiveQuiet(r)
  /\ controller' = r
  /\ aborted' = aborted \ {r}
  /\ withdrawn' = [m \in Msg |-> IF withdrawn[m] = r THEN NoRun ELSE withdrawn[m]]
  /\ loop' = [loop EXCEPT ![r] = [NewLoop EXCEPT !.at = at]]
  /\ live' = [live EXCEPT ![r] = NewLive]
  /\ stream' = [stream EXCEPT ![r] = <<>>]
  /\ UNCHANGED <<heldVars, taking, recorded, histVars>>

\* prompt() of a message that is not queued
Prompt(r) == Begin(r, "start")

\* continue(), which an idle session calls while hasQueuedMessages(): queued
\* input opens the turn after an assistant message, else the loop resumes.
Continue(r) ==
  /\ \E q \in Queue : Peek(q) # <<>>
  /\ \E at \in {"open", "start"} : Begin(r, at)

-----------------------------------------------------------------------------
(* Dequeuing: #dequeue...AfterHooks and #prepareQueuedMessageBatch *)

\* The queue each poll of the loop asks for.
Polled(at) == IF at \in {"openFollow", "follow"} THEN "followUp" ELSE "steering"
PollSites  == {"open", "openFollow", "start", "boundary", "late", "follow"}

\* Where the loop goes with what a poll returned.
AfterPoll(l, b) ==
  LET held == l.held \o b
      turn == [l EXCEPT !.at = "turn", !.held = held]
  IN CASE l.at = "open" ->
            IF b # <<>> THEN [turn EXCEPT !.opening = Len(b)] ELSE [l EXCEPT !.at = "openFollow"]
       [] l.at = "openFollow" ->
            IF b # <<>> THEN [l EXCEPT !.at = "start", !.held = b, !.opening = Len(b)]
            ELSE [l EXCEPT !.at = "ended"]
       [] l.at = "start" -> turn
       [] l.at = "boundary" ->
            IF l.more \/ held # <<>> THEN turn ELSE [l EXCEPT !.at = "late"]
       [] l.at = "late" -> [l EXCEPT !.at = "follow", !.held = held]
       [] l.at = "follow" ->
            IF held # <<>> THEN turn ELSE [l EXCEPT !.at = "ended"]

\* The dequeue of p returns b.
Return(p, b) ==
  /\ taking' = [taking EXCEPT ![p] = Idle]
  /\ IF p[2] = "loop"
     THEN /\ loop' = [loop EXCEPT ![p[1]] = AfterPoll(@, b)]
          /\ UNCHANGED live
     ELSE /\ live' = [live EXCEPT ![p[1]].sent = b]
          /\ UNCHANGED loop
  /\ UNCHANGED stream

\* It throws: the loop ends the run, having emitted only the messages that
\* opened it; claim() of the channel reports that there is nothing to send.
Throw(p) ==
  /\ taking' = [taking EXCEPT ![p] = Idle]
  /\ IF p[2] = "loop"
     THEN LET l == loop[p[1]]
          IN /\ loop' = [loop EXCEPT ![p[1]] = [NewLoop EXCEPT !.at = "ended"]]
             /\ stream' = [stream EXCEPT ![p[1]] = @ \o SubSeq(l.held, 1, l.opening)]
             /\ UNCHANGED live
     ELSE /\ live' = [live EXCEPT ![p[1]].stopped = TRUE]
          /\ UNCHANGED <<loop, stream>>

Steer(r, b) == [i \in DOMAIN b |-> [msg |-> b[i], run |-> r]]

\* A batch leaves the queue for the loop, which will record it, or for the
\* response, whose steering #adoptLiveSteering() keeps apart.
HandOver(p, q, b) ==
  IF p[2] = "loop"
  THEN /\ deliveries' = Append(deliveries, [queue |-> q, run |-> p[1], msgs |-> b])
       /\ UNCHANGED liveSteered
  ELSE /\ liveSteered' = liveSteered \o Steer(p[1], b)
       /\ UNCHANGED deliveries

\* getSteeringMessages() or getFollowUpMessages() is called at a boundary.
Poll(r) ==
  /\ loop[r].at \in PollSites
  /\ taking[<<r, "loop">>] = Idle
  /\ LET q == Polled(loop[r].at)
     IN IF r \in aborted \/ queues[q] = <<>>
        THEN Return(<<r, "loop">>, <<>>)
        ELSE /\ taking' = [taking EXCEPT ![<<r, "loop">>] = [step |-> "hooks", queue |-> q]]
             /\ UNCHANGED <<loop, live, stream>>
  /\ UNCHANGED <<heldVars, withdrawn, controller, aborted, recorded, histVars>>

\* LiveSteeringChannel.claim(), when wait() reports queued steering: not once
\* input is deferred, or the pump has stopped.
LiveClaim(r) ==
  /\ loop[r].at = "respond"
  /\ r \notin aborted
  /\ LiveQuiet(r)
  /\ ~live[r].stopped
  /\ live[r].deferred = <<>>
  /\ queues["steering"] # <<>>
  /\ taking' = [taking EXCEPT ![<<r, "live">>] = [step |-> "hooks", queue |-> "steering"]]
  /\ UNCHANGED <<heldVars, withdrawn, controller, aborted, loop, live, stream,
                 recorded, histVars>>

\* The before-dequeue hooks are done. One message or all of them are taken.
AfterHooks(p) ==
  LET q == taking[p].queue
  IN /\ taking[p].step = "hooks"
     /\ \/ /\ p[1] \in aborted \/ claims[q] # NoClaim \/ queues[q] = <<>>
           /\ Return(p, <<>>)
           /\ UNCHANGED <<heldVars, faults>>
        \/ /\ p[1] \notin aborted
           /\ claims[q] = NoClaim
           /\ \E n \in {1, Len(queues[q])} \cap DOMAIN queues[q] :
                /\ queues' = [queues EXCEPT ![q] = SubSeq(@, n + 1, Len(@))]
                /\ LET b == SubSeq(queues[q], 1, n)
                   IN \/ /\ claims' = [claims EXCEPT ![q] = [by |-> p, msgs |-> b]]
                         /\ taking' = [taking EXCEPT ![p].step = "prepare"]
                         /\ UNCHANGED <<deliveries, liveSteered, loop, live, stream>>
                      \/ /\ HandOver(p, q, b)   \* prepareQueuedMessages is not set
                         /\ Return(p, b)
                         /\ UNCHANGED claims
           /\ UNCHANGED faults
        \/ /\ Fault        \* a hook rejects
           /\ Throw(p)
           /\ UNCHANGED heldVars
     /\ UNCHANGED <<withdrawn, controller, aborted, recorded, order, taken,
                    unrecoverable, late, edits>>

\* `finally`: a claim that is still ours is restored.
\* Mutated form: it is only restored by the next queue edit.
RestoreNothing(p, q) == UNCHANGED <<queues, claims>>
RestoreClaim(p, q) ==
  IF claims[q].by = p
  THEN /\ queues' = [queues EXCEPT ![q] = Restored(q)]
       /\ claims' = [claims EXCEPT ![q] = NoClaim]
  ELSE UNCHANGED <<queues, claims>>

\* The preparation has settled.
AfterPrepare(p) ==
  LET q    == taking[p].queue
      ours == claims[q].by = p
  IN /\ taking[p].step = "prepare"
     /\ \/ /\ p[1] \in aborted
           /\ RestoreClaim(p, q)
           /\ Throw(p)
           /\ UNCHANGED <<deliveries, liveSteered, aborted, faults>>
        \/ /\ p[1] \notin aborted /\ ~ours
           /\ Return(p, <<>>)
           /\ UNCHANGED <<heldVars, aborted, faults>>
        \/ /\ p[1] \notin aborted /\ ours
           /\ claims' = [claims EXCEPT ![q] = NoClaim]
           /\ HandOver(p, q, claims[q].msgs)
           /\ Return(p, claims[q].msgs)
           /\ UNCHANGED <<queues, aborted, faults>>
        \/ /\ p[1] \notin aborted /\ ours
           \* it rejects; a response that ends stops its pump the same way
           /\ IF p[2] = "live" THEN UNCHANGED faults ELSE Fault
           /\ RestoreClaim(p, q)
           /\ Throw(p)
           /\ UNCHANGED <<deliveries, liveSteered, aborted>>
        \/ /\ p[1] \notin aborted /\ ours
           \* commit() is undefined: the run is aborted before it can reclaim
           /\ Fault
           /\ aborted' = aborted \union {p[1]}
           /\ RestoreClaim(p, q)
           /\ Throw(p)
           /\ UNCHANGED <<deliveries, liveSteered>>
     /\ UNCHANGED <<withdrawn, controller, recorded, order, taken, unrecoverable, late, edits>>

\* accept() and reject() of the claim; what cannot be sent at all is deferred.
LiveAck(r) ==
  /\ live[r].sent # <<>>
  /\ \/ live' = [live EXCEPT ![r].sent = <<>>, ![r].accepted = @ \o live[r].sent]
     \/ live' = [live EXCEPT ![r].sent = <<>>, ![r].deferred = @ \o live[r].sent]
  /\ UNCHANGED <<heldVars, withdrawn, controller, aborted, taking, loop, stream,
                 recorded, histVars>>

-----------------------------------------------------------------------------
(* The loop of a run *)

\* The top of the inner loop: the pending messages join the context and their
\* events are pushed, whether the call is then made or prevented.
Turn(r) ==
  /\ loop[r].at = "turn"
  /\ stream' = [stream EXCEPT ![r] = @ \o loop[r].held]
  /\ \/ /\ loop' = [loop EXCEPT ![r] = [NewLoop EXCEPT !.at = "respond"]]
        /\ UNCHANGED faults
     \/ /\ Fault
        /\ loop' = [loop EXCEPT ![r] = [NewLoop EXCEPT !.at = "ended"]]
  /\ UNCHANGED <<heldVars, withdrawn, controller, aborted, taking, live, recorded,
                 order, taken, unrecoverable, late, edits>>

\* The deadline has passed: the run ends, and of what it holds it emits only
\* the messages that opened it.
TurnDeadline(r) ==
  /\ loop[r].at = "turn"
  /\ Fault
  /\ stream' = [stream EXCEPT ![r] = @ \o SubSeq(loop[r].held, 1, loop[r].opening)]
  /\ loop' = [loop EXCEPT ![r] = [NewLoop EXCEPT !.at = "ended"]]
  /\ UNCHANGED <<heldVars, withdrawn, controller, aborted, taking, live, recorded,
                 order, taken, unrecoverable, late, edits>>

\* The response is aborted or fails, once its pump is quiet unless the abort
\* won the race; the loop drops the live steering it did not record.
RespondFails(r) ==
  /\ loop[r].at = "respond"
  /\ \/ r \in aborted /\ UNCHANGED faults
     \/ r \notin aborted /\ LiveQuiet(r) /\ Fault
  /\ loop' = [loop EXCEPT ![r] = [NewLoop EXCEPT !.at = "ended"]]
  /\ UNCHANGED <<heldVars, withdrawn, controller, aborted, taking, live, stream,
                 recorded, order, taken, unrecoverable, late, edits>>

\* The response and its tool batch are over, the pump has finished. Accepted
\* live steering is the next turn; otherwise what was deferred goes first.
\* Mutated form: deferred steering is left to the end of the run.
BoundaryWithoutDeferred(r, more) ==
  /\ loop[r].at = "respond"
  /\ r \notin aborted
  /\ LiveQuiet(r)
  /\ loop' = [loop EXCEPT ![r] =
       [NewLoop EXCEPT !.at = IF live[r].accepted # <<>> THEN "turn" ELSE "boundary",
                       !.held = live[r].accepted, !.more = more]]
  /\ live' = [live EXCEPT ![r] = NewLive]
  /\ UNCHANGED <<heldVars, withdrawn, controller, aborted, taking, stream,
                 recorded, histVars>>
Boundary(r, more) ==
  /\ loop[r].at = "respond"
  /\ r \notin aborted
  /\ LiveQuiet(r)
  /\ loop' = [loop EXCEPT ![r] =
       [NewLoop EXCEPT !.at = IF live[r].accepted # <<>> THEN "turn" ELSE "boundary",
                       !.held = live[r].accepted \o live[r].deferred, !.more = more]]
  /\ live' = [live EXCEPT ![r] = NewLive]
  /\ UNCHANGED <<heldVars, withdrawn, controller, aborted, taking, stream,
                 recorded, histVars>>

-----------------------------------------------------------------------------
(* The consumer of a run's events *)

\* What appendMessage(m) leaves of the batch that m is next in (by DeliveredOnce there is one
\* at most: the code stops at the first), and of the live steering.
Popped(ds, m) ==
  [i \in DOMAIN ds |->
     IF Head(ds[i].msgs) = m THEN [ds[i] EXCEPT !.msgs = Tail(@)] ELSE ds[i]]
SteeredBut(m) == Without(liveSteered, {e \in ToSet(liveSteered) : e.msg = m})

\* appendMessage(m): the transcript has it, so it is no longer pending.
\* Mutated form: the record of a batch stays when its last message is recorded.
AppendKeepsRecord(m) ==
  /\ recorded' = [recorded EXCEPT ![m] = @ + 1]
  /\ liveSteered' = SteeredBut(m)
  /\ deliveries' = [i \in DOMAIN deliveries |->
       IF deliveries[i].msgs # <<>> /\ Head(deliveries[i].msgs) = m
       THEN [deliveries[i] EXCEPT !.msgs = Tail(@)] ELSE deliveries[i]]
AppendMessage(m) ==
  /\ recorded' = [recorded EXCEPT ![m] = @ + 1]
  /\ liveSteered' = SteeredBut(m)
  /\ IF \E e \in ToSet(liveSteered) : e.msg = m
     THEN UNCHANGED deliveries
     ELSE deliveries' = Without(Popped(deliveries, m),
                              {d \in ToSet(Popped(deliveries, m)) : d.msgs = <<>>})

\* One message event. A detached consumer stops; a withdrawn message is skipped.
Consume(r) ==
  /\ stream[r] # <<>>
  /\ stream' = [stream EXCEPT ![r] = IF controller = r THEN Tail(@) ELSE <<>>]
  /\ IF controller # r \/ withdrawn[Head(stream[r])] = r
     THEN UNCHANGED <<recorded, liveSteered, deliveries>>
     ELSE AppendMessage(Head(stream[r]))
  /\ UNCHANGED <<queues, claims, withdrawn, controller, aborted, taking, loop, live, histVars>>

\* What #restoreUndeliveredQueuedMessages(r) puts in front of each queue.
\* Mutated form: live steering is not given back.
UndeliveredDequeued(q, r) == MessagesIn(DequeuedBy(r, q))
Undelivered(q, r) ==
  (IF q = "steering" THEN SteeredIn(SteeredBy(r)) ELSE <<>>) \o MessagesIn(DequeuedBy(r, q))

\* The `finally` of #runLoop and of continue().
Finish(r) ==
  /\ loop[r].at = "ended"
  /\ stream[r] = <<>>
  /\ queues' = [q \in Queue |-> Undelivered(q, r) \o queues[q]]
  /\ liveSteered' = Without(liveSteered, {e \in ToSet(liveSteered) : e.run = r})
  /\ deliveries' = Without(deliveries, {d \in ToSet(deliveries) : d.run = r})
  /\ controller' = IF controller = r THEN NoRun ELSE controller
  /\ loop' = [loop EXCEPT ![r] = NewLoop]
  /\ late' = late \union
       UNION {ToSet(claims[q].msgs) : q \in {x \in Queue : claims[x].by = <<r, "live">>}}
  /\ UNCHANGED <<claims, withdrawn, aborted, taking, live, stream, recorded,
                 order, taken, unrecoverable, faults, edits>>

-----------------------------------------------------------------------------
UserStep ==
  \/ \E q \in Queue : Post(q) \/ \E i \in Msg : TakeQueuedMessage(q, i)
  \/ PopLastQueuedMessage
  \/ \E i \in Msg : PromoteQueuedMessage(i)
  \/ ClearQueue
  \/ ClearQueueForInterrupt
  \/ Abort
  \/ Reset
  \/ \E r \in Run : Prompt(r)

RunStep(r) ==
  \/ Poll(r) \/ AfterHooks(<<r, "loop">>) \/ AfterPrepare(<<r, "loop">>)
  \/ Turn(r) \/ RespondFails(r)

LiveStep(r) ==
  AfterHooks(<<r, "live">>) \/ AfterPrepare(<<r, "live">>) \/ LiveAck(r)

Next ==
  \/ UserStep
  \/ \E r \in Run :
       \/ Continue(r) \/ RunStep(r) \/ TurnDeadline(r) \/ Boundary(r, TRUE) \/ Boundary(r, FALSE)
       \/ LiveClaim(r) \/ LiveStep(r)
       \/ Consume(r) \/ Finish(r)

Spec == Init /\ [][Next]_vars

\* Hooks, preparations and responses settle, the consumer reads on, the idle
\* drain continues while messages are queued, and a model that is asked again
\* and again stops calling tools in the end.
Fairness ==
  /\ WF_vars(\E r \in Run : Continue(r))
  /\ \A r \in Run :
       /\ WF_vars(RunStep(r)) /\ WF_vars(LiveStep(r))
       /\ WF_vars(Consume(r)) /\ WF_vars(Finish(r))
       /\ SF_vars(Boundary(r, FALSE))

FairSpec == Spec /\ Fairness

-----------------------------------------------------------------------------
(* Properties *)

Delivery == [queue : Queue, run : Run, msgs : Seq(Msg) \ {<<>>}]
Steering == [msg : Msg, run : Run]
Claim    == [by : Proc \union {NoClaim.by}, msgs : Seq(Msg)]
Taking   == [step : {"none", "hooks", "prepare"}, queue : Queue]
LoopAt   == PollSites \union {"unused", "turn", "respond", "ended"}
Loop     == [at : LoopAt, held : Seq(Msg), opening : Nat, more : BOOLEAN]
Live     == [sent : Seq(Msg), accepted : Seq(Msg), deferred : Seq(Msg), stopped : BOOLEAN]

TypeOK ==
  /\ queues \in [Queue -> Seq(Msg)] /\ order \in [Queue -> Seq(Msg)]
  /\ claims \in [Queue -> Claim]
  /\ deliveries \in Seq(Delivery) /\ liveSteered \in Seq(Steering)
  /\ controller \in Run \union {NoRun} /\ withdrawn \in [Msg -> Run \union {NoRun}]
  /\ aborted \subseteq Run
  /\ taking \in [Proc -> Taking] /\ loop \in [Run -> Loop] /\ live \in [Run -> Live]
  /\ stream \in [Run -> Seq(Msg)]
  /\ recorded \in [Msg -> Nat]
  /\ taken \subseteq Msg /\ unrecoverable \subseteq Msg /\ late \subseteq Msg
  /\ faults \in 0..MaxFaults /\ edits \in 0..MaxEdits

\* How often m is in s
Times(s, m) == Cardinality({i \in DOMAIN s : s[i] = m})

\* How often m is queued or claimed; dequeued and not recorded yet; either of these or
\* recorded or taken
Queued(m)   == Times(Peek("steering"), m) + Times(Peek("followUp"), m)
Dequeued(m) == Times(MessagesIn(deliveries), m) + Times(SteeredIn(liveSteered), m)
Copies(m)   == Queued(m) + Dequeued(m) + recorded[m] + (IF m \in taken THEN 1 ELSE 0)

\* Nothing is delivered twice: whatever order claims, edits, aborts and
\* restorations come in, a message is in one place only, is recorded at most
\* once and then no longer queued, and what the user took back is never
\* recorded by the run that had already dequeued it.
DeliveredOnce == \A m \in Msg : Copies(m) <= 1

\* Nothing is lost: an abort, a failed preparation or a run that ends early
\* returns every message it dequeued, unless a queue edit dropped the delivery
\* record of the batch meanwhile.
NoMessageLost == \A m \in Posted \ unrecoverable : Copies(m) >= 1

\* "Dequeued originals remain recoverable until their transcript events
\* arrive" (agent.ts): a message is still pending, recorded, taken back, or
\* held by the run that is going to record it.
RecoverableUntilRecorded ==
  \A m \in Posted : \/ Copies(m) >= 1
                    \/ \E r \in Run : m \in ToSet(loop[r].held) \union ToSet(stream[r])

\* "Live steering was taken before anything the run still holds undelivered"
\* (agent.ts), and later input "must follow it" (live-steering.ts): messages of
\* one queue reach the transcript in the order they came.
RecordedInOrder ==
  \A q \in Queue : \A i, j \in DOMAIN order[q] :
    i < j /\ recorded[order[q][j]] > 0 => order[q][i] \notin Pending

\* They do whatever claims, restorations, edits and live steering come in
\* between, but for a batch that a pump was still preparing when the run that
\* started it was over: that one is put back in front of older messages.
ArrivalOrder ==
  \A q \in Queue : \A i, j \in DOMAIN order[q] :
    i < j /\ recorded[order[q][j]] > 0 /\ order[q][j] \notin late
      => order[q][i] \notin Pending

\* A queued message does not wait for ever: it is recorded or taken back.
QueuedIsSettled == \A m \in Msg : m \in Pending ~> m \notin Pending
=============================================================================
