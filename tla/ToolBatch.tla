------------------------------ MODULE ToolBatch ------------------------------
(***************************************************************************)
(* executeToolCalls (packages/agent/src/agent-loop.ts): the tool calls of  *)
(* one assistant message, run shared or exclusive, with the three things   *)
(* that interrupt them: queued steering and asides, which cut pure waits   *)
(* and raise a cooperative signal for the rest, the abort of the run, and  *)
(* the process-wide pause gate (pause.ts).                                 *)
(*                                                                         *)
(* A call's task goes queued, (parked, woken at the gate,) running,        *)
(* settled (its execute() is over, its afterToolCall hook is pending),     *)
(* probing (its last checkSteering()), done.  The prepare phase, the       *)
(* speculation that may stand in for execute(), the results' content and   *)
(* the hooks' context are left out.                                        *)
(***************************************************************************)
EXTENDS Integers, Sequences, FiniteSets, SequencesExt

CONSTANTS
  NumCalls,   \* how many tool calls the message holds
  Batch,      \* which calls may be exclusive and which interruptible
  MaxPauses,  \* bound on how often the user pauses
  MaxPosts    \* bound on the asides and steering messages that arrive

ASSUME CallsAssumption == NumCalls \in Nat
ASSUME BoundAssumption == MaxPauses \in Nat /\ MaxPosts \in Nat

Call == 1..NumCalls

ASSUME BatchAssumption == Batch \subseteq [exclusive : SUBSET Call, waits : SUBSET Call]

VARIABLES
  exclusive,      \* the calls whose tool runs alone
  waits,          \* the calls that are interruptible: pure waits
  softInterrupts, \* interruptMode is not "wait"
  task,           \* where the task of each call is
  settled,        \* how its execute() ended: "none", "returned", "threw"
  result,         \* its toolResultMessage
  emitted,        \* emittedToolResults
  aborted,        \* the run's signal
  cut,            \* steeringAbortController: the waits are cut for steering
  ircCut,         \* ircAbortController: the waits are cut for an aside
  triggered,      \* interruptState.triggered
  soft,           \* steeringSoftController
  steering,       \* a steering message is queued
  irc, completion, \* an urgent peer message / another aside or a finished job is
  watch,          \* the event-driven watch: "subscribe", "listen", "woken", "over"
  paused,         \* agentPauseGate
  ended,          \* executeToolCalls has returned
  pauses, posts

batchVars  == <<task, settled, result, emitted, ended>>
signalVars == <<cut, ircCut, triggered, soft>>
inputVars  == <<steering, irc, completion, posts>>
gateVars   == <<paused, pauses>>
kindVars   == <<exclusive, waits, softInterrupts>>
vars == <<kindVars, batchVars, signalVars, inputVars, gateVars, aborted, watch>>

\* The batch is watched when there is something to cut or to signal.
Watched == softInterrupts \/ waits # {}

Init ==
  /\ \E b \in Batch : exclusive = b.exclusive /\ waits = b.waits
  /\ softInterrupts \in BOOLEAN
  /\ task = [i \in Call |-> "queued"]
  /\ settled = [i \in Call |-> "none"]
  /\ result = [i \in Call |-> "none"]
  /\ emitted = <<>>
  /\ aborted = FALSE
  /\ cut = FALSE /\ ircCut = FALSE /\ triggered = FALSE /\ soft = FALSE
  /\ steering \in BOOLEAN /\ irc = FALSE /\ completion = FALSE
  /\ watch = IF Watched THEN "subscribe" ELSE "over"
  /\ paused = FALSE
  /\ ended = FALSE
  /\ pauses = 0 /\ posts = 0

-----------------------------------------------------------------------------
(* Detection *)

\* checkAsideInterrupts(): the first aside cuts the waits; only an urgent one
\* raises the cooperative signal, also after a completion has cut the waits.
CheckAsides ==
  LET open   == ~aborted /\ (~triggered \/ (softInterrupts /\ ~soft))
      urgent == open /\ irc
      seen   == urgent \/ (open /\ ~triggered /\ completion)
  IN /\ triggered' = (triggered \/ seen)
     /\ ircCut' = (ircCut \/ (seen /\ ~triggered))
     /\ soft' = (soft \/ (urgent /\ softInterrupts))
     /\ UNCHANGED cut

\* checkSteering(): queued steering comes first and hides the asides.
CheckSteering ==
  IF ~aborted /\ steering
  THEN /\ cut' = TRUE
       /\ triggered' = TRUE
       /\ soft' = (soft \/ (softInterrupts /\ ~cut))
       /\ UNCHANGED ircCut
  ELSE CheckAsides

\* record.signal.aborted
\* Mutated form: steering does not reach the waits.
SignalledByAsides(i) == aborted \/ (i \in waits /\ ircCut)
Signalled(i) == aborted \/ (i \in waits /\ (cut \/ ircCut))

-----------------------------------------------------------------------------
(* Results *)

\* flushResultMessages(): results leave in the order of the calls, up to the
\* first call that has none yet.
\* Mutated form: a result leaves as soon as it is there.
FlushAtOnce(res) ==
  emitted \o SetToSeq({i \in Call : res[i] # "none" /\ i \notin ToSet(emitted)})
Flush(res) ==
  LET ready == {k \in 0..NumCalls : \A i \in 1..k : res[i] # "none"}
  IN [i \in 1..(CHOOSE k \in ready : \A j \in ready : j <= k) |-> i]

\* emitToolResult()
EmitToolResult(i, r) ==
  /\ result' = [result EXCEPT ![i] = r]
  /\ emitted' = Flush(result')

-----------------------------------------------------------------------------
(* The tasks *)

\* `start`: an exclusive call waits for every call before it, a shared one for
\* the exclusive calls before it.
\* Mutated form: an exclusive call waits for the exclusive ones only.
StartAfterExclusive(i) == \A j \in 1..(i - 1) : j \in exclusive => task[j] = "done"
Start(i) ==
  \A j \in 1..(i - 1) : i \in exclusive \/ j \in exclusive => task[j] = "done"

\* What the checks after the gate lead to: an invalid call reports its error,
\* an aborted one never runs, the others start.
PastGate(i) ==
  \/ /\ task' = [task EXCEPT ![i] = "done"]
     /\ EmitToolResult(i, "error")
  \/ /\ Signalled(i)
     /\ task' = [task EXCEPT ![i] = "done"]
     /\ EmitToolResult(i, "aborted")
  \/ /\ ~Signalled(i)
     /\ task' = [task EXCEPT ![i] = "running"]
     /\ UNCHANGED <<result, emitted>>

\* A pending interrupt preempts the waits that have not started.
\* Mutated form: it preempts every call.
PreemptsAny(i) == triggered
Preempted(i) == triggered /\ i \in waits

\* runTool() up to execute(), or to the gate.
RunTool(i) ==
  /\ task[i] = "queued"
  /\ Start(i)
  /\ \/ /\ Preempted(i)
        /\ task' = [task EXCEPT ![i] = "done"]
        /\ UNCHANGED <<result, emitted>>
     \/ /\ ~Preempted(i) /\ paused /\ ~Signalled(i)
        /\ task' = [task EXCEPT ![i] = "parked"]
        /\ UNCHANGED <<result, emitted>>
     \/ /\ ~Preempted(i) /\ (~paused \/ Signalled(i))
        /\ PastGate(i)
  /\ UNCHANGED <<kindVars, settled, ended, signalVars, inputVars, gateVars, aborted, watch>>

\* waitUntilResumed() looks at the gate again when a resume or the abort of
\* the call's signal wakes it.
\* Mutated form: it waits once.
PassesOnce(i) == TRUE
Passes(i) == ~paused \/ Signalled(i)

\* Mutated form: only a resume wakes it.
RousedByResume(i) == task[i] = "woken"
Roused(i) == task[i] = "woken" \/ (task[i] = "parked" /\ Signalled(i))

LeaveGate(i) ==
  /\ Roused(i)
  /\ \/ Passes(i) /\ PastGate(i)
     \/ /\ ~Passes(i)
        /\ task' = [task EXCEPT ![i] = "parked"]
        /\ UNCHANGED <<result, emitted>>
  /\ UNCHANGED <<kindVars, settled, ended, signalVars, inputVars, gateVars, aborted, watch>>

\* execute() returns a result, an error result included, or throws. (A call
\* that is blocked or has no tool throws at once.)
Settle(i, how) ==
  /\ task[i] = "running"
  /\ task' = [task EXCEPT ![i] = "settled"]
  /\ settled' = [settled EXCEPT ![i] = how]
  /\ UNCHANGED <<kindVars, result, emitted, ended, signalVars, inputVars, gateVars, aborted, watch>>

\* A wait that an interrupt ended reports that it was skipped; what a tool
\* finished before the interrupt landed is reported as it is.
\* Mutated form: the interrupt wins over the outcome.
FinalResultInterrupted(i) ==
  IF i \in waits /\ triggered /\ Signalled(i) THEN "skipped"
  ELSE IF settled[i] = "returned" THEN "outcome" ELSE "error"
FinalResult(i) ==
  IF i \in waits /\ triggered /\ Signalled(i) /\ settled[i] = "threw" THEN "skipped"
  ELSE IF settled[i] = "returned" THEN "outcome" ELSE "error"

\* The afterToolCall hook is done: the result is emitted.
Report(i) ==
  /\ task[i] = "settled"
  /\ EmitToolResult(i, FinalResult(i))
  /\ task' = [task EXCEPT ![i] = "probing"]
  /\ UNCHANGED <<kindVars, settled, ended, signalVars, inputVars, gateVars, aborted, watch>>

\* The last checkSteering() of a task, on which the calls after it wait.
Probe(i) ==
  /\ task[i] = "probing"
  /\ CheckSteering
  /\ task' = [task EXCEPT ![i] = "done"]
  /\ UNCHANGED <<kindVars, settled, result, emitted, ended, inputVars, gateVars, aborted, watch>>

\* All tasks are over: the watch is released and the calls that left no result
\* get one.
EndBatch ==
  /\ ~ended
  /\ \A i \in Call : task[i] = "done"
  /\ result' = [i \in Call |-> IF result[i] = "none" THEN "skipped" ELSE result[i]]
  /\ emitted' = Flush(result')
  /\ watch' = "over"
  /\ ended' = TRUE
  /\ UNCHANGED <<kindVars, task, settled, signalVars, inputVars, gateVars, aborted>>

-----------------------------------------------------------------------------
(* The watch *)

\* One round: subscribe to the queue, then look at it; stop when nothing is
\* left to escalate. The subscription settles at once if steering is queued.
\* Mutated form: the watch stops at the first interrupt.
EscalatedOnce == triggered'
Escalated == soft' \/ (~softInterrupts /\ triggered')

Watch ==
  /\ watch = "subscribe"
  /\ CheckSteering
  /\ watch' = IF Escalated \/ aborted THEN "over" ELSE IF steering THEN "woken" ELSE "listen"
  /\ UNCHANGED <<kindVars, batchVars, inputVars, gateVars, aborted>>

\* The subscription has settled.
WatchAgain ==
  /\ watch = "woken"
  /\ watch' = "subscribe"
  /\ UNCHANGED <<kindVars, batchVars, signalVars, inputVars, gateVars, aborted>>

\* The timer looks at the asides, which have no event.
Tick ==
  /\ Watched /\ ~ended
  /\ CheckAsides
  /\ UNCHANGED <<kindVars, batchVars, inputVars, gateVars, aborted, watch>>

-----------------------------------------------------------------------------
(* The rest of the process *)

\* A steering message is queued: #notifySteeringWaiters().
Steer ==
  /\ ~ended /\ ~steering
  /\ posts < MaxPosts /\ posts' = posts + 1
  /\ steering' = TRUE
  /\ watch' = IF watch = "listen" THEN "woken" ELSE watch
  /\ UNCHANGED <<kindVars, batchVars, signalVars, irc, completion, gateVars, aborted>>

\* The user takes it back: the queue edit notifies too.
Unsteer ==
  /\ ~ended /\ steering
  /\ steering' = FALSE
  /\ watch' = IF watch = "listen" THEN "woken" ELSE watch
  /\ UNCHANGED <<kindVars, batchVars, signalVars, irc, completion, posts, gateVars, aborted>>

\* An aside arrives: an urgent peer message, or any other.
Aside(urgent) ==
  /\ ~ended
  /\ posts < MaxPosts /\ posts' = posts + 1
  /\ irc' = (irc \/ urgent)
  /\ completion' = (completion \/ ~urgent)
  /\ UNCHANGED <<kindVars, batchVars, signalVars, steering, gateVars, aborted, watch>>

\* The run is aborted, which releases the watch as well.
Abort ==
  /\ ~ended /\ ~aborted
  /\ aborted' = TRUE
  /\ watch' = "over"
  /\ UNCHANGED <<kindVars, batchVars, signalVars, inputVars, gateVars>>

Pause ==
  /\ ~ended /\ ~paused
  /\ pauses < MaxPauses /\ pauses' = pauses + 1
  /\ paused' = TRUE
  /\ UNCHANGED <<kindVars, batchVars, signalVars, inputVars, aborted, watch>>

\* resume() wakes the parked calls, which have yet to look at the gate.
Resume ==
  /\ ~ended /\ paused
  /\ paused' = FALSE
  /\ task' = [i \in Call |-> IF task[i] = "parked" THEN "woken" ELSE task[i]]
  /\ UNCHANGED <<kindVars, settled, result, emitted, ended, signalVars, inputVars, pauses, aborted, watch>>

-----------------------------------------------------------------------------
TaskStep(i) == RunTool(i) \/ LeaveGate(i) \/ Report(i) \/ Probe(i)

Environment ==
  Steer \/ Unsteer \/ (\E urgent \in BOOLEAN : Aside(urgent)) \/ Abort \/ Pause \/ Resume

Next ==
  \/ \E i \in Call : TaskStep(i) \/ \E how \in {"returned", "threw"} : Settle(i, how)
  \/ EndBatch
  \/ Watch \/ WatchAgain \/ Tick
  \/ Environment

Spec == Init /\ [][Next]_vars

\* Tasks, hooks, the watch and the timer go on. A tool that does work ends, and
\* so does a wait whose signal is aborted; a wait that nothing cuts need not.
Fairness ==
  /\ \A i \in Call :
       /\ WF_vars(TaskStep(i))
       /\ WF_vars(/\ i \notin waits \/ Signalled(i)
                  /\ \E how \in {"returned", "threw"} : Settle(i, how))
  /\ WF_vars(EndBatch)
  /\ WF_vars(Watch) /\ WF_vars(WatchAgain) /\ WF_vars(Tick)

FairSpec == Spec /\ Fairness

-----------------------------------------------------------------------------
(* Properties *)

Running == {i \in Call : task[i] \in {"running", "settled"}}

TypeOK ==
  /\ exclusive \subseteq Call /\ waits \subseteq Call
  /\ task \in [Call -> {"queued", "parked", "woken", "running", "settled", "probing", "done"}]
  /\ settled \in [Call -> {"none", "returned", "threw"}]
  /\ result \in [Call -> {"none", "error", "aborted", "skipped", "outcome"}]
  /\ emitted \in Seq(Call)
  /\ watch \in {"subscribe", "listen", "woken", "over"}
  /\ {aborted, cut, ircCut, triggered, soft, steering, irc, completion, paused, ended,
      softInterrupts} \subseteq BOOLEAN
  /\ soft => softInterrupts

\* An exclusive call runs alone: while it executes, or its hook does, no other
\* call of the batch does, however calls are skipped, parked or aborted.
ExclusiveRunsAlone == \A i, j \in Running : i \in exclusive => i = j

\* The calls are answered in their order, and when the batch is over every one
\* is, once: a provider refuses a call without its result.
AnsweredInOrder ==
  /\ \A k \in DOMAIN emitted : emitted[k] = k
  /\ ended => Len(emitted) = NumCalls

\* Only a wait is ever given up for an interrupt: work that was generated runs
\* (#10439, #7493, #10645) unless the run itself is aborted, and no batch ends
\* with a call that neither ran nor was refused.
OnlyWaitsYield ==
  \A i \in Call : result[i] \in {"skipped", "aborted"} => i \in waits \/ aborted

\* What a tool has finished is reported as it is, even when its signal was
\* aborted before the result went out (#4752): no skipped or aborted result
\* hides an execution that returned.
FinishedWorkIsReported ==
  \A i \in Call : settled[i] = "returned" => result[i] \in {"none", "outcome"}

\* No call starts while the gate is engaged, even when it is engaged again
\* before a call that a resume has woken goes on.
NoStartWhilePaused ==
  [][\A i \in Call : task[i] # "running" /\ task'[i] = "running" => ~paused]_vars

\* Queued steering reaches the tools: the cooperative signal is raised, though
\* a finished job may have cut the waits before, unless it is taken back, the
\* batch ends or the run is aborted. Without soft interrupts the waits are cut.
SteeringReachesTools ==
  steering ~> \/ ended \/ aborted \/ ~steering
              \/ soft \/ (~softInterrupts /\ (triggered \/ waits = {}))

\* An aborted run leaves its batch, parked or not.
AbortEndsBatch == aborted ~> ended

\* Steering that stays queued brings the batch to its end, whatever it waits
\* for, unless the user keeps it paused.
SteeringEndsBatch == steering ~> (ended \/ ~steering \/ paused)
=============================================================================
