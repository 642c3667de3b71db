# TLA+ models of the oh-wiblo-pi agent runtime

oh-wiblo-pi is a terminal coding agent: a TypeScript monorepo (`packages/`) with
Rust crates for native work (`crates/`). One process hosts a tree of agents. Each
agent runs an LLM loop, spawns sub-agents, runs background jobs and answers peer
messages; all of it shares one event loop, so between two `await`s code runs alone,
and at each `await` anything else may run. This directory models the parts where
that matters, checks them with TLC and proves what matters most with TLAPS.

- `PROJECT.json` lists components, runs, mutants, the map from every definition to
  its source lines, findings, hazards and theorems.
- `tlc -config X.cfg M.tla` runs a check, `tlapm M.tla` checks the proofs of `M`.

## 1. Inventory

Paths are below `packages/coding-agent/src/` unless they start with `packages/`.

| component | state | operations | what is hard | what makes it correct |
|---|---|---|---|---|
| **Semaphore** `task/parallel.ts` | `#max`, `#current`, FIFO `#queue` | acquire (abortable), release, resize | aborts out of the middle of the queue; a ceiling lowered below use | the count is the holders; the queue is the waiters; nobody waits beside a free slot; FIFO |
| **Provider concurrency** `task/provider-concurrency.ts` | one semaphore per provider and its limit | wrap a stream function: resize, acquire, request, release | parents wait for children that need the same slots; every failure path must release once | one slot per live request; a spawn tree never deadlocks on the limit |
| **Agent lifecycle** `registry/agent-lifecycle.ts`, `agent-registry.ts`, `agent-tombstone.ts` | registered ref, its status and session; adoption with idle timer; park, revival and reopen in flight; kill marker on disk | adopt, park, ensureLive, release, reopen, reclaim; register, attach, detach, setStatus | all operations race for one id across many awaits; stale work outlives its generation; I/O faults | dying sessions are not handed out; no live session is lost; dead generations stay dead; calls settle |
| **Async job manager** `async/job-manager.ts` | job rows, delivery queue, deliveries in flight, suppressed / watched / consumed sets, eviction timers, sinks | register, settle, cancel, background, release, watch, unwatch, acknowledge, consume, evict, register sink, deliver, retry | delivery, retention timers, foreground waits and snapshots race; ids are reused | no result lost, none delivered twice or to another owner's sink; artifacts outlive their delivery |
| **Yield queue and async delivery** `session/yield-queue.ts`, `session/async-job-delivery.ts` | entries with receipts, idle-flush latch, delivery epoch | enqueue, flush, drain, clear | a receipt settles once; stale entries are rejected | every receipt settles exactly once |
| **Agent awaits** `registry/agent-awaits.ts` | who awaits whom | await, resolve, interruptible | cycles through AND/OR waits | a message interrupts a wait exactly when it would deadlock |
| **Agent loop tool batch** `packages/agent/src/agent-loop.ts`, `pause.ts` | the calls of one message, their tasks and results, the interrupt record, the pause gate | start, skip, park, execute, report, watch, sweep; pause, resume | interrupts and pauses between start and settlement | one result per call, in call order; exclusive calls alone; only waits give way; steering gets through |
| **Agent queues** `packages/agent/src/agent.ts`, `live-steering.ts` | steering and follow-up queues, claims, delivery records, live-steered entries, withdrawal marks | steer, followUp, edit, claim, prepare, commit, restore, record, withdraw, reset | a run fails after it dequeued; edits and aborts between every await; a provider dequeues too | messages are neither lost, doubled nor reordered, and none waits for ever |
| **Tool choice queue** `session/tool-choice-queue.ts` | forced choices, one in flight | push, next, resolve, reject, requeue | abort between hand-out and resolution | each choice is resolved or rejected once |
| **File lock, reset fence** `packages/utils/src/file-lock.ts`, `session/reset-fence.ts`, `session/agent-session.ts` | the OS lock; the marker in the locked file; each process's coordinator | plan, acquire, check, mark, redeem, record, adopt | other processes; a crash or timeout while a request is under way | one request at a time; none on a stale balance; one recovery per reset |
| **Session persistence** `session/session-manager.ts`, `session-storage.ts` | entries in memory, the file and the size it should have, disk epoch, queue and fence, staged batch, lease | append, rewrite, atomic batch and its repair, flush, seal, claim, move, recover from a conflict | appends and synchronous rewrites while a body is staged; writes that fail or land although they failed; other writers | what counts as written is on disk; batches land whole; others' lines survive; nothing after the seal |
| **Work pool, speculative launch, isolation** `task/` | items and claims; launches; owned worktrees | claim, yield, adopt, discard | late results of discarded launches | each item done once |
| **Auth pool and refresh** `packages/ai/src/auth*` | credentials, blocks, affinity, refreshes in flight | pick, block, refresh, rotate | concurrent refreshes of one single-use token | one refresh at a time; a blocked credential is not picked |
| **Collab, MCP, LSP, launch broker, subprocess workers, blob broker** | connections, requests in flight, retries | connect, call, reconnect, dispose | late answers, reconnects | each request settles once |
| **Compaction, TUI, catalog, utils, wire, Rust crates, SDKs, infra** | mostly none, or text and layout | - | - | out of scope, see section 8 |

How they interact. The executor spawns an agent: it registers a ref, builds a
session (`createAgentSession`), runs it and, at the end, hands it to the lifecycle
manager (`adopt`). The agent's loop streams through the provider limiter. Its
background tools are jobs of the job manager, whose deliveries go through the
session's yield queue back into the loop. Peers reach an idle or parked agent
through `ensureLive`. The registry tells the lifecycle manager of every status
change synchronously (callbacks inside `setStatus`, `attachSession`, `unregister`).

`PROJECT.json` "hazards" lists, line by line, what in this code a test would hardly
reach, with the properties that watch it, or why none does yet.

## 2. Plan

Modules, in the order in which they matter:

1. `Semaphore`, `ProviderConcurrency` (composes it with a spawn tree). **Done**: the
   safety properties of both are proved, and that the semaphore implements `SlotPool`, an
   abstract pool without queue and counter.
2. `AgentLifecycle`: the manager and the registry, one id. **Done**; all its safety
   properties are proved.
3. `JobManager`: register to evict with the delivery loop, sinks, retries and timers,
   and the yield queue of the owner's session as the sink. **Done**; all its invariants
   are proved, `NoResultLost` and `DeliveredOnce` where no id is used again.
4. `AgentQueues`: the queued input of one agent through runs that fail, edits, aborts
   and live steering. **Done**; all its safety properties are proved.
5. `ToolBatch`: `executeToolCalls` with interrupts and the pause gate. **Done**; all
   its safety properties are proved.
6. `ResetFence`: several processes, crashes and late requests around one account's
   banked resets. **Done**; all its safety properties are proved.
7. `SessionJournal`: the transcript of one session, its manager and its file.
   **Done** as far as section 3 says; all its safety properties are proved. `Filter`
   holds `Without`, JavaScript's `filter` as the journal uses it, and `FilterProofs` its
   laws.

Left, should the project grow: title lines, `moveTo` and a restart from the file in
`SessionJournal`; `AgentAwaits` (`#reaches` against a least fixpoint over all small
graphs), the tool choice queue, the work pool, auth refresh; a composition of
`AgentQueues` with `ToolBatch`
(live steering is a fixed input of a batch today); an abstract at-most-once delivery
that `JobManager` implements, and one for `AgentQueues`.

Every invariant and every action property without fairness that a passing run checks is a
theorem. Worth proving next are refinements: that `AgentQueues` and `JobManager`
implement the abstract deliveries named above, for which `IInv` and `OInv` of the queues
and `OwnInv` of the jobs (section 7) are the invariants to start from.

Runs are few, one question each. Safety and liveness of one instance share a run where
TLC can do both in time.

## 3. Modules

### Semaphore

State: `max` (0 for infinity), `current`, `queue`, and what each client does
(`state`). A method runs to completion, so `Acquire`, `OnAbort` (the abort listener),
`Release` and `Resize` are single steps, loops included. The resolver the code keeps
in `#queue` is the client itself. A client that was granted its slot has lost its
abort listener, so only waiting clients run `OnAbort`.

### ProviderConcurrency

Extends `Semaphore`; a semaphore client is a request `<<agent, turn>>`. `Call` is the
synchronous start of the wrapper: resize to the caller's limit, then acquire.
`BaseReturns` and `BaseThrows` are the outcomes of `await base(...)`; `StreamEnds` is
the settlement of `stream.result()` and `ReleaseAfterStream` the microtask that
follows. Agents read their stream, run tools and, in the first turn, wait for their
children: `TurnEnds` and `ToolsEnd` stand for the agent loop and the task tool
(external to these sources). Aborts may come at any time.

### AgentLifecycle

Every map of manager and registry is keyed by agent id and no operation mixes ids, so
one id is modelled. A `ref` is one generation (an `AgentRef` object), 0 is none; a
session is one `AgentSession` object, 0 is null.

| TLA+ | code |
|---|---|
| `reg`, `ref` | `AgentRegistry.#refs.get(id)`; status and session of each generation |
| `sess` | each session: live, disposing, disposed; the ref it was built for; initialised or not |
| `adopted`, `stray` | `#adopted.get(id)` with its timer; an armed timer whose adoption was replaced |
| `park`, `revival`, `reopen` | `#parks`, `#revivals`, `#reopens` |
| `call`, `rel`, `spawn` | the `ensureLive()` of each caller, the `release()` of each releaser, one fresh spawn; `pc` says which await it is at |
| `marker` | the kill tombstone beside the transcript |

Actions: `EnsureLive`, `Kept`, `WokenByPark`, `Probed`, `Unmarked`, `Reopened`,
`Prepared`, `Claims`, `Attaches`, `Initialised`, `InitialisationFails`, `Discarded` are
the stretches of `ensureLive()` between awaits (park cancelled, park awaited, reopen of
a killed ref, revival by the factory, construction of the session, acceptance or
discard); `Rejected` is the `finally` of a revival that fails at once because its ref is
not parked any more. `TimerFires`, `ParkCommits`, `ParkEnds` are `park()`.
`ReleaseBegins`, `ReleaseCommits`, `Persisted`, `Disposed`, `ReleaseEnds` are
`release()`. `SpawnBegins`, `SpawnProbed`, `SpawnClaims`, `SpawnAttaches` are a fresh
spawn of the same id with `reclaimDeadCorpse`. `StartTurn`, `EndTurn` and `Finish` are
the status changes of a session and the executor's hand-over; `SessionDisposed` is the
end of `session.dispose()`, with the registry clean-up sdk.ts runs then.

Microtasks. A continuation whose await has settled runs before the event loop turns
to timers and I/O. `Pending` says one is queued; steps that begin with a timer or the
completion of I/O require `~Pending`. Calls from outside do not: they may come from
microtasks of other code.

`Env` chooses what the environment does besides calling `ensureLive`: kills
(`release` with tombstone), removals (`release` without), fresh spawns, turns, faults
of I/O and revivers.

`stale` is history, read by no action: work bound to a generation that has been
superseded has reached the registered one. That happens in two ways. A timer whose
adoption a late factory replaced (`adopt()` at agent-lifecycle.ts:493 overwrites the
entry without clearing its timer) parks the successor while it is at work; or a call
that resumes for the old ref puts its revival, be it one that fails at once, in the place
of the successor's and takes it out of the map when it ends (lines 413-417,
`OneRevivalPerRef`; kills and reopens of one id are enough, with a third generation).
From then on an initialising session can be parked and
disposed of under its reviver, and a ref revived twice, so `AttachedIsLive`,
`NoOrphanSession` and `NeverHandsOutDisposing` are stated up to that point. Neither
can happen before the id is first killed: `SInv` of the proofs contains it.

### JobManager

One manager and one owner with its session. A job is an `AsyncJob` object and an id
names at most one row at a time, so an id may name several jobs in turn.

| TLA+ | code |
|---|---|
| `jobs` | every `AsyncJob`: status, `foreground`, whether its run ended (`endTime`); and, for the properties, how often its result was told to the model, whether it was dropped on purpose, whether it was ever listed, the transcript it was born in |
| `row`, `nextAuto` | `#jobs`, `#nextAutoId` |
| `suppressed`, `watched`, `consumed`, `released` | the four marker sets, by id |
| `timer` | `#evictionTimers`: armed; fired and waiting for an attempt; about to evict |
| `deliveries`, `inFlight`, `loop` | `#deliveries`, `#inFlightDeliveries` with the stage of each attempt (formatting, parked on the yield queue, built into a message, accepted, failed), `#deliveryLoop` |
| `wait`, `evalWait` | the ids a blocked `wait` watches; the jobs an eval cell waits for |
| `session`, `epoch` | the owner's session and its `#asyncDeliveryEpoch` |

`RegisterAuto`, `RegisterNamed`, `Publish`, `Settle`, `Cancel` are the life of a job.
`ForegroundReturns`, `ForegroundAborts`, `ForegroundBackgrounds` are the bash tool,
which backs a command with a hidden job. `WaitRecovers`, `WaitBlocks`, `WaitShows`,
`WaitYields` are the `wait` tool: return what is undelivered, or watch what runs and
later show it or, interrupted, hand it back. `KillJob` cancels or shows a job;
`EvalWaitBegins`, `EvalWaitEnds`, `EvalWaitAborts` are `wait()` in an eval cell.
`LoopTakes`, `DrainTakes`, `LoopRunsDry`, `LoopEnds` are the delivery loop; the body
runs up to its first await, and the `finally` two microtasks later, so it may be over
but not yet forgotten (`"ending"`). `Formatted`, `Drain`, `Commit`, `DropInjection`,
`AttemptAccepted`, `AttemptFailed` follow an attempt through the session: sink, yield
queue, staleness check, message, transcript or discard, receipt. `TimerFires` and
`DeferredEvicts` are retention. `Transition` is `/new` (abort, then
`#cancelOwnAsyncJobs`), `BeginDispose` and `DisposeOwned` the disposal.

Two guards stand for the agent loop, which is outside these sources. `ToolTime`: tools
run only when no built message waits to be committed, because the loop commits its
asides before it calls the model. `Boundary`: the yield queue is drained, and a
transition begins, only when no tool call is under way. A timer runs half a minute or
more after it was armed, so not while a promise that settled then is about to go on
(a wait its job woke, a result being formatted); an entry can be parked for any time.

The order of `#deliveries` is left open (due times, first attempts before retries), so
the loop may take any of them. Not modelled: the running cap and the `queued` flag,
the manager's own `dispose()`, a retention of zero, the cleanup of retained artifacts,
deliveries without an owner, watches of the work pool and of vibe sessions, eval cells
that run in the background, a successor session of the owner.

### SlotPool

What the semaphore promises: `holders` and `waiting` are sets, slots go to waiters of
any choice, but never above the ceiling and never so that one stays free while somebody
waits (`Admit`). `Semaphore` instantiates it with `cap <- max`, `holders <- Holders`,
`waiting <- Waiters`; `ImplementsSlotPool` is the refinement. That a lowered ceiling
never over-admits is `SetCeiling` of the pool.

### AgentQueues

| TLA+ | code |
|---|---|
| `queues`, `claims`, `deliveries` | `#steeringQueue`, `#followUpQueue`; `#queuedMessageClaims`; `#queuedMessageDeliveries`, each from `next` on |
| `liveSteered`, `withdrawn` | `#liveSteered`; `#withdrawnMessages` (message to run) |
| `controller`, `aborted` | `#abortController`, and which runs' signals are aborted |
| `taking` | where each dequeuer (the loop of a run, the pump of its response) is: before-dequeue hooks, `prepareQueuedMessages` |
| `loop`, `live`, `stream` | the loop's place and `pendingMessages`; the `LiveSteeringChannel` of the response; message events pushed and not consumed |
| `recorded` | how often the transcript holds a message |
| `order`, `taken`, `unrecoverable`, `late` | history only: arrival order; what the user got back; what lost its delivery record; what a pump still prepared when its run was over |

User and session: `Post`, `TakeQueuedMessage`, `PopLastQueuedMessage`,
`PromoteQueuedMessage`, `ClearQueue`, `ClearQueueForInterrupt` (Esc), `Abort`, `Reset`
(`/new`). A run: `Prompt` or `Continue`, `Poll`, `AfterHooks`, `AfterPrepare` (the two
awaits of a dequeue), `Turn`, `TurnDeadline`, `RespondFails`, `Boundary`, `Consume`,
`Finish`. The pump: `LiveClaim`, the same two awaits, `LiveAck`. `AfterPoll` is the
control flow of `runLoopBody`: opening poll, start, boundary, late and follow-up polls.

A run slot stands for an `AbortController`; it is used again when its run is over and
its pump quiet. Microtask gaps between the end of an await and the next statement are
part of the step. `Reset` is a session's reset after `abort()` has waited: the run is
over, or hangs in a preparation and is detached. The event stream delivers what was
pushed before it fails, so `Finish` waits for an empty `stream`. Left out: the context a
preparation adds, asides, tool batches, the prompt's own messages (none of them is in a
queue), advisor cards that an Esc keeps, parked IRC messages, `prioritizeSteering`,
`popLastSteer`, `popLastFollowUp`, clearing a single queue.

### ToolBatch

| TLA+ | code |
|---|---|
| `task` | the promise of each call: queued behind `start`, parked or woken at the gate, running, settled (the `afterToolCall` hook runs), probing (its last `checkSteering`), done |
| `settled`, `result`, `emitted` | `completedToolExecution` or an error; `toolResultMessage`; `emittedToolResults` |
| `cut`, `ircCut`, `soft`, `triggered` | `steeringAbortController`, `ircAbortController`, `steeringSoftController`, `interruptState.triggered` |
| `exclusive`, `waits`, `softInterrupts` | `concurrency`, `interruptible` of the calls; `interruptMode` is not "wait" |
| `watch` | the event-driven watch: about to subscribe and look, listening, woken, over |
| `steering`, `irc`, `completion` | what the peeks of the config report |
| `paused` | `agentPauseGate` |

`RunTool`, `LeaveGate`, `Settle`, `Report`, `Probe` are the stretches of `runTool`
between awaits; `Watch`, `WatchAgain`, `Tick` the watch and the timer; `EndBatch` the
end with the sweep of calls that left no result; `Steer`, `Unsteer`, `Aside`, `Abort`,
`Pause`, `Resume` what comes from outside. A peek (`hasSteeringMessages` and the like)
is atomic with what follows it, and `LeaveGate` takes the look at the gate and the
microtask between it and the call's next statement together. Left out: the prepare
phase, speculation, the content of results, hooks' context (and an `afterToolCall` hook
that turns a result into an error), steering that a provider took before the batch (it
is a message queued at the start).

### ResetFence

| TLA+ | code |
|---|---|
| `lock`, `marker` | the OS lock of `withFileLock`; the text of the locked file |
| `pc`, `plan`, `at`, `answer` | a process in `#executeResetActions`: its action, `attemptedAt`, the outcome |
| `attempted`, `lastTry`, `adopted` | `attemptedKeys`, `lastAttemptAtByAccount`, `#adoptedResetMarkers` |
| `requests`, `balance`, `episode` | external: what was sent and has not taken effect, the resets banked, the block |
| `spent`, `grants`, `restored`, `wasted`, and `seen`, `spent`, `grants` of a plan | history only |

`Look` (the 429 and the usage report show the block), `Plan` (the awaited listing of the
credits has answered), `Execute`, `Acquire`, `AcquireFails`, `SeeRecent`, `CheckBalance`,
`Send`, `LeavePool`, `Receive`, `RedeemThrows`, `Crash` follow an attempt. Block and
balance are seen at different times: `plan.seen` and `plan.spent` are what had been spent
at each. `AdoptRecentReset` ends a pass with an empty plan by a look at the marker, and
stands for a listing or a lock that fails, too. A marker write that fails or is cut short
by a crash leaves an empty file. The provider (`Handle`, `Grant`, `NewEpisode`) is
external. Time is explicit: a process sends at most `Delay` after it dated its marker, a
request takes effect within `Flight`, and `Delay + Flight < Cooldown`
(`TimeAssumption`). The code has 15 s for a redeem and a minute of cooldown; a machine
that sleeps longer in between is outside the assumption. `redeemResetCredit` of the TUI
takes no fence and is left out: with it two requests can be under way. So are Claude's
offer revalidation, `deferredUntilByKey` (the model may retry earlier than the code),
and the sharing of blocked passes inside one process.

### SessionJournal

| TLA+ | code |
|---|---|
| `m.entries`, `m.file`, `m.expected` | `#entries`, `#sessionFile` with `#sessionId`, `#expectedDiskSize` |
| `m.current`, `m.required`, `m.failed`, `m.released` | `#fileIsCurrent`, `#rewriteRequired`, `#diskFailure`, `#released` |
| `m.fence`, `m.dirty`, `m.writer`, `m.claimed` | `#atomicRewriteFenceEpoch` equals `#diskEpoch`; `#atomicRewriteDirty`; an open `#writer`; a held `#sessionClaim` |
| `m.batch`, `m.staged` | `#atomicEntryBatch` and its `entryIds` |
| `op` | the asynchronous operations: where each is, whether the epoch has overtaken it, what it waits for in `#diskTail`, the body it staged, what it read back |
| `disk`, `lease` | the files: the id in the header and the lines; whether another process owns the session |
| `history` | history only: the entries of each batch, those deferred to one, those unmarked by a rewrite that was not to write them, those of a rejected batch |

One rewrite (`rewriteEntries`) and one batch (`appendEntriesAtomically`, or a repair its
caller asks for) run beside the synchronous calls `AppendEntry`, `FlushSync` and `Seal`.
A rewrite goes through `Starts`, `Serializes` (after the writer has closed),
`Publishes`, `Settles` (the loop looks for deferred entries and ends) and, a microtask
later, `Marks` (its caller declares file and memory equal), with `Conflicts`,
`ReadsBack`, `Resolves` when the file is not what the manager last wrote, `Checked` and
`Fails` when the write failed, `Verified` when the epoch has moved. A batch waits for
the file (`Flushed`: a rewrite that queued behind its flush is let go when the flush
ends), runs its callback (`Collects`), commits by a rewrite and looks at the flags
(`Decides`); if it is refused its entries are taken back and the file repaired
(`Repairs`, `Drained`, `RepairPublished`, `Repaired`).

Choices. A line's length is its own, so the size the storage compares tells which lines a
file has: `Size` is the set of them. The publish lock makes guard, size check and rename
one step, and a synchronous write with its one pass of recovery another. Queued work
starts when no continuation is due, and I/O completes when no microtask is: both follow
from the order of the microtask queue. A failing write may have landed
(`Publishes`), an append that fails is rolled back by the storage. Others may append a
line, own the lease, delete the file or put another journal in its place.

Left out: read-backs that fail for another reason than a missing file, the session
without a file (lazy creation), title lines, `moveTo` and forks,
`close()`, loading, backends that defer publishes, the `EPERM` fallback of the rename,
blobs and artifacts, the tree of entries (parents and leaf). A crash needs no action of
its own: what a process that dies leaves behind is `disk` at that moment, about which
`CurrentIsDurable` and `BatchAtomic` speak in every state.

## 4. Runs

| run | module | asks | bounds |
|---|---|---|---|
| `semaphore` | MCSemaphore | are slots neither leaked, doubled nor idle, in order, under resizes and aborts? is it a slot pool? | 4 clients, limits -1, 0, 1, 2, 3: below and above the number of clients, and unlimited |
| `spawn_tree` | MCProviderConcurrency | does a tree three deep and wider than the limit finish? | 4 agents, 2 turns each, limits 1 and 2 |
| `lifecycle` | MCAgentLifecycle | which of the promises of the lifecycle hold with kills, spawns, turns and faults, and is every `ensureLive` answered? | 2 callers, 1 releaser, 2 generations, 2 sessions; no plain removals |
| `lifecycle_disposing` | MCAgentLifecycle | is a disposing session ever handed out? | the same, only plain removals |
| `job` | MCJobManager | is any result lost, told twice, stranded or never told, does a row leak or an auto id name two jobs? | 2 jobs, one agent id, 1 dropped injection, 1 transition; foreground calls, kills, eval waits, disposal; a fresh id per agent job |
| `job_transcript` | MCJobManager | is a result ever told in a later transcript? | 1 job, 1 dropped injection, 1 transition |
| `queues_safety` | MCAgentQueues | is a queued message lost, doubled or overtaken? | 3 messages, 2 run slots, 1 fault, 1 edit |
| `queues_settle` | MCAgentQueues | does a queued message wait for ever? | 2 messages, the same |
| `queues_edit` | MCAgentQueues | is a dequeued message always recoverable? | 2 messages, the same |
| `tool_batch` | MCToolBatch | all of the properties of section 5, liveness included | a wait, a shared call that works, an exclusive call after both; 2 arrivals, 2 pauses |
| `reset_fence` | MCResetFence | two requests at once, a spend on a balance that another spend has lowered, double recoveries? | 2 processes, cooldown 3 against delay 1 and flight 1, clock to 4, 2 resets and 1 grant, 2 episodes |
| `journal` | MCSessionJournal | is what counts as written on disk, does a batch land whole, does a line of others survive, does a sealed session write? | 3 entries, 1 line of others, 3 files, 2 troubles (tampering counts both), 1 recovery from conflicts |

Why the bounds are enough. The semaphore's state is finite for a given set of clients,
and four clients around limits 1 to 3 make queue lengths from 0 to 3 with aborts at both
ends and in the middle. The spawn tree has two parents above one leaf: with limit 1
every agent on the path needs the one slot. In the lifecycle two callers give a call
that runs a revival, reopen or cancelled park and one that joins or overtakes it; two
generations are the killed one and its successor; two sessions are the dying one and the
new one. Only with three generations can a call that works for the first meet a revival
of the third; the safety properties hold there as well (`MaxRef = 3` under `Spec`, 1.7
million states; too many for the liveness property), and the theorems below do not
depend on the numbers. Two jobs give one whose result is parked, retried or recovered
and one that settles, is watched or takes its id meanwhile; everything in the manager
that relates deliveries relates two of them. One dropped injection makes one retry, and
a second only repeats it; one transition makes an earlier and a later transcript.

Three messages give a batch of two beside one that is queued, and one that comes while
they are claimed; two slots a run that hangs or whose pump outlives it and its
successor; what an abort or failure does to a run's batch is done once per run, and an
edit meets the batch of one run at a time. The liveness of the queues concerns one
message and what stands before it. In the tool batch each pair of kinds that can be
ordered occurs (a wait and a shared call before an exclusive one); two arrivals are
steering after an aside, two pauses a gate that is engaged again; the theorems hold for
every batch. In the fence a clock of 4 lets a marker of time 0 or 1 go stale with
requests on both sides; two processes are the spender and its peer, and the theorems
hold for any number. In the journal three entries are a batch of two and one that is
appended before, during or after it; three files let the session move twice; one
recovery (the code has three) makes the pass after it a contested one. With two lines of
others (4.3 million states) or three troubles (15.6 million) the properties hold as well.

Every module has a theorem of its types (section 7), so the runs need not check them; the
two models with the most state, the queues and the journal, do so all the same
(`queues_safety`, `journal`).

Deadlock is checked in the runs of the semaphore, the lifecycle and the queues, where
callers may always call again or posted messages keep runs going. The job runs have a
bounded number of jobs and an idle manager rests; a batch, a spawn tree and a bounded
clock end; a sealed journal rests. What could hang there is stated as a property.

What the violation runs show (quoted in `PROJECT.json` "findings"):

- `lifecycle_disposing`: a plain `release()` awaits `dispose()` of a session that is
  still attached and registered; `ensureLive()` returns it, though "a disposing
  session is never handed out".
- `job_transcript`: a delivery queued for a retry outlives its row, so `/new` does not
  drop it with "every queued delivery", and it is injected into the next transcript.
- `queues_edit`: any edit of a queue drops the delivery records of batches dequeued from
  it; when the run that holds such a batch ends at its deadline, the batch is gone,
  though "dequeued originals remain recoverable until their transcript events arrive".

Divergences outside the runs. Nine more properties are defined in the modules, state what
a comment or message promises, and fail. To see one, give a copy of the cfg of
`lifecycle_disposing` or `job_transcript` the environment and the property named, and a
copy of that of `queues_edit`, `reset_fence` or `journal` the property:

- `StaleNeverClobbers` (`Env <- MCKill`): a revival factory that answers after a kill
  and a reopen replaces the adoption of the newer generation (agent-lifecycle.ts:493),
  which then has no idle timer anybody can reach.
- `OneRevivalPerRef` (an invariant; `Env <- MCKill`, `MaxRef = 3`): a call that goes on
  for a ref that was killed again finds no entry for it in `#revivals`, overwrites that of
  the registered ref's revival with its own, which fails at once, and deletes it in its
  `finally` (lines 413-417). The next `ensureLive()` starts a second revival, though
  "concurrent calls share one in-flight revive" (line 374).
- `ReopensAfterShutdown` (`Env <- MCKill`): the guard "is still shutting down after its
  kill" cannot fire, because the kill detaches the session first (line 567 before 578);
  the agent is reopened while the killed session still disposes.
- `KilledHasMarker` (`Env <- MCKill`): a reopen still under way deletes the marker of the
  next kill (line 466).
- `SkippedIsRequeued` (`Env <- MCReuse`, two jobs): the row of a job whose delivery is
  parked is evicted, a new job takes its id, a wait that watches the new job is
  interrupted, and `unwatchJobs()` takes the old delivery for the new one
  (job-manager.ts:590). When the old one is accepted, the new result counts as consumed.
- `RecordedInOrder` (queues): a live-steering preparation that outlives its run is put
  back (`packages/agent/src/agent.ts:1050`) in front of older messages the run's end has
  restored, though "live steering was taken before anything the run still holds
  undelivered" (line 1063).
- `LateBlockSpendsNothing` (reset fence, an action property): a process sees the block, a
  peer spends a reset, the process lists the balance after that spend
  (agent-session.ts:14198) and waits for consent until the peer's marker is past its
  cooldown; nothing looks at the block again, and a second reset goes to the lifted
  one, though the fence shall "remember a recent attempt so a late 429 cannot spend
  again" (lines 14048-14049).
- `RejectedIsGone` (journal): a batch lands although its write failed, and is rolled back;
  a line of another writer makes the repair conflict, and the recovery takes the rejected
  entries on disk for that writer's (session-manager.ts:1163). They are back in memory and
  file, though "a failed publish removes only the staged entries" (lines 2733-2735).
- `DeferredIsCaptured` (journal): a rewrite that another has superseded recovers from a
  conflict and clears `#atomicRewriteDirty` for its next pass (line 1759), before it sees
  that it is stale; the mark was that of an entry appended during a batch. The batch finds
  none and declares file and memory equal; the entry is in no file until the next full
  rewrite, though "any fenced append that lands during the rewrite is captured before the
  task resolves" (lines 1748-1749). An append in the microtask between `Settles` and
  `Marks` (lines 1733-1736) is lost in the same way.

Seen while modelling the journal, and not stated as a property: an append with a held
claim follows a path onto which another journal was moved and writes there (`AppendLine`;
the comment of `#claimSession` says that the path is checked, which holds for the first
claim).

## 5. Properties

Each property is described where it is defined. The ones that carry the weight:
`QueueIsWaiters`, `CountsHolders`, `NoIdleSlot`, `FirstComeFirstServed`,
`ImplementsSlotPool` (semaphore); `SlotPerLiveRequest`, `EverySpawnedAgentFinishes`
(spawn tree); `AttachedIsLive`, `NoOrphanSession`, `IdleIsTimed`, `DeadStaysDead`,
`NeverHandsOutDisposing`, `EveryCallSettles` (lifecycle); `NoResultLost`,
`DeliveredOnce`, `NoStrandedDelivery`, `RowIsTimed`, `AutoIdNamesOneJob`,
`ResultReachesOwner` (jobs); `DeliveredOnce`, `NoMessageLost`, `ArrivalOrder`,
`QueuedIsSettled` (queues); `ExclusiveRunsAlone`, `AnsweredInOrder`, `OnlyWaitsYield`,
`FinishedWorkIsReported`, `NoStartWhilePaused`, `SteeringReachesTools`,
`AbortEndsBatch`, `SteeringEndsBatch` (tool batch); `OneRequestUnderWay`,
`NoOvertakenSpend`, `RecoveredOnce` (reset fence); `CurrentIsDurable`, `BatchAtomic`,
`ForeignKept`, `SealedWritesNothing` (journal).

`NoMessageLost` and `ArrivalOrder` except exactly what `queues_edit` and
`RecordedInOrder` show: messages whose delivery record an edit dropped
(`unrecoverable`), and batches a pump still prepared when its run was over (`late`).
`CurrentIsDurable` excepts what `DeferredIsCaptured` shows: entries deferred to a batch
whose mark a superseded rewrite took away, or that came between the end of a rewrite and
its marking (`unmarked`). It says that memory and file agree, not which entries memory
has: that the entries of a rejected batch stay away is `RejectedIsGone`, and fails.
`NoOvertakenSpend` is about the balance; of the block, which is seen before the balance
is listed, `LateBlockSpendsNothing` speaks, and fails once a consent outlasts the
cooldown. The exceptions are history variables that no action reads. A session whose
file others deleted or replaced is left out of `CurrentIsDurable` until it has written
the file again.

For each property of a passing run `PROJECT.json` "mutants" names a change of one
definition, of the kind a plausible bug would make, under which TLC finds the property
violated; the mutated forms stand beside the definitions they replace.

## 6. Fairness

`TreeFairness`: agents go on, provider streams end (the providers bound them with
idle and total timeouts), microtasks run. Aborts are never assumed.
`Fairness` of the lifecycle: the event loop drains its microtasks,
the spawn's among them, and then completes I/O, so a settled await goes on, and an
operation that is due again and again whenever the queue is empty is completed (strong
fairness: callers may keep filling the queue).
Disposals, revivers, factories and the file system answer, with an error or without;
timers, turns, kills, spawns and calls are never assumed.
`FairSpec` of the job manager: promises and the loop's timers are served; a wait is
bounded by its cap, an eval wait and a foreground call end; the run that holds a built
message commits it or ends. `Drain` is strongly fair: between two waits the loop
always comes to a step boundary, where it drains the yield queue, so a model that
calls `wait` again and again does not keep it from being drained for ever. That jobs
settle, timers fire or waits are interrupted is not assumed.

`Fairness` of the queues: hooks, preparations and responses settle, the consumer reads
on, the pump's request is acknowledged or times out, an idle session with queued input
continues (`#scheduleIdleQueueDrain`), and a model that is asked again and again stops
calling tools in the end (strong fairness of `Boundary(r, FALSE)`). Without the last,
follow-ups may wait for ever, which is the intent. Faults, edits and posts are bounded.
`Fairness` of the tool batch: tasks, hooks, the watch and the timer go on; a tool that
does work ends, a wait ends once its signal is aborted. A wait that nothing cuts, a
resume and a post are never assumed. The reset fence states no liveness: the lock
retries are bounded and an attempt may end without a spend. Nor does the journal: its
promises are about what is on disk at any moment.

## 7. Proofs

The first part of `ProviderConcurrencyProofs` is about `Semaphore`, for every finite set
of clients (`ClientAssumption`) and every set of integer limits (`LimitAssumption`), and
cites no assumption about the tree. `IInv == TypeOK /\ QueueIsWaiters /\
CountsHolders /\ NoIdleSlot` is inductive. None of the parts but the types is
inductive alone: that `Release` hands its slot to a client that does not hold one
needs the queue to be the waiters, and that nobody waits beside a free slot needs the
count to be positive when a holder releases. What the methods do is stated for values
(`Good` of a ceiling, a count, a queue and the clients' states), because the spawn tree
runs resize and acquire in one step. `GrantOrder` gives the order: a
step that grants a slot to a waiter grants one to everybody ahead of it. Theorems
`TypeCorrect`, `NoAbandonedWaiter`, `NoLeakedSlot`, `NoWaiterWhileRoom`, `ServedInOrder`.

`SemaphoreIsSlotPool`, its last theorem, is the refinement, from the same invariant.
Every step maps to a step of the pool: the count is the cardinality of the holders, so
the code's tests of `#current` are the pool's tests of the set, and what `Granting`
wakes is a subset of the waiters of the right size.

The second part, for every finite spawn tree (`TreeAssumption`: an agent has
one parent, the root none), any number of turns and any limits. `TreeIInv` is the
semaphore's `IInv`, the types, which requests are in the semaphore (`Slots`) and that a
turn makes its request once (`Order`: turns to come have made none, children of an agent
that has not run its first tools have not begun); without `Order` a call could acquire
for a client that is in the semaphore already. Theorems `SlotsFollowRequests` and
`TreeKeepsSemaphore`: the invariants of the semaphore hold under the tree's use of it.

`AgentLifecycleProofs`, for any number of callers, releasers, generations and
sessions and every `Env` (`BoundAssumption`): `IInv` adds to the types that a killed
ref is a detached tombstone (`KilledDetached`), that a park in flight captured a
session, and that calls about to use a ref know one. Every step that writes a ref
writes the registered one, and needs it unkilled: because it holds a session, is
parked, or was checked by `attachSession`. `TypeCorrect` and
`DeadGenerationsStayDead` (the action property `DeadStaysDead`) follow.

The second part of the module, for the same constants where no `release()` is a plain
removal (`"removal" \notin Env`: with one, `lifecycle_disposing` shows what fails).
`SInv` has four layers. `IInv` of the first part. `Frame`, true in every state: what is
spoken of was created, calls and kills know their refs, a call goes on only when its
park is over. `Core`, true until `stale`: only the registered ref has a session, and
that is live and its own (`AttachedOk`); a session that is being disposed of belongs to
a retired or killed ref or to the park that detached it; the one revival in flight is
that of the call at work on the registered ref, which is still as that call expects it
(`RevivalOk`; a call that puts the entry of another ref in its place makes the state
`stale`); a park that has not detached yet is about an initialised session the manager
drives (`ParkBegun`); a live session that no run drives is attached or held by a kill
(`HeldOk`). `Quiet`, true until the first kill: nothing is stale, adoption, park and
calls are about the registered ref, and a cancelled park has a caller that will start
the timer again. Each conjunct of `Core` needs others: that a park cannot detach a
session under its reviver needs the timer to be off while the agent runs (`AdoptedOk`),
which needs `RevivalOk` when the revival ends. `IdleIsTimed` needs `Quiet`, since the
adoption of a reopened ref can be revived while an older park still disposes. `Safety`
is the theorem of `SInv`; `AttachedSessionsAreLive`, `NoSessionIsOrphaned`,
`IdleAgentsAreTimed` and `AnswersAreLive` (the action property `NeverHandsOutDisposing`)
follow from it.

`JobManagerProofs`, for any number of jobs, agents, dropped injections and transitions
and in every `Env`, ids that are used again included. `IInv` adds to the types: a row
names the youngest job of its id and a run that has not settled keeps its row (`Rows`);
whose rows the markers and timers belong to (`Marks`, of which `RowIsTimed` is a part);
that the counter of auto ids is past every one with a row or once listed (`Numbers`: a
discarded foreground job lowers the counter only when its id was the newest and never
listed); that a queued delivery has a loop, and a put-off eviction an attempt. Theorems
`TypeCorrect`, `DeliveriesServed`, `RowsTimed`, `AutoIdsUnique`.

The second part of the module, for the same constants where no id is used again
(`"reuse" \notin Env`: an id that names a new job while a delivery of the old one is in
flight breaks both properties, see section 4). `OwnInv` adds to `IInv`, in the order in
which they lean on each other: an id belongs to at most one listed job, and the hidden
jobs that shared it handed it back (`Owners`); a delivery, queued, in flight or put off,
is that of the settled listed job with its id, there is one of a job, and none of a
watched one (`Addressed`, `OneParcel`, `Separate`); how far an attempt can get once its
result was told by other means, after which it can only be refused (`Attempts`); a wait
watches listed jobs, and no tool runs while a built message awaits its commit (`Tools`);
a listed job that is suppressed or consumed was told, dropped or is not to be told
(`Marked`); a result that was told is marked consumed, or an accepted attempt is about to
set the mark with no wait in between (`Consumed`); a put-off eviction is that of a
suppressed id in flight (`PutOff`). `NoResultIsLost` needs `Marked` and `Addressed`: the
loop skips an id it finds marked, and only there could a result go missing.
`ResultsToldOnce` needs `Consumed`, `Tools` and `OneParcel`: a wait leaves alone what is
marked, an injection what a wait has had, and no job has two parcels.

`AgentQueuesProofs`, for any number of messages, any finite set of runs and any bounds
on faults and edits (`RunAssumption`, `BoundAssumption`). `DeliveredOnce` counts a
message where it is pending, recorded or taken back, which says nothing of what a run
may still record: an edit can drop a delivery record while the loop holds the batch. So
`IInv` also counts the run's pipe (`Pipe`: what it pushed, what it holds, the live
steering of the response it streams). `Accounts`: a message is in the queues, the
transcript and the controller's pipe at most once together; what is taken and still in
the pipe carries the mark that makes the consumer skip it. `Owned`: every delivery
record and every live-steered message is the controller's, and the pipe has the messages
of a record in the order of the record (`Ordered`), so that the next event is the next
message of its batch or of none, and `AppendMessage` pops the right one. `Phases` says
where a run can be: that only a boundary polls, that a pump that dequeues has nothing
sent or deferred, that a run which is neither in charge nor unused is aborted, and so
cannot take. `AccountsKept` and `TypesKept` have one lemma per action; the sections
before the invariant are laws of counting in sequences, inductions by `SeqsAreBuilt`.
Theorems `TypeCorrect`, `NothingTwice` (`DeliveredOnce`) and `NothingLost`
(`NoMessageLost`).

The last part of the module is `ArrivalOrder`, for the same constants. It speaks of what
is pending when a message is recorded; to be kept it must be known of every place a
message can be in meanwhile, and of where it would go back to. `OInv`, inductive
together with `IInv`, says so relative to the history `order`. `Home`: a message is
pending only in the queue it arrived in last. `Lanes`: unless the run has ended it will
record all that was dequeued, and while a response streams, what its loop dequeued is
pushed already, so live steering goes behind it and back in front of what is still
queued. `Prepared`: a claim is that of a preparation under way, by the run in charge or
about a batch that is late; a pump dequeues steering only. `Turned` is `InTurn` of both
queues: while x is pending, a message y that arrived after it and is not late is not
recorded, is behind x in the queue and in the pipe, and would go back behind x; and x is
dequeued if y is. What a late pump puts back and what a promotion moves are excepted by
`late`, as in the property, and by `order`, where a promotion is an arrival. The lemmas
it rests on are about `After` and `Thins`: a sequence from which elements are left out
keeps the order of the rest. TLC checked `OInv` on instances of 1.2 and 1.7 million
states before the proof. Theorem `ArrivesInOrder`.

`ToolBatchProofs`, for any number of calls and any set of batches (`CallsAssumption`,
`BatchAssumption`). `IInv` adds to the properties: how the stages of a task, the end of
its execution and its result belong together (`Progress`), that a task which has left
the queue was let go by the calls before it (`Started`), and that the emitted results
are those of the first k calls, in order (`Emission`). `ExclusiveRunsAlone` follows
from `Started` and `Progress`: of two running calls the later one waited for the
earlier. The flush is a `CHOOSE` of the largest ready index; that there is one is shown
with well-foundedness of `<`. Theorems for all five invariants and the action property
`NoStartWhilePaused`.

`ResetFenceProofs`, for any number of processes and any bounds (`ProcAssumption`,
`TimeAssumption`, `BoundAssumption`). The heart is `Timing`: every request under way is
younger than `Flight` and was sent at most `Delay` after the time of the marker that is
still in the file; a process that has written its marker and not sent yet sees no
request under way, and the marker in the file is its own. Since `Delay + Flight <
Cooldown` the marker cannot go stale before the request has taken effect, so nobody else
gets past `Recent`. `Account` ties balance, grants and spends together, `Plans` what was
spent and granted when the balance of a plan was listed (nothing while a process has
only seen the block), and both give `NoOvertakenSpend`: a balance not below the expected
one with no grant in between means no spend since the listing. What was spent between
the look at the block and the listing is not seen, and not claimed. `Recovered` gives
each recovery a spend of its own. Theorems for all four invariants.

`FilterProofs`: what `Without` returns, that it distributes over appends and
concatenations (`Joined`), that filters compose, and what the set of a sequence's elements
is. `Without` is a recursive function, so its laws are inductions over data, which the
provers cannot take from the library's theorems; `SeqsAreBuilt` is the induction, stated
about a set of sequences and proved from a shortest counterexample.

`SessionJournalProofs`, for any number of entries, lines of other writers, files, troubles
and recoveries (`JournalAssumption`). `IInv` is about all line sequences of the state at
once: memory, the files, each staged body and what was read back. Each has of every atomic
batch all entries or none (`Sane`) and of this manager's entries only recorded ones, since
it was memory or a file before, and memory gains a batch in one step and loses it in one
(`RolledBackIsLater`: what is rolled back is a whole batch, or belongs to none). The sizes
that are compared know only lines of others that memory, or the staged body, has
(`ManagerOk`, `OperationOk`), and a file the manager has not moved to does not exist
(`FileOk`), so a write that passes its size check takes no line of others away. `Later` and
`Fine` say what every step keeps of the manager and of an operation; one lemma per action.
Theorems `TypeCorrect`, `BatchesAreAtomic`, `LinesOfOthersKept` (the action property
`ForeignKept`) and `SealedIsStill` (`SealedWritesNothing`).

The second part, for the same constants, is `CurrentIsDurable`. The manager marks its
file current at the end of work that began before other steps changed memory and file;
the invariant has to say of every piece of work, stale or not, what it may still mark.
`Control` says who may write: of the two operations at most one is at a hop of the
microtask queue and at most one passes the commit guard (`Apart`), of two works in
`#diskTail` one waits for the other (`Turns`), and work that may write has the fence and
the claim, a repair the failure flag, and finds the manager not current while it is
dirty (`Held`, `Batching`). `Data`, until the manager is sealed, says what they write: a
staged body is memory but for entries that lost their mark or whose mark keeps the file
from being current (`BodyOk`); what memory has beyond a body that is about to be marked
was deferred to a batch, so `Marks` counts it as unmarked (`MarkOk`); the session leaves
a file with a body staged for it only for what stands there, and then that body does not
land (`PlaceOk`); a body that has landed is still there unless others have tampered
(`LandedOk`); what was read back and will be adopted is in memory (`ReadOk`); lines of a
rejected batch are in the file only while the failure is noted and nothing but a repair
may write (`LeftOver`); no file has another one's header (`Named`); and a file that
counts as current, with no failure, has what memory has (`Durable`). TLC checked both on
the instance of the run `journal` before they were proved. Theorem
`WhatIsCurrentIsDurable`.

Only model-checked: the liveness properties (`EverySpawnedAgentFinishes`,
`EveryCallSettles`, `ResultReachesOwner`, `QueuedIsSettled`, `SteeringReachesTools`,
`AbortEndsBatch`, `SteeringEndsBatch`), since the prover handles neither fairness nor
ENABLED.

## 8. Not modelled

In the modelled components: `mapWithConcurrencyLimit`; the manager's own `dispose()`
and `#disposed`; runs that are not kept alive; adoption without TTL or reviver; more
than one stray timer; vibe sessions that set `aborted` directly; listing and IRC
routing of the registry; and what section 3 names for each module. Hazards seen and not
modelled: a session returned by `ensureLive()` before its reviver has initialised it;
a reviver that fails after the session attached (agent-lifecycle.ts:408,
persisted-revive.ts:321); a wait that ends dropping the work pool's watch on the same
job (tools/wait.ts:298); an eval wait on several handles that consumes by id
(eval/handle-bridge.ts:259); background eval cells that recover a result between its
injection and its commit; a disposed session that cancels the jobs of its successor.
Elsewhere: see the notes in `PROJECT.json` "components".
Terminal UI, prompts, compaction, catalog data, the Rust text and shell algorithms,
SDKs and infrastructure hold no concurrent state a model checker could say more about
than their tests.
