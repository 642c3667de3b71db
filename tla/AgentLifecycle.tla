--------------------------- MODULE AgentLifecycle ---------------------------
(***************************************************************************)
(* AgentLifecycleManager and AgentRegistry for one agent id: the ref the   *)
(* id resolves to, the sessions built for it, its adoption and idle timer, *)
(* the park, revival and reopen in flight, and the calls of ensureLive(),  *)
(* release() and reclaimDeadCorpse() under way.  Every map of the manager  *)
(* is keyed by id and no operation mixes ids, so one id is the whole story.*)
(*                                                                         *)
(* A ref is one generation of the id (an AgentRef object); 0 is no ref.    *)
(* A session is one AgentSession object; 0 is null.  Code between two      *)
(* awaits is one step; an await is a pc.                                   *)
(***************************************************************************)
EXTENDS Naturals, FiniteSets

CONSTANTS
  Caller,      \* concurrent callers of ensureLive()
  Releaser,    \* concurrent callers of release()
  MaxRef,      \* bound: generations of the id in one behaviour
  MaxSession,  \* bound: sessions built in one behaviour
  Env          \* what the environment does besides calling ensureLive

Happening == {"kill", "removal", "spawn", "turns", "faults"}

ASSUME BoundAssumption ==
  /\ MaxRef \in Nat \ {0} /\ MaxSession \in Nat \ {0}
  /\ Env \subseteq Happening
  /\ 0 \notin Caller /\ "executor" \notin Caller

VARIABLES
  reg,      \* #refs.get(id): the registered ref, or 0
  ref,      \* status and session of every generation
  sess,     \* state of every session, the ref it was built for, who drives
            \* it ("run": the executor's first run), whether it is initialised
  adopted,  \* #adopted.get(id): ref, adopter, whether its timer is armed
  stray,    \* an armed timer whose adoption is no longer in #adopted (one is
            \* kept: the bound on timers left behind)
  park,     \* #parks.get(id)
  revival,  \* #revivals.get(id): its ref and the caller that runs it
  reopen,   \* #reopens.get(id): likewise
  call,     \* the ensureLive() call of each caller
  rel,      \* the release() call of each releaser
  spawn,    \* a createAgentSession of the same id as a fresh spawn
  marker,   \* the kill tombstone exists beside the transcript
  stale     \* history: work of a superseded generation has reached the registered
            \* one: a timer left behind parks it at work, or a revival took the place
            \* of its own

vars == <<reg, ref, sess, adopted, stray, park, revival, reopen, call, rel, spawn, marker,
          stale>>

Ref     == 1..MaxRef
Session == 1..MaxSession

NoAdoption == [ref |-> 0, by |-> "nobody", timer |-> FALSE]
NoPark     == [ref |-> 0, sess |-> 0, detached |-> FALSE, cancelled |-> FALSE]
NoFlight   == [ref |-> 0, owner |-> "nobody"]
NoCall     == [pc |-> "none", ref |-> 0, sess |-> 0, on |-> "nobody", cold |-> FALSE]
NoRelease  == [pc |-> "none", ref |-> 0, live |-> 0, tomb |-> FALSE, ok |-> TRUE,
               owned |-> FALSE]
NoSpawn    == [pc |-> "none", ref |-> 0]
Unborn     == [status |-> "unborn", session |-> 0]
Unbuilt    == [st |-> "unbuilt", ref |-> 0, by |-> "nobody", ready |-> FALSE]

Parked  == [status |-> "parked", session |-> 0]
Killed  == [status |-> "aborted", session |-> 0]

\* The id starts as a subagent in its first run, a transcript restored from
\* disk as parked, or one restored with its kill tombstone.
Init ==
  /\ reg = 1
  /\ \/ /\ ref = [r \in Ref |-> IF r = 1 THEN [status |-> "running", session |-> 1] ELSE Unborn]
        /\ sess = [s \in Session |-> IF s = 1
             THEN [st |-> "live", ref |-> 1, by |-> "run", ready |-> TRUE] ELSE Unbuilt]
        /\ marker = FALSE
     \/ /\ ref = [r \in Ref |-> IF r = 1 THEN Parked ELSE Unborn]
        /\ sess = [s \in Session |-> Unbuilt]
        /\ marker = FALSE
     \/ /\ ref = [r \in Ref |-> IF r = 1 THEN Killed ELSE Unborn]
        /\ sess = [s \in Session |-> Unbuilt]
        /\ marker = TRUE
  /\ adopted = NoAdoption /\ stray = FALSE /\ park = NoPark
  /\ revival = NoFlight /\ reopen = NoFlight
  /\ call = [c \in Caller |-> NoCall]
  /\ rel = [k \in Releaser |-> NoRelease]
  /\ spawn = NoSpawn
  /\ stale = FALSE

-----------------------------------------------------------------------------
\* The registry.

SessionOf(r) == IF r = 0 THEN 0 ELSE ref[r].session
StatusOf(r)  == IF r = 0 THEN "unborn" ELSE ref[r].status

\* The next generation and the next session, when the bounds leave one.
FreshRef(r)     == r \in Ref /\ ref[r] = Unborn /\ \A q \in 1..(r - 1) : ref[q] # Unborn
FreshSession(s) == s \in Session /\ sess[s] = Unbuilt /\ \A q \in 1..(s - 1) : sess[q] # Unbuilt
RefLeft     == \E r \in Ref : ref[r] = Unborn
SessionLeft == \E s \in Session : sess[s] = Unbuilt

\* #onRegistryEvent for the adoption a: a removed ref drops its adoption, a
\* running one stops its timer, an idle one starts it unless a park is in
\* flight.
OnRemoved(a, r) == IF a.ref = r THEN NoAdoption ELSE a
OnRunning(a, r) == IF a.ref = r THEN [a EXCEPT !.timer = FALSE] ELSE a
OnIdle(a, r)    == IF a.ref = r /\ park = NoPark THEN [a EXCEPT !.timer = TRUE] ELSE a

\* session.dispose() on s: it starts once.
Disposing(ss, s) ==
  [q \in Session |-> IF q = s /\ ss[q].st = "live" THEN [ss[q] EXCEPT !.st = "disposing"] ELSE ss[q]]

\* attachSession(id, s, r): the id still resolves to r, and r was not killed.
\* Mutated form: a killed ref takes a session.
AttachableKilled(r) == reg = r
Attachable(r) == reg = r /\ ref[r].status # "aborted"

\* registry.unregister(id, r)
Unregister(r) ==
  /\ reg' = IF reg = r THEN 0 ELSE reg
  /\ adopted' = IF reg = r THEN OnRemoved(adopted, r) ELSE adopted

\* An await has settled and its continuation is queued.  The microtask queue is
\* empty before the event loop runs a timer or completes an I/O operation, so
\* the steps that do (TimerFires, and all that follow the awaiting of I/O)
\* require ~Pending; calls from outside do not.
Pending ==
  \/ park # NoPark /\ (~park.detached \/ sess[park.sess].st = "disposed")
  \/ \E c \in Caller :
       \/ call[c].pc \in {"kept", "woken", "reopened", "rejecting"}
       \/ call[c].pc = "discarding" /\ sess[call[c].sess].st = "disposed"
  \/ \E k \in Releaser :
       \/ rel[k].pc = "commit"
       \/ rel[k].pc = "dispose" /\ sess[rel[k].live].st = "disposed"
       \/ rel[k].pc = "cleanup" /\ ~rel[k].owned
  \/ spawn.pc = "reclaimed"

\* sdk.ts: a disposed session forgets its ref unless the ref is parked, a
\* detached tombstone, being parked, or no longer registered.
Forgets(r) ==
  /\ reg = r /\ r # 0
  /\ ref[r].status # "parked"
  /\ ~(ref[r].status = "aborted" /\ ref[r].session = 0)
  /\ ~(park.ref = r /\ ~park.cancelled)

SessionDisposed(s) ==
  /\ sess[s].st = "disposing" /\ ~Pending
  /\ sess' = [sess EXCEPT ![s].st = "disposed"]
  /\ IF Forgets(sess[s].ref) THEN Unregister(sess[s].ref) ELSE UNCHANGED <<reg, adopted>>
  /\ UNCHANGED <<ref, stray, park, revival, reopen, call, rel, spawn, marker, stale>>

-----------------------------------------------------------------------------
\* Turns of a live session and the executor's hand-over.

\* A live session's run state reaches the registry (syncSessionStatus).
StartTurn ==
  /\ "turns" \in Env
  /\ StatusOf(reg) = "idle" /\ SessionOf(reg) # 0
  /\ LET s == ref[reg].session IN sess[s].st = "live" /\ sess[s].ready
  /\ ref' = [ref EXCEPT ![reg].status = "running"]
  /\ adopted' = OnRunning(adopted, reg)
  /\ UNCHANGED <<reg, sess, stray, park, revival, reopen, call, rel, spawn, marker, stale>>

EndTurn ==
  /\ StatusOf(reg) = "running" /\ SessionOf(reg) # 0
  /\ LET s == ref[reg].session IN sess[s].st = "live" /\ sess[s].ready /\ sess[s].by # "run"
  /\ ref' = [ref EXCEPT ![reg].status = "idle"]
  /\ adopted' = OnIdle(adopted, reg)
  /\ UNCHANGED <<reg, sess, stray, park, revival, reopen, call, rel, spawn, marker, stale>>

\* finalizeSubagentLifecycle.  A kept-alive run that still owns its ref sets it
\* idle and adopt()s it, which replaces an adoption, clears its timer and arms a
\* new one; a run that lost its ref disposes of its session.
Finish(s) ==
  /\ sess[s].by = "run" /\ sess[s].st = "live"
  /\ LET owned == reg = sess[s].ref /\ ref[reg].session = s
     IN \/ /\ owned
           /\ sess' = [sess EXCEPT ![s].by = "manager"]
           /\ ref' = [ref EXCEPT ![reg].status = "idle"]
           /\ adopted' = [ref |-> reg, by |-> "executor", timer |-> TRUE]
        \/ /\ ~owned
           /\ sess' = Disposing([sess EXCEPT ![s].by = "manager"], s)
           /\ UNCHANGED <<ref, adopted>>
  /\ UNCHANGED <<reg, stray, park, revival, reopen, call, rel, spawn, marker, stale>>

-----------------------------------------------------------------------------
\* park()

\* Everybody who awaits park.promise goes on once it settles.
\* Mutated form: only the call that cancelled the park does.
WokenKeepers ==
  [c \in Caller |->
     IF call[c].pc = "keeping" THEN [call[c] EXCEPT !.pc = "kept"] ELSE call[c]]
WokenCalls ==
  [c \in Caller |->
     CASE call[c].pc = "keeping" -> [call[c] EXCEPT !.pc = "kept"]
       [] call[c].pc = "waiting" -> [call[c] EXCEPT !.pc = "woken"]
       [] OTHER -> call[c]]
WokenReleases ==
  [k \in Releaser |->
     IF rel[k].pc = "parkWait" THEN [rel[k] EXCEPT !.pc = "commit"] ELSE rel[k]]

\* No park is in flight, and the id is adopted and live.
Parkable == park = NoPark /\ reg # 0 /\ reg = adopted.ref /\ SessionOf(reg) # 0

\* The adoption's timer, or a stray one, fires and calls park(id); the call
\* that finds nothing to park returns.
TimerFires ==
  /\ ~Pending
  /\ \E own \in BOOLEAN :
       /\ IF own THEN adopted.timer ELSE stray
       /\ stray' = (stray /\ own)
       /\ stale' = (stale \/ (~own /\ Parkable /\ StatusOf(reg) # "idle"))
       /\ \/ /\ Parkable
             /\ park' = [NoPark EXCEPT !.ref = reg, !.sess = ref[reg].session]
             /\ adopted' = [adopted EXCEPT !.timer = FALSE]
          \/ /\ ~Parkable
             /\ adopted' = [adopted EXCEPT !.timer = @ /\ ~own]
             /\ UNCHANGED park
  /\ UNCHANGED <<reg, ref, sess, revival, reopen, call, rel, spawn, marker>>

\* The park is still wanted and still about the session it began with.
ParkStands ==
  /\ ~park.cancelled
  /\ reg = park.ref /\ ref[park.ref].session = park.sess
  /\ adopted.ref = park.ref

\* The refs once the parked one is detached.
\* Mutated form: parked is published with the dying session still attached.
ParkedAttached(r) == [ref EXCEPT ![r].status = "parked"]
ParkedDetached(r) == [ref EXCEPT ![r] = Parked]

\* After the microtask: give up, or detach, publish parked, then dispose.
ParkCommits ==
  /\ park # NoPark /\ ~park.detached
  /\ \/ /\ ~ParkStands
        /\ park' = NoPark
        /\ call' = WokenCalls /\ rel' = WokenReleases
        /\ UNCHANGED <<ref, sess>>
     \/ /\ ParkStands
        /\ park' = [park EXCEPT !.detached = TRUE]
        /\ ref' = ParkedDetached(reg)
        /\ sess' = Disposing(sess, park.sess)
        /\ UNCHANGED <<call, rel>>
  /\ UNCHANGED <<reg, adopted, stray, revival, reopen, spawn, marker, stale>>

ParkEnds ==
  /\ park.detached /\ sess[park.sess].st = "disposed"
  /\ park' = NoPark
  /\ call' = WokenCalls /\ rel' = WokenReleases
  /\ UNCHANGED <<reg, ref, sess, adopted, stray, revival, reopen, spawn, marker, stale>>

-----------------------------------------------------------------------------
\* ensureLive(c)

Returned(c, s) == [call EXCEPT ![c] = [NoCall EXCEPT !.pc = "returned", !.sess = s]]
Failed(c)      == [call EXCEPT ![c] = [NoCall EXCEPT !.pc = "failed"]]
At(c, pc, r)   == [call EXCEPT ![c] = [NoCall EXCEPT !.pc = pc, !.ref = r]]
Joining(c, pc, r, o) ==
  [call EXCEPT ![c] = [NoCall EXCEPT !.pc = pc, !.ref = r, !.on = o]]

\* The revive path for ref r: its live session, the revival in flight for it,
\* or a revival of its own, warm from the adoption or cold from the factory.  The
\* revival of a ref that cannot be revived is rejected at once, and even that one
\* takes the place of another generation's in the map.
Continue(c, r) ==
  /\ \/ /\ ref[r].session # 0
        /\ call' = Returned(c, ref[r].session)
        /\ UNCHANGED revival
     \/ /\ ref[r].session = 0 /\ revival.ref = r
        /\ call' = Joining(c, "joinRevive", r, revival.owner)
        /\ UNCHANGED revival
     \/ /\ ref[r].session = 0 /\ revival.ref # r
        /\ \/ /\ adopted.ref = r /\ reg = r /\ ref[r].status = "parked"
              /\ call' = At(c, "reviving", r)
              /\ revival' = [ref |-> r, owner |-> c]
           \/ /\ adopted.ref # r /\ ref[r].status = "parked"
              /\ call' = At(c, "preparing", r)
              /\ revival' = [ref |-> r, owner |-> c]
           \/ /\ ref[r].status # "parked" \/ (adopted.ref = r /\ reg # r)
              /\ call' = At(c, "rejecting", r)
              /\ revival' = [ref |-> r, owner |-> c]
  /\ UNCHANGED reopen

\* From `let ref = registry.get(id)` on: unknown, killed, or known.
Lookup(c) ==
  \/ /\ reg = 0
     /\ call' = Failed(c) /\ UNCHANGED <<revival, reopen>>
  \/ /\ StatusOf(reg) = "aborted"
     /\ \/ /\ reopen.ref = reg
           /\ call' = Joining(c, "joinReopen", reg, reopen.owner)
           /\ UNCHANGED reopen
        \/ /\ reopen.ref # reg /\ ref[reg].session = 0
           /\ call' = At(c, "probing", reg)
           /\ reopen' = [ref |-> reg, owner |-> c]
        \/ /\ reopen.ref # reg /\ ref[reg].session # 0
           /\ call' = Failed(c) /\ UNCHANGED reopen
     /\ UNCHANGED revival
  \/ /\ reg # 0 /\ StatusOf(reg) # "aborted"
     /\ Continue(c, reg)

EnsureLive(c) ==
  /\ call[c].pc \in {"none", "returned", "failed"}
  /\ \/ /\ park # NoPark /\ SessionOf(reg) # 0 /\ ~park.detached
        /\ park' = [park EXCEPT !.cancelled = TRUE]
        /\ call' = At(c, "keeping", reg)
        /\ UNCHANGED <<revival, reopen>>
     \/ /\ park # NoPark /\ (SessionOf(reg) = 0 \/ park.detached)
        /\ call' = At(c, "waiting", 0)
        /\ UNCHANGED <<park, revival, reopen>>
     \/ /\ park = NoPark
        /\ Lookup(c) /\ UNCHANGED park
  /\ UNCHANGED <<reg, ref, sess, adopted, stray, rel, spawn, marker, stale>>

\* The idle timer the park stopped runs again for the session that was kept.
\* Mutated form: the timer is forgotten.
NotRearmed(c) == adopted
Rearmed(c) ==
  IF adopted.ref = call[c].ref /\ StatusOf(call[c].ref) = "idle"
  THEN [adopted EXCEPT !.timer = TRUE] ELSE adopted

\* The park this call cancelled is over: keep the session, or look again.
Kept(c) ==
  /\ call[c].pc = "kept"
  /\ \/ /\ SessionOf(reg) # 0
        /\ call' = Returned(c, SessionOf(reg))
        /\ adopted' = Rearmed(c)
        /\ UNCHANGED <<revival, reopen>>
     \/ /\ SessionOf(reg) = 0
        /\ Lookup(c) /\ UNCHANGED adopted
  /\ UNCHANGED <<reg, ref, sess, stray, park, rel, spawn, marker, stale>>

WokenByPark(c) ==
  /\ call[c].pc = "woken"
  /\ Lookup(c)
  /\ UNCHANGED <<reg, ref, sess, adopted, stray, park, rel, spawn, marker, stale>>

\* Whether the persisted factory may build a reviver for a transcript: it can
\* also find no session contract, or fail.
FactoryAnswers == {"reviver", "nothing"}

\* The flight f is over when its owner's await returns (`finally`).
Landed(f, c) == IF f.owner = c THEN NoFlight ELSE f

\* #reopenKilled after the probe: a fresh parked generation replaces the
\* killed ref if the id still resolves to that detached tombstone.
Probed(c, answer) ==
  /\ call[c].pc = "probing" /\ ~Pending
  /\ LET killed == call[c].ref
     IN \/ /\ answer = "reviver" /\ RefLeft
           /\ reg = killed /\ ref[killed] = Killed
           /\ \E r \in Ref :
                /\ FreshRef(r)
                /\ ref' = [ref EXCEPT ![r] = Parked]
                /\ reg' = r
                /\ call' = At(c, "unmarking", r)
           /\ UNCHANGED reopen
        \/ /\ answer = "nothing" \/ reg # killed \/ ref[killed] # Killed
           /\ call' = [d \in Caller |->
                         IF d = c \/ (call[d].pc = "joinReopen" /\ call[d].on = c)
                         THEN [NoCall EXCEPT !.pc = "failed"] ELSE call[d]]
           /\ reopen' = Landed(reopen, c)
           /\ UNCHANGED <<reg, ref>>
  /\ UNCHANGED <<sess, adopted, stray, park, revival, rel, spawn, marker, stale>>

\* removeAgentTombstone is done: the reopen settles for everyone who joined it.
Unmarked(c) ==
  /\ call[c].pc = "unmarking" /\ ~Pending
  /\ marker' = FALSE
  /\ call' = [d \in Caller |->
                IF d = c \/ (call[d].pc = "joinReopen" /\ call[d].on = c)
                THEN [NoCall EXCEPT !.pc = "reopened", !.ref = call[c].ref] ELSE call[d]]
  /\ reopen' = Landed(reopen, c)
  /\ UNCHANGED <<reg, ref, sess, adopted, stray, park, revival, rel, spawn, stale>>

Reopened(c) ==
  /\ call[c].pc = "reopened"
  /\ Continue(c, call[c].ref)
  /\ stale' = (stale \/ (revival' # revival /\ revival.ref = reg /\ reg \notin {0, call[c].ref}))
  /\ UNCHANGED <<reg, ref, sess, adopted, stray, park, rel, spawn, marker>>

\* The caller's revival settles: the caller and everyone who joined it get
\* the outcome.
Settled(c, outcome) ==
  /\ call' = [d \in Caller |->
                IF d = c \/ (call[d].pc = "joinRevive" /\ call[d].on = c)
                THEN outcome ELSE call[d]]
  /\ revival' = Landed(revival, c)

\* The await of a rejected revival is over: the entry goes, if it is still its own.
Rejected(c) ==
  /\ call[c].pc = "rejecting"
  /\ Settled(c, [NoCall EXCEPT !.pc = "failed"])
  /\ UNCHANGED <<reg, ref, sess, adopted, stray, park, reopen, rel, spawn, marker, stale>>

\* A failed cold revive takes back its own adoption, but not its timer.
ReviveFails(c) ==
  LET mine == call[c].cold /\ adopted.by = c /\ adopted.ref = call[c].ref
  IN /\ Settled(c, [NoCall EXCEPT !.pc = "failed"])
     /\ adopted' = IF mine THEN NoAdoption ELSE adopted
     /\ stray' = (stray \/ (mine /\ adopted.timer))

\* #resolveAndRevive after the factory: adopt, then check that the id still
\* resolves to the ref the reviver is for.
Prepared(c, answer) ==
  /\ call[c].pc = "preparing" /\ ~Pending
  /\ LET r == call[c].ref
     IN \/ /\ answer = "reviver"
           /\ adopted' = [ref |-> r, by |-> c, timer |-> FALSE]
           /\ stray' = (stray \/ adopted.timer)
           /\ IF reg = r /\ ref[r].status = "parked"
              THEN /\ call' = [call EXCEPT ![c].pc = "reviving", ![c].cold = TRUE]
                   /\ UNCHANGED revival
              ELSE Settled(c, [NoCall EXCEPT !.pc = "failed"])
        \/ /\ answer = "nothing"
           /\ Settled(c, [NoCall EXCEPT !.pc = "failed"])
           /\ UNCHANGED <<adopted, stray>>
  /\ UNCHANGED <<reg, ref, sess, park, reopen, rel, spawn, marker, stale>>

\* createAgentSession claims the expected ref before it builds the session.
Claims(c) ==
  /\ call[c].pc = "reviving" /\ ~Pending
  /\ \/ /\ reg = call[c].ref /\ ref[reg] = Parked
        /\ call' = [call EXCEPT ![c].pc = "building"]
        /\ UNCHANGED <<revival, adopted, stray>>
     \/ /\ reg # call[c].ref \/ ref[call[c].ref] # Parked
        /\ ReviveFails(c)
  /\ UNCHANGED <<reg, ref, sess, park, reopen, rel, spawn, marker, stale>>

\* createAgentSession attaches the session it built and sets it running,
\* unless the ref was replaced or killed; the reviver goes on initialising it.
Attaches(c) ==
  /\ call[c].pc = "building" /\ ~Pending
  /\ LET r == call[c].ref
     IN \/ /\ Attachable(r)
           /\ \E s \in Session :
                /\ FreshSession(s)
                /\ sess' = [sess EXCEPT ![s] =
                     [st |-> "live", ref |-> r, by |-> "manager", ready |-> FALSE]]
                /\ ref' = [ref EXCEPT ![r] = [status |-> "running", session |-> s]]
                /\ call' = [call EXCEPT ![c].pc = "initialising", ![c].sess = s]
           /\ adopted' = OnRunning(adopted, r)
           /\ UNCHANGED <<revival, stray>>
        \/ /\ ~Attachable(r) \/ "faults" \in Env \/ ~SessionLeft
           /\ ReviveFails(c)
           /\ UNCHANGED <<sess, ref>>
  /\ UNCHANGED <<reg, park, reopen, rel, spawn, marker, stale>>

\* #revive after the reviver returned session s: attach it if nobody has,
\* accept it if this ref still runs it, discard it otherwise.
Initialised(c) ==
  /\ call[c].pc = "initialising" /\ ~Pending
  /\ LET r == call[c].ref
         s == call[c].sess
         attachable == reg = r /\ ref[r] = Parked
         claimed    == reg = r /\ ref[r] = [status |-> "running", session |-> s]
     IN \/ /\ attachable \/ claimed
           /\ sess' = [sess EXCEPT ![s].ready = TRUE]
           /\ ref' = [ref EXCEPT ![r] = [status |-> "idle", session |-> s]]
           /\ adopted' = OnIdle(adopted, r)
           /\ Settled(c, [NoCall EXCEPT !.pc = "returned", !.sess = s])
        \/ /\ ~(attachable \/ claimed)
           /\ sess' = Disposing([sess EXCEPT ![s].ready = TRUE], s)
           /\ call' = [call EXCEPT ![c].pc = "discarding"]
           /\ UNCHANGED <<ref, adopted, revival>>
  /\ UNCHANGED <<reg, stray, park, reopen, rel, spawn, marker, stale>>

\* The reviver fails after createAgentSession attached its session.
InitialisationFails(c) ==
  /\ "faults" \in Env
  /\ call[c].pc = "initialising" /\ ~Pending
  /\ ReviveFails(c)
  /\ UNCHANGED <<reg, ref, sess, park, reopen, rel, spawn, marker, stale>>

Discarded(c) ==
  /\ call[c].pc = "discarding"
  /\ sess[call[c].sess].st = "disposed"
  /\ ReviveFails(c)
  /\ UNCHANGED <<reg, ref, sess, park, reopen, rel, spawn, marker, stale>>

-----------------------------------------------------------------------------
\* release(k): with tomb an explicit kill, without it a removal

\* From the reading of `live` on: the terminal transition of a kill, or the
\* start of the disposal.
Commit(k, r, tomb, owned) ==
  LET live == IF reg = r THEN ref[r].session ELSE 0
      next == IF tomb THEN "persist" ELSE IF live # 0 THEN "dispose" ELSE "cleanup"
  IN /\ rel' = [rel EXCEPT ![k] =
          [NoRelease EXCEPT !.pc = next, !.ref = r, !.live = live, !.tomb = tomb,
                            !.owned = owned]]
     /\ ref' = IF tomb /\ reg = r THEN [ref EXCEPT ![r] = Killed] ELSE ref
     /\ sess' = IF ~tomb /\ live # 0 THEN Disposing(sess, live) ELSE sess

ReleaseBegins(k, tomb) ==
  /\ rel[k].pc \in {"none", "done"}
  /\ tomb => "kill" \in Env
  /\ ~tomb => "removal" \in Env
  /\ LET r == IF reg # 0 THEN reg ELSE adopted.ref
         owned == adopted.ref = r /\ adopted.by = "executor"
     IN /\ r # 0
        /\ adopted' = IF adopted.ref = r THEN NoAdoption ELSE adopted
        /\ \/ /\ park.ref = r
              /\ park' = [park EXCEPT !.cancelled = @ \/ ~park.detached]
              /\ rel' = [rel EXCEPT ![k] =
                   [NoRelease EXCEPT !.pc = "parkWait", !.ref = r, !.tomb = tomb,
                                     !.owned = owned]]
              /\ UNCHANGED <<ref, sess>>
           \/ /\ park.ref # r
              /\ Commit(k, r, tomb, owned)
              /\ UNCHANGED park
  /\ UNCHANGED <<reg, stray, revival, reopen, call, spawn, marker, stale>>

ReleaseCommits(k) ==
  /\ rel[k].pc = "commit"
  /\ Commit(k, rel[k].ref, rel[k].tomb, rel[k].owned)
  /\ UNCHANGED <<reg, adopted, stray, park, revival, reopen, call, spawn, marker, stale>>

\* The captured session is disposed of whether or not the sidecar was written.
\* Mutated form: the failed write skips the disposal.
DisposesIfWritten(k, written) ==
  IF written /\ rel[k].live # 0 THEN Disposing(sess, rel[k].live) ELSE sess
DisposesCaptured(k, written) ==
  IF rel[k].live # 0 THEN Disposing(sess, rel[k].live) ELSE sess

\* persistAgentTombstone: an existing marker is fine; a failure is thrown to
\* the caller after the cleanup.
Persisted(k) ==
  /\ rel[k].pc = "persist" /\ ~Pending
  /\ \E written \in IF "faults" \in Env THEN BOOLEAN ELSE {TRUE} :
       /\ marker' = (marker \/ written)
       /\ rel' = [rel EXCEPT ![k].pc = IF rel[k].live # 0 THEN "dispose" ELSE "cleanup",
                             ![k].ok = written]
       /\ sess' = DisposesCaptured(k, written)
  /\ UNCHANGED <<reg, ref, adopted, stray, park, revival, reopen, call, spawn, stale>>

Disposed(k) ==
  /\ rel[k].pc = "dispose" /\ sess[rel[k].live].st = "disposed"
  /\ rel' = [rel EXCEPT ![k].pc = "cleanup"]
  /\ UNCHANGED <<reg, ref, sess, adopted, stray, park, revival, reopen, call, spawn, marker,
                 stale>>

\* onRelease is done (only the executor's adoption has one); a removal
\* unregisters the ref.
ReleaseEnds(k) ==
  /\ rel[k].pc = "cleanup"
  /\ rel' = [rel EXCEPT ![k].pc = "done"]
  /\ IF rel[k].tomb THEN UNCHANGED <<reg, adopted>> ELSE Unregister(rel[k].ref)
  /\ UNCHANGED <<ref, sess, stray, park, revival, reopen, call, spawn, marker, stale>>

-----------------------------------------------------------------------------
\* A fresh spawn of the same id (createAgentSession with a null expected ref)

\* reclaimDeadCorpse: a parked ref nobody owns, restores or parks
Reclaimable(r) ==
  /\ reg = r /\ r # 0 /\ ref[r] = Parked
  /\ adopted = NoAdoption /\ park = NoPark /\ revival = NoFlight

\* register(), for a spawn
Registers ==
  /\ reg = 0
  /\ \E r \in Ref :
       /\ FreshRef(r)
       /\ ref' = [ref EXCEPT ![r] = [status |-> "running", session |-> 0]]
       /\ reg' = r
       /\ spawn' = [pc |-> "constructing", ref |-> r]

SpawnBegins ==
  /\ "spawn" \in Env /\ spawn = NoSpawn
  /\ RefLeft /\ SessionLeft
  /\ \/ Registers
     \/ /\ Reclaimable(reg)
        /\ spawn' = [pc |-> "probing", ref |-> reg]
        /\ UNCHANGED <<reg, ref>>
  /\ UNCHANGED <<sess, adopted, stray, park, revival, reopen, call, rel, marker, stale>>

\* The factory can revive the corpse, or every check is made again and the
\* corpse is unregistered.
SpawnProbed(answer) ==
  /\ spawn.pc = "probing" /\ ~Pending
  /\ \/ /\ answer = "nothing" /\ Reclaimable(spawn.ref)
        /\ Unregister(spawn.ref)
        /\ spawn' = [pc |-> "reclaimed", ref |-> 0]
     \/ /\ answer = "reviver" \/ ~Reclaimable(spawn.ref)
        /\ spawn' = NoSpawn
        /\ UNCHANGED <<reg, adopted>>
  /\ UNCHANGED <<ref, sess, stray, park, revival, reopen, call, rel, marker, stale>>

SpawnClaims ==
  /\ spawn.pc = "reclaimed"
  /\ Registers
  /\ UNCHANGED <<sess, adopted, stray, park, revival, reopen, call, rel, marker, stale>>

\* The session of the spawn attaches to its ref; a construction that failed or
\* lost its ref forgets it (unregisterUnlessParked).
SpawnAttaches ==
  /\ spawn.pc = "constructing" /\ ~Pending
  /\ LET r == spawn.ref
     IN \/ /\ Attachable(r)
           /\ \E s \in Session :
                /\ FreshSession(s)
                /\ sess' = [sess EXCEPT ![s] =
                     [st |-> "live", ref |-> r, by |-> "run", ready |-> TRUE]]
                /\ ref' = [ref EXCEPT ![r] = [status |-> "running", session |-> s]]
           /\ adopted' = OnRunning(adopted, r)
           /\ UNCHANGED reg
        \/ /\ ~Attachable(r) \/ "faults" \in Env \/ ~SessionLeft
           /\ IF Forgets(r) THEN Unregister(r) ELSE UNCHANGED <<reg, adopted>>
           /\ UNCHANGED <<sess, ref>>
  /\ spawn' = NoSpawn
  /\ UNCHANGED <<stray, park, revival, reopen, call, rel, marker, stale>>

-----------------------------------------------------------------------------

\* What the manager, the registry and the I/O they await do by themselves.
CallStep(c) ==
  \/ Kept(c) \/ WokenByPark(c) \/ Unmarked(c) \/ Reopened(c) \/ Rejected(c)
  \/ (\E answer \in FactoryAnswers : Probed(c, answer) \/ Prepared(c, answer))
  \/ Claims(c) \/ Attaches(c) \/ Initialised(c) \/ InitialisationFails(c) \/ Discarded(c)

ReleaseStep(k) == ReleaseCommits(k) \/ Persisted(k) \/ Disposed(k) \/ ReleaseEnds(k)

Next ==
  \/ \E s \in Session : SessionDisposed(s) \/ Finish(s)
  \/ StartTurn \/ EndTurn
  \/ TimerFires \/ ParkCommits \/ ParkEnds
  \/ \E c \in Caller : EnsureLive(c) \/ CallStep(c)
  \/ \E k \in Releaser : ReleaseStep(k) \/ \E tomb \in BOOLEAN : ReleaseBegins(k, tomb)
  \/ SpawnBegins \/ SpawnClaims \/ SpawnAttaches
  \/ \E answer \in FactoryAnswers : SpawnProbed(answer)

\* The event loop drains its microtasks, then completes I/O, and again: a settled
\* await goes on, and an operation that is due whenever the queue is empty is
\* completed (strong fairness), even if callers keep filling the queue.  Disposal,
\* the revivers and the file system answer; nobody has to call, kill, spawn or
\* start a turn.
Fairness ==
  /\ \A s \in Session : SF_vars(SessionDisposed(s))
  /\ WF_vars(ParkCommits) /\ WF_vars(ParkEnds) /\ WF_vars(SpawnClaims)
  /\ \A c \in Caller : SF_vars(CallStep(c))
  /\ \A k \in Releaser : SF_vars(ReleaseStep(k))

Spec == Init /\ [][Next]_vars
FairSpec == Spec /\ Fairness

-----------------------------------------------------------------------------

StatusSet == {"unborn", "running", "idle", "parked", "aborted"}
StateSet  == {"unbuilt", "live", "disposing", "disposed"}
CallPc == {"none", "keeping", "waiting", "kept", "woken", "probing", "joinReopen",
           "unmarking", "reopened", "rejecting", "preparing", "reviving", "building",
           "initialising", "discarding", "joinRevive", "returned", "failed"}
\* The states in which a call works on a revival of its own.
Reviving == {"preparing", "reviving", "building", "initialising"}
RelPc == {"none", "parkWait", "commit", "persist", "dispose", "cleanup", "done"}
SpawnPc == {"none", "probing", "reclaimed", "constructing"}
Ref0     == Ref \cup {0}
Session0 == Session \cup {0}
Actor    == Caller \cup {"nobody", "executor"}
Flight   == [ref : Ref0, owner : Actor]
RefRecord == [status : StatusSet, session : Session0]
SessRecord == [st : StateSet, ref : Ref0, by : {"nobody", "run", "manager"}, ready : BOOLEAN]
Adoption == [ref : Ref0, by : Actor, timer : BOOLEAN]
ParkRecord == [ref : Ref0, sess : Session0, detached : BOOLEAN, cancelled : BOOLEAN]
CallRecord == [pc : CallPc, ref : Ref0, sess : Session0, on : Actor, cold : BOOLEAN]
RelRecord ==
  [pc : RelPc, ref : Ref0, live : Session0, tomb : BOOLEAN, ok : BOOLEAN, owned : BOOLEAN]

\* The types of the variables.
TypeOK ==
  /\ reg \in Ref0
  /\ ref \in [Ref -> RefRecord]
  /\ sess \in [Session -> SessRecord]
  /\ adopted \in Adoption
  /\ stray \in BOOLEAN
  /\ park \in ParkRecord
  /\ revival \in Flight /\ reopen \in Flight
  /\ call \in [Caller -> CallRecord]
  /\ rel \in [Releaser -> RelRecord]
  /\ spawn \in [pc : SpawnPc, ref : Ref0]
  /\ marker \in BOOLEAN
  /\ stale \in BOOLEAN

\* A session attached to a ref was built for that ref and is live: parking and
\* killing detach it before they dispose of it (the AgentRef invariant that
\* unregisterUnlessParked relies on).  Removals dispose first: without them.
\* Once stale work has reached the registered generation all bets are off: a
\* stray timer can park a session its reviver is still initialising, which
\* #revive then attaches.
AttachedIsLive ==
  \A r \in Ref : ref[r].session # 0 /\ ~stale =>
    /\ sess[ref[r].session].st = "live"
    /\ sess[ref[r].session].ref = r

\* A live session can be reached: the registered ref holds it, or an operation
\* under way will hand it on or dispose of it (park and release dispose the
\* session they captured, a revival discards the one it cannot use, and a run
\* that lost its ref disposes of its own at its end).  Not once the revival of another
\* generation, be it one that fails at once, has displaced the one in flight for
\* the registered ref, which is then revived twice (OneRevivalPerRef).
NoOrphanSession ==
  \A s \in Session : sess[s].st = "live" /\ ~stale =>
    \/ SessionOf(reg) = s
    \/ \E c \in Caller : call[c].pc = "initialising" /\ call[c].sess = s
    \/ \E k \in Releaser : rel[k].pc = "persist" /\ rel[k].live = s
    \/ sess[s].by = "run"

\* A killed ref that is still registered carries the kill on disk once every
\* release() of it has returned, unless the write of the sidecar failed.
KilledHasMarker ==
  (/\ StatusOf(reg) = "aborted"
   /\ \A k \in Releaser : rel[k].ref = reg => rel[k].pc = "done" /\ rel[k].ok)
     => marker

\* An idle adopted agent does not stay in memory for ever: its idle timer is
\* armed, or the park in flight, or the ensureLive() that cancelled it, will see
\* to it.  (For an id that was never killed: a reopened one can be revived while
\* a park of it is still disposing.)
IdleIsTimed ==
  (/\ StatusOf(reg) = "idle" /\ adopted.ref = reg
   /\ \A r \in Ref : ref[r].status # "aborted") =>
    \/ adopted.timer
    \/ park # NoPark
    \/ \E c \in Caller : call[c].pc = "kept"

\* An ensureLive() that returns hands out a live session ("A disposing session
\* is never handed out"), as long as no stale work has reached the generation.
Answers(c) == call'[c].pc = "returned" /\ call'[c] # call[c]
NeverHandsOutDisposing ==
  [][\A c \in Caller : Answers(c) /\ ~stale' => sess'[call'[c].sess].st = "live"]_vars

\* A killed generation and a retired one never change again, whatever work was
\* bound to them when they went: only reopen() and register() follow, with a
\* ref of their own.
DeadStaysDead ==
  [][\A r \in Ref : (ref[r].status = "aborted" \/ (r # reg /\ ref[r] # Unborn))
        => ref'[r] = ref[r] /\ (reg' = r => reg = r)]_vars

\* Stale work leaves the adoption of the registered ref alone: it is dropped or
\* replaced by an adoption of the ref the id resolves to, never by another's.
StaleNeverClobbers ==
  [][(adopted.ref = reg /\ adopted' # adopted) => adopted'.ref \in {0, reg}]_vars

\* A killed agent is reopened only after its session has stopped ("still
\* shutting down after its kill; retry once it has stopped").
ReopensAfterShutdown ==
  [][(StatusOf(reg) = "aborted" /\ reg' \notin {0, reg})
        => \A s \in Session : sess[s].ref = reg => sess[s].st = "disposed"]_vars

\* The registered generation is revived by one call at a time ("Concurrent calls
\* share one in-flight revive"; "so concurrent ensureLive calls coalesce").
OneRevivalPerRef ==
  \A c, d \in Caller :
    (c # d /\ call[c].pc \in Reviving /\ call[d].pc \in Reviving) =>
      call[c].ref # reg \/ call[d].ref # reg

\* Whoever calls ensureLive() gets an answer, a session or an error, whatever
\* parks, kills and revives around the call.
EveryCallSettles ==
  \A c \in Caller :
    (call[c].pc \notin {"none", "returned", "failed"}) ~> (call[c].pc \in {"returned", "failed"})
=============================================================================
