--------------------------- MODULE SessionJournal ---------------------------
(***************************************************************************)
(* The transcript of one session: SessionManager of session-manager.ts on  *)
(* FileSessionStorage.  The manager keeps all entries in memory and one    *)
(* line per entry in a file.  A completed entry is written before its      *)
(* append returns: as a line at the end (the hot path) or, when the file   *)
(* does not reflect memory, by a synchronous rewrite of the whole file.    *)
(* Asynchronous rewrites, atomic batches of entries and repairs after a    *)
(* failed batch stage a body and rename it over the file; a synchronous    *)
(* rewrite meanwhile starts a new disk epoch, and the staged body must not *)
(* land.  Other processes append to the file, own the session's lease,     *)
(* delete the file or put another journal in its place.                    *)
(*                                                                         *)
(* An entry is a number, in the order of recording; those above MaxEntry   *)
(* were written by others.  File 1 is the session's first file, f + 1 the  *)
(* sibling it moves to from f, and f is also the session id in the header. *)
(* The disk epoch is only compared for equality: a piece of asynchronous   *)
(* work is `stale` when the epoch has moved since the work was scheduled.  *)
(* A synchronous write is one step: the publish lock keeps other writers   *)
(* out, and what they do between its passes is left out.                   *)
(***************************************************************************)
EXTENDS Integers, Sequences, SequencesExt, Filter

CONSTANTS
  MaxEntry,     \* bound: entries this manager records
  MaxAlien,     \* bound: lines other writers append
  MaxFile,      \* bound: the session's file and its siblings
  MaxTrouble,   \* bound: failing writes and what other processes do; tampering counts two
  MaxRecovery   \* MAX_WRITE_CONFLICT_RECOVERIES

ASSUME JournalAssumption ==
  /\ {MaxEntry, MaxAlien, MaxTrouble, MaxRecovery} \subseteq Nat
  /\ MaxFile \in Nat \ {0}

Own == 1..MaxEntry
Alien == MaxEntry + 1 .. MaxEntry + MaxAlien
File == 1..MaxFile
Stranger == MaxFile + 1

\* The contents of a file: the session id in its header (0 when it has none) and its lines.
Missing == [id |-> 0, lines |-> <<>>]
Journal(f, lines) == [id |-> f, lines |-> lines]

\* The size the storage compares before it replaces a file.  Lines differ in length, so a
\* size tells which lines a file has; the header of another session counts as a line.
Absent == {-1}
SizeOf(lines) == ToSet(lines)
Size(content) ==
  IF content = Missing THEN Absent
  ELSE SizeOf(content.lines) \cup (IF content.id \in File THEN {} ELSE {0})

Actor == {"rewrite", "batch"}
\* Stretches of asynchronous work, named for what it awaits: I/O, or the promise of work
\* that has ended, whose continuation is a microtask.
IOPc == {"staging", "reading", "verifying", "checking"}
HopPc == {"closing", "published", "marking", "conflict", "resolving", "verified", "checked", "failing",
          "collecting", "deciding", "repaired"}
TailPc == {"queued", "flushing", "draining"}
RestPc == {"idle", "rejected"}
Pc == RestPc \cup IOPc \cup HopPc \cup TailPc

\* No operation.  `waits` is the work ahead in the disk queue, `tries` the recoveries from
\* conflicts; `body`, `expect` and `target` are what was staged, `seen` what was read back.
Idle == [pc |-> "idle", repair |-> FALSE, ensure |-> FALSE, stale |-> FALSE, waits |-> {},
         tries |-> 0, body |-> <<>>, expect |-> Absent, target |-> 1, superseded |-> FALSE,
         seen |-> Missing]
\* The batch was rejected; its caller may ask for a repair.
Rejected == [Idle EXCEPT !.pc = "rejected"]

VARIABLES
  m,        \* the manager's fields (see Init)
  op,       \* the asynchronous operation of each actor
  disk,     \* the files
  lease,    \* another live process owns session 1
  world,    \* troubles so far; lines of others among them; the files tampered with
  history   \* entries of each batch; those deferred to one; those that a rewrite which was
            \* not to write them unmarked; those of a rejected batch: read by no action

vars == <<m, op, disk, lease, world, history>>

\* A session whose file exists: it was resumed, or ensureOnDisk has created it.
Init ==
  /\ m = [entries |-> <<>>, next |-> 1, file |-> 1, expected |-> SizeOf(<<>>), current |-> TRUE,
          required |-> FALSE, failed |-> FALSE, released |-> FALSE, fence |-> FALSE,
          dirty |-> FALSE, claimed |-> FALSE, writer |-> FALSE, batch |-> FALSE, staged |-> {}]
  /\ disk = [f \in File |-> IF f = 1 THEN Journal(1, <<>>) ELSE Missing]
  /\ op = [a \in Actor |-> Idle]
  /\ lease = FALSE
  /\ world = [troubles |-> 0, aliens |-> 0, tampered |-> {}]
  /\ history = [batches |-> {}, deferred |-> {}, unmarked |-> {}, rejected |-> {}]

-----------------------------------------------------------------------------
\* Ownership, moves and recovery.  They change the manager only.

\* The storage refuses a claim while another process owns the session or its path holds
\* another journal.
Claimable(x) == disk[x.file].id \in {0, x.file} /\ ~(lease /\ x.file = 1)

\* #claimSession: a held claim is not looked at again.
Claim(x) == [x EXCEPT !.claimed = @ \/ Claimable(x)]

\* #sessionOwnedElsewhere
OwnedElsewhere(x) == ~x.released /\ ~Claim(x).claimed

\* #moveOffSessionFile: on to a sibling under a new session id, which nobody else has.
MovedOff(x) == [x EXCEPT !.file = @ + 1, !.expected = Absent, !.current = FALSE, !.required = TRUE,
                         !.writer = FALSE, !.claimed = TRUE]

\* Where the next full write goes.
Housed(x) == IF x.released THEN x ELSE IF OwnedElsewhere(x) THEN MovedOff(x) ELSE Claim(x)

\* #adoptForeignEntries: keep the lines another writer added.
\* Mutated form: it takes the size and drops the lines.
AdoptedSizeOnly(x, content) == [x EXCEPT !.expected = Size(content)]
Adopted(x, content) ==
  [x EXCEPT !.entries = @ \o Without(content.lines, ToSet(x.entries)),
            !.expected = Size(content)]

\* #recoverFromWriteConflict, when it has read the contested file back.
Recovered(x, content) ==
  IF content = Missing THEN [x EXCEPT !.expected = Absent]
  ELSE IF content.id # x.file THEN MovedOff(x)
  ELSE Adopted(x, content)

-----------------------------------------------------------------------------
\* Synchronous writes.

\* A write fails for a reason other than a conflict.
Trouble(w, cost) == w.troubles + cost <= MaxTrouble /\ world' = [w EXCEPT !.troubles = @ + cost]
Fault == Trouble(world, 1)

\* A new epoch leaves all work of the old one stale, and its tail behind.
Overtaken(o) ==
  IF o.pc \in RestPc THEN o
  ELSE [o EXCEPT !.stale = TRUE, !.superseded = o.pc \in {"reading", "resolving"}]
Stale == [a \in Actor |-> Overtaken(op[a])]

\* The body x has in memory replaces x's file.
Published(x, f, lines) ==
  /\ disk' = [disk EXCEPT ![f] = Journal(f, lines)]
  /\ world' = [world EXCEPT !.tampered = @ \ {f}]

\* #rewriteSynchronously: publish everything, or latch the failure.  A conflict is recovered
\* from once; a fresh file that already exists is not.
RewriteSynchronously(x) ==
  LET y == [Housed(x) EXCEPT !.writer = FALSE, !.fence = FALSE]
      clash == Size(disk[y.file]) # y.expected
      z == IF clash THEN Recovered(y, disk[y.file]) ELSE y
      final == IF clash /\ y.expected = Absent THEN y ELSE z
  IN /\ final.file \in File
     /\ op' = Stale
     /\ \/ /\ ~(clash /\ y.expected = Absent)
           /\ Published(z, z.file, z.entries)
           /\ m' = [z EXCEPT !.failed = FALSE, !.expected = SizeOf(z.entries),
                             !.current = TRUE, !.required = FALSE]
        \/ /\ m' = [final EXCEPT !.failed = TRUE]
           /\ UNCHANGED disk
           /\ IF clash /\ y.expected = Absent THEN UNCHANGED world ELSE Fault

\* A line at the end of the writer's file.  The writer follows a path that was replaced,
\* keeps its file when the path is gone, and creates the file when it opens one.
Landed(x, e) ==
  IF disk[x.file] # Missing THEN [disk EXCEPT ![x.file].lines = Append(@, e)]
  ELSE IF x.writer THEN disk
  ELSE [disk EXCEPT ![x.file] = Journal(0, <<e>>)]

\* The hot path: the line is written before append returns, or the failure latched.
AppendLine(x, e) ==
  /\ UNCHANGED op
  /\ \/ /\ disk' = Landed(x, e)
        /\ m' = [x EXCEPT !.writer = TRUE, !.expected = (@ \ Absent) \cup {e}]
        /\ UNCHANGED world
     \/ /\ Fault
        /\ m' = [x EXCEPT !.writer = TRUE, !.failed = TRUE, !.current = FALSE, !.required = TRUE]
        /\ UNCHANGED disk

\* #recordEntry
Record(x, e) == [x EXCEPT !.entries = Append(@, e), !.next = @ + 1]

\* Memory is ahead of the file.
Diverged(x) == [x EXCEPT !.current = FALSE, !.required = TRUE]

\* An entry recorded during a batch is left to the rewrite that commits it.
\* Mutated form: the rewrite is not asked for another pass.
DeferredUnmarked(x) == Diverged(x)
Deferred(x) == [Diverged(x) EXCEPT !.dirty = TRUE]

\* appendMessage and its kind: an entry is completed (#recordEntry, #appendToSessionFile).
AppendEntry ==
  LET x == Record(m, m.next)
      y == IF m.failed THEN Diverged(x) ELSE x
      cold == y.fence \/ ~y.current \/ y.required \/ OwnedElsewhere(y)
  IN /\ ~m.released /\ m.next \in Own
     /\ UNCHANGED lease
     /\ \/ /\ m.batch /\ m' = Deferred(x) /\ UNCHANGED <<op, disk, world>>
           /\ history' = [history EXCEPT !.deferred = @ \cup {m.next}]
        \/ /\ ~m.batch /\ UNCHANGED history
           /\ IF cold THEN RewriteSynchronously([y EXCEPT !.dirty = @ \/ y.fence])
              ELSE AppendLine(Claim(y), m.next)

\* flushSync: it throws while a failure is latched, and a current file needs nothing.
FlushSync ==
  /\ ~m.released /\ ~m.batch /\ ~m.failed
  /\ ~m.current \/ m.required
  /\ RewriteSynchronously(m)
  /\ UNCHANGED <<lease, history>>

\* seal: the last barrier of a session that is disposed of.
Seal ==
  /\ ~m.released
  /\ m' = [m EXCEPT !.released = TRUE, !.fence = FALSE]
  /\ op' = Stale
  /\ UNCHANGED <<disk, lease, world, history>>

-----------------------------------------------------------------------------
\* The disk queue (#scheduleDiskWork).

\* a's work is in the queue of the current epoch.
InTail(a) == ~op[a].stale /\ ~op[a].repair /\ op[a].pc \notin RestPc \cup {"collecting", "deciding"}
Before(a) == {b \in Actor \ {a} : InTail(b)}

\* a's operation once its work in the queue has been scheduled or has ended.
Scheduled(a, ensure) == [Idle EXCEPT !.pc = "queued", !.ensure = ensure, !.waits = Before(a)]
Flushing(a) == [Idle EXCEPT !.pc = "flushing", !.waits = Before(a)]
Ended(a) == IF a = "rewrite" THEN Idle
            ELSE IF op[a].ensure THEN Flushing(a) ELSE [Idle EXCEPT !.pc = "deciding"]

\* a goes on as `rec`, and work queued behind it is not held up by it any more.
Leaves(a, rec) == op' = [b \in Actor |-> IF b = a THEN rec ELSE [op[b] EXCEPT !.waits = @ \ {a}]]
Goes(a, pc) == op' = [op EXCEPT ![a].pc = pc]

\* Another pass of a's rewrite.
Again(a, tries) ==
  op' = [op EXCEPT ![a] = [Idle EXCEPT !.pc = "closing", !.ensure = op[a].ensure,
                                       !.stale = op[a].stale, !.tries = tries]]

\* The fence falls with the work that raised it, unless that is stale.
Unfenced(a, x) == IF op[a].stale THEN x ELSE [x EXCEPT !.fence = FALSE]

\* A body is serialized and staged beside x's file.
Stages(a, x, tries) ==
  /\ x.file \in File
  /\ m' = x
  /\ op' = [op EXCEPT ![a] = [@ EXCEPT !.pc = "staging", !.body = x.entries, !.expect = x.expected,
                                       !.target = x.file, !.tries = tries, !.seen = Missing]]

\* A microtask is due: the event loop does not complete I/O before it has run.
Pending ==
  \E a \in Actor : op[a].pc \in HopPc \/ (op[a].pc \in TailPc /\ op[a].waits = {})

\* The steps below concern one actor at a point of its operation.
Here(a, pc) == op[a].pc = pc /\ UNCHANGED lease
At(a, pc) == Here(a, pc) /\ UNCHANGED history

\* Work whose turn in the queue has come starts some microtasks later: a continuation that
\* is already due runs first.
Reached(a, pc) ==
  At(a, pc) /\ op[a].waits = {} /\ \A b \in Actor : op[b].pc \notin HopPc
Files == <<disk, world>>

-----------------------------------------------------------------------------
\* The asynchronous operations.

\* #rewriteAtomically, as called by rewriteEntries.
Rewrite ==
  /\ op["rewrite"].pc = "idle" /\ ~m.released
  /\ op' = [op EXCEPT !["rewrite"] = Scheduled("rewrite", FALSE)]
  /\ UNCHANGED <<m, disk, lease, world, history>>

\* appendEntriesAtomically: ensureOnDisk, then flush.
BatchBegins ==
  /\ op["batch"].pc \in RestPc /\ ~m.released
  /\ op' = [op EXCEPT !["batch"] = IF m.current /\ ~m.required THEN Flushing("batch")
                                   ELSE Scheduled("batch", TRUE)]
  /\ UNCHANGED <<m, disk, lease, world, history>>

\* The queued work has its turn: superseded, refused after a failure, or the fence goes up
\* and the writer is closed.
Starts(a) ==
  /\ Reached(a, "queued") /\ UNCHANGED Files
  /\ IF op[a].stale THEN Leaves(a, Ended(a)) /\ UNCHANGED m
     ELSE IF m.failed THEN Goes(a, "failing") /\ UNCHANGED m
     ELSE Goes(a, "closing") /\ m' = [m EXCEPT !.fence = TRUE, !.dirty = FALSE, !.writer = FALSE]

\* The body is serialized after the writer has closed, unless the epoch has moved.
Serializes(a) ==
  /\ At(a, "closing") /\ UNCHANGED Files
  /\ IF op[a].stale THEN m' = Housed(m) /\ m'.file \in File /\ Leaves(a, Ended(a))
     ELSE Stages(a, Housed(m), op[a].tries)

\* commitGuard
\* Mutated form: no guard.
Unguarded(a) == TRUE
CommitGuard(a) == ~m.released /\ ~op[a].stale

\* #publishAtomic: guard, size check and rename are one step under the publish lock.
Publishes(a) ==
  LET o == op[a]
      guard == CommitGuard(a)
      fresh == Size(disk[o.target]) = o.expect
  IN /\ At(a, "staging") /\ ~Pending /\ UNCHANGED m
     /\ \/ ~guard /\ Goes(a, "published") /\ UNCHANGED Files
        \/ guard /\ ~fresh /\ Goes(a, "conflict") /\ UNCHANGED Files
        \/ guard /\ fresh /\ Published(m, o.target, o.body) /\ Goes(a, "published")
        \/ Fault /\ Goes(a, "checking") /\ UNCHANGED disk
        \/ /\ guard /\ fresh /\ Trouble([world EXCEPT !.tampered = @ \ {o.target}], 1)
           /\ disk' = [disk EXCEPT ![o.target] = Journal(o.target, o.body)]
           /\ Goes(a, "checking")

\* #runFencedAtomicRewrite goes on after its publish: another pass for entries that came
\* meanwhile; or the end, and the fence falls.
Settles(a) ==
  /\ At(a, "published") /\ ~op[a].repair /\ UNCHANGED Files
  /\ IF op[a].stale THEN Goes(a, "verifying") /\ UNCHANGED m
     ELSE LET x == [m EXCEPT !.expected = SizeOf(op[a].body)]
          IN IF m.dirty
             THEN Again(a, op[a].tries) /\ m' = [x EXCEPT !.dirty = FALSE, !.writer = FALSE]
             ELSE m' = [x EXCEPT !.fence = FALSE] /\ Goes(a, "marking")

\* The caller has waited for that, and marks memory and file as equal, whatever has come
\* meanwhile: an entry deferred to a batch since the body was staged loses its mark.
Marks(a) ==
  /\ Here(a, "marking") /\ UNCHANGED Files
  /\ m' = [m EXCEPT !.current = TRUE, !.required = FALSE]
  /\ Leaves(a, Ended(a))
  /\ history' = [history EXCEPT !.unmarked = @ \cup (history.deferred \ ToSet(op[a].body))]

\* The file is read back: after a conflict, an error, or a publish the epoch has overtaken.
AfterRead == [reading |-> "resolving", checking |-> "checked", verifying |-> "verified"]
ReadsBack(a) ==
  /\ op[a].pc \in DOMAIN AfterRead /\ ~Pending
  /\ op' = [op EXCEPT ![a] = [@ EXCEPT !.seen = disk[op[a].target], !.pc = AfterRead[op[a].pc]]]
  /\ UNCHANGED <<m, disk, lease, world, history>>

\* What was read back is the body: it is durable after all.
Landing(a) == op[a].seen = Journal(op[a].target, op[a].body)
Matched(a) == IF Landing(a) THEN [m EXCEPT !.expected = SizeOf(op[a].body)] ELSE m

\* The rewrite the epoch has overtaken returns without marking anything.
Verified(a) ==
  /\ At(a, "verified") /\ UNCHANGED Files
  /\ m' = Matched(a)
  /\ Leaves(a, Ended(a))

\* #latchIndeterminate, and the end of the batch it repaired.
Indeterminate(a, x) ==
  /\ m' = [Unfenced(a, IF x.batch THEN Diverged(x) ELSE x)
             EXCEPT !.failed = TRUE, !.batch = FALSE, !.staged = {}]
  /\ Leaves(a, Rejected)

\* An error of the publish: reported, unless a repair finds its body on disk.
Checked(a) ==
  /\ At(a, "checked") /\ UNCHANGED Files
  /\ IF ~op[a].repair THEN m' = Unfenced(a, Matched(a)) /\ Goes(a, "failing")
     ELSE IF Landing(a) THEN m' = Matched(a) /\ Goes(a, "published")
     ELSE Indeterminate(a, m)

\* A superseded rewrite starts a pass and takes the mark of entries it will not write.
Unmarks(a) ==
  history' = IF op[a].stale /\ m.dirty /\ ~op[a].repair
             THEN [history EXCEPT !.unmarked = @ \cup history.deferred] ELSE history

\* The next pass after a recovery.
\* Mutated form: the recoveries are counted down.
RetriesCountedDown(a, x) ==
  IF op[a].repair THEN Stages(a, Housed(x), op[a].tries - 1)
  ELSE /\ x.file \in File
       /\ m' = [x EXCEPT !.dirty = FALSE, !.writer = FALSE]
       /\ Again(a, op[a].tries - 1)
Retries(a, x) ==
  IF op[a].repair THEN Stages(a, Housed(x), op[a].tries + 1)
  ELSE /\ x.file \in File
       /\ m' = [x EXCEPT !.dirty = FALSE, !.writer = FALSE]
       /\ Again(a, op[a].tries + 1)

\* #recoverFromWriteConflict up to its read.
Conflicts(a) ==
  LET o == op[a] IN
  /\ Here(a, "conflict") /\ UNCHANGED Files
  /\ IF o.expect = Absent \/ o.target # m.file \/ m.released
     THEN Goes(a, "checking") /\ UNCHANGED <<m, history>>
     ELSE IF o.tries >= MaxRecovery THEN Retries(a, MovedOff(m)) /\ Unmarks(a)
     ELSE /\ op' = [op EXCEPT ![a] = [@ EXCEPT !.pc = "reading", !.superseded = FALSE]]
          /\ UNCHANGED <<m, history>>

\* The rest of it.  A synchronous rewrite during the read has already recovered.
Resolves(a) ==
  /\ Here(a, "resolving") /\ UNCHANGED Files /\ Unmarks(a)
  /\ Retries(a, IF op[a].superseded \/ op[a].target # m.file THEN m ELSE Recovered(m, op[a].seen))

-----------------------------------------------------------------------------
\* Batches and repairs.

\* #authoritativelyRewriteCurrentStateLocked, up to the wait for the old queue.
Repairs(x) ==
  IF x.released THEN m' = [x EXCEPT !.batch = FALSE, !.staged = {}] /\ Leaves("batch", Idle)
  ELSE /\ m' = [Diverged(x) EXCEPT !.writer = FALSE, !.fence = TRUE, !.failed = TRUE]
       /\ op' = [a \in Actor |-> IF a = "batch"
                  THEN [Idle EXCEPT !.pc = "draining", !.repair = TRUE, !.waits = Before("batch")]
                  ELSE [Overtaken(op[a]) EXCEPT !.waits = @ \ {"batch"}]]

\* #rollbackAtomicEntryBatch
\* Mutated form: the entries stay.
NothingRolledBack(x) == x
RolledBack(x) == [x EXCEPT !.entries = Without(@, x.staged)]

\* The batch whose entries are staged in x is rejected.
Rejects(x) ==
  /\ Repairs(RolledBack(x))
  /\ history' = [history EXCEPT !.rejected = @ \cup x.staged]

\* The work failed: the failure is noted and its caller rejects.  A batch learns so that
\* ensureOnDisk or its commit failed.
Fails(a) ==
  LET x == [m EXCEPT !.failed = TRUE] IN
  /\ Here(a, "failing") /\ UNCHANGED Files
  /\ IF a = "rewrite" THEN m' = x /\ Leaves(a, Idle) /\ UNCHANGED history
     ELSE IF op[a].ensure THEN Repairs(x) /\ UNCHANGED history
     ELSE Rejects(x)

\* flush is through.
Flushed ==
  /\ Reached("batch", "flushing") /\ UNCHANGED Files
  /\ IF m.failed THEN Repairs(m)
     ELSE UNCHANGED m /\ Leaves("batch", [Idle EXCEPT !.pc = "collecting"])

\* The callback appends two entries or none, or throws after the first of two; then the
\* commit is scheduled.  A sealed manager drops the entries and schedules nothing.
Collects ==
  LET pair == <<m.next, m.next + 1>>
      Staging(added) == [Deferred(m) EXCEPT !.batch = TRUE, !.staged = ToSet(added),
                                            !.entries = @ \o added, !.next = @ + 2]
      commit == op' = [op EXCEPT !["batch"] = Scheduled("batch", FALSE)]
  IN /\ op["batch"].pc = "collecting" /\ UNCHANGED <<disk, lease, world>>
     /\ \/ /\ m.released /\ UNCHANGED history
           /\ m' = [m EXCEPT !.batch = TRUE, !.staged = {}] /\ Goes("batch", "deciding")
        \/ /\ ~m.released /\ UNCHANGED history
           /\ m' = [m EXCEPT !.batch = TRUE, !.staged = {}] /\ commit
        \/ /\ ~m.released /\ ToSet(pair) \subseteq Own
           /\ LET begun == [history EXCEPT !.batches = @ \cup {ToSet(pair)}] IN
              \/ m' = Staging(pair) /\ commit /\ history' = begun
              \/ /\ Repairs(RolledBack(Staging(<<m.next>>)))
                 /\ history' = [begun EXCEPT !.rejected = @ \cup {m.next}]

\* After the commit: the batch is durable, or it was superseded and is undone.
Decides ==
  /\ Here("batch", "deciding") /\ UNCHANGED Files
  /\ IF m.current /\ ~m.required
     THEN /\ m' = [m EXCEPT !.batch = FALSE, !.staged = {}]
          /\ op' = [op EXCEPT !["batch"] = Idle] /\ UNCHANGED history
     ELSE Rejects(m)

\* The repair has waited for the old queue and the writer: it publishes all of memory.
Drained ==
  /\ Reached("batch", "draining") /\ UNCHANGED Files
  /\ Stages("batch", Housed([m EXCEPT !.dirty = FALSE]), 0)

\* recoverPersistenceFromCurrentState: a repair without a batch.
RecoverPersistence ==
  /\ At("batch", "rejected") /\ ~m.released /\ UNCHANGED Files
  /\ Repairs(m)

\* #publishAuthoritativeBody returns, also when the guard kept its body off the disk: the
\* repair was superseded, has to go round again, or clears the failure.
RepairPublished ==
  LET x == [m EXCEPT !.expected = SizeOf(op["batch"].body)] IN
  /\ At("batch", "published") /\ op["batch"].repair /\ UNCHANGED Files
  /\ IF op["batch"].stale THEN Indeterminate("batch", x)
     ELSE IF m.dirty THEN Stages("batch", Housed([x EXCEPT !.dirty = FALSE]), 0)
     ELSE /\ m' = [x EXCEPT !.current = TRUE, !.required = FALSE, !.failed = FALSE, !.fence = FALSE]
          /\ Goes("batch", "repaired")

\* The rejected batch ends.
Repaired ==
  /\ At("batch", "repaired") /\ UNCHANGED Files
  /\ m' = [m EXCEPT !.batch = FALSE, !.staged = {}]
  /\ op' = [op EXCEPT !["batch"] = Rejected]

-----------------------------------------------------------------------------
\* Other processes.

\* A writer without the lease (an older version, a tool) appends to a journal.
AlienAppends(f) ==
  /\ world.aliens < MaxAlien /\ disk[f].id = f
  /\ disk' = [disk EXCEPT ![f].lines = Append(@, MaxEntry + world.aliens + 1)]
  /\ Trouble([world EXCEPT !.aliens = @ + 1], 1)
  /\ UNCHANGED <<m, op, lease, history>>

\* Another process takes or gives up the lease of session 1.
LeaseMoves ==
  /\ lease \/ ~(m.claimed /\ m.file = 1)
  /\ lease' = ~lease /\ Trouble(world, 1)
  /\ UNCHANGED <<m, op, disk, history>>

\* The session's file is deleted, or another session's journal is moved onto it.
Tampers(f) ==
  /\ disk[f].id = f
  /\ \E content \in {Missing, Journal(Stranger, <<>>)} : disk' = [disk EXCEPT ![f] = content]
  /\ Trouble([world EXCEPT !.tampered = @ \cup {f}], 2)
  /\ UNCHANGED <<m, op, lease, history>>

Others == LeaseMoves \/ \E f \in File : AlienAppends(f) \/ Tampers(f)

Continues(a) ==
  \/ Starts(a) \/ Serializes(a) \/ Publishes(a) \/ Settles(a) \/ Marks(a) \/ ReadsBack(a)
  \/ Verified(a) \/ Checked(a) \/ Conflicts(a) \/ Resolves(a) \/ Fails(a)
BatchContinues ==
  Flushed \/ Collects \/ Decides \/ Drained \/ RepairPublished \/ Repaired

Next ==
  \/ AppendEntry \/ FlushSync \/ Seal \/ Rewrite \/ BatchBegins \/ RecoverPersistence
  \/ \E a \in Actor : Continues(a)
  \/ BatchContinues
  \/ Others

Spec == Init /\ [][Next]_vars

-----------------------------------------------------------------------------
\* Properties.

\* Types of the state: entries and lines are this manager's or another writer's, a size is
\* a set of lines, and every operation is at a point of its code.
TypeOK ==
  LET Lines == Seq(Own \cup Alien)
      Sizes == SUBSET (-1..MaxEntry + MaxAlien)
      Contents == [id : 0..Stranger, lines : Lines]
  IN /\ m \in [entries : Lines, next : Nat, file : File, expected : Sizes, current : BOOLEAN,
               required : BOOLEAN, failed : BOOLEAN, released : BOOLEAN, fence : BOOLEAN,
               dirty : BOOLEAN, claimed : BOOLEAN, writer : BOOLEAN, batch : BOOLEAN,
               staged : SUBSET Nat]
     /\ op \in [Actor -> [pc : Pc, repair : BOOLEAN, ensure : BOOLEAN, stale : BOOLEAN,
                          waits : SUBSET Actor, tries : Nat, body : Lines, expect : Sizes,
                          target : File, superseded : BOOLEAN, seen : Contents]]
     /\ disk \in [File -> Contents] /\ lease \in BOOLEAN
     /\ world \in [troubles : 0..MaxTrouble, aliens : 0..MaxAlien, tampered : SUBSET File]
     /\ history \in [batches : SUBSET SUBSET Own, deferred : SUBSET Own, unmarked : SUBSET Own,
                     rejected : SUBSET Own]

\* The manager takes its file and memory for equal, and nobody tampered with the file.
Settled ==
  /\ m.current /\ ~m.required /\ ~m.failed /\ ~m.batch /\ ~m.released
  /\ m.file \notin world.tampered

\* When the manager takes file and memory for equal, they hold the same entries of its
\* own, in the same order: appends, rewrites, batches and repairs may overlap in any way,
\* fail, and meet the writes of others.  Left out are entries deferred to a batch that a
\* rewrite unmarked which was not to write them.  (It does not say which entries memory
\* has: see RejectedIsGone.)
CurrentIsDurable ==
  LET Kept(lines) == Without(lines, Alien \cup history.unmarked)
  IN Settled => Kept(disk[m.file].lines) = Kept(m.entries)

\* When all work is done, an entry that was appended while a batch was being written is
\* written, too, or still marked: "any fenced append that lands during the rewrite is
\* captured before the task resolves".
DeferredIsCaptured ==
  Settled /\ ~m.dirty /\ (\A a \in Actor : op[a].pc \in RestPc) =>
    history.deferred \cap ToSet(m.entries) \subseteq ToSet(disk[m.file].lines)

\* A batch that was rejected is neither in memory nor in the file once it is repaired: "a
\* failed publish removes [...] the staged entries" and "restores the prior durable file
\* view".
RejectedIsGone ==
  Settled => history.rejected \cap (ToSet(m.entries) \cup ToSet(disk[m.file].lines)) = {}

\* A reader of the files sees all entries of an atomic batch or none.
BatchAtomic ==
  \A batch \in history.batches, f \in File :
    batch \subseteq ToSet(disk[f].lines) \/ batch \cap ToSet(disk[f].lines) = {}

\* No write of the manager erases a line that somebody else appended to the session.
ForeignKept ==
  [][Others \/ \A f \in File :
       disk[f].id = f => ToSet(disk[f].lines) \cap Alien \subseteq ToSet(disk'[f].lines)]_vars

\* Whatever was under way when the session was sealed, the files stay as they are: a
\* revival may already write them.
SealedWritesNothing == [][m.released /\ ~Others => UNCHANGED disk]_vars

=============================================================================
