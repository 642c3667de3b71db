----------------------------- MODULE ResetFence -----------------------------
(***************************************************************************)
(* Spending one upstream account's saved rate-limit reset from several     *)
(* processes (session/reset-fence.ts and #executeResetActions in           *)
(* agent-session.ts): an OS file lock that is freed when its holder dies,  *)
(* a marker in the locked file that outlives it, a live re-read of the     *)
(* balance, and the coordinator each process keeps in memory.              *)
(*                                                                         *)
(* The provider is external: a request it has been sent takes effect, or   *)
(* is refused, within Flight, whether its sender still waits or not.  A    *)
(* Codex account with a known balance is modelled; `omp usage reset` takes *)
(* the same steps from a process whose coordinator is empty.  The consent  *)
(* dialog is a wait of any length between Plan and Execute.  The block is  *)
(* seen first and the balance listed later, so a peer may spend between.   *)
(***************************************************************************)
EXTENDS Integers, FiniteSets

CONSTANTS
  Proc,      \* the processes on one agent database
  NoProc,    \* nobody holds the lock
  Cooldown,  \* ATTEMPT_COOLDOWN_MS
  Delay,     \* the longest a process takes from dating its marker to sending
  Flight,    \* the longest a request is under way
  MaxTime,   \* bound on the clock
  MaxEpisode, \* bound on the block episodes
  MaxCredit, \* bound on the banked resets
  MaxGrant   \* bound on the resets granted

ASSUME ProcAssumption == NoProc \notin Proc
\* A marker must outlast the request it stands for.
ASSUME TimeAssumption ==
  /\ Cooldown \in Nat /\ Delay \in Nat /\ Flight \in Nat
  /\ Delay + Flight < Cooldown
ASSUME BoundAssumption == MaxTime \in Nat /\ MaxEpisode \in Nat /\ MaxCredit \in Nat /\ MaxGrant \in Nat

Long == 0 - Cooldown   \* no marker: a time that is never recent
Cleared == [state |-> "none", at |-> Long]

VARIABLES
  now,
  lock,      \* who holds the account's lock
  marker,    \* what the locked file says: readResetMarker()
  pc,        \* where each process is in #executeResetActions
  plan,      \* the action it executes: its episode, the balance it was decided on, and what
             \* had been spent when the block was seen and when the balance was listed
  at,        \* attemptedAt of its redeem
  answer,    \* the outcome its redeem resolves with
  attempted, \* coordinator.attemptedKeys, by episode
  lastTry,   \* coordinator.lastAttemptAtByAccount
  adopted,   \* #adoptedResetMarkers
  requests,  \* what has been sent to the provider and not taken effect
  balance,   \* the resets banked
  episode,   \* the block the account is in, or was in last
  spent,     \* history: how many resets were spent
  grants,    \* history: how many were granted
  restored,  \* history: how many each process took as its recovery
  wasted     \* history: a request was sent on a decision a spend had overtaken

fileVars    == <<lock, marker>>
procVars    == <<pc, plan, at, answer>>
coordVars   == <<attempted, lastTry, adopted, restored>>
accountVars == <<requests, balance, episode, spent, grants>>
vars == <<now, fileVars, procVars, coordVars, accountVars, wasted>>

NoPlan ==
  [episode |-> 0, expected |-> 0, lastTry |-> Long, seen |-> 0, spent |-> 0, grants |-> 0]

Init ==
  /\ now = 0
  /\ lock = NoProc
  /\ marker = Cleared
  /\ pc = [p \in Proc |-> "idle"]
  /\ plan = [p \in Proc |-> NoPlan]
  /\ at = [p \in Proc |-> Long]
  /\ answer = [p \in Proc |-> "none"]
  /\ attempted = [p \in Proc |-> {}]
  /\ lastTry = [p \in Proc |-> Long]
  /\ adopted = [p \in Proc |-> Long]
  /\ requests = {}
  /\ balance = MaxCredit
  /\ episode = 1
  /\ spent = 0 /\ grants = 0
  /\ restored = [p \in Proc |-> 0]
  /\ wasted = FALSE

-----------------------------------------------------------------------------
(* The fence *)

\* Date.now() - marker.atMs < ATTEMPT_COOLDOWN_MS
\* Mutated form: the lock alone is the fence.
LockOnly(m) == FALSE
Recent(m) == now - m.at < Cooldown

\* #adoptResetMarker(): a recent reset of a peer counts once.
\* Mutated form: it counts at every look.
AdoptableAgain(p) == marker.state = "reset" /\ Recent(marker)
Adoptable(p) == marker.state = "reset" /\ Recent(marker) /\ marker.at > adopted[p]

Adopt(p) ==
  IF Adoptable(p)
  THEN /\ adopted' = [adopted EXCEPT ![p] = marker.at]
       /\ restored' = [restored EXCEPT ![p] = @ + 1]
  ELSE UNCHANGED <<adopted, restored>>

\* A provider's 429 and the usage report fetched for it show the block; the
\* listing of the credits is awaited next.
Look(p) ==
  /\ pc[p] = "idle"
  /\ pc' = [pc EXCEPT ![p] = "looked"]
  /\ plan' = [plan EXCEPT ![p] = [episode |-> episode, expected |-> 0, lastTry |-> Long,
                                  seen |-> spent, spent |-> 0, grants |-> 0]]
  /\ UNCHANGED <<now, fileVars, at, answer, coordVars, accountVars, wasted>>

\* The planner finds a credit in the listing, and an episode not attempted yet,
\* outside the process's own cooldown. Nothing looks at the block again.
Plan(p) ==
  /\ pc[p] = "looked"
  /\ balance > 0
  /\ plan[p].episode \notin attempted[p]
  /\ now - lastTry[p] >= Cooldown
  /\ pc' = [pc EXCEPT ![p] = "planned"]
  /\ plan' = [plan EXCEPT ![p] = [episode |-> plan[p].episode, expected |-> balance,
                                  lastTry |-> Long, seen |-> plan[p].seen,
                                  spent |-> spent, grants |-> grants]]
  /\ UNCHANGED <<now, fileVars, at, answer, coordVars, accountVars, wasted>>

\* The plan is empty: #adoptRecentReset() looks for a peer's reset under the
\* lock. The pass also ends here when the listing or the lock fails.
AdoptRecentReset(p) ==
  /\ pc[p] = "looked"
  /\ \/ lock = NoProc /\ Adopt(p)
     \/ UNCHANGED <<adopted, restored>>
  /\ pc' = [pc EXCEPT ![p] = "idle"]
  /\ plan' = [plan EXCEPT ![p] = NoPlan]
  /\ UNCHANGED <<now, fileVars, at, answer, attempted, lastTry, accountVars, wasted>>

\* The key enters the set before anything is awaited. A user who declines, and
\* a key attempted meanwhile, drop the action.
Execute(p) ==
  /\ pc[p] = "planned"
  /\ \/ /\ pc' = [pc EXCEPT ![p] = "waiting"]
        /\ plan' = [plan EXCEPT ![p].lastTry = lastTry[p]]
        /\ attempted' = [attempted EXCEPT ![p] = @ \union {plan[p].episode}]
        /\ lastTry' = [lastTry EXCEPT ![p] = now]
     \/ /\ pc' = [pc EXCEPT ![p] = "idle"]
        /\ plan' = [plan EXCEPT ![p] = NoPlan]
        /\ UNCHANGED <<attempted, lastTry>>
  /\ UNCHANGED <<now, fileVars, at, answer, adopted, restored, accountVars, wasted>>

Acquire(p) ==
  /\ pc[p] = "waiting"
  /\ lock = NoProc
  /\ lock' = p
  /\ pc' = [pc EXCEPT ![p] = "fenced"]
  /\ UNCHANGED <<now, marker, plan, at, answer, coordVars, accountVars, wasted>>

\* What an attempt leaves on the stack is gone with it.
Forget(p) ==
  /\ plan' = [plan EXCEPT ![p] = NoPlan]
  /\ at' = [at EXCEPT ![p] = Long]
  /\ answer' = [answer EXCEPT ![p] = "none"]

\* withFileLock() frees the lock however its body ends, the OS when it dies.
Freed(p) == IF lock = p THEN NoProc ELSE lock

\* The attempt is over; `keep` says whether its episode counts as attempted.
Conclude(p, keep) ==
  /\ pc' = [pc EXCEPT ![p] = "idle"]
  /\ lock' = Freed(p)
  /\ attempted' = [attempted EXCEPT ![p] = IF keep THEN @ ELSE @ \ {plan[p].episode}]
  /\ Forget(p)

\* All retries found the lock taken: acquireFileLock() throws.
AcquireFails(p) ==
  /\ pc[p] = "waiting"
  /\ lock # NoProc
  /\ Conclude(p, FALSE)
  /\ UNCHANGED <<now, marker, lastTry, adopted, restored, accountVars, wasted>>

\* onRecent: the attempt ends without an outcome.
SeeRecent(p) ==
  /\ pc[p] = "fenced"
  /\ Recent(marker)
  /\ Adopt(p)
  /\ Conclude(p, TRUE)
  /\ UNCHANGED <<now, marker, lastTry, accountVars, wasted>>

\* checkCodexBalance() of the live listing ("no_credit" is for a balance that was
\* not known when the spend was decided).
\* Mutated form: only an empty balance stops the spend.
SpentIgnored(p) == FALSE
Spent(p) == balance < plan[p].expected

\* A spent credit ends the attempt, a listing or a write that fails defers it;
\* otherwise the pending marker is dated and written.
CheckBalance(p) ==
  /\ pc[p] = "fenced"
  /\ ~Recent(marker)
  /\ \/ Spent(p) /\ Conclude(p, TRUE) /\ UNCHANGED marker
     \/ Conclude(p, FALSE) /\ marker' \in {marker, Cleared}
     \/ /\ ~Spent(p) /\ balance > 0
        /\ marker' = [state |-> "pending", at |-> now]
        /\ at' = [at EXCEPT ![p] = now]
        /\ pc' = [pc EXCEPT ![p] = "marked"]
        /\ UNCHANGED <<lock, attempted, plan, answer>>
  /\ UNCHANGED <<now, lastTry, adopted, restored, accountVars, wasted>>

-----------------------------------------------------------------------------
(* The redeem *)

Send(p) ==
  /\ pc[p] = "marked"
  /\ requests' = requests \union {[by |-> p, sent |-> now]}
  /\ pc' = [pc EXCEPT ![p] = "sent"]
  /\ answer' = [answer EXCEPT ![p] = "none"]
  /\ wasted' = (wasted \/ (spent # plan[p].spent /\ grants = plan[p].grants))
  /\ UNCHANGED <<now, fileVars, plan, at, coordVars, balance, episode, spent, grants>>

\* The account has left the session's pool since: nothing is sent, the marker
\* is cleared, the episode and the cooldown are free again.
LeavePool(p) ==
  /\ pc[p] = "marked"
  /\ marker' = Cleared
  /\ Conclude(p, FALSE)
  /\ lastTry' = [lastTry EXCEPT ![p] = plan[p].lastTry]
  /\ UNCHANGED <<now, adopted, restored, accountVars, wasted>>

\* isTerminalRedeemOutcome()
Terminal(code) == code \in {"reset", "already_redeemed", "no_credit"}

\* External: the provider applies a request or refuses it, and its answer
\* reaches the sender if that still waits for it.
Handle(r) ==
  /\ requests' = requests \ {r}
  /\ \E code \in {"reset", "already_redeemed", "no_credit", "nothing_to_reset", "error"} :
       /\ code = "reset" => balance > 0
       /\ code = "no_credit" => balance = 0
       /\ balance' = IF code = "reset" THEN balance - 1 ELSE balance
       /\ spent' = IF code = "reset" THEN spent + 1 ELSE spent
       /\ answer' = IF pc[r.by] = "sent" THEN [answer EXCEPT ![r.by] = code] ELSE answer
  /\ UNCHANGED <<now, fileVars, pc, plan, at, coordVars, episode, grants, wasted>>

\* The marker an outcome leaves: a reset is recorded, a definite refusal clears
\* it, anything else may still have been applied.
MarkerAfter(p, code) ==
  IF code = "reset" THEN [state |-> "reset", at |-> at[p]]
  ELSE IF code \in {"no_credit", "nothing_to_reset"} THEN Cleared ELSE marker

\* Its own reset is one the session never adopts.
\* Mutated form: it is not recorded.
OwnForgotten(p, code) == adopted
OwnAdopted(p, code) == IF code = "reset" THEN [adopted EXCEPT ![p] = at[p]] ELSE adopted

Receive(p) ==
  /\ pc[p] = "sent"
  /\ answer[p] # "none"
  /\ marker' = MarkerAfter(p, answer[p])
  /\ adopted' = OwnAdopted(p, answer[p])
  /\ restored' = IF answer[p] = "reset" THEN [restored EXCEPT ![p] = @ + 1] ELSE restored
  /\ Conclude(p, Terminal(answer[p]))
  /\ UNCHANGED <<now, lastTry, accountVars, wasted>>

\* The redeem throws: its timeout, which may have passed before it was sent, or
\* the transport. The marker stays pending; one whose write fails may be empty.
RedeemThrows(p) ==
  /\ pc[p] \in {"marked", "sent"}
  /\ \/ UNCHANGED marker
     \/ answer[p] \in {"reset", "no_credit", "nothing_to_reset"} /\ marker' = Cleared
  /\ Conclude(p, FALSE)
  /\ UNCHANGED <<now, lastTry, adopted, restored, accountVars, wasted>>

\* The process dies: the OS frees its lock, its memory is gone, the file and the
\* request stay. A marker being written may be left empty.
Crash(p) ==
  /\ pc[p] # "idle"
  /\ pc' = [pc EXCEPT ![p] = "idle"]
  /\ lock' = Freed(p)
  /\ \/ UNCHANGED marker
     \/ pc[p] = "marked" /\ marker' = Cleared
     \/ /\ pc[p] = "sent" /\ answer[p] \notin {"none", "already_redeemed", "error"}
        /\ marker' \in {Cleared, MarkerAfter(p, answer[p])}
  /\ attempted' = [attempted EXCEPT ![p] = {}]
  /\ lastTry' = [lastTry EXCEPT ![p] = Long]
  /\ adopted' = [adopted EXCEPT ![p] = Long]
  /\ restored' = [restored EXCEPT ![p] = 0]
  /\ Forget(p)
  /\ UNCHANGED <<now, accountVars, wasted>>

-----------------------------------------------------------------------------
(* The account *)

\* The account runs into its limit again.
NewEpisode ==
  /\ episode < MaxEpisode
  /\ episode' = episode + 1
  /\ UNCHANGED <<now, fileVars, procVars, coordVars, requests, balance, spent, grants, wasted>>

Grant ==
  /\ grants < MaxGrant
  /\ balance' = balance + 1
  /\ grants' = grants + 1
  /\ UNCHANGED <<now, fileVars, procVars, coordVars, requests, episode, spent, wasted>>

\* A request does not outlast Flight, nor a process Delay between marker and
\* request.
Tick ==
  /\ now < MaxTime
  /\ \A r \in requests : now < r.sent + Flight
  /\ \A p \in Proc : pc[p] = "marked" => now < at[p] + Delay
  /\ now' = now + 1
  /\ UNCHANGED <<fileVars, procVars, coordVars, accountVars, wasted>>

Step(p) ==
  \/ Look(p) \/ Plan(p) \/ AdoptRecentReset(p) \/ Execute(p) \/ Acquire(p)
  \/ AcquireFails(p) \/ SeeRecent(p) \/ CheckBalance(p) \/ Send(p) \/ LeavePool(p) \/ Receive(p)
  \/ RedeemThrows(p) \/ Crash(p)

Next ==
  \/ \E p \in Proc : Step(p)
  \/ \E r \in requests : Handle(r)
  \/ NewEpisode \/ Grant \/ Tick

Spec == Init /\ [][Next]_vars

-----------------------------------------------------------------------------
(* Properties *)

Codes == {"none", "reset", "already_redeemed", "no_credit", "nothing_to_reset", "error"}

\* The types, and that only the holder of the lock is past it.
TypeOK ==
  /\ now \in Nat
  /\ lock \in Proc \union {NoProc}
  /\ marker \in [state : {"none", "pending", "reset"}, at : Int]
  /\ pc \in [Proc -> {"idle", "looked", "planned", "waiting", "fenced", "marked", "sent"}]
  /\ at \in [Proc -> Int]
  /\ answer \in [Proc -> Codes]
  /\ requests \subseteq [by : Proc, sent : Nat]
  /\ balance \in Nat
  /\ \A p \in Proc : pc[p] \in {"fenced", "marked", "sent"} <=> lock = p

\* At most one request to spend a reset of the account is under way, whichever
\* processes die, time out or retry: the marker keeps the others out while the
\* request of a process that gave up may still take effect.
OneRequestUnderWay == \A r, s \in requests : r = s

\* No request is sent on a balance that a peer's spend has lowered since it was
\* listed, however long the user took to consent or the fence to open, unless a
\* credit was granted in between. Nothing is claimed of the block, which was
\* seen before the listing.
NoOvertakenSpend == ~wasted

\* A 429 that is acted on late spends nothing: once some process has recovered
\* by a reset, no request is sent for a block that a spend has lifted since it
\* was seen. (It fails: the marker stops this for its cooldown only.)
LateBlockSpendsNothing ==
  [][\A p, q \in Proc :
       /\ pc[p] = "marked" /\ pc'[p] = "sent"
       /\ episode = plan[p].episode /\ restored[q] > 0
       => spent = plan[p].seen]_vars

\* A reset counts as recovery at most once in each session: one that it spent
\* is never adopted from its own marker, and a peer's only once.
RecoveredOnce == \A p \in Proc : restored[p] <= spent
=============================================================================
