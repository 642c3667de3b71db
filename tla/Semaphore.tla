------------------------------ MODULE Semaphore ------------------------------
(***************************************************************************)
(* The counting semaphore of task/parallel.ts: `#max`, `#current` and the  *)
(* FIFO `#queue` of waiters, with in-place resize and abortable waiters.   *)
(*                                                                         *)
(* A client is one caller at a time of acquire(): "out" (holds nothing,    *)
(* wants nothing), "waiting" (its resolver is in #queue), "holding" (its   *)
(* acquire() promise is fulfilled and it has not called release() yet).    *)
(* JavaScript runs each method to completion, so a method is one step.     *)
(***************************************************************************)
EXTENDS Integers, Sequences, FiniteSets

CONSTANTS
  Client,      \* the callers that share the semaphore
  LimitInput   \* the numbers the constructor and resize() may be given

ASSUME ClientAssumption == IsFiniteSet(Client)
ASSUME LimitAssumption  == LimitInput \subseteq Int

VARIABLES
  max,      \* #max; 0 stands for Number.POSITIVE_INFINITY
  current,  \* #current
  queue,    \* #queue, oldest waiter first
  state     \* what each client is doing

semVars == <<max, current, queue, state>>

Unlimited == 0

\* `max <= 0` means unbounded; a positive limit is kept.
NormalizeConcurrencyLimit(n) == IF n > 0 THEN n ELSE Unlimited

\* this.#current < this.#max, for a ceiling m and k slots taken
HasRoom(m, k) == m = Unlimited \/ k < m

Init ==
  /\ \E n \in LimitInput : max = NormalizeConcurrencyLimit(n)
  /\ current = 0
  /\ queue = <<>>
  /\ state = [c \in Client |-> "out"]

-----------------------------------------------------------------------------
\* acquire() whose signal is already aborted throws and changes nothing, so
\* only the live call is an action.
Acquire(c) ==
  /\ state[c] = "out"
  /\ \/ /\ HasRoom(max, current)
        /\ current' = current + 1
        /\ state' = [state EXCEPT ![c] = "holding"]
        /\ UNCHANGED queue
     \/ /\ ~HasRoom(max, current)
        /\ queue' = Append(queue, c)
        /\ state' = [state EXCEPT ![c] = "waiting"]
        /\ UNCHANGED current
  /\ UNCHANGED max

\* q without its i-th element: queue.splice(i, 1)
Splice(q, i) == SubSeq(q, 1, i - 1) \o SubSeq(q, i + 1, Len(q))

\* The abort listener of a queued acquire(): forget the waiter, reject.
\* A granted waiter removed its listener, so only waiting clients run it.
\* Mutated form: the rejected waiter stays in the queue.
OnAbortKeepsWaiter(c) ==
  /\ state[c] = "waiting"
  /\ state' = [state EXCEPT ![c] = "out"]
  /\ UNCHANGED <<max, current, queue>>
OnAbort(c) ==
  /\ state[c] = "waiting"
  /\ state' = [state EXCEPT ![c] = "out"]
  /\ \E i \in 1..Len(queue) : queue[i] = c /\ queue' = Splice(queue, i)
  /\ UNCHANGED <<max, current>>

\* current after `if (this.#current > 0) this.#current--`
\* Mutated form: the slot is not given back.
NotDecremented(k) == k
Decremented(k) == IF k > 0 THEN k - 1 ELSE k

Release(c) ==
  /\ state[c] = "holding"
  /\ LET left == Decremented(current)
     IN \/ /\ HasRoom(max, left)
           /\ queue # <<>>
           /\ current' = left + 1
           /\ queue' = Tail(queue)
           /\ state' = [state EXCEPT ![c] = "out", ![Head(queue)] = "holding"]
        \/ /\ ~HasRoom(max, left) \/ queue = <<>>
           /\ current' = left
           /\ state' = [state EXCEPT ![c] = "out"]
           /\ UNCHANGED queue
  /\ UNCHANGED max

\* How many of k waiters the while loop of resize() admits under ceiling m.
\* Mutated form: a raised ceiling wakes nobody.
NobodyAdmitted(m, taken, k) == 0
Admitted(m, taken, k) ==
  IF m = Unlimited \/ m >= taken + k THEN k
  ELSE IF m > taken THEN m - taken ELSE 0

\* The clients' states once the first k waiters are granted a slot.
\* Mutated form: the newest waiters are.
GrantingNewest(k) ==
  [c \in Client |->
     IF \E i \in (Len(queue) - k + 1)..Len(queue) : queue[i] = c THEN "holding" ELSE state[c]]
Granting(k) ==
  [c \in Client |-> IF \E i \in 1..k : queue[i] = c THEN "holding" ELSE state[c]]

Resize(n) ==
  LET m == NormalizeConcurrencyLimit(n)
      k == Admitted(m, current, Len(queue))
  IN /\ max' = m
     /\ current' = current + k
     /\ queue' = SubSeq(queue, k + 1, Len(queue))
     /\ state' = Granting(k)

Next ==
  \/ \E c \in Client : Acquire(c) \/ OnAbort(c) \/ Release(c)
  \/ \E n \in LimitInput : Resize(n)

Spec == Init /\ [][Next]_semVars

-----------------------------------------------------------------------------
Holders == {c \in Client : state[c] = "holding"}
Waiters == {c \in Client : state[c] = "waiting"}

\* The types of the variables: a ceiling of 0 is the unbounded one, and none
\* is negative whatever the settings hold.
TypeOK ==
  /\ max \in Nat
  /\ current \in Nat
  /\ queue \in Seq(Client)
  /\ state \in [Client -> {"out", "waiting", "holding"}]

\* The waiters in the queue are exactly the clients that wait, each once: an
\* aborted acquire() leaves nothing behind that a release() could resolve,
\* which would shrink the effective concurrency for the rest of the process
\* (acquire's comment, issue #3464).
QueueIsWaiters ==
  /\ \A c \in Client : state[c] = "waiting" <=> \E i \in 1..Len(queue) : queue[i] = c
  /\ \A i, j \in 1..Len(queue) : queue[i] = queue[j] => i = j

\* The count is the number of clients that hold a slot: through aborts,
\* resizes and hand-overs no slot is leaked or counted twice.
CountsHolders == current = Cardinality(Holders)

\* Nobody waits while there is room: whatever order acquires, releases and
\* resizes come in, a waiter in the queue means the ceiling is reached.
NoIdleSlot == queue # <<>> => ~HasRoom(max, current)

\* First come, first served: a waiter is granted its slot only if everyone
\* queued ahead of it is granted in the same step.
FirstComeFirstServed ==
  [][\A i, j \in 1..Len(queue) :
       i < j /\ state'[queue[j]] = "holding" => state'[queue[i]] = "holding"]_semVars

Pool == INSTANCE SlotPool WITH
  Ceiling <- {NormalizeConcurrencyLimit(n) : n \in LimitInput},
  cap <- max, holders <- Holders, waiting <- Waiters

\* The semaphore implements the pool: its queue and its counter show in
\* nothing but the order of the grants.
ImplementsSlotPool == Pool!Spec
=============================================================================
