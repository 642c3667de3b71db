---------------------- MODULE ProviderConcurrencyProofs ----------------------
(***************************************************************************)
(* Proofs about Semaphore, for every finite set of clients and every set   *)
(* of limits, and about ProviderConcurrency, for every spawn tree and      *)
(* every number of turns.                                                  *)
(*                                                                         *)
(* The semaphore's inductive invariant is the conjunction IInv; the count  *)
(* of holders needs the queue to be duplicate-free, and the absence of     *)
(* idle slots needs the count to be positive when a holder releases.  Its  *)
(* proofs assume ClientAssumption and LimitAssumption only, nothing of the *)
(* tree.                                                                   *)
(*                                                                         *)
(* The tree uses the semaphore by calls of its methods, two of them in one *)
(* step of Call, so IInv is proved again for the tree's steps; Slots says  *)
(* which requests are in the semaphore, Order that a request is made once: *)
(* the turns to come have made none, and the children of an agent which    *)
(* has not run its first tools have not begun.                             *)
(***************************************************************************)
EXTENDS ProviderConcurrency, TLAPS, FiniteSetTheorems, SequenceTheorems

-----------------------------------------------------------------------------
(* The semaphore *)

IInv == TypeOK /\ QueueIsWaiters /\ CountsHolders /\ NoIdleSlot

-----------------------------------------------------------------------------
\* What Splice leaves: a queue of clients one shorter, the same up to i and
\* shifted by one from there.
LEMMA SpliceFacts ==
  ASSUME NEW q \in Seq(Client), NEW i \in 1..Len(q)
  PROVE  /\ Splice(q, i) \in Seq(Client)
         /\ Len(Splice(q, i)) = Len(q) - 1
         /\ \A j \in 1..(Len(q) - 1) :
              Splice(q, i)[j] = IF j < i THEN q[j] ELSE q[j + 1]
<1> DEFINE a == SubSeq(q, 1, i - 1)
           b == SubSeq(q, i + 1, Len(q))
<1>0. Len(q) \in Nat /\ \A j \in 1..Len(q) : q[j] \in Client
  BY LenProperties, ElementOfSeq
<1>1. /\ a \in Seq(Client) /\ Len(a) = i - 1
      /\ \A j \in 1..(i - 1) : a[j] = q[j]
  BY <1>0, SubSeqProperties
<1>2. /\ b \in Seq(Client) /\ Len(b) = Len(q) - i
      /\ \A j \in 1..(Len(q) - i) : b[j] = q[i + j]
  <2>1. \A j \in (i + 1)..Len(q) : q[j] \in Client
    BY <1>0
  <2>2. /\ b \in Seq(Client)
        /\ Len(b) = IF i + 1 <= Len(q) THEN Len(q) - (i + 1) + 1 ELSE 0
        /\ \A j \in 1..(Len(q) - (i + 1) + 1) : b[j] = q[(i + 1) + j - 1]
    BY <1>0, <2>1, SubSeqProperties
  <2> QED BY <1>0, <2>2
<1>3. /\ a \o b \in Seq(Client)
      /\ Len(a \o b) = Len(a) + Len(b)
      /\ \A j \in 1..(Len(a) + Len(b)) :
           (a \o b)[j] = IF j <= Len(a) THEN a[j] ELSE b[j - Len(a)]
  BY <1>1, <1>2, ConcatProperties
<1>4. Splice(q, i) = a \o b
  BY DEF Splice
<1> HIDE DEF a, b
<1>5. \A j \in 1..(Len(q) - 1) : (a \o b)[j] = IF j < i THEN q[j] ELSE q[j + 1]
  <2> TAKE j \in 1..(Len(q) - 1)
  <2>0. j < i \/ j >= i
    BY <1>0
  <2>1. CASE j < i
    BY <2>1, <1>0, <1>1, <1>2, <1>3
  <2>2. CASE j >= i
    <3>1. b[j - (i - 1)] = q[j + 1]
      BY <2>2, <1>0, <1>2
    <3> QED BY <2>2, <3>1, <1>0, <1>1, <1>2, <1>3
  <2> QED BY <2>0, <2>1, <2>2
<1> QED BY <1>0, <1>1, <1>2, <1>3, <1>4, <1>5

\* What is left of a queue after its first k elements are shifted off.
LEMMA ShiftFacts ==
  ASSUME NEW q \in Seq(Client), NEW k \in 0..Len(q)
  PROVE  /\ SubSeq(q, k + 1, Len(q)) \in Seq(Client)
         /\ Len(SubSeq(q, k + 1, Len(q))) = Len(q) - k
         /\ \A j \in 1..(Len(q) - k) : SubSeq(q, k + 1, Len(q))[j] = q[k + j]
<1>0. Len(q) \in Nat /\ \A j \in 1..Len(q) : q[j] \in Client
  BY LenProperties, ElementOfSeq
<1>1. \A j \in (k + 1)..Len(q) : q[j] \in Client
  BY <1>0
<1>2. /\ SubSeq(q, k + 1, Len(q)) \in Seq(Client)
      /\ Len(SubSeq(q, k + 1, Len(q)))
           = IF k + 1 <= Len(q) THEN Len(q) - (k + 1) + 1 ELSE 0
      /\ \A j \in 1..(Len(q) - (k + 1) + 1) :
           SubSeq(q, k + 1, Len(q))[j] = q[(k + 1) + j - 1]
  BY <1>0, <1>1, SubSeqProperties
<1> QED BY <1>0, <1>2

\* resize() admits at most everybody who waits, and stops early only when the
\* new ceiling is reached.
LEMMA AdmittedFacts ==
  ASSUME NEW m \in Nat, NEW t \in Nat, NEW n \in Nat
  PROVE  /\ Admitted(m, t, n) \in 0..n
         /\ Admitted(m, t, n) < n => ~HasRoom(m, t + Admitted(m, t, n))
BY DEF Admitted, HasRoom, Unlimited

\* A normalised limit is a natural number, whatever the settings hold.
LEMMA NormalizedType ==
  ASSUME NEW n \in LimitInput PROVE NormalizeConcurrencyLimit(n) \in Nat
BY LimitAssumption DEF NormalizeConcurrencyLimit, Unlimited
-----------------------------------------------------------------------------
\* A new semaphore satisfies the inductive invariant.
LEMMA InitIInv == Init => IInv
<1> SUFFICES ASSUME Init PROVE IInv
  OBVIOUS
<1>1. TypeOK
  BY NormalizedType DEF Init, TypeOK
<1>2. QueueIsWaiters
  BY DEF Init, QueueIsWaiters
<1>3. CountsHolders
  <2>1. Holders = {}
    BY DEF Init, Holders
  <2> QED BY <2>1, FS_EmptySet DEF Init, CountsHolders
<1>4. NoIdleSlot
  BY DEF Init, NoIdleSlot
<1> QED BY <1>1, <1>2, <1>3, <1>4 DEF IInv

-----------------------------------------------------------------------------
\* The holders can be counted.
LEMMA HoldersFinite == IsFiniteSet(Holders) /\ Cardinality(Holders) \in Nat
<1>1. IsFiniteSet(Holders)
  BY ClientAssumption, FS_Subset DEF Holders
<1> QED BY <1>1, FS_CardinalityType

(* acquire() and resize() are stated for values instead of variables: one  *)
(* call of the code may run both, one after the other (ProviderConcurrency *)
(* does), and the second then starts from what the first left behind.      *)

\* IInv of a semaphore with ceiling m, count n, queue q and client states s
Good(m, n, q, s) ==
  /\ m \in Nat /\ n \in Nat /\ q \in Seq(Client)
  /\ s \in [Client -> {"out", "waiting", "holding"}]
  /\ \A c \in Client : s[c] = "waiting" <=> \E i \in 1..Len(q) : q[i] = c
  /\ \A i, j \in 1..Len(q) : q[i] = q[j] => i = j
  /\ n = Cardinality({c \in Client : s[c] = "holding"})
  /\ q # <<>> => ~HasRoom(m, n)

\* Good of the variables is the inductive invariant, now and after a step.
LEMMA GoodIsIInv ==
  /\ IInv <=> Good(max, current, queue, state)
  /\ IInv' <=> Good(max', current', queue', state')
BY DEF IInv, TypeOK, QueueIsWaiters, CountsHolders, Holders, NoIdleSlot, Good

\* A client that gets a free slot, when nobody waits, was not counted.
LEMMA TakeSlotGood ==
  ASSUME NEW m, NEW n, NEW q, NEW s, Good(m, n, q, s),
         NEW c \in Client, s[c] = "out", HasRoom(m, n)
  PROVE  Good(m, n + 1, q, [s EXCEPT ![c] = "holding"])
<1> DEFINE s2 == [s EXCEPT ![c] = "holding"]
           H == {d \in Client : s[d] = "holding"}
<1>1. q = <<>> /\ m \in Nat /\ n \in Nat /\ q \in Seq(Client)
  BY DEF Good
<1>2. s2 \in [Client -> {"out", "waiting", "holding"}]
  BY DEF Good
<1>3. \A d \in Client : s2[d] = "waiting" <=> \E i \in 1..Len(q) : q[i] = d
  BY <1>1 DEF Good
<1>4. \A i, j \in 1..Len(q) : q[i] = q[j] => i = j
  BY DEF Good
<1>5. n + 1 = Cardinality({d \in Client : s2[d] = "holding"})
  <2>1. {d \in Client : s2[d] = "holding"} = H \cup {c} /\ c \notin H
    BY DEF Good
  <2>2. IsFiniteSet(H)
    BY ClientAssumption, FS_Subset
  <2>3. n = Cardinality(H)
    BY DEF Good
  <2> QED BY <2>1, <2>2, <2>3, FS_AddElement
<1> HIDE DEF s2
<1>6. Good(m, n + 1, q, s2)
  BY <1>1, <1>2, <1>3, <1>4, <1>5 DEF Good
<1> QED BY <1>6 DEF s2

\* A client that queues up, when the ceiling is reached, was not queued.
LEMMA QueueUpGood ==
  ASSUME NEW m, NEW n, NEW q, NEW s, Good(m, n, q, s),
         NEW c \in Client, s[c] = "out", ~HasRoom(m, n)
  PROVE  Good(m, n, Append(q, c), [s EXCEPT ![c] = "waiting"])
<1> DEFINE s2 == [s EXCEPT ![c] = "waiting"]
           q2 == Append(q, c)
<1>1. /\ Len(q) \in Nat /\ m \in Nat /\ n \in Nat /\ q \in Seq(Client)
      /\ \A i \in 1..Len(q) : q[i] # c
  BY LenProperties DEF Good
<1>2. s2 \in [Client -> {"out", "waiting", "holding"}]
  BY DEF Good
<1>3. /\ q2 \in Seq(Client) /\ Len(q2) = Len(q) + 1
      /\ \A i \in 1..Len(q) : q2[i] = q[i]
      /\ q2[Len(q) + 1] = c
  BY <1>1, AppendProperties
<1>4. s2[c] = "waiting" /\ \A d \in Client \ {c} : s2[d] = s[d]
  BY DEF Good
<1>5. {d \in Client : s2[d] = "holding"} = {d \in Client : s[d] = "holding"}
  BY <1>4
<1> HIDE DEF s2, q2
<1>6. ASSUME NEW d \in Client
      PROVE  s2[d] = "waiting" <=> \E i \in 1..Len(q2) : q2[i] = d
  <2>1. CASE d = c
    BY <2>1, <1>1, <1>3, <1>4
  <2>2. CASE d # c
    <3>1. (\E i \in 1..Len(q2) : q2[i] = d) <=> \E i \in 1..Len(q) : q[i] = d
      BY <2>2, <1>1, <1>3
    <3> QED BY <2>2, <3>1, <1>4 DEF Good
  <2> QED BY <2>1, <2>2
<1>7. \A i, j \in 1..Len(q2) : q2[i] = q2[j] => i = j
  BY <1>1, <1>3 DEF Good
<1>8. n = Cardinality({d \in Client : s2[d] = "holding"})
  BY <1>5 DEF Good
<1>9. Good(m, n, q2, s2)
  BY <1>1, <1>2, <1>3, <1>6, <1>7, <1>8 DEF Good
<1> QED BY <1>9 DEF s2, q2

\* What resize() to ceiling m leaves: the waiters it admits become holders
\* and leave the queue together.
LEMMA ResizeGood ==
  ASSUME IInv, NEW m \in Nat
  PROVE  LET k == Admitted(m, current, Len(queue))
         IN Good(m, current + k, SubSeq(queue, k + 1, Len(queue)), Granting(k))
<1> USE DEF IInv
<1> DEFINE k == Admitted(m, current, Len(queue))
           Granted == {queue[i] : i \in 1..k}
           q2 == SubSeq(queue, k + 1, Len(queue))
           s2 == Granting(k)
           H2 == {d \in Client : s2[d] = "holding"}
<1>0. Len(queue) \in Nat /\ current \in Nat
  BY LenProperties DEF TypeOK
<1>1. k \in 0..Len(queue) /\ (k < Len(queue) => ~HasRoom(m, current + k))
  BY <1>0, AdmittedFacts
<1> HIDE DEF k
<1>2. s2 = [d \in Client |->
              IF \E i \in 1..k : queue[i] = d THEN "holding" ELSE state[d]]
  BY DEF Granting
<1>3. /\ q2 \in Seq(Client)
      /\ Len(q2) = Len(queue) - k
      /\ \A j \in 1..Len(q2) : q2[j] = queue[k + j]
  BY <1>0, <1>1, ShiftFacts DEF TypeOK
<1> HIDE DEF q2, s2
<1>4. \A d \in Client :
        s2[d] = IF d \in Granted THEN "holding" ELSE state[d]
  BY <1>2
<1>5. \A i \in 1..k : queue[i] \in Client /\ state[queue[i]] = "waiting"
  BY <1>0, <1>1, ElementOfSeq DEF TypeOK, QueueIsWaiters
<1>6. Granted \subseteq Client /\ Granted \cap Holders = {}
  BY <1>5 DEF Holders
<1>7. Cardinality(Granted) = k /\ IsFiniteSet(Granted)
  <2>1. IsFiniteSet(Granted)
    BY <1>6, ClientAssumption, FS_Subset
  <2> DEFINE f == [i \in 1..k |-> queue[i]]
  <2>2. f \in [1..k -> Granted]
    OBVIOUS
  <2>3. \A i, j \in 1..k : f[i] = f[j] => i = j
    BY <1>0, <1>1 DEF QueueIsWaiters
  <2>4. \A g \in Granted : \E i \in 1..k : f[i] = g
    OBVIOUS
  <2> HIDE DEF f, Granted
  <2>5. f \in Bijection(1..k, Granted)
    BY <2>2, <2>3, <2>4 DEF Bijection, Injection, Surjection, IsInjective
  <2>6. ExistsBijection(1..k, Granted)
    BY <2>5 DEF ExistsBijection
  <2>7. k \in Nat
    BY <1>0, <1>1
  <2> QED BY <2>1, <2>6, <2>7, FS_CountingElements
<1> HIDE DEF Granted
<1>8. s2 \in [Client -> {"out", "waiting", "holding"}]
  BY <1>2 DEF TypeOK
<1>9. \A i, j \in 1..Len(q2) : q2[i] = q2[j] => i = j
  <2> SUFFICES ASSUME NEW i \in 1..Len(q2), NEW j \in 1..Len(q2),
                      q2[i] = q2[j]
               PROVE  i = j
    OBVIOUS
  <2>1. k + i \in 1..Len(queue) /\ k + j \in 1..Len(queue)
    BY <1>0, <1>1, <1>3
  <2>2. k + i = k + j
    BY <2>1, <1>3 DEF QueueIsWaiters
  <2> QED BY <2>2, <1>0, <1>1, <1>3
<1>10. \A d \in Client : s2[d] = "waiting"
                         <=> \E i \in 1..Len(q2) : q2[i] = d
  <2> SUFFICES ASSUME NEW d \in Client
               PROVE  s2[d] = "waiting"
                        <=> \E i \in 1..Len(q2) : q2[i] = d
    OBVIOUS
  <2>1. ASSUME NEW j \in 1..Len(q2), q2[j] = d
        PROVE  s2[d] = "waiting"
    <3>1. k + j \in 1..Len(queue) /\ queue[k + j] = d /\ ~(k + j <= k)
      BY <2>1, <1>0, <1>1, <1>3
    <3>2. state[d] = "waiting"
      BY <3>1 DEF QueueIsWaiters
    <3>3. \A i \in 1..k : queue[i] # d
      BY <3>1, <1>0, <1>1 DEF QueueIsWaiters
    <3> QED BY <3>2, <3>3, <1>4 DEF Granted
  <2>2. ASSUME s2[d] = "waiting"
        PROVE  \E j \in 1..Len(q2) : q2[j] = d
    <3>1. state[d] = "waiting" /\ d \notin Granted
      BY <2>2, <1>4
    <3>2. PICK i \in 1..Len(queue) : queue[i] = d
      BY <3>1 DEF QueueIsWaiters
    <3>3. ~(i <= k)
      BY <3>1, <3>2, <1>1 DEF Granted
    <3>4. i - k \in 1..Len(q2) /\ k + (i - k) = i
      BY <3>2, <3>3, <1>0, <1>1, <1>3
    <3>5. q2[i - k] = queue[k + (i - k)]
      BY <3>4, <1>3
    <3> QED BY <3>2, <3>4, <3>5
  <2> QED BY <2>1, <2>2
<1>11. current + k = Cardinality(H2)
  <2>1. H2 = Holders \cup Granted
    BY <1>4, <1>6 DEF Holders
  <2>2. Holders \cap Granted = {}
    BY <1>6
  <2>3. Cardinality(Holders \cap Granted) = 0
    BY <2>2, FS_EmptySet
  <2> HIDE DEF H2
  <2>4. Cardinality(H2) = current + k - Cardinality(Holders \cap Granted)
    BY <2>1, <1>7, HoldersFinite, FS_Union DEF CountsHolders
  <2> QED BY <2>3, <2>4, <1>0, <1>1
<1>12. q2 # <<>> => ~HasRoom(m, current + k)
  <2>1. CASE k = Len(queue)
    <3>1. Len(q2) = 0
      BY <2>1, <1>0, <1>3
    <3> QED BY <3>1, <1>3, EmptySeq
  <2>2. CASE k < Len(queue)
    BY <2>2, <1>1
  <2> QED BY <2>1, <2>2, <1>0, <1>1
<1>13. Good(m, current + k, q2, s2)
  BY <1>0, <1>1, <1>3, <1>8, <1>9, <1>10, <1>11, <1>12 DEF Good
<1> QED BY <1>13 DEF q2, s2, k

-----------------------------------------------------------------------------
\* Each action.

\* acquire() preserves it.
LEMMA AcquireStep ==
  ASSUME IInv, NEW c \in Client, Acquire(c)
  PROVE  IInv'
<1>1. Good(max, current, queue, state) /\ state[c] = "out" /\ max' = max
  BY GoodIsIInv DEF Acquire
<1>2. CASE HasRoom(max, current)
  <2>1. Good(max, current + 1, queue, [state EXCEPT ![c] = "holding"])
    BY <1>1, <1>2, TakeSlotGood
  <2> QED BY <1>1, <1>2, <2>1, GoodIsIInv DEF Acquire
<1>3. CASE ~HasRoom(max, current)
  <2>1. Good(max, current, Append(queue, c), [state EXCEPT ![c] = "waiting"])
    BY <1>1, <1>3, QueueUpGood
  <2> QED BY <1>1, <1>3, <2>1, GoodIsIInv DEF Acquire
<1> QED BY <1>2, <1>3

\* resize() preserves it.
LEMMA ResizeStep ==
  ASSUME IInv, NEW n \in LimitInput, Resize(n)
  PROVE  IInv'
<1>1. NormalizeConcurrencyLimit(n) \in Nat
  BY NormalizedType
<1>2. Good(max', current', queue', state')
  BY <1>1, ResizeGood DEF Resize
<1> QED BY <1>2, GoodIsIInv

\* The abort of a queued acquire() preserves it: the spliced queue is that of
\* the clients still waiting.
LEMMA OnAbortStep ==
  ASSUME IInv, NEW c \in Client, OnAbort(c)
  PROVE  IInv'
<1> USE DEF IInv
<1>1. PICK k \in 1..Len(queue) : queue[k] = c /\ queue' = Splice(queue, k)
  BY DEF OnAbort
<1>2. /\ current' = current /\ max' = max /\ state[c] = "waiting"
      /\ state' = [state EXCEPT ![c] = "out"]
  BY DEF OnAbort
<1>3. /\ Len(queue) \in Nat
      /\ queue' \in Seq(Client)
      /\ Len(queue') = Len(queue) - 1
      /\ \A j \in 1..Len(queue') :
           queue'[j] = IF j < k THEN queue[j] ELSE queue[j + 1]
  BY <1>1, SpliceFacts, LenProperties DEF TypeOK
<1>4. TypeOK'
  BY <1>2, <1>3 DEF TypeOK
<1>5. \A i, j \in 1..Len(queue') : queue'[i] = queue'[j] => i = j
  BY <1>3 DEF QueueIsWaiters
<1>6. \A d \in Client : state'[d] = "waiting"
                        <=> \E i \in 1..Len(queue') : queue'[i] = d
  <2> SUFFICES ASSUME NEW d \in Client
               PROVE  state'[d] = "waiting"
                        <=> \E i \in 1..Len(queue') : queue'[i] = d
    OBVIOUS
  <2>1. CASE d = c
    <3>1. state'[d] # "waiting"
      BY <2>1, <1>2 DEF TypeOK
    <3>2. \A i \in 1..Len(queue') : queue'[i] # d
      BY <2>1, <1>1, <1>3 DEF QueueIsWaiters
    <3> QED BY <3>1, <3>2
  <2>2. CASE d # c
    <3>1. state'[d] = state[d]
      BY <2>2, <1>2 DEF TypeOK
    <3>2. ASSUME NEW i \in 1..Len(queue), queue[i] = d
          PROVE  \E j \in 1..Len(queue') : queue'[j] = d
      <4>1. i < k \/ i > k
        BY <3>2, <2>2, <1>1, <1>3
      <4>2. CASE i < k
        BY <4>2, <3>2, <1>3
      <4>3. CASE i > k
        <5>1. i - 1 \in 1..Len(queue') /\ queue'[i - 1] = queue[(i - 1) + 1]
          BY <4>3, <1>3
        <5>2. (i - 1) + 1 = i
          BY <1>3
        <5> QED BY <5>1, <5>2, <3>2
      <4> QED BY <4>1, <4>2, <4>3
    <3>3. ASSUME NEW j \in 1..Len(queue'), queue'[j] = d
          PROVE  \E i \in 1..Len(queue) : queue[i] = d
      BY <3>3, <1>3
    <3> QED BY <3>1, <3>2, <3>3 DEF QueueIsWaiters
  <2> QED BY <2>1, <2>2
<1>7. CountsHolders'
  <2>1. Holders' = Holders
    BY <1>2 DEF Holders, TypeOK
  <2> QED BY <2>1, <1>2 DEF CountsHolders
<1>8. NoIdleSlot'
  <2>1. queue # <<>>
    BY <1>1
  <2> QED BY <2>1, <1>2 DEF NoIdleSlot, HasRoom
<1> QED BY <1>4, <1>5, <1>6, <1>7, <1>8 DEF QueueIsWaiters

\* A holder that releases makes the count positive, so the guard in release()
\* is only ever a safety net.
LEMMA HolderCounted ==
  ASSUME IInv, NEW c \in Client, state[c] = "holding"
  PROVE  /\ Cardinality(Holders \ {c}) = current - 1
         /\ Decremented(current) = current - 1
         /\ current - 1 \in Nat
<1>1. c \in Holders
  BY DEF Holders
<1>2. Cardinality(Holders \ {c}) = Cardinality(Holders) - 1
  BY <1>1, HoldersFinite, FS_RemoveElement
<1>3. Cardinality(Holders \ {c}) \in Nat
  BY HoldersFinite, FS_RemoveElement, FS_CardinalityType
<1> QED BY <1>2, <1>3, HoldersFinite DEF IInv, CountsHolders, Decremented

\* release() preserves it, whether it hands the slot on or not.
LEMMA ReleaseStep ==
  ASSUME IInv, NEW c \in Client, Release(c)
  PROVE  IInv'
<1> USE DEF IInv
<1> DEFINE h == Head(queue)
<1>1. /\ state[c] = "holding" /\ max' = max
      /\ Cardinality(Holders \ {c}) = current - 1
      /\ Decremented(current) = current - 1
      /\ current - 1 \in Nat /\ current \in Nat
  BY HolderCounted DEF Release, TypeOK
<1>2. Len(queue) \in Nat /\ \A i \in 1..Len(queue) : queue[i] # c
  BY <1>1, LenProperties DEF TypeOK, QueueIsWaiters
<1>3. CASE HasRoom(max, current - 1) /\ queue # <<>>
  <2>0. /\ current' = current /\ queue' = Tail(queue)
        /\ state' = [state EXCEPT ![c] = "out", ![h] = "holding"]
    BY <1>1, <1>3 DEF Release
  <2>1. /\ Len(queue) >= 1
        /\ h = queue[1] /\ h \in Client /\ h # c
        /\ queue' \in Seq(Client)
        /\ Len(queue') = Len(queue) - 1
        /\ \A i \in 1..Len(queue') : queue'[i] = queue[i + 1]
    BY <1>2, <1>3, <2>0, HeadTailProperties, EmptySeq DEF TypeOK
  <2>2. state[h] = "waiting"
    BY <2>1, <1>2 DEF QueueIsWaiters
  <2> HIDE DEF h
  <2>3. /\ state' \in [Client -> {"out", "waiting", "holding"}]
        /\ state'[c] = "out" /\ state'[h] = "holding"
        /\ \A d \in Client \ {c, h} : state'[d] = state[d]
    BY <2>0, <2>1 DEF TypeOK
  <2>4. TypeOK'
    BY <2>0, <2>1, <2>3, <1>1 DEF TypeOK
  <2>5. \A i, j \in 1..Len(queue') : queue'[i] = queue'[j] => i = j
    <3> SUFFICES ASSUME NEW i \in 1..Len(queue'), NEW j \in 1..Len(queue'),
                        queue'[i] = queue'[j]
                 PROVE  i = j
      OBVIOUS
    <3>1. i + 1 \in 1..Len(queue) /\ j + 1 \in 1..Len(queue)
      BY <2>1, <1>2
    <3>2. i + 1 = j + 1
      BY <3>1, <2>1 DEF QueueIsWaiters
    <3> QED BY <3>2, <1>2, <2>1
  <2>6. \A d \in Client : state'[d] = "waiting"
                          <=> \E i \in 1..Len(queue') : queue'[i] = d
    <3> SUFFICES ASSUME NEW d \in Client
                 PROVE  state'[d] = "waiting"
                          <=> \E i \in 1..Len(queue') : queue'[i] = d
      OBVIOUS
    <3>1. ASSUME NEW j \in 1..Len(queue'), queue'[j] = d
          PROVE  state'[d] = "waiting"
      <4>1. j + 1 \in 1..Len(queue) /\ queue[j + 1] = d /\ j + 1 # 1
        BY <3>1, <2>1, <1>2
      <4>2. state[d] = "waiting"
        BY <4>1 DEF QueueIsWaiters
      <4>3. d # h /\ d # c
        BY <4>1, <2>1, <1>2 DEF QueueIsWaiters
      <4> QED BY <4>2, <4>3, <2>3
    <3>2. ASSUME state'[d] = "waiting"
          PROVE  \E j \in 1..Len(queue') : queue'[j] = d
      <4>1. d # h /\ d # c /\ state[d] = "waiting"
        BY <3>2, <2>3
      <4>2. PICK i \in 1..Len(queue) : queue[i] = d
        BY <4>1 DEF QueueIsWaiters
      <4>3. i # 1
        BY <4>1, <4>2, <2>1
      <4>4. i - 1 \in 1..Len(queue') /\ (i - 1) + 1 = i
        BY <4>3, <2>1, <1>2
      <4>5. queue'[i - 1] = queue[(i - 1) + 1]
        BY <4>4, <2>1
      <4> QED BY <4>2, <4>4, <4>5
    <3> QED BY <3>1, <3>2
  <2>7. CountsHolders'
    <3>1. Holders' = (Holders \ {c}) \cup {h}
      BY <2>1, <2>3 DEF Holders
    <3>2. h \notin Holders \ {c}
      BY <2>2 DEF Holders
    <3>3. IsFiniteSet(Holders \ {c})
      BY HoldersFinite, FS_RemoveElement
    <3>4. Cardinality(Holders') = (current - 1) + 1
      BY <3>1, <3>2, <3>3, <1>1, FS_AddElement
    <3> QED BY <3>4, <2>0, <1>1 DEF CountsHolders
  <2>8. NoIdleSlot'
    BY <2>0, <1>1, <1>3 DEF NoIdleSlot, HasRoom
  <2> QED BY <2>4, <2>5, <2>6, <2>7, <2>8 DEF QueueIsWaiters
<1>4. CASE ~(HasRoom(max, current - 1) /\ queue # <<>>)
  <2>0. /\ current' = current - 1 /\ queue' = queue
        /\ state' = [state EXCEPT ![c] = "out"]
    BY <1>1, <1>4 DEF Release
  <2>1. TypeOK'
    BY <2>0, <1>1 DEF TypeOK
  <2>2. QueueIsWaiters'
    BY <2>0, <1>1, <1>2 DEF QueueIsWaiters, TypeOK
  <2>3. CountsHolders'
    <3>1. Holders' = Holders \ {c}
      BY <2>0 DEF Holders, TypeOK
    <3> QED BY <3>1, <2>0, <1>1 DEF CountsHolders
  <2>4. NoIdleSlot'
    BY <2>0, <1>1, <1>4 DEF NoIdleSlot
  <2> QED BY <2>1, <2>2, <2>3, <2>4
<1> QED BY <1>3, <1>4

-----------------------------------------------------------------------------
\* A step that changes no variable of the semaphore preserves it.
LEMMA StutterStep == IInv /\ UNCHANGED semVars => IInv'
BY DEF IInv, semVars, TypeOK, QueueIsWaiters, CountsHolders, NoIdleSlot, Holders

\* Every step of the semaphore preserves the inductive invariant.
LEMMA NextIInv == IInv /\ [Next]_semVars => IInv'
BY AcquireStep, OnAbortStep, ReleaseStep, ResizeStep, StutterStep DEF Next

\* IInv is an inductive invariant of the semaphore.
THEOREM Invariance == Spec => []IInv
BY InitIInv, NextIInv, PTL DEF Spec

\* The state of the semaphore is well typed.
THEOREM TypeCorrect == Spec => []TypeOK
<1>1. IInv => TypeOK
  BY DEF IInv
<1> QED BY <1>1, Invariance, PTL

\* No abandoned waiter stays in the queue, for any number of clients.
THEOREM NoAbandonedWaiter == Spec => []QueueIsWaiters
<1>1. IInv => QueueIsWaiters
  BY DEF IInv
<1> QED BY <1>1, Invariance, PTL

\* The semaphore never leaks a slot: #current is the number of holders.
THEOREM NoLeakedSlot == Spec => []CountsHolders
<1>1. IInv => CountsHolders
  BY DEF IInv
<1> QED BY <1>1, Invariance, PTL

\* A waiter never waits while a slot is free.
THEOREM NoWaiterWhileRoom == Spec => []NoIdleSlot
<1>1. IInv => NoIdleSlot
  BY DEF IInv
<1> QED BY <1>1, Invariance, PTL

-----------------------------------------------------------------------------
\* Of two queued clients the later one gets its slot only if the earlier one
\* does: release() wakes the head of the queue, resize() a prefix of it, and
\* the other methods nobody.
LEMMA GrantOrder ==
  ASSUME IInv, [Next]_semVars, NEW i \in 1..Len(queue), NEW j \in 1..Len(queue),
         i < j, state'[queue[j]] = "holding"
  PROVE  state'[queue[i]] = "holding"
<1>0. /\ Len(queue) \in Nat /\ queue \in Seq(Client) /\ current \in Nat
      /\ state \in [Client -> {"out", "waiting", "holding"}]
      /\ queue[i] \in Client /\ queue[j] \in Client
  BY LenProperties, ElementOfSeq DEF IInv, TypeOK
<1>1. state[queue[i]] = "waiting" /\ state[queue[j]] = "waiting"
  BY <1>0 DEF IInv, QueueIsWaiters
<1>2. ASSUME NEW c \in Client, Acquire(c) PROVE FALSE
  <2>1. queue[j] # c
    BY <1>1, <1>2 DEF Acquire
  <2> QED BY <1>0, <1>1, <1>2, <2>1 DEF Acquire
<1>3. ASSUME NEW c \in Client, OnAbort(c) PROVE FALSE
  BY <1>0, <1>1, <1>3 DEF OnAbort
<1>4. ASSUME NEW c \in Client, Release(c) PROVE FALSE
  <2>1. queue[j] # c
    BY <1>1, <1>4 DEF Release
  <2>2. queue[j] # Head(queue)
    <3>1. queue # <<>> /\ 1 \in 1..Len(queue) /\ j # 1
      BY <1>0, EmptySeq
    <3>2. Head(queue) = queue[1]
      BY <1>0, <3>1, HeadTailProperties
    <3> QED BY <3>1, <3>2 DEF IInv, QueueIsWaiters
  <2>3. state'[queue[j]] = state[queue[j]]
    BY <1>0, <1>4, <2>1, <2>2 DEF Release
  <2> QED BY <1>1, <2>3
<1>5. ASSUME NEW n \in LimitInput, Resize(n) PROVE state'[queue[i]] = "holding"
  <2> DEFINE k == Admitted(NormalizeConcurrencyLimit(n), current, Len(queue))
  <2>1. state' = Granting(k)
    BY <1>5 DEF Resize
  <2>2. k \in 0..Len(queue)
    BY <1>0, NormalizedType, AdmittedFacts
  <2> HIDE DEF k
  <2>3. PICK m \in 1..k : queue[m] = queue[j]
    BY <1>0, <1>1, <2>1 DEF Granting
  <2>4. m = j
    BY <1>0, <2>2, <2>3 DEF IInv, QueueIsWaiters
  <2>5. i \in 1..k
    BY <1>0, <2>2, <2>4
  <2> QED BY <1>0, <2>1, <2>5 DEF Granting
<1>6. CASE UNCHANGED semVars
  BY <1>1, <1>6 DEF semVars
<1> QED BY <1>2, <1>3, <1>4, <1>5, <1>6 DEF Next

\* Slots are granted in the order in which they were asked for, for any number
\* of clients, through aborts in the middle of the queue and resizes.
THEOREM ServedInOrder == Spec => FirstComeFirstServed
<1>1. IInv /\ [Next]_semVars =>
        [\A i, j \in 1..Len(queue) :
           i < j /\ state'[queue[j]] = "holding" => state'[queue[i]] = "holding"]_semVars
  BY GrantOrder
<1> QED BY <1>1, Invariance, PTL DEF Spec, FirstComeFirstServed

-----------------------------------------------------------------------------
(* The semaphore implements SlotPool, for every finite set of clients and  *)
(* every set of limits: each operation is an operation of the pool, with   *)
(* the clients in #queue as those who wait.  A step may use that nobody    *)
(* waits beside a free slot before and after it, which is the part of IInv *)
(* that says the pool's hand-over is immediate.                            *)

\* The pool counts as the semaphore does.
LEMMA SameCount == \A S : Pool!Cardinality(S) = Cardinality(S)
  BY DEF Pool!Cardinality, Cardinality

\* What the pool calls full is a ceiling without room.
LEMMA FullIsNoRoom ==
  ASSUME IInv
  PROVE  /\ Pool!Full(Holders, max) <=> ~HasRoom(max, current)
         /\ Waiters # {} <=> queue # <<>>
<1>1. Pool!Full(Holders, max) <=> ~HasRoom(max, current)
  BY SameCount DEF IInv, TypeOK, CountsHolders, HasRoom, Unlimited, Pool!Full
<1>2. queue # <<>> <=> Len(queue) # 0
  BY EmptySeq DEF IInv, TypeOK
<1>3. Len(queue) \in Nat
  BY DEF IInv, TypeOK
<1>4. Waiters # {} <=> Len(queue) # 0
  <2>1. \A i \in 1..Len(queue) : queue[i] \in Client
    BY ElementOfSeq DEF IInv, TypeOK
  <2> QED BY <1>3, <2>1 DEF IInv, QueueIsWaiters, Waiters
<1> QED BY <1>1, <1>2, <1>4

\* A hand-over the pool allows: the slots go to waiters, within the ceiling.
LEMMA HandOver ==
  ASSUME IInv', NEW h, NEW granted \in SUBSET Waiters,
         Holders' = h \union granted, Waiters' = Waiters \ granted,
         granted # {} => Pool!Fits(Holders', max')
  PROVE  Pool!Admit(h, max')
<1>1. Waiters' # {} => Pool!Full(Holders', max')
  <2>1. Waiters' # {} <=> queue' # <<>>
    <3>1. queue' # <<>> <=> Len(queue') # 0
      BY EmptySeq DEF IInv, TypeOK
    <3>2. Len(queue') \in Nat /\ \A i \in 1..Len(queue') : queue'[i] \in Client
      BY ElementOfSeq DEF IInv, TypeOK
    <3> QED BY <3>1, <3>2 DEF IInv, QueueIsWaiters, Waiters
  <2>2. Pool!Full(Holders', max') <=> ~HasRoom(max', current')
    BY SameCount DEF IInv, TypeOK, CountsHolders, HasRoom, Unlimited, Pool!Full
  <2>3. queue' # <<>> => ~HasRoom(max', current')
    BY DEF IInv, NoIdleSlot, HasRoom
  <2> QED BY <2>1, <2>2, <2>3
<1> QED BY <1>1 DEF Pool!Admit

LEMMA AcquireRefines ==
  ASSUME IInv, NEW c \in Client, Acquire(c)
  PROVE  Pool!Ask(c)
<1>1. c \notin Holders \union Waiters
  BY DEF Acquire, Holders, Waiters
<1>2. CASE HasRoom(max, current)
  <2>1. Holders' = Holders \union {c} /\ Waiters' = Waiters /\ max' = max
    BY <1>2 DEF Acquire, Holders, Waiters, IInv, TypeOK
  <2> QED BY <1>1, <1>2, <2>1, FullIsNoRoom DEF Pool!Ask
<1>3. CASE ~HasRoom(max, current)
  <2>1. Holders' = Holders /\ Waiters' = Waiters \union {c} /\ max' = max
    BY <1>3 DEF Acquire, Holders, Waiters, IInv, TypeOK
  <2> QED BY <1>1, <1>3, <2>1, FullIsNoRoom DEF Pool!Ask
<1> QED BY <1>2, <1>3

LEMMA OnAbortRefines ==
  ASSUME IInv, NEW c \in Client, OnAbort(c)
  PROVE  Pool!GiveUp(c)
<1>1. c \in Waiters /\ Waiters' = Waiters \ {c} /\ Holders' = Holders /\ max' = max
  BY DEF OnAbort, Holders, Waiters, IInv, TypeOK
<1> QED BY <1>1 DEF Pool!GiveUp

LEMMA ReleaseRefines ==
  ASSUME IInv, IInv', NEW c \in Client, Release(c)
  PROVE  Pool!GiveBack(c)
<1> DEFINE left == Decremented(current)
<1>0. c \in Holders /\ max' = max /\ left \in Nat /\ max \in Nat
  BY DEF Release, Holders, Decremented, IInv, TypeOK
<1>1. CASE HasRoom(max, left) /\ queue # <<>>
  <2> DEFINE h == Head(queue)
  <2>1. h \in Waiters /\ h # c
    <3>1. Len(queue) \in Nat /\ Len(queue) # 0 /\ h = queue[1] /\ queue[1] \in Client
      BY <1>1, EmptySeq, HeadTailProperties, ElementOfSeq DEF IInv, TypeOK
    <3> QED BY <3>1 DEF IInv, QueueIsWaiters, Waiters, Release
  <2>2. current' = left + 1 /\ state' = [state EXCEPT ![c] = "out", ![h] = "holding"]
    BY <1>1 DEF Release
  <2> HIDE DEF h
  <2>3. Holders' = (Holders \ {c}) \union {h} /\ Waiters' = Waiters \ {h}
    BY <2>1, <2>2, <1>0 DEF Holders, Waiters, IInv, TypeOK
  <2> HIDE DEF left
  <2>4. Pool!Fits(Holders', max')
    <3>1. Cardinality(Holders') = left + 1
      BY <2>2 DEF IInv, CountsHolders
    <3>2. max' = 0 \/ left + 1 <= max'
      BY <1>0, <1>1 DEF HasRoom, Unlimited
    <3> QED BY <3>1, <3>2, SameCount DEF Pool!Fits
  <2>5. Pool!Admit(Holders \ {c}, max')
    BY <2>1, <2>3, <2>4, HandOver
  <2> QED BY <1>0, <2>5 DEF Pool!GiveBack
<1>2. CASE ~(HasRoom(max, left) /\ queue # <<>>)
  <2>1. state' = [state EXCEPT ![c] = "out"]
    BY <1>2 DEF Release
  <2>2. Holders' = (Holders \ {c}) \union {} /\ Waiters' = Waiters \ {}
    BY <2>1, <1>0 DEF Holders, Waiters, IInv, TypeOK
  <2>3. Pool!Admit(Holders \ {c}, max')
    BY <2>2, HandOver
  <2> QED BY <1>0, <2>3 DEF Pool!GiveBack
<1> QED BY <1>1, <1>2

LEMMA ResizeRefines ==
  ASSUME IInv, IInv', NEW n \in LimitInput, Resize(n)
  PROVE  Pool!SetCeiling(NormalizeConcurrencyLimit(n))
<1> DEFINE m == NormalizeConcurrencyLimit(n)
           k == Admitted(m, current, Len(queue))
           granted == {c \in Client : \E i \in 1..k : queue[i] = c}
<1>0. /\ max' = m /\ current' = current + k /\ state' = Granting(k)
      /\ m \in Nat /\ current \in Nat /\ Len(queue) \in Nat
  BY NormalizedType DEF Resize, IInv, TypeOK
<1>1. k \in 0..Len(queue) /\ (k # 0 => m = Unlimited \/ current + k <= m)
  BY <1>0 DEF Admitted, Unlimited
<1> HIDE DEF m, k
<1>2. granted \in SUBSET Waiters
  BY <1>0, <1>1 DEF IInv, QueueIsWaiters, Waiters
<1>3. Holders' = Holders \union granted /\ Waiters' = Waiters \ granted
  BY <1>0, <1>2 DEF Granting, Holders, Waiters, IInv, TypeOK
<1>4. granted # {} => Pool!Fits(Holders', max')
  <2>1. ASSUME granted # {} PROVE k # 0
    BY <2>1, <1>1
  <2> QED BY <2>1, <1>0, <1>1, SameCount DEF Pool!Fits, Unlimited, IInv, CountsHolders
<1> HIDE DEF granted
<1>5. Pool!Admit(Holders, max')
  BY <1>2, <1>3, <1>4, HandOver
<1> QED BY <1>0, <1>5 DEF Pool!SetCeiling, m

\* The semaphore, with its counter, its queue and its resizes, is a slot pool:
\* slots up to the ceiling and no further, handed on in the step that frees
\* them, and nothing left of a caller that gives up.
THEOREM SemaphoreIsSlotPool == Spec => ImplementsSlotPool
<1>1. Init => Pool!Init
  BY DEF Init, Pool!Init, Holders, Waiters
<1>2. IInv /\ IInv' /\ [Next]_semVars => [Pool!Next]_(Pool!poolVars)
  <2> SUFFICES ASSUME IInv, IInv', [Next]_semVars PROVE [Pool!Next]_(Pool!poolVars)
    OBVIOUS
  <2>1. ASSUME NEW c \in Client, Acquire(c) \/ OnAbort(c) \/ Release(c) PROVE Pool!Next
    BY <2>1, AcquireRefines, OnAbortRefines, ReleaseRefines DEF Pool!Next
  <2>2. ASSUME NEW n \in LimitInput, Resize(n) PROVE Pool!Next
    BY <2>2, ResizeRefines DEF Pool!Next
  <2>3. CASE UNCHANGED semVars
    BY <2>3 DEF semVars, Pool!poolVars, Holders, Waiters
  <2> QED BY <2>1, <2>2, <2>3 DEF Next
<1> QED BY <1>1, <1>2, Invariance, PTL DEF Spec, ImplementsSlotPool, Pool!Spec

-----------------------------------------------------------------------------
(* The spawn tree *)

TreeTypes ==
  /\ run \in [Agent -> {"dormant", "ready", "request", "tools", "done"}]
  /\ turn \in [Agent -> 1..Turns]
  /\ aborted \in [Agent -> BOOLEAN]
  /\ req \in [Client -> {"none", "calling", "streaming", "ended", "over"}]

Slots ==
  \A r \in Client :
    /\ req[r] = "calling" => state[r] \in {"waiting", "holding"}
    /\ req[r] \in {"streaming", "ended"} => state[r] = "holding"
    /\ req[r] \in {"none", "over"} => state[r] = "out"

Order ==
  \A a \in Agent :
    /\ \A t \in 1..Turns : t > turn[a] => req[<<a, t>>] = "none"
    /\ run[a] \in {"dormant", "ready"} => req[<<a, turn[a]>>] = "none"
    /\ run[a] = "tools" => turn[a] < Turns
    /\ run[a] = "dormant" => turn[a] = 1
    /\ turn[a] = 1 /\ run[a] \notin {"tools", "done"} =>
         \A b \in ChildrenOf[a] : run[b] = "dormant"

TreeIInv == IInv /\ TreeTypes /\ Slots /\ Order

-----------------------------------------------------------------------------
\* The request of an agent's current turn is a client of the semaphore.
LEMMA CurrentIsClient ==
  ASSUME TreeTypes, NEW a \in Agent
  PROVE  Current(a) \in Client /\ Current(a) = <<a, turn[a]>> /\ turn[a] \in 1..Turns
BY TreeAssumption DEF TreeTypes, Current

\* Before the first call the semaphore is new and no agent but the root runs.
LEMMA InitTree == TreeInit => TreeIInv
<1> SUFFICES ASSUME TreeInit PROVE TreeIInv
  OBVIOUS
<1>1. IInv
  BY InitIInv DEF TreeInit
<1>2. TreeTypes
  BY TreeAssumption DEF TreeInit, TreeTypes
<1>3. Slots
  BY DEF TreeInit, Init, Slots
<1>4. Order
  <2>1. \A a \in Agent, t \in 1..Turns : <<a, t>> \in Client /\ req[<<a, t>>] = "none"
    BY TreeAssumption DEF TreeInit
  <2>2. \A a \in Agent : \A b \in ChildrenOf[a] : b \in Agent /\ run[b] = "dormant"
    BY TreeAssumption DEF TreeInit
  <2> QED BY <2>1, <2>2, TreeAssumption DEF TreeInit, Order
<1> QED BY <1>1, <1>2, <1>3, <1>4 DEF TreeIInv

-----------------------------------------------------------------------------
\* A step that changes the run of agent a alone, not to or from dormant, and
\* the request of its current turn at most, keeps Order.
LEMMA OrderKept ==
  ASSUME TreeTypes, Order, NEW a \in Agent,
         run[a] \in {"ready", "request"}, NEW s \in {"request", "done"},
         run' = [run EXCEPT ![a] = s], turn' = turn,
         \A r \in Client : r # Current(a) => req'[r] = req[r]
  PROVE  Order'
<1>1. \A b \in Agent : run'[b] = IF b = a THEN s ELSE run[b]
  BY DEF TreeTypes
<1>2. \A b \in Agent, t \in 1..Turns :
        <<b, t>> # <<a, turn[a]>> => req'[<<b, t>>] = req[<<b, t>>]
  BY TreeAssumption DEF Current
<1>3. Turns \in Nat /\ \A b \in Agent : turn[b] \in 1..Turns
  BY TreeAssumption DEF TreeTypes
<1> SUFFICES ASSUME NEW b \in Agent
             PROVE  /\ \A t \in 1..Turns : t > turn[b] => req'[<<b, t>>] = "none"
                    /\ run'[b] \in {"dormant", "ready"} => req'[<<b, turn[b]>>] = "none"
                    /\ run'[b] = "tools" => turn[b] < Turns
                    /\ run'[b] = "dormant" => turn[b] = 1
                    /\ turn[b] = 1 /\ run'[b] \notin {"tools", "done"} =>
                         \A c \in ChildrenOf[b] : run'[c] = "dormant"
  BY DEF Order
<1>4. ASSUME NEW t \in 1..Turns, t > turn[b]
      PROVE  req'[<<b, t>>] = "none"
  <2>1. <<b, t>> # <<a, turn[a]>>
    BY <1>3, <1>4
  <2>2. req[<<b, t>>] = "none"
    BY <1>4 DEF Order
  <2> QED BY <2>1, <2>2, <1>2
<1>5. run'[b] \in {"dormant", "ready"} => req'[<<b, turn[b]>>] = "none"
  BY <1>1, <1>2, <1>3 DEF Order
<1>6. (run'[b] = "tools" => turn[b] < Turns) /\ (run'[b] = "dormant" => turn[b] = 1)
  <2>1. CASE b = a
    BY <2>1, <1>1
  <2>2. CASE b # a
    <3>1. run'[b] = run[b]
      BY <2>2, <1>1
    <3> QED BY <3>1 DEF Order
  <2> QED BY <2>1, <2>2
<1>7. ASSUME turn[b] = 1, run'[b] \notin {"tools", "done"}, NEW c \in ChildrenOf[b]
      PROVE  run'[c] = "dormant"
  <2>1. run[b] \notin {"tools", "done"}
    BY <1>1, <1>7
  <2>2. run[c] = "dormant" /\ c \in Agent
    BY <2>1, <1>7, TreeAssumption DEF Order
  <2> QED BY <2>2, <1>1
<1> QED BY <1>4, <1>5, <1>6, <1>7

\* Call: the resize and the acquire() that follows it.
LEMMA CallStep ==
  ASSUME TreeIInv, NEW a \in Agent, NEW n \in LimitInput, Call(a, n)
  PROVE  TreeIInv'
<1> DEFINE m     == NormalizeConcurrencyLimit(n)
           k     == Admitted(m, current, Len(queue))
           taken == current + k
           rest  == SubSeq(queue, k + 1, Len(queue))
           s     == Granting(k)
           r     == Current(a)
<1>0. IInv /\ TreeTypes /\ Slots /\ Order
  BY DEF TreeIInv
<1>1. Good(m, taken, rest, s)
  BY <1>0, NormalizedType, ResizeGood
<1>2. r \in Client /\ r = <<a, turn[a]>>
  BY <1>0, CurrentIsClient
<1>3. k \in 0..Len(queue)
  BY <1>0, NormalizedType, LenProperties, AdmittedFacts DEF IInv, TypeOK
<1>4. \A c \in Client : s[c] = state[c] \/ (state[c] = "waiting" /\ s[c] = "holding")
  <2>1. \A i \in 1..k : i \in 1..Len(queue)
    BY <1>0, <1>3, LenProperties DEF IInv, TypeOK
  <2> HIDE DEF k
  <2> QED BY <1>0, <2>1 DEF Granting, IInv, QueueIsWaiters
<1>5. /\ run[a] = "ready" /\ max' = m /\ turn' = turn /\ aborted' = aborted
      /\ \/ /\ aborted[a]
            /\ current' = taken /\ queue' = rest /\ state' = s
            /\ run' = [run EXCEPT ![a] = "done"]
            /\ UNCHANGED req
         \/ /\ ~aborted[a] /\ HasRoom(m, taken)
            /\ current' = taken + 1 /\ queue' = rest
            /\ state' = [s EXCEPT ![r] = "holding"]
            /\ run' = [run EXCEPT ![a] = "request"]
            /\ req' = [req EXCEPT ![r] = "calling"]
         \/ /\ ~aborted[a] /\ ~HasRoom(m, taken)
            /\ current' = taken /\ queue' = Append(rest, r)
            /\ state' = [s EXCEPT ![r] = "waiting"]
            /\ run' = [run EXCEPT ![a] = "request"]
            /\ req' = [req EXCEPT ![r] = "calling"]
  BY DEF Call
<1>6. req[r] = "none" /\ state[r] = "out" /\ s[r] = "out"
  BY <1>0, <1>2, <1>4, <1>5 DEF Order, Slots
<1>7. s \in [Client -> {"out", "waiting", "holding"}]
  BY <1>1 DEF Good
<1> HIDE DEF m, k, taken, rest, s, r
<1>8. Good(max', current', queue', state')
  <2>1. CASE aborted[a]
    BY <2>1, <1>1, <1>5
  <2>2. CASE ~aborted[a] /\ HasRoom(m, taken)
    <3>1. Good(m, taken + 1, rest, [s EXCEPT ![r] = "holding"])
      BY <2>2, <1>1, <1>2, <1>6, TakeSlotGood
    <3> QED BY <2>2, <3>1, <1>5
  <2>3. CASE ~aborted[a] /\ ~HasRoom(m, taken)
    <3>1. Good(m, taken, Append(rest, r), [s EXCEPT ![r] = "waiting"])
      BY <2>3, <1>1, <1>2, <1>6, QueueUpGood
    <3> QED BY <2>3, <3>1, <1>5
  <2> QED BY <2>1, <2>2, <2>3
<1>9. IInv'
  BY <1>8, GoodIsIInv
<1>10. TreeTypes'
  BY <1>0, <1>2, <1>5 DEF TreeTypes
<1>11. Slots'
  <2>1. CASE aborted[a]
    BY <2>1, <1>0, <1>4, <1>5 DEF Slots
  <2>2. CASE ~aborted[a]
    <3>1. req' = [req EXCEPT ![r] = "calling"] /\ req \in [Client ->
            {"none", "calling", "streaming", "ended", "over"}]
      BY <2>2, <1>0, <1>5 DEF TreeTypes
    <3>2. \A c \in Client : c # r => state'[c] = s[c]
      BY <2>2, <1>5, <1>7
    <3>3. state'[r] \in {"waiting", "holding"}
      BY <2>2, <1>2, <1>5, <1>7
    <3> QED BY <3>1, <3>2, <3>3, <1>0, <1>2, <1>4 DEF Slots
  <2> QED BY <2>1, <2>2
<1>12. Order'
  <2>1. \A c \in Client : c # r => req'[c] = req[c]
    BY <1>0, <1>5 DEF TreeTypes
  <2>2. \E x \in {"request", "done"} : run' = [run EXCEPT ![a] = x]
    BY <1>5
  <2>3. PICK x \in {"request", "done"} : run' = [run EXCEPT ![a] = x]
    BY <2>2
  <2> QED BY <2>1, <2>3, <1>0, <1>5, OrderKept DEF r
<1> QED BY <1>9, <1>10, <1>11, <1>12 DEF TreeIInv
\* An aborted agent which waits for a slot leaves the queue and is done; the
\* flag of any other changes nothing here.
LEMMA AbortStep ==
  ASSUME TreeIInv, NEW a \in Agent, Abort(a)
  PROVE  TreeIInv'
<1> DEFINE r == Current(a)
<1>0. IInv /\ TreeTypes /\ Slots /\ Order
  BY DEF TreeIInv
<1>1. r \in Client /\ r = <<a, turn[a]>>
  BY <1>0, CurrentIsClient
<1>2. CASE run[a] = "request" /\ state[r] = "waiting"
  <2>1. /\ OnAbort(r) /\ turn' = turn /\ aborted' = [aborted EXCEPT ![a] = TRUE]
        /\ req' = [req EXCEPT ![r] = "over"] /\ run' = [run EXCEPT ![a] = "done"]
    BY <1>2 DEF Abort
  <2> HIDE DEF r
  <2>2. IInv'
    BY <1>0, <1>1, <2>1, OnAbortStep
  <2>3. TreeTypes'
    BY <1>0, <1>1, <2>1 DEF TreeTypes
  <2>4. Slots'
    <3>1. state' = [state EXCEPT ![r] = "out"]
      BY <2>1 DEF OnAbort
    <3> QED BY <3>1, <2>1, <1>0, <1>1 DEF Slots, TreeTypes, IInv, TypeOK
  <2>5. Order'
    <3>1. \A c \in Client : c # r => req'[c] = req[c]
      BY <2>1, <1>0 DEF TreeTypes
    <3> QED BY <3>1, <2>1, <1>0, <1>2, OrderKept DEF r
  <2> QED BY <2>2, <2>3, <2>4, <2>5 DEF TreeIInv
<1>3. CASE ~(run[a] = "request" /\ state[r] = "waiting")
  <2>1. UNCHANGED <<semVars, run, turn, req>> /\ aborted' = [aborted EXCEPT ![a] = TRUE]
    BY <1>3 DEF Abort
  <2>2. IInv'
    BY <1>0, <2>1, StutterStep
  <2>3. TreeTypes' /\ Slots' /\ Order'
    BY <1>0, <2>1 DEF TreeTypes, Slots, Order, semVars
  <2> QED BY <2>2, <2>3 DEF TreeIInv
<1> QED BY <1>2, <1>3

\* The stream is there: the request keeps the slot it holds.
LEMMA BaseReturnsStep ==
  ASSUME TreeIInv, NEW a \in Agent, BaseReturns(a)
  PROVE  TreeIInv'
<1> DEFINE r == Current(a)
<1>0. IInv /\ TreeTypes /\ Slots /\ Order
  BY DEF TreeIInv
<1>1. r \in Client /\ r = <<a, turn[a]>>
  BY <1>0, CurrentIsClient
<1>2. /\ run[a] = "request" /\ req[r] = "calling" /\ state[r] = "holding"
      /\ req' = [req EXCEPT ![r] = "streaming"]
      /\ UNCHANGED <<semVars, run, turn, aborted>>
  BY DEF BaseReturns
<1> HIDE DEF r
<1>3. IInv' /\ TreeTypes'
  BY <1>0, <1>1, <1>2, StutterStep DEF TreeTypes
<1>4. Slots'
  BY <1>0, <1>1, <1>2 DEF Slots, TreeTypes, semVars
<1>5. Order'
  <2>1. \A c \in Client : c # r => req'[c] = req[c]
    BY <1>0, <1>2 DEF TreeTypes
  <2>2. run' = [run EXCEPT ![a] = "request"]
    BY <1>0, <1>2 DEF TreeTypes
  <2> QED BY <2>1, <2>2, <1>0, <1>2, OrderKept DEF r
<1> QED BY <1>3, <1>4, <1>5 DEF TreeIInv

\* A slot that is released goes to nobody or to a waiter: the other requests
\* keep theirs.
LEMMA ReleaseSlots ==
  ASSUME IInv, TreeTypes, Slots, NEW r \in Client, Release(r),
         req' = [req EXCEPT ![r] = "over"]
  PROVE  Slots'
<1>1. \A c \in Client : c # r =>
        state'[c] = state[c] \/ (state[c] = "waiting" /\ state'[c] = "holding")
  <2>1. CASE queue # <<>>
    <3>1. Head(queue) \in Client /\ state[Head(queue)] = "waiting"
      <4>1. 1 \in 1..Len(queue) /\ Head(queue) = queue[1] /\ queue[1] \in Client
        BY <2>1, HeadTailProperties, EmptySeq, LenProperties, ElementOfSeq DEF IInv, TypeOK
      <4> QED BY <4>1 DEF IInv, QueueIsWaiters
    <3> QED BY <3>1 DEF Release, IInv, TypeOK
  <2>2. CASE queue = <<>>
    BY <2>2 DEF Release, IInv, TypeOK
  <2> QED BY <2>1, <2>2
<1>2. state[r] = "holding" /\ state'[r] = "out"
  <2>1. CASE queue # <<>>
    <3>1. Head(queue) # r
      <4>1. 1 \in 1..Len(queue) /\ Head(queue) = queue[1] /\ queue[1] \in Client
        BY <2>1, HeadTailProperties, EmptySeq, LenProperties, ElementOfSeq DEF IInv, TypeOK
      <4> QED BY <4>1 DEF IInv, QueueIsWaiters, Release
    <3> QED BY <3>1 DEF Release, IInv, TypeOK
  <2>2. CASE queue = <<>>
    BY <2>2 DEF Release, IInv, TypeOK
  <2> QED BY <2>1, <2>2
<1>3. req'[r] = "over" /\ \A c \in Client : c # r => req'[c] = req[c]
  BY DEF TreeTypes
<1> QED BY <1>1, <1>2, <1>3 DEF Slots

\* The request fails before there is a stream.
LEMMA BaseThrowsStep ==
  ASSUME TreeIInv, NEW a \in Agent, BaseThrows(a)
  PROVE  TreeIInv'
<1> DEFINE r == Current(a)
<1>0. IInv /\ TreeTypes /\ Slots /\ Order
  BY DEF TreeIInv
<1>1. r \in Client /\ r = <<a, turn[a]>>
  BY <1>0, CurrentIsClient
<1>2. /\ run[a] = "request" /\ req[r] = "calling" /\ Release(r)
      /\ req' = [req EXCEPT ![r] = "over"] /\ run' = [run EXCEPT ![a] = "done"]
      /\ UNCHANGED <<turn, aborted>>
  BY DEF BaseThrows
<1> HIDE DEF r
<1>3. IInv' /\ Slots' /\ TreeTypes'
  BY <1>0, <1>1, <1>2, ReleaseStep, ReleaseSlots DEF TreeTypes
<1>4. Order'
  <2>1. \A c \in Client : c # r => req'[c] = req[c]
    BY <1>0, <1>2 DEF TreeTypes
  <2> QED BY <2>1, <1>0, <1>2, OrderKept DEF r
<1> QED BY <1>3, <1>4 DEF TreeIInv

\* A request that has been made stays made: Order does not tell how far it is.
LEMMA OrderKeptByRequests ==
  ASSUME TreeTypes, Order, NEW r \in Client, req[r] # "none", NEW x,
         req' = [req EXCEPT ![r] = x], run' = run, turn' = turn
  PROVE  Order'
<1>1. \A c \in Client : req[c] = "none" => req'[c] = "none"
  BY DEF TreeTypes
<1>2. \A a \in Agent, t \in 1..Turns : <<a, t>> \in Client
  BY TreeAssumption
<1>3. \A a \in Agent : turn[a] \in 1..Turns
  BY DEF TreeTypes
<1> QED BY <1>1, <1>2, <1>3 DEF Order

\* The stream ends, and its listener gives the slot back later.
LEMMA StreamEndsStep ==
  ASSUME TreeIInv, NEW r \in Client, StreamEnds(r)
  PROVE  TreeIInv'
<1>0. IInv /\ TreeTypes /\ Slots /\ Order
  BY DEF TreeIInv
<1>1. /\ req[r] = "streaming" /\ req' = [req EXCEPT ![r] = "ended"]
      /\ UNCHANGED <<semVars, run, turn, aborted>>
  BY DEF StreamEnds
<1>2. IInv' /\ TreeTypes'
  BY <1>0, <1>1, StutterStep DEF TreeTypes
<1>3. Slots'
  BY <1>0, <1>1 DEF Slots, TreeTypes, semVars
<1>4. Order'
  BY <1>0, <1>1, OrderKeptByRequests
<1> QED BY <1>2, <1>3, <1>4 DEF TreeIInv

\* The listener gives the slot back.
LEMMA ReleaseAfterStreamStep ==
  ASSUME TreeIInv, NEW r \in Client, ReleaseAfterStream(r)
  PROVE  TreeIInv'
<1>0. IInv /\ TreeTypes /\ Slots /\ Order
  BY DEF TreeIInv
<1>1. /\ req[r] = "ended" /\ Release(r) /\ req' = [req EXCEPT ![r] = "over"]
      /\ UNCHANGED <<run, turn, aborted>>
  BY DEF ReleaseAfterStream
<1>2. IInv' /\ Slots' /\ TreeTypes'
  BY <1>0, <1>1, ReleaseStep, ReleaseSlots DEF TreeTypes
<1>3. Order'
  BY <1>0, <1>1, OrderKeptByRequests
<1> QED BY <1>2, <1>3 DEF TreeIInv

\* The turn is over: the agent is done, or runs tools that start its children,
\* which nobody else starts.
LEMMA TurnEndsStep ==
  ASSUME TreeIInv, NEW a \in Agent, TurnEnds(a)
  PROVE  TreeIInv'
<1>0. IInv /\ TreeTypes /\ Slots /\ Order
  BY DEF TreeIInv
<1>1. run[a] = "request" /\ UNCHANGED <<semVars, turn, aborted, req>>
  BY DEF TurnEnds
<1>2. IInv' /\ Slots'
  BY <1>0, <1>1, StutterStep DEF Slots, semVars
<1>3. Turns \in Nat /\ \A b \in Agent : turn[b] \in 1..Turns /\ ChildrenOf[b] \subseteq Agent
  BY <1>0, TreeAssumption DEF TreeTypes
<1>4. CASE aborted[a] \/ turn[a] = Turns
  <2>1. run' = [run EXCEPT ![a] = "done"]
    BY <1>4 DEF TurnEnds
  <2>2. TreeTypes'
    BY <2>1, <1>0, <1>1 DEF TreeTypes
  <2>3. Order'
    BY <2>1, <1>0, <1>1, OrderKept
  <2> QED BY <1>2, <2>2, <2>3 DEF TreeIInv
<1>5. CASE ~(aborted[a] \/ turn[a] = Turns)
  <2>1. run' = [b \in Agent |->
                  IF b = a THEN "tools"
                  ELSE IF turn[a] = 1 /\ b \in ChildrenOf[a] THEN "ready"
                  ELSE run[b]]
    BY <1>5 DEF TurnEnds
  <2>2. TreeTypes'
    BY <2>1, <1>0, <1>1 DEF TreeTypes
  <2>3. \A b \in ChildrenOf[a] : turn[a] = 1 => run[b] = "dormant"
    BY <1>0, <1>1 DEF Order
  <2>4. ASSUME NEW b \in Agent
        PROVE  /\ run'[b] \in {"dormant", "ready"} => req[<<b, turn[b]>>] = "none"
               /\ run'[b] = "tools" => turn[b] < Turns
               /\ run'[b] = "dormant" => turn[b] = 1
    <3>1. CASE b = a
      <4>1. run'[b] = "tools"
        BY <3>1, <2>1
      <4>2. turn[b] < Turns
        BY <3>1, <1>3, <1>5
      <4> QED BY <4>1, <4>2
    <3>2. CASE b # a /\ turn[a] = 1 /\ b \in ChildrenOf[a]
      <4>1. run'[b] = "ready" /\ run[b] = "dormant"
        BY <3>2, <2>1, <2>3
      <4> QED BY <4>1, <1>0 DEF Order
    <3>3. CASE b # a /\ ~(turn[a] = 1 /\ b \in ChildrenOf[a])
      <4>1. run'[b] = run[b]
        BY <3>3, <2>1
      <4> QED BY <4>1, <1>0 DEF Order
    <3> QED BY <3>1, <3>2, <3>3
  <2>5. ASSUME NEW b \in Agent, turn[b] = 1, run'[b] \notin {"tools", "done"},
               NEW c \in ChildrenOf[b]
        PROVE  run'[c] = "dormant"
    <3>1. b # a /\ c \in Agent
      BY <2>1, <2>5, <1>3
    <3>2. c \notin ChildrenOf[a]
      BY <3>1, <2>5, TreeAssumption
    <3>3. run[b] \notin {"tools", "done"}
      <4>1. CASE turn[a] = 1 /\ b \in ChildrenOf[a]
        BY <4>1, <2>3
      <4>2. CASE ~(turn[a] = 1 /\ b \in ChildrenOf[a])
        BY <4>2, <3>1, <2>1, <2>5
      <4> QED BY <4>1, <4>2
    <3>4. run[c] = "dormant"
      BY <3>3, <2>5, <1>0 DEF Order
    <3> QED BY <3>1, <3>2, <3>4, <1>1, <2>1
  <2>6. \A b \in Agent : \A t \in 1..Turns : t > turn[b] => req[<<b, t>>] = "none"
    BY <1>0 DEF Order
  <2>7. Order'
    BY <2>4, <2>5, <2>6, <1>1 DEF Order
  <2> QED BY <1>2, <2>2, <2>7 DEF TreeIInv
<1> QED BY <1>4, <1>5

\* The tools are over: the agent goes on with a turn that has made no request.
LEMMA ToolsEndStep ==
  ASSUME TreeIInv, NEW a \in Agent, ToolsEnd(a)
  PROVE  TreeIInv'
<1>0. IInv /\ TreeTypes /\ Slots /\ Order
  BY DEF TreeIInv
<1>1. /\ run[a] = "tools" /\ run' = [run EXCEPT ![a] = "ready"]
      /\ turn' = [turn EXCEPT ![a] = turn[a] + 1]
      /\ UNCHANGED <<semVars, aborted, req>>
  BY DEF ToolsEnd
<1>2. IInv' /\ Slots'
  BY <1>0, <1>1, StutterStep DEF Slots, semVars
<1>3. /\ Turns \in Nat /\ turn[a] < Turns /\ turn[a] \in Nat
      /\ \A b \in Agent : turn[b] \in 1..Turns /\ ChildrenOf[b] \subseteq Agent
  <2>1. turn[a] < Turns
    BY <1>0, <1>1 DEF Order
  <2>2. Turns \in Nat /\ turn[a] \in 1..Turns
    BY <1>0, TreeAssumption DEF TreeTypes
  <2>3. \A b \in Agent : turn[b] \in 1..Turns /\ ChildrenOf[b] \subseteq Agent
    BY <1>0, TreeAssumption DEF TreeTypes
  <2> QED BY <2>1, <2>2, <2>3
<1>4. TreeTypes'
  BY <1>0, <1>1, <1>3 DEF TreeTypes
<1>5. /\ run'[a] = "ready" /\ turn'[a] = turn[a] + 1
      /\ \A b \in Agent : b # a => run'[b] = run[b] /\ turn'[b] = turn[b]
  BY <1>0, <1>1 DEF TreeTypes
<1>6. ASSUME NEW b \in Agent
      PROVE  /\ \A t \in 1..Turns : t > turn'[b] => req[<<b, t>>] = "none"
             /\ run'[b] \in {"dormant", "ready"} => req[<<b, turn'[b]>>] = "none"
             /\ run'[b] = "tools" => turn'[b] < Turns
             /\ run'[b] = "dormant" => turn'[b] = 1
  <2>1. CASE b = a
    <3>1. turn[a] + 1 \in 1..Turns /\ turn[a] + 1 > turn[a]
      BY <1>3
    <3>2. req[<<a, turn[a] + 1>>] = "none"
      BY <3>1, <1>0 DEF Order
    <3>3. \A t \in 1..Turns : t > turn[a] + 1 => req[<<a, t>>] = "none"
      <4>1. \A t \in 1..Turns : t > turn[a] + 1 => t > turn[a]
        BY <1>3
      <4> QED BY <4>1, <1>0 DEF Order
    <3> QED BY <2>1, <3>2, <3>3, <1>5
  <2>2. CASE b # a
    BY <2>2, <1>0, <1>5 DEF Order
  <2> QED BY <2>1, <2>2
<1>7. ASSUME NEW b \in Agent, turn'[b] = 1, run'[b] \notin {"tools", "done"},
             NEW c \in ChildrenOf[b]
      PROVE  run'[c] = "dormant"
  <2>1. b # a
    BY <1>7, <1>3, <1>5
  <2>2. run[c] = "dormant"
    BY <2>1, <1>7, <1>5, <1>0 DEF Order
  <2> QED BY <2>2, <1>1, <1>3, <1>5
<1>8. Order'
  BY <1>6, <1>7, <1>1 DEF Order
<1> QED BY <1>2, <1>4, <1>8 DEF TreeIInv

-----------------------------------------------------------------------------
\* Every step of the tree preserves the inductive invariant.
LEMMA TreeNextIInv == TreeIInv /\ [TreeNext]_vars => TreeIInv'
<1> SUFFICES ASSUME TreeIInv, [TreeNext]_vars PROVE TreeIInv'
  OBVIOUS
<1>1. CASE TreeNext
  BY <1>1, CallStep, AbortStep, BaseReturnsStep, BaseThrowsStep, StreamEndsStep,
     ReleaseAfterStreamStep, TurnEndsStep, ToolsEndStep DEF TreeNext, AgentStep
<1>2. CASE UNCHANGED vars
  <2>1. UNCHANGED semVars /\ UNCHANGED treeVars
    BY <1>2 DEF vars
  <2>2. IInv'
    BY <2>1, StutterStep DEF TreeIInv
  <2>3. TreeTypes' /\ Slots' /\ Order'
    BY <2>1 DEF TreeIInv, treeVars, semVars, TreeTypes, Slots, Order
  <2> QED BY <2>2, <2>3 DEF TreeIInv
<1> QED BY <1>1, <1>2

\* TreeIInv is an inductive invariant of the spawn tree.
THEOREM TreeInvariance == TreeSpec => []TreeIInv
BY InitTree, TreeNextIInv, PTL DEF TreeSpec

\* A slot is held exactly by the requests whose stream may still produce or
\* has just ended, whatever the tree and the limits.
THEOREM SlotsFollowRequests == TreeSpec => []SlotPerLiveRequest
<1>1. TreeIInv => SlotPerLiveRequest
  BY DEF TreeIInv, TreeTypes, Slots, SlotPerLiveRequest
<1> QED BY <1>1, TreeInvariance, PTL

\* What the semaphore promises to callers that use it well holds in the tree,
\* where a call resizes it first: no leaked slot, no abandoned waiter, and
\* nobody that waits while there is room.
THEOREM TreeKeepsSemaphore == TreeSpec => [](CountsHolders /\ QueueIsWaiters /\ NoIdleSlot)
<1>1. TreeIInv => CountsHolders /\ QueueIsWaiters /\ NoIdleSlot
  BY DEF TreeIInv, IInv
<1> QED BY <1>1, TreeInvariance, PTL
=============================================================================
