-------------------------- MODULE AgentQueuesProofs --------------------------
(***************************************************************************)
(* Proofs about AgentQueues, for every number of messages, every finite    *)
(* set of runs and every bound on faults and edits: types, DeliveredOnce,  *)
(* NoMessageLost and ArrivalOrder.                                         *)
(*                                                                         *)
(* A message is counted where it is pending, but a run may still record a  *)
(* message whose delivery record an edit has dropped.  So the invariant    *)
(* IInv also counts what the run in charge will record, its pipe: what it  *)
(* pushed, what it holds, and the live steering of the response it         *)
(* streams.  The delivery records and the pipe agree on the order          *)
(* (Ordered), so that the next event is the next message of its batch.     *)
(*                                                                         *)
(* OInv adds the order of arrival to it: of a message that is pending and  *)
(* one that came later, the later one is behind in the queue, in the pipe  *)
(* and in what goes back when the run is over (InTurn), and not recorded.  *)
(***************************************************************************)
EXTENDS AgentQueues, FilterProofs, FiniteSetTheorems

-----------------------------------------------------------------------------
(* How often a message is in a sequence *)

\* An added element counts once more.
LEMMA TimesBasics ==
  ASSUME NEW X, NEW s \in Seq(X), NEW x
  PROVE  /\ Times(<<>>, x) = 0
         /\ Times(s, x) \in Nat
         /\ \A e \in X : Times(Append(s, e), x) = Times(s, x) + (IF e = x THEN 1 ELSE 0)
<1> DEFINE At(t) == {i \in DOMAIN t : t[i] = x}
<1>0. Len(s) \in Nat /\ DOMAIN s = 1..Len(s)
  BY LenProperties
<1>1. Times(<<>>, x) = 0
  <2>1. At(<<>>) = {}
    BY EmptySeq, LenProperties
  <2> QED BY <2>1, FS_EmptySet DEF Times
<1>2. IsFiniteSet(At(s)) /\ Cardinality(At(s)) \in Nat
  <2>1. IsFiniteSet(1..Len(s)) /\ At(s) \in SUBSET (1..Len(s))
    BY <1>0, FS_Interval
  <2> HIDE DEF At
  <2>2. IsFiniteSet(At(s))
    BY <2>1, FS_Subset
  <2> QED BY <2>2, FS_CardinalityType
<1>3. Times(s, x) = Cardinality(At(s))
  BY DEF Times
<1>4. ASSUME NEW e \in X
      PROVE  Times(Append(s, e), x) = Times(s, x) + (IF e = x THEN 1 ELSE 0)
  <2> DEFINE t == Append(s, e)
  <2>1. /\ t \in Seq(X) /\ Len(t) = Len(s) + 1 /\ DOMAIN t = 1..(Len(s) + 1)
        /\ \A i \in 1..Len(s) : t[i] = s[i]
        /\ t[Len(s) + 1] = e
    BY AppendProperties, LenProperties
  <2> HIDE DEF t
  <2>2. At(t) = IF e = x THEN At(s) \cup {Len(s) + 1} ELSE At(s)
    BY <1>0, <2>1
  <2>3. Len(s) + 1 \notin At(s)
    BY <1>0
  <2>4. Times(t, x) = Cardinality(At(t))
    BY DEF Times
  <2> HIDE DEF At
  <2>5. Cardinality(At(s) \cup {Len(s) + 1}) = Cardinality(At(s)) + 1
    BY <1>2, <2>3, FS_AddElement
  <2>6. Times(t, x) = Times(s, x) + (IF e = x THEN 1 ELSE 0)
    BY <1>2, <1>3, <2>2, <2>4, <2>5
  <2> QED BY <2>6 DEF t
<1> QED BY <1>1, <1>2, <1>3, <1>4

\* Of two parts, the sum.
LEMMA TimesJoined ==
  ASSUME NEW X, NEW s \in Seq(X), NEW t \in Seq(X), NEW x
  PROVE  Times(Joined(s, t), x) = Times(s, x) + Times(t, x)
<1> DEFINE Q == {u \in Seq(X) : Times(Joined(s, u), x) = Times(s, x) + Times(u, x)}
<1>1. <<>> \in Q
  <2>1. Joined(s, <<>>) = s
    BY ConcatEmptySeq DEF Joined
  <2>2. <<>> \in Seq(X) /\ Times(<<>>, x) = 0 /\ Times(s, x) \in Nat
    BY EmptySeq, TimesBasics
  <2> QED BY <2>1, <2>2
<1>2. ASSUME NEW u \in Q, NEW e \in X PROVE Append(u, e) \in Q
  <2>1. /\ u \in Seq(X) /\ Append(u, e) \in Seq(X) /\ Joined(s, u) \in Seq(X)
        /\ Times(Joined(s, u), x) = Times(s, x) + Times(u, x)
    BY AppendProperties, ConcatProperties DEF Joined
  <2>2. Append(Joined(s, u), e) = Joined(s, Append(u, e))
    BY <2>1, JoinedAppend
  <2>3. \A v \in Seq(X) : /\ Times(v, x) \in Nat
                          /\ Times(Append(v, e), x) = Times(v, x) + (IF e = x THEN 1 ELSE 0)
    BY TimesBasics
  <2>4. Times(Joined(s, Append(u, e)), x) = Times(Joined(s, u), x) + (IF e = x THEN 1 ELSE 0)
    BY <2>1, <2>2, <2>3
  <2>5. Times(Append(u, e), x) = Times(u, x) + (IF e = x THEN 1 ELSE 0)
    BY <2>1, <2>3
  <2>6. Times(s, x) \in Nat /\ Times(u, x) \in Nat
    BY <2>1, <2>3
  <2>7. Times(Joined(s, Append(u, e)), x) = Times(s, x) + Times(Append(u, e), x)
    BY <2>1, <2>4, <2>5, <2>6
  <2> QED BY <2>1, <2>7
<1>3. Q \subseteq Seq(X)
  OBVIOUS
<1>4. Q = Seq(X)
  <2> HIDE DEF Q
  <2> QED BY <1>1, <1>2, <1>3, SeqsAreBuilt
<1> QED BY <1>4

\* A message counts when it is there.
LEMMA TimesMember ==
  ASSUME NEW X, NEW s \in Seq(X), NEW x
  PROVE  x \in ToSet(s) <=> Times(s, x) > 0
<1> DEFINE Q == {u \in Seq(X) : x \in ToSet(u) <=> Times(u, x) > 0}
<1>1. <<>> \in Q
  BY EmptySeq, TimesBasics, MembersFacts
<1>2. ASSUME NEW u \in Q, NEW e \in X PROVE Append(u, e) \in Q
  <2>1. u \in Seq(X) /\ Append(u, e) \in Seq(X)
    BY AppendProperties
  <2>2. /\ Times(u, x) \in Nat
        /\ Times(Append(u, e), x) = Times(u, x) + (IF e = x THEN 1 ELSE 0)
    BY <2>1, TimesBasics
  <2>3. ToSet(Append(u, e)) = ToSet(u) \cup {e}
    BY <2>1, MembersFacts
  <2> QED BY <2>1, <2>2, <2>3
<1>3. Q \subseteq Seq(X)
  OBVIOUS
<1>4. Q = Seq(X)
  <2> HIDE DEF Q
  <2> QED BY <1>1, <1>2, <1>3, SeqsAreBuilt
<1> QED BY <1>4

\* What counts once is in one place.
LEMMA TimesOnce ==
  ASSUME NEW X, NEW s \in Seq(X), NEW x, Times(s, x) <= 1,
         NEW i \in DOMAIN s, NEW j \in DOMAIN s, s[i] = x, s[j] = x
  PROVE  i = j
<1> DEFINE At == {k \in DOMAIN s : s[k] = x}
<1>0. Len(s) \in Nat /\ DOMAIN s = 1..Len(s)
  BY LenProperties
<1>1. IsFiniteSet(At)
  <2>1. IsFiniteSet(1..Len(s)) /\ At \in SUBSET (1..Len(s))
    BY <1>0, FS_Interval
  <2> HIDE DEF At
  <2> QED BY <2>1, FS_Subset
<1>2. Cardinality(At) <= 1
  BY DEF Times
<1>3. i \in At /\ j \in At
  OBVIOUS
<1> HIDE DEF At
<1>4. Cardinality({i} \cup {j}) = IF j \in {i} THEN 1 ELSE 2
  <2>1. IsFiniteSet({i}) /\ Cardinality({i}) = 1
    BY FS_Singleton
  <2>2. Cardinality({i} \cup {j}) = IF j \in {i} THEN Cardinality({i}) ELSE Cardinality({i}) + 1
    BY <2>1, FS_AddElement
  <2> QED BY <2>1, <2>2
<1>5. Cardinality({i} \cup {j}) <= Cardinality(At)
  <2>1. {i} \cup {j} \in SUBSET At
    BY <1>3
  <2> QED BY <1>1, <2>1, FS_Subset
<1>6. Cardinality(At) \in Nat
  BY <1>1, FS_CardinalityType
<1>7. j \in {i}
  <2> DEFINE both == Cardinality({i} \cup {j})
             all  == Cardinality(At)
  <2>1. all \in Nat /\ all <= 1 /\ both <= all /\ both = IF j \in {i} THEN 1 ELSE 2
    BY <1>2, <1>4, <1>5, <1>6
  <2> HIDE DEF both, all
  <2> QED BY <2>1
<1> QED BY <1>7

\* A sequence is its first n elements and the others.
LEMMA Parts ==
  ASSUME NEW X, NEW s \in Seq(X), NEW n \in 0..Len(s)
  PROVE  /\ SubSeq(s, 1, n) \in Seq(X) /\ SubSeq(s, n + 1, Len(s)) \in Seq(X)
         /\ Len(SubSeq(s, 1, n)) = n
         /\ s = Joined(SubSeq(s, 1, n), SubSeq(s, n + 1, Len(s)))
<1>0. Len(s) \in Nat /\ \A i \in 1..Len(s) : s[i] \in X
  BY LenProperties, ElementOfSeq
<1>1. SubSeq(s, 1, n) \o SubSeq(s, n + 1, Len(s)) = SubSeq(s, 1, Len(s))
  <2>1. 1 \in 1..(Len(s) + 1) /\ n \in (1 - 1)..Len(s) /\ Len(s) \in n..Len(s)
    BY <1>0
  <2> QED BY <2>1, ConcatAdjacentSubSeq
<1>2. SubSeq(s, 1, Len(s)) = s
  BY SubSeqFull
<1>3. SubSeq(s, 1, n) \in Seq(X) /\ Len(SubSeq(s, 1, n)) = n
  <2>1. \A i \in 1..n : s[i] \in X
    BY <1>0
  <2>2. n \in Int /\ 1 \in Int
    BY <1>0
  <2>3. /\ SubSeq(s, 1, n) \in Seq(X)
        /\ Len(SubSeq(s, 1, n)) = IF 1 <= n THEN n - 1 + 1 ELSE 0
    BY <2>1, <2>2, SubSeqProperties
  <2> QED BY <2>3, <1>0
<1>4. SubSeq(s, n + 1, Len(s)) \in Seq(X)
  <2>1. \A i \in (n + 1)..Len(s) : s[i] \in X
    BY <1>0
  <2> QED BY <2>1, <1>0, SubSeqProperties
<1> QED BY <1>1, <1>2, <1>3, <1>4 DEF Joined

\* All elements but one.
LEMMA TimesRemoved ==
  ASSUME NEW X, NEW s \in Seq(X), NEW i \in DOMAIN s, NEW x
  PROVE  /\ RemoveAt(s, i) \in Seq(X)
         /\ Times(s, x) = Times(RemoveAt(s, i), x) + (IF s[i] = x THEN 1 ELSE 0)
<1> DEFINE a == SubSeq(s, 1, i - 1)
           b == SubSeq(s, i + 1, Len(s))
           c == SubSeq(s, 1, i)
<1>0. Len(s) \in Nat /\ DOMAIN s = 1..Len(s) /\ \A k \in 1..Len(s) : s[k] \in X
  BY LenProperties, ElementOfSeq
<1>1. i \in 1..Len(s) /\ i \in 0..Len(s) /\ i - 1 \in 0..Len(s) /\ s[i] \in X
  BY <1>0
<1>2. /\ c \in Seq(X) /\ b \in Seq(X) /\ s = Joined(c, b)
  BY <1>1, Parts
<1>3. a \in Seq(X)
  BY <1>1, Parts
<1>4. c = Append(a, s[i])
  <2>1. 1 \in 1..Len(s) /\ i \in 1..Len(s)
    BY <1>0, <1>1
  <2>2. SubSeq(s, 1, i) = SubSeq(s, 1, i - 1) \o <<s[i]>>
    BY <2>1, SubSeqRecursiveSecond
  <2>3. Append(a, s[i]) = a \o <<s[i]>>
    <3> HIDE DEF a
    <3> QED BY <1>1, <1>3, AppendIsConcat
  <2> QED BY <2>2, <2>3
<1>5. RemoveAt(s, i) = Joined(a, b)
  BY DEF RemoveAt, Joined
<1> HIDE DEF a, b, c
<1>6. Joined(a, b) \in Seq(X)
  BY <1>2, <1>3, ConcatProperties DEF Joined
<1>7. Times(s, x) = Times(c, x) + Times(b, x)
  BY <1>2, TimesJoined
<1>8. Times(Joined(a, b), x) = Times(a, x) + Times(b, x)
  BY <1>2, <1>3, TimesJoined
<1>9. /\ Times(c, x) = Times(a, x) + (IF s[i] = x THEN 1 ELSE 0)
      /\ Times(a, x) \in Nat
  BY <1>1, <1>3, <1>4, TimesBasics
<1>10. Times(b, x) \in Nat
  BY <1>2, TimesBasics
<1> QED BY <1>5, <1>6, <1>7, <1>8, <1>9, <1>10

\* All elements but the first.
LEMMA TimesTail ==
  ASSUME NEW X, NEW s \in Seq(X), s # <<>>, NEW x
  PROVE  /\ Tail(s) \in Seq(X) /\ Head(s) \in X
         /\ Times(s, x) = Times(Tail(s), x) + (IF Head(s) = x THEN 1 ELSE 0)
<1>0. Len(s) \in Nat /\ DOMAIN s = 1..Len(s) /\ Len(s) # 0
  BY EmptySeq, LenProperties
<1>1. Tail(s) \in Seq(X) /\ Head(s) \in X
  BY HeadTailProperties
<1>2. s[1] = Head(s)
  BY <1>0 DEF Head
<1>3. RemoveAt(s, 1) = Tail(s)
  <2>1. SubSeq(s, 1, 1 - 1) = <<>>
    BY SubSeqEmpty
  <2>2. Tail(s) = SubSeq(s, 1 + 1, Len(s))
    BY TailIsSubSeq
  <2>3. <<>> \o Tail(s) = Tail(s)
    BY <1>1, ConcatEmptySeq
  <2> QED BY <2>1, <2>2, <2>3 DEF RemoveAt
<1>4. 1 \in DOMAIN s
  BY <1>0
<1>5. Times(s, x) = Times(RemoveAt(s, 1), x) + (IF s[1] = x THEN 1 ELSE 0)
  BY <1>4, TimesRemoved
<1> QED BY <1>1, <1>2, <1>3, <1>5

\* All elements but the last.
LEMMA TimesFront ==
  ASSUME NEW X, NEW s \in Seq(X), s # <<>>, NEW x
  PROVE  /\ Front(s) \in Seq(X) /\ Last(s) \in X
         /\ Times(s, x) = Times(Front(s), x) + (IF Last(s) = x THEN 1 ELSE 0)
<1>0. Len(s) \in Nat /\ DOMAIN s = 1..Len(s) /\ Len(s) # 0
  BY EmptySeq, LenProperties
<1>1. Len(s) \in 1..Len(s) /\ Len(s) - 1 \in 0..Len(s)
  BY <1>0
<1>2. s[Len(s)] \in X
  BY <1>1, ElementOfSeq
<1>3. SubSeq(s, 1, Len(s) - 1) \in Seq(X)
  BY <1>1, Parts
<1>4. RemoveAt(s, Len(s)) = SubSeq(s, 1, Len(s) - 1)
  <2>1. SubSeq(s, Len(s) + 1, Len(s)) = <<>>
    BY <1>0, SubSeqEmpty
  <2>2. SubSeq(s, 1, Len(s) - 1) \o <<>> = SubSeq(s, 1, Len(s) - 1)
    BY <1>3, ConcatEmptySeq
  <2> QED BY <2>1, <2>2 DEF RemoveAt
<1>5. Times(s, x) = Times(RemoveAt(s, Len(s)), x) + (IF s[Len(s)] = x THEN 1 ELSE 0)
  BY <1>0, <1>1, TimesRemoved
<1> QED BY <1>2, <1>3, <1>4, <1>5 DEF Front, Last
-----------------------------------------------------------------------------
(* What several batches hold *)

\* g is what FlattenSeq recurs on, for the first n sequences of ss.
FlatFits(g, ss, n) ==
  g = [i \in 1..n |-> IF i = 1 THEN ss[i] ELSE g[i - 1] \o ss[i]]

\* The recursion has a solution.
LEMMA FlatExists ==
  ASSUME NEW ss, NEW n \in Nat
  PROVE  \E g : FlatFits(g, ss, n)
<1> DEFINE T == {k \in Nat : ~\E g : FlatFits(g, ss, k)}
<1>1. SUFFICES ASSUME T # {} PROVE FALSE
  OBVIOUS
<1>2. PICK k \in T : \A j \in T : ~(j < k)
  <2>1. T \subseteq Nat
    OBVIOUS
  <2> HIDE DEF T
  <2> QED BY <1>1, <2>1, Least
<1>3. k \in Nat /\ ~\E g : FlatFits(g, ss, k)
  BY <1>2
<1>4. CASE k = 0
  <2>1. FlatFits([i \in 1..0 |-> <<>>], ss, 0)
    BY DEF FlatFits
  <2> QED BY <1>3, <1>4, <2>1
<1>5. CASE k # 0
  <2>1. k - 1 \in Nat /\ k - 1 < k
    BY <1>3, <1>5
  <2>2. k - 1 \notin T
    BY <1>2, <2>1
  <2>3. PICK g : FlatFits(g, ss, k - 1)
    BY <2>1, <2>2
  <2> DEFINE h == [i \in 1..k |-> IF i < k THEN g[i]
                                  ELSE IF k = 1 THEN ss[1] ELSE g[k - 1] \o ss[k]]
             f == [i \in 1..k |-> IF i = 1 THEN ss[i] ELSE h[i - 1] \o ss[i]]
  <2>4. ASSUME NEW i \in 1..k PROVE h[i] = f[i]
    <3>1. CASE i = k /\ k = 1
      BY <3>1
    <3>2. CASE i = k /\ k # 1
      <4>1. h[i - 1] = g[k - 1] /\ i # 1 /\ ~(i < k)
        BY <3>2, <1>3, <1>5
      <4>2. h[i] = g[k - 1] \o ss[k]
        BY <4>1, <3>2
      <4>3. f[i] = h[i - 1] \o ss[i]
        BY <4>1
      <4> HIDE DEF h, f
      <4> QED BY <4>1, <4>2, <4>3, <3>2, Zenon
    <3>3. CASE i # k /\ i # 1
      <4>1. i \in 1..(k - 1) /\ i - 1 \in 1..k /\ i < k /\ i - 1 < k
        BY <3>3, <2>1
      <4>2. h[i] = g[i] /\ h[i - 1] = g[i - 1]
        BY <4>1
      <4>3. g[i] = g[i - 1] \o ss[i]
        BY <2>3, <4>1, <3>3 DEF FlatFits
      <4>4. f[i] = h[i - 1] \o ss[i]
        BY <3>3
      <4> HIDE DEF h, f
      <4> QED BY <4>2, <4>3, <4>4, Zenon
    <3>4. CASE i = 1 /\ i # k
      <4>1. i \in 1..(k - 1) /\ i < k
        BY <3>4, <2>1
      <4>2. g[i] = ss[i]
        BY <2>3, <4>1, <3>4 DEF FlatFits
      <4> QED BY <4>1, <4>2, <3>4
    <3> QED BY <3>1, <3>2, <3>3, <3>4
  <2>5. h = f
    BY <2>4
  <2>6. FlatFits(h, ss, k)
    BY <2>5 DEF FlatFits
  <2> QED BY <2>6, <1>3
<1> QED BY <1>4, <1>5

\* FlattenSeq is its last value.
LEMMA FlattenIsFit ==
  ASSUME NEW X, NEW ss \in Seq(X), ss # <<>>
  PROVE  \E g : FlatFits(g, ss, Len(ss)) /\ FlattenSeq(ss) = g[Len(ss)]
<1>0. Len(ss) \in Nat /\ Len(ss) # 0
  BY EmptySeq
<1>1. \E h : FlatFits(h, ss, Len(ss))
  BY <1>0, FlatExists
<1> DEFINE k == CHOOSE g : FlatFits(g, ss, Len(ss))
<1>2. FlatFits(k, ss, Len(ss))
  BY <1>1
<1>3. FlattenSeq(ss) = k[Len(ss)]
  BY <1>0 DEF FlattenSeq, FlatFits
<1> QED BY <1>2, <1>3

\* Solutions agree as far as the sequences do.
LEMMA FlatAgree ==
  ASSUME NEW n \in Nat, NEW m \in 1..n, NEW s, NEW t, NEW g, NEW h,
         FlatFits(g, s, m), FlatFits(h, t, n),
         \A i \in 1..m : s[i] = t[i]
  PROVE  g[m] = h[m]
<1> DEFINE T == {k \in 1..m : g[k] # h[k]}
<1>1. SUFFICES ASSUME T # {} PROVE FALSE
  OBVIOUS
<1>2. PICK k \in T : \A j \in T : ~(j < k)
  <2>1. T \subseteq Nat
    OBVIOUS
  <2> HIDE DEF T
  <2> QED BY <1>1, <2>1, Least
<1>3. k \in 1..m /\ k \in 1..n /\ g[k] # h[k]
  BY <1>2
<1>4. CASE k = 1
  BY <1>3, <1>4 DEF FlatFits
<1>5. CASE k # 1
  <2>1. k - 1 \in 1..m /\ k - 1 < k
    BY <1>3, <1>5
  <2>2. g[k - 1] = h[k - 1]
    BY <1>2, <2>1
  <2>3. g[k] = g[k - 1] \o s[k]
    BY <1>3, <1>5 DEF FlatFits
  <2>4. h[k] = h[k - 1] \o t[k]
    BY <1>3, <1>5 DEF FlatFits
  <2>5. s[k] = t[k]
    BY <1>3
  <2>6. g[k] = h[k]
    BY <2>2, <2>3, <2>4, <2>5, Zenon
  <2> QED BY <2>6, <1>3
<1> QED BY <1>4, <1>5

\* FlattenSeq of one sequence more.
LEMMA FlattenAppend ==
  ASSUME NEW X, NEW ss \in Seq(Seq(X)), NEW s \in Seq(X)
  PROVE  /\ FlattenSeq(<<>>) = <<>>
         /\ FlattenSeq(Append(ss, s)) = IF ss = <<>> THEN s ELSE Joined(FlattenSeq(ss), s)
<1> DEFINE t == Append(ss, s)
           n == Len(ss)
<1>0. /\ t \in Seq(Seq(X)) /\ t # <<>> /\ n \in Nat /\ Len(t) = n + 1
      /\ \A i \in 1..n : ss[i] = t[i]
      /\ t[n + 1] = s
  BY AppendProperties, LenProperties
<1>1. FlattenSeq(<<>>) = <<>>
  BY EmptySeq DEF FlattenSeq
<1>2. PICK h : FlatFits(h, t, n + 1) /\ FlattenSeq(t) = h[n + 1]
  <2> HIDE DEF t, n
  <2>1. \E h : FlatFits(h, t, Len(t)) /\ FlattenSeq(t) = h[Len(t)]
    BY <1>0, FlattenIsFit
  <2> QED BY <1>0, <2>1
<1>3. CASE ss = <<>>
  <2>1. n = 0
    BY <1>3, EmptySeq
  <2> HIDE DEF t, n
  <2>2. h[1] = t[1]
    BY <1>2, <2>1 DEF FlatFits
  <2>3. FlattenSeq(t) = s
    BY <1>0, <1>2, <2>1, <2>2
  <2> QED BY <1>1, <1>3, <2>3 DEF t
<1>4. CASE ss # <<>>
  <2>0. n # 0
    BY <1>4, EmptySeq
  <2>1. PICK g : FlatFits(g, ss, n) /\ FlattenSeq(ss) = g[n]
    BY <1>4, FlattenIsFit
  <2> HIDE DEF t, n
  <2>2. g[n] = h[n]
    BY <1>0, <1>2, <2>0, <2>1, FlatAgree
  <2>3. h[n + 1] = h[n] \o t[n + 1]
    <3>1. n + 1 \in 1..(n + 1) /\ n + 1 # 1 /\ (n + 1) - 1 = n
      BY <1>0, <2>0
    <3>2. h[n + 1] = h[(n + 1) - 1] \o t[n + 1]
      BY <1>2, <3>1 DEF FlatFits
    <3> QED BY <3>1, <3>2
  <2>4. FlattenSeq(t) = Joined(FlattenSeq(ss), s)
    BY <1>0, <1>2, <2>1, <2>2, <2>3, Zenon DEF Joined
  <2> QED BY <1>1, <1>4, <2>4 DEF t
<1> QED BY <1>3, <1>4

\* A function of the elements, applied along a sequence.
LEMMA MessagesAppend ==
  ASSUME NEW ds \in Seq(Delivery), NEW d \in Delivery
  PROVE  /\ MessagesIn(<<>>) = <<>>
         /\ MessagesIn(ds) \in Seq(Msg)
         /\ MessagesIn(Append(ds, d)) = Joined(MessagesIn(ds), d.msgs)
<1> DEFINE M(es) == [i \in DOMAIN es |-> es[i].msgs]
           Q == {es \in Seq(Delivery) : M(es) \in Seq(Seq(Msg)) /\ MessagesIn(es) \in Seq(Msg)}
<1>1. M(<<>>) = <<>>
  <2>1. DOMAIN <<>> = {}
    BY EmptySeq, LenProperties
  <2> QED BY <2>1
<1>2. MessagesIn(<<>>) = <<>>
  <2> <<>> \in Seq(Seq(Msg)) /\ <<>> \in Seq(Msg)
    BY EmptySeq
  <2> QED BY <1>1, FlattenAppend DEF MessagesIn
<1>3. \A e \in Delivery : e.msgs \in Seq(Msg)
  BY DEF Delivery
<1>4. ASSUME NEW es \in Q, NEW e \in Delivery
      PROVE  /\ M(Append(es, e)) = Append(M(es), e.msgs)
             /\ M(es) = <<>> <=> es = <<>>
             /\ M(Append(es, e)) \in Seq(Seq(Msg))
  <2>1. es \in Seq(Delivery) /\ Len(es) \in Nat /\ DOMAIN es = 1..Len(es)
    BY LenProperties
  <2>2. /\ Append(es, e) \in Seq(Delivery) /\ DOMAIN Append(es, e) = 1..(Len(es) + 1)
        /\ \A i \in 1..Len(es) : Append(es, e)[i] = es[i]
        /\ Append(es, e)[Len(es) + 1] = e
    BY <2>1, AppendProperties, LenProperties
  <2> DEFINE a == M(es)
             b == M(Append(es, e))
             c == Append(a, e.msgs)
  <2>3. a \in Seq(Seq(Msg))
    OBVIOUS
  <2>4. DOMAIN a = 1..Len(es) /\ \A i \in 1..Len(es) : a[i] = es[i].msgs
    BY <2>1
  <2>5. /\ DOMAIN b = 1..(Len(es) + 1)
        /\ \A i \in 1..Len(es) : b[i] = es[i].msgs
        /\ b[Len(es) + 1] = e.msgs
    BY <2>1, <2>2
  <2>6. b = [i \in 1..(Len(es) + 1) |-> b[i]]
    BY <2>5
  <2> HIDE DEF a, b
  <2>7. Len(a) = Len(es) /\ Len(a) \in Nat
    BY <2>1, <2>3, <2>4, LenProperties
  <2>8. /\ c \in Seq(Seq(Msg)) /\ DOMAIN c = 1..(Len(es) + 1)
        /\ \A i \in 1..Len(es) : c[i] = a[i]
        /\ c[Len(es) + 1] = e.msgs
    BY <1>3, <2>3, <2>7, AppendProperties, LenProperties
  <2>9. c = [i \in 1..(Len(es) + 1) |-> c[i]]
    BY <2>8, LenProperties
  <2> HIDE DEF c
  <2>10. ASSUME NEW i \in 1..(Len(es) + 1) PROVE b[i] = c[i]
    <3>1. i \in 1..Len(es) \/ i = Len(es) + 1
      BY <2>1
    <3> QED BY <3>1, <2>4, <2>5, <2>8
  <2>11. b = c
    BY <2>6, <2>9, <2>10
  <2>12. a = <<>> <=> es = <<>>
    BY <2>1, <2>3, <2>7, EmptySeq
  <2> QED BY <2>8, <2>11, <2>12 DEF a, b, c
<1>5. ASSUME NEW es \in Q, NEW e \in Delivery
      PROVE  MessagesIn(Append(es, e)) = Joined(MessagesIn(es), e.msgs)
  <2>1. M(es) \in Seq(Seq(Msg)) /\ e.msgs \in Seq(Msg)
    BY <1>3
  <2>2. FlattenSeq(Append(M(es), e.msgs)) =
          IF M(es) = <<>> THEN e.msgs ELSE Joined(FlattenSeq(M(es)), e.msgs)
    <3> HIDE DEF M
    <3> QED BY <2>1, FlattenAppend
  <2>3. MessagesIn(Append(es, e)) = FlattenSeq(Append(M(es), e.msgs))
    BY <1>4 DEF MessagesIn
  <2>4. MessagesIn(es) = FlattenSeq(M(es))
    BY DEF MessagesIn
  <2>5. M(es) = <<>> => Joined(MessagesIn(es), e.msgs) = e.msgs
    <3>1. M(es) = <<>> => MessagesIn(es) = <<>>
      BY <1>2, <1>4
    <3>2. Joined(<<>>, e.msgs) = e.msgs
      BY <2>1, ConcatEmptySeq DEF Joined
    <3> HIDE DEF M
    <3> QED BY <3>1, <3>2
  <2> HIDE DEF M
  <2> QED BY <2>2, <2>3, <2>4, <2>5
<1>6. <<>> \in Q
  <2> <<>> \in Seq(Seq(Msg)) /\ <<>> \in Seq(Msg) /\ <<>> \in Seq(Delivery)
    BY EmptySeq
  <2> QED BY <1>1, <1>2
<1>7. ASSUME NEW es \in Q, NEW e \in Delivery PROVE Append(es, e) \in Q
  <2>1. Append(es, e) \in Seq(Delivery)
    BY AppendProperties
  <2>2. M(Append(es, e)) \in Seq(Seq(Msg))
    BY <1>4
  <2>3. Joined(MessagesIn(es), e.msgs) \in Seq(Msg)
    BY <1>3, ConcatProperties DEF Joined
  <2> QED BY <1>5, <2>1, <2>2, <2>3
<1>8. Q = Seq(Delivery)
  <2>1. Q \subseteq Seq(Delivery)
    OBVIOUS
  <2> HIDE DEF Q
  <2> QED BY <1>6, <1>7, <2>1, SeqsAreBuilt
<1>9. ds \in Q
  BY <1>8
<1> QED BY <1>2, <1>5, <1>9
-----------------------------------------------------------------------------
(* What the dequeued batches hold *)

\* How often the batches ds hold x, and the live steering es
BatchTimes(ds, x) == Times(MessagesIn(ds), x)
SteerTimes(es, x) == Times(SteeredIn(es), x)

\* One batch more.
LEMMA BatchTimesAppend ==
  ASSUME NEW ds \in Seq(Delivery), NEW d \in Delivery, NEW x
  PROVE  /\ BatchTimes(<<>>, x) = 0
         /\ BatchTimes(ds, x) \in Nat /\ Times(d.msgs, x) \in Nat
         /\ BatchTimes(Append(ds, d), x) = BatchTimes(ds, x) + Times(d.msgs, x)
         /\ x \in ToSet(d.msgs) <=> Times(d.msgs, x) > 0
         /\ MessagesIn(ds) \in Seq(Msg)
<1>1. d.msgs \in Seq(Msg)
  BY DEF Delivery
<1>2. /\ MessagesIn(<<>>) = <<>> /\ MessagesIn(ds) \in Seq(Msg)
      /\ MessagesIn(Append(ds, d)) = Joined(MessagesIn(ds), d.msgs)
  BY MessagesAppend
<1>3. /\ Times(<<>>, x) = 0 /\ Times(MessagesIn(ds), x) \in Nat /\ Times(d.msgs, x) \in Nat
  BY <1>1, <1>2, TimesBasics
<1>4. Times(Joined(MessagesIn(ds), d.msgs), x) = Times(MessagesIn(ds), x) + Times(d.msgs, x)
  BY <1>1, <1>2, TimesJoined
<1>5. x \in ToSet(d.msgs) <=> Times(d.msgs, x) > 0
  BY <1>1, TimesMember
<1> QED BY <1>2, <1>3, <1>4, <1>5 DEF BatchTimes

\* What the batches hold is a sequence of messages.
LEMMA MessagesFacts ==
  ASSUME NEW ds \in Seq(Delivery)
  PROVE  MessagesIn(<<>>) = <<>> /\ MessagesIn(ds) \in Seq(Msg)
<1>1. MessagesIn(<<>>) = <<>>
  <2>1. [i \in DOMAIN <<>> |-> <<>>[i].msgs] = <<>>
    BY EmptySeq, LenProperties
  <2> QED BY <2>1, EmptySeq DEF MessagesIn, FlattenSeq
<1>2. CASE ds = <<>>
  BY <1>1, <1>2, EmptySeq
<1>3. CASE ds # <<>>
  <2>1. Head(ds) \in Delivery
    BY <1>3, HeadTailProperties
  <2> QED BY <2>1, MessagesAppend
<1> QED BY <1>1, <1>2, <1>3

\* No batch.
LEMMA NoBatch == \A x : BatchTimes(<<>>, x) = 0
<1> TAKE x
<1>1. MessagesIn(<<>>) = <<>>
  BY EmptySeq, MessagesFacts
<1>2. Times(<<>>, x) = 0
  BY EmptySeq, TimesBasics
<1> QED BY <1>1, <1>2 DEF BatchTimes

\* A message counts when a batch has it.
LEMMA BatchTimesMember ==
  ASSUME NEW ds \in Seq(Delivery), NEW x
  PROVE  /\ BatchTimes(ds, x) \in Nat
         /\ BatchTimes(ds, x) > 0 <=> \E d \in ToSet(ds) : x \in ToSet(d.msgs)
<1> DEFINE Q == {es \in Seq(Delivery) :
                   /\ BatchTimes(es, x) \in Nat
                   /\ BatchTimes(es, x) > 0 <=> \E d \in ToSet(es) : x \in ToSet(d.msgs)}
<1>1. <<>> \in Q
  BY EmptySeq, NoBatch, MembersFacts
<1>2. ASSUME NEW es \in Q, NEW e \in Delivery PROVE Append(es, e) \in Q
  <2>1. es \in Seq(Delivery) /\ Append(es, e) \in Seq(Delivery)
    BY AppendProperties
  <2>2. /\ BatchTimes(es, x) \in Nat /\ Times(e.msgs, x) \in Nat
        /\ BatchTimes(Append(es, e), x) = BatchTimes(es, x) + Times(e.msgs, x)
        /\ x \in ToSet(e.msgs) <=> Times(e.msgs, x) > 0
    BY <2>1, BatchTimesAppend
  <2>3. ToSet(Append(es, e)) = ToSet(es) \cup {e}
    BY <2>1, MembersFacts
  <2>4. BatchTimes(es, x) > 0 <=> \E d \in ToSet(es) : x \in ToSet(d.msgs)
    OBVIOUS
  <2>5. BatchTimes(Append(es, e), x) \in Nat
    BY <2>2
  <2>6. BatchTimes(Append(es, e), x) > 0
          <=> BatchTimes(es, x) > 0 \/ Times(e.msgs, x) > 0
    BY <2>2
  <2> QED BY <2>1, <2>2, <2>3, <2>4, <2>5, <2>6
<1>3. Q \subseteq Seq(Delivery)
  OBVIOUS
<1>4. Q = Seq(Delivery)
  <2> HIDE DEF Q
  <2> QED BY <1>1, <1>2, <1>3, SeqsAreBuilt
<1> QED BY <1>4

\* What is left of the batches holds no more than they did, and as much of a message that
\* no dropped batch has.
LEMMA BatchTimesLeft ==
  ASSUME NEW ds \in Seq(Delivery), NEW S, NEW x
  PROVE  /\ BatchTimes(Without(ds, S), x) \in Nat
         /\ BatchTimes(Without(ds, S), x) <= BatchTimes(ds, x)
         /\ (\A d \in ToSet(ds) \cap S : x \notin ToSet(d.msgs)) =>
              BatchTimes(Without(ds, S), x) = BatchTimes(ds, x)
<1> DEFINE Clear(es) == \A d \in ToSet(es) \cap S : x \notin ToSet(d.msgs)
           Q == {es \in Seq(Delivery) :
                   /\ BatchTimes(Without(es, S), x) \in Nat
                   /\ BatchTimes(Without(es, S), x) <= BatchTimes(es, x)
                   /\ Clear(es) => BatchTimes(Without(es, S), x) = BatchTimes(es, x)}
<1>1. <<>> \in Q
  <2>1. BatchTimes(<<>>, x) = 0 /\ Without(<<>>, S) = <<>> /\ <<>> \in Seq(Delivery)
    BY EmptySeq, NoBatch, WithoutNone
  <2> QED BY <2>1
<1>2. ASSUME NEW es \in Q, NEW e \in Delivery PROVE Append(es, e) \in Q
  <2>1. es \in Seq(Delivery) /\ Append(es, e) \in Seq(Delivery) /\ Without(es, S) \in Seq(Delivery)
    BY AppendProperties, WithoutFacts
  <2>2. /\ BatchTimes(es, x) \in Nat /\ Times(e.msgs, x) \in Nat
        /\ BatchTimes(Append(es, e), x) = BatchTimes(es, x) + Times(e.msgs, x)
        /\ x \in ToSet(e.msgs) <=> Times(e.msgs, x) > 0
    BY <2>1, BatchTimesAppend
  <2>3. BatchTimes(Append(Without(es, S), e), x) = BatchTimes(Without(es, S), x) + Times(e.msgs, x)
    BY <2>1, BatchTimesAppend
  <2>4. Without(Append(es, e), S) =
          IF e \in S THEN Without(es, S) ELSE Append(Without(es, S), e)
    BY <2>1, WithoutAppend
  <2>5. ToSet(Append(es, e)) = ToSet(es) \cup {e}
    BY <2>1, MembersFacts
  <2>6. /\ BatchTimes(Without(es, S), x) \in Nat
        /\ BatchTimes(Without(es, S), x) <= BatchTimes(es, x)
        /\ Clear(es) => BatchTimes(Without(es, S), x) = BatchTimes(es, x)
    OBVIOUS
  <2>7. Clear(Append(es, e)) => Clear(es) /\ (e \in S => Times(e.msgs, x) = 0)
    BY <2>2, <2>5
  <2> HIDE DEF Clear
  <2>8. /\ BatchTimes(Without(Append(es, e), S), x) \in Nat
        /\ BatchTimes(Without(Append(es, e), S), x) <= BatchTimes(Append(es, e), x)
        /\ Clear(Append(es, e)) =>
             BatchTimes(Without(Append(es, e), S), x) = BatchTimes(Append(es, e), x)
    <3>1. CASE e \in S
      BY <3>1, <2>2, <2>4, <2>6, <2>7
    <3>2. CASE e \notin S
      BY <3>2, <2>2, <2>3, <2>4, <2>6, <2>7
    <3> QED BY <3>1, <3>2
  <2> QED BY <2>1, <2>8
<1>3. Q \subseteq Seq(Delivery)
  OBVIOUS
<1>4. Q = Seq(Delivery)
  <2> HIDE DEF Q
  <2> QED BY <1>1, <1>2, <1>3, SeqsAreBuilt
<1> QED BY <1>4

\* Two filters of which each batch passes one.
LEMMA BatchTimesSplit ==
  ASSUME NEW ds \in Seq(Delivery), NEW A, NEW B, NEW x,
         \A d \in ToSet(ds) : d \in A <=> d \notin B
  PROVE  /\ BatchTimes(Without(ds, A), x) + BatchTimes(Without(ds, B), x) = BatchTimes(ds, x)
         /\ BatchTimes(Without(ds, A), x) \in Nat /\ BatchTimes(Without(ds, B), x) \in Nat
<1> DEFINE Parted(es) == \A d \in ToSet(es) : d \in A <=> d \notin B
           Sums(es) == BatchTimes(Without(es, A), x) + BatchTimes(Without(es, B), x)
                         = BatchTimes(es, x)
           Q == {es \in Seq(Delivery) : Parted(es) => Sums(es)}
<1>1. <<>> \in Q
  <2>1. /\ BatchTimes(<<>>, x) = 0 /\ <<>> \in Seq(Delivery)
        /\ Without(<<>>, A) = <<>> /\ Without(<<>>, B) = <<>>
    BY EmptySeq, NoBatch, WithoutNone
  <2> QED BY <2>1
<1>2. ASSUME NEW es \in Q, NEW e \in Delivery PROVE Append(es, e) \in Q
  <2>1. /\ es \in Seq(Delivery) /\ Append(es, e) \in Seq(Delivery)
        /\ Without(es, A) \in Seq(Delivery) /\ Without(es, B) \in Seq(Delivery)
    BY AppendProperties, WithoutFacts
  <2>2. \A fs \in Seq(Delivery) :
          /\ BatchTimes(fs, x) \in Nat /\ Times(e.msgs, x) \in Nat
          /\ BatchTimes(Append(fs, e), x) = BatchTimes(fs, x) + Times(e.msgs, x)
    BY BatchTimesAppend
  <2>4. /\ Without(Append(es, e), A) =
             IF e \in A THEN Without(es, A) ELSE Append(Without(es, A), e)
        /\ Without(Append(es, e), B) =
             IF e \in B THEN Without(es, B) ELSE Append(Without(es, B), e)
    BY <2>1, WithoutAppend
  <2>5. ToSet(Append(es, e)) = ToSet(es) \cup {e}
    BY <2>1, MembersFacts
  <2>6. Parted(es) => Sums(es)
    OBVIOUS
  <2>7. Parted(Append(es, e)) => Parted(es) /\ (e \in A <=> e \notin B)
    BY <2>5
  <2> HIDE DEF Parted
  <2>8. Parted(Append(es, e)) => Sums(Append(es, e))
    <3>0. ASSUME Parted(Append(es, e)) PROVE Sums(Append(es, e))
      <4>1. CASE e \in A
        BY <4>1, <3>0, <2>1, <2>2, <2>4, <2>6, <2>7
      <4>2. CASE e \notin A
        BY <4>2, <3>0, <2>1, <2>2, <2>4, <2>6, <2>7
      <4> QED BY <4>1, <4>2
    <3> QED BY <3>0
  <2> QED BY <2>1, <2>8
<1>3. Q \subseteq Seq(Delivery)
  OBVIOUS
<1>4. Q = Seq(Delivery)
  <2> HIDE DEF Q
  <2> QED BY <1>1, <1>2, <1>3, SeqsAreBuilt
<1> QED BY <1>4, BatchTimesLeft

\* The record of a batch whose next message may have been recorded
Pop(d, m) == IF Head(d.msgs) = m THEN [d EXCEPT !.msgs = Tail(@)] ELSE d
Popping == [queue : Queue, run : Run, msgs : Seq(Msg)]
Bare    == [queue : Queue, run : Run, msgs : {<<>>}]

\* What a pop leaves of a batch: its run, its queue, and one message less when m was next.
LEMMA PopFacts ==
  ASSUME NEW d \in Delivery, NEW m
  PROVE  /\ Pop(d, m) \in Popping
         /\ Pop(d, m) \in Bare \/ Pop(d, m) \in Delivery
         /\ Pop(d, m) \in Bare <=> Pop(d, m).msgs = <<>>
         /\ \A x : Times(d.msgs, x) = Times(Pop(d, m).msgs, x)
                                        + (IF Head(d.msgs) = m /\ m = x THEN 1 ELSE 0)
         /\ Pop(d, m).run = d.run /\ Pop(d, m).queue = d.queue
         /\ Pop(d, m).msgs = IF Head(d.msgs) = m THEN Tail(d.msgs) ELSE d.msgs
<1>1. d = [queue |-> d.queue, run |-> d.run, msgs |-> d.msgs]
  BY DEF Delivery
<1>2. d.queue \in Queue /\ d.run \in Run /\ d.msgs \in Seq(Msg) /\ d.msgs # <<>>
  BY DEF Delivery
<1>3. Tail(d.msgs) \in Seq(Msg)
  BY <1>2, HeadTailProperties
<1>4. Pop(d, m) = [queue |-> d.queue, run |-> d.run,
                   msgs |-> IF Head(d.msgs) = m THEN Tail(d.msgs) ELSE d.msgs]
  BY <1>1 DEF Pop
<1>5. /\ Pop(d, m).run = d.run /\ Pop(d, m).queue = d.queue
      /\ Pop(d, m).msgs = IF Head(d.msgs) = m THEN Tail(d.msgs) ELSE d.msgs
  BY <1>4
<1>6. /\ Pop(d, m) \in Popping
      /\ Pop(d, m) \in Bare \/ Pop(d, m) \in Delivery
      /\ Pop(d, m) \in Bare <=> Pop(d, m).msgs = <<>>
  BY <1>2, <1>3, <1>4 DEF Popping, Bare, Delivery
<1>7. ASSUME NEW x
      PROVE  Times(d.msgs, x) = Times(Pop(d, m).msgs, x)
                                  + (IF Head(d.msgs) = m /\ m = x THEN 1 ELSE 0)
  <2>1. Times(d.msgs, x) = Times(Tail(d.msgs), x) + (IF Head(d.msgs) = x THEN 1 ELSE 0)
    BY <1>2, TimesTail
  <2>2. Times(d.msgs, x) \in Nat
    BY <1>2, TimesBasics
  <2> QED BY <1>5, <2>1, <2>2
<1> QED BY <1>5, <1>6, <1>7

\* Popped works record by record.
LEMMA PoppedAppend ==
  ASSUME NEW ds \in Seq(Delivery), NEW d \in Delivery, NEW m, Popped(ds, m) \in Seq(Popping)
  PROVE  Popped(Append(ds, d), m) = Append(Popped(ds, m), Pop(d, m))
<1> DEFINE a == Popped(ds, m)
           t == Append(ds, d)
           b == Popped(t, m)
           c == Append(a, Pop(d, m))
<1>1. Len(ds) \in Nat /\ DOMAIN ds = 1..Len(ds)
  BY LenProperties
<1>2. /\ DOMAIN t = 1..(Len(ds) + 1)
      /\ \A i \in 1..Len(ds) : t[i] = ds[i]
      /\ t[Len(ds) + 1] = d
  BY AppendProperties, LenProperties
<1>3. DOMAIN a = 1..Len(ds) /\ \A i \in 1..Len(ds) : a[i] = Pop(ds[i], m)
  BY <1>1 DEF Popped, Pop
<1> HIDE DEF t
<1>4. /\ DOMAIN b = 1..(Len(ds) + 1)
      /\ \A i \in 1..(Len(ds) + 1) : b[i] = Pop(t[i], m)
      /\ b = [i \in 1..(Len(ds) + 1) |-> b[i]]
  BY <1>2 DEF Popped, Pop
<1>5. a \in Seq(Popping) /\ Pop(d, m) \in Popping
  BY PopFacts
<1> HIDE DEF a, b
<1>6. Len(a) = Len(ds) /\ Len(a) \in Nat
  BY <1>1, <1>3, <1>5, LenProperties
<1>7. /\ c \in Seq(Popping) /\ DOMAIN c = 1..(Len(ds) + 1)
      /\ \A i \in 1..Len(ds) : c[i] = a[i]
      /\ c[Len(ds) + 1] = Pop(d, m)
  BY <1>5, <1>6, AppendProperties, LenProperties
<1>8. c = [i \in 1..(Len(ds) + 1) |-> c[i]]
  BY <1>7, LenProperties
<1> HIDE DEF c
<1>9. ASSUME NEW i \in 1..(Len(ds) + 1) PROVE b[i] = c[i]
  <2>1. i \in 1..Len(ds) \/ i = Len(ds) + 1
    BY <1>1
  <2> QED BY <2>1, <1>2, <1>3, <1>4, <1>7
<1>10. b = c
  BY <1>4, <1>8, <1>9
<1> QED BY <1>10 DEF a, b, c, t
-----------------------------------------------------------------------------
(* What recording a message leaves of them *)

\* What is left of the batches when m is recorded
Left(ds, m) == Without(Popped(ds, m), Bare)

\* The batches hold m once less if it was next in one, and as much of the other messages.
LEMMA LeftFacts ==
  ASSUME NEW ds \in Seq(Delivery), NEW m, NEW x
  PROVE  /\ Popped(ds, m) \in Seq(Popping) /\ Left(ds, m) \in Seq(Delivery)
         /\ BatchTimes(Left(ds, m), x) \in Nat
         /\ BatchTimes(Left(ds, m), x) <= BatchTimes(ds, x)
         /\ x # m => BatchTimes(Left(ds, m), x) = BatchTimes(ds, x)
         /\ (\E d \in ToSet(ds) : Head(d.msgs) = m) =>
              BatchTimes(Left(ds, m), m) < BatchTimes(ds, m)
         /\ (\A d \in ToSet(ds) : Head(d.msgs) # m) => Left(ds, m) = ds
         /\ \A e \in ToSet(Left(ds, m)) : \E d \in ToSet(ds) : e = Pop(d, m)
<1> DEFINE Next1(es) == \E d \in ToSet(es) : Head(d.msgs) = m
           From(es)  == \A e \in ToSet(Left(es, m)) : \E d \in ToSet(es) : e = Pop(d, m)
           Less(es, y) ==
             /\ BatchTimes(Left(es, m), y) \in Nat
             /\ BatchTimes(Left(es, m), y) <= BatchTimes(es, y)
             /\ y # m => BatchTimes(Left(es, m), y) = BatchTimes(es, y)
             /\ y = m /\ Next1(es) => BatchTimes(Left(es, m), y) < BatchTimes(es, y)
           Q == {es \in Seq(Delivery) :
                   /\ Popped(es, m) \in Seq(Popping) /\ Left(es, m) \in Seq(Delivery)
                   /\ Less(es, x) /\ Less(es, m)
                   /\ Next1(es) \/ Left(es, m) = es
                   /\ From(es)}
<1>1. <<>> \in Q
  <2>1. Popped(<<>>, m) = <<>>
    BY EmptySeq, LenProperties DEF Popped
  <2>2. /\ <<>> \in Seq(Delivery) /\ <<>> \in Seq(Popping) /\ ToSet(<<>>) = {}
    BY EmptySeq, MembersFacts
  <2>3. Left(<<>>, m) = <<>>
    BY <2>1, WithoutNone DEF Left
  <2>4. BatchTimes(<<>>, x) = 0 /\ BatchTimes(<<>>, m) = 0
    BY NoBatch
  <2>5. ~Next1(<<>>) /\ From(<<>>)
    BY <2>2, <2>3
  <2>6. Less(<<>>, x) /\ Less(<<>>, m)
    <3> HIDE DEF Next1
    <3> QED BY <2>3, <2>4, <2>5
  <2> HIDE DEF Less, Next1, From
  <2> QED BY <2>1, <2>2, <2>3, <2>5, <2>6
<1>2. ASSUME NEW es \in Q, NEW e \in Delivery PROVE Append(es, e) \in Q
  <2> DEFINE p == Pop(e, m)
             t == Append(es, e)
  <2>1. /\ es \in Seq(Delivery) /\ t \in Seq(Delivery)
        /\ Popped(es, m) \in Seq(Popping) /\ Left(es, m) \in Seq(Delivery)
        /\ Less(es, x) /\ Less(es, m) /\ From(es)
        /\ Next1(es) \/ Left(es, m) = es
    BY AppendProperties
  <2>2. /\ p \in Popping /\ (p \in Bare \/ p \in Delivery)
        /\ p \in Bare <=> p.msgs = <<>>
        /\ \A y : Times(e.msgs, y) = Times(p.msgs, y) + (IF Head(e.msgs) = m /\ m = y THEN 1 ELSE 0)
    BY PopFacts
  <2>3. Popped(t, m) = Append(Popped(es, m), p) /\ Popped(t, m) \in Seq(Popping)
    <3>1. Popped(t, m) = Append(Popped(es, m), p)
      BY <2>1, PoppedAppend
    <3>2. Append(Popped(es, m), p) \in Seq(Popping)
      <4> HIDE DEF p
      <4> QED BY <2>1, <2>2, AppendProperties
    <3> QED BY <3>1, <3>2
  <2>4. Left(t, m) = IF p \in Bare THEN Left(es, m) ELSE Append(Left(es, m), p)
    <3> HIDE DEF p
    <3>1. Without(Append(Popped(es, m), p), Bare) =
            IF p \in Bare THEN Without(Popped(es, m), Bare)
            ELSE Append(Without(Popped(es, m), Bare), p)
      BY <2>1, <2>2, WithoutAppend
    <3> QED BY <2>3, <3>1 DEF Left
  <2>5. ToSet(t) = ToSet(es) \cup {e}
    BY <2>1, MembersFacts
  <2>6. p \in Bare => Head(e.msgs) = m /\ Times(p.msgs, x) = 0 /\ Times(p.msgs, m) = 0
    <3>1. p.msgs = <<>> => Head(e.msgs) = m
      BY DEF Pop, Delivery
    <3>2. Times(<<>>, x) = 0 /\ Times(<<>>, m) = 0
      BY EmptySeq, TimesBasics
    <3> QED BY <2>2, <3>1, <3>2
  <2>7. Left(t, m) \in Seq(Delivery)
    <3> HIDE DEF p, t
    <3> QED BY <2>1, <2>2, <2>4, AppendProperties
  <2>8. \A y : /\ BatchTimes(es, y) \in Nat /\ Times(e.msgs, y) \in Nat
               /\ BatchTimes(t, y) = BatchTimes(es, y) + Times(e.msgs, y)
    BY <2>1, BatchTimesAppend
  <2>9. p \notin Bare => \A y :
          /\ Times(p.msgs, y) \in Nat
          /\ BatchTimes(Append(Left(es, m), p), y) = BatchTimes(Left(es, m), y) + Times(p.msgs, y)
    <3> HIDE DEF p
    <3> QED BY <2>1, <2>2, BatchTimesAppend
  <2>10. Next1(t) <=> Next1(es) \/ Head(e.msgs) = m
    BY <2>5
  <2>11. ASSUME NEW y \in {x, m} PROVE Less(t, y)
    <3>0. Less(es, y)
      BY <2>1
    <3>1. y = m => (Next1(es) => BatchTimes(Left(es, m), y) < BatchTimes(es, y))
      BY <3>0
    <3>2. CASE p \in Bare
      <4>1. BatchTimes(Left(t, m), y) = BatchTimes(Left(es, m), y)
        BY <3>2, <2>4
      <4>2. Times(e.msgs, y) = IF m = y THEN 1 ELSE 0
        BY <3>2, <2>2, <2>6
      <4>3. /\ BatchTimes(es, y) \in Nat
            /\ BatchTimes(t, y) = BatchTimes(es, y) + (IF m = y THEN 1 ELSE 0)
        BY <4>2, <2>8
      <4>4. /\ BatchTimes(Left(es, m), y) \in Nat
            /\ BatchTimes(Left(es, m), y) <= BatchTimes(es, y)
            /\ y # m => BatchTimes(Left(es, m), y) = BatchTimes(es, y)
        BY <3>0
      <4> HIDE DEF p, t, Next1
      <4> QED BY <4>1, <4>3, <4>4
    <3>3. CASE p \notin Bare
      <4>1. /\ BatchTimes(Left(t, m), y) = BatchTimes(Left(es, m), y) + Times(p.msgs, y)
            /\ Times(p.msgs, y) \in Nat
        BY <3>3, <2>4, <2>9
      <4>2. Times(e.msgs, y) = Times(p.msgs, y) + (IF Head(e.msgs) = m /\ m = y THEN 1 ELSE 0)
        BY <2>2
      <4>3. /\ BatchTimes(es, y) \in Nat
            /\ BatchTimes(t, y) = BatchTimes(es, y) + Times(e.msgs, y)
        BY <2>8
      <4> HIDE DEF p, t, Next1
      <4> QED BY <3>0, <4>1, <4>2, <4>3, <2>10
    <3> QED BY <3>2, <3>3
  <2>12. Next1(t) \/ Left(t, m) = t
    <3>1. SUFFICES ASSUME ~Next1(t) PROVE Left(t, m) = t
      OBVIOUS
    <3>2. ~Next1(es) /\ Head(e.msgs) # m
      BY <3>1, <2>10
    <3>3. p = e /\ p \notin Bare
      BY <3>2, <2>6 DEF Pop
    <3> HIDE DEF Next1, p
    <3> QED BY <2>1, <2>4, <3>2, <3>3
  <2>13. From(t)
    <3>1. CASE p \in Bare
      <4>1. Left(t, m) = Left(es, m)
        BY <3>1, <2>4
      <4> QED BY <2>1, <2>5, <4>1
    <3>2. CASE p \notin Bare
      <4>1. Left(t, m) = Append(Left(es, m), p) /\ p \in Delivery
        BY <3>2, <2>2, <2>4
      <4>2. ToSet(Left(t, m)) = ToSet(Left(es, m)) \cup {p}
        <5> HIDE DEF p
        <5> QED BY <2>1, <4>1, MembersFacts
      <4> QED BY <2>1, <2>5, <4>2
    <3> QED BY <3>1, <3>2
  <2>14. Less(t, x) /\ Less(t, m)
    BY <2>11
  <2> HIDE DEF Less, From, Next1
  <2> QED BY <2>1, <2>3, <2>7, <2>12, <2>13, <2>14
<1>3. Q \subseteq Seq(Delivery)
  OBVIOUS
<1>4. Q = Seq(Delivery)
  <2> HIDE DEF Q
  <2> QED BY <1>1, <1>2, <1>3, SeqsAreBuilt
<1>5. ds \in Q
  BY <1>4
<1> QED BY <1>5

\* How AppendMessage says it.
LEMMA LeftIs ==
  ASSUME NEW ds \in Seq(Delivery), NEW m
  PROVE  Left(ds, m) = Without(Popped(ds, m), {d \in ToSet(Popped(ds, m)) : d.msgs = <<>>})
<1> DEFINE p == Popped(ds, m)
           B == {d \in ToSet(p) : d.msgs = <<>>}
<1>1. p \in Seq(Popping)
  BY LeftFacts
<1>2. ToSet(p) \subseteq Popping
  <2> HIDE DEF p
  <2> QED BY <1>1, MembersFacts
<1>3. \A d \in Popping : d \in Bare <=> d.msgs = <<>>
  BY DEF Popping, Bare
<1>4. ToSet(p) \cap Bare = ToSet(p) \cap B
  <2> HIDE DEF p
  <2> QED BY <1>2, <1>3
<1>5. Without(p, Bare) = Without(p, B)
  <2> HIDE DEF p, B
  <2> QED BY <1>1, <1>4, WithoutSame
<1> QED BY <1>5 DEF Left

-----------------------------------------------------------------------------
(* Live steering *)

\* SteeredIn works record by record.
LEMMA SteeredAppend ==
  ASSUME NEW es \in Seq(Steering), NEW e \in Steering
  PROVE  /\ SteeredIn(<<>>) = <<>>
         /\ SteeredIn(es) \in Seq(Msg)
         /\ SteeredIn(Append(es, e)) = Append(SteeredIn(es), e.msg)
<1> DEFINE Q == {s \in Seq(Steering) : SteeredIn(s) \in Seq(Msg)}
<1>1. SteeredIn(<<>>) = <<>>
  BY EmptySeq, LenProperties DEF SteeredIn
<1>2. ASSUME NEW s \in Q, NEW d \in Steering
      PROVE  SteeredIn(Append(s, d)) = Append(SteeredIn(s), d.msg)
  <2> DEFINE a == SteeredIn(s)
             t == Append(s, d)
             b == SteeredIn(t)
             c == Append(a, d.msg)
  <2>1. Len(s) \in Nat /\ DOMAIN s = 1..Len(s) /\ s \in Seq(Steering) /\ a \in Seq(Msg)
    BY LenProperties
  <2>2. /\ DOMAIN t = 1..(Len(s) + 1)
        /\ \A i \in 1..Len(s) : t[i] = s[i]
        /\ t[Len(s) + 1] = d
    BY AppendProperties, LenProperties
  <2>3. DOMAIN a = 1..Len(s) /\ \A i \in 1..Len(s) : a[i] = s[i].msg
    BY <2>1 DEF SteeredIn
  <2> HIDE DEF t
  <2>4. /\ DOMAIN b = 1..(Len(s) + 1)
        /\ \A i \in 1..(Len(s) + 1) : b[i] = t[i].msg
        /\ b = [i \in 1..(Len(s) + 1) |-> b[i]]
    BY <2>2 DEF SteeredIn
  <2>5. d.msg \in Msg
    BY DEF Steering
  <2> HIDE DEF a, b
  <2>6. Len(a) = Len(s) /\ Len(a) \in Nat
    BY <2>1, <2>3, LenProperties
  <2>7. /\ c \in Seq(Msg) /\ DOMAIN c = 1..(Len(s) + 1)
        /\ \A i \in 1..Len(s) : c[i] = a[i]
        /\ c[Len(s) + 1] = d.msg
    BY <2>1, <2>5, <2>6, AppendProperties, LenProperties
  <2>8. c = [i \in 1..(Len(s) + 1) |-> c[i]]
    BY <2>7, LenProperties
  <2> HIDE DEF c
  <2>9. ASSUME NEW i \in 1..(Len(s) + 1) PROVE b[i] = c[i]
    <3>1. i \in 1..Len(s) \/ i = Len(s) + 1
      BY <2>1
    <3> QED BY <3>1, <2>2, <2>3, <2>4, <2>7
  <2>10. b = c
    BY <2>4, <2>8, <2>9
  <2> QED BY <2>10 DEF a, b, c, t
<1>3. <<>> \in Q
  BY <1>1, EmptySeq
<1>4. ASSUME NEW s \in Q, NEW d \in Steering PROVE Append(s, d) \in Q
  <2>1. d.msg \in Msg /\ Append(s, d) \in Seq(Steering)
    BY AppendProperties DEF Steering
  <2>2. Append(SteeredIn(s), d.msg) \in Seq(Msg)
    BY <2>1, AppendProperties
  <2> QED BY <1>2, <2>1, <2>2
<1>5. Q \subseteq Seq(Steering)
  OBVIOUS
<1>6. Q = Seq(Steering)
  <2> HIDE DEF Q
  <2> QED BY <1>3, <1>4, <1>5, SeqsAreBuilt
<1> QED BY <1>1, <1>2, <1>6

\* One more live-steered message counts once.
LEMMA SteerTimesAppend ==
  ASSUME NEW es \in Seq(Steering), NEW e \in Steering, NEW x
  PROVE  /\ SteerTimes(es, x) \in Nat
         /\ SteerTimes(Append(es, e), x) = SteerTimes(es, x) + (IF e.msg = x THEN 1 ELSE 0)
<1>1. e.msg \in Msg
  BY DEF Steering
<1>2. SteeredIn(es) \in Seq(Msg) /\ SteeredIn(Append(es, e)) = Append(SteeredIn(es), e.msg)
  BY SteeredAppend
<1>3. /\ Times(SteeredIn(es), x) \in Nat
      /\ Times(Append(SteeredIn(es), e.msg), x)
           = Times(SteeredIn(es), x) + (IF e.msg = x THEN 1 ELSE 0)
  BY <1>1, <1>2, TimesBasics
<1> QED BY <1>2, <1>3 DEF SteerTimes

\* Nothing is live-steered in an empty list.
LEMMA NoSteering == \A x : SteerTimes(<<>>, x) = 0
<1>1. SteeredIn(<<>>) = <<>>
  BY EmptySeq, LenProperties DEF SteeredIn
<1>2. \A x : Times(<<>>, x) = 0
  BY EmptySeq, TimesBasics
<1> QED BY <1>1, <1>2 DEF SteerTimes

\* A message counts when it was live-steered; with its entries dropped, no more; the other
\* messages as before.
LEMMA SteerTimesFacts ==
  ASSUME NEW es \in Seq(Steering), NEW m, NEW x
  PROVE  /\ SteeredIn(es) \in Seq(Msg) /\ SteerTimes(es, x) \in Nat
         /\ SteerTimes(es, x) > 0 <=> \E e \in ToSet(es) : e.msg = x
         /\ \A S : (\A e \in ToSet(es) : e \in S <=> e.msg = m) =>
              SteerTimes(Without(es, S), x) = IF x = m THEN 0 ELSE SteerTimes(es, x)
<1> DEFINE M == {e \in Steering : e.msg = m}
           Q == {s \in Seq(Steering) :
                   /\ SteerTimes(s, x) \in Nat
                   /\ SteerTimes(s, x) > 0 <=> \E e \in ToSet(s) : e.msg = x
                   /\ SteerTimes(Without(s, M), x) = IF x = m THEN 0 ELSE SteerTimes(s, x)}
<1>1. <<>> \in Q
  <2>1. ToSet(<<>>) = {} /\ <<>> \in Seq(Steering) /\ Without(<<>>, M) = <<>>
    BY EmptySeq, MembersFacts, WithoutNone
  <2> HIDE DEF M
  <2> QED BY <2>1, NoSteering
<1>2. ASSUME NEW s \in Q, NEW e \in Steering PROVE Append(s, e) \in Q
  <2>1. s \in Seq(Steering) /\ Append(s, e) \in Seq(Steering) /\ Without(s, M) \in Seq(Steering)
    BY AppendProperties, WithoutFacts
  <2>2. \A u \in Seq(Steering) :
          /\ SteerTimes(u, x) \in Nat
          /\ SteerTimes(Append(u, e), x) = SteerTimes(u, x) + (IF e.msg = x THEN 1 ELSE 0)
    BY SteerTimesAppend
  <2>3. Without(Append(s, e), M) = IF e \in M THEN Without(s, M) ELSE Append(Without(s, M), e)
    <3> HIDE DEF M
    <3> QED BY <2>1, WithoutAppend
  <2>4. ToSet(Append(s, e)) = ToSet(s) \cup {e}
    BY <2>1, MembersFacts
  <2>5. e \in M <=> e.msg = m
    OBVIOUS
  <2>6. /\ SteerTimes(s, x) \in Nat
        /\ SteerTimes(s, x) > 0 <=> \E d \in ToSet(s) : d.msg = x
        /\ SteerTimes(Without(s, M), x) = IF x = m THEN 0 ELSE SteerTimes(s, x)
    OBVIOUS
  <2>7. SteerTimes(Append(s, e), x) > 0 <=> \E d \in ToSet(Append(s, e)) : d.msg = x
    BY <2>1, <2>2, <2>4, <2>6
  <2>8. SteerTimes(Without(Append(s, e), M), x)
          = IF x = m THEN 0 ELSE SteerTimes(Append(s, e), x)
    <3> HIDE DEF M
    <3>1. CASE e \in M
      BY <3>1, <2>1, <2>2, <2>3, <2>5, <2>6
    <3>2. CASE e \notin M
      BY <3>2, <2>1, <2>2, <2>3, <2>5, <2>6
    <3> QED BY <3>1, <3>2
  <2> QED BY <2>1, <2>2, <2>7, <2>8
<1>3. Q \subseteq Seq(Steering)
  OBVIOUS
<1>4. Q = Seq(Steering)
  <2> HIDE DEF Q
  <2> QED BY <1>1, <1>2, <1>3, SeqsAreBuilt
<1>5. ASSUME NEW S, \A e \in ToSet(es) : e \in S <=> e.msg = m
      PROVE  Without(es, S) = Without(es, M)
  <2>1. ToSet(es) \subseteq Steering
    BY MembersFacts
  <2>2. ToSet(es) \cap S = ToSet(es) \cap M
    BY <1>5, <2>1
  <2> HIDE DEF M
  <2> QED BY <2>2, WithoutSame
<1>6. SteeredIn(es) \in Seq(Msg)
  <2>1. CASE es = <<>>
    BY <2>1, EmptySeq, LenProperties DEF SteeredIn
  <2>2. CASE es # <<>>
    <3>1. \E e \in Steering : TRUE
      BY <2>2, SequenceEmptyOrAppend
    <3> QED BY <3>1, SteeredAppend
  <2> QED BY <2>1, <2>2
<1> HIDE DEF M
<1> QED BY <1>4, <1>5, <1>6

\* The entries of a batch that was live-steered.
LEMMA SteerFacts ==
  ASSUME NEW es \in Seq(Steering), NEW r \in Run, NEW b \in Seq(Msg), NEW x
  PROVE  /\ Joined(es, Steer(r, b)) \in Seq(Steering)
         /\ SteerTimes(Joined(es, Steer(r, b)), x) = SteerTimes(es, x) + Times(b, x)
         /\ \A e \in ToSet(Joined(es, Steer(r, b))) : e \in ToSet(es) \/ e.run = r
<1> DEFINE Q == {c \in Seq(Msg) :
                   /\ Steer(r, c) \in Seq(Steering)
                   /\ Joined(es, Steer(r, c)) \in Seq(Steering)
                   /\ SteerTimes(Joined(es, Steer(r, c)), x) = SteerTimes(es, x) + Times(c, x)
                   /\ \A e \in ToSet(Joined(es, Steer(r, c))) : e \in ToSet(es) \/ e.run = r}
<1>1. <<>> \in Q
  <2>1. Steer(r, <<>>) = <<>>
    BY EmptySeq, LenProperties DEF Steer
  <2>2. Joined(es, <<>>) = es
    BY ConcatEmptySeq DEF Joined
  <2>3. /\ <<>> \in Seq(Msg) /\ <<>> \in Seq(Steering) /\ Times(<<>>, x) = 0
        /\ SteerTimes(es, x) \in Nat
    BY EmptySeq, TimesBasics, SteerTimesFacts
  <2>4. Joined(es, Steer(r, <<>>)) = es
    BY <2>1, <2>2
  <2>5. SteerTimes(Joined(es, Steer(r, <<>>)), x) = SteerTimes(es, x) + Times(<<>>, x)
    BY <2>3, <2>4
  <2> QED BY <2>1, <2>3, <2>4, <2>5
<1>2. ASSUME NEW c \in Q, NEW y \in Msg PROVE Append(c, y) \in Q
  <2> DEFINE e == [msg |-> y, run |-> r]
             s == Steer(r, c)
             j == Joined(es, s)
             t == Append(c, y)
             u == Steer(r, t)
             v == Append(s, e)
  <2>0. /\ c \in Seq(Msg) /\ s \in Seq(Steering) /\ j \in Seq(Steering)
        /\ SteerTimes(j, x) = SteerTimes(es, x) + Times(c, x)
        /\ \A d \in ToSet(j) : d \in ToSet(es) \/ d.run = r
    OBVIOUS
  <2>1. e \in Steering /\ e.msg = y /\ e.run = r
    BY DEF Steering
  <2>2. Len(c) \in Nat /\ DOMAIN c = 1..Len(c)
    BY <2>0, LenProperties
  <2>3. /\ t \in Seq(Msg) /\ DOMAIN t = 1..(Len(c) + 1)
        /\ \A i \in 1..Len(c) : t[i] = c[i]
        /\ t[Len(c) + 1] = y
    BY <2>0, AppendProperties, LenProperties
  <2>4. u = v
    <3>1. DOMAIN s = 1..Len(c) /\ \A i \in 1..Len(c) : s[i] = [msg |-> c[i], run |-> r]
      BY <2>2 DEF Steer
    <3> HIDE DEF t
    <3>2. /\ DOMAIN u = 1..(Len(c) + 1)
          /\ \A i \in 1..(Len(c) + 1) : u[i] = [msg |-> t[i], run |-> r]
          /\ u = [i \in 1..(Len(c) + 1) |-> u[i]]
      BY <2>3 DEF Steer
    <3> HIDE DEF s, u, e
    <3>3. Len(s) = Len(c) /\ Len(s) \in Nat
      BY <2>0, <2>2, <3>1, LenProperties
    <3>4. /\ v \in Seq(Steering) /\ DOMAIN v = 1..(Len(c) + 1)
          /\ \A i \in 1..Len(c) : v[i] = s[i]
          /\ v[Len(c) + 1] = e
      <4>1. /\ v \in Seq(Steering) /\ Len(v) = Len(s) + 1
            /\ \A i \in 1..Len(s) : v[i] = s[i]
            /\ v[Len(s) + 1] = e
        BY <2>0, <2>1, AppendProperties
      <4> HIDE DEF v
      <4>2. DOMAIN v = 1..Len(v)
        BY <4>1, LenProperties
      <4> QED BY <3>3, <4>1, <4>2
    <3>5. v = [i \in 1..(Len(c) + 1) |-> v[i]]
      BY <3>4, LenProperties
    <3> HIDE DEF v
    <3>6. ASSUME NEW i \in 1..(Len(c) + 1) PROVE u[i] = v[i]
      <4>1. i \in 1..Len(c) \/ i = Len(c) + 1
        BY <2>2
      <4>2. CASE i \in 1..Len(c)
        <5>1. u[i] = [msg |-> t[i], run |-> r] /\ t[i] = c[i]
          BY <4>2, <2>3, <3>2
        <5>2. v[i] = [msg |-> c[i], run |-> r]
          BY <4>2, <3>1, <3>4
        <5> QED BY <5>1, <5>2
      <4>3. CASE i = Len(c) + 1
        <5>1. u[i] = [msg |-> t[i], run |-> r] /\ t[i] = y
          BY <4>3, <2>3, <3>2
        <5>2. v[i] = [msg |-> y, run |-> r]
          BY <4>3, <3>4 DEF e
        <5> QED BY <5>1, <5>2
      <4> QED BY <4>1, <4>2, <4>3
    <3> QED BY <3>2, <3>5, <3>6
  <2> HIDE DEF e, t, s
  <2>5. Append(j, e) = Joined(es, v)
    BY <2>0, <2>1, JoinedAppend
  <2> HIDE DEF j
  <2>6. /\ v \in Seq(Steering) /\ Append(j, e) \in Seq(Steering)
    BY <2>0, <2>1, AppendProperties
  <2>7. /\ SteerTimes(Append(j, e), x) = SteerTimes(j, x) + (IF e.msg = x THEN 1 ELSE 0)
        /\ SteerTimes(es, x) \in Nat
    BY <2>0, <2>1, SteerTimesAppend, SteerTimesFacts
  <2>8. Times(t, x) = Times(c, x) + (IF y = x THEN 1 ELSE 0) /\ Times(c, x) \in Nat
    BY <2>0, TimesBasics DEF t
  <2>9. ToSet(Append(j, e)) = ToSet(j) \cup {e}
    BY <2>0, <2>1, MembersFacts
  <2>10. SteerTimes(Joined(es, u), x) = SteerTimes(es, x) + Times(t, x)
    <3> HIDE DEF u, v
    <3> QED BY <2>0, <2>1, <2>4, <2>5, <2>7, <2>8
  <2>11. \A d \in ToSet(Joined(es, u)) : d \in ToSet(es) \/ d.run = r
    <3> HIDE DEF u, v
    <3> QED BY <2>0, <2>1, <2>4, <2>5, <2>9
  <2>12. u \in Seq(Steering) /\ Joined(es, u) \in Seq(Steering) /\ t \in Seq(Msg)
    <3> HIDE DEF u, v
    <3> QED BY <2>3, <2>4, <2>5, <2>6
  <2> QED BY <2>10, <2>11, <2>12 DEF t
<1>3. Q \subseteq Seq(Msg)
  OBVIOUS
<1>4. Q = Seq(Msg)
  <2> HIDE DEF Q
  <2> QED BY <1>1, <1>2, <1>3, SeqsAreBuilt
<1> QED BY <1>4
-----------------------------------------------------------------------------
(* The invariant *)

\* What run r will record, in order: what it pushed, what it holds, and the live steering
\* of the response it streams.
Pipe(r) ==
  Joined(Joined(stream[r], loop[r].held),
         IF loop[r].at = "respond"
         THEN Joined(Joined(live[r].accepted, live[r].deferred), live[r].sent) ELSE <<>>)

\* A message of s that is in p comes after the one before it in s.
Ordered(p, s) ==
  \A i \in DOMAIN p, j \in DOMAIN s :
    p[i] = s[j] /\ j > 1 => \E h \in DOMAIN p : h < i /\ p[h] = s[j - 1]

\* Where a run can be.
LoopPhase(l) ==
  /\ l.opening <= Len(l.held)
  /\ l.at \in {"unused", "open", "openFollow", "respond", "ended"} => l.held = <<>>
LivePhase(t, l) ==
  /\ t.step # "none" => l.sent = <<>>
  /\ t.step # "none" \/ l.sent # <<>> => l.deferred = <<>>
RunPhase(r) ==
  /\ LoopPhase(loop[r])
  /\ LivePhase(taking[<<r, "live">>], live[r])
  /\ taking[<<r, "loop">>].step # "none" => loop[r].at \in PollSites
  /\ loop[r].at \notin {"unused", "respond", "ended"} =>
       /\ taking[<<r, "live">>].step = "none"
       /\ live[r].sent = <<>> /\ live[r].accepted = <<>> /\ live[r].deferred = <<>>
  /\ r \notin aborted /\ loop[r].at # "respond" =>
       taking[<<r, "live">>].step = "none" /\ live[r].sent = <<>>
  /\ r = controller \/ r \in aborted \/ loop[r].at = "unused"
Phases ==
  /\ \A r \in Run : RunPhase(r)
  /\ \A q \in Queue : claims[q].by \in Proc => claims[q].msgs # <<>>

\* What is dequeued is the controller's, in the order it will be recorded.
Owned ==
  /\ \A d \in ToSet(deliveries) : d.run = controller /\ Ordered(Pipe(controller), d.msgs)
  /\ \A e \in ToSet(liveSteered) : e.run = controller

\* How often the transcript or a queue has m, or the run will record it
Counted(m) == Queued(m) + recorded[m] + IF controller \in Run THEN Times(Pipe(controller), m) ELSE 0

Accounts ==
  \A m \in Msg :
    /\ Copies(m) <= 1
    /\ Counted(m) <= 1
    /\ m \notin Posted => Copies(m) = 0 /\ Counted(m) = 0
    /\ m \in Posted \ unrecoverable => Copies(m) >= 1
    /\ withdrawn[m] # NoRun => m \in taken
    /\ controller \in Run /\ Times(Pipe(controller), m) > 0 /\ m \in taken =>
         withdrawn[m] = controller

PostedSoFar == Posted = 1..Cardinality(Posted)

IInv == TypeOK /\ Phases /\ Owned /\ Accounts /\ PostedSoFar

-----------------------------------------------------------------------------
(* The order of a pipe *)

\* Concatenation under its name.
LEMMA JoinedFacts ==
  ASSUME NEW X, NEW s \in Seq(X), NEW t \in Seq(X)
  PROVE  /\ Joined(s, t) \in Seq(X)
         /\ Joined(s, <<>>) = s /\ Joined(<<>>, s) = s
         /\ \A u \in Seq(X) : Joined(Joined(s, t), u) = Joined(s, Joined(t, u))
         /\ Len(Joined(s, t)) = Len(s) + Len(t)
         /\ DOMAIN Joined(s, t) = 1..(Len(s) + Len(t))
         /\ \A i \in 1..Len(s) : Joined(s, t)[i] = s[i]
         /\ \A i \in 1..Len(t) : Joined(s, t)[Len(s) + i] = t[i]
<1>0. Len(s) \in Nat /\ Len(t) \in Nat
  BY LenProperties
<1>1. /\ Joined(s, t) \in Seq(X)
      /\ Len(Joined(s, t)) = Len(s) + Len(t)
      /\ \A i \in 1..(Len(s) + Len(t)) :
           Joined(s, t)[i] = IF i <= Len(s) THEN s[i] ELSE t[i - Len(s)]
  BY ConcatProperties DEF Joined
<1>2. DOMAIN Joined(s, t) = 1..(Len(s) + Len(t))
  <2> DEFINE j == Joined(s, t)
  <2> HIDE DEF j
  <2>1. j \in Seq(X) /\ Len(j) = Len(s) + Len(t)
    BY <1>1 DEF j
  <2>2. DOMAIN j = 1..(Len(s) + Len(t))
    BY <2>1, LenProperties
  <2> QED BY <2>2 DEF j
<1>3. Joined(s, <<>>) = s /\ Joined(<<>>, s) = s
  BY ConcatEmptySeq DEF Joined
<1>4. \A u \in Seq(X) : Joined(Joined(s, t), u) = Joined(s, Joined(t, u))
  BY ConcatAssociative DEF Joined
<1>5. \A i \in 1..Len(s) : i \in 1..(Len(s) + Len(t)) /\ i <= Len(s)
  BY <1>0
<1>6. \A i \in 1..Len(t) : /\ Len(s) + i \in 1..(Len(s) + Len(t)) /\ ~(Len(s) + i <= Len(s))
                           /\ (Len(s) + i) - Len(s) = i
  BY <1>0
<1> QED BY <1>1, <1>2, <1>3, <1>4, <1>5, <1>6

\* A batch that shares nothing with s may follow.
LEMMA OrderedFollowed ==
  ASSUME NEW p \in Seq(Msg), NEW b \in Seq(Msg), NEW s \in Seq(Msg),
         Ordered(p, s), ToSet(b) \cap ToSet(s) = {}
  PROVE  Ordered(Joined(p, b), s)
<1> DEFINE u == Joined(p, b)
<1>0. /\ Len(p) \in Nat /\ DOMAIN p = 1..Len(p) /\ Len(b) \in Nat /\ DOMAIN b = 1..Len(b)
  BY LenProperties
<1>1. /\ DOMAIN u = 1..(Len(p) + Len(b))
      /\ \A i \in 1..Len(p) : u[i] = p[i]
      /\ \A i \in 1..Len(b) : u[Len(p) + i] = b[i]
  <2> HIDE DEF u
  <2>1. DOMAIN Joined(p, b) = 1..(Len(p) + Len(b))
    BY JoinedFacts
  <2>2. \A i \in 1..Len(p) : Joined(p, b)[i] = p[i]
    BY JoinedFacts
  <2>3. \A i \in 1..Len(b) : Joined(p, b)[Len(p) + i] = b[i]
    BY JoinedFacts
  <2> QED BY <2>1, <2>2, <2>3 DEF u
<1> HIDE DEF u
<1>2. ASSUME NEW i \in DOMAIN u, NEW j \in DOMAIN s, u[i] = s[j], j > 1
      PROVE  \E h \in DOMAIN u : h < i /\ u[h] = s[j - 1]
  <2>1. CASE i \in 1..Len(p)
    <3>1. PICK h \in DOMAIN p : h < i /\ p[h] = s[j - 1]
      BY <1>0, <1>1, <1>2, <2>1 DEF Ordered
    <3>2. h \in DOMAIN u /\ u[h] = p[h]
      BY <1>0, <1>1, <3>1
    <3> QED BY <3>1, <3>2
  <2>2. CASE i \notin 1..Len(p)
    <3>1. i - Len(p) \in 1..Len(b) /\ Len(p) + (i - Len(p)) = i
      BY <1>0, <1>1, <2>2
    <3>2. u[i] = b[i - Len(p)]
      BY <1>1, <3>1
    <3>3. u[i] \in ToSet(b) /\ u[i] \in ToSet(s)
      BY <1>0, <1>2, <3>1, <3>2 DEF ToSet
    <3> QED BY <3>3
  <2> QED BY <2>1, <2>2
<1>3. Ordered(u, s)
  BY <1>2 DEF Ordered
<1> QED BY <1>3 DEF u

\* It follows in its own order.
LEMMA OrderedNew ==
  ASSUME NEW p \in Seq(Msg), NEW b \in Seq(Msg),
         ToSet(p) \cap ToSet(b) = {}, \A x \in Msg : Times(b, x) <= 1
  PROVE  Ordered(Joined(p, b), b)
<1> DEFINE u == Joined(p, b)
<1>0. /\ Len(p) \in Nat /\ DOMAIN p = 1..Len(p) /\ Len(b) \in Nat /\ DOMAIN b = 1..Len(b)
      /\ \A i \in 1..Len(b) : b[i] \in Msg
  BY LenProperties, ElementOfSeq
<1>1. /\ DOMAIN u = 1..(Len(p) + Len(b))
      /\ \A i \in 1..Len(p) : u[i] = p[i]
      /\ \A i \in 1..Len(b) : u[Len(p) + i] = b[i]
  <2> HIDE DEF u
  <2>1. DOMAIN Joined(p, b) = 1..(Len(p) + Len(b))
    BY JoinedFacts
  <2>2. \A i \in 1..Len(p) : Joined(p, b)[i] = p[i]
    BY JoinedFacts
  <2>3. \A i \in 1..Len(b) : Joined(p, b)[Len(p) + i] = b[i]
    BY JoinedFacts
  <2> QED BY <2>1, <2>2, <2>3 DEF u
<1> HIDE DEF u
<1>2. ASSUME NEW i \in DOMAIN u, NEW j \in DOMAIN b, u[i] = b[j], j > 1
      PROVE  \E h \in DOMAIN u : h < i /\ u[h] = b[j - 1]
  <2>1. i \notin 1..Len(p)
    <3>1. SUFFICES ASSUME i \in 1..Len(p) PROVE FALSE
      OBVIOUS
    <3>2. u[i] \in ToSet(p) /\ u[i] \in ToSet(b)
      BY <1>0, <1>1, <1>2, <3>1 DEF ToSet
    <3> QED BY <3>2
  <2>2. i - Len(p) \in 1..Len(b) /\ Len(p) + (i - Len(p)) = i
    BY <1>0, <1>1, <2>1
  <2>3. b[i - Len(p)] = b[j] /\ Times(b, b[j]) <= 1
    BY <1>0, <1>1, <1>2, <2>2
  <2>4. i - Len(p) = j
    BY <1>0, <2>2, <2>3, TimesOnce
  <2>5. /\ j - 1 \in 1..Len(b) /\ Len(p) + (j - 1) \in DOMAIN u /\ Len(p) + (j - 1) < i
    BY <1>0, <1>1, <1>2, <2>4
  <2>6. u[Len(p) + (j - 1)] = b[j - 1]
    BY <1>1, <2>5
  <2> QED BY <2>5, <2>6
<1>3. Ordered(u, b)
  BY <1>2 DEF Ordered
<1> QED BY <1>3 DEF u

\* What is not recorded in the end changes nothing before it.
LEMMA OrderedPrefix ==
  ASSUME NEW a \in Seq(Msg), NEW b \in Seq(Msg), NEW s, Ordered(Joined(a, b), s)
  PROVE  Ordered(a, s)
<1> DEFINE u == Joined(a, b)
<1>0. /\ Len(a) \in Nat /\ DOMAIN a = 1..Len(a) /\ Len(b) \in Nat
  BY LenProperties
<1>1. DOMAIN u = 1..(Len(a) + Len(b)) /\ \A i \in 1..Len(a) : u[i] = a[i]
  BY JoinedFacts
<1>2. Ordered(u, s)
  OBVIOUS
<1> HIDE DEF u
<1>3. ASSUME NEW i \in DOMAIN a, NEW j \in DOMAIN s, a[i] = s[j], j > 1
      PROVE  \E h \in DOMAIN a : h < i /\ a[h] = s[j - 1]
  <2>1. i \in DOMAIN u /\ u[i] = s[j]
    BY <1>0, <1>1, <1>3
  <2>2. PICK h \in DOMAIN u : h < i /\ u[h] = s[j - 1]
    BY <1>2, <1>3, <2>1 DEF Ordered
  <2>3. h \in 1..Len(a)
    BY <1>0, <1>1, <2>2
  <2> QED BY <1>0, <1>1, <2>2, <2>3
<1> QED BY <1>3 DEF Ordered

\* What is recorded next is next in its batch, and then leaves both.
LEMMA OrderedNext ==
  ASSUME NEW p \in Seq(Msg), p # <<>>, NEW s \in Seq(Msg), Ordered(p, s)
  PROVE  /\ Head(p) \in ToSet(s) => Head(p) = Head(s)
         /\ Head(p) \notin ToSet(s) => Ordered(Tail(p), s)
         /\ s # <<>> /\ Head(p) = Head(s) => Ordered(Tail(p), Tail(s))
<1> DEFINE t == Tail(p)
<1>0. /\ Len(p) \in Nat \ {0} /\ DOMAIN p = 1..Len(p) /\ Len(s) \in Nat /\ DOMAIN s = 1..Len(s)
      /\ Head(p) = p[1]
  BY EmptySeq, LenProperties DEF Head
<1>1. /\ DOMAIN t = 1..(Len(p) - 1) /\ \A i \in 1..(Len(p) - 1) : t[i] = p[i + 1]
  <2>1. t \in Seq(Msg) /\ Len(t) = Len(p) - 1 /\ \A i \in 1..Len(t) : t[i] = p[i + 1]
    BY HeadTailProperties
  <2> HIDE DEF t
  <2> QED BY <2>1, LenProperties
<1>2. \A i \in DOMAIN p, j \in DOMAIN s :
        p[i] = s[j] /\ j > 1 => \E h \in DOMAIN p : h < i /\ p[h] = s[j - 1]
  BY DEF Ordered
<1> HIDE DEF t
<1>3. \A j \in DOMAIN s : s[j] = p[1] => j = 1
  <2> TAKE j \in DOMAIN s
  <2>1. SUFFICES ASSUME s[j] = p[1], j # 1 PROVE FALSE
    OBVIOUS
  <2>2. 1 \in DOMAIN p /\ j > 1
    BY <1>0, <2>1
  <2>3. PICK h \in DOMAIN p : h < 1
    BY <1>2, <2>1, <2>2
  <2> QED BY <1>0, <2>3
<1>4. Head(p) \in ToSet(s) => Head(p) = Head(s)
  BY <1>0, <1>3 DEF ToSet, Head
<1>5. ASSUME Head(p) \notin ToSet(s) PROVE Ordered(t, s)
  <2>1. ASSUME NEW i \in DOMAIN t, NEW j \in DOMAIN s, t[i] = s[j], j > 1
        PROVE  \E h \in DOMAIN t : h < i /\ t[h] = s[j - 1]
    <3>1. i + 1 \in DOMAIN p /\ p[i + 1] = s[j] /\ j - 1 \in DOMAIN s
      BY <1>0, <1>1, <2>1
    <3>2. PICK h \in DOMAIN p : h < i + 1 /\ p[h] = s[j - 1]
      BY <1>2, <2>1, <3>1
    <3>3. h # 1
      BY <1>0, <1>5, <3>1, <3>2 DEF ToSet
    <3>4. h - 1 \in DOMAIN t /\ h - 1 < i /\ t[h - 1] = p[h]
      BY <1>0, <1>1, <3>1, <3>2, <3>3
    <3> QED BY <3>2, <3>4
  <2> QED BY <2>1 DEF Ordered
<1>6. ASSUME s # <<>>, Head(p) = Head(s) PROVE Ordered(t, Tail(s))
  <2> DEFINE v == Tail(s)
  <2>1. DOMAIN v = 1..(Len(s) - 1) /\ \A j \in 1..(Len(s) - 1) : v[j] = s[j + 1]
    <3>1. v \in Seq(Msg) /\ Len(v) = Len(s) - 1 /\ \A j \in 1..Len(v) : v[j] = s[j + 1]
      BY <1>6, HeadTailProperties
    <3> HIDE DEF v
    <3> QED BY <3>1, LenProperties
  <2> HIDE DEF v
  <2>2. ASSUME NEW i \in DOMAIN t, NEW j \in DOMAIN v, t[i] = v[j], j > 1
        PROVE  \E h \in DOMAIN t : h < i /\ t[h] = v[j - 1]
    <3>1. /\ i + 1 \in DOMAIN p /\ j + 1 \in DOMAIN s /\ p[i + 1] = s[j + 1] /\ j + 1 > 1
          /\ j \in DOMAIN s /\ v[j - 1] = s[j] /\ (j + 1) - 1 = j
      <4>1. i \in Nat /\ i + 1 \in DOMAIN p /\ p[i + 1] = t[i]
        BY <1>0, <1>1
      <4>2. j \in 1..(Len(s) - 1) /\ j - 1 \in 1..(Len(s) - 1) /\ j \in DOMAIN s /\ j + 1 \in DOMAIN s
        BY <1>0, <2>1, <2>2
      <4>3. v[j] = s[j + 1] /\ v[j - 1] = s[(j - 1) + 1]
        BY <2>1, <4>2
      <4>4. (j - 1) + 1 = j /\ (j + 1) - 1 = j /\ j + 1 > 1
        BY <1>0, <4>2
      <4> QED BY <2>2, <4>1, <4>2, <4>3, <4>4
    <3>2. PICK h \in DOMAIN p : h < i + 1 /\ p[h] = s[j]
      BY <1>2, <3>1
    <3>3. h # 1
      BY <1>3, <2>2, <3>1, <3>2
    <3>4. h - 1 \in DOMAIN t /\ h - 1 < i /\ t[h - 1] = p[h]
      BY <1>0, <1>1, <3>1, <3>2, <3>3
    <3> QED BY <3>1, <3>2, <3>4
  <2>3. Ordered(t, v)
    BY <2>2 DEF Ordered
  <2> QED BY <2>3 DEF v
<1> QED BY <1>4, <1>5, <1>6 DEF t

-----------------------------------------------------------------------------
(* What the types say *)

\* The types of a queue, and that a pending message is claimed or queued.
LEMMA QueueFacts ==
  ASSUME TypeOK, NEW q \in Queue
  PROVE  /\ queues[q] \in Seq(Msg) /\ claims[q] \in Claim /\ claims[q].msgs \in Seq(Msg)
         /\ Peek(q) = Joined(claims[q].msgs, queues[q]) /\ Peek(q) \in Seq(Msg)
         /\ \A x : /\ Times(Peek(q), x) = Times(claims[q].msgs, x) + Times(queues[q], x)
                   /\ Times(queues[q], x) \in Nat /\ Times(claims[q].msgs, x) \in Nat
<1>1. queues[q] \in Seq(Msg) /\ claims[q] \in Claim /\ claims[q].msgs \in Seq(Msg)
  BY DEF TypeOK, Claim
<1>2. Peek(q) = Joined(claims[q].msgs, queues[q])
  BY DEF Peek, Joined
<1>3. Joined(claims[q].msgs, queues[q]) \in Seq(Msg)
  BY <1>1, JoinedFacts
<1> QED BY <1>1, <1>2, <1>3, TimesJoined, TimesBasics

\* A message is queued a whole number of times, and some queue has it unless that is 0.
LEMMA QueuedFacts ==
  ASSUME TypeOK, NEW x
  PROVE  /\ Times(Peek("steering"), x) \in Nat /\ Times(Peek("followUp"), x) \in Nat
         /\ Queued(x) \in Nat
         /\ Queued(x) > 0 <=> \E q \in Queue : x \in ToSet(Peek(q))
<1>1. Peek("steering") \in Seq(Msg) /\ Peek("followUp") \in Seq(Msg)
  BY QueueFacts DEF Queue
<1>2. Times(Peek("steering"), x) \in Nat /\ Times(Peek("followUp"), x) \in Nat
  BY <1>1, TimesBasics
<1>3. /\ x \in ToSet(Peek("steering")) <=> Times(Peek("steering"), x) > 0
      /\ x \in ToSet(Peek("followUp")) <=> Times(Peek("followUp"), x) > 0
  BY <1>1, TimesMember
<1> QED BY <1>2, <1>3 DEF Queued, Queue

\* The same of what is dequeued.
LEMMA DequeuedFacts ==
  ASSUME TypeOK, NEW x
  PROVE  /\ Dequeued(x) = BatchTimes(deliveries, x) + SteerTimes(liveSteered, x)
         /\ BatchTimes(deliveries, x) \in Nat /\ SteerTimes(liveSteered, x) \in Nat
         /\ Dequeued(x) \in Nat
         /\ Dequeued(x) > 0 <=> \/ x \in MessagesOf(ToSet(deliveries))
                                \/ x \in {e.msg : e \in ToSet(liveSteered)}
<1>1. deliveries \in Seq(Delivery) /\ liveSteered \in Seq(Steering)
  BY DEF TypeOK
<1>2. /\ BatchTimes(deliveries, x) \in Nat
      /\ BatchTimes(deliveries, x) > 0 <=> \E d \in ToSet(deliveries) : x \in ToSet(d.msgs)
  BY <1>1, BatchTimesMember
<1>3. /\ SteerTimes(liveSteered, x) \in Nat
      /\ SteerTimes(liveSteered, x) > 0 <=> \E e \in ToSet(liveSteered) : e.msg = x
  BY <1>1, SteerTimesFacts
<1>4. Dequeued(x) = BatchTimes(deliveries, x) + SteerTimes(liveSteered, x)
  BY DEF Dequeued, BatchTimes, SteerTimes
<1>5. x \in MessagesOf(ToSet(deliveries)) <=> \E d \in ToSet(deliveries) : x \in ToSet(d.msgs)
  BY DEF MessagesOf
<1> QED BY <1>2, <1>3, <1>4, <1>5

\* The parts of a run's pipe.
LEMMA PipeFacts ==
  ASSUME TypeOK, NEW r \in Run
  PROVE  /\ stream[r] \in Seq(Msg) /\ loop[r].held \in Seq(Msg)
         /\ live[r].accepted \in Seq(Msg) /\ live[r].deferred \in Seq(Msg)
         /\ live[r].sent \in Seq(Msg)
         /\ Pipe(r) \in Seq(Msg)
         /\ \A x : Times(Pipe(r), x) \in Nat /\ (x \in ToSet(Pipe(r)) <=> Times(Pipe(r), x) > 0)
<1>1. /\ stream[r] \in Seq(Msg) /\ loop[r].held \in Seq(Msg)
      /\ live[r].accepted \in Seq(Msg) /\ live[r].deferred \in Seq(Msg)
      /\ live[r].sent \in Seq(Msg)
  BY DEF TypeOK, Loop, Live
<1>2. <<>> \in Seq(Msg)
  BY EmptySeq
<1>3. Pipe(r) \in Seq(Msg)
  <2>1. Joined(stream[r], loop[r].held) \in Seq(Msg)
    BY <1>1, JoinedFacts
  <2>2. Joined(live[r].accepted, live[r].deferred) \in Seq(Msg)
    BY <1>1, JoinedFacts
  <2>3. Joined(Joined(live[r].accepted, live[r].deferred), live[r].sent) \in Seq(Msg)
    BY <1>1, <2>2, JoinedFacts
  <2> QED BY <1>2, <2>1, <2>3, JoinedFacts DEF Pipe
<1> QED BY <1>1, <1>3, TimesBasics, TimesMember
-----------------------------------------------------------------------------
(* How the accounts change *)

\* Where each message is may change inside a queue and its claim, and the run may drop the
\* end of what it will record.
LEMMA QuietAccounts ==
  ASSUME TypeOK, Owned, Accounts, PostedSoFar,
         \A q \in Queue : Peek(q)' = Peek(q),
         UNCHANGED <<deliveries, liveSteered, withdrawn, controller, recorded, order, taken,
                     unrecoverable>>,
         controller \in Run => \E a, b \in Seq(Msg) : /\ Pipe(controller) = Joined(a, b)
                                                       /\ Pipe(controller)' = a
  PROVE  Owned' /\ Accounts' /\ PostedSoFar'
<1>1. Posted' = Posted
  BY DEF Posted
<1>2. \A x : Queued(x)' = Queued(x)
  BY DEF Queued, Queue
<1>3. \A x : Dequeued(x)' = Dequeued(x)
  BY DEF Dequeued
<1>4. \A x : Copies(x)' = Copies(x)
  BY <1>2, <1>3 DEF Copies
<1>5. controller \in Run => \A x : /\ Times(Pipe(controller)', x) \in Nat
                                   /\ Times(Pipe(controller)', x) <= Times(Pipe(controller), x)
  <2>1. SUFFICES ASSUME controller \in Run, NEW x
                 PROVE  /\ Times(Pipe(controller)', x) \in Nat
                        /\ Times(Pipe(controller)', x) <= Times(Pipe(controller), x)
    OBVIOUS
  <2>2. PICK a, b \in Seq(Msg) : Pipe(controller) = Joined(a, b) /\ Pipe(controller)' = a
    BY <2>1
  <2>3. /\ Times(Joined(a, b), x) = Times(a, x) + Times(b, x)
        /\ Times(a, x) \in Nat /\ Times(b, x) \in Nat
    BY TimesJoined, TimesBasics
  <2> QED BY <2>2, <2>3
<1>6. ASSUME NEW x \in Msg
      PROVE  /\ Counted(x)' \in Nat /\ Counted(x)' <= Counted(x) /\ Counted(x) \in Nat
  <2>1. Queued(x) \in Nat /\ recorded[x] \in Nat
    BY QueuedFacts DEF TypeOK
  <2>2. controller \in Run => Times(Pipe(controller), x) \in Nat
    BY PipeFacts
  <2> QED BY <1>2, <1>5, <2>1, <2>2 DEF Counted
<1>7. Owned'
  <2>1. ASSUME NEW d \in ToSet(deliveries)
        PROVE  d.run = controller /\ Ordered(Pipe(controller)', d.msgs)
    <3>1. d.run = controller /\ Ordered(Pipe(controller), d.msgs) /\ d.run \in Run
      <4>1. ToSet(deliveries) \subseteq Delivery
        BY MembersFacts DEF TypeOK
      <4> QED BY <4>1 DEF Owned, Delivery
    <3>2. PICK a, b \in Seq(Msg) : Pipe(controller) = Joined(a, b) /\ Pipe(controller)' = a
      BY <3>1
    <3> QED BY <3>1, <3>2, OrderedPrefix
  <2> QED BY <2>1 DEF Owned
<1>8. Accounts'
  <2>1. ASSUME NEW x \in Msg
        PROVE  /\ Copies(x)' <= 1
               /\ Counted(x)' <= 1
               /\ x \notin Posted => Copies(x)' = 0 /\ Counted(x)' = 0
               /\ x \in Posted \ unrecoverable => Copies(x)' >= 1
               /\ withdrawn[x] # NoRun => x \in taken
               /\ controller \in Run /\ Times(Pipe(controller)', x) > 0 /\ x \in taken =>
                    withdrawn[x] = controller
    <3>1. /\ Copies(x) <= 1
          /\ Counted(x) <= 1
          /\ x \notin Posted => Copies(x) = 0 /\ Counted(x) = 0
          /\ x \in Posted \ unrecoverable => Copies(x) >= 1
          /\ withdrawn[x] # NoRun => x \in taken
          /\ controller \in Run /\ Times(Pipe(controller), x) > 0 /\ x \in taken =>
               withdrawn[x] = controller
      BY DEF Accounts
    <3>2. controller \in Run => /\ Times(Pipe(controller)', x) \in Nat
                                /\ Times(Pipe(controller)', x) <= Times(Pipe(controller), x)
                                /\ Times(Pipe(controller), x) \in Nat
      BY <1>5, PipeFacts
    <3> QED BY <1>4, <1>6, <3>1, <3>2
  <2> QED BY <1>1, <2>1 DEF Accounts
<1>9. PostedSoFar'
  BY <1>1 DEF PostedSoFar
<1> QED BY <1>7, <1>8, <1>9

\* A queue edit: messages leave their queues for the user or for the other queue, and some
\* delivery records are dropped.
LEMMA EditAccounts ==
  ASSUME TypeOK, Owned, Accounts, PostedSoFar,
         NEW S, deliveries' = Without(deliveries, S),
         \A d \in ToSet(deliveries) \cap S : ToSet(d.msgs) \subseteq unrecoverable',
         unrecoverable \subseteq unrecoverable', taken \subseteq taken',
         UNCHANGED <<liveSteered, withdrawn, runVars, recorded>>,
         Posted' = Posted,
         \A x \in Msg :
           /\ Queued(x)' \in Nat
           /\ Queued(x) = Queued(x)' + (IF x \in taken' /\ x \notin taken THEN 1 ELSE 0)
  PROVE  Owned' /\ Accounts' /\ PostedSoFar'
<1>0. deliveries \in Seq(Delivery) /\ liveSteered \in Seq(Steering) /\ recorded \in [Msg -> Nat]
  BY DEF TypeOK
<1>1. controller' = controller /\ Pipe(controller)' = Pipe(controller)
  BY DEF runVars, Pipe
<1>2. ASSUME NEW x \in Msg
      PROVE  /\ Dequeued(x)' <= Dequeued(x)
             /\ Dequeued(x)' \in Nat /\ Dequeued(x) \in Nat
             /\ x \notin unrecoverable' => Dequeued(x)' = Dequeued(x)
  <2>1. /\ BatchTimes(deliveries', x) \in Nat
        /\ BatchTimes(deliveries', x) <= BatchTimes(deliveries, x)
        /\ (\A d \in ToSet(deliveries) \cap S : x \notin ToSet(d.msgs)) =>
              BatchTimes(deliveries', x) = BatchTimes(deliveries, x)
    BY <1>0, BatchTimesLeft
  <2>2. /\ Dequeued(x) = BatchTimes(deliveries, x) + SteerTimes(liveSteered, x)
        /\ BatchTimes(deliveries, x) \in Nat /\ SteerTimes(liveSteered, x) \in Nat
    BY DequeuedFacts
  <2>3. Dequeued(x)' = BatchTimes(deliveries', x) + SteerTimes(liveSteered, x)
    BY DEF Dequeued, BatchTimes, SteerTimes
  <2>4. x \notin unrecoverable' => \A d \in ToSet(deliveries) \cap S : x \notin ToSet(d.msgs)
    OBVIOUS
  <2> QED BY <2>1, <2>2, <2>3, <2>4
<1>3. Owned'
  <2>1. ToSet(deliveries') \subseteq ToSet(deliveries)
    BY <1>0, WithoutFacts
  <2>2. \A d \in ToSet(deliveries) : d.run = controller /\ Ordered(Pipe(controller), d.msgs)
    BY DEF Owned
  <2>3. \A e \in ToSet(liveSteered) : e.run = controller
    BY DEF Owned
  <2> QED BY <1>1, <2>1, <2>2, <2>3 DEF Owned
<1>4. Accounts'
  <2>1. ASSUME NEW x \in Msg
        PROVE  /\ Copies(x)' <= 1
               /\ Counted(x)' <= 1
               /\ x \notin Posted => Copies(x)' = 0 /\ Counted(x)' = 0
               /\ x \in Posted \ unrecoverable' => Copies(x)' >= 1
               /\ withdrawn[x] # NoRun => x \in taken'
               /\ controller \in Run /\ Times(Pipe(controller), x) > 0 /\ x \in taken' =>
                    withdrawn[x] = controller
    <3>1. /\ Copies(x) <= 1
          /\ Counted(x) <= 1
          /\ x \notin Posted => Copies(x) = 0 /\ Counted(x) = 0
          /\ x \in Posted \ unrecoverable => Copies(x) >= 1
          /\ withdrawn[x] # NoRun => x \in taken
          /\ controller \in Run /\ Times(Pipe(controller), x) > 0 /\ x \in taken =>
               withdrawn[x] = controller
      BY DEF Accounts
    <3>2. /\ Queued(x) \in Nat /\ recorded[x] \in Nat /\ Queued(x)' \in Nat
          /\ Queued(x) = Queued(x)' + (IF x \in taken' /\ x \notin taken THEN 1 ELSE 0)
      BY <1>0, QueuedFacts
    <3>3. controller \in Run => Times(Pipe(controller), x) \in Nat
      BY PipeFacts
    <3>4. /\ Copies(x) = Queued(x) + Dequeued(x) + recorded[x] + (IF x \in taken THEN 1 ELSE 0)
          /\ Copies(x)' = Queued(x)' + Dequeued(x)' + recorded[x] + (IF x \in taken' THEN 1 ELSE 0)
      BY DEF Copies
    <3>5. /\ Counted(x) = Queued(x) + recorded[x]
                            + IF controller \in Run THEN Times(Pipe(controller), x) ELSE 0
          /\ Counted(x)' = Queued(x)' + recorded[x]
                            + IF controller \in Run THEN Times(Pipe(controller), x) ELSE 0
      BY <1>1 DEF Counted
    <3>6. taken \subseteq taken' /\ unrecoverable \subseteq unrecoverable'
      OBVIOUS
    <3>7. Copies(x)' <= Copies(x) /\ Copies(x)' \in Nat
      BY <1>2, <3>2, <3>4, <3>6
    <3>8. Counted(x)' <= Counted(x) /\ Counted(x)' \in Nat
      BY <3>2, <3>3, <3>5
    <3>9. x \notin unrecoverable' => Copies(x)' = Copies(x)
      BY <1>2, <3>2, <3>4, <3>6
    <3>10. x \in taken' /\ x \notin taken =>
             ~(controller \in Run /\ Times(Pipe(controller), x) > 0)
      BY <3>1, <3>2, <3>3, <3>5
    <3>11. /\ Copies(x)' <= 1 /\ Counted(x)' <= 1
           /\ x \notin Posted => Copies(x)' = 0 /\ Counted(x)' = 0
      <4>1. Copies(x) \in Nat /\ Counted(x) \in Nat
        BY <1>2, <3>2, <3>3, <3>4, <3>5
      <4> QED BY <3>1, <3>7, <3>8, <4>1
    <3>12. x \in Posted \ unrecoverable' => Copies(x)' >= 1
      BY <3>1, <3>6, <3>9
    <3>13. withdrawn[x] # NoRun => x \in taken'
      BY <3>1, <3>6
    <3>14. controller \in Run /\ Times(Pipe(controller), x) > 0 /\ x \in taken' =>
             withdrawn[x] = controller
      BY <3>1, <3>10
    <3> QED BY <3>11, <3>12, <3>13, <3>14
  <2> QED BY <1>1, <2>1 DEF Accounts
<1>5. PostedSoFar'
  BY DEF PostedSoFar
<1> QED BY <1>3, <1>4, <1>5

\* A batch leaves its queue for what the run will record.
LEMMA HandOverAccounts ==
  ASSUME TypeOK, Owned, Accounts, PostedSoFar,
         NEW p \in Proc, NEW q \in Queue, NEW b \in Seq(Msg), b # <<>>,
         controller = p[1],
         HandOver(p, q, b),
         UNCHANGED <<withdrawn, controller, recorded, order, taken, unrecoverable>>,
         Pipe(controller)' = Joined(Pipe(controller), b),
         \A x \in Msg : Queued(x)' \in Nat /\ Queued(x) = Queued(x)' + Times(b, x)
  PROVE  Owned' /\ Accounts' /\ PostedSoFar'
<1>0. deliveries \in Seq(Delivery) /\ liveSteered \in Seq(Steering) /\ recorded \in [Msg -> Nat]
  BY DEF TypeOK
<1>1. p[1] \in Run /\ controller \in Run
  BY DEF Proc
<1>2. Posted' = Posted
  BY DEF Posted
<1> DEFINE d == [queue |-> q, run |-> p[1], msgs |-> b]
<1>3. d \in Delivery /\ d.msgs = b /\ d.run = p[1]
  BY <1>1 DEF Delivery
<1>4. /\ p[2] = "loop" => deliveries' = Append(deliveries, d) /\ liveSteered' = liveSteered
      /\ p[2] # "loop" => liveSteered' = Joined(liveSteered, Steer(p[1], b)) /\ deliveries' = deliveries
  BY DEF HandOver, Joined
<1> HIDE DEF d
<1>5. ASSUME NEW x \in Msg
      PROVE  /\ Dequeued(x)' = Dequeued(x) + Times(b, x)
             /\ Dequeued(x) \in Nat /\ Times(b, x) \in Nat
  <2>1. /\ Dequeued(x) = BatchTimes(deliveries, x) + SteerTimes(liveSteered, x)
        /\ BatchTimes(deliveries, x) \in Nat /\ SteerTimes(liveSteered, x) \in Nat
    BY DequeuedFacts
  <2>2. Dequeued(x)' = BatchTimes(deliveries', x) + SteerTimes(liveSteered', x)
    BY DEF Dequeued, BatchTimes, SteerTimes
  <2>3. Times(b, x) \in Nat
    BY TimesBasics
  <2>4. BatchTimes(Append(deliveries, d), x) = BatchTimes(deliveries, x) + Times(b, x)
    BY <1>0, <1>3, BatchTimesAppend
  <2>5. SteerTimes(Joined(liveSteered, Steer(p[1], b)), x) = SteerTimes(liveSteered, x) + Times(b, x)
    BY <1>0, <1>1, SteerFacts
  <2>6. CASE p[2] = "loop"
    <3>1. /\ BatchTimes(deliveries', x) = BatchTimes(Append(deliveries, d), x)
          /\ SteerTimes(liveSteered', x) = SteerTimes(liveSteered, x)
      BY <1>4, <2>6
    <3> QED BY <2>1, <2>2, <2>3, <2>4, <3>1
  <2>7. CASE p[2] # "loop"
    BY <2>7, <1>4, <2>1, <2>2, <2>3, <2>5
  <2> QED BY <2>1, <2>3, <2>6, <2>7
<1>6. /\ Pipe(controller) \in Seq(Msg)
      /\ \A x : /\ Times(Pipe(controller), x) \in Nat
                /\ x \in ToSet(Pipe(controller)) <=> Times(Pipe(controller), x) > 0
                /\ x \in ToSet(b) <=> Times(b, x) > 0
                /\ Times(Pipe(controller)', x) = Times(Pipe(controller), x) + Times(b, x)
  <2>1. /\ Pipe(controller) \in Seq(Msg)
        /\ \A x : /\ Times(Pipe(controller), x) \in Nat
                  /\ x \in ToSet(Pipe(controller)) <=> Times(Pipe(controller), x) > 0
    BY <1>1, PipeFacts
  <2>2. \A x : /\ x \in ToSet(b) <=> Times(b, x) > 0
               /\ Times(Joined(Pipe(controller), b), x) = Times(Pipe(controller), x) + Times(b, x)
    BY <2>1, TimesMember, TimesJoined
  <2> QED BY <2>1, <2>2
\* A message of the batch is nowhere else.
<1>7. ASSUME NEW x \in Msg, Times(b, x) > 0
      PROVE  /\ Times(b, x) = 1 /\ Times(Pipe(controller), x) = 0 /\ Dequeued(x) = 0
             /\ x \notin taken
  <2>1. Copies(x) <= 1 /\ Counted(x) <= 1
    BY DEF Accounts
  <2>2. Copies(x) = Queued(x) + Dequeued(x) + recorded[x] + (IF x \in taken THEN 1 ELSE 0)
    BY DEF Copies
  <2>3. Counted(x) = Queued(x) + recorded[x] + Times(Pipe(controller), x)
    BY <1>1 DEF Counted
  <2>4. Queued(x)' \in Nat /\ Queued(x) = Queued(x)' + Times(b, x) /\ recorded[x] \in Nat
    BY <1>0
  <2>5. /\ Times(b, x) \in Nat /\ Times(b, x) > 0 /\ Dequeued(x) \in Nat
        /\ Times(Pipe(controller), x) \in Nat
    BY <1>5, <1>6, <1>7
  <2>6. Times(b, x) = 1 /\ Times(Pipe(controller), x) = 0
    BY <2>1, <2>3, <2>4, <2>5
  <2>7. Dequeued(x) = 0 /\ (IF x \in taken THEN 1 ELSE 0) = 0
    <3>1. (IF x \in taken THEN 1 ELSE 0) \in {0, 1}
      OBVIOUS
    <3> QED BY <2>1, <2>2, <2>4, <2>5, <3>1
  <2> QED BY <2>6, <2>7
<1>8. ASSUME NEW x \in Msg PROVE Times(b, x) <= 1
  <2>1. Times(b, x) \in Nat
    BY <1>5
  <2>2. Times(b, x) > 0 => Times(b, x) = 1
    BY <1>7
  <2> QED BY <2>1, <2>2
<1>9. ToSet(b) \subseteq Msg
  BY MembersFacts
<1>10. Owned'
  <2>1. ASSUME NEW c \in ToSet(deliveries)
        PROVE  c.run = controller /\ Ordered(Pipe(controller)', c.msgs)
    <3>1. c.run = controller /\ Ordered(Pipe(controller), c.msgs)
      BY DEF Owned
    <3>2. c.msgs \in Seq(Msg)
      <4>1. ToSet(deliveries) \subseteq Delivery
        BY <1>0, MembersFacts
      <4> QED BY <4>1 DEF Delivery
    <3>3. ToSet(b) \cap ToSet(c.msgs) = {}
      <4>1. SUFFICES ASSUME NEW x \in ToSet(b), x \in ToSet(c.msgs) PROVE FALSE
        OBVIOUS
      <4>2. x \in Msg /\ Dequeued(x) = 0
        BY <1>6, <1>7, <1>9
      <4>3. x \in MessagesOf(ToSet(deliveries))
        BY <4>1 DEF MessagesOf
      <4>4. Dequeued(x) > 0
        BY <4>3, DequeuedFacts
      <4> QED BY <4>2, <4>4
    <3> QED BY <1>6, <3>1, <3>2, <3>3, OrderedFollowed
  <2>2. Ordered(Pipe(controller)', b)
    <3>1. ToSet(Pipe(controller)) \cap ToSet(b) = {}
      <4>1. SUFFICES ASSUME NEW x \in ToSet(b), x \in ToSet(Pipe(controller)) PROVE FALSE
        OBVIOUS
      <4>2. x \in Msg /\ Times(b, x) > 0 /\ Times(Pipe(controller), x) > 0
        BY <1>6, <1>9, <4>1
      <4>3. Times(Pipe(controller), x) = 0
        BY <4>2, <1>7
      <4> QED BY <4>2, <4>3
    <3> QED BY <1>6, <1>8, <3>1, OrderedNew
  <2>3. \A c \in ToSet(deliveries') : c.run = controller /\ Ordered(Pipe(controller)', c.msgs)
    <3>1. CASE p[2] = "loop"
      <4>1. ToSet(Append(deliveries, d)) = ToSet(deliveries) \cup {d}
        BY <1>0, <1>3, MembersFacts
      <4>2. deliveries' = Append(deliveries, d)
        BY <1>4, <3>1
      <4> QED BY <1>3, <2>1, <2>2, <4>1, <4>2
    <3>2. CASE p[2] # "loop"
      BY <1>4, <2>1, <3>2
    <3> QED BY <3>1, <3>2
  <2>4. \A e \in ToSet(liveSteered') : e.run = controller
    <3>1. \A e \in ToSet(liveSteered) : e.run = controller
      BY DEF Owned
    <3>2. \A e \in ToSet(Joined(liveSteered, Steer(p[1], b))) : e \in ToSet(liveSteered) \/ e.run = p[1]
      BY <1>0, <1>1, SteerFacts
    <3> QED BY <1>4, <3>1, <3>2
  <2> QED BY <2>3, <2>4 DEF Owned
<1>11. Accounts'
  <2>1. ASSUME NEW x \in Msg
        PROVE  /\ Copies(x)' <= 1
               /\ Counted(x)' <= 1
               /\ x \notin Posted => Copies(x)' = 0 /\ Counted(x)' = 0
               /\ x \in Posted \ unrecoverable => Copies(x)' >= 1
               /\ withdrawn[x] # NoRun => x \in taken
               /\ controller \in Run /\ Times(Pipe(controller)', x) > 0 /\ x \in taken =>
                    withdrawn[x] = controller
    <3>1. /\ Copies(x) <= 1
          /\ Counted(x) <= 1
          /\ x \notin Posted => Copies(x) = 0 /\ Counted(x) = 0
          /\ x \in Posted \ unrecoverable => Copies(x) >= 1
          /\ withdrawn[x] # NoRun => x \in taken
          /\ controller \in Run /\ Times(Pipe(controller), x) > 0 /\ x \in taken =>
               withdrawn[x] = controller
      BY DEF Accounts
    <3>2. /\ recorded[x] \in Nat /\ Queued(x)' \in Nat /\ Queued(x) = Queued(x)' + Times(b, x)
          /\ Dequeued(x)' = Dequeued(x) + Times(b, x)
          /\ Dequeued(x) \in Nat /\ Times(b, x) \in Nat
          /\ Times(Pipe(controller), x) \in Nat
          /\ Times(Pipe(controller)', x) = Times(Pipe(controller), x) + Times(b, x)
      BY <1>0, <1>5, <1>6
    <3>3. /\ Copies(x) = Queued(x) + Dequeued(x) + recorded[x] + (IF x \in taken THEN 1 ELSE 0)
          /\ Copies(x)' = Queued(x)' + Dequeued(x)' + recorded[x] + (IF x \in taken THEN 1 ELSE 0)
      BY DEF Copies
    <3>4. /\ Counted(x) = Queued(x) + recorded[x] + Times(Pipe(controller), x)
          /\ Counted(x)' = Queued(x)' + recorded[x] + Times(Pipe(controller)', x)
      BY <1>1 DEF Counted
    <3>5. Copies(x)' = Copies(x)
      BY <3>2, <3>3
    <3>6. Counted(x)' = Counted(x)
      BY <3>2, <3>4
    <3>7. Times(Pipe(controller)', x) > 0 /\ x \in taken => Times(Pipe(controller), x) > 0
      BY <1>7, <3>2
    <3> QED BY <3>1, <3>5, <3>6, <3>7
  <2> QED BY <1>2, <2>1 DEF Accounts
<1>12. PostedSoFar'
  BY <1>2 DEF PostedSoFar
<1> QED BY <1>10, <1>11, <1>12
-----------------------------------------------------------------------------
(* Posts, and what clears everything *)

\* What is posted is finite.
LEMMA PostedFacts ==
  ASSUME TypeOK
  PROVE  Posted \subseteq Msg /\ Cardinality(Posted) \in Nat
<1>1. order["steering"] \in Seq(Msg) /\ order["followUp"] \in Seq(Msg)
  BY DEF TypeOK, Queue
<1>2. Posted \subseteq Msg
  BY <1>1, MembersFacts DEF Posted
<1>3. IsFiniteSet(Msg)
  BY BoundAssumption, FS_Interval DEF Msg
<1>4. IsFiniteSet(Posted)
  BY <1>2, <1>3, FS_Subset
<1> QED BY <1>2, <1>4, FS_CardinalityType

\* A posted message is new, and at the end of its queue.
LEMMA PostAccounts ==
  ASSUME IInv, NEW q \in Queue, Post(q)
  PROVE  Owned' /\ Accounts' /\ PostedSoFar'
<1> DEFINE n == Cardinality(Posted)
           m == n + 1
<1>0. TypeOK /\ Owned /\ Accounts /\ PostedSoFar
  BY DEF IInv
<1>1. /\ n < MaxMsg
      /\ queues' = [queues EXCEPT ![q] = Append(@, m)]
      /\ order' = [order EXCEPT ![q] = Append(@, m)]
      /\ UNCHANGED <<claims, deliveries, liveSteered, withdrawn, controller, stream, loop, live,
                     recorded, taken, unrecoverable>>
  BY DEF Post, runVars
<1>2. n \in Nat /\ Posted = 1..n
  BY <1>0, PostedFacts DEF PostedSoFar
<1>3. m \in Msg /\ m \notin Posted /\ 1..m = 1..n \cup {m} /\ m \in Nat
  BY <1>1, <1>2, BoundAssumption DEF Msg
<1> HIDE DEF n, m
<1>4. \A u \in Queue : order[u] \in Seq(Msg)
  BY <1>0 DEF TypeOK
<1>5. Posted' = Posted \cup {m}
  <2>1. ToSet(Append(order[q], m)) = ToSet(order[q]) \cup {m}
    BY <1>3, <1>4, MembersFacts
  <2>2. \A u \in Queue : order'[u] = IF u = q THEN Append(order[q], m) ELSE order[u]
    BY <1>0, <1>1 DEF TypeOK
  <2>3. CASE q = "steering"
    BY <2>1, <2>2, <2>3 DEF Posted, Queue
  <2>4. CASE q = "followUp"
    BY <2>1, <2>2, <2>4 DEF Posted, Queue
  <2> QED BY <2>3, <2>4 DEF Queue
<1>6. PostedSoFar'
  <2>1. Posted' = 1..m
    BY <1>2, <1>3, <1>5
  <2>2. Cardinality(1..m) = m
    BY <1>3, FS_Interval
  <2> QED BY <2>1, <2>2 DEF PostedSoFar
<1>7. \A x : Queued(x)' = Queued(x) + (IF x = m THEN 1 ELSE 0) /\ Queued(x) \in Nat
  <2>1. \A u \in Queue : Peek(u)' = IF u = q THEN Append(Peek(q), m) ELSE Peek(u)
    <3>1. \A u \in Queue : queues'[u] = IF u = q THEN Append(queues[q], m) ELSE queues[u]
      BY <1>0, <1>1 DEF TypeOK
    <3>2. Append(Joined(claims[q].msgs, queues[q]), m) = Joined(claims[q].msgs, Append(queues[q], m))
      BY <1>0, <1>3, QueueFacts, JoinedAppend
    <3>3. \A u \in Queue : Peek(u) = Joined(claims[u].msgs, queues[u])
      BY <1>0, QueueFacts
    <3>4. \A u \in Queue : Peek(u)' = Joined(claims[u].msgs, queues'[u])
      BY <1>1 DEF Peek, Joined
    <3> QED BY <3>1, <3>2, <3>3, <3>4
  <2>2. \A x : /\ Times(Append(Peek(q), m), x) = Times(Peek(q), x) + (IF m = x THEN 1 ELSE 0)
               /\ Times(Peek(q), x) \in Nat
    <3>1. Peek(q) \in Seq(Msg)
      BY <1>0, QueueFacts
    <3> QED BY <1>3, <3>1, TimesBasics
  <2> TAKE x
  <2>3. /\ Times(Peek("steering"), x) \in Nat /\ Times(Peek("followUp"), x) \in Nat
        /\ Queued(x) \in Nat
    BY <1>0, QueuedFacts
  <2>4. /\ Queued(x) = Times(Peek("steering"), x) + Times(Peek("followUp"), x)
        /\ Queued(x)' = Times(Peek("steering")', x) + Times(Peek("followUp")', x)
    BY DEF Queued
  <2>5. CASE q = "steering"
    <3>1. /\ Times(Peek("steering")', x) = Times(Peek("steering"), x) + (IF m = x THEN 1 ELSE 0)
          /\ Times(Peek("followUp")', x) = Times(Peek("followUp"), x)
      BY <2>1, <2>2, <2>5 DEF Queue
    <3> QED BY <2>3, <2>4, <3>1
  <2>6. CASE q = "followUp"
    <3>1. /\ Times(Peek("followUp")', x) = Times(Peek("followUp"), x) + (IF m = x THEN 1 ELSE 0)
          /\ Times(Peek("steering")', x) = Times(Peek("steering"), x)
      BY <2>1, <2>2, <2>6 DEF Queue
    <3> QED BY <2>3, <2>4, <3>1
  <2> QED BY <2>5, <2>6 DEF Queue
<1>8. Pipe(controller)' = Pipe(controller)
  BY <1>1 DEF Pipe
<1>9. Owned'
  BY <1>0, <1>1, <1>8 DEF Owned
<1>10. Accounts'
  <2>1. ASSUME NEW x \in Msg
        PROVE  /\ Copies(x)' <= 1
               /\ Counted(x)' <= 1
               /\ x \notin Posted' => Copies(x)' = 0 /\ Counted(x)' = 0
               /\ x \in Posted' \ unrecoverable => Copies(x)' >= 1
               /\ withdrawn[x] # NoRun => x \in taken
               /\ controller \in Run /\ Times(Pipe(controller), x) > 0 /\ x \in taken =>
                    withdrawn[x] = controller
    <3>1. /\ Copies(x) <= 1
          /\ Counted(x) <= 1
          /\ x \notin Posted => Copies(x) = 0 /\ Counted(x) = 0
          /\ x \in Posted \ unrecoverable => Copies(x) >= 1
          /\ withdrawn[x] # NoRun => x \in taken
          /\ controller \in Run /\ Times(Pipe(controller), x) > 0 /\ x \in taken =>
               withdrawn[x] = controller
      BY <1>0 DEF Accounts
    <3>2. /\ Queued(x)' = Queued(x) + (IF x = m THEN 1 ELSE 0) /\ Queued(x) \in Nat
          /\ recorded[x] \in Nat /\ Dequeued(x) \in Nat /\ Dequeued(x)' = Dequeued(x)
      BY <1>0, <1>1, <1>7, DequeuedFacts DEF TypeOK, Dequeued
    <3>3. /\ Copies(x) = Queued(x) + Dequeued(x) + recorded[x] + (IF x \in taken THEN 1 ELSE 0)
          /\ Copies(x)' = Queued(x)' + Dequeued(x)' + recorded[x] + (IF x \in taken THEN 1 ELSE 0)
      BY <1>1 DEF Copies
    <3>4. /\ Counted(x) = Queued(x) + recorded[x]
                            + IF controller \in Run THEN Times(Pipe(controller), x) ELSE 0
          /\ Counted(x)' = Queued(x)' + recorded[x]
                            + IF controller \in Run THEN Times(Pipe(controller), x) ELSE 0
      BY <1>1, <1>8 DEF Counted
    <3>5. controller \in Run => Times(Pipe(controller), x) \in Nat
      BY <1>0, PipeFacts
    <3>6. /\ Copies(x)' = Copies(x) + (IF x = m THEN 1 ELSE 0) /\ Copies(x) \in Nat
          /\ Counted(x)' = Counted(x) + (IF x = m THEN 1 ELSE 0) /\ Counted(x) \in Nat
      BY <3>2, <3>3, <3>4, <3>5
    <3>7. CASE x = m
      BY <1>3, <1>5, <3>1, <3>6, <3>7
    <3>8. CASE x # m
      BY <1>5, <3>1, <3>6, <3>8
    <3> QED BY <3>7, <3>8
  <2> QED BY <1>1, <1>8, <2>1 DEF Accounts
<1> QED BY <1>6, <1>9, <1>10

\* With no controller nothing is dequeued.
LEMMA NothingDequeued ==
  ASSUME TypeOK, Owned, controller = NoRun
  PROVE  ToSet(deliveries) = {} /\ ToSet(liveSteered) = {}
<1>1. ToSet(deliveries) \subseteq Delivery /\ ToSet(liveSteered) \subseteq Steering
  BY MembersFacts DEF TypeOK
<1>2. \A d \in ToSet(deliveries) : d.run = NoRun /\ d.run \in Run
  BY <1>1 DEF Owned, Delivery
<1>3. \A e \in ToSet(liveSteered) : e.run = NoRun /\ e.run \in Run
  BY <1>1 DEF Owned, Steering
<1> QED BY <1>2, <1>3, RunAssumption

\* A run begins with nothing to record.
LEMMA BeginAccounts ==
  ASSUME IInv, NEW r \in Run, NEW at \in {"open", "start"}, Begin(r, at)
  PROVE  Owned' /\ Accounts' /\ PostedSoFar'
<1>0. TypeOK /\ Owned /\ Accounts /\ PostedSoFar
  BY DEF IInv
<1>1. /\ controller = NoRun /\ controller' = r
      /\ withdrawn' = [m \in Msg |-> IF withdrawn[m] = r THEN NoRun ELSE withdrawn[m]]
      /\ loop' = [loop EXCEPT ![r] = [NewLoop EXCEPT !.at = at]]
      /\ stream' = [stream EXCEPT ![r] = <<>>]
      /\ UNCHANGED <<queues, claims, deliveries, liveSteered, recorded, order, taken,
                     unrecoverable>>
  BY DEF Begin, heldVars, histVars
<1>2. Posted' = Posted
  BY <1>1 DEF Posted
<1>3. Owned'
  BY <1>0, <1>1, NothingDequeued DEF Owned
<1>4. Pipe(r)' = <<>>
  <2>1. stream'[r] = <<>> /\ loop'[r].held = <<>> /\ loop'[r].at # "respond"
    BY <1>0, <1>1 DEF TypeOK, NewLoop
  <2>2. Joined(<<>>, <<>>) = <<>>
    BY EmptySeq, JoinedFacts
  <2> QED BY <2>1, <2>2 DEF Pipe
<1>5. Accounts'
  <2>1. ASSUME NEW x \in Msg
        PROVE  /\ Copies(x)' <= 1
               /\ Counted(x)' <= 1
               /\ x \notin Posted => Copies(x)' = 0 /\ Counted(x)' = 0
               /\ x \in Posted \ unrecoverable => Copies(x)' >= 1
               /\ withdrawn'[x] # NoRun => x \in taken
               /\ Times(Pipe(r)', x) = 0
    <3>1. /\ Copies(x) <= 1
          /\ Counted(x) <= 1
          /\ x \notin Posted => Copies(x) = 0 /\ Counted(x) = 0
          /\ x \in Posted \ unrecoverable => Copies(x) >= 1
          /\ withdrawn[x] # NoRun => x \in taken
      BY <1>0 DEF Accounts
    <3>2. Queued(x)' = Queued(x) /\ Copies(x)' = Copies(x)
      BY <1>1 DEF Queued, Peek, Copies, Dequeued
    <3>3. Times(Pipe(r)', x) = 0
      BY <1>4, EmptySeq, TimesBasics
    <3>4. /\ Counted(x)' = Queued(x) + recorded[x] + 0
          /\ Counted(x) = Queued(x) + recorded[x] + 0
      BY <1>1, <3>2, <3>3, RunAssumption DEF Counted
    <3>5. withdrawn'[x] # NoRun => withdrawn[x] # NoRun
      BY <1>1
    <3> QED BY <3>1, <3>2, <3>3, <3>4, <3>5
  <2>2. \A x \in Msg : ~(Times(Pipe(controller)', x) > 0)
    BY <1>1, <2>1
  <2> QED BY <1>1, <1>2, <2>1, <2>2 DEF Accounts
<1>6. PostedSoFar'
  BY <1>0, <1>2 DEF PostedSoFar
<1> QED BY <1>3, <1>5, <1>6

\* What is pending counts.
LEMMA PendingFacts ==
  ASSUME TypeOK, NEW x
  PROVE  x \in Pending <=> Queued(x) > 0 \/ Dequeued(x) > 0
<1>1. Queued(x) > 0 <=> \E q \in Queue : x \in ToSet(Peek(q))
  BY QueuedFacts
<1>2. Dequeued(x) > 0 <=> \/ x \in MessagesOf(ToSet(deliveries))
                          \/ x \in {e.msg : e \in ToSet(liveSteered)}
  BY DequeuedFacts
<1>3. x \in Pending <=> \/ \E q \in Queue : x \in ToSet(Peek(q))
                        \/ x \in MessagesOf(ToSet(deliveries))
                        \/ x \in {e.msg : e \in ToSet(liveSteered)}
  <2> DEFINE A == {ToSet(Peek(q)) : q \in Queue}
             B == MessagesOf(ToSet(deliveries))
             C == {e.msg : e \in ToSet(liveSteered)}
  <2>1. Pending = (UNION A) \cup B \cup C
    BY DEF Pending
  <2>2. x \in UNION A <=> \E q \in Queue : x \in ToSet(Peek(q))
    OBVIOUS
  <2> HIDE DEF A, B, C
  <2>3. x \in Pending <=> x \in UNION A \/ x \in B \/ x \in C
    BY <2>1
  <2>4. x \in Pending <=> (\E q \in Queue : x \in ToSet(Peek(q))) \/ x \in B \/ x \in C
    BY <2>2, <2>3
  <2> QED BY <2>4 DEF B, C
<1> QED BY <1>1, <1>2, <1>3

\* Nothing is left waiting.
LEMMA ClearedCounts ==
  ASSUME queues' = [q \in Queue |-> <<>>], claims' = [q \in Queue |-> NoClaim],
         deliveries' = <<>>, liveSteered' = <<>>
  PROVE  /\ \A x : Queued(x)' = 0 /\ Dequeued(x)' = 0
         /\ ToSet(deliveries') = {} /\ ToSet(liveSteered') = {}
<1>1. \A x : Times(<<>>, x) = 0
  BY EmptySeq, TimesBasics
<1>2. \A q \in Queue : Peek(q)' = <<>>
  <2>1. <<>> \o <<>> = <<>>
    BY EmptySeq, ConcatEmptySeq
  <2> QED BY <2>1 DEF Peek, NoClaim
<1>3. \A x : Queued(x)' = 0
  BY <1>1, <1>2 DEF Queued, Queue
<1>4. \A x : Dequeued(x)' = 0
  <2>1. \A x : BatchTimes(<<>>, x) = 0 /\ SteerTimes(<<>>, x) = 0
    BY NoBatch, NoSteering
  <2> QED BY <2>1 DEF Dequeued, BatchTimes, SteerTimes
<1>5. ToSet(<<>>) = {}
  BY EmptySeq, MembersFacts
<1> QED BY <1>3, <1>4, <1>5

\* Everything pending is given back: what the run has dequeued is marked, or there is no
\* run any more.
LEMMA ClearAccounts ==
  ASSUME TypeOK, Owned, Accounts, PostedSoFar,
         queues' = [q \in Queue |-> <<>>], claims' = [q \in Queue |-> NoClaim],
         deliveries' = <<>>, liveSteered' = <<>>,
         taken' = taken \union Pending,
         UNCHANGED <<recorded, order, unrecoverable>>,
         \A x \in Msg : withdrawn'[x] # NoRun => withdrawn[x] # NoRun \/ Dequeued(x) > 0,
         controller' \in Run => /\ controller' = controller
                                /\ Pipe(controller)' = Pipe(controller)
                                /\ \A x \in Msg :
                                     /\ Dequeued(x) > 0 => withdrawn'[x] = controller
                                     /\ withdrawn[x] = controller => withdrawn'[x] = controller
  PROVE  Owned' /\ Accounts' /\ PostedSoFar'
<1>1. /\ \A x : Queued(x)' = 0 /\ Dequeued(x)' = 0
      /\ ToSet(deliveries') = {} /\ ToSet(liveSteered') = {}
  BY ClearedCounts
<1>2. Owned'
  BY <1>1 DEF Owned
<1>3. Posted' = Posted
  BY DEF Posted
<1>4. PostedSoFar'
  BY <1>3 DEF PostedSoFar
<1>5. Accounts'
  <2>1. ASSUME NEW x \in Msg
        PROVE  /\ Copies(x)' <= 1
               /\ Counted(x)' <= 1
               /\ x \notin Posted => Copies(x)' = 0 /\ Counted(x)' = 0
               /\ x \in Posted \ unrecoverable => Copies(x)' >= 1
               /\ withdrawn'[x] # NoRun => x \in taken'
               /\ controller' \in Run /\ Times(Pipe(controller)', x) > 0 /\ x \in taken' =>
                    withdrawn'[x] = controller'
    <3>1. /\ Copies(x) <= 1
          /\ Counted(x) <= 1
          /\ x \notin Posted => Copies(x) = 0 /\ Counted(x) = 0
          /\ x \in Posted \ unrecoverable => Copies(x) >= 1
          /\ withdrawn[x] # NoRun => x \in taken
          /\ controller \in Run /\ Times(Pipe(controller), x) > 0 /\ x \in taken =>
               withdrawn[x] = controller
      BY DEF Accounts
    <3>2. Queued(x) \in Nat /\ Dequeued(x) \in Nat /\ recorded[x] \in Nat
      BY QueuedFacts, DequeuedFacts DEF TypeOK
    <3>3. x \in taken' <=> x \in taken \/ Queued(x) > 0 \/ Dequeued(x) > 0
      BY PendingFacts
    <3>4. /\ Copies(x) = Queued(x) + Dequeued(x) + recorded[x] + (IF x \in taken THEN 1 ELSE 0)
          /\ Copies(x)' = 0 + 0 + recorded[x] + (IF x \in taken' THEN 1 ELSE 0)
      BY <1>1 DEF Copies
    <3>5. controller \in Run => Times(Pipe(controller), x) \in Nat
      BY PipeFacts
    <3>6. /\ Counted(x) = Queued(x) + recorded[x]
                            + IF controller \in Run THEN Times(Pipe(controller), x) ELSE 0
          /\ Counted(x)' = 0 + recorded[x]
                            + IF controller' \in Run THEN Times(Pipe(controller)', x) ELSE 0
      BY <1>1 DEF Counted
    <3>7. /\ Copies(x)' <= 1
          /\ x \notin Posted => Copies(x)' = 0
          /\ x \in Posted \ unrecoverable => Copies(x)' >= 1
      <4>1. Copies(x)' = Copies(x)
        <5>1. CASE x \in taken
          BY <5>1, <3>1, <3>2, <3>3, <3>4
        <5>2. CASE x \notin taken
          BY <5>2, <3>1, <3>2, <3>3, <3>4
        <5> QED BY <5>1, <5>2
      <4> QED BY <3>1, <4>1
    <3>8. Counted(x)' <= Counted(x) /\ Counted(x)' \in Nat
      <4>1. CASE controller' \in Run
        BY <4>1, <3>2, <3>5, <3>6
      <4>2. CASE controller' \notin Run
        BY <4>2, <3>2, <3>5, <3>6
      <4> QED BY <4>1, <4>2
    <3>9. withdrawn'[x] # NoRun => x \in taken'
      BY <3>1, <3>3
    <3>10. ASSUME controller' \in Run, Times(Pipe(controller)', x) > 0, x \in taken'
           PROVE  withdrawn'[x] = controller'
      <4>1. /\ controller' = controller /\ controller \in Run
            /\ Times(Pipe(controller), x) > 0 /\ Times(Pipe(controller), x) \in Nat
        BY <3>5, <3>10
      <4>2. Queued(x) = 0
        BY <3>1, <3>2, <3>6, <4>1
      <4>3. x \in taken \/ Dequeued(x) > 0
        BY <3>3, <3>10, <4>2
      <4> QED BY <3>1, <4>1, <4>3
    <3>11. Counted(x)' <= 1 /\ (x \notin Posted => Counted(x)' = 0)
      <4>1. Counted(x) \in Nat
        BY <3>2, <3>5, <3>6
      <4> DEFINE c == Counted(x)
                 d == Counted(x)'
      <4>2. c \in Nat /\ d \in Nat /\ d <= c /\ c <= 1 /\ (x \notin Posted => c = 0)
        BY <3>1, <3>8, <4>1
      <4> HIDE DEF c, d
      <4>3. d <= 1 /\ (x \notin Posted => d = 0)
        BY <4>2
      <4> QED BY <4>3 DEF d
    <3> QED BY <3>7, <3>9, <3>10, <3>11
  <2> QED BY <1>3, <2>1 DEF Accounts
<1> QED BY <1>2, <1>4, <1>5

\* The marks of the interrupted run
LEMMA MarkedFacts ==
  ASSUME TypeOK, Owned, NEW x \in Msg
  PROVE  /\ Dequeued(x) > 0 => Marked[x] = controller /\ controller \in Run
         /\ Dequeued(x) = 0 => Marked[x] = withdrawn[x]
<1>0. deliveries \in Seq(Delivery) /\ liveSteered \in Seq(Steering)
  BY DEF TypeOK
<1>1. /\ Dequeued(x) = BatchTimes(deliveries, x) + SteerTimes(liveSteered, x)
      /\ BatchTimes(deliveries, x) \in Nat
      /\ BatchTimes(deliveries, x) > 0 <=> \E d \in ToSet(deliveries) : x \in ToSet(d.msgs)
      /\ SteerTimes(liveSteered, x) \in Nat
      /\ SteerTimes(liveSteered, x) > 0 <=> \E e \in ToSet(liveSteered) : e.msg = x
  BY <1>0, DequeuedFacts, BatchTimesMember, SteerTimesFacts
<1>2. /\ ToSet(deliveries) \subseteq Delivery /\ ToSet(liveSteered) \subseteq Steering
  BY <1>0, MembersFacts
<1>3. /\ \A d \in ToSet(deliveries) : d.run = controller /\ d.run \in Run
      /\ \A e \in ToSet(liveSteered) : e.run = controller /\ e.run \in Run
  BY <1>2 DEF Owned, Delivery, Steering
<1> DEFINE e0 == CHOOSE e \in ToSet(liveSteered) : e.msg = x
           d0 == CHOOSE d \in ToSet(deliveries) : x \in ToSet(d.msgs)
<1>4. (\E e \in ToSet(liveSteered) : e.msg = x) => e0 \in ToSet(liveSteered)
  OBVIOUS
<1>5. (\E d \in ToSet(deliveries) : x \in ToSet(d.msgs)) => d0 \in ToSet(deliveries)
  OBVIOUS
<1>6. Marked[x] = IF \E e \in ToSet(liveSteered) : e.msg = x THEN e0.run
                  ELSE IF \E d \in ToSet(deliveries) : x \in ToSet(d.msgs) THEN d0.run
                  ELSE withdrawn[x]
  BY DEF Marked
<1> HIDE DEF e0, d0
<1>7. Dequeued(x) > 0 <=> \/ \E d \in ToSet(deliveries) : x \in ToSet(d.msgs)
                          \/ \E e \in ToSet(liveSteered) : e.msg = x
  BY <1>1
<1>8. Dequeued(x) \in Nat
  BY <1>1
<1> QED BY <1>3, <1>4, <1>5, <1>6, <1>7, <1>8

\* clearQueue({ forInterrupt }) takes what is pending and marks what is dequeued.
LEMMA InterruptAccounts ==
  ASSUME IInv, ClearQueueForInterrupt
  PROVE  Owned' /\ Accounts' /\ PostedSoFar'
<1>0. TypeOK /\ Owned /\ Accounts /\ PostedSoFar
  BY DEF IInv
<1>1. /\ withdrawn' = Marked /\ liveSteered' = <<>> /\ deliveries' = <<>>
      /\ queues' = [q \in Queue |-> <<>>] /\ claims' = [q \in Queue |-> NoClaim]
      /\ taken' = taken \union Pending
      /\ UNCHANGED <<recorded, order, unrecoverable, controller, stream, loop, live>>
  BY DEF ClearQueueForInterrupt, runVars
<1>2. controller' = controller /\ Pipe(controller)' = Pipe(controller)
  BY <1>1 DEF Pipe
<1>3. ASSUME NEW x \in Msg
      PROVE  /\ Dequeued(x) > 0 => withdrawn'[x] = controller /\ controller \in Run
             /\ Dequeued(x) = 0 => withdrawn'[x] = withdrawn[x]
             /\ Dequeued(x) \in Nat
  BY <1>0, <1>1, MarkedFacts, DequeuedFacts
<1>4. \A x \in Msg : withdrawn'[x] # NoRun => withdrawn[x] # NoRun \/ Dequeued(x) > 0
  BY <1>3
<1>5. \A x \in Msg : /\ Dequeued(x) > 0 => withdrawn'[x] = controller
                     /\ withdrawn[x] = controller => withdrawn'[x] = controller
  BY <1>3
<1> QED BY <1>0, <1>1, <1>2, <1>4, <1>5, ClearAccounts

\* reset() takes what is pending and leaves no run in charge.
LEMMA ResetAccounts ==
  ASSUME IInv, Reset
  PROVE  Owned' /\ Accounts' /\ PostedSoFar'
<1>0. TypeOK /\ Owned /\ Accounts /\ PostedSoFar
  BY DEF IInv
<1>1. /\ controller' = NoRun /\ liveSteered' = <<>> /\ deliveries' = <<>>
      /\ queues' = [q \in Queue |-> <<>>] /\ claims' = [q \in Queue |-> NoClaim]
      /\ taken' = taken \union Pending
      /\ UNCHANGED <<recorded, order, unrecoverable, withdrawn>>
  BY DEF Reset
<1>2. controller' \notin Run
  BY <1>1, RunAssumption
<1> QED BY <1>0, <1>1, <1>2, ClearAccounts
-----------------------------------------------------------------------------
(* Queue edits *)

\* What a queue edit does to the queues and to the delivery records.
LEMMA ReplaceFacts ==
  ASSUME TypeOK, NEW Q \in SUBSET Queue, NEW new \in [Queue -> Seq(Msg)], Replace(Q, new)
  PROVE  LET S == {d \in ToSet(deliveries) : d.queue \in Q}
         IN /\ deliveries' = Without(deliveries, S)
            /\ \A d \in ToSet(deliveries) \cap S : ToSet(d.msgs) \subseteq unrecoverable'
            /\ unrecoverable \subseteq unrecoverable'
            /\ \A q \in Queue : Peek(q)' = IF q \in Q THEN new[q] ELSE Joined(claims[q].msgs, new[q])
<1> DEFINE S == {d \in ToSet(deliveries) : d.queue \in Q}
<1>1. /\ queues' = new
      /\ claims' = [q \in Queue |-> IF q \in Q THEN NoClaim ELSE claims[q]]
      /\ deliveries' = Without(deliveries, S)
      /\ unrecoverable' = unrecoverable \union MessagesOf(S)
  BY DEF Replace
<1>2. \A d \in ToSet(deliveries) \cap S : ToSet(d.msgs) \subseteq unrecoverable'
  <2> HIDE DEF S
  <2>1. \A d \in S : ToSet(d.msgs) \subseteq MessagesOf(S)
    BY DEF MessagesOf
  <2> QED BY <1>1, <2>1
<1>3. ASSUME NEW q \in Queue
      PROVE  Peek(q)' = IF q \in Q THEN new[q] ELSE Joined(claims[q].msgs, new[q])
  <2>1. Peek(q)' = Joined(claims'[q].msgs, new[q])
    BY <1>1 DEF Peek, Joined
  <2>2. claims'[q].msgs = IF q \in Q THEN <<>> ELSE claims[q].msgs
    BY <1>1 DEF NoClaim
  <2>3. Joined(<<>>, new[q]) = new[q]
    BY EmptySeq, JoinedFacts
  <2> QED BY <2>1, <2>2, <2>3
<1> QED BY <1>1, <1>2, <1>3

\* The same of an edit of one queue.
LEMMA ReplaceOneFacts ==
  ASSUME TypeOK, NEW f \in Queue, NEW new \in [Queue -> Seq(Msg)], Replace({f}, new)
  PROVE  LET S == {d \in ToSet(deliveries) : d.queue \in {f}}
         IN /\ deliveries' = Without(deliveries, S)
            /\ \A d \in ToSet(deliveries) \cap S : ToSet(d.msgs) \subseteq unrecoverable'
            /\ unrecoverable \subseteq unrecoverable'
            /\ \A q \in Queue : Peek(q)' = IF q = f THEN new[q] ELSE Joined(claims[q].msgs, new[q])
<1> DEFINE S == {d \in ToSet(deliveries) : d.queue \in {f}}
<1>1. {f} \in SUBSET Queue
  OBVIOUS
<1>2. /\ deliveries' = Without(deliveries, S)
      /\ \A d \in ToSet(deliveries) \cap S : ToSet(d.msgs) \subseteq unrecoverable'
      /\ unrecoverable \subseteq unrecoverable'
      /\ \A q \in Queue : Peek(q)' = IF q \in {f} THEN new[q] ELSE Joined(claims[q].msgs, new[q])
  BY <1>1, ReplaceFacts
<1> HIDE DEF S
<1>3. \A q \in Queue : q \in {f} <=> q = f
  OBVIOUS
<1>4. \A q \in Queue : Peek(q)' = IF q = f THEN new[q] ELSE Joined(claims[q].msgs, new[q])
  BY <1>2, <1>3
<1> QED BY <1>2, <1>4 DEF S

\* What is queued has been posted, once, and was not given back.
LEMMA QueuedOnce ==
  ASSUME TypeOK, Accounts, NEW x \in Msg, Queued(x) > 0
  PROVE  Queued(x) = 1 /\ x \notin taken /\ x \in Posted
<1>1. Copies(x) <= 1 /\ (x \notin Posted => Copies(x) = 0)
  BY DEF Accounts
<1>2. Queued(x) \in Nat /\ Dequeued(x) \in Nat /\ recorded[x] \in Nat
  BY QueuedFacts, DequeuedFacts DEF TypeOK
<1>3. Copies(x) = Queued(x) + Dequeued(x) + recorded[x] + (IF x \in taken THEN 1 ELSE 0)
  BY DEF Copies
<1>4. x \notin taken
  <2>1. SUFFICES ASSUME x \in taken PROVE FALSE
    OBVIOUS
  <2> QED BY <1>1, <1>2, <1>3, <2>1
<1>5. Queued(x) = 1 /\ Copies(x) # 0
  BY <1>1, <1>2, <1>3, <1>4
<1> QED BY <1>1, <1>4, <1>5

\* One message is given back to the user.
LEMMA GivenBack ==
  ASSUME TypeOK, Accounts, NEW m, taken' = taken \union {m},
         NEW x \in Msg, Queued(x)' \in Nat, Queued(x) = Queued(x)' + (IF m = x THEN 1 ELSE 0)
  PROVE  Queued(x) = Queued(x)' + (IF x \in taken' /\ x \notin taken THEN 1 ELSE 0)
<1>1. CASE m = x
  <2>1. Queued(x) > 0
    BY <1>1
  <2>2. x \notin taken /\ x \in taken'
    BY <1>1, <2>1, QueuedOnce
  <2> QED BY <1>1, <2>2
<1>2. CASE m # x
  <2>1. ~(x \in taken' /\ x \notin taken)
    BY <1>2
  <2> QED BY <1>2, <2>1
<1> QED BY <1>1, <1>2

\* takeQueuedMessage() moves one message from its queue to the editor.
LEMMA TakeAccounts ==
  ASSUME IInv, NEW q \in Queue, NEW i, TakeQueuedMessage(q, i)
  PROVE  Owned' /\ Accounts' /\ PostedSoFar'
<1> DEFINE new == [queues EXCEPT ![q] = RemoveAt(Peek(q), i)]
           S == {d \in ToSet(deliveries) : d.queue \in {q}}
           m == Peek(q)[i]
<1>0. TypeOK /\ Owned /\ Accounts /\ PostedSoFar
  BY DEF IInv
<1>1. /\ i \in DOMAIN Peek(q) /\ Replace({q}, new) /\ taken' = taken \union {m}
      /\ UNCHANGED <<liveSteered, withdrawn, runVars, recorded, order>>
  BY DEF TakeQueuedMessage
<1>2. /\ Peek(q) \in Seq(Msg)
      /\ RemoveAt(Peek(q), i) \in Seq(Msg)
      /\ \A x : /\ Times(Peek(q), x) = Times(RemoveAt(Peek(q), i), x) + (IF m = x THEN 1 ELSE 0)
                /\ Times(RemoveAt(Peek(q), i), x) \in Nat
  <2>1. Peek(q) \in Seq(Msg)
    BY <1>0, QueueFacts
  <2>2. RemoveAt(Peek(q), i) \in Seq(Msg)
    BY <1>1, <2>1, TimesRemoved
  <2> QED BY <1>1, <2>1, <2>2, TimesRemoved, TimesBasics
<1>3. /\ new \in [Queue -> Seq(Msg)]
      /\ \A u \in Queue : new[u] = IF u = q THEN RemoveAt(Peek(q), i) ELSE queues[u]
  BY <1>0, <1>2 DEF TypeOK
<1> HIDE DEF new, m
<1>4. /\ deliveries' = Without(deliveries, S)
      /\ \A d \in ToSet(deliveries) \cap S : ToSet(d.msgs) \subseteq unrecoverable'
      /\ unrecoverable \subseteq unrecoverable'
      /\ \A u \in Queue : Peek(u)' = IF u = q THEN new[u] ELSE Joined(claims[u].msgs, new[u])
  BY <1>0, <1>1, <1>3, ReplaceOneFacts
<1> HIDE DEF S
<1>5. \A u \in Queue : Peek(u)' = IF u = q THEN RemoveAt(Peek(q), i) ELSE Peek(u)
  BY <1>0, <1>3, <1>4, QueueFacts
<1>6. ASSUME NEW x \in Msg
      PROVE  /\ Queued(x)' \in Nat
             /\ Queued(x) = Queued(x)' + (IF m = x THEN 1 ELSE 0)
  <2>1. /\ Queued(x) = Times(Peek("steering"), x) + Times(Peek("followUp"), x)
        /\ Queued(x)' = Times(Peek("steering")', x) + Times(Peek("followUp")', x)
    BY DEF Queued
  <2>2. Times(Peek("steering"), x) \in Nat /\ Times(Peek("followUp"), x) \in Nat
    BY <1>0, QueuedFacts
  <2>3. CASE q = "steering"
    <3>1. /\ Times(Peek("steering"), x) = Times(Peek("steering")', x) + (IF m = x THEN 1 ELSE 0)
          /\ Times(Peek("steering")', x) \in Nat
          /\ Times(Peek("followUp")', x) = Times(Peek("followUp"), x)
      BY <1>2, <1>5, <2>3 DEF Queue
    <3> QED BY <2>1, <2>2, <3>1
  <2>4. CASE q = "followUp"
    <3>1. /\ Times(Peek("followUp"), x) = Times(Peek("followUp")', x) + (IF m = x THEN 1 ELSE 0)
          /\ Times(Peek("followUp")', x) \in Nat
          /\ Times(Peek("steering")', x) = Times(Peek("steering"), x)
      BY <1>2, <1>5, <2>4 DEF Queue
    <3> QED BY <2>1, <2>2, <3>1
  <2> QED BY <2>3, <2>4 DEF Queue
<1>7. \A x \in Msg : /\ Queued(x)' \in Nat
                     /\ Queued(x) = Queued(x)' + (IF x \in taken' /\ x \notin taken THEN 1 ELSE 0)
  BY <1>0, <1>1, <1>6, GivenBack
<1>8. Posted' = Posted /\ taken \subseteq taken'
  BY <1>1 DEF Posted
<1>9. UNCHANGED <<liveSteered, withdrawn, runVars, recorded>>
  BY <1>1
<1> QED BY <1>0, <1>4, <1>7, <1>8, <1>9, EditAccounts

\* So does popLastQueuedMessage().
LEMMA PopLastAccounts ==
  ASSUME IInv, PopLastQueuedMessage
  PROVE  Owned' /\ Accounts' /\ PostedSoFar'
<1>0. TypeOK /\ Owned /\ Accounts /\ PostedSoFar
  BY DEF IInv
<1>1. PICK q \in Queue :
        /\ Peek(q) # <<>>
        /\ Replace(Queue, [x \in Queue |-> IF x = q THEN Front(Peek(x)) ELSE Peek(x)])
        /\ taken' = taken \union {Last(Peek(q))}
  BY DEF PopLastQueuedMessage
<1>2. UNCHANGED <<liveSteered, withdrawn, runVars, recorded, order>>
  BY DEF PopLastQueuedMessage
<1> DEFINE new == [x \in Queue |-> IF x = q THEN Front(Peek(x)) ELSE Peek(x)]
           S == {d \in ToSet(deliveries) : d.queue \in Queue}
           m == Last(Peek(q))
<1>3. /\ Front(Peek(q)) \in Seq(Msg)
      /\ \A x : /\ Times(Peek(q), x) = Times(Front(Peek(q)), x) + (IF m = x THEN 1 ELSE 0)
                /\ Times(Front(Peek(q)), x) \in Nat
  <2>1. Peek(q) \in Seq(Msg)
    BY <1>0, QueueFacts
  <2>2. Front(Peek(q)) \in Seq(Msg)
    BY <1>1, <2>1, TimesFront
  <2> QED BY <1>1, <2>1, <2>2, TimesFront, TimesBasics
<1>4. /\ new \in [Queue -> Seq(Msg)]
      /\ \A u \in Queue : new[u] = IF u = q THEN Front(Peek(q)) ELSE Peek(u)
  <2>1. \A u \in Queue : Peek(u) \in Seq(Msg)
    BY <1>0, QueueFacts
  <2> QED BY <1>3, <2>1
<1>5. Replace(Queue, new)
  BY <1>1
<1> HIDE DEF new, m
<1>6. /\ deliveries' = Without(deliveries, S)
      /\ \A d \in ToSet(deliveries) \cap S : ToSet(d.msgs) \subseteq unrecoverable'
      /\ unrecoverable \subseteq unrecoverable'
      /\ \A u \in Queue : Peek(u)' = new[u]
  BY <1>0, <1>4, <1>5, ReplaceFacts
<1> HIDE DEF S
<1>7. \A u \in Queue : Peek(u)' = IF u = q THEN Front(Peek(q)) ELSE Peek(u)
  BY <1>4, <1>6
<1>8. ASSUME NEW x \in Msg
      PROVE  /\ Queued(x)' \in Nat
             /\ Queued(x) = Queued(x)' + (IF m = x THEN 1 ELSE 0)
  <2>1. /\ Queued(x) = Times(Peek("steering"), x) + Times(Peek("followUp"), x)
        /\ Queued(x)' = Times(Peek("steering")', x) + Times(Peek("followUp")', x)
    BY DEF Queued
  <2>2. Times(Peek("steering"), x) \in Nat /\ Times(Peek("followUp"), x) \in Nat
    BY <1>0, QueuedFacts
  <2>3. CASE q = "steering"
    <3>1. /\ Times(Peek("steering"), x) = Times(Peek("steering")', x) + (IF m = x THEN 1 ELSE 0)
          /\ Times(Peek("steering")', x) \in Nat
          /\ Times(Peek("followUp")', x) = Times(Peek("followUp"), x)
      BY <1>3, <1>7, <2>3 DEF Queue
    <3> QED BY <2>1, <2>2, <3>1
  <2>4. CASE q = "followUp"
    <3>1. /\ Times(Peek("followUp"), x) = Times(Peek("followUp")', x) + (IF m = x THEN 1 ELSE 0)
          /\ Times(Peek("followUp")', x) \in Nat
          /\ Times(Peek("steering")', x) = Times(Peek("steering"), x)
      BY <1>3, <1>7, <2>4 DEF Queue
    <3> QED BY <2>1, <2>2, <3>1
  <2> QED BY <2>3, <2>4 DEF Queue
<1>9. taken' = taken \union {m}
  BY <1>1 DEF m
<1>10. \A x \in Msg : /\ Queued(x)' \in Nat
                      /\ Queued(x) = Queued(x)' + (IF x \in taken' /\ x \notin taken THEN 1 ELSE 0)
  BY <1>0, <1>8, <1>9, GivenBack
<1>11. Posted' = Posted /\ taken \subseteq taken'
  BY <1>2, <1>9 DEF Posted
<1>12. UNCHANGED <<liveSteered, withdrawn, runVars, recorded>>
  BY <1>2
<1> QED BY <1>0, <1>6, <1>10, <1>11, <1>12, EditAccounts

\* A message appended to a queue is pending once more there.
LEMMA PeekAppend ==
  ASSUME TypeOK, NEW q \in Queue, NEW m \in Msg
  PROVE  Append(Peek(q), m) = Joined(claims[q].msgs, Append(queues[q], m))
BY QueueFacts, JoinedAppend

\* promoteQueuedMessage() moves one message from a queue to the other.
LEMMA PromoteAccounts ==
  ASSUME IInv, NEW i, PromoteQueuedMessage(i)
  PROVE  Owned' /\ Accounts' /\ PostedSoFar'
<1> DEFINE f == "followUp"
           m == Peek(f)[i]
           new == [q \in Queue |->
                     IF q = "steering" THEN Append(queues[q], m) ELSE RemoveAt(Peek(q), i)]
           S == {d \in ToSet(deliveries) : d.queue \in {f}}
<1>0. TypeOK /\ Owned /\ Accounts /\ PostedSoFar
  BY DEF IInv
<1>1. /\ i \in DOMAIN Peek(f)
      /\ Replace({f}, new)
      /\ order' = [q \in Queue |->
                     IF q = "steering" THEN Append(order[q], m) ELSE Without(order[q], {m})]
      /\ UNCHANGED <<liveSteered, withdrawn, runVars, recorded, taken>>
  BY DEF PromoteQueuedMessage
<1>2. /\ Peek(f) \in Seq(Msg) /\ RemoveAt(Peek(f), i) \in Seq(Msg) /\ m \in Msg
      /\ queues["steering"] \in Seq(Msg) /\ claims["steering"].msgs \in Seq(Msg)
      /\ Peek("steering") \in Seq(Msg)
      /\ Peek("steering") = Joined(claims["steering"].msgs, queues["steering"])
  <2>1. Peek(f) \in Seq(Msg)
    BY <1>0, QueueFacts DEF Queue
  <2>2. RemoveAt(Peek(f), i) \in Seq(Msg)
    BY <1>1, <2>1, TimesRemoved
  <2>3. m \in Msg
    BY <1>1, <2>1, ElementOfSeq, LenProperties
  <2> QED BY <1>0, <2>1, <2>2, <2>3, QueueFacts DEF Queue
<1>3. \A x : /\ Times(Peek(f), x) = Times(RemoveAt(Peek(f), i), x) + (IF m = x THEN 1 ELSE 0)
             /\ Times(RemoveAt(Peek(f), i), x) \in Nat
             /\ Times(Append(Peek("steering"), m), x) = Times(Peek("steering"), x) + (IF m = x THEN 1 ELSE 0)
             /\ Times(Peek("steering"), x) \in Nat
  BY <1>1, <1>2, TimesRemoved, TimesBasics
<1>4. m \in Posted
  <2>1. m \in ToSet(Peek(f))
    BY <1>1 DEF ToSet
  <2>2. Queued(m) > 0
    BY <1>0, <2>1, QueuedFacts DEF Queue
  <2> QED BY <1>0, <1>2, <2>2, QueuedOnce
<1>5. /\ new \in [Queue -> Seq(Msg)]
      /\ new["steering"] = Append(queues["steering"], m) /\ new[f] = RemoveAt(Peek(f), i)
  <2>1. Append(queues["steering"], m) \in Seq(Msg)
    BY <1>2, AppendProperties
  <2> QED BY <1>2, <2>1 DEF Queue
<1>f. f \in Queue /\ f = "followUp" /\ {f} \in SUBSET Queue
  BY DEF Queue
<1> HIDE DEF new, m, f
<1>6. /\ deliveries' = Without(deliveries, S)
      /\ \A d \in ToSet(deliveries) \cap S : ToSet(d.msgs) \subseteq unrecoverable'
      /\ unrecoverable \subseteq unrecoverable'
      /\ \A u \in Queue : Peek(u)' = IF u = f THEN new[u] ELSE Joined(claims[u].msgs, new[u])
  BY <1>0, <1>1, <1>5, <1>f, ReplaceOneFacts
<1> HIDE DEF S
<1>7. Peek(f)' = RemoveAt(Peek(f), i) /\ Peek("steering")' = Append(Peek("steering"), m)
  <2>1. Append(Peek("steering"), m) = Joined(claims["steering"].msgs, Append(queues["steering"], m))
    BY <1>0, <1>2, PeekAppend DEF Queue
  <2> QED BY <1>f, <1>2, <1>5, <1>6, <2>1 DEF Queue
<1>8. Posted' = Posted
  <2>1. order["steering"] \in Seq(Msg) /\ order[f] \in Seq(Msg)
    BY <1>0, <1>f DEF TypeOK, Queue
  <2>2. ToSet(Append(order["steering"], m)) = ToSet(order["steering"]) \cup {m}
    BY <1>2, <2>1, MembersFacts
  <2>3. ToSet(Without(order[f], {m})) = ToSet(order[f]) \ {m}
    BY <2>1, WithoutFacts
  <2>4. Posted' = ToSet(Append(order["steering"], m)) \cup ToSet(Without(order[f], {m}))
    BY <1>1, <1>f DEF Posted, Queue
  <2>5. Posted = ToSet(order["steering"]) \cup ToSet(order[f])
    BY <1>f DEF Posted
  <2> QED BY <1>4, <2>2, <2>3, <2>4, <2>5
<1>9. ASSUME NEW x \in Msg
      PROVE  /\ Queued(x)' \in Nat
             /\ Queued(x) = Queued(x)' + (IF x \in taken' /\ x \notin taken THEN 1 ELSE 0)
  <2>1. /\ Queued(x) = Times(Peek("steering"), x) + Times(Peek(f), x)
        /\ Queued(x)' = Times(Peek("steering")', x) + Times(Peek(f)', x)
    BY <1>f DEF Queued
  <2>2. ~(x \in taken' /\ x \notin taken)
    BY <1>1
  <2>3. /\ Times(Peek(f), x) = Times(Peek(f)', x) + (IF m = x THEN 1 ELSE 0)
        /\ Times(Peek(f)', x) \in Nat
        /\ Times(Peek("steering")', x) = Times(Peek("steering"), x) + (IF m = x THEN 1 ELSE 0)
        /\ Times(Peek("steering"), x) \in Nat
    BY <1>3, <1>7
  <2>4. Queued(x)' \in Nat /\ Queued(x) = Queued(x)' + 0
    BY <2>1, <2>3
  <2> QED BY <2>2, <2>4
<1>10. taken \subseteq taken' /\ UNCHANGED <<liveSteered, withdrawn, runVars, recorded>>
  BY <1>1
<1> QED BY <1>0, <1>6, <1>8, <1>9, <1>10, EditAccounts

\* clearQueue() gives all that is queued to the editor.
LEMMA ClearQueueAccounts ==
  ASSUME IInv, ClearQueue
  PROVE  Owned' /\ Accounts' /\ PostedSoFar'
<1> DEFINE new == [q \in Queue |-> <<>>]
           S == {d \in ToSet(deliveries) : d.queue \in Queue}
<1>0. TypeOK /\ Owned /\ Accounts /\ PostedSoFar
  BY DEF IInv
<1>1. /\ Replace(Queue, new)
      /\ taken' = taken \union UNION {ToSet(Peek(q)) : q \in Queue}
      /\ UNCHANGED <<liveSteered, withdrawn, runVars, recorded, order>>
  BY DEF ClearQueue
<1>2. new \in [Queue -> Seq(Msg)] /\ \A q \in Queue : new[q] = <<>>
  BY EmptySeq
<1> HIDE DEF new
<1>3. /\ deliveries' = Without(deliveries, S)
      /\ \A d \in ToSet(deliveries) \cap S : ToSet(d.msgs) \subseteq unrecoverable'
      /\ unrecoverable \subseteq unrecoverable'
      /\ \A u \in Queue : Peek(u)' = new[u]
  BY <1>0, <1>1, <1>2, ReplaceFacts
<1> HIDE DEF S
<1>4. ASSUME NEW x \in Msg
      PROVE  /\ Queued(x)' \in Nat
             /\ Queued(x) = Queued(x)' + (IF x \in taken' /\ x \notin taken THEN 1 ELSE 0)
  <2>1. Queued(x)' = 0
    <3>1. Peek("steering")' = <<>> /\ Peek("followUp")' = <<>>
      BY <1>2, <1>3 DEF Queue
    <3>2. Times(<<>>, x) = 0
      BY EmptySeq, TimesBasics
    <3> QED BY <3>1, <3>2 DEF Queued
  <2>2. Queued(x) \in Nat /\ (Queued(x) > 0 <=> \E q \in Queue : x \in ToSet(Peek(q)))
    BY <1>0, QueuedFacts
  <2>3. CASE Queued(x) > 0
    <3>1. Queued(x) = 1 /\ x \notin taken
      BY <1>0, <2>3, QueuedOnce
    <3>2. x \in taken'
      BY <1>1, <2>2, <2>3
    <3> QED BY <2>1, <3>1, <3>2
  <2>4. CASE ~(Queued(x) > 0)
    <3>1. ~(x \in taken' /\ x \notin taken)
      BY <1>1, <2>2, <2>4
    <3> QED BY <2>1, <2>2, <2>4, <3>1
  <2> QED BY <2>3, <2>4
<1>5. Posted' = Posted /\ taken \subseteq taken'
  BY <1>1 DEF Posted
<1>6. UNCHANGED <<liveSteered, withdrawn, runVars, recorded>>
  BY <1>1
<1> QED BY <1>0, <1>3, <1>4, <1>5, <1>6, EditAccounts
-----------------------------------------------------------------------------
(* Events that record nothing *)

\* The head of what is joined is the head of the first.
LEMMA JoinedTail ==
  ASSUME NEW X, NEW s \in Seq(X), NEW t \in Seq(X), s # <<>>
  PROVE  /\ Joined(s, t) # <<>> /\ Head(Joined(s, t)) = Head(s)
         /\ Tail(s) \in Seq(X) /\ Head(s) \in X
         /\ Tail(Joined(s, t)) = Joined(Tail(s), t)
<1> DEFINE u == Joined(s, t)
           v == Tail(u)
           w == Tail(s)
           z == Joined(w, t)
<1>1. /\ w \in Seq(X) /\ Len(s) \in Nat \ {0} /\ Len(w) = Len(s) - 1
      /\ \A i \in 1..Len(w) : w[i] = s[i + 1]
      /\ Head(s) \in X /\ Head(s) = s[1]
  BY HeadTailProperties, EmptySeq, LenProperties DEF Head
<1>2. Len(t) \in Nat
  BY LenProperties
<1>3. Joined(s, t) \in Seq(X)
  BY JoinedFacts
<1>4. Len(Joined(s, t)) = Len(s) + Len(t)
  BY JoinedFacts
<1>5. \A i \in 1..Len(s) : Joined(s, t)[i] = s[i]
  BY JoinedFacts
<1>6. \A i \in 1..Len(t) : Joined(s, t)[Len(s) + i] = t[i]
  BY JoinedFacts
<1>7. u \in Seq(X) /\ Len(u) = Len(s) + Len(t) /\ u # <<>> /\ u[1] = s[1]
  <2>1. u \in Seq(X) /\ Len(u) = Len(s) + Len(t) /\ u[1] = s[1]
    BY <1>1, <1>3, <1>4, <1>5
  <2> HIDE DEF u
  <2>2. u # <<>>
    BY <1>1, <1>2, <2>1, EmptySeq
  <2> QED BY <2>1, <2>2
<1>8. \A i \in 1..Len(t) : u[Len(s) + i] = t[i]
  BY <1>6
<1>9. \A i \in 1..Len(s) : u[i] = s[i]
  BY <1>5
<1> HIDE DEF u, w
<1>10. /\ v \in Seq(X) /\ Len(v) = Len(u) - 1 /\ \A i \in 1..Len(v) : v[i] = u[i + 1]
  BY <1>7, HeadTailProperties
<1>11. z \in Seq(X)
  BY <1>1, JoinedFacts
<1>12. Len(z) = Len(w) + Len(t)
  BY <1>1, JoinedFacts
<1>13. \A i \in 1..Len(w) : z[i] = w[i]
  BY <1>1, JoinedFacts
<1>14. \A i \in 1..Len(t) : z[Len(w) + i] = t[i]
  <2>1. w \in Seq(X)
    BY <1>1
  <2>2. \A i \in 1..Len(t) : Joined(w, t)[Len(w) + i] = t[i]
    BY <2>1, JoinedFacts
  <2> QED BY <2>2
<1> HIDE DEF v, z
<1>15. Len(v) = Len(z)
  BY <1>1, <1>2, <1>7, <1>10, <1>12
<1>16. ASSUME NEW i \in 1..Len(v) PROVE v[i] = z[i]
  <2>1. v[i] = u[i + 1] /\ Len(v) = (Len(s) - 1) + Len(t) /\ i \in Nat
    BY <1>1, <1>2, <1>7, <1>10
  <2>2. CASE i <= Len(w)
    <3>1. i \in 1..Len(w) /\ i + 1 \in 1..Len(s)
      BY <1>1, <2>1, <2>2
    <3> QED BY <1>1, <1>9, <1>13, <2>1, <3>1
  <2>3. CASE ~(i <= Len(w))
    <3> DEFINE k == i - Len(w)
    <3>1. k \in 1..Len(t) /\ i = Len(w) + k /\ i + 1 = Len(s) + k
      BY <1>1, <1>2, <2>1, <2>3
    <3> HIDE DEF k
    <3>2. u[Len(s) + k] = t[k] /\ z[Len(w) + k] = t[k]
      BY <1>8, <1>14, <3>1
    <3> QED BY <2>1, <3>1, <3>2
  <2> QED BY <2>2, <2>3
<1>17. v = z
  BY <1>10, <1>11, <1>15, <1>16, SeqEqual
<1>18. Head(u) = u[1]
  BY DEF Head
<1>19. Tail(u) = Joined(w, t)
  BY <1>17 DEF v, z
<1> QED BY <1>1, <1>7, <1>18, <1>19 DEF u, w

\* The event that leaves a pipe counts once.
LEMMA TailTimes ==
  ASSUME NEW X, NEW s \in Seq(X), s # <<>>, NEW x
  PROVE  /\ Times(s, x) = Times(Tail(s), x) + (IF Head(s) = x THEN 1 ELSE 0)
         /\ Times(Tail(s), x) \in Nat
<1>1. /\ Tail(s) \in Seq(X)
      /\ Times(s, x) = Times(Tail(s), x) + (IF Head(s) = x THEN 1 ELSE 0)
  BY TimesTail
<1> DEFINE t == Tail(s)
<1>2. t \in Seq(X)
  BY <1>1
<1> HIDE DEF t
<1>3. Times(t, x) \in Nat
  BY <1>2, TimesBasics
<1> QED BY <1>1, <1>3 DEF t

\* What the run records next is the head of its stream.
LEMMA PipeHead ==
  ASSUME TypeOK, NEW r \in Run, stream[r] # <<>>
  PROVE  /\ Pipe(r) # <<>> /\ Head(Pipe(r)) = Head(stream[r]) /\ Head(stream[r]) \in Msg
         /\ Tail(Pipe(r)) \in Seq(Msg)
         /\ UNCHANGED <<loop, live>> /\ stream' = [stream EXCEPT ![r] = Tail(@)] =>
              Pipe(r)' = Tail(Pipe(r))
<1> DEFINE T(l, v) == IF l.at = "respond"
                      THEN Joined(Joined(v.accepted, v.deferred), v.sent) ELSE <<>>
           t == T(loop[r], live[r])
           h == loop[r].held
           s == stream[r]
<1>1. s \in Seq(Msg) /\ h \in Seq(Msg) /\ s # <<>>
  BY PipeFacts
<1>2. t \in Seq(Msg)
  <2>1. Joined(live[r].accepted, live[r].deferred) \in Seq(Msg)
    BY PipeFacts, JoinedFacts
  <2>2. Joined(Joined(live[r].accepted, live[r].deferred), live[r].sent) \in Seq(Msg)
    BY <2>1, PipeFacts, JoinedFacts
  <2> QED BY <2>2, EmptySeq
<1>3. Pipe(r) = Joined(Joined(s, h), t)
  BY DEF Pipe
<1>4. UNCHANGED <<loop, live>> /\ stream' = [stream EXCEPT ![r] = Tail(@)] =>
        Pipe(r)' = Joined(Joined(Tail(s), h), t)
  <2>1. SUFFICES ASSUME UNCHANGED <<loop, live>>, stream' = [stream EXCEPT ![r] = Tail(@)]
                 PROVE  Pipe(r)' = Joined(Joined(Tail(s), h), t)
    OBVIOUS
  <2>2. stream'[r] = Tail(s)
    BY <2>1 DEF TypeOK
  <2> QED BY <2>1, <2>2 DEF Pipe
<1> HIDE DEF s, h, t
<1>5. /\ Joined(s, h) # <<>> /\ Head(Joined(s, h)) = Head(s)
      /\ Tail(s) \in Seq(Msg) /\ Head(s) \in Msg
      /\ Tail(Joined(s, h)) = Joined(Tail(s), h)
  BY <1>1, JoinedTail
<1>6. Joined(s, h) \in Seq(Msg)
  BY <1>1, JoinedFacts
<1>7. /\ Joined(Joined(s, h), t) # <<>> /\ Head(Joined(Joined(s, h), t)) = Head(Joined(s, h))
      /\ Tail(Joined(Joined(s, h), t)) = Joined(Tail(Joined(s, h)), t)
      /\ Tail(Joined(s, h)) \in Seq(Msg)
  BY <1>2, <1>5, <1>6, JoinedTail
<1>8. Joined(Tail(Joined(s, h)), t) \in Seq(Msg)
  BY <1>2, <1>7, JoinedFacts
<1> QED BY <1>3, <1>4, <1>5, <1>7, <1>8 DEF s

\* Nothing changes for the run in charge.
LEMMA StillAccounts ==
  ASSUME TypeOK, Owned, Accounts, PostedSoFar,
         \A q \in Queue : Peek(q)' = Peek(q),
         UNCHANGED <<deliveries, liveSteered, withdrawn, controller, recorded, order, taken,
                     unrecoverable>>,
         controller \in Run => Pipe(controller)' = Pipe(controller)
  PROVE  Owned' /\ Accounts' /\ PostedSoFar'
<1>1. controller \in Run => \E a, b \in Seq(Msg) : /\ Pipe(controller) = Joined(a, b)
                                                   /\ Pipe(controller)' = a
  <2>1. SUFFICES ASSUME controller \in Run
                 PROVE  \E a, b \in Seq(Msg) : /\ Pipe(controller) = Joined(a, b)
                                               /\ Pipe(controller)' = a
    OBVIOUS
  <2>2. Pipe(controller) \in Seq(Msg) /\ <<>> \in Seq(Msg)
    BY <2>1, PipeFacts, EmptySeq
  <2>3. Pipe(controller) = Joined(Pipe(controller), <<>>)
    BY <2>2, JoinedFacts
  <2> QED BY <2>1, <2>2, <2>3
<1> QED BY <1>1, QuietAccounts

\* What one event takes from what the run will record
LEMMA NextEvent ==
  ASSUME TypeOK, NEW r \in Run, controller = r, Consume(r)
  PROVE  LET h == Head(stream[r])
         IN /\ h \in Msg /\ Pipe(r) \in Seq(Msg) /\ Pipe(r) # <<>> /\ Head(Pipe(r)) = h
            /\ Pipe(r)' = Tail(Pipe(r))
            /\ \A x : /\ Times(Pipe(r), x) = Times(Pipe(r)', x) + (IF h = x THEN 1 ELSE 0)
                      /\ Times(Pipe(r)', x) \in Nat
<1>1. /\ stream[r] # <<>> /\ UNCHANGED <<loop, live>>
      /\ stream' = [stream EXCEPT ![r] = Tail(@)]
  BY DEF Consume
<1>2. /\ Pipe(r) # <<>> /\ Head(Pipe(r)) = Head(stream[r]) /\ Head(stream[r]) \in Msg
      /\ Tail(Pipe(r)) \in Seq(Msg)
      /\ Pipe(r)' = Tail(Pipe(r))
  BY <1>1, PipeHead
<1>3. Pipe(r) \in Seq(Msg)
  BY PipeFacts
<1>4. \A x : /\ Times(Pipe(r), x) = Times(Tail(Pipe(r)), x) + (IF Head(Pipe(r)) = x THEN 1 ELSE 0)
             /\ Times(Tail(Pipe(r)), x) \in Nat
  BY <1>2, <1>3, TailTimes
<1> QED BY <1>2, <1>3, <1>4

\* A withdrawn message is skipped: it was given back, and is pending nowhere.
LEMMA SkipAccounts ==
  ASSUME IInv, NEW r \in Run, controller = r, withdrawn[Head(stream[r])] = r, Consume(r)
  PROVE  Owned' /\ Accounts' /\ PostedSoFar'
<1> DEFINE h == Head(stream[r])
<1>0. TypeOK /\ Owned /\ Accounts /\ PostedSoFar
  BY DEF IInv
<1>1. /\ UNCHANGED <<queues, claims, deliveries, liveSteered, withdrawn, controller, recorded,
                     order, taken, unrecoverable>>
  BY DEF Consume, histVars
<1>2. /\ h \in Msg /\ Pipe(r) \in Seq(Msg) /\ Pipe(r) # <<>> /\ Head(Pipe(r)) = h
      /\ Pipe(r)' = Tail(Pipe(r))
      /\ \A x : /\ Times(Pipe(r), x) = Times(Pipe(r)', x) + (IF h = x THEN 1 ELSE 0)
                /\ Times(Pipe(r)', x) \in Nat
  BY <1>0, NextEvent
<1>3. withdrawn[h] = r
  OBVIOUS
<1> HIDE DEF h
<1>4. Dequeued(h) = 0
  <2>1. h \in taken /\ Copies(h) <= 1
    BY <1>0, <1>2, <1>3, RunAssumption DEF Accounts
  <2>2. Queued(h) \in Nat /\ Dequeued(h) \in Nat /\ recorded[h] \in Nat
    BY <1>0, <1>2, QueuedFacts, DequeuedFacts DEF TypeOK
  <2>3. Copies(h) = Queued(h) + Dequeued(h) + recorded[h] + 1
    BY <2>1 DEF Copies
  <2> QED BY <2>1, <2>2, <2>3
<1>5. Owned'
  <2>1. ASSUME NEW d \in ToSet(deliveries)
        PROVE  d.run = controller /\ Ordered(Pipe(r)', d.msgs)
    <3>1. d.run = controller /\ Ordered(Pipe(r), d.msgs)
      BY <1>0 DEF Owned
    <3>2. d.msgs \in Seq(Msg)
      <4>1. ToSet(deliveries) \subseteq Delivery
        BY <1>0, MembersFacts DEF TypeOK
      <4> QED BY <4>1 DEF Delivery
    <3>3. h \notin ToSet(d.msgs)
      <4>1. h \in ToSet(d.msgs) => h \in MessagesOf(ToSet(deliveries))
        BY DEF MessagesOf
      <4>2. h \notin MessagesOf(ToSet(deliveries))
        BY <1>0, <1>4, DequeuedFacts
      <4> QED BY <4>1, <4>2
    <3>4. Ordered(Tail(Pipe(r)), d.msgs)
      BY <1>2, <3>1, <3>2, <3>3, OrderedNext
    <3> QED BY <1>2, <3>1, <3>4
  <2> QED BY <1>0, <1>1, <2>1 DEF Owned
<1>6. Accounts'
  <2>1. ASSUME NEW x \in Msg
        PROVE  /\ Copies(x)' <= 1
               /\ Counted(x)' <= 1
               /\ x \notin Posted => Copies(x)' = 0 /\ Counted(x)' = 0
               /\ x \in Posted \ unrecoverable => Copies(x)' >= 1
               /\ withdrawn[x] # NoRun => x \in taken
               /\ Times(Pipe(r)', x) > 0 /\ x \in taken => withdrawn[x] = r
    <3>1. /\ Copies(x) <= 1
          /\ Counted(x) <= 1
          /\ x \notin Posted => Copies(x) = 0 /\ Counted(x) = 0
          /\ x \in Posted \ unrecoverable => Copies(x) >= 1
          /\ withdrawn[x] # NoRun => x \in taken
          /\ Times(Pipe(r), x) > 0 /\ x \in taken => withdrawn[x] = r
      BY <1>0 DEF Accounts
    <3>2. Queued(x)' = Queued(x) /\ Copies(x)' = Copies(x)
      BY <1>1 DEF Queued, Peek, Copies, Dequeued
    <3>3. /\ Counted(x) = Queued(x) + recorded[x] + Times(Pipe(r), x)
          /\ Counted(x)' = Queued(x) + recorded[x] + Times(Pipe(r)', x)
      BY <1>1, <3>2 DEF Counted
    <3>4. /\ Queued(x) \in Nat /\ recorded[x] \in Nat
          /\ Times(Pipe(r), x) = Times(Pipe(r)', x) + (IF h = x THEN 1 ELSE 0)
          /\ Times(Pipe(r)', x) \in Nat
      BY <1>0, <1>2, QueuedFacts DEF TypeOK
    <3>5. Counted(x)' <= Counted(x) /\ Counted(x)' \in Nat /\ Counted(x) \in Nat
      BY <3>3, <3>4
    <3>6. Counted(x)' <= 1 /\ (x \notin Posted => Counted(x)' = 0)
      BY <3>1, <3>5
    <3>7. Times(Pipe(r)', x) > 0 => Times(Pipe(r), x) > 0
      BY <3>4
    <3> QED BY <3>1, <3>2, <3>6, <3>7
  <2>2. Posted' = Posted
    BY <1>1 DEF Posted
  <2> QED BY <1>1, <2>1, <2>2 DEF Accounts
<1>7. PostedSoFar'
  BY <1>0, <1>1 DEF PostedSoFar, Posted
<1> QED BY <1>5, <1>6, <1>7

\* What a run records next is not given back, not queued and not recorded.
LEMMA NextIsNew ==
  ASSUME IInv, NEW r \in Run, controller = r, stream[r] # <<>>, withdrawn[Head(stream[r])] # r
  PROVE  LET h == Head(stream[r])
         IN /\ Queued(h) = 0 /\ recorded[h] = 0 /\ Times(Pipe(r), h) = 1
            /\ h \notin taken /\ h \in Posted /\ Dequeued(h) <= 1
<1> DEFINE h == Head(stream[r])
<1>0. TypeOK /\ Accounts
  BY DEF IInv
<1>1. h \in Msg /\ Pipe(r) \in Seq(Msg) /\ Times(Pipe(r), h) > 0
  <2>1. Pipe(r) # <<>> /\ Head(Pipe(r)) = h /\ h \in Msg
    BY <1>0, PipeHead
  <2>2. Pipe(r) \in Seq(Msg)
    BY <1>0, PipeFacts
  <2>3. /\ Times(Pipe(r), h) = Times(Tail(Pipe(r)), h) + 1
        /\ Times(Tail(Pipe(r)), h) \in Nat
    BY <2>1, <2>2, TailTimes
  <2> QED BY <2>1, <2>2, <2>3
<1>2. withdrawn[h] # r
  OBVIOUS
<1> HIDE DEF h
<1>3. /\ Copies(h) <= 1 /\ Counted(h) <= 1
      /\ h \notin Posted => Counted(h) = 0
      /\ h \notin taken
  BY <1>0, <1>1, <1>2 DEF Accounts
<1>4. /\ Queued(h) \in Nat /\ Dequeued(h) \in Nat /\ recorded[h] \in Nat
      /\ Times(Pipe(r), h) \in Nat
  BY <1>0, <1>1, QueuedFacts, DequeuedFacts, PipeFacts DEF TypeOK
<1>5. Counted(h) = Queued(h) + recorded[h] + Times(Pipe(r), h)
  BY DEF Counted
<1>6. Copies(h) = Queued(h) + Dequeued(h) + recorded[h] + 0
  BY <1>3 DEF Copies
<1>7. Queued(h) = 0 /\ recorded[h] = 0 /\ Times(Pipe(r), h) = 1 /\ Counted(h) = 1
  BY <1>1, <1>3, <1>4, <1>5
<1>8. Dequeued(h) <= 1
  BY <1>3, <1>4, <1>6, <1>7
<1> QED BY <1>3, <1>7, <1>8 DEF h
-----------------------------------------------------------------------------
(* Events that record a message *)

\* SteeredBut drops every entry of m, and only those.
LEMMA SteerTimesBut ==
  ASSUME liveSteered \in Seq(Steering), NEW m, NEW x
  PROVE  SteerTimes(SteeredBut(m), x) = IF x = m THEN 0 ELSE SteerTimes(liveSteered, x)
<1> DEFINE S == {e \in ToSet(liveSteered) : e.msg = m}
<1>1. \A e \in ToSet(liveSteered) : e \in S <=> e.msg = m
  OBVIOUS
<1>2. SteeredBut(m) = Without(liveSteered, S)
  BY DEF SteeredBut
<1> HIDE DEF S
<1> QED BY <1>1, <1>2, SteerTimesFacts

\* What appendMessage(h) leaves dequeued, when h is the next that the run records and is
\* dequeued once.
LEMMA AppendFacts ==
  ASSUME TypeOK, Owned, NEW h \in Msg, NEW p \in Seq(Msg), p # <<>>, Head(p) = h,
         controller \in Run, Pipe(controller) = p,
         Dequeued(h) <= 1, AppendMessage(h)
  PROVE  /\ Dequeued(h)' = 0
         /\ \A x : x # h => Dequeued(x)' = Dequeued(x)
         /\ \A d \in ToSet(deliveries') : d.run = controller /\ Ordered(Tail(p), d.msgs)
         /\ \A e \in ToSet(liveSteered') : e.run = controller
<1> DEFINE B(ds, x) == BatchTimes(ds, x)
           K(es, x) == SteerTimes(es, x)
           in == \E e \in ToSet(liveSteered) : e.msg = h
<1>0. deliveries \in Seq(Delivery) /\ liveSteered \in Seq(Steering)
  BY DEF TypeOK
<1>1. /\ liveSteered' = Without(liveSteered, {e \in ToSet(liveSteered) : e.msg = h})
      /\ in => deliveries' = deliveries
      /\ ~in => deliveries' = Left(deliveries, h)
  <2>1. Left(deliveries, h)
          = Without(Popped(deliveries, h), {d \in ToSet(Popped(deliveries, h)) : d.msgs = <<>>})
    BY <1>0, LeftIs
  <2> QED BY <2>1 DEF AppendMessage, SteeredBut
<1>2. \A x : /\ Dequeued(x) = B(deliveries, x) + K(liveSteered, x)
             /\ B(deliveries, x) \in Nat /\ K(liveSteered, x) \in Nat
  BY DequeuedFacts
<1>3. \A x : Dequeued(x)' = B(deliveries', x) + K(liveSteered', x)
  BY DEF Dequeued, BatchTimes, SteerTimes
<1>4. \A x : K(liveSteered', x) = IF x = h THEN 0 ELSE K(liveSteered, x)
  <2> TAKE x
  <2>1. SteerTimes(SteeredBut(h), x) = IF x = h THEN 0 ELSE SteerTimes(liveSteered, x)
    BY <1>0, SteerTimesBut
  <2>2. liveSteered' = SteeredBut(h)
    BY DEF AppendMessage
  <2> QED BY <2>1, <2>2
<1>5. in <=> K(liveSteered, h) > 0
  BY <1>0, SteerTimesFacts
<1>6. B(deliveries, h) > 0 <=> \E d \in ToSet(deliveries) : h \in ToSet(d.msgs)
  BY <1>0, BatchTimesMember
<1>7. \A x : /\ B(Left(deliveries, h), x) \in Nat
             /\ B(Left(deliveries, h), x) <= B(deliveries, x)
             /\ x # h => B(Left(deliveries, h), x) = B(deliveries, x)
  BY <1>0, LeftFacts
<1>8. (\E d \in ToSet(deliveries) : Head(d.msgs) = h) => B(Left(deliveries, h), h) < B(deliveries, h)
  BY <1>0, LeftFacts
<1>9. ASSUME NEW d \in ToSet(deliveries)
      PROVE  /\ d \in Delivery /\ d.msgs \in Seq(Msg) /\ d.msgs # <<>>
             /\ d.run = controller /\ Ordered(p, d.msgs)
             /\ h \in ToSet(d.msgs) => h = Head(d.msgs)
             /\ h \notin ToSet(d.msgs) => Ordered(Tail(p), d.msgs)
             /\ h = Head(d.msgs) => Ordered(Tail(p), Tail(d.msgs))
  <2>1. d \in Delivery /\ d.msgs \in Seq(Msg) /\ d.msgs # <<>>
    <3>1. ToSet(deliveries) \subseteq Delivery
      BY <1>0, MembersFacts
    <3> QED BY <3>1 DEF Delivery
  <2>2. d.run = controller /\ Ordered(p, d.msgs)
    BY DEF Owned
  <2> DEFINE b == d.msgs
  <2>3. /\ Head(p) \in ToSet(b) => Head(p) = Head(b)
        /\ Head(p) \notin ToSet(b) => Ordered(Tail(p), b)
        /\ b # <<>> /\ Head(p) = Head(b) => Ordered(Tail(p), Tail(b))
    <3>1. b \in Seq(Msg) /\ Ordered(p, b)
      BY <2>1, <2>2
    <3> HIDE DEF b
    <3> QED BY <3>1, OrderedNext
  <2> QED BY <2>1, <2>2, <2>3
<1>10. Dequeued(h)' = 0
  <2>1. Dequeued(h)' = B(deliveries', h) + 0
    BY <1>3, <1>4
  <2>2. CASE in
    <3>1. K(liveSteered, h) > 0
      BY <1>5, <2>2
    <3>2. B(deliveries, h) = 0
      BY <1>2, <3>1
    <3> QED BY <1>1, <2>1, <2>2, <3>2
  <2>3. CASE ~in
    <3>1. B(deliveries, h) <= 1 /\ B(deliveries, h) \in Nat
      <4>1. K(liveSteered, h) = 0
        BY <1>2, <1>5, <2>3
      <4> QED BY <1>2, <4>1
    <3>2. B(Left(deliveries, h), h) = 0
      <4>1. CASE B(deliveries, h) > 0
        <5>1. \E d \in ToSet(deliveries) : Head(d.msgs) = h
          BY <1>6, <1>9, <4>1
        <5>2. B(Left(deliveries, h), h) < B(deliveries, h) /\ B(Left(deliveries, h), h) \in Nat
          BY <1>7, <1>8, <5>1
        <5> QED BY <3>1, <5>2
      <4>2. CASE ~(B(deliveries, h) > 0)
        <5>1. B(Left(deliveries, h), h) <= B(deliveries, h) /\ B(Left(deliveries, h), h) \in Nat
          BY <1>7
        <5> QED BY <3>1, <4>2, <5>1
      <4> QED BY <4>1, <4>2
    <3> QED BY <1>1, <2>1, <2>3, <3>2
  <2> QED BY <2>2, <2>3
<1>11. ASSUME NEW x, x # h PROVE Dequeued(x)' = Dequeued(x)
  <2>1. B(deliveries', x) = B(deliveries, x)
    <3>1. B(Left(deliveries, h), x) = B(deliveries, x)
      BY <1>7, <1>11
    <3>2. CASE in
      BY <1>1, <3>2
    <3>3. CASE ~in
      BY <1>1, <3>1, <3>3
    <3> QED BY <3>2, <3>3
  <2>2. K(liveSteered', x) = K(liveSteered, x)
    BY <1>4, <1>11
  <2> QED BY <1>2, <1>3, <2>1, <2>2
<1>12. ASSUME NEW d \in ToSet(deliveries')
       PROVE  d.run = controller /\ Ordered(Tail(p), d.msgs)
  <2>1. CASE in
    <3>1. d \in ToSet(deliveries)
      BY <1>1, <2>1
    <3>2. h \notin ToSet(d.msgs)
      <4>1. K(liveSteered, h) > 0
        BY <1>5, <2>1
      <4>2. ~(B(deliveries, h) > 0)
        BY <1>2, <4>1
      <4> QED BY <1>6, <3>1, <4>2
    <3> QED BY <1>9, <3>1, <3>2
  <2>2. CASE ~in
    <3>1. \A e \in ToSet(Left(deliveries, h)) : \E c \in ToSet(deliveries) : e = Pop(c, h)
      BY <1>0, LeftFacts
    <3>2. PICK c \in ToSet(deliveries) : d = Pop(c, h)
      BY <1>1, <2>2, <3>1
    <3>3. /\ Pop(c, h).run = c.run
          /\ Pop(c, h).msgs = IF Head(c.msgs) = h THEN Tail(c.msgs) ELSE c.msgs
      BY <1>9, PopFacts
    <3>4. CASE Head(c.msgs) = h
      BY <1>9, <3>2, <3>3, <3>4
    <3>5. CASE Head(c.msgs) # h
      BY <1>9, <3>2, <3>3, <3>5
    <3> QED BY <3>4, <3>5
  <2> QED BY <2>1, <2>2
<1>13. \A e \in ToSet(liveSteered') : e.run = controller
  <2>1. ToSet(liveSteered') \subseteq ToSet(liveSteered)
    BY <1>0, <1>1, WithoutFacts
  <2> QED BY <2>1 DEF Owned
<1> QED BY <1>10, <1>11, <1>12, <1>13

\* The transcript has the message, and nothing else has it any more.
LEMMA RecordAccounts ==
  ASSUME IInv, NEW r \in Run, controller = r, withdrawn[Head(stream[r])] # r, Consume(r)
  PROVE  Owned' /\ Accounts' /\ PostedSoFar'
<1> PICK h : h = Head(stream[r])
  OBVIOUS
<1>0. TypeOK /\ Owned /\ Accounts /\ PostedSoFar
  BY DEF IInv
<1>1. /\ UNCHANGED <<queues, claims, withdrawn, controller, order, taken, unrecoverable>>
      /\ AppendMessage(h)
      /\ recorded' = [recorded EXCEPT ![h] = @ + 1]
      /\ stream[r] # <<>>
  BY DEF Consume, histVars, AppendMessage
<1>2. /\ h \in Msg /\ Pipe(r) \in Seq(Msg) /\ Pipe(r) # <<>> /\ Head(Pipe(r)) = h
      /\ Pipe(r)' = Tail(Pipe(r))
      /\ \A x : /\ Times(Pipe(r), x) = Times(Pipe(r)', x) + (IF h = x THEN 1 ELSE 0)
                /\ Times(Pipe(r)', x) \in Nat
  BY <1>0, NextEvent
<1>3. /\ Queued(h) = 0 /\ recorded[h] = 0 /\ Times(Pipe(r), h) = 1
      /\ h \notin taken /\ h \in Posted /\ Dequeued(h) <= 1
  BY <1>1, NextIsNew
<1>4. /\ Dequeued(h)' = 0
      /\ \A x : x # h => Dequeued(x)' = Dequeued(x)
      /\ \A d \in ToSet(deliveries') : d.run = controller /\ Ordered(Tail(Pipe(r)), d.msgs)
      /\ \A e \in ToSet(liveSteered') : e.run = controller
  <2>1. Pipe(controller) = Pipe(r) /\ controller \in Run
    OBVIOUS
  <2> QED BY <1>0, <1>1, <1>2, <1>3, <2>1, AppendFacts
<1>5. Owned'
  BY <1>1, <1>2, <1>4 DEF Owned
<1>6. \A x : Queued(x)' = Queued(x)
  BY <1>1 DEF Queued, Peek
<1>7. \A x \in Msg : recorded'[x] = recorded[x] + (IF h = x THEN 1 ELSE 0) /\ recorded[x] \in Nat
  BY <1>0, <1>1 DEF TypeOK
<1>8. ASSUME NEW x \in Msg
      PROVE  /\ Copies(x)' <= 1
             /\ Counted(x)' <= 1
             /\ x \notin Posted => Copies(x)' = 0 /\ Counted(x)' = 0
             /\ x \in Posted \ unrecoverable => Copies(x)' >= 1
             /\ withdrawn[x] # NoRun => x \in taken
             /\ Times(Pipe(r)', x) > 0 /\ x \in taken => withdrawn[x] = r
  <2>1. /\ Copies(x) <= 1
        /\ Counted(x) <= 1
        /\ x \notin Posted => Copies(x) = 0 /\ Counted(x) = 0
        /\ x \in Posted \ unrecoverable => Copies(x) >= 1
        /\ withdrawn[x] # NoRun => x \in taken
        /\ Times(Pipe(r), x) > 0 /\ x \in taken => withdrawn[x] = r
    BY <1>0 DEF Accounts
  <2>2. /\ Copies(x) = Queued(x) + Dequeued(x) + recorded[x] + (IF x \in taken THEN 1 ELSE 0)
        /\ Copies(x)' = Queued(x)' + Dequeued(x)' + recorded'[x] + (IF x \in taken' THEN 1 ELSE 0)
    BY DEF Copies
  <2>3. /\ Counted(x) = Queued(x) + recorded[x] + Times(Pipe(r), x)
        /\ Counted(x)' = Queued(x)' + recorded'[x] + Times(Pipe(r)', x)
    BY <1>1 DEF Counted
  <2>4. Times(Pipe(r), x) = Times(Pipe(r)', x) + (IF h = x THEN 1 ELSE 0) /\ Times(Pipe(r)', x) \in Nat
    BY <1>2
  <2>5. CASE x = h
    <3>1. /\ Queued(h)' = 0 /\ recorded'[h] = 1 /\ Dequeued(h)' = 0 /\ h \notin taken'
          /\ Times(Pipe(r)', h) = 0
      <4>1. Queued(h)' = 0 /\ recorded'[h] = 1 /\ Dequeued(h)' = 0 /\ h \notin taken'
        BY <1>1, <1>3, <1>4, <1>6, <1>7, <2>5
      <4>2. Times(Pipe(r)', h) = 0
        BY <1>3, <2>4, <2>5
      <4> QED BY <4>1, <4>2
    <3>2. Copies(h)' = 1 /\ Counted(h)' = 1
      BY <2>2, <2>3, <2>5, <3>1
    <3> QED BY <1>3, <2>1, <2>5, <3>1, <3>2
  <2>6. CASE x # h
    <3>1. /\ Queued(x)' = Queued(x) /\ recorded'[x] = recorded[x] /\ Dequeued(x)' = Dequeued(x)
          /\ (x \in taken' <=> x \in taken)
          /\ Times(Pipe(r)', x) = Times(Pipe(r), x)
      <4>1. Queued(x)' = Queued(x) /\ Dequeued(x)' = Dequeued(x) /\ (x \in taken' <=> x \in taken)
        BY <1>1, <1>4, <1>6, <2>6
      <4>2. recorded'[x] = recorded[x]
        BY <1>7, <2>6
      <4>3. Times(Pipe(r)', x) = Times(Pipe(r), x)
        BY <2>4, <2>6
      <4> QED BY <4>1, <4>2, <4>3
    <3>2. Copies(x)' = Copies(x) /\ Counted(x)' = Counted(x)
      BY <2>2, <2>3, <3>1
    <3> QED BY <2>1, <3>1, <3>2
  <2> QED BY <2>5, <2>6
<1>9. Posted' = Posted
  BY <1>1 DEF Posted
<1>10. Accounts'
  BY <1>1, <1>8, <1>9 DEF Accounts
<1>11. PostedSoFar'
  BY <1>0, <1>9 DEF PostedSoFar
<1> QED BY <1>5, <1>10, <1>11

\* Every case of Consume: a detached consumer, a withdrawn message, a recorded one.
LEMMA ConsumeAccounts ==
  ASSUME IInv, NEW r \in Run, Consume(r)
  PROVE  Owned' /\ Accounts' /\ PostedSoFar'
<1>0. TypeOK /\ Owned /\ Accounts /\ PostedSoFar
  BY DEF IInv
<1>1. CASE controller # r
  <2>1. /\ UNCHANGED <<queues, claims, deliveries, liveSteered, withdrawn, controller, recorded,
                       order, taken, unrecoverable, loop, live>>
        /\ stream' = [stream EXCEPT ![r] = <<>>]
    BY <1>1 DEF Consume, histVars
  <2>2. \A q \in Queue : Peek(q)' = Peek(q)
    BY <2>1 DEF Peek
  <2>3. controller \in Run => Pipe(controller)' = Pipe(controller)
    <3>1. controller \in Run => stream'[controller] = stream[controller]
      BY <1>0, <1>1, <2>1 DEF TypeOK
    <3> QED BY <2>1, <3>1 DEF Pipe
  <2> QED BY <1>0, <2>1, <2>2, <2>3, StillAccounts
<1>2. CASE controller = r
  BY <1>2, SkipAccounts, RecordAccounts
<1> QED BY <1>1, <1>2
-----------------------------------------------------------------------------
(* The end of a run *)

\* What goes back in front of the queues
LEMMA UndeliveredFacts ==
  ASSUME TypeOK, NEW r \in Run
  PROVE  /\ SteeredBy(r) \in Seq(Steering) /\ SteeredIn(SteeredBy(r)) \in Seq(Msg)
         /\ \A q \in Queue : /\ DequeuedBy(r, q) \in Seq(Delivery)
                             /\ MessagesIn(DequeuedBy(r, q)) \in Seq(Msg)
                             /\ Undelivered(q, r) \in Seq(Msg)
         /\ Undelivered("steering", r)
              = Joined(SteeredIn(SteeredBy(r)), MessagesIn(DequeuedBy(r, "steering")))
         /\ Undelivered("followUp", r) = MessagesIn(DequeuedBy(r, "followUp"))
<1>0. deliveries \in Seq(Delivery) /\ liveSteered \in Seq(Steering)
  BY DEF TypeOK
<1>1. SteeredBy(r) \in Seq(Steering)
  BY <1>0, WithoutFacts DEF SteeredBy
<1>2. SteeredIn(SteeredBy(r)) \in Seq(Msg)
  BY <1>1, SteerTimesFacts
<1>3. \A q \in Queue : DequeuedBy(r, q) \in Seq(Delivery)
  BY <1>0, WithoutFacts DEF DequeuedBy
<1>4. \A q \in Queue : MessagesIn(DequeuedBy(r, q)) \in Seq(Msg)
  BY <1>3, MessagesFacts
<1>5. /\ Undelivered("steering", r)
           = Joined(SteeredIn(SteeredBy(r)), MessagesIn(DequeuedBy(r, "steering")))
      /\ Undelivered("followUp", r) = Joined(<<>>, MessagesIn(DequeuedBy(r, "followUp")))
  BY DEF Undelivered, Joined
<1>6. MessagesIn(DequeuedBy(r, "followUp")) \in Seq(Msg)
  BY <1>4 DEF Queue
<1>7. Joined(<<>>, MessagesIn(DequeuedBy(r, "followUp"))) = MessagesIn(DequeuedBy(r, "followUp"))
  BY <1>6, JoinedFacts
<1>8. Undelivered("followUp", r) \in Seq(Msg)
  BY <1>5, <1>6, <1>7
<1>9. Undelivered("steering", r) \in Seq(Msg)
  <2>1. MessagesIn(DequeuedBy(r, "steering")) \in Seq(Msg)
    BY <1>4 DEF Queue
  <2> QED BY <1>2, <1>5, <2>1, JoinedFacts
<1> QED BY <1>1, <1>2, <1>3, <1>4, <1>5, <1>7, <1>8, <1>9 DEF Queue

\* A restored message counts in its queue again.
LEMMA RestoredCounts ==
  ASSUME TypeOK, NEW r \in Run, Finish(r), NEW x
  PROVE  /\ Times(Undelivered("steering", r), x) \in Nat /\ Times(Undelivered("followUp", r), x) \in Nat
         /\ Queued(x)' = Queued(x) + Times(Undelivered("steering", r), x)
                                   + Times(Undelivered("followUp", r), x)
<1>1. /\ queues' = [q \in Queue |-> Undelivered(q, r) \o queues[q]] /\ claims' = claims
  BY DEF Finish
<1>2. ASSUME NEW q \in Queue
      PROVE  /\ Times(Undelivered(q, r), x) \in Nat
             /\ Times(Peek(q)', x) = Times(Peek(q), x) + Times(Undelivered(q, r), x)
  <2> DEFINE u == Undelivered(q, r)
             c == claims[q].msgs
             w == queues[q]
  <2>1. u \in Seq(Msg)
    BY UndeliveredFacts
  <2>2. c \in Seq(Msg) /\ w \in Seq(Msg) /\ Times(Peek(q), x) = Times(c, x) + Times(w, x)
    BY QueueFacts
  <2>3. Peek(q)' = Joined(c, Joined(u, w))
    BY <1>1 DEF Peek, Joined
  <2> HIDE DEF u, c, w
  <2>4. Joined(u, w) \in Seq(Msg)
    BY <2>1, <2>2, JoinedFacts
  <2>5. Times(Joined(c, Joined(u, w)), x) = Times(c, x) + Times(Joined(u, w), x)
    BY <2>2, <2>4, TimesJoined
  <2>6. Times(Joined(u, w), x) = Times(u, x) + Times(w, x)
    BY <2>1, <2>2, TimesJoined
  <2>7. Times(u, x) \in Nat /\ Times(c, x) \in Nat /\ Times(w, x) \in Nat
    BY <2>1, <2>2, TimesBasics
  <2> QED BY <2>2, <2>3, <2>5, <2>6, <2>7 DEF u
<1>3. /\ Queued(x) = Times(Peek("steering"), x) + Times(Peek("followUp"), x)
      /\ Queued(x)' = Times(Peek("steering")', x) + Times(Peek("followUp")', x)
  BY DEF Queued
<1>4. Times(Peek("steering"), x) \in Nat /\ Times(Peek("followUp"), x) \in Nat
  BY QueuedFacts
<1>5. /\ Times(Undelivered("steering", r), x) \in Nat
      /\ Times(Peek("steering")', x) = Times(Peek("steering"), x) + Times(Undelivered("steering", r), x)
  BY <1>2 DEF Queue
<1>6. /\ Times(Undelivered("followUp", r), x) \in Nat
      /\ Times(Peek("followUp")', x) = Times(Peek("followUp"), x) + Times(Undelivered("followUp", r), x)
  BY <1>2 DEF Queue
<1> QED BY <1>3, <1>4, <1>5, <1>6

\* All that is dequeued goes back when the run in charge is over.
LEMMA AllRestored ==
  ASSUME TypeOK, Owned, NEW r \in Run, controller = r, Finish(r)
  PROVE  /\ deliveries' = <<>> /\ liveSteered' = <<>>
         /\ \A x : Dequeued(x) = Times(Undelivered("steering", r), x)
                                   + Times(Undelivered("followUp", r), x)
<1>0. deliveries \in Seq(Delivery) /\ liveSteered \in Seq(Steering)
  BY DEF TypeOK
<1>1. /\ \A d \in ToSet(deliveries) : d.run = r
      /\ \A e \in ToSet(liveSteered) : e.run = r
  BY DEF Owned
<1>2. \A d \in ToSet(deliveries) : d.queue \in Queue
  <2>1. ToSet(deliveries) \subseteq Delivery
    BY <1>0, MembersFacts
  <2> QED BY <2>1 DEF Delivery
<1>3. deliveries' = <<>>
  <2> DEFINE D == {d \in ToSet(deliveries) : d.run = r}
  <2>1. deliveries' = Without(deliveries, D) /\ ToSet(deliveries) \subseteq D
    BY <1>1 DEF Finish
  <2> HIDE DEF D
  <2> QED BY <1>0, <2>1, WithoutAllOrNothing
<1>4. liveSteered' = <<>>
  <2> DEFINE E == {e \in ToSet(liveSteered) : e.run = r}
  <2>1. liveSteered' = Without(liveSteered, E) /\ ToSet(liveSteered) \subseteq E
    BY <1>1 DEF Finish
  <2> HIDE DEF E
  <2> QED BY <1>0, <2>1, WithoutAllOrNothing
<1>5. SteeredBy(r) = liveSteered
  <2> DEFINE E == {e \in ToSet(liveSteered) : e.run # r}
  <2>1. SteeredBy(r) = Without(liveSteered, E) /\ ToSet(liveSteered) \cap E = {}
    BY <1>1 DEF SteeredBy
  <2> HIDE DEF E
  <2> QED BY <1>0, <2>1, WithoutAllOrNothing
<1>6. ASSUME NEW x
      PROVE  /\ BatchTimes(DequeuedBy(r, "steering"), x) \in Nat
             /\ BatchTimes(DequeuedBy(r, "followUp"), x) \in Nat
             /\ BatchTimes(DequeuedBy(r, "steering"), x) + BatchTimes(DequeuedBy(r, "followUp"), x)
                  = BatchTimes(deliveries, x)
  <2> DEFINE A == {d \in ToSet(deliveries) : d.run # r \/ d.queue # "steering"}
             B == {d \in ToSet(deliveries) : d.run # r \/ d.queue # "followUp"}
  <2>1. /\ DequeuedBy(r, "steering") = Without(deliveries, A)
        /\ DequeuedBy(r, "followUp") = Without(deliveries, B)
    BY DEF DequeuedBy
  <2>2. \A d \in ToSet(deliveries) : d \in A <=> d \notin B
    BY <1>1, <1>2 DEF Queue
  <2> HIDE DEF A, B
  <2> QED BY <1>0, <2>1, <2>2, BatchTimesSplit
<1>7. ASSUME NEW x
      PROVE  Dequeued(x) = Times(Undelivered("steering", r), x) + Times(Undelivered("followUp", r), x)
  <2> DEFINE s == SteeredIn(SteeredBy(r))
             t == MessagesIn(DequeuedBy(r, "steering"))
             f == MessagesIn(DequeuedBy(r, "followUp"))
  <2>1. s \in Seq(Msg) /\ t \in Seq(Msg)
    BY UndeliveredFacts DEF Queue
  <2>2. Undelivered("steering", r) = Joined(s, t) /\ Undelivered("followUp", r) = f
    BY UndeliveredFacts
  <2>3. Times(s, x) = SteerTimes(liveSteered, x)
    BY <1>5 DEF SteerTimes
  <2>4. /\ Times(t, x) = BatchTimes(DequeuedBy(r, "steering"), x)
        /\ Times(f, x) = BatchTimes(DequeuedBy(r, "followUp"), x)
    BY DEF BatchTimes
  <2> HIDE DEF s, t, f
  <2>5. Times(Joined(s, t), x) = Times(s, x) + Times(t, x)
    BY <2>1, TimesJoined
  <2>6. /\ Dequeued(x) = BatchTimes(deliveries, x) + SteerTimes(liveSteered, x)
        /\ BatchTimes(deliveries, x) \in Nat /\ SteerTimes(liveSteered, x) \in Nat
    BY DequeuedFacts
  <2> QED BY <1>6, <2>2, <2>3, <2>4, <2>5, <2>6
<1> QED BY <1>3, <1>4, <1>7

\* A run that is detached has dequeued nothing that it would return.
LEMMA FinishDetached ==
  ASSUME TypeOK, Owned, NEW r \in Run, controller # r, Finish(r)
  PROVE  /\ deliveries' = deliveries /\ liveSteered' = liveSteered /\ controller' = controller
         /\ \A q \in Queue : Peek(q)' = Peek(q)
         /\ controller \in Run => Pipe(controller)' = Pipe(controller)
<1>0. /\ queues' = [q \in Queue |-> Undelivered(q, r) \o queues[q]]
      /\ controller' = IF controller = r THEN NoRun ELSE controller
      /\ loop' = [loop EXCEPT ![r] = NewLoop]
      /\ UNCHANGED <<claims, live, stream>>
  BY DEF Finish
<1>1. deliveries' = deliveries
  <2> DEFINE D == {d \in ToSet(deliveries) : d.run = r}
  <2>1. deliveries' = Without(deliveries, D) /\ ToSet(deliveries) \cap D = {}
    BY DEF Finish, Owned
  <2>2. deliveries \in Seq(Delivery)
    BY DEF TypeOK
  <2> HIDE DEF D
  <2> QED BY <2>1, <2>2, WithoutAllOrNothing
<1>2. liveSteered' = liveSteered
  <2> DEFINE E == {e \in ToSet(liveSteered) : e.run = r}
  <2>1. liveSteered' = Without(liveSteered, E) /\ ToSet(liveSteered) \cap E = {}
    BY DEF Finish, Owned
  <2>2. liveSteered \in Seq(Steering)
    BY DEF TypeOK
  <2> HIDE DEF E
  <2> QED BY <2>1, <2>2, WithoutAllOrNothing
<1>3. SteeredBy(r) = <<>>
  <2> DEFINE E == {e \in ToSet(liveSteered) : e.run # r}
  <2>1. SteeredBy(r) = Without(liveSteered, E) /\ ToSet(liveSteered) \subseteq E
    BY DEF SteeredBy, Owned
  <2>2. liveSteered \in Seq(Steering)
    BY DEF TypeOK
  <2> HIDE DEF E
  <2> QED BY <2>1, <2>2, WithoutAllOrNothing
<1>4. \A q \in Queue : DequeuedBy(r, q) = <<>>
  <2> TAKE q \in Queue
  <2> DEFINE D == {d \in ToSet(deliveries) : d.run # r \/ d.queue # q}
  <2>1. DequeuedBy(r, q) = Without(deliveries, D) /\ ToSet(deliveries) \subseteq D
    BY DEF DequeuedBy, Owned
  <2>2. deliveries \in Seq(Delivery)
    BY DEF TypeOK
  <2> HIDE DEF D
  <2> QED BY <2>1, <2>2, WithoutAllOrNothing
<1>5. \A q \in Queue : Undelivered(q, r) = <<>>
  <2>1. SteeredIn(<<>>) = <<>>
    BY EmptySeq, LenProperties DEF SteeredIn
  <2>2. MessagesIn(<<>>) = <<>>
    BY EmptySeq, MessagesFacts
  <2>3. <<>> \o <<>> = <<>>
    BY EmptySeq, ConcatEmptySeq
  <2> QED BY <1>3, <1>4, <2>1, <2>2, <2>3 DEF Undelivered
<1>6. \A q \in Queue : Peek(q)' = Peek(q)
  <2> TAKE q \in Queue
  <2>1. queues'[q] = Joined(<<>>, queues[q])
    BY <1>0, <1>5 DEF Joined
  <2>2. queues[q] \in Seq(Msg)
    BY QueueFacts
  <2>3. Joined(<<>>, queues[q]) = queues[q]
    BY <2>2, JoinedFacts
  <2> QED BY <1>0, <2>1, <2>3 DEF Peek
<1>7. controller \in Run => Pipe(controller)' = Pipe(controller)
  <2>1. controller \in Run => loop'[controller] = loop[controller]
    BY <1>0 DEF TypeOK
  <2>2. controller' = controller
    BY <1>0
  <2> QED BY <1>0, <2>1, <2>2 DEF Pipe
<1>8. controller' = controller
  BY <1>0
<1> QED BY <1>1, <1>2, <1>6, <1>7, <1>8

\* What the run in charge dequeued and did not record is queued again; a detached run has nothing.
LEMMA FinishAccounts ==
  ASSUME IInv, NEW r \in Run, Finish(r)
  PROVE  Owned' /\ Accounts' /\ PostedSoFar'
<1>0. TypeOK /\ Owned /\ Accounts /\ PostedSoFar
  BY DEF IInv
<1>1. /\ queues' = [q \in Queue |-> Undelivered(q, r) \o queues[q]]
      /\ controller' = IF controller = r THEN NoRun ELSE controller
      /\ loop' = [loop EXCEPT ![r] = NewLoop]
      /\ UNCHANGED <<claims, withdrawn, live, stream, recorded, order, taken, unrecoverable>>
  BY DEF Finish
<1>2. Posted' = Posted
  BY <1>1 DEF Posted
<1>3. CASE controller # r
  <2>1. /\ deliveries' = deliveries /\ liveSteered' = liveSteered /\ controller' = controller
        /\ \A q \in Queue : Peek(q)' = Peek(q)
        /\ controller \in Run => Pipe(controller)' = Pipe(controller)
    BY <1>0, <1>3, FinishDetached
  <2> QED BY <1>0, <1>1, <2>1, StillAccounts
<1>4. CASE controller = r
  <2>1. /\ deliveries' = <<>> /\ liveSteered' = <<>>
        /\ \A x : Dequeued(x) = Times(Undelivered("steering", r), x)
                                  + Times(Undelivered("followUp", r), x)
    BY <1>0, <1>4, AllRestored
  <2>2. Owned'
    <3>1. ToSet(<<>>) = {}
      BY EmptySeq, MembersFacts
    <3> QED BY <2>1, <3>1 DEF Owned
  <2>3. \A x : Dequeued(x)' = 0
    <3>1. \A x : BatchTimes(<<>>, x) = 0 /\ SteerTimes(<<>>, x) = 0
      BY NoBatch, NoSteering
    <3> QED BY <2>1, <3>1 DEF Dequeued, BatchTimes, SteerTimes
  <2>4. controller' = NoRun /\ controller' \notin Run
    BY <1>1, <1>4, RunAssumption
  <2>5. ASSUME NEW x \in Msg
        PROVE  /\ Copies(x)' <= 1
               /\ Counted(x)' <= 1
               /\ x \notin Posted => Copies(x)' = 0 /\ Counted(x)' = 0
               /\ x \in Posted \ unrecoverable => Copies(x)' >= 1
               /\ withdrawn[x] # NoRun => x \in taken
    <3>1. /\ Copies(x) <= 1
          /\ x \notin Posted => Copies(x) = 0
          /\ x \in Posted \ unrecoverable => Copies(x) >= 1
          /\ withdrawn[x] # NoRun => x \in taken
      BY <1>0 DEF Accounts
    <3>2. Queued(x) \in Nat /\ Dequeued(x) \in Nat /\ recorded[x] \in Nat
      BY <1>0, QueuedFacts, DequeuedFacts DEF TypeOK
    <3>3. Queued(x)' = Queued(x) + Dequeued(x)
      <4>1. /\ Times(Undelivered("steering", r), x) \in Nat /\ Times(Undelivered("followUp", r), x) \in Nat
            /\ Queued(x)' = Queued(x) + Times(Undelivered("steering", r), x)
                                      + Times(Undelivered("followUp", r), x)
        BY <1>0, RestoredCounts
      <4> QED BY <2>1, <3>2, <4>1
    <3>4. /\ Copies(x) = Queued(x) + Dequeued(x) + recorded[x] + (IF x \in taken THEN 1 ELSE 0)
          /\ Copies(x)' = Queued(x)' + 0 + recorded[x] + (IF x \in taken THEN 1 ELSE 0)
      BY <1>1, <2>3 DEF Copies
    <3>5. Counted(x)' = Queued(x)' + recorded[x] + 0
      BY <1>1, <2>4 DEF Counted
    <3>6. Copies(x)' = Copies(x) /\ Counted(x)' <= Copies(x) /\ Counted(x)' \in Nat /\ Copies(x) \in Nat
      BY <3>2, <3>3, <3>4, <3>5
    <3>7. Counted(x)' <= 1 /\ (x \notin Posted => Counted(x)' = 0)
      BY <3>1, <3>6
    <3> QED BY <3>1, <3>6, <3>7
  <2>6. Accounts'
    BY <1>1, <1>2, <2>4, <2>5 DEF Accounts
  <2>7. PostedSoFar'
    BY <1>0, <1>2 DEF PostedSoFar
  <2> QED BY <2>2, <2>6, <2>7
<1> QED BY <1>3, <1>4
-----------------------------------------------------------------------------
(* What a run will record as it goes on *)

\* Concatenation is associative, with four parts.
LEMMA JoinedAssoc ==
  ASSUME NEW X, NEW s \in Seq(X), NEW t \in Seq(X), NEW u \in Seq(X)
  PROVE  Joined(Joined(s, t), u) = Joined(s, Joined(t, u))
BY JoinedFacts

\* A run at a boundary or between two calls has nothing but its stream and what it holds.
LEMMA PipeBetween ==
  ASSUME TypeOK, NEW r \in Run, loop[r].at # "respond"
  PROVE  Pipe(r) = Joined(stream[r], loop[r].held)
<1>1. stream[r] \in Seq(Msg) /\ loop[r].held \in Seq(Msg)
  BY PipeFacts
<1>2. Joined(stream[r], loop[r].held) \in Seq(Msg)
  BY <1>1, JoinedFacts
<1>3. Joined(Joined(stream[r], loop[r].held), <<>>) = Joined(stream[r], loop[r].held)
  BY <1>2, JoinedFacts
<1> QED BY <1>3 DEF Pipe

\* What it becomes there
LEMMA PipeBecomes ==
  ASSUME NEW r \in Run, NEW s \in Seq(Msg), NEW h \in Seq(Msg),
         stream'[r] = s, loop'[r].held = h, loop'[r].at # "respond"
  PROVE  Pipe(r)' = Joined(s, h)
<1>1. Joined(s, h) \in Seq(Msg)
  BY JoinedFacts
<1>2. Joined(Joined(s, h), <<>>) = Joined(s, h)
  BY <1>1, JoinedFacts
<1>3. Pipe(r)' = Joined(Joined(s, h), <<>>)
  BY DEF Pipe
<1> QED BY <1>2, <1>3

\* Another run's is its own.
LEMMA PipeOther ==
  ASSUME NEW r \in Run, stream'[r] = stream[r], loop'[r] = loop[r], live'[r] = live[r]
  PROVE  Pipe(r)' = Pipe(r)
BY DEF Pipe

\* Where the loop goes with a batch, it holds the batch.
LEMMA AfterPollFacts ==
  ASSUME NEW l \in Loop, LoopPhase(l), l.at \in PollSites, NEW b \in Seq(Msg)
  PROVE  /\ AfterPoll(l, b) \in Loop /\ LoopPhase(AfterPoll(l, b))
         /\ AfterPoll(l, b).held = Joined(l.held, b)
         /\ AfterPoll(l, b).at \notin {"unused", "respond"}
<1> DEFINE held == Joined(l.held, b)
           turn == [l EXCEPT !.at = "turn", !.held = held]
           full == [turn EXCEPT !.opening = Len(b)]
<1>1. /\ l.at \in LoopAt /\ l.held \in Seq(Msg) /\ l.opening \in Nat /\ l.more \in BOOLEAN
      /\ l = [at |-> l.at, held |-> l.held, opening |-> l.opening, more |-> l.more]
  BY DEF Loop
<1>2. held \in Seq(Msg) /\ Len(held) = Len(l.held) + Len(b)
  BY <1>1, JoinedFacts
<1>3. Len(l.held) \in Nat /\ Len(b) \in Nat /\ Len(<<>>) = 0
  BY <1>1, LenProperties, EmptySeq
<1>4. /\ l.opening <= Len(l.held)
      /\ l.at \in {"open", "openFollow"} => l.held = <<>>
  BY DEF LoopPhase
<1>5. b = <<>> => held = l.held
  BY <1>1, JoinedFacts
<1>6. held = <<>> => l.held = <<>>
  <2> HIDE DEF held
  <2> QED BY <1>1, <1>2, <1>3, EmptySeq
<1>7. l.held = <<>> => held = b
  BY JoinedFacts
<1>8. AfterPoll(l, b) =
        CASE l.at = "open" ->
               IF b # <<>> THEN full ELSE [l EXCEPT !.at = "openFollow"]
          [] l.at = "openFollow" ->
               IF b # <<>> THEN [l EXCEPT !.at = "start", !.held = b, !.opening = Len(b)]
               ELSE [l EXCEPT !.at = "ended"]
          [] l.at = "start" -> turn
          [] l.at = "boundary" ->
               IF l.more \/ held # <<>> THEN turn ELSE [l EXCEPT !.at = "late"]
          [] l.at = "late" -> [l EXCEPT !.at = "follow", !.held = held]
          [] l.at = "follow" ->
               IF held # <<>> THEN turn ELSE [l EXCEPT !.at = "ended"]
  BY DEF AfterPoll, Joined
<1> HIDE DEF held
<1>9. /\ turn \in Loop /\ turn.held = held /\ turn.at = "turn" /\ turn.opening = l.opening
      /\ full \in Loop /\ full.held = held /\ full.at = "turn" /\ full.opening = Len(b)
  BY <1>1, <1>2, <1>3 DEF Loop, LoopAt
<1> HIDE DEF turn, full
<1>10. LoopPhase(turn) /\ LoopPhase(full)
  <2>1. l.opening <= Len(held) /\ Len(b) <= Len(held)
    BY <1>1, <1>2, <1>3, <1>4
  <2>2. turn.opening <= Len(turn.held) /\ full.opening <= Len(full.held)
    BY <1>9, <2>1
  <2> QED BY <1>9, <2>2 DEF LoopPhase
<1> DEFINE a == AfterPoll(l, b)
           Good(x) == /\ x \in Loop /\ LoopPhase(x) /\ x.held = held
                      /\ x.at \notin {"unused", "respond"}
<1>11. Good(turn) /\ Good(full)
  BY <1>9, <1>10
<1>12. ASSUME NEW at \in {"openFollow", "ended", "late"}, l.held = <<>>, held = <<>>
       PROVE  Good([l EXCEPT !.at = at])
  BY <1>1, <1>2, <1>3, <1>4, <1>12 DEF Loop, LoopAt, PollSites, LoopPhase
<1>13. Good(a)
  <2>1. CASE l.at = "open"
    <3>1. CASE b # <<>>
      <4>1. a = full
        BY <1>8, <2>1, <3>1
      <4> QED BY <1>11, <4>1
    <3>2. CASE b = <<>>
      <4>1. a = [l EXCEPT !.at = "openFollow"]
        BY <1>8, <2>1, <3>2
      <4>2. l.held = <<>> /\ held = <<>>
        BY <1>4, <1>5, <2>1, <3>2
      <4> HIDE DEF a, Good
      <4> QED BY <1>12, <4>1, <4>2
    <3> QED BY <3>1, <3>2
  <2>2. CASE l.at = "openFollow"
    <3>1. CASE b # <<>>
      <4>1. a = [l EXCEPT !.at = "start", !.held = b, !.opening = Len(b)]
        BY <1>8, <2>2, <3>1
      <4>2. held = b
        BY <1>4, <1>7, <2>2
      <4> HIDE DEF a
      <4>3. /\ a \in Loop /\ a.held = held /\ a.at = "start" /\ a.opening = Len(b)
        BY <1>1, <1>3, <4>1, <4>2 DEF Loop, LoopAt, PollSites
      <4>4. a.opening <= Len(a.held)
        BY <1>3, <4>2, <4>3
      <4>5. LoopPhase(a)
        BY <4>3, <4>4 DEF LoopPhase
      <4> QED BY <4>3, <4>5
    <3>2. CASE b = <<>>
      <4>1. a = [l EXCEPT !.at = "ended"]
        BY <1>8, <2>2, <3>2
      <4>2. l.held = <<>> /\ held = <<>>
        BY <1>4, <1>5, <2>2, <3>2
      <4> HIDE DEF a, Good
      <4> QED BY <1>12, <4>1, <4>2
    <3> QED BY <3>1, <3>2
  <2>3. CASE l.at = "start"
    <3>1. a = turn
      BY <1>8, <2>3
    <3> QED BY <1>11, <3>1
  <2>4. CASE l.at = "boundary"
    <3>1. CASE l.more \/ held # <<>>
      <4>1. a = turn
        BY <1>8, <2>4, <3>1
      <4> QED BY <1>11, <4>1
    <3>2. CASE ~(l.more \/ held # <<>>)
      <4>1. a = [l EXCEPT !.at = "late"]
        BY <1>8, <2>4, <3>2
      <4>2. l.held = <<>> /\ held = <<>>
        BY <1>6, <3>2
      <4> HIDE DEF a, Good
      <4> QED BY <1>12, <4>1, <4>2
    <3> QED BY <3>1, <3>2
  <2>5. CASE l.at = "late"
    <3>1. a = [l EXCEPT !.at = "follow", !.held = held]
      BY <1>8, <2>5
    <3> HIDE DEF a
    <3>2. /\ a \in Loop /\ a.held = held /\ a.at = "follow" /\ a.opening = l.opening
      BY <1>1, <1>2, <3>1 DEF Loop, LoopAt, PollSites
    <3>3. a.opening <= Len(a.held)
      BY <1>1, <1>2, <1>3, <1>4, <3>2
    <3>4. LoopPhase(a)
      BY <3>2, <3>3 DEF LoopPhase
    <3> QED BY <3>2, <3>4
  <2>6. CASE l.at = "follow"
    <3>1. CASE held # <<>>
      <4>1. a = turn
        BY <1>8, <2>6, <3>1
      <4> QED BY <1>11, <4>1
    <3>2. CASE held = <<>>
      <4>1. a = [l EXCEPT !.at = "ended"]
        BY <1>8, <2>6, <3>2
      <4>2. l.held = <<>> /\ held = <<>>
        BY <1>6, <3>2
      <4> HIDE DEF a, Good
      <4> QED BY <1>12, <4>1, <4>2
    <3> QED BY <3>1, <3>2
  <2> QED BY <2>1, <2>2, <2>3, <2>4, <2>5, <2>6 DEF PollSites
<1> QED BY <1>13 DEF held

\* A dequeuer
LEMMA ProcFacts ==
  ASSUME NEW p \in Proc
  PROVE  p[1] \in Run /\ p[2] \in {"loop", "live"} /\ p = <<p[1], p[2]>>
BY DEF Proc

\* What a dequeue returns is at the end of what its run will record.
LEMMA ReturnPipe ==
  ASSUME TypeOK, Phases, NEW p \in Proc, NEW b \in Seq(Msg), Return(p, b),
         p[2] = "loop" => loop[p[1]].at \in PollSites,
         p[2] = "live" => /\ live[p[1]].sent = <<>>
                          /\ b = <<>> \/ loop[p[1]].at = "respond"
  PROVE  /\ Pipe(p[1])' = Joined(Pipe(p[1]), b)
         /\ \A r \in Run \ {p[1]} : Pipe(r)' = Pipe(r)
<1> DEFINE r == p[1]
<1>0. r \in Run /\ p[2] \in {"loop", "live"}
  BY ProcFacts
<1>1. /\ stream[r] \in Seq(Msg) /\ loop[r].held \in Seq(Msg)
      /\ live[r].accepted \in Seq(Msg) /\ live[r].deferred \in Seq(Msg)
      /\ live[r].sent \in Seq(Msg) /\ Pipe(r) \in Seq(Msg)
      /\ loop[r] \in Loop /\ LoopPhase(loop[r]) /\ live[r] \in Live
  BY <1>0, PipeFacts DEF TypeOK, Phases, RunPhase
<1>2. stream' = stream
  BY DEF Return
<1>3. CASE p[2] = "loop"
  <2>1. loop' = [loop EXCEPT ![r] = AfterPoll(@, b)] /\ live' = live
    BY <1>3 DEF Return
  <2>2. loop'[r] = AfterPoll(loop[r], b) /\ \A u \in Run \ {r} : loop'[u] = loop[u]
    BY <1>0, <2>1 DEF TypeOK
  <2>3. loop'[r].held = Joined(loop[r].held, b) /\ loop'[r].at # "respond"
    BY <1>1, <1>3, <2>2, AfterPollFacts
  <2>4. Pipe(r) = Joined(stream[r], loop[r].held)
    <3>1. loop[r].at # "respond"
      BY <1>3 DEF PollSites
    <3> QED BY <1>0, <3>1, PipeBetween
  <2>5. Joined(loop[r].held, b) \in Seq(Msg)
    BY <1>1, JoinedFacts
  <2>6. Pipe(r)' = Joined(stream[r], Joined(loop[r].held, b))
    BY <1>0, <1>1, <1>2, <2>3, <2>5, PipeBecomes
  <2>7. Joined(Joined(stream[r], loop[r].held), b) = Joined(stream[r], Joined(loop[r].held, b))
    BY <1>1, JoinedAssoc
  <2>8. \A u \in Run \ {r} : Pipe(u)' = Pipe(u)
    BY <1>2, <2>1, <2>2, PipeOther
  <2> QED BY <2>4, <2>6, <2>7, <2>8
<1>4. CASE p[2] = "live"
  <2>1. live' = [live EXCEPT ![r].sent = b] /\ loop' = loop
    BY <1>4 DEF Return
  <2>2. /\ live'[r].sent = b /\ live'[r].accepted = live[r].accepted
        /\ live'[r].deferred = live[r].deferred
        /\ \A u \in Run \ {r} : live'[u] = live[u]
    BY <1>0, <1>1, <2>1 DEF TypeOK, Live
  <2>3. live[r].sent = <<>>
    BY <1>4
  <2>4. \A u \in Run \ {r} : Pipe(u)' = Pipe(u)
    BY <1>2, <2>1, <2>2, PipeOther
  <2> DEFINE c == Joined(stream[r], loop[r].held)
             d == Joined(live[r].accepted, live[r].deferred)
  <2>5. c \in Seq(Msg) /\ d \in Seq(Msg)
    BY <1>1, JoinedFacts
  <2>6. CASE loop[r].at = "respond"
    <3>1. Pipe(r) = Joined(c, Joined(d, <<>>)) /\ Pipe(r)' = Joined(c, Joined(d, b))
      BY <1>2, <2>1, <2>2, <2>3, <2>6 DEF Pipe
    <3> HIDE DEF c, d
    <3>2. Joined(d, <<>>) = d /\ Joined(Joined(c, d), b) = Joined(c, Joined(d, b))
      BY <2>5, JoinedFacts
    <3> QED BY <2>4, <3>1, <3>2
  <2>7. CASE loop[r].at # "respond"
    <3>1. b = <<>> /\ Pipe(r)' = Pipe(r)
      BY <1>2, <1>4, <2>1, <2>7 DEF Pipe
    <3>2. Joined(Pipe(r), <<>>) = Pipe(r)
      BY <1>1, JoinedFacts
    <3> QED BY <2>4, <3>1, <3>2
  <2> QED BY <2>6, <2>7
<1> QED BY <1>0, <1>3, <1>4
-----------------------------------------------------------------------------
(* Steps that dequeue nothing *)

\* A step of one run that dequeues nothing may only drop the end of what that run will record.
LEMMA RunAccounts ==
  ASSUME TypeOK, Owned, Accounts, PostedSoFar,
         \A q \in Queue : Peek(q)' = Peek(q),
         UNCHANGED <<deliveries, liveSteered, withdrawn, controller, recorded, order, taken,
                     unrecoverable>>,
         NEW r \in Run,
         \A u \in Run \ {r} : Pipe(u)' = Pipe(u),
         \E a, b \in Seq(Msg) : Pipe(r) = Joined(a, b) /\ Pipe(r)' = a
  PROVE  Owned' /\ Accounts' /\ PostedSoFar'
<1>1. CASE controller = r
  <2>1. controller \in Run => \E a, b \in Seq(Msg) : /\ Pipe(controller) = Joined(a, b)
                                                     /\ Pipe(controller)' = a
    <3>1. controller' = controller
      OBVIOUS
    <3>2. Pipe(controller)' = Pipe(r)'
      BY <1>1, <3>1
    <3> QED BY <1>1, <3>2
  <2> QED BY <2>1, QuietAccounts
<1>2. CASE controller # r
  <2>1. controller \in Run => Pipe(controller)' = Pipe(controller)
    <3>1. SUFFICES ASSUME controller \in Run PROVE Pipe(controller)' = Pipe(controller)
      OBVIOUS
    <3>2. PICK u \in Run \ {r} : u = controller
      BY <1>2, <3>1
    <3>3. u = controller'
      BY <3>2
    <3> QED BY <3>2, <3>3
  <2> QED BY <2>1, StillAccounts
<1> QED BY <1>1, <1>2

\* Nothing at all
LEMMA SamePipe ==
  ASSUME TypeOK, NEW r \in Run, Pipe(r)' = Pipe(r)
  PROVE  \E a, b \in Seq(Msg) : Pipe(r) = Joined(a, b) /\ Pipe(r)' = a
<1>1. Pipe(r) \in Seq(Msg) /\ <<>> \in Seq(Msg)
  BY PipeFacts, EmptySeq
<1>2. Pipe(r) = Joined(Pipe(r), <<>>)
  BY <1>1, JoinedFacts
<1> QED BY <1>1, <1>2

\* A run that ends early records only what opened it.
LEMMA CutPipe ==
  ASSUME TypeOK, Phases, NEW r \in Run, loop[r].at # "respond",
         loop' = [loop EXCEPT ![r] = [NewLoop EXCEPT !.at = "ended"]],
         stream' = [stream EXCEPT ![r] = @ \o SubSeq(loop[r].held, 1, loop[r].opening)],
         UNCHANGED live
  PROVE  /\ \A u \in Run \ {r} : Pipe(u)' = Pipe(u)
         /\ \E a, b \in Seq(Msg) : Pipe(r) = Joined(a, b) /\ Pipe(r)' = a
<1> DEFINE s == stream[r]
           h == loop[r].held
           n == loop[r].opening
           c == SubSeq(h, 1, n)
           d == SubSeq(h, n + 1, Len(h))
<1>1. s \in Seq(Msg) /\ h \in Seq(Msg) /\ n \in Nat /\ n <= Len(h)
  BY PipeFacts DEF TypeOK, Loop, Phases, RunPhase, LoopPhase
<1>2. \A u \in Run \ {r} : Pipe(u)' = Pipe(u)
  <2>1. \A u \in Run \ {r} : stream'[u] = stream[u] /\ loop'[u] = loop[u] /\ live'[u] = live[u]
    BY DEF TypeOK
  <2> QED BY <2>1, PipeOther
<1>3. stream'[r] = Joined(s, c) /\ loop'[r].held = <<>> /\ loop'[r].at # "respond"
  BY DEF TypeOK, Joined, NewLoop
<1>4. Pipe(r) = Joined(s, h)
  BY PipeBetween
<1> HIDE DEF s, h, n
<1>5. c \in Seq(Msg) /\ d \in Seq(Msg) /\ h = Joined(c, d)
  <2>1. Len(h) \in Nat
    BY <1>1, LenProperties
  <2>2. n \in 0..Len(h)
    BY <1>1, <2>1
  <2> QED BY <1>1, <2>2, Parts
<1> HIDE DEF c, d
<1>6. Joined(s, c) \in Seq(Msg) /\ <<>> \in Seq(Msg)
  BY <1>1, <1>5, JoinedFacts, EmptySeq
<1>7. Pipe(r)' = Joined(Joined(s, c), <<>>)
  BY <1>3, <1>6, PipeBecomes
<1>8. Joined(Joined(s, c), <<>>) = Joined(s, c)
  BY <1>6, JoinedFacts
<1>9. Joined(Joined(s, c), d) = Joined(s, Joined(c, d))
  BY <1>1, <1>5, JoinedAssoc
<1>10. Pipe(r) = Joined(Joined(s, c), d) /\ Pipe(r)' = Joined(s, c)
  BY <1>4, <1>5, <1>7, <1>8, <1>9
<1> QED BY <1>2, <1>5, <1>6, <1>10

\* Turn moves what is held to the stream.
LEMMA TurnPipe ==
  ASSUME TypeOK, Phases, NEW r \in Run, Turn(r)
  PROVE  /\ \A u \in Run \ {r} : Pipe(u)' = Pipe(u)
         /\ Pipe(r)' = Pipe(r)
<1> DEFINE s == stream[r]
           h == loop[r].held
<1>1. PICK at \in {"respond", "ended"} :
        /\ stream' = [stream EXCEPT ![r] = @ \o h]
        /\ loop' = [loop EXCEPT ![r] = [NewLoop EXCEPT !.at = at]]
        /\ UNCHANGED live
        /\ loop[r].at = "turn"
  BY DEF Turn
<1>2. /\ s \in Seq(Msg) /\ h \in Seq(Msg)
      /\ live[r].sent = <<>> /\ live[r].accepted = <<>> /\ live[r].deferred = <<>>
  BY <1>1, PipeFacts DEF Phases, RunPhase
<1>3. \A u \in Run \ {r} : Pipe(u)' = Pipe(u)
  <2>1. \A u \in Run \ {r} : stream'[u] = stream[u] /\ loop'[u] = loop[u] /\ live'[u] = live[u]
    BY <1>1 DEF TypeOK
  <2> QED BY <2>1, PipeOther
<1>4. stream'[r] = Joined(s, h) /\ loop'[r].held = <<>>
  BY <1>1 DEF TypeOK, Joined, NewLoop
<1>5. Pipe(r) = Joined(s, h)
  BY <1>1, PipeBetween
<1>6. Pipe(r)' = Joined(Joined(Joined(s, h), <<>>),
                        IF loop'[r].at = "respond" THEN Joined(Joined(<<>>, <<>>), <<>>) ELSE <<>>)
  BY <1>1, <1>2, <1>4 DEF Pipe
<1> HIDE DEF s, h
<1>7. Joined(s, h) \in Seq(Msg)
  BY <1>2, JoinedFacts
<1>8. Joined(Joined(s, h), <<>>) = Joined(s, h)
  BY <1>7, JoinedFacts
<1>9. Joined(<<>>, <<>>) = <<>>
  BY EmptySeq, JoinedFacts
<1>10. Pipe(r)' = Joined(s, h)
  BY <1>6, <1>8, <1>9
<1> QED BY <1>3, <1>5, <1>10

\* A response that fails drops the live steering at the end of the pipe.
LEMMA FailPipe ==
  ASSUME TypeOK, Phases, NEW r \in Run, RespondFails(r)
  PROVE  /\ \A u \in Run \ {r} : Pipe(u)' = Pipe(u)
         /\ \E a, b \in Seq(Msg) : Pipe(r) = Joined(a, b) /\ Pipe(r)' = a
<1> DEFINE s == stream[r]
           h == loop[r].held
           x == Joined(Joined(live[r].accepted, live[r].deferred), live[r].sent)
<1>1. /\ loop' = [loop EXCEPT ![r] = [NewLoop EXCEPT !.at = "ended"]]
      /\ UNCHANGED <<stream, live>>
      /\ loop[r].at = "respond"
  BY DEF RespondFails
<1>2. /\ s \in Seq(Msg) /\ h = <<>> /\ x \in Seq(Msg)
  <2>1. Joined(live[r].accepted, live[r].deferred) \in Seq(Msg)
    BY PipeFacts, JoinedFacts
  <2>2. x \in Seq(Msg)
    BY <2>1, PipeFacts, JoinedFacts
  <2> QED BY <1>1, <2>2, PipeFacts DEF Phases, RunPhase, LoopPhase
<1>3. \A u \in Run \ {r} : Pipe(u)' = Pipe(u)
  <2>1. \A u \in Run \ {r} : stream'[u] = stream[u] /\ loop'[u] = loop[u] /\ live'[u] = live[u]
    BY <1>1 DEF TypeOK
  <2> QED BY <2>1, PipeOther
<1>4. stream'[r] = s /\ loop'[r].held = <<>> /\ loop'[r].at # "respond"
  BY <1>1 DEF TypeOK, NewLoop
<1>5. Pipe(r) = Joined(Joined(s, <<>>), x)
  BY <1>1, <1>2 DEF Pipe
<1> HIDE DEF s, h, x
<1>6. Joined(s, <<>>) = s /\ <<>> \in Seq(Msg)
  BY <1>2, JoinedFacts, EmptySeq
<1>7. Pipe(r)' = Joined(s, <<>>)
  BY <1>2, <1>4, <1>6, PipeBecomes
<1>8. Pipe(r) = Joined(s, x) /\ Pipe(r)' = s
  BY <1>5, <1>6, <1>7
<1> QED BY <1>2, <1>3, <1>8

\* Boundary turns live steering into what is held, in the same order.
LEMMA BoundaryPipe ==
  ASSUME TypeOK, Phases, NEW r \in Run, NEW more \in BOOLEAN, Boundary(r, more)
  PROVE  /\ \A u \in Run \ {r} : Pipe(u)' = Pipe(u)
         /\ Pipe(r)' = Pipe(r)
<1> DEFINE s == stream[r]
           a == live[r].accepted
           d == live[r].deferred
<1>1. PICK at \in {"turn", "boundary"} :
        /\ loop' = [loop EXCEPT ![r] = [NewLoop EXCEPT !.at = at, !.held = a \o d, !.more = more]]
        /\ live' = [live EXCEPT ![r] = NewLive]
        /\ UNCHANGED stream
        /\ loop[r].at = "respond"
        /\ live[r].sent = <<>>
  BY DEF Boundary, LiveQuiet
<1>2. s \in Seq(Msg) /\ loop[r].held = <<>> /\ a \in Seq(Msg) /\ d \in Seq(Msg)
  BY <1>1, PipeFacts DEF Phases, RunPhase, LoopPhase
<1>3. \A u \in Run \ {r} : Pipe(u)' = Pipe(u)
  <2>1. \A u \in Run \ {r} : stream'[u] = stream[u] /\ loop'[u] = loop[u] /\ live'[u] = live[u]
    BY <1>1 DEF TypeOK
  <2> QED BY <2>1, PipeOther
<1>4. stream'[r] = s /\ loop'[r].held = Joined(a, d) /\ loop'[r].at # "respond"
  BY <1>1 DEF TypeOK, NewLoop, Joined
<1>5. Pipe(r) = Joined(Joined(s, <<>>), Joined(Joined(a, d), <<>>))
  BY <1>1, <1>2 DEF Pipe
<1> HIDE DEF s, a, d
<1>6. Joined(s, <<>>) = s /\ Joined(a, d) \in Seq(Msg)
  BY <1>2, JoinedFacts
<1>7. Joined(Joined(a, d), <<>>) = Joined(a, d)
  BY <1>6, JoinedFacts
<1>8. Pipe(r)' = Joined(s, Joined(a, d))
  BY <1>2, <1>4, <1>6, PipeBecomes
<1> QED BY <1>3, <1>5, <1>6, <1>7, <1>8

\* accept() and reject() keep the place of what was sent.
LEMMA AckPipe ==
  ASSUME TypeOK, Phases, NEW r \in Run, LiveAck(r)
  PROVE  /\ \A u \in Run \ {r} : Pipe(u)' = Pipe(u)
         /\ Pipe(r)' = Pipe(r)
<1> DEFINE c == Joined(stream[r], loop[r].held)
           a == live[r].accepted
           d == live[r].deferred
           t == live[r].sent
<1>1. /\ UNCHANGED <<stream, loop>>
      /\ t # <<>>
      /\ \/ live' = [live EXCEPT ![r].sent = <<>>, ![r].accepted = @ \o t]
         \/ live' = [live EXCEPT ![r].sent = <<>>, ![r].deferred = @ \o t]
  BY DEF LiveAck
<1>2. /\ c \in Seq(Msg) /\ a \in Seq(Msg) /\ d \in Seq(Msg) /\ t \in Seq(Msg)
      /\ d = <<>>
      /\ live[r] \in Live
  <2>1. c \in Seq(Msg)
    BY PipeFacts, JoinedFacts
  <2>2. LivePhase(taking[<<r, "live">>], live[r]) /\ live[r] \in Live
    BY DEF Phases, RunPhase, TypeOK
  <2>3. d = <<>>
    BY <1>1, <2>2 DEF LivePhase
  <2> QED BY <2>1, <2>2, <2>3, PipeFacts
<1>3. \A u \in Run \ {r} : Pipe(u)' = Pipe(u)
  <2>1. \A u \in Run \ {r} : stream'[u] = stream[u] /\ loop'[u] = loop[u] /\ live'[u] = live[u]
    BY <1>1 DEF TypeOK
  <2> QED BY <2>1, PipeOther
<1>4. \/ live'[r].sent = <<>> /\ live'[r].accepted = Joined(a, t) /\ live'[r].deferred = d
      \/ live'[r].sent = <<>> /\ live'[r].accepted = a /\ live'[r].deferred = Joined(d, t)
  <2>1. live \in [Run -> Live]
    BY DEF TypeOK
  <2>2. \/ live'[r] = [live[r] EXCEPT !.sent = <<>>, !.accepted = Joined(a, t)]
        \/ live'[r] = [live[r] EXCEPT !.sent = <<>>, !.deferred = Joined(d, t)]
    <3> HIDE DEF t
    <3> QED BY <1>1, <2>1 DEF Joined
  <2>3. live[r] \in Live
    BY <2>1
  <2> HIDE DEF t
  <2> QED BY <2>2, <2>3 DEF Live
<1>5. /\ Pipe(r) = Joined(c, IF loop[r].at = "respond" THEN Joined(Joined(a, d), t) ELSE <<>>)
      /\ Pipe(r)' = Joined(c, IF loop[r].at = "respond"
                              THEN Joined(Joined(live'[r].accepted, live'[r].deferred), live'[r].sent)
                              ELSE <<>>)
  <2>1. stream'[r] = stream[r] /\ loop'[r] = loop[r]
    BY <1>1
  <2>2. Pipe(r) = Joined(c, IF loop[r].at = "respond" THEN Joined(Joined(a, d), t) ELSE <<>>)
    BY DEF Pipe
  <2>3. Pipe(r)' = Joined(Joined(stream'[r], loop'[r].held),
                          IF loop'[r].at = "respond"
                          THEN Joined(Joined(live'[r].accepted, live'[r].deferred), live'[r].sent)
                          ELSE <<>>)
    BY DEF Pipe
  <2> QED BY <2>1, <2>2, <2>3
<1> HIDE DEF c, a, d, t
<1>6. Joined(a, t) \in Seq(Msg) /\ Joined(d, t) = t /\ Joined(a, d) = a
  <2>1. Joined(a, t) \in Seq(Msg)
    BY <1>2, JoinedFacts
  <2>2. Joined(<<>>, t) = t /\ Joined(a, <<>>) = a
    BY <1>2, JoinedFacts
  <2> QED BY <1>2, <2>1, <2>2
<1>7. Joined(Joined(a, t), <<>>) = Joined(a, t)
  BY <1>6, JoinedFacts
<1>8. Joined(Joined(live'[r].accepted, live'[r].deferred), live'[r].sent) = Joined(a, t)
  BY <1>2, <1>4, <1>6, <1>7
<1>9. Pipe(r)' = Pipe(r)
  BY <1>5, <1>6, <1>8
<1> QED BY <1>3, <1>9
-----------------------------------------------------------------------------
(* The accounts of the steps of a run *)

\* The steps that touch no queue and no delivery record
LEMMA LoopAccounts ==
  ASSUME IInv, NEW r \in Run,
         Turn(r) \/ TurnDeadline(r) \/ RespondFails(r) \/ Boundary(r, TRUE) \/ Boundary(r, FALSE)
           \/ LiveAck(r) \/ LiveClaim(r) \/ Abort
  PROVE  Owned' /\ Accounts' /\ PostedSoFar'
<1>0. TypeOK /\ Phases /\ Owned /\ Accounts /\ PostedSoFar
  BY DEF IInv
<1>1. UNCHANGED <<queues, claims, deliveries, liveSteered, withdrawn, controller, recorded, order,
                  taken, unrecoverable>>
  BY DEF Turn, TurnDeadline, RespondFails, Boundary, LiveAck, LiveClaim, Abort, heldVars, histVars
<1>2. \A q \in Queue : Peek(q)' = Peek(q)
  BY <1>1 DEF Peek
<1>3. /\ \A u \in Run \ {r} : Pipe(u)' = Pipe(u)
      /\ \E a, b \in Seq(Msg) : Pipe(r) = Joined(a, b) /\ Pipe(r)' = a
  <2>1. CASE Turn(r)
    BY <1>0, <2>1, TurnPipe, SamePipe
  <2>2. CASE TurnDeadline(r)
    <3>1. /\ loop[r].at # "respond"
          /\ loop' = [loop EXCEPT ![r] = [NewLoop EXCEPT !.at = "ended"]]
          /\ stream' = [stream EXCEPT ![r] = @ \o SubSeq(loop[r].held, 1, loop[r].opening)]
          /\ UNCHANGED live
      BY <2>2 DEF TurnDeadline
    <3> QED BY <1>0, <3>1, CutPipe
  <2>3. CASE RespondFails(r)
    BY <1>0, <2>3, FailPipe
  <2>4. CASE Boundary(r, TRUE) \/ Boundary(r, FALSE)
    BY <1>0, <2>4, BoundaryPipe, SamePipe
  <2>5. CASE LiveAck(r)
    BY <1>0, <2>5, AckPipe, SamePipe
  <2>6. CASE LiveClaim(r) \/ Abort
    <3>1. UNCHANGED <<stream, loop, live>>
      BY <2>6 DEF LiveClaim, Abort
    <3>2. \A u \in Run : Pipe(u)' = Pipe(u)
      BY <3>1, PipeOther
    <3> QED BY <1>0, <3>2, SamePipe
  <2> QED BY <2>1, <2>2, <2>3, <2>4, <2>5, <2>6
<1> QED BY <1>0, <1>1, <1>2, <1>3, RunAccounts

\* Where a dequeuer is
LEMMA Dequeuer ==
  ASSUME TypeOK, Phases, NEW p \in Proc, taking[p].step # "none"
  PROVE  /\ p[2] = "loop" => loop[p[1]].at \in PollSites
         /\ p[2] = "live" => /\ live[p[1]].sent = <<>>
                             /\ p[1] \notin aborted => loop[p[1]].at = "respond"
         /\ p[1] \notin aborted => controller = p[1]
<1>1. p[1] \in Run /\ p[2] \in {"loop", "live"} /\ p = <<p[1], p[2]>>
  BY ProcFacts
<1>2. /\ LivePhase(taking[<<p[1], "live">>], live[p[1]])
      /\ taking[<<p[1], "loop">>].step # "none" => loop[p[1]].at \in PollSites
      /\ p[1] \notin aborted /\ loop[p[1]].at # "respond" =>
           taking[<<p[1], "live">>].step = "none"
      /\ p[1] = controller \/ p[1] \in aborted \/ loop[p[1]].at = "unused"
  BY <1>1 DEF Phases, RunPhase
<1>3. CASE p[2] = "loop"
  BY <1>1, <1>2, <1>3 DEF PollSites
<1>4. CASE p[2] = "live"
  BY <1>1, <1>2, <1>4 DEF LivePhase
<1> QED BY <1>1, <1>3, <1>4

\* A dequeue that returns nothing, or throws
LEMMA EmptyReturn ==
  ASSUME IInv, NEW p \in Proc, Return(p, <<>>) \/ Throw(p),
         p[2] = "loop" => loop[p[1]].at \in PollSites,
         p[2] = "live" => live[p[1]].sent = <<>>,
         UNCHANGED <<deliveries, liveSteered, withdrawn, controller, recorded, order, taken,
                     unrecoverable>>,
         \A q \in Queue : Peek(q)' = Peek(q)
  PROVE  Owned' /\ Accounts' /\ PostedSoFar'
<1>0. TypeOK /\ Phases /\ Owned /\ Accounts /\ PostedSoFar
  BY DEF IInv
<1>1. p[1] \in Run /\ p[2] \in {"loop", "live"}
  BY ProcFacts
<1>2. /\ \A u \in Run \ {p[1]} : Pipe(u)' = Pipe(u)
      /\ \E a, b \in Seq(Msg) : Pipe(p[1]) = Joined(a, b) /\ Pipe(p[1])' = a
  <2>1. CASE Return(p, <<>>)
    <3>1. /\ Pipe(p[1])' = Joined(Pipe(p[1]), <<>>)
          /\ \A u \in Run \ {p[1]} : Pipe(u)' = Pipe(u)
      <4>1. <<>> \in Seq(Msg)
        BY EmptySeq
      <4> QED BY <1>0, <2>1, <4>1, ReturnPipe
    <3>2. Pipe(p[1]) \in Seq(Msg)
      BY <1>0, <1>1, PipeFacts
    <3>3. Joined(Pipe(p[1]), <<>>) = Pipe(p[1])
      BY <3>2, JoinedFacts
    <3>4. Pipe(p[1])' = Pipe(p[1])
      BY <3>1, <3>3
    <3> QED BY <1>0, <1>1, <3>1, <3>4, SamePipe
  <2>2. CASE Throw(p) /\ p[2] = "loop"
    <3>1. /\ loop[p[1]].at # "respond"
          /\ loop' = [loop EXCEPT ![p[1]] = [NewLoop EXCEPT !.at = "ended"]]
          /\ stream' = [stream EXCEPT ![p[1]] = @ \o SubSeq(loop[p[1]].held, 1, loop[p[1]].opening)]
          /\ UNCHANGED live
      BY <2>2 DEF Throw, PollSites
    <3> QED BY <1>0, <1>1, <3>1, CutPipe
  <2>3. CASE Throw(p) /\ p[2] # "loop"
    <3>1. UNCHANGED <<stream, loop>> /\ live' = [live EXCEPT ![p[1]].stopped = TRUE]
      BY <2>3 DEF Throw
    <3>2. \A u \in Run : /\ live'[u].sent = live[u].sent /\ live'[u].accepted = live[u].accepted
                         /\ live'[u].deferred = live[u].deferred
      BY <1>0, <1>1, <3>1 DEF TypeOK, Live
    <3>3. \A u \in Run : Pipe(u)' = Pipe(u)
      BY <3>1, <3>2 DEF Pipe
    <3> QED BY <1>0, <1>1, <3>3, SamePipe
  <2> QED BY <2>1, <2>2, <2>3
<1> QED BY <1>0, <1>1, <1>2, RunAccounts

\* A poll that finds nothing, or starts to dequeue, moves no message.
LEMMA PollAccounts ==
  ASSUME IInv, NEW r \in Run, Poll(r)
  PROVE  Owned' /\ Accounts' /\ PostedSoFar'
<1>0. TypeOK /\ Phases /\ Owned /\ Accounts /\ PostedSoFar
  BY DEF IInv
<1>1. /\ UNCHANGED <<queues, claims, deliveries, liveSteered, withdrawn, controller, recorded, order,
                     taken, unrecoverable>>
      /\ loop[r].at \in PollSites
      /\ Return(<<r, "loop">>, <<>>) \/ UNCHANGED <<stream, loop, live>>
  BY DEF Poll, heldVars, histVars
<1>2. \A q \in Queue : Peek(q)' = Peek(q)
  BY <1>1 DEF Peek
<1>3. CASE Return(<<r, "loop">>, <<>>)
  <2> DEFINE p == <<r, "loop">>
  <2>1. p \in Proc /\ p[1] = r /\ p[2] = "loop"
    BY DEF Proc
  <2>2. Return(p, <<>>)
    BY <1>3
  <2> HIDE DEF p
  <2> QED BY <1>1, <1>2, <2>1, <2>2, EmptyReturn
<1>4. CASE UNCHANGED <<stream, loop, live>>
  <2>1. controller \in Run => Pipe(controller)' = Pipe(controller)
    BY <1>1, <1>4 DEF Pipe
  <2> QED BY <1>0, <1>1, <1>2, <2>1, StillAccounts
<1> QED BY <1>1, <1>3, <1>4

\* A batch is handed over and returned.
LEMMA HandedOver ==
  ASSUME IInv, NEW p \in Proc, taking[p].step # "none", p[1] \notin aborted,
         NEW q \in Queue, NEW b \in Seq(Msg), b # <<>>, HandOver(p, q, b), Return(p, b),
         UNCHANGED <<withdrawn, controller, recorded, order, taken, unrecoverable>>,
         Peek(q) = Joined(b, Peek(q)'), Peek(q)' \in Seq(Msg),
         \A u \in Queue \ {q} : Peek(u)' = Peek(u)
  PROVE  Owned' /\ Accounts' /\ PostedSoFar'
<1>0. TypeOK /\ Phases /\ Owned /\ Accounts /\ PostedSoFar
  BY DEF IInv
<1>1. /\ p[2] = "loop" => loop[p[1]].at \in PollSites
      /\ p[2] = "live" => live[p[1]].sent = <<>> /\ loop[p[1]].at = "respond"
      /\ controller = p[1] /\ p[1] \in Run
  BY <1>0, Dequeuer, ProcFacts
<1>2. Pipe(p[1])' = Joined(Pipe(p[1]), b)
  BY <1>0, <1>1, ReturnPipe
<1>3. Pipe(controller)' = Joined(Pipe(controller), b)
  <2>1. controller' = p[1]
    BY <1>1
  <2>2. Pipe(controller)' = Pipe(p[1])'
    BY <2>1
  <2> QED BY <1>1, <1>2, <2>2
<1>4. ASSUME NEW x \in Msg
      PROVE  Queued(x)' \in Nat /\ Queued(x) = Queued(x)' + Times(b, x)
  <2>1. /\ Queued(x) = Times(Peek("steering"), x) + Times(Peek("followUp"), x)
        /\ Queued(x)' = Times(Peek("steering")', x) + Times(Peek("followUp")', x)
    BY DEF Queued
  <2>2. Times(Peek("steering"), x) \in Nat /\ Times(Peek("followUp"), x) \in Nat
    BY <1>0, QueuedFacts
  <2>3. Times(Joined(b, Peek(q)'), x) = Times(b, x) + Times(Peek(q)', x)
    BY TimesJoined
  <2>4. Times(b, x) \in Nat /\ Times(Peek(q)', x) \in Nat
    BY TimesBasics
  <2>5. Times(Peek(q), x) = Times(b, x) + Times(Peek(q)', x)
    BY <2>3
  <2>6. CASE q = "steering"
    <3>1. /\ Times(Peek("steering"), x) = Times(b, x) + Times(Peek("steering")', x)
          /\ Times(Peek("steering")', x) \in Nat
          /\ Times(Peek("followUp")', x) = Times(Peek("followUp"), x)
      BY <2>4, <2>5, <2>6 DEF Queue
    <3> QED BY <2>1, <2>2, <2>4, <3>1
  <2>7. CASE q = "followUp"
    <3>1. /\ Times(Peek("followUp"), x) = Times(b, x) + Times(Peek("followUp")', x)
          /\ Times(Peek("followUp")', x) \in Nat
          /\ Times(Peek("steering")', x) = Times(Peek("steering"), x)
      BY <2>4, <2>5, <2>7 DEF Queue
    <3> QED BY <2>1, <2>2, <2>4, <3>1
  <2> QED BY <2>6, <2>7 DEF Queue
<1> QED BY <1>0, <1>1, <1>3, <1>4, HandOverAccounts

\* A batch of a queue that is not claimed is claimed, or taken.
LEMMA BatchFacts ==
  ASSUME TypeOK, NEW q \in Queue, NEW n \in {1, Len(queues[q])} \cap DOMAIN queues[q]
  PROVE  LET b == SubSeq(queues[q], 1, n)
             w == SubSeq(queues[q], n + 1, Len(queues[q]))
         IN b \in Seq(Msg) /\ w \in Seq(Msg) /\ b # <<>> /\ queues[q] = Joined(b, w)
<1> DEFINE s == queues[q]
           b == SubSeq(s, 1, n)
           w == SubSeq(s, n + 1, Len(s))
<1>1. s \in Seq(Msg)
  BY QueueFacts
<1>2. n \in DOMAIN s
  OBVIOUS
<1> HIDE DEF s
<1>3. n \in 0..Len(s) /\ n # 0
  BY <1>1, <1>2, LenProperties
<1>4. b \in Seq(Msg) /\ w \in Seq(Msg) /\ Len(b) = n /\ s = Joined(b, w)
  BY <1>1, <1>3, Parts
<1>5. b # <<>>
  <2> HIDE DEF b
  <2> QED BY <1>3, <1>4, EmptySeq
<1> QED BY <1>4, <1>5 DEF s

\* AfterHooks gives the batch to a claim or hands it over.
LEMMA HooksAccounts ==
  ASSUME IInv, NEW p \in Proc, AfterHooks(p)
  PROVE  Owned' /\ Accounts' /\ PostedSoFar'
<1> DEFINE q == taking[p].queue
<1>0. TypeOK /\ Phases /\ Owned /\ Accounts /\ PostedSoFar
  BY DEF IInv
<1>1. /\ taking[p].step # "none"
      /\ UNCHANGED <<withdrawn, controller, recorded, order, taken, unrecoverable>>
  BY DEF AfterHooks
<1>2. /\ p[2] = "loop" => loop[p[1]].at \in PollSites
      /\ p[2] = "live" => live[p[1]].sent = <<>>
  BY <1>0, <1>1, Dequeuer
<1>3. CASE (Return(p, <<>>) \/ Throw(p)) /\ UNCHANGED heldVars
  <2>1. UNCHANGED <<queues, claims, deliveries, liveSteered>>
    BY <1>3 DEF heldVars
  <2>2. \A u \in Queue : Peek(u)' = Peek(u)
    BY <2>1 DEF Peek
  <2> QED BY <1>1, <1>2, <1>3, <2>1, <2>2, EmptyReturn
<1>4. ASSUME p[1] \notin aborted, claims[q] = NoClaim,
             NEW n \in {1, Len(queues[q])} \cap DOMAIN queues[q],
             queues' = [queues EXCEPT ![q] = SubSeq(@, n + 1, Len(@))],
             NEW c, c = SubSeq(queues[q], 1, n),
             \/ /\ claims' = [claims EXCEPT ![q] = [by |-> p, msgs |-> c]]
                /\ UNCHANGED <<deliveries, liveSteered, loop, live, stream>>
             \/ /\ HandOver(p, q, c)
                /\ Return(p, c)
                /\ UNCHANGED claims
      PROVE  Owned' /\ Accounts' /\ PostedSoFar'
  <2> PICK u \in Queue : u = q
    BY <1>0 DEF TypeOK, Taking
  <2> DEFINE s == queues[u]
             b == SubSeq(s, 1, n)
             w == SubSeq(s, n + 1, Len(s))
  <2>1. b \in Seq(Msg) /\ w \in Seq(Msg) /\ b # <<>> /\ s = Joined(b, w)
    BY <1>0, <1>4, BatchFacts
  <2>2. Peek(u) = s
    <3>1. claims[u].msgs = <<>> /\ s \in Seq(Msg)
      BY <1>0, <1>4, QueueFacts DEF NoClaim
    <3>2. Peek(u) = Joined(<<>>, s)
      BY <3>1 DEF Peek, Joined
    <3> QED BY <3>1, <3>2, JoinedFacts
  <2>3. queues'[u] = w /\ \A v \in Queue \ {u} : queues'[v] = queues[v]
    BY <1>0, <1>4 DEF TypeOK
  <2>4. ASSUME claims' = [claims EXCEPT ![u] = [by |-> p, msgs |-> b]],
               UNCHANGED <<deliveries, liveSteered, loop, live, stream>>
        PROVE  Owned' /\ Accounts' /\ PostedSoFar'
    <3>1. claims'[u].msgs = b /\ \A v \in Queue \ {u} : claims'[v] = claims[v]
      BY <1>0, <2>4 DEF TypeOK
    <3>2. Peek(u)' = Joined(b, w)
      BY <2>3, <3>1 DEF Peek, Joined
    <3>3. \A v \in Queue : Peek(v)' = Peek(v)
      BY <2>1, <2>2, <2>3, <3>1, <3>2 DEF Peek
    <3>4. controller \in Run => Pipe(controller)' = Pipe(controller)
      BY <1>1, <2>4 DEF Pipe
    <3> QED BY <1>0, <1>1, <2>4, <3>3, <3>4, StillAccounts
  <2>5. ASSUME HandOver(p, u, b), Return(p, b), UNCHANGED claims
        PROVE  Owned' /\ Accounts' /\ PostedSoFar'
    <3>1. Peek(u)' = w
      <4>0. claims'[u].msgs = <<>>
        BY <1>4, <2>5 DEF NoClaim
      <4>1. Peek(u)' = Joined(<<>>, w)
        BY <2>3, <4>0 DEF Peek, Joined
      <4>2. Joined(<<>>, w) = w
        BY <2>1, JoinedFacts
      <4> QED BY <4>1, <4>2
    <3>2. \A v \in Queue \ {u} : Peek(v)' = Peek(v)
      BY <2>3, <2>5 DEF Peek
    <3>3. Peek(u) = Joined(b, Peek(u)') /\ Peek(u)' \in Seq(Msg)
      BY <2>1, <2>2, <3>1
    <3> HIDE DEF b, w, s
    <3> QED BY <1>1, <1>4, <2>1, <2>5, <3>2, <3>3, HandedOver
  <2> QED BY <1>4, <2>4, <2>5
<1>5. \/ (Return(p, <<>>) \/ Throw(p)) /\ UNCHANGED heldVars
      \/ /\ p[1] \notin aborted
         /\ claims[q] = NoClaim
         /\ \E n \in {1, Len(queues[q])} \cap DOMAIN queues[q] :
              /\ queues' = [queues EXCEPT ![q] = SubSeq(@, n + 1, Len(@))]
              /\ \E c : /\ c = SubSeq(queues[q], 1, n)
                       /\ \/ /\ claims' = [claims EXCEPT ![q] = [by |-> p, msgs |-> c]]
                             /\ UNCHANGED <<deliveries, liveSteered, loop, live, stream>>
                          \/ /\ HandOver(p, q, c)
                             /\ Return(p, c)
                             /\ UNCHANGED claims
  BY DEF AfterHooks
<1> HIDE DEF q
<1> QED BY <1>3, <1>4, <1>5
-----------------------------------------------------------------------------
(* The preparation of a batch *)

\* A restored claim is where it was in its queue.
LEMMA RestoreKeeps ==
  ASSUME TypeOK, NEW p, NEW q \in Queue, RestoreClaim(p, q)
  PROVE  \A u \in Queue : Peek(u)' = Peek(u)
<1>1. CASE claims[q].by = p
  <2>1. /\ queues' = [queues EXCEPT ![q] = Restored(q)]
        /\ claims' = [claims EXCEPT ![q] = NoClaim]
    BY <1>1 DEF RestoreClaim
  <2>2. /\ queues'[q] = Peek(q) /\ claims'[q].msgs = <<>>
        /\ \A u \in Queue \ {q} : queues'[u] = queues[u] /\ claims'[u] = claims[u]
    BY <2>1 DEF TypeOK, Restored, Peek, NoClaim
  <2>3. Peek(q)' = Joined(<<>>, Peek(q))
    BY <2>2 DEF Peek, Joined
  <2>4. Joined(<<>>, Peek(q)) = Peek(q)
    BY QueueFacts, JoinedFacts
  <2>5. \A u \in Queue \ {q} : Peek(u)' = Peek(u)
    BY <2>2 DEF Peek
  <2> QED BY <2>3, <2>4, <2>5
<1>2. CASE claims[q].by # p
  BY <1>2 DEF RestoreClaim, Peek
<1> QED BY <1>1, <1>2

\* AfterPrepare restores the claim or hands it over.
LEMMA PrepareAccounts ==
  ASSUME IInv, NEW p \in Proc, AfterPrepare(p)
  PROVE  Owned' /\ Accounts' /\ PostedSoFar'
<1>0. TypeOK /\ Phases /\ Owned /\ Accounts /\ PostedSoFar
  BY DEF IInv
<1>1. PICK q \in Queue : q = taking[p].queue
  BY <1>0 DEF TypeOK, Taking
<1>2. /\ taking[p].step # "none"
      /\ UNCHANGED <<withdrawn, controller, recorded, order, taken, unrecoverable>>
  BY DEF AfterPrepare
<1>3. /\ p[2] = "loop" => loop[p[1]].at \in PollSites
      /\ p[2] = "live" => live[p[1]].sent = <<>>
  BY <1>0, <1>2, Dequeuer
<1>4. CASE RestoreClaim(p, q) /\ Throw(p) /\ UNCHANGED <<deliveries, liveSteered>>
  <2>1. \A u \in Queue : Peek(u)' = Peek(u)
    BY <1>0, <1>4, RestoreKeeps
  <2> QED BY <1>2, <1>3, <1>4, <2>1, EmptyReturn
<1>5. CASE Return(p, <<>>) /\ UNCHANGED heldVars
  <2>1. UNCHANGED <<queues, claims, deliveries, liveSteered>>
    BY <1>5 DEF heldVars
  <2>2. \A u \in Queue : Peek(u)' = Peek(u)
    BY <2>1 DEF Peek
  <2> QED BY <1>2, <1>3, <1>5, <2>1, <2>2, EmptyReturn
<1>6. ASSUME p[1] \notin aborted, claims[q].by = p, UNCHANGED queues,
             claims' = [claims EXCEPT ![q] = NoClaim],
             HandOver(p, q, claims[q].msgs), Return(p, claims[q].msgs)
      PROVE  Owned' /\ Accounts' /\ PostedSoFar'
  <2> PICK b : b = claims[q].msgs
    OBVIOUS
  <2>1. b \in Seq(Msg) /\ b # <<>> /\ queues[q] \in Seq(Msg)
    BY <1>0, <1>6, QueueFacts DEF Phases, RunPhase
  <2>2. claims'[q].msgs = <<>> /\ \A u \in Queue \ {q} : claims'[u] = claims[u]
    BY <1>0, <1>6 DEF TypeOK, NoClaim
  <2>3. Peek(q)' = Joined(<<>>, queues[q])
    BY <1>6, <2>2 DEF Peek, Joined
  <2>4. Peek(q)' = queues[q] /\ Peek(q) = Joined(b, queues[q])
    BY <1>0, <2>1, <2>3, JoinedFacts, QueueFacts
  <2>5. \A u \in Queue \ {q} : Peek(u)' = Peek(u)
    BY <1>6, <2>2 DEF Peek
  <2>6. HandOver(p, q, b) /\ Return(p, b)
    BY <1>6
  <2> QED BY <1>2, <1>6, <2>1, <2>4, <2>5, <2>6, HandedOver
<1>7. \/ RestoreClaim(p, q) /\ Throw(p) /\ UNCHANGED <<deliveries, liveSteered>>
      \/ Return(p, <<>>) /\ UNCHANGED heldVars
      \/ /\ p[1] \notin aborted /\ claims[q].by = p /\ UNCHANGED queues
         /\ claims' = [claims EXCEPT ![q] = NoClaim]
         /\ HandOver(p, q, claims[q].msgs)
         /\ Return(p, claims[q].msgs)
  BY <1>1 DEF AfterPrepare
<1> QED BY <1>4, <1>5, <1>6, <1>7

-----------------------------------------------------------------------------
(* All steps *)

\* Every step keeps the accounts.
LEMMA AccountsKept ==
  ASSUME IInv, [Next]_vars
  PROVE  Owned' /\ Accounts' /\ PostedSoFar'
<1>0. TypeOK /\ Phases /\ Owned /\ Accounts /\ PostedSoFar
  BY DEF IInv
<1>1. ASSUME UserStep PROVE Owned' /\ Accounts' /\ PostedSoFar'
  <2>1. ASSUME NEW q \in Queue, Post(q) PROVE Owned' /\ Accounts' /\ PostedSoFar'
    BY <2>1, PostAccounts
  <2>2. ASSUME NEW q \in Queue, NEW i \in Msg, TakeQueuedMessage(q, i)
        PROVE  Owned' /\ Accounts' /\ PostedSoFar'
    BY <2>2, TakeAccounts
  <2>3. CASE PopLastQueuedMessage
    BY <2>3, PopLastAccounts
  <2>4. ASSUME NEW i \in Msg, PromoteQueuedMessage(i) PROVE Owned' /\ Accounts' /\ PostedSoFar'
    BY <2>4, PromoteAccounts
  <2>5. CASE ClearQueue
    BY <2>5, ClearQueueAccounts
  <2>6. CASE ClearQueueForInterrupt
    BY <2>6, InterruptAccounts
  <2>7. CASE Abort
    <3>1. PICK r \in Run : r = controller
      BY <2>7 DEF Abort
    <3> QED BY <2>7, LoopAccounts
  <2>8. CASE Reset
    BY <2>8, ResetAccounts
  <2>9. ASSUME NEW r \in Run, Prompt(r) PROVE Owned' /\ Accounts' /\ PostedSoFar'
    BY <2>9, BeginAccounts DEF Prompt
  <2> QED BY <1>1, <2>1, <2>2, <2>3, <2>4, <2>5, <2>6, <2>7, <2>8, <2>9 DEF UserStep
<1>2. ASSUME NEW r \in Run,
             \/ Continue(r) \/ RunStep(r) \/ TurnDeadline(r) \/ Boundary(r, TRUE) \/ Boundary(r, FALSE)
             \/ LiveClaim(r) \/ LiveStep(r)
             \/ Consume(r) \/ Finish(r)
      PROVE  Owned' /\ Accounts' /\ PostedSoFar'
  <2>0. <<r, "loop">> \in Proc /\ <<r, "live">> \in Proc
    BY DEF Proc
  <2>1. CASE Continue(r)
    BY <2>1, BeginAccounts DEF Continue
  <2>2. CASE Poll(r)
    BY <2>2, PollAccounts
  <2>3. CASE AfterHooks(<<r, "loop">>) \/ AfterHooks(<<r, "live">>)
    BY <2>0, <2>3, HooksAccounts
  <2>4. CASE AfterPrepare(<<r, "loop">>) \/ AfterPrepare(<<r, "live">>)
    BY <2>0, <2>4, PrepareAccounts
  <2>5. CASE Turn(r) \/ RespondFails(r) \/ TurnDeadline(r) \/ Boundary(r, TRUE) \/ Boundary(r, FALSE)
               \/ LiveAck(r) \/ LiveClaim(r)
    BY <2>5, LoopAccounts
  <2>6. CASE Consume(r)
    BY <2>6, ConsumeAccounts
  <2>7. CASE Finish(r)
    BY <2>7, FinishAccounts
  <2> QED BY <1>2, <2>1, <2>2, <2>3, <2>4, <2>5, <2>6, <2>7 DEF RunStep, LiveStep
<1>3. CASE UNCHANGED vars
  <2>1. UNCHANGED <<queues, claims, deliveries, liveSteered, withdrawn, controller, recorded, order,
                    taken, unrecoverable, stream, loop, live>>
    BY <1>3 DEF vars, heldVars, runVars, histVars
  <2>2. \A q \in Queue : Peek(q)' = Peek(q)
    BY <2>1 DEF Peek
  <2>3. controller \in Run => Pipe(controller)' = Pipe(controller)
    BY <2>1 DEF Pipe
  <2> QED BY <1>0, <2>1, <2>2, <2>3, StillAccounts
<1> QED BY <1>1, <1>2, <1>3 DEF Next
-----------------------------------------------------------------------------
(* Types *)

\* NoClaim is held by nobody.
LEMMA NoClaimFacts ==
  NoClaim \in Claim /\ NoClaim.msgs = <<>> /\ NoClaim.by \notin Proc
<1>1. <<>> \in Seq(Msg)
  BY EmptySeq
<1> QED BY <1>1, RunAssumption DEF NoClaim, Claim, Proc

\* The types and the phases of the initial records.
LEMMA RecordFacts ==
  /\ \A at \in LoopAt : [NewLoop EXCEPT !.at = at] \in Loop /\ LoopPhase([NewLoop EXCEPT !.at = at])
  /\ NewLoop \in Loop /\ LoopPhase(NewLoop) /\ NewLoop.at = "unused"
  /\ \A at \in LoopAt : [NewLoop EXCEPT !.at = at].at = at /\ [NewLoop EXCEPT !.at = at].held = <<>>
  /\ NewLive \in Live /\ NewLive.sent = <<>> /\ NewLive.accepted = <<>> /\ NewLive.deferred = <<>>
  /\ Idle \in Taking /\ Idle.step = "none"
<1>1. <<>> \in Seq(Msg) /\ Len(<<>>) = 0
  BY EmptySeq
<1>2. \A at \in LoopAt : /\ [NewLoop EXCEPT !.at = at].at = at
                         /\ [NewLoop EXCEPT !.at = at].held = <<>>
                         /\ [NewLoop EXCEPT !.at = at].opening = 0
  BY DEF NewLoop
<1>3. NewLoop \in Loop
  BY <1>1 DEF NewLoop, Loop, LoopAt
<1>4. ASSUME NEW at \in LoopAt
      PROVE  [NewLoop EXCEPT !.at = at] \in Loop /\ LoopPhase([NewLoop EXCEPT !.at = at])
  <2> DEFINE l == [NewLoop EXCEPT !.at = at]
  <2>1. l \in Loop
    BY <1>3 DEF Loop
  <2>2. l.held = <<>> /\ l.opening = 0
    BY <1>2
  <2> HIDE DEF l
  <2>3. LoopPhase(l)
    BY <1>1, <2>2 DEF LoopPhase
  <2> QED BY <2>1, <2>3 DEF l
<1>5. "unused" \in LoopAt /\ NewLoop = [NewLoop EXCEPT !.at = "unused"]
  BY DEF LoopAt, NewLoop
<1>6. NewLoop \in Loop /\ LoopPhase(NewLoop)
  BY <1>4, <1>5
<1>7. NewLoop.at = "unused" /\ Idle \in Taking /\ Idle.step = "none"
  BY DEF NewLoop, Idle, Taking, Queue
<1>8. NewLive \in Live /\ NewLive.sent = <<>> /\ NewLive.accepted = <<>> /\ NewLive.deferred = <<>>
  BY <1>1 DEF NewLive, Live
<1> QED BY <1>2, <1>4, <1>6, <1>7, <1>8

\* What is pending are messages.
LEMMA PendingTypes ==
  ASSUME TypeOK
  PROVE  /\ Pending \subseteq Msg
         /\ \A q \in Queue : ToSet(Peek(q)) \subseteq Msg /\ ToSet(claims[q].msgs) \subseteq Msg
         /\ \A S \in SUBSET ToSet(deliveries) : MessagesOf(S) \subseteq Msg
<1>1. \A q \in Queue : ToSet(Peek(q)) \subseteq Msg /\ ToSet(claims[q].msgs) \subseteq Msg
  BY QueueFacts, MembersFacts
<1>2. \A d \in ToSet(deliveries) : ToSet(d.msgs) \subseteq Msg
  <2>1. ToSet(deliveries) \subseteq Delivery
    BY MembersFacts DEF TypeOK
  <2>2. \A d \in ToSet(deliveries) : d.msgs \in Seq(Msg)
    BY <2>1 DEF Delivery
  <2> QED BY <2>2, MembersFacts
<1>3. \A S \in SUBSET ToSet(deliveries) : MessagesOf(S) \subseteq Msg
  BY <1>2 DEF MessagesOf
<1>4. \A e \in ToSet(liveSteered) : e.msg \in Msg
  <2>1. ToSet(liveSteered) \subseteq Steering
    BY MembersFacts DEF TypeOK
  <2> QED BY <2>1 DEF Steering
<1>5. Pending \subseteq Msg
  <2> DEFINE A == UNION {ToSet(Peek(q)) : q \in Queue}
             B == MessagesOf(ToSet(deliveries))
             C == {e.msg : e \in ToSet(liveSteered)}
  <2>1. A \subseteq Msg
    BY <1>1
  <2>2. B \subseteq Msg
    BY <1>3
  <2>3. C \subseteq Msg
    BY <1>4
  <2>4. Pending = A \cup B \cup C
    BY DEF Pending
  <2> HIDE DEF A, B, C
  <2> QED BY <2>1, <2>2, <2>3, <2>4
<1> QED BY <1>1, <1>3, <1>5

\* The bounds of the model are kept.
LEMMA BoundFacts ==
  ASSUME TypeOK
  PROVE  /\ Fault => faults' \in 0..MaxFaults
         /\ Edit => edits' \in 0..MaxEdits
BY BoundAssumption DEF TypeOK, Fault, Edit

\* What a queue edit leaves is typed, and a claim is kept or dropped.
LEMMA ReplaceTypes ==
  ASSUME TypeOK, NEW Q \in SUBSET Queue, NEW new \in [Queue -> Seq(Msg)], Replace(Q, new)
  PROVE  /\ queues' \in [Queue -> Seq(Msg)] /\ claims' \in [Queue -> Claim]
         /\ deliveries' \in Seq(Delivery) /\ unrecoverable' \subseteq Msg
         /\ \A q \in Queue : claims'[q] = NoClaim \/ claims'[q] = claims[q]
<1> DEFINE S == {d \in ToSet(deliveries) : d.queue \in Q}
<1>1. /\ queues' = new
      /\ claims' = [q \in Queue |-> IF q \in Q THEN NoClaim ELSE claims[q]]
      /\ deliveries' = Without(deliveries, S)
      /\ unrecoverable' = unrecoverable \union MessagesOf(S)
  BY DEF Replace
<1>2. S \in SUBSET ToSet(deliveries)
  OBVIOUS
<1> HIDE DEF S
<1>3. deliveries' \in Seq(Delivery)
  BY <1>1, WithoutFacts DEF TypeOK
<1>4. unrecoverable' \subseteq Msg
  BY <1>1, <1>2, PendingTypes DEF TypeOK
<1>5. claims' \in [Queue -> Claim] /\ \A q \in Queue : claims'[q] = NoClaim \/ claims'[q] = claims[q]
  BY <1>1, NoClaimFacts DEF TypeOK
<1> QED BY <1>1, <1>3, <1>4, <1>5

\* The edits of the user
LEMMA EditTypes ==
  ASSUME TypeOK,
         NEW Q \in SUBSET Queue, NEW new \in [Queue -> Seq(Msg)], Replace(Q, new), Edit,
         order' \in [Queue -> Seq(Msg)], taken' \subseteq Msg,
         UNCHANGED <<liveSteered, withdrawn, runVars, recorded, late, faults>>
  PROVE  TypeOK'
<1>1. /\ queues' \in [Queue -> Seq(Msg)] /\ claims' \in [Queue -> Claim]
      /\ deliveries' \in Seq(Delivery) /\ unrecoverable' \subseteq Msg
  BY ReplaceTypes
<1>2. edits' \in 0..MaxEdits
  BY BoundFacts
<1> QED BY <1>1, <1>2 DEF TypeOK, runVars

\* A new run is typed.
LEMMA BeginTypes ==
  ASSUME TypeOK, NEW r \in Run, NEW at \in {"open", "start"}, Begin(r, at)
  PROVE  TypeOK'
<1>1. /\ controller' = r /\ aborted' = aborted \ {r}
      /\ withdrawn' = [m \in Msg |-> IF withdrawn[m] = r THEN NoRun ELSE withdrawn[m]]
      /\ loop' = [loop EXCEPT ![r] = [NewLoop EXCEPT !.at = at]]
      /\ live' = [live EXCEPT ![r] = NewLive]
      /\ stream' = [stream EXCEPT ![r] = <<>>]
      /\ UNCHANGED <<queues, claims, deliveries, liveSteered, taking, recorded, order, taken,
                     unrecoverable, late, faults, edits>>
  BY DEF Begin, heldVars, histVars
<1>2. [NewLoop EXCEPT !.at = at] \in Loop /\ NewLive \in Live /\ <<>> \in Seq(Msg)
  <2>1. at \in LoopAt
    BY DEF LoopAt, PollSites
  <2> QED BY <2>1, RecordFacts, EmptySeq
<1>3. /\ withdrawn' \in [Msg -> Run \union {NoRun}] /\ aborted' \subseteq Run
      /\ loop' \in [Run -> Loop] /\ live' \in [Run -> Live] /\ stream' \in [Run -> Seq(Msg)]
  BY <1>1, <1>2 DEF TypeOK
<1> QED BY <1>1, <1>3 DEF TypeOK

\* So is what the steps of the user and the session leave.
LEMMA UserTypes ==
  ASSUME TypeOK, UserStep
  PROVE  TypeOK'
<1>1. ASSUME NEW q \in Queue, Post(q) PROVE TypeOK'
  <2> DEFINE m == Cardinality(Posted) + 1
  <2>1. m \in Msg
    BY <1>1, PostedFacts, BoundAssumption DEF Post, Msg
  <2>2. queues' = [queues EXCEPT ![q] = Append(@, m)] /\ order' = [order EXCEPT ![q] = Append(@, m)]
    BY <1>1 DEF Post
  <2> HIDE DEF m
  <2>3. Append(queues[q], m) \in Seq(Msg) /\ Append(order[q], m) \in Seq(Msg)
    BY <2>1, AppendProperties DEF TypeOK
  <2>4. queues' \in [Queue -> Seq(Msg)] /\ order' \in [Queue -> Seq(Msg)]
    BY <2>2, <2>3 DEF TypeOK
  <2> QED BY <1>1, <2>4 DEF Post, TypeOK, runVars
<1>2. ASSUME NEW q \in Queue, NEW i, TakeQueuedMessage(q, i) PROVE TypeOK'
  <2> DEFINE new == [queues EXCEPT ![q] = RemoveAt(Peek(q), i)]
  <2>1. /\ i \in DOMAIN Peek(q) /\ Replace({q}, new) /\ Edit /\ taken' = taken \union {Peek(q)[i]}
        /\ UNCHANGED <<liveSteered, withdrawn, runVars, recorded, order, late, faults>>
    BY <1>2 DEF TakeQueuedMessage
  <2>2. Peek(q) \in Seq(Msg)
    BY QueueFacts
  <2>3. RemoveAt(Peek(q), i) \in Seq(Msg)
    BY <2>1, <2>2, TimesRemoved
  <2>4. Peek(q)[i] \in Msg
    BY <2>1, <2>2, ElementOfSeq, LenProperties
  <2>5. new \in [Queue -> Seq(Msg)] /\ {q} \in SUBSET Queue
    BY <2>3 DEF TypeOK
  <2>6. order' \in [Queue -> Seq(Msg)] /\ taken' \subseteq Msg
    BY <2>1, <2>4 DEF TypeOK
  <2>7. Replace({q}, new) /\ Edit /\ UNCHANGED <<liveSteered, withdrawn, runVars, recorded, late, faults>>
    BY <2>1
  <2> HIDE DEF new
  <2> QED BY <2>5, <2>6, <2>7, EditTypes
<1>3. ASSUME PopLastQueuedMessage PROVE TypeOK'
  <2>1. PICK q \in Queue :
          /\ Peek(q) # <<>>
          /\ Replace(Queue, [x \in Queue |-> IF x = q THEN Front(Peek(x)) ELSE Peek(x)])
          /\ taken' = taken \union {Last(Peek(q))}
    BY <1>3 DEF PopLastQueuedMessage
  <2>2. Edit /\ UNCHANGED <<liveSteered, withdrawn, runVars, recorded, order, late, faults>>
    BY <1>3 DEF PopLastQueuedMessage
  <2> DEFINE new == [x \in Queue |-> IF x = q THEN Front(Peek(x)) ELSE Peek(x)]
  <2>3. \A x \in Queue : Peek(x) \in Seq(Msg)
    BY QueueFacts
  <2>4. Front(Peek(q)) \in Seq(Msg) /\ Last(Peek(q)) \in Msg
    BY <2>1, <2>3, TimesFront
  <2>5. new \in [Queue -> Seq(Msg)]
    BY <2>3, <2>4
  <2>6. order' \in [Queue -> Seq(Msg)] /\ taken' \subseteq Msg
    BY <2>1, <2>2, <2>4 DEF TypeOK
  <2>7. Replace(Queue, new) /\ Queue \in SUBSET Queue
    BY <2>1
  <2>8. UNCHANGED <<liveSteered, withdrawn, runVars, recorded, late, faults>>
    BY <2>2
  <2> HIDE DEF new
  <2> QED BY <2>2, <2>5, <2>6, <2>7, <2>8, EditTypes
<1>4. ASSUME NEW i, PromoteQueuedMessage(i) PROVE TypeOK'
  <2> DEFINE f == "followUp"
             m == Peek(f)[i]
             new == [q \in Queue |->
                       IF q = "steering" THEN Append(queues[q], m) ELSE RemoveAt(Peek(q), i)]
  <2>1. /\ i \in DOMAIN Peek(f) /\ Replace({f}, new) /\ Edit
        /\ order' = [q \in Queue |->
                       IF q = "steering" THEN Append(order[q], m) ELSE Without(order[q], {m})]
        /\ UNCHANGED <<liveSteered, withdrawn, runVars, recorded, taken, late, faults>>
    BY <1>4 DEF PromoteQueuedMessage
  <2>2. Peek(f) \in Seq(Msg)
    BY QueueFacts DEF Queue
  <2>3. RemoveAt(Peek(f), i) \in Seq(Msg)
    BY <2>1, <2>2, TimesRemoved
  <2>4. m \in Msg
    BY <2>1, <2>2, ElementOfSeq, LenProperties
  <2>5. new \in [Queue -> Seq(Msg)] /\ {f} \in SUBSET Queue
    <3> HIDE DEF m
    <3>1. \A q \in Queue : Append(queues[q], m) \in Seq(Msg)
      BY <2>4, AppendProperties DEF TypeOK
    <3>2. \A q \in Queue : q # "steering" => q = f
      BY DEF Queue
    <3>3. {f} \in SUBSET Queue
      BY DEF Queue
    <3> HIDE DEF f
    <3> QED BY <2>3, <3>1, <3>2, <3>3
  <2>6. order' \in [Queue -> Seq(Msg)] /\ taken' \subseteq Msg
    <3> HIDE DEF m
    <3>1. \A q \in Queue : Append(order[q], m) \in Seq(Msg) /\ Without(order[q], {m}) \in Seq(Msg)
      BY <2>4, AppendProperties, WithoutFacts DEF TypeOK
    <3>2. taken' \subseteq Msg
      BY <2>1 DEF TypeOK
    <3> QED BY <2>1, <3>1, <3>2
  <2>7. /\ Replace({f}, new) /\ Edit
        /\ UNCHANGED <<liveSteered, withdrawn, runVars, recorded, late, faults>>
    BY <2>1
  <2> HIDE DEF new, f, m
  <2> QED BY <2>5, <2>6, <2>7, EditTypes
<1>5. ASSUME ClearQueue PROVE TypeOK'
  <2> DEFINE new == [q \in Queue |-> <<>>]
  <2>1. /\ Replace(Queue, new) /\ Edit
        /\ taken' = taken \union UNION {ToSet(Peek(q)) : q \in Queue}
        /\ UNCHANGED <<liveSteered, withdrawn, runVars, recorded, order, late, faults>>
    BY <1>5 DEF ClearQueue
  <2>2. new \in [Queue -> Seq(Msg)] /\ Queue \in SUBSET Queue
    BY EmptySeq
  <2>3. order' \in [Queue -> Seq(Msg)] /\ taken' \subseteq Msg
    BY <2>1, PendingTypes DEF TypeOK
  <2>4. UNCHANGED <<liveSteered, withdrawn, runVars, recorded, late, faults>>
    BY <2>1
  <2> HIDE DEF new
  <2> QED BY <2>1, <2>2, <2>3, <2>4, EditTypes
<1>6. ASSUME queues' = [q \in Queue |-> <<>>], claims' = [q \in Queue |-> NoClaim],
             deliveries' = <<>>, liveSteered' = <<>>
      PROVE  /\ queues' \in [Queue -> Seq(Msg)] /\ claims' \in [Queue -> Claim]
             /\ deliveries' \in Seq(Delivery) /\ liveSteered' \in Seq(Steering)
  BY <1>6, EmptySeq, NoClaimFacts
<1>7. ASSUME ClearQueueForInterrupt PROVE TypeOK'
  <2>1. /\ withdrawn' = Marked /\ taken' = taken \union Pending /\ Edit
        /\ UNCHANGED <<controller, aborted, taking, loop, live, stream, recorded, order, unrecoverable,
                       late, faults>>
        /\ queues' \in [Queue -> Seq(Msg)] /\ claims' \in [Queue -> Claim]
        /\ deliveries' \in Seq(Delivery) /\ liveSteered' \in Seq(Steering)
    BY <1>6, <1>7 DEF ClearQueueForInterrupt, runVars
  <2>2. Marked \in [Msg -> Run \union {NoRun}]
    <3>1. ASSUME NEW m \in Msg PROVE Marked[m] \in Run \union {NoRun}
      <4> DEFINE e0 == CHOOSE e \in ToSet(liveSteered) : e.msg = m
                 d0 == CHOOSE d \in ToSet(deliveries) : m \in ToSet(d.msgs)
      <4>1. (\E e \in ToSet(liveSteered) : e.msg = m) => e0 \in ToSet(liveSteered)
        OBVIOUS
      <4>2. (\E d \in ToSet(deliveries) : m \in ToSet(d.msgs)) => d0 \in ToSet(deliveries)
        OBVIOUS
      <4>3. Marked[m] = IF \E e \in ToSet(liveSteered) : e.msg = m THEN e0.run
                        ELSE IF \E d \in ToSet(deliveries) : m \in ToSet(d.msgs) THEN d0.run
                        ELSE withdrawn[m]
        BY DEF Marked
      <4> HIDE DEF e0, d0
      <4>4. ToSet(deliveries) \subseteq Delivery /\ ToSet(liveSteered) \subseteq Steering
        BY MembersFacts DEF TypeOK
      <4>5. /\ \A e \in ToSet(liveSteered) : e.run \in Run
            /\ \A d \in ToSet(deliveries) : d.run \in Run
        BY <4>4 DEF Delivery, Steering
      <4>6. withdrawn[m] \in Run \union {NoRun}
        BY DEF TypeOK
      <4> QED BY <4>1, <4>2, <4>3, <4>5, <4>6
    <3>2. Marked = [m \in Msg |-> Marked[m]]
      BY DEF Marked
    <3> QED BY <3>1, <3>2
  <2>3. taken' \subseteq Msg /\ edits' \in 0..MaxEdits
    BY <2>1, PendingTypes, BoundFacts DEF TypeOK
  <2> QED BY <2>1, <2>2, <2>3 DEF TypeOK
<1>8. ASSUME Abort PROVE TypeOK'
  <2>1. faults' \in 0..MaxFaults /\ aborted' \subseteq Run
    BY <1>8, BoundFacts DEF Abort, TypeOK
  <2> QED BY <1>8, <2>1 DEF Abort, TypeOK, heldVars
<1>9. ASSUME Reset PROVE TypeOK'
  <2>1. /\ taken' = taken \union Pending /\ Edit /\ controller' = NoRun
        /\ UNCHANGED <<withdrawn, aborted, taking, loop, live, stream, recorded,
                       order, unrecoverable, late, faults>>
        /\ queues' \in [Queue -> Seq(Msg)] /\ claims' \in [Queue -> Claim]
        /\ deliveries' \in Seq(Delivery) /\ liveSteered' \in Seq(Steering)
    BY <1>6, <1>9 DEF Reset
  <2>2. taken' \subseteq Msg /\ edits' \in 0..MaxEdits
    BY <2>1, PendingTypes, BoundFacts DEF TypeOK
  <2> QED BY <2>1, <2>2 DEF TypeOK
<1>10. ASSUME NEW r \in Run, Prompt(r) PROVE TypeOK'
  BY <1>10, BeginTypes DEF Prompt
<1> QED BY <1>1, <1>2, <1>3, <1>4, <1>5, <1>7, <1>8, <1>9, <1>10 DEF UserStep
-----------------------------------------------------------------------------
(* Where the runs are *)

\* A run that a step does not move stays where it can be.
LEMMA PhaseKept ==
  ASSUME NEW r \in Run, RunPhase(r),
         loop'[r] = loop[r], live'[r] = live[r],
         taking'[<<r, "loop">>] = taking[<<r, "loop">>],
         taking'[<<r, "live">>] = taking[<<r, "live">>],
         r \notin aborted' => r \notin aborted,
         r = controller => r = controller' \/ r \in aborted' \/ loop[r].at = "unused",
         r \in aborted => r \in aborted'
  PROVE  RunPhase(r)'
<1>1. LoopPhase(loop'[r]) /\ LivePhase(taking'[<<r, "live">>], live'[r])
  BY DEF RunPhase
<1>2. /\ taking'[<<r, "loop">>].step # "none" => loop'[r].at \in PollSites
      /\ loop'[r].at \notin {"unused", "respond", "ended"} =>
           /\ taking'[<<r, "live">>].step = "none"
           /\ live'[r].sent = <<>> /\ live'[r].accepted = <<>> /\ live'[r].deferred = <<>>
  BY DEF RunPhase
<1>3. r \notin aborted' /\ loop'[r].at # "respond" =>
        taking'[<<r, "live">>].step = "none" /\ live'[r].sent = <<>>
  BY DEF RunPhase
<1>4. r = controller' \/ r \in aborted' \/ loop'[r].at = "unused"
  BY DEF RunPhase
<1> QED BY <1>1, <1>2, <1>3, <1>4 DEF RunPhase

\* A claim that is kept, dropped or made of messages is not empty.
LEMMA ClaimsKept ==
  ASSUME Phases,
         \A q \in Queue : \/ claims'[q].by \notin Proc
                          \/ claims'[q] = claims[q]
                          \/ claims'[q].msgs # <<>>
  PROVE  \A q \in Queue : claims'[q].by \in Proc => claims'[q].msgs # <<>>
BY DEF Phases

\* A dequeuer is done: its run's records and those of the others.
LEMMA ReturnKeeps ==
  ASSUME TypeOK, Phases, NEW p \in Proc, NEW b \in Seq(Msg), Return(p, b),
         p[2] = "loop" => loop[p[1]].at \in PollSites,
         p[2] = "live" => taking[p].step # "none",
         b = <<>> \/ p[1] \notin aborted,
         UNCHANGED <<controller, aborted>>
  PROVE  /\ taking' \in [Proc -> Taking] /\ loop' \in [Run -> Loop]
         /\ live' \in [Run -> Live] /\ stream' \in [Run -> Seq(Msg)]
         /\ \A u \in Run : RunPhase(u)'
<1> DEFINE r == p[1]
<1>0. r \in Run /\ p[2] \in {"loop", "live"} /\ p = <<r, p[2]>>
  BY ProcFacts
<1>1. /\ taking' = [taking EXCEPT ![p] = Idle] /\ stream' = stream
      /\ taking' \in [Proc -> Taking] /\ stream' \in [Run -> Seq(Msg)]
  BY RecordFacts DEF Return, TypeOK
<1>2. loop[r] \in Loop /\ live[r] \in Live /\ RunPhase(r)
  BY <1>0 DEF TypeOK, Phases
<1>3. \A u \in Run : <<u, "loop">> \in Proc /\ <<u, "live">> \in Proc
  BY DEF Proc
<1>4. taking \in [Proc -> Taking] /\ taking'[p].step = "none"
  BY <1>1, RecordFacts DEF TypeOK
<1> HIDE DEF r
<1>c. \A x \in Proc : x # p => taking'[x] = taking[x]
  BY <1>1, <1>4
<1>d. \A u \in Run \ {r} : <<u, "loop">> # p /\ <<u, "live">> # p
  BY <1>0
<1>5. \A u \in Run \ {r} : /\ taking'[<<u, "loop">>] = taking[<<u, "loop">>]
                           /\ taking'[<<u, "live">>] = taking[<<u, "live">>]
  BY <1>3, <1>c, <1>d
<1>6. CASE p[2] = "loop"
  <2>1. loop' = [loop EXCEPT ![r] = AfterPoll(@, b)] /\ live' = live
    BY <1>6 DEF Return, r
  <2>2. LoopPhase(loop[r]) /\ loop[r].at \in PollSites
    BY <1>2, <1>6 DEF RunPhase, r
  <2> DEFINE l == AfterPoll(loop[r], b)
  <2>3. l \in Loop /\ LoopPhase(l) /\ l.at \notin {"unused", "respond"}
    BY <1>2, <2>2, AfterPollFacts
  <2>4. loop' = [loop EXCEPT ![r] = l]
    BY <2>1
  <2> HIDE DEF l
  <2>5. loop' \in [Run -> Loop] /\ loop'[r] = l /\ \A u \in Run \ {r} : loop'[u] = loop[u]
    BY <1>0, <2>3, <2>4 DEF TypeOK
  <2>6. ASSUME NEW u \in Run \ {r} PROVE RunPhase(u)'
    <3>1. RunPhase(u) /\ loop'[u] = loop[u] /\ live'[u] = live[u]
      BY <2>1, <2>5 DEF Phases
    <3> QED BY <1>5, <3>1, PhaseKept
  <2>7. RunPhase(r)'
    <3>1. /\ loop[r].at \notin {"unused", "respond", "ended"}
          /\ p = <<r, "loop">>
          /\ taking'[<<r, "loop">>].step = "none" /\ taking'[<<r, "live">>] = taking[<<r, "live">>]
      BY <1>0, <1>1, <1>3, <1>4, <1>6, <2>2 DEF PollSites
    <3>2. /\ taking[<<r, "live">>].step = "none"
          /\ live[r].sent = <<>> /\ live[r].accepted = <<>> /\ live[r].deferred = <<>>
          /\ LivePhase(taking[<<r, "live">>], live[r])
          /\ r = controller \/ r \in aborted
      BY <1>2, <3>1 DEF RunPhase
    <3> QED BY <2>1, <2>3, <2>5, <3>1, <3>2 DEF RunPhase
  <2> QED BY <1>1, <2>1, <2>5, <2>6, <2>7 DEF TypeOK
<1>7. CASE p[2] = "live"
  <2>1. live' = [live EXCEPT ![r].sent = b] /\ loop' = loop
    BY <1>7 DEF Return, r
  <2>2. /\ live' \in [Run -> Live]
        /\ live'[r].sent = b /\ live'[r].accepted = live[r].accepted
        /\ live'[r].deferred = live[r].deferred
        /\ \A u \in Run \ {r} : live'[u] = live[u]
    <3>1. /\ [live[r] EXCEPT !.sent = b] \in Live
          /\ [live[r] EXCEPT !.sent = b].sent = b
          /\ [live[r] EXCEPT !.sent = b].accepted = live[r].accepted
          /\ [live[r] EXCEPT !.sent = b].deferred = live[r].deferred
      BY <1>2 DEF Live
    <3>2. live' = [live EXCEPT ![r] = [live[r] EXCEPT !.sent = b]]
      BY <2>1
    <3> QED BY <1>0, <3>1, <3>2 DEF TypeOK
  <2>3. /\ taking[<<r, "live">>].step # "none" /\ p = <<r, "live">>
        /\ taking'[<<r, "live">>].step = "none" /\ taking'[<<r, "loop">>] = taking[<<r, "loop">>]
    <3>1. p = <<r, "live">>
      BY <1>0, <1>7
    <3>2. <<r, "loop">> # p
      BY <3>1
    <3>3. taking[<<r, "live">>].step # "none" /\ taking'[<<r, "live">>].step = "none"
      BY <1>4, <1>7, <3>1
    <3> QED BY <1>0, <1>3, <1>c, <3>1, <3>2, <3>3
  <2>4. /\ live[r].deferred = <<>> /\ live[r].sent = <<>> /\ LoopPhase(loop[r])
        /\ taking[<<r, "loop">>].step # "none" => loop[r].at \in PollSites
        /\ loop[r].at \in {"unused", "respond", "ended"}
        /\ r \notin aborted => loop[r].at = "respond"
        /\ r = controller \/ r \in aborted \/ loop[r].at = "unused"
    BY <1>2, <2>3 DEF RunPhase, LivePhase
  <2>5. LivePhase(taking'[<<r, "live">>], live'[r])
    BY <2>2, <2>3, <2>4 DEF LivePhase
  <2>6. RunPhase(r)'
    BY <2>1, <2>2, <2>3, <2>4, <2>5 DEF RunPhase
  <2>7. ASSUME NEW u \in Run \ {r} PROVE RunPhase(u)'
    <3>1. RunPhase(u) /\ loop'[u] = loop[u] /\ live'[u] = live[u]
      BY <2>1, <2>2 DEF Phases
    <3> QED BY <1>5, <3>1, PhaseKept
  <2> QED BY <1>1, <2>1, <2>2, <2>6, <2>7 DEF TypeOK
<1> QED BY <1>0, <1>6, <1>7

\* The same when it throws: the loop ends, the pump stops.
LEMMA ThrowKeeps ==
  ASSUME TypeOK, Phases, NEW p \in Proc, Throw(p), taking[p].step # "none",
         aborted' \in {aborted, aborted \union {p[1]}}, controller' = controller
  PROVE  /\ taking' \in [Proc -> Taking] /\ loop' \in [Run -> Loop]
         /\ live' \in [Run -> Live] /\ stream' \in [Run -> Seq(Msg)]
         /\ \A u \in Run : RunPhase(u)'
<1> DEFINE r == p[1]
<1>0. r \in Run /\ p[2] \in {"loop", "live"} /\ p = <<r, p[2]>>
  BY ProcFacts
<1>1. taking' = [taking EXCEPT ![p] = Idle] /\ taking' \in [Proc -> Taking]
  BY RecordFacts DEF Throw, TypeOK
<1>2. /\ loop[r] \in Loop /\ live[r] \in Live /\ RunPhase(r)
      /\ p[2] = "loop" => loop[r].at \in PollSites
  BY <1>0, Dequeuer DEF TypeOK, Phases
<1>3. \A u \in Run : <<u, "loop">> \in Proc /\ <<u, "live">> \in Proc
  BY DEF Proc
<1>4. taking \in [Proc -> Taking] /\ taking'[p].step = "none"
  BY <1>1, RecordFacts DEF TypeOK
<1>b. aborted \subseteq aborted' /\ \A u \in Run \ {r} : u \in aborted' => u \in aborted
  OBVIOUS
<1> HIDE DEF r
<1>c. \A x \in Proc : x # p => taking'[x] = taking[x]
  BY <1>1, <1>4
<1>d. \A u \in Run \ {r} : <<u, "loop">> # p /\ <<u, "live">> # p
  BY <1>0
<1>5. \A u \in Run \ {r} : /\ taking'[<<u, "loop">>] = taking[<<u, "loop">>]
                           /\ taking'[<<u, "live">>] = taking[<<u, "live">>]
  BY <1>3, <1>c, <1>d
<1>6. CASE p[2] = "loop"
  <2> DEFINE l == [NewLoop EXCEPT !.at = "ended"]
             s == SubSeq(loop[r].held, 1, loop[r].opening)
             t == Joined(stream[r], s)
  <2>1. loop' = [loop EXCEPT ![r] = l] /\ stream' = [stream EXCEPT ![r] = t] /\ live' = live
    BY <1>6 DEF Throw, r, Joined
  <2>2. l \in Loop /\ LoopPhase(l) /\ l.at = "ended"
    BY RecordFacts DEF LoopAt
  <2>3. t \in Seq(Msg)
    <3>1. /\ loop[r].held \in Seq(Msg) /\ loop[r].opening \in Nat /\ Len(loop[r].held) \in Nat
          /\ loop[r].opening <= Len(loop[r].held) /\ stream[r] \in Seq(Msg)
      BY <1>0, <1>2, LenProperties DEF Loop, RunPhase, LoopPhase, TypeOK
    <3>2. loop[r].opening \in 0..Len(loop[r].held)
      BY <3>1
    <3>3. s \in Seq(Msg)
      BY <3>1, <3>2, Parts
    <3> HIDE DEF s
    <3> QED BY <3>1, <3>3, JoinedFacts
  <2> HIDE DEF l, t
  <2>4. /\ loop' \in [Run -> Loop] /\ loop'[r] = l /\ \A u \in Run \ {r} : loop'[u] = loop[u]
        /\ stream' \in [Run -> Seq(Msg)]
    BY <1>0, <2>1, <2>2, <2>3 DEF TypeOK
  <2>6. ASSUME NEW u \in Run \ {r} PROVE RunPhase(u)'
    <3>1. RunPhase(u) /\ loop'[u] = loop[u] /\ live'[u] = live[u]
      BY <2>1, <2>4 DEF Phases
    <3>2. controller' = controller
      OBVIOUS
    <3> QED BY <1>5, <1>b, <3>1, <3>2, PhaseKept
  <2>7. RunPhase(r)'
    <3>1. /\ loop[r].at \notin {"unused", "respond", "ended"}
          /\ p = <<r, "loop">>
          /\ taking'[<<r, "loop">>].step = "none" /\ taking'[<<r, "live">>] = taking[<<r, "live">>]
      BY <1>0, <1>1, <1>2, <1>3, <1>4, <1>6 DEF PollSites
    <3>2. /\ taking[<<r, "live">>].step = "none"
          /\ live[r].sent = <<>> /\ live[r].accepted = <<>> /\ live[r].deferred = <<>>
          /\ LivePhase(taking[<<r, "live">>], live[r])
          /\ r = controller \/ r \in aborted
      BY <1>2, <3>1 DEF RunPhase
    <3>3. r = controller' \/ r \in aborted'
      BY <1>b, <3>2
    <3> QED BY <2>1, <2>2, <2>4, <3>1, <3>2, <3>3 DEF RunPhase
  <2> QED BY <1>1, <2>1, <2>4, <2>6, <2>7 DEF TypeOK
<1>7. CASE p[2] = "live"
  <2>1. live' = [live EXCEPT ![r].stopped = TRUE] /\ loop' = loop /\ stream' = stream
    BY <1>7 DEF Throw, r
  <2>2. /\ live' \in [Run -> Live]
        /\ live'[r].sent = live[r].sent /\ live'[r].accepted = live[r].accepted
        /\ live'[r].deferred = live[r].deferred
        /\ \A u \in Run \ {r} : live'[u] = live[u]
    <3>1. /\ [live[r] EXCEPT !.stopped = TRUE] \in Live
          /\ [live[r] EXCEPT !.stopped = TRUE].sent = live[r].sent
          /\ [live[r] EXCEPT !.stopped = TRUE].accepted = live[r].accepted
          /\ [live[r] EXCEPT !.stopped = TRUE].deferred = live[r].deferred
      BY <1>2 DEF Live
    <3>2. live' = [live EXCEPT ![r] = [live[r] EXCEPT !.stopped = TRUE]]
      BY <2>1
    <3> QED BY <1>0, <3>1, <3>2 DEF TypeOK
  <2>3. /\ taking[<<r, "live">>].step # "none" /\ p = <<r, "live">>
        /\ taking'[<<r, "live">>].step = "none" /\ taking'[<<r, "loop">>] = taking[<<r, "loop">>]
    <3>1. p = <<r, "live">>
      BY <1>0, <1>7
    <3>2. <<r, "loop">> # p
      BY <3>1
    <3>3. taking[<<r, "live">>].step # "none" /\ taking'[<<r, "live">>].step = "none"
      BY <1>4, <1>7, <3>1
    <3> QED BY <1>0, <1>3, <1>c, <3>1, <3>2, <3>3
  <2>4. /\ live[r].deferred = <<>> /\ live[r].sent = <<>> /\ LoopPhase(loop[r])
        /\ taking[<<r, "loop">>].step # "none" => loop[r].at \in PollSites
        /\ loop[r].at \in {"unused", "respond", "ended"}
        /\ r = controller \/ r \in aborted \/ loop[r].at = "unused"
    BY <1>2, <2>3 DEF RunPhase, LivePhase
  <2>5. LivePhase(taking'[<<r, "live">>], live'[r])
    BY <2>2, <2>3, <2>4 DEF LivePhase
  <2>p. r = controller' \/ r \in aborted' \/ loop'[r].at = "unused"
    BY <1>b, <2>1, <2>4
  <2>6. RunPhase(r)'
    BY <2>1, <2>2, <2>3, <2>4, <2>5, <2>p DEF RunPhase, PollSites
  <2>7. ASSUME NEW u \in Run \ {r} PROVE RunPhase(u)'
    <3>1. RunPhase(u) /\ loop'[u] = loop[u] /\ live'[u] = live[u]
      BY <2>1, <2>2 DEF Phases
    <3>2. controller' = controller
      OBVIOUS
    <3> QED BY <1>5, <1>b, <3>1, <3>2, PhaseKept
  <2> QED BY <1>1, <2>1, <2>2, <2>6, <2>7 DEF TypeOK
<1> QED BY <1>0, <1>6, <1>7
-----------------------------------------------------------------------------
(* The steps of the dequeuers *)

\* What a step of a dequeuer leaves alone.
LEMMA DequeuerKept ==
  ASSUME TypeOK,
         UNCHANGED <<withdrawn, controller, recorded, order, taken, unrecoverable, late, edits>>,
         queues' \in [Queue -> Seq(Msg)], claims' \in [Queue -> Claim],
         deliveries' \in Seq(Delivery), liveSteered' \in Seq(Steering),
         aborted' \subseteq Run, faults' \in 0..MaxFaults,
         taking' \in [Proc -> Taking], loop' \in [Run -> Loop],
         live' \in [Run -> Live], stream' \in [Run -> Seq(Msg)]
  PROVE  TypeOK'
BY DEF TypeOK

\* What a handed-over batch becomes.
LEMMA HandOverTypes ==
  ASSUME TypeOK, NEW p \in Proc, NEW q \in Queue, NEW b \in Seq(Msg), b # <<>>, HandOver(p, q, b)
  PROVE  deliveries' \in Seq(Delivery) /\ liveSteered' \in Seq(Steering)
<1>0. p[1] \in Run /\ deliveries \in Seq(Delivery) /\ liveSteered \in Seq(Steering)
  BY ProcFacts DEF TypeOK
<1>1. CASE p[2] = "loop"
  <2> DEFINE d == [queue |-> q, run |-> p[1], msgs |-> b]
  <2>1. d \in Delivery
    BY <1>0 DEF Delivery
  <2>2. deliveries' = Append(deliveries, d) /\ liveSteered' = liveSteered
    BY <1>1 DEF HandOver
  <2> HIDE DEF d
  <2> QED BY <1>0, <2>1, <2>2, AppendProperties
<1>2. CASE p[2] # "loop"
  <2>1. liveSteered' = Joined(liveSteered, Steer(p[1], b)) /\ deliveries' = deliveries
    BY <1>2 DEF HandOver, Joined
  <2> QED BY <1>0, <2>1, SteerFacts
<1> QED BY <1>1, <1>2

\* What a restored claim becomes.
LEMMA RestoreTypes ==
  ASSUME TypeOK, NEW p, NEW q \in Queue, RestoreClaim(p, q)
  PROVE  /\ queues' \in [Queue -> Seq(Msg)] /\ claims' \in [Queue -> Claim]
         /\ \A u \in Queue : claims'[u].by \notin Proc \/ claims'[u] = claims[u]
<1>1. CASE claims[q].by = p
  <2>1. queues' = [queues EXCEPT ![q] = Peek(q)] /\ claims' = [claims EXCEPT ![q] = NoClaim]
    BY <1>1 DEF RestoreClaim, Restored, Peek
  <2>2. Peek(q) \in Seq(Msg)
    BY QueueFacts
  <2>3. queues' \in [Queue -> Seq(Msg)] /\ claims' \in [Queue -> Claim]
    BY <2>1, <2>2, NoClaimFacts DEF TypeOK
  <2>4. \A u \in Queue : claims'[u] = NoClaim \/ claims'[u] = claims[u]
    BY <2>1 DEF TypeOK
  <2> QED BY <2>3, <2>4, NoClaimFacts
<1>2. CASE claims[q].by # p
  BY <1>2 DEF RestoreClaim, TypeOK
<1> QED BY <1>1, <1>2

\* AfterHooks leaves every run where it can be.
LEMMA HooksTypes ==
  ASSUME TypeOK, Phases, NEW p \in Proc, AfterHooks(p)
  PROVE  TypeOK' /\ Phases'
<1> DEFINE q == taking[p].queue
<1>0. /\ q \in Queue /\ taking[p].step = "hooks" /\ taking[p] \in Taking
      /\ UNCHANGED <<withdrawn, controller, aborted, recorded, order, taken, unrecoverable, late, edits>>
  BY DEF TypeOK, Taking, AfterHooks
<1>1. /\ p[2] = "loop" => loop[p[1]].at \in PollSites
      /\ taking[p].step # "none" /\ <<>> \in Seq(Msg)
      /\ p[1] \in Run /\ p = <<p[1], p[2]>> /\ p[2] \in {"loop", "live"}
      /\ aborted' \subseteq Run
  BY <1>0, Dequeuer, EmptySeq, ProcFacts DEF TypeOK
<1>2. ASSUME Return(p, <<>>), UNCHANGED <<heldVars, faults>>
      PROVE  TypeOK' /\ Phases'
  <2>1. /\ taking' \in [Proc -> Taking] /\ loop' \in [Run -> Loop]
        /\ live' \in [Run -> Live] /\ stream' \in [Run -> Seq(Msg)]
        /\ \A u \in Run : RunPhase(u)'
    BY <1>0, <1>1, <1>2, ReturnKeeps
  <2>2. /\ queues' \in [Queue -> Seq(Msg)] /\ claims' \in [Queue -> Claim]
        /\ deliveries' \in Seq(Delivery) /\ liveSteered' \in Seq(Steering)
        /\ faults' \in 0..MaxFaults /\ claims' = claims
    BY <1>2 DEF TypeOK, heldVars
  <2>3. TypeOK'
    BY <1>0, <1>1, <2>1, <2>2, DequeuerKept
  <2> QED BY <2>1, <2>2, <2>3, ClaimsKept DEF Phases
<1>3. ASSUME Fault, Throw(p), UNCHANGED heldVars PROVE TypeOK' /\ Phases'
  <2>1. /\ taking' \in [Proc -> Taking] /\ loop' \in [Run -> Loop]
        /\ live' \in [Run -> Live] /\ stream' \in [Run -> Seq(Msg)]
        /\ \A u \in Run : RunPhase(u)'
    BY <1>0, <1>1, <1>3, ThrowKeeps
  <2>2. /\ queues' \in [Queue -> Seq(Msg)] /\ claims' \in [Queue -> Claim]
        /\ deliveries' \in Seq(Delivery) /\ liveSteered' \in Seq(Steering)
        /\ faults' \in 0..MaxFaults /\ claims' = claims
    BY <1>3, BoundFacts DEF TypeOK, heldVars
  <2>3. TypeOK'
    BY <1>0, <1>1, <2>1, <2>2, DequeuerKept
  <2> QED BY <2>1, <2>2, <2>3, ClaimsKept DEF Phases
<1>4. ASSUME p[1] \notin aborted, NEW n \in {1, Len(queues[q])} \cap DOMAIN queues[q],
             NEW w, w = SubSeq(queues[q], n + 1, Len(queues[q])),
             NEW b, b = SubSeq(queues[q], 1, n),
             queues' = [queues EXCEPT ![q] = w],
             faults' = faults
      PROVE  /\ b \in Seq(Msg) /\ b # <<>> /\ queues' \in [Queue -> Seq(Msg)]
             /\ faults' \in 0..MaxFaults
  <2>1. b \in Seq(Msg) /\ b # <<>> /\ w \in Seq(Msg)
    BY <1>0, <1>4, BatchFacts
  <2> QED BY <1>0, <1>4, <2>1 DEF TypeOK
<1>5. ASSUME p[1] \notin aborted, NEW n \in {1, Len(queues[q])} \cap DOMAIN queues[q],
             NEW b, b = SubSeq(queues[q], 1, n),
             queues' = [queues EXCEPT ![q] = SubSeq(@, n + 1, Len(@))],
             claims' = [claims EXCEPT ![q] = [by |-> p, msgs |-> b]],
             taking' = [taking EXCEPT ![p].step = "prepare"],
             UNCHANGED <<deliveries, liveSteered, loop, live, stream, faults>>
      PROVE  TypeOK' /\ Phases'
  <2>1. b \in Seq(Msg) /\ b # <<>> /\ queues' \in [Queue -> Seq(Msg)] /\ faults' \in 0..MaxFaults
    BY <1>4, <1>5
  <2> DEFINE c == [by |-> p, msgs |-> b]
  <2>2. c \in Claim /\ c.msgs = b
    BY <2>1 DEF Claim
  <2>c. claims' = [claims EXCEPT ![q] = c]
    BY <1>5
  <2> HIDE DEF c
  <2>3. claims' \in [Queue -> Claim] /\ \A u \in Queue : claims'[u] = claims[u] \/ claims'[u] = c
    BY <2>2, <2>c DEF TypeOK
  <2> DEFINE t == [taking[p] EXCEPT !.step = "prepare"]
  <2>4. t \in Taking /\ t.step = "prepare"
    BY <1>0 DEF Taking
  <2>5. taking' = [taking EXCEPT ![p] = t]
    BY <1>5
  <2> HIDE DEF t
  <2>6. taking \in [Proc -> Taking]
    BY DEF TypeOK
  <2>7. taking' \in [Proc -> Taking] /\ taking'[p] = t /\ \A x \in Proc : x # p => taking'[x] = taking[x]
    BY <2>4, <2>5, <2>6
  <2>8. \A x \in Proc : (taking'[x].step # "none" <=> taking[x].step # "none")
    BY <1>1, <2>4, <2>7
  <2>9. TypeOK'
    BY <1>0, <1>1, <1>5, <2>1, <2>3, <2>7, DequeuerKept DEF TypeOK
  <2>10. ASSUME NEW u \in Run PROVE RunPhase(u)'
    <3>1. <<u, "loop">> \in Proc /\ <<u, "live">> \in Proc
      BY DEF Proc
    <3>2. /\ taking'[<<u, "loop">>].step # "none" <=> taking[<<u, "loop">>].step # "none"
          /\ taking'[<<u, "live">>].step # "none" <=> taking[<<u, "live">>].step # "none"
      BY <2>8, <3>1
    <3>3. RunPhase(u) /\ loop' = loop /\ live' = live /\ aborted' = aborted /\ controller' = controller
      BY <1>0, <1>5 DEF Phases
    <3> QED BY <3>2, <3>3 DEF RunPhase, LivePhase
  <2>11. \A u \in Queue : claims'[u].by \in Proc => claims'[u].msgs # <<>>
    BY <2>1, <2>2, <2>3 DEF Phases
  <2> QED BY <2>9, <2>10, <2>11 DEF Phases
<1>6. ASSUME p[1] \notin aborted, NEW n \in {1, Len(queues[q])} \cap DOMAIN queues[q],
             NEW b, b = SubSeq(queues[q], 1, n),
             queues' = [queues EXCEPT ![q] = SubSeq(@, n + 1, Len(@))],
             HandOver(p, q, b), Return(p, b), UNCHANGED <<claims, faults>>
      PROVE  TypeOK' /\ Phases'
  <2>1. b \in Seq(Msg) /\ b # <<>> /\ queues' \in [Queue -> Seq(Msg)] /\ faults' \in 0..MaxFaults
    BY <1>4, <1>6
  <2>2. /\ taking' \in [Proc -> Taking] /\ loop' \in [Run -> Loop]
        /\ live' \in [Run -> Live] /\ stream' \in [Run -> Seq(Msg)]
        /\ \A u \in Run : RunPhase(u)'
    BY <1>0, <1>1, <1>6, <2>1, ReturnKeeps
  <2>3. deliveries' \in Seq(Delivery) /\ liveSteered' \in Seq(Steering)
    BY <1>0, <1>6, <2>1, HandOverTypes
  <2>4. claims' \in [Queue -> Claim] /\ claims' = claims
    BY <1>6 DEF TypeOK
  <2>5. TypeOK'
    BY <1>0, <1>1, <2>1, <2>2, <2>3, <2>4, DequeuerKept
  <2> QED BY <2>2, <2>4, <2>5, ClaimsKept DEF Phases
<1> QED BY <1>0, <1>2, <1>3, <1>5, <1>6 DEF AfterHooks

\* So does AfterPrepare.
LEMMA PrepareTypes ==
  ASSUME TypeOK, Phases, NEW p \in Proc, AfterPrepare(p)
  PROVE  TypeOK' /\ Phases'
<1> DEFINE q == taking[p].queue
<1>0. /\ q \in Queue /\ taking[p].step = "prepare" /\ taking[p] \in Taking
      /\ UNCHANGED <<withdrawn, controller, recorded, order, taken, unrecoverable, late, edits>>
  BY DEF TypeOK, Taking, AfterPrepare
<1>1. /\ p[2] = "loop" => loop[p[1]].at \in PollSites
      /\ taking[p].step # "none" /\ <<>> \in Seq(Msg) /\ p[1] \in Run
      /\ faults \in 0..MaxFaults /\ aborted \subseteq Run
  BY <1>0, Dequeuer, EmptySeq, ProcFacts DEF TypeOK
<1>2. ASSUME RestoreClaim(p, q), Throw(p), aborted' \in {aborted, aborted \union {p[1]}},
             faults' = faults \/ Fault, UNCHANGED <<deliveries, liveSteered>>
      PROVE  TypeOK' /\ Phases'
  <2>1. /\ taking' \in [Proc -> Taking] /\ loop' \in [Run -> Loop]
        /\ live' \in [Run -> Live] /\ stream' \in [Run -> Seq(Msg)]
        /\ \A u \in Run : RunPhase(u)'
    BY <1>0, <1>1, <1>2, ThrowKeeps
  <2>2. /\ queues' \in [Queue -> Seq(Msg)] /\ claims' \in [Queue -> Claim]
        /\ \A u \in Queue : claims'[u].by \notin Proc \/ claims'[u] = claims[u]
    BY <1>0, <1>2, RestoreTypes
  <2>3. /\ deliveries' \in Seq(Delivery) /\ liveSteered' \in Seq(Steering)
        /\ faults' \in 0..MaxFaults /\ aborted' \subseteq Run
    BY <1>1, <1>2, BoundFacts DEF TypeOK
  <2>4. TypeOK'
    BY <1>0, <2>1, <2>2, <2>3, DequeuerKept
  <2>5. \A u \in Queue : claims'[u].by \in Proc => claims'[u].msgs # <<>>
    BY <2>2, ClaimsKept
  <2> QED BY <2>1, <2>4, <2>5 DEF Phases
<1>3. ASSUME Return(p, <<>>), UNCHANGED <<heldVars, aborted, faults>>
      PROVE  TypeOK' /\ Phases'
  <2>1. /\ taking' \in [Proc -> Taking] /\ loop' \in [Run -> Loop]
        /\ live' \in [Run -> Live] /\ stream' \in [Run -> Seq(Msg)]
        /\ \A u \in Run : RunPhase(u)'
    BY <1>0, <1>1, <1>3, ReturnKeeps
  <2>2. /\ queues' \in [Queue -> Seq(Msg)] /\ claims' \in [Queue -> Claim]
        /\ deliveries' \in Seq(Delivery) /\ liveSteered' \in Seq(Steering)
        /\ faults' \in 0..MaxFaults /\ claims' = claims /\ aborted' \subseteq Run
    BY <1>1, <1>3 DEF TypeOK, heldVars
  <2>3. TypeOK'
    BY <1>0, <2>1, <2>2, DequeuerKept
  <2> QED BY <2>1, <2>2, <2>3, ClaimsKept DEF Phases
<1>4. ASSUME p[1] \notin aborted, claims[q].by = p, claims' = [claims EXCEPT ![q] = NoClaim],
             HandOver(p, q, claims[q].msgs), Return(p, claims[q].msgs),
             UNCHANGED <<queues, aborted, faults>>
      PROVE  TypeOK' /\ Phases'
  <2>1. PICK b : b = claims[q].msgs
    OBVIOUS
  <2>2. b \in Seq(Msg) /\ b # <<>> /\ HandOver(p, q, b) /\ Return(p, b)
    BY <1>0, <1>4, <2>1, QueueFacts DEF Phases
  <2>3. /\ taking' \in [Proc -> Taking] /\ loop' \in [Run -> Loop]
        /\ live' \in [Run -> Live] /\ stream' \in [Run -> Seq(Msg)]
        /\ \A u \in Run : RunPhase(u)'
    BY <1>0, <1>1, <1>4, <2>2, ReturnKeeps
  <2>4. deliveries' \in Seq(Delivery) /\ liveSteered' \in Seq(Steering)
    BY <1>0, <2>2, HandOverTypes
  <2>5. /\ queues' \in [Queue -> Seq(Msg)] /\ claims' \in [Queue -> Claim]
        /\ faults' \in 0..MaxFaults /\ aborted' \subseteq Run
        /\ \A u \in Queue : claims'[u] = NoClaim \/ claims'[u] = claims[u]
    BY <1>0, <1>1, <1>4, NoClaimFacts DEF TypeOK
  <2>6. TypeOK'
    BY <1>0, <2>3, <2>4, <2>5, DequeuerKept
  <2>7. \A u \in Queue : claims'[u].by \in Proc => claims'[u].msgs # <<>>
    BY <2>5, NoClaimFacts, ClaimsKept
  <2> QED BY <2>3, <2>6, <2>7 DEF Phases
<1>5. ASSUME RestoreClaim(p, q), Throw(p), UNCHANGED <<deliveries, liveSteered>>,
             \/ aborted' = aborted /\ (faults' = faults \/ Fault)
             \/ aborted' = aborted \union {p[1]} /\ Fault
      PROVE  TypeOK' /\ Phases'
  BY <1>2, <1>5
<1>6. \/ /\ RestoreClaim(p, q) /\ Throw(p) /\ UNCHANGED <<deliveries, liveSteered>>
         /\ \/ aborted' = aborted /\ (faults' = faults \/ Fault)
            \/ aborted' = aborted \union {p[1]} /\ Fault
      \/ Return(p, <<>>) /\ UNCHANGED <<heldVars, aborted, faults>>
      \/ /\ p[1] \notin aborted /\ claims[q].by = p /\ claims' = [claims EXCEPT ![q] = NoClaim]
         /\ HandOver(p, q, claims[q].msgs) /\ Return(p, claims[q].msgs)
         /\ UNCHANGED <<queues, aborted, faults>>
  BY DEF AfterPrepare
<1> QED BY <1>3, <1>4, <1>5, <1>6

\* So does Poll.
LEMMA PollTypes ==
  ASSUME TypeOK, Phases, NEW r \in Run, Poll(r)
  PROVE  TypeOK' /\ Phases'
<1> DEFINE p == <<r, "loop">>
           q == Polled(loop[r].at)
<1>0. /\ p \in Proc /\ p[1] = r /\ p[2] = "loop" /\ q \in Queue /\ <<>> \in Seq(Msg)
      /\ loop[r].at \in PollSites /\ taking[p] = Idle
      /\ UNCHANGED <<heldVars, withdrawn, controller, aborted, recorded, histVars>>
  BY EmptySeq DEF Proc, Polled, Queue, Poll
<1>1. /\ queues' \in [Queue -> Seq(Msg)] /\ claims' \in [Queue -> Claim]
      /\ deliveries' \in Seq(Delivery) /\ liveSteered' \in Seq(Steering)
      /\ faults' \in 0..MaxFaults /\ claims' = claims /\ aborted' \subseteq Run
      /\ UNCHANGED <<withdrawn, controller, aborted, recorded, order, taken, unrecoverable, late, edits>>
  BY <1>0 DEF TypeOK, heldVars, histVars
<1>2. CASE Return(p, <<>>)
  <2>1. /\ taking' \in [Proc -> Taking] /\ loop' \in [Run -> Loop]
        /\ live' \in [Run -> Live] /\ stream' \in [Run -> Seq(Msg)]
        /\ \A u \in Run : RunPhase(u)'
    BY <1>0, <1>1, <1>2, ReturnKeeps
  <2>2. TypeOK'
    BY <1>1, <2>1, DequeuerKept
  <2> QED BY <1>1, <2>1, <2>2, ClaimsKept DEF Phases
<1>3. CASE /\ taking' = [taking EXCEPT ![p] = [step |-> "hooks", queue |-> q]]
           /\ UNCHANGED <<loop, live, stream>>
  <2> DEFINE t == [step |-> "hooks", queue |-> q]
  <2>1. t \in Taking
    BY <1>0 DEF Taking
  <2>2. taking' = [taking EXCEPT ![p] = t] /\ UNCHANGED <<loop, live, stream>>
    BY <1>3
  <2> HIDE DEF t, q
  <2>3. taking \in [Proc -> Taking]
    BY DEF TypeOK
  <2>4. taking' \in [Proc -> Taking] /\ \A x \in Proc : x # p => taking'[x] = taking[x]
    BY <1>0, <2>1, <2>2, <2>3
  <2>5. TypeOK'
    BY <1>1, <2>2, <2>4, DequeuerKept DEF TypeOK
  <2>6. ASSUME NEW u \in Run PROVE RunPhase(u)'
    <3>1. /\ <<u, "loop">> \in Proc /\ <<u, "live">> \in Proc
          /\ <<u, "live">> # p /\ (<<u, "loop">> = p => u = r)
      BY DEF Proc
    <3>2. /\ taking'[<<u, "live">>] = taking[<<u, "live">>]
          /\ u # r => taking'[<<u, "loop">>] = taking[<<u, "loop">>]
      BY <2>4, <3>1
    <3>3. /\ RunPhase(u) /\ loop' = loop /\ live' = live
          /\ aborted' = aborted /\ controller' = controller
      BY <1>1, <2>2 DEF Phases
    <3> QED BY <1>0, <3>2, <3>3 DEF RunPhase
  <2> QED BY <1>1, <2>5, <2>6, ClaimsKept DEF Phases
<1> QED BY <1>2, <1>3 DEF Poll
-----------------------------------------------------------------------------
(* The steps of a loop and of a response *)

\* Only run r moves, and what it has is where it can be.
LEMMA OthersKeep ==
  ASSUME TypeOK, Phases, NEW r \in Run,
         NEW l \in Loop, loop' = [loop EXCEPT ![r] = l],
         NEW c \in Live, live' = [live EXCEPT ![r] = c],
         NEW t \in Taking, taking' = [taking EXCEPT ![<<r, "live">>] = t],
         NEW s \in Seq(Msg), stream' = [stream EXCEPT ![r] = s],
         UNCHANGED <<heldVars, withdrawn, controller, aborted, recorded, order, taken,
                     unrecoverable, late, edits>>,
         faults' = faults \/ Fault,
         LoopPhase(l), LivePhase(t, c),
         taking[<<r, "loop">>].step # "none" => l.at \in PollSites,
         l.at \notin {"unused", "respond", "ended"} =>
           t.step = "none" /\ c.sent = <<>> /\ c.accepted = <<>> /\ c.deferred = <<>>,
         r \notin aborted /\ l.at # "respond" => t.step = "none" /\ c.sent = <<>>,
         l.at = "unused" \/ loop[r].at # "unused"
  PROVE  TypeOK' /\ Phases'
<1>0. \A u \in Run : <<u, "loop">> \in Proc /\ <<u, "live">> \in Proc
  BY DEF Proc
<1>1. /\ taking \in [Proc -> Taking] /\ loop \in [Run -> Loop]
      /\ live \in [Run -> Live] /\ stream \in [Run -> Seq(Msg)]
  BY DEF TypeOK
<1>2. /\ taking' \in [Proc -> Taking] /\ loop' \in [Run -> Loop]
      /\ live' \in [Run -> Live] /\ stream' \in [Run -> Seq(Msg)]
      /\ loop'[r] = l /\ live'[r] = c
      /\ taking'[<<r, "live">>] = t
      /\ \A u \in Run \ {r} : loop'[u] = loop[u] /\ live'[u] = live[u]
      /\ \A x \in Proc : x # <<r, "live">> => taking'[x] = taking[x]
  BY <1>0, <1>1
<1>3. TypeOK'
  <2>1. /\ queues' \in [Queue -> Seq(Msg)] /\ claims' \in [Queue -> Claim]
        /\ deliveries' \in Seq(Delivery) /\ liveSteered' \in Seq(Steering)
        /\ aborted' \subseteq Run /\ faults' \in 0..MaxFaults
    BY BoundFacts DEF TypeOK, heldVars
  <2>2. UNCHANGED <<withdrawn, controller, recorded, order, taken, unrecoverable, late, edits>>
    OBVIOUS
  <2> QED BY <1>2, <2>1, <2>2, DequeuerKept
<1>4. ASSUME NEW u \in Run \ {r} PROVE RunPhase(u)'
  <2>1. <<u, "loop">> # <<r, "live">> /\ <<u, "live">> # <<r, "live">>
    OBVIOUS
  <2>2. /\ RunPhase(u) /\ loop'[u] = loop[u] /\ live'[u] = live[u]
        /\ taking'[<<u, "loop">>] = taking[<<u, "loop">>]
        /\ taking'[<<u, "live">>] = taking[<<u, "live">>]
    BY <1>0, <1>2, <2>1 DEF Phases
  <2>3. UNCHANGED <<controller, aborted>>
    OBVIOUS
  <2> QED BY <2>2, <2>3, PhaseKept
<1>5. RunPhase(r)'
  <2>1. <<r, "loop">> # <<r, "live">>
    OBVIOUS
  <2>2. taking'[<<r, "loop">>] = taking[<<r, "loop">>]
    BY <1>0, <1>2, <2>1
  <2>3. r = controller \/ r \in aborted \/ loop[r].at = "unused"
    BY DEF Phases, RunPhase
  <2>4. UNCHANGED <<controller, aborted>>
    OBVIOUS
  <2> QED BY <1>2, <2>2, <2>3, <2>4 DEF RunPhase
<1>6. claims' = claims
  BY DEF heldVars
<1> QED BY <1>3, <1>4, <1>5, <1>6, ClaimsKept DEF Phases

\* What a run has, and that it may keep it.
LEMMA OwnFacts ==
  ASSUME TypeOK, Phases, NEW r \in Run
  PROVE  /\ loop[r] \in Loop /\ live[r] \in Live /\ taking[<<r, "live">>] \in Taking
         /\ stream[r] \in Seq(Msg) /\ RunPhase(r)
         /\ loop' = loop => loop' = [loop EXCEPT ![r] = loop[r]]
         /\ live' = live => live' = [live EXCEPT ![r] = live[r]]
         /\ taking' = taking => taking' = [taking EXCEPT ![<<r, "live">>] = taking[<<r, "live">>]]
         /\ stream' = stream => stream' = [stream EXCEPT ![r] = stream[r]]
<1>1. <<r, "live">> \in Proc
  BY DEF Proc
<1>2. loop[r] \in Loop /\ live[r] \in Live /\ taking[<<r, "live">>] \in Taking /\ stream[r] \in Seq(Msg)
  BY <1>1 DEF TypeOK
<1>3. /\ loop = [loop EXCEPT ![r] = loop[r]] /\ live = [live EXCEPT ![r] = live[r]]
      /\ stream = [stream EXCEPT ![r] = stream[r]]
  BY DEF TypeOK
<1>4. taking = [taking EXCEPT ![<<r, "live">>] = taking[<<r, "live">>]]
  BY <1>1 DEF TypeOK
<1> QED BY <1>2, <1>3, <1>4 DEF Phases

\* The pump starts to dequeue only during a response, with nothing sent or deferred.
LEMMA LiveClaimTypes ==
  ASSUME TypeOK, Phases, NEW r \in Run, LiveClaim(r)
  PROVE  TypeOK' /\ Phases'
<1> DEFINE t == [taking[<<r, "live">>] EXCEPT !.step = "hooks", !.queue = "steering"]
           l == loop[r]
           c == live[r]
<1>1. /\ loop[r].at = "respond" /\ live[r].sent = <<>> /\ live[r].deferred = <<>>
      /\ UNCHANGED <<heldVars, withdrawn, controller, aborted, loop, live, stream, recorded, histVars>>
      /\ taking' = [taking EXCEPT ![<<r, "live">>] = [step |-> "hooks", queue |-> "steering"]]
  BY DEF LiveClaim, LiveQuiet
<1>2. PICK k : k = [step |-> "hooks", queue |-> "steering"]
  OBVIOUS
<1>3. k \in Taking
  BY <1>2 DEF Taking, Queue
<1>4. /\ l \in Loop /\ c \in Live /\ stream[r] \in Seq(Msg) /\ RunPhase(r)
      /\ loop' = [loop EXCEPT ![r] = l] /\ live' = [live EXCEPT ![r] = c]
      /\ stream' = [stream EXCEPT ![r] = stream[r]]
  BY <1>1, OwnFacts
<1>5. /\ UNCHANGED <<heldVars, withdrawn, controller, aborted, recorded, order, taken,
                     unrecoverable, late, edits>>
      /\ faults' = faults
  BY <1>1 DEF histVars
<1>6. LoopPhase(l) /\ LivePhase(k, c) /\ (taking[<<r, "loop">>].step # "none" => l.at \in PollSites)
  BY <1>1, <1>4 DEF RunPhase, LivePhase
<1>7. l.at = "respond" /\ taking' = [taking EXCEPT ![<<r, "live">>] = k]
  BY <1>1, <1>2
<1>8. PICK s : s = stream[r]
  OBVIOUS
<1>9. s \in Seq(Msg) /\ stream' = [stream EXCEPT ![r] = s]
  BY <1>4, <1>8
<1> HIDE DEF l, c
<1>10. l.at = "unused" \/ loop[r].at # "unused"
  BY <1>1
<1> QED BY <1>3, <1>4, <1>5, <1>6, <1>7, <1>9, <1>10, OthersKeep

\* What was sent is accepted or deferred, and the pump is idle meanwhile.
LEMMA LiveAckTypes ==
  ASSUME TypeOK, Phases, NEW r \in Run, LiveAck(r)
  PROVE  TypeOK' /\ Phases'
<1>1. PICK l, k, s : l = loop[r] /\ k = taking[<<r, "live">>] /\ s = stream[r]
  OBVIOUS
<1>2. PICK acc, def, snt : /\ acc = Joined(live[r].accepted, live[r].sent)
                           /\ def = Joined(live[r].deferred, live[r].sent) /\ snt = live[r].sent
  OBVIOUS
<1>3. /\ live[r].sent # <<>>
      /\ UNCHANGED <<heldVars, withdrawn, controller, aborted, taking, loop, stream, recorded, histVars>>
      /\ \/ live' = [live EXCEPT ![r].sent = <<>>, ![r].accepted = acc]
         \/ live' = [live EXCEPT ![r].sent = <<>>, ![r].deferred = def]
  BY <1>2 DEF LiveAck, Joined
<1>4. /\ l \in Loop /\ k \in Taking /\ s \in Seq(Msg) /\ RunPhase(r) /\ live[r] \in Live
      /\ loop' = [loop EXCEPT ![r] = l] /\ stream' = [stream EXCEPT ![r] = s]
      /\ taking' = [taking EXCEPT ![<<r, "live">>] = k]
  BY <1>1, <1>3, OwnFacts
<1>5. acc \in Seq(Msg) /\ def \in Seq(Msg) /\ <<>> \in Seq(Msg)
  BY <1>2, <1>4, EmptySeq, JoinedFacts DEF Live
<1>6. \E c \in Live : live' = [live EXCEPT ![r] = c] /\ c.sent = <<>>
  <2>1. CASE live' = [live EXCEPT ![r].sent = <<>>, ![r].accepted = acc]
    <3> DEFINE c == [live[r] EXCEPT !.sent = <<>>, !.accepted = acc]
    <3>1. c \in Live /\ c.sent = <<>> /\ live' = [live EXCEPT ![r] = c]
      BY <1>4, <1>5, <2>1 DEF Live, TypeOK
    <3> QED BY <3>1
  <2>2. CASE live' = [live EXCEPT ![r].sent = <<>>, ![r].deferred = def]
    <3> DEFINE c == [live[r] EXCEPT !.sent = <<>>, !.deferred = def]
    <3>1. c \in Live /\ c.sent = <<>> /\ live' = [live EXCEPT ![r] = c]
      BY <1>4, <1>5, <2>2 DEF Live, TypeOK
    <3> QED BY <3>1
  <2> QED BY <1>3, <2>1, <2>2
<1>7. PICK c \in Live : live' = [live EXCEPT ![r] = c] /\ c.sent = <<>>
  BY <1>6
<1>8. /\ k.step = "none" /\ LoopPhase(l) /\ LivePhase(k, c)
      /\ taking[<<r, "loop">>].step # "none" => l.at \in PollSites
      /\ l.at \in {"unused", "respond", "ended"}
      /\ l.at = "unused" \/ loop[r].at # "unused"
  BY <1>1, <1>3, <1>4, <1>7 DEF RunPhase, LivePhase
<1>9. /\ UNCHANGED <<heldVars, withdrawn, controller, aborted, recorded, order, taken,
                     unrecoverable, late, edits>>
      /\ faults' = faults
  BY <1>3 DEF histVars
<1> QED BY <1>4, <1>7, <1>8, <1>9, OthersKeep

\* A turn is not a boundary: nobody dequeues while the held messages are pushed.
LEMMA TurnTypes ==
  ASSUME TypeOK, Phases, NEW r \in Run, Turn(r) \/ TurnDeadline(r)
  PROVE  TypeOK' /\ Phases'
<1>1. PICK c, k, h, n : /\ c = live[r] /\ k = taking[<<r, "live">>]
                        /\ h = loop[r].held /\ n = loop[r].opening
  OBVIOUS
<1>2. /\ loop[r].at = "turn"
      /\ UNCHANGED <<heldVars, withdrawn, controller, aborted, taking, live, recorded,
                     order, taken, unrecoverable, late, edits>>
      /\ faults' = faults \/ Fault
      /\ \/ stream' = [stream EXCEPT ![r] = @ \o h]
         \/ stream' = [stream EXCEPT ![r] = @ \o SubSeq(h, 1, n)]
      /\ \E at \in {"respond", "ended"} : loop' = [loop EXCEPT ![r] = [NewLoop EXCEPT !.at = at]]
  BY <1>1 DEF Turn, TurnDeadline
<1>3. PICK at \in {"respond", "ended"} : loop' = [loop EXCEPT ![r] = [NewLoop EXCEPT !.at = at]]
  BY <1>2
<1>4. PICK l : l = [NewLoop EXCEPT !.at = at]
  OBVIOUS
<1>5. l \in Loop /\ LoopPhase(l) /\ l.at = at /\ loop' = [loop EXCEPT ![r] = l]
  BY <1>3, <1>4, RecordFacts DEF LoopAt
<1>6. /\ c \in Live /\ k \in Taking /\ stream[r] \in Seq(Msg) /\ RunPhase(r) /\ loop[r] \in Loop
      /\ live' = [live EXCEPT ![r] = c] /\ taking' = [taking EXCEPT ![<<r, "live">>] = k]
  BY <1>1, <1>2, OwnFacts
<1>7. \E s \in Seq(Msg) : stream' = [stream EXCEPT ![r] = s]
  <2>1. h \in Seq(Msg) /\ n \in Nat /\ n <= Len(h) /\ Len(h) \in Nat
    BY <1>1, <1>6, LenProperties DEF Loop, RunPhase, LoopPhase
  <2>2. n \in 0..Len(h)
    BY <2>1
  <2>3. SubSeq(h, 1, n) \in Seq(Msg)
    BY <2>1, <2>2, Parts
  <2>4. /\ Joined(stream[r], h) \in Seq(Msg)
        /\ Joined(stream[r], SubSeq(h, 1, n)) \in Seq(Msg)
    BY <1>6, <2>1, <2>3, JoinedFacts
  <2>5. \/ stream' = [stream EXCEPT ![r] = Joined(stream[r], h)]
        \/ stream' = [stream EXCEPT ![r] = Joined(stream[r], SubSeq(h, 1, n))]
    BY <1>2 DEF Joined
  <2> QED BY <2>4, <2>5
<1>8. PICK s \in Seq(Msg) : stream' = [stream EXCEPT ![r] = s]
  BY <1>7
<1>9. /\ k.step = "none" /\ c.sent = <<>> /\ LivePhase(k, c)
      /\ taking[<<r, "loop">>].step # "none" => l.at \in PollSites
      /\ l.at \in {"respond", "ended"} /\ loop[r].at # "unused"
  BY <1>1, <1>2, <1>5, <1>6 DEF RunPhase, PollSites
<1> QED BY <1>2, <1>5, <1>6, <1>8, <1>9, OthersKeep

\* A response that fails leaves its pump quiet, or its run is aborted.
LEMMA RespondFailsTypes ==
  ASSUME TypeOK, Phases, NEW r \in Run, RespondFails(r)
  PROVE  TypeOK' /\ Phases'
<1>1. PICK c, k, s, l : /\ c = live[r] /\ k = taking[<<r, "live">>] /\ s = stream[r]
                        /\ l = [NewLoop EXCEPT !.at = "ended"]
  OBVIOUS
<1>2. /\ loop[r].at = "respond"
      /\ UNCHANGED <<heldVars, withdrawn, controller, aborted, taking, live, stream, recorded,
                     order, taken, unrecoverable, late, edits>>
      /\ faults' = faults \/ Fault
      /\ loop' = [loop EXCEPT ![r] = l]
      /\ r \notin aborted => taking[<<r, "live">>] = Idle /\ live[r].sent = <<>>
  BY <1>1 DEF RespondFails, LiveQuiet
<1>3. l \in Loop /\ LoopPhase(l) /\ l.at = "ended"
  BY <1>1, RecordFacts DEF LoopAt
<1>4. /\ c \in Live /\ k \in Taking /\ s \in Seq(Msg) /\ RunPhase(r)
      /\ live' = [live EXCEPT ![r] = c] /\ taking' = [taking EXCEPT ![<<r, "live">>] = k]
      /\ stream' = [stream EXCEPT ![r] = s]
  BY <1>1, <1>2, OwnFacts
<1>5. /\ LivePhase(k, c) /\ (r \notin aborted => k.step = "none" /\ c.sent = <<>>)
      /\ taking[<<r, "loop">>].step # "none" => l.at \in PollSites
      /\ loop[r].at # "unused"
  BY <1>1, <1>2, <1>4, RecordFacts DEF RunPhase, PollSites
<1> QED BY <1>2, <1>3, <1>4, <1>5, OthersKeep

\* At a boundary the pump is quiet and the channel new.
LEMMA BoundaryTypes ==
  ASSUME TypeOK, Phases, NEW r \in Run, NEW more \in BOOLEAN, Boundary(r, more)
  PROVE  TypeOK' /\ Phases'
<1>1. PICK h : h = Joined(live[r].accepted, live[r].deferred)
  OBVIOUS
<1>2. PICK at : at = IF live[r].accepted # <<>> THEN "turn" ELSE "boundary"
  OBVIOUS
<1>3. PICK k, s, l, c : /\ k = taking[<<r, "live">>] /\ s = stream[r]
                        /\ l = [NewLoop EXCEPT !.at = at, !.held = h, !.more = more]
                        /\ c = NewLive
  OBVIOUS
<1>4. /\ loop[r].at = "respond" /\ r \notin aborted /\ taking[<<r, "live">>] = Idle
      /\ UNCHANGED <<heldVars, withdrawn, controller, aborted, taking, stream, recorded, histVars>>
      /\ loop' = [loop EXCEPT ![r] = l] /\ live' = [live EXCEPT ![r] = c]
  BY <1>1, <1>2, <1>3 DEF Boundary, LiveQuiet, Joined
<1>5. /\ k \in Taking /\ s \in Seq(Msg) /\ RunPhase(r) /\ live[r] \in Live
      /\ taking' = [taking EXCEPT ![<<r, "live">>] = k]
      /\ stream' = [stream EXCEPT ![r] = s]
  BY <1>3, <1>4, OwnFacts
<1>6. h \in Seq(Msg) /\ Len(h) \in Nat /\ Len(h) >= 0
  <2>1. live[r].accepted \in Seq(Msg) /\ live[r].deferred \in Seq(Msg)
    BY <1>5 DEF Live
  <2>2. h \in Seq(Msg)
    BY <1>1, <2>1, JoinedFacts
  <2> QED BY <2>2, LenProperties
<1>7. at \in {"turn", "boundary"} /\ at \in LoopAt
  BY <1>2 DEF LoopAt, PollSites
<1>8. l \in Loop /\ l.held = h /\ l.opening = 0 /\ l.at = at
  <2>1. NewLoop \in Loop
    BY RecordFacts
  <2>2. l \in Loop
    BY <1>3, <1>6, <1>7, <2>1 DEF Loop
  <2> QED BY <1>3, <2>2 DEF NewLoop
<1>9. LoopPhase(l)
  BY <1>6, <1>7, <1>8 DEF LoopPhase
<1>10. c \in Live /\ c.sent = <<>> /\ c.accepted = <<>> /\ c.deferred = <<>> /\ k.step = "none"
  BY <1>3, <1>4, RecordFacts
<1>11. /\ LivePhase(k, c) /\ loop[r].at # "unused"
       /\ taking[<<r, "loop">>].step # "none" => l.at \in PollSites
  BY <1>4, <1>5, <1>10 DEF RunPhase, LivePhase, PollSites
<1>12. /\ UNCHANGED <<heldVars, withdrawn, controller, aborted, recorded, order, taken,
                      unrecoverable, late, edits>>
       /\ faults' = faults
  BY <1>4 DEF histVars
<1> QED BY <1>4, <1>5, <1>8, <1>9, <1>10, <1>11, <1>12, OthersKeep
-----------------------------------------------------------------------------
(* The other steps *)

\* A run begins between responses, with a quiet pump and a new channel.
LEMMA BeginPhases ==
  ASSUME TypeOK, Phases, NEW r \in Run, NEW at \in {"open", "start"}, Begin(r, at)
  PROVE  Phases'
<1>1. PICK l : l = [NewLoop EXCEPT !.at = at]
  OBVIOUS
<1>2. l \in Loop /\ LoopPhase(l) /\ l.at = at /\ at \in PollSites
  <2>1. at \in LoopAt /\ at \in PollSites
    BY DEF LoopAt, PollSites
  <2> QED BY <1>1, <2>1, RecordFacts
<1>3. /\ controller = NoRun /\ loop[r].at = "unused" /\ taking[<<r, "live">>] = Idle
      /\ controller' = r /\ aborted' = aborted \ {r}
      /\ loop' = [loop EXCEPT ![r] = l] /\ live' = [live EXCEPT ![r] = NewLive]
      /\ taking' = taking /\ claims' = claims
  BY <1>1 DEF Begin, LiveQuiet, heldVars
<1>4. loop \in [Run -> Loop] /\ live \in [Run -> Live]
  BY DEF TypeOK
<1>5. ASSUME NEW u \in Run \ {r} PROVE RunPhase(u)'
  <2>1. /\ RunPhase(u) /\ loop'[u] = loop[u] /\ live'[u] = live[u]
        /\ u # controller /\ (u \in aborted' <=> u \in aborted)
    BY <1>3, <1>4, RunAssumption DEF Phases
  <2> QED BY <1>3, <2>1, PhaseKept
<1>6. RunPhase(r)'
  <2>1. loop'[r] = l /\ live'[r] = NewLive /\ taking'[<<r, "live">>].step = "none"
    BY <1>3, <1>4, RecordFacts
  <2>2. LivePhase(taking'[<<r, "live">>], live'[r])
    BY <2>1, RecordFacts DEF LivePhase
  <2> QED BY <1>2, <1>3, <2>1, <2>2, RecordFacts DEF RunPhase
<1> QED BY <1>3, <1>5, <1>6, ClaimsKept DEF Phases

\* An edit only drops claims; an abort or a reset leaves the run it detaches aborted.
LEMMA UserPhases ==
  ASSUME TypeOK, Phases, UserStep
  PROVE  Phases'
<1>1. ASSUME UNCHANGED runVars,
             \A q \in Queue : claims'[q] = NoClaim \/ claims'[q] = claims[q]
      PROVE  Phases'
  <2>1. \A u \in Run : RunPhase(u)'
    <3>1. UNCHANGED <<controller, aborted, taking, loop, live>>
      BY <1>1 DEF runVars
    <3>2. \A u \in Run : RunPhase(u)
      BY DEF Phases
    <3> QED BY <3>1, <3>2, PhaseKept
  <2>2. \A q \in Queue : claims'[q].by \in Proc => claims'[q].msgs # <<>>
    BY <1>1, NoClaimFacts, ClaimsKept
  <2> QED BY <2>1, <2>2 DEF Phases
<1>2. ASSUME NEW Q \in SUBSET Queue, NEW new, Replace(Q, new), UNCHANGED runVars
      PROVE  Phases'
  <2>1. \A q \in Queue : claims'[q] = NoClaim \/ claims'[q] = claims[q]
    BY <1>2 DEF Replace
  <2> QED BY <1>1, <1>2, <2>1
<1>3. ASSUME NEW q \in Queue, Post(q) PROVE Phases'
  BY <1>1, <1>3 DEF Post
<1>4. ASSUME NEW q \in Queue, NEW i, TakeQueuedMessage(q, i) PROVE Phases'
  <2>1. /\ {q} \in SUBSET Queue /\ UNCHANGED runVars
        /\ Replace({q}, [queues EXCEPT ![q] = RemoveAt(Peek(q), i)])
    BY <1>4 DEF TakeQueuedMessage
  <2> QED BY <1>2, <2>1
<1>5. ASSUME PopLastQueuedMessage PROVE Phases'
  <2>1. PICK q \in Queue : Replace(Queue, [x \in Queue |-> IF x = q THEN Front(Peek(x)) ELSE Peek(x)])
    BY <1>5 DEF PopLastQueuedMessage
  <2>2. Queue \in SUBSET Queue /\ UNCHANGED runVars
    BY <1>5 DEF PopLastQueuedMessage
  <2> QED BY <1>2, <2>1, <2>2
<1>6. ASSUME NEW i, PromoteQueuedMessage(i) PROVE Phases'
  <2>1. /\ {"followUp"} \in SUBSET Queue /\ UNCHANGED runVars
        /\ \E new : Replace({"followUp"}, new)
    BY <1>6 DEF PromoteQueuedMessage, Queue
  <2> QED BY <1>2, <2>1
<1>7. ASSUME ClearQueue PROVE Phases'
  <2>1. /\ Queue \in SUBSET Queue /\ UNCHANGED runVars
        /\ \E new : Replace(Queue, new)
    BY <1>7 DEF ClearQueue
  <2> QED BY <1>2, <2>1
<1>8. ASSUME ClearQueueForInterrupt PROVE Phases'
  <2>1. claims' = [q \in Queue |-> NoClaim] /\ UNCHANGED runVars
    BY <1>8 DEF ClearQueueForInterrupt
  <2>2. \A q \in Queue : claims'[q] = NoClaim
    BY <2>1
  <2> QED BY <1>1, <2>1, <2>2
<1>9. ASSUME Abort PROVE Phases'
  <2>1. /\ UNCHANGED <<claims, controller, taking, loop, live>>
        /\ aborted' = aborted \union {controller}
    BY <1>9 DEF Abort, heldVars
  <2>2. ASSUME NEW u \in Run PROVE RunPhase(u)'
    <3>1. RunPhase(u) /\ loop'[u] = loop[u] /\ live'[u] = live[u]
      BY <2>1 DEF Phases
    <3> QED BY <2>1, <3>1, PhaseKept
  <2> QED BY <2>1, <2>2, ClaimsKept DEF Phases
<1>10. ASSUME Reset PROVE Phases'
  <2>1. /\ UNCHANGED <<aborted, taking, loop, live>> /\ controller' = NoRun
        /\ controller = NoRun \/ controller \in aborted
        /\ claims' = [q \in Queue |-> NoClaim]
    BY <1>10 DEF Reset
  <2>2. ASSUME NEW u \in Run PROVE RunPhase(u)'
    <3>1. RunPhase(u) /\ loop'[u] = loop[u] /\ live'[u] = live[u]
      BY <2>1 DEF Phases
    <3>2. u = controller => u \in aborted'
      BY <2>1, RunAssumption
    <3> QED BY <2>1, <3>1, <3>2, PhaseKept
  <2>3. \A q \in Queue : claims'[q] = NoClaim
    BY <2>1
  <2>4. \A q \in Queue : claims'[q].by \in Proc => claims'[q].msgs # <<>>
    BY <2>3, NoClaimFacts
  <2> QED BY <2>2, <2>4 DEF Phases
<1>11. ASSUME NEW r \in Run, Prompt(r) PROVE Phases'
  BY <1>11, BeginPhases DEF Prompt
<1> QED BY <1>3, <1>4, <1>5, <1>6, <1>7, <1>8, <1>9, <1>10, <1>11 DEF UserStep
-----------------------------------------------------------------------------
(* The consumer, and all steps together *)

\* Consume moves no run.
LEMMA ConsumeTypes ==
  ASSUME TypeOK, Phases, NEW r \in Run, Consume(r)
  PROVE  TypeOK' /\ Phases'
<1>1. /\ stream[r] # <<>> /\ stream[r] \in Seq(Msg)
      /\ stream' = [stream EXCEPT ![r] = IF controller = r THEN Tail(@) ELSE <<>>]
      /\ UNCHANGED <<queues, claims, withdrawn, controller, aborted, taking, loop, live,
                     order, taken, unrecoverable, late, faults, edits>>
  BY DEF Consume, histVars, TypeOK
<1>2. stream' \in [Run -> Seq(Msg)]
  <2>1. Tail(stream[r]) \in Seq(Msg) /\ <<>> \in Seq(Msg)
    BY <1>1, HeadTailProperties, EmptySeq
  <2> QED BY <1>1, <2>1 DEF TypeOK
<1>3. PICK m : m = Head(stream[r])
  OBVIOUS
<1>4. m \in Msg
  BY <1>1, <1>3, HeadTailProperties
<1>5. recorded \in [Msg -> Nat] /\ liveSteered \in Seq(Steering) /\ deliveries \in Seq(Delivery)
  BY DEF TypeOK
<1>6. ASSUME AppendMessage(m)
      PROVE  recorded' \in [Msg -> Nat] /\ liveSteered' \in Seq(Steering) /\ deliveries' \in Seq(Delivery)
  <2>1. recorded' \in [Msg -> Nat]
    BY <1>4, <1>5, <1>6 DEF AppendMessage
  <2>2. liveSteered' \in Seq(Steering)
    BY <1>5, <1>6, WithoutFacts DEF AppendMessage, SteeredBut
  <2>3. deliveries' = deliveries \/ deliveries' = Left(deliveries, m)
    BY <1>5, <1>6, LeftIs DEF AppendMessage
  <2>4. Left(deliveries, m) \in Seq(Delivery)
    BY <1>5, LeftFacts
  <2> QED BY <1>5, <2>1, <2>2, <2>3, <2>4
<1>7. UNCHANGED <<recorded, liveSteered, deliveries>> \/ AppendMessage(m)
  BY <1>3 DEF Consume
<1>8. recorded' \in [Msg -> Nat] /\ liveSteered' \in Seq(Steering) /\ deliveries' \in Seq(Delivery)
  BY <1>5, <1>6, <1>7
<1>9. TypeOK'
  BY <1>1, <1>2, <1>8 DEF TypeOK
<1>10. \A u \in Run : RunPhase(u)'
  BY <1>1 DEF Phases, RunPhase
<1> QED BY <1>1, <1>9, <1>10, ClaimsKept DEF Phases

\* Finish frees the slot of its run and takes it out of charge.
LEMMA FinishTypes ==
  ASSUME TypeOK, Phases, NEW r \in Run, Finish(r)
  PROVE  TypeOK' /\ Phases'
<1>1. /\ loop[r].at = "ended" /\ loop' = [loop EXCEPT ![r] = NewLoop]
      /\ controller' = IF controller = r THEN NoRun ELSE controller
      /\ UNCHANGED <<claims, withdrawn, aborted, taking, live, stream, recorded,
                     order, taken, unrecoverable, faults, edits>>
  BY DEF Finish
<1>2. queues' \in [Queue -> Seq(Msg)]
  <2>1. ASSUME NEW q \in Queue PROVE Undelivered(q, r) \o queues[q] \in Seq(Msg)
    <3>1. Undelivered(q, r) \in Seq(Msg) /\ queues[q] \in Seq(Msg)
      BY UndeliveredFacts, QueueFacts
    <3>2. Joined(Undelivered(q, r), queues[q]) \in Seq(Msg)
      BY <3>1, JoinedFacts
    <3> QED BY <3>2 DEF Joined
  <2>2. queues' = [q \in Queue |-> Undelivered(q, r) \o queues[q]]
    BY DEF Finish
  <2> QED BY <2>1, <2>2
<1>3. liveSteered' \in Seq(Steering) /\ deliveries' \in Seq(Delivery)
  BY WithoutFacts DEF TypeOK, Finish
<1>4. late' \subseteq Msg
  <2>1. late' = late \union UNION {ToSet(claims[q].msgs) : q \in {x \in Queue : claims[x].by = <<r, "live">>}}
    BY DEF Finish
  <2> QED BY <2>1, PendingTypes DEF TypeOK
<1>5. loop' \in [Run -> Loop] /\ loop'[r] = NewLoop /\ \A u \in Run \ {r} : loop'[u] = loop[u]
  BY <1>1, RecordFacts DEF TypeOK
<1>6. TypeOK'
  BY <1>1, <1>2, <1>3, <1>4, <1>5 DEF TypeOK
<1>7. ASSUME NEW u \in Run \ {r} PROVE RunPhase(u)'
  <2>1. RunPhase(u) /\ (u = controller => u = controller')
    BY <1>1 DEF Phases
  <2> QED BY <1>1, <1>5, <2>1, PhaseKept
<1>8. RunPhase(r)'
  <2>1. RunPhase(r) /\ loop'[r].at = "unused" /\ LoopPhase(loop'[r])
    BY <1>5, RecordFacts DEF Phases
  <2> QED BY <1>1, <2>1 DEF RunPhase, PollSites
<1> QED BY <1>1, <1>6, <1>7, <1>8, ClaimsKept DEF Phases

\* Every step keeps the types and leaves each run where it can be.
LEMMA TypesKept ==
  ASSUME TypeOK, Phases, [Next]_vars
  PROVE  TypeOK' /\ Phases'
<1>1. CASE UNCHANGED vars
  <2>1. UNCHANGED <<heldVars, withdrawn, runVars, recorded, histVars>>
    BY <1>1 DEF vars
  <2>2. TypeOK'
    BY <2>1 DEF TypeOK, heldVars, runVars, histVars
  <2>3. Phases'
    BY <2>1 DEF Phases, RunPhase, heldVars, runVars
  <2> QED BY <2>2, <2>3
<1>2. CASE UserStep
  BY <1>2, UserTypes, UserPhases
<1>3. ASSUME NEW r \in Run, Continue(r) PROVE TypeOK' /\ Phases'
  BY <1>3, BeginTypes, BeginPhases DEF Continue
<1>4. ASSUME NEW r \in Run, RunStep(r) \/ LiveStep(r) PROVE TypeOK' /\ Phases'
  <2>1. <<r, "loop">> \in Proc /\ <<r, "live">> \in Proc
    BY DEF Proc
  <2> QED BY <1>4, <2>1, PollTypes, HooksTypes, PrepareTypes, TurnTypes, RespondFailsTypes, LiveAckTypes
       DEF RunStep, LiveStep
<1>5. ASSUME NEW r \in Run,
             TurnDeadline(r) \/ Boundary(r, TRUE) \/ Boundary(r, FALSE) \/ LiveClaim(r)
      PROVE  TypeOK' /\ Phases'
  BY <1>5, TurnTypes, BoundaryTypes, LiveClaimTypes
<1>6. ASSUME NEW r \in Run, Consume(r) \/ Finish(r) PROVE TypeOK' /\ Phases'
  BY <1>6, ConsumeTypes, FinishTypes
<1> QED BY <1>1, <1>2, <1>3, <1>4, <1>5, <1>6 DEF Next

-----------------------------------------------------------------------------
(* The theorems *)

\* The invariant holds before the first run.
LEMMA InitHolds ==
  Init => IInv
<1> SUFFICES ASSUME Init PROVE IInv
  OBVIOUS
<1> USE DEF Init
<1>0. <<>> \in Seq(Msg) /\ <<>> \in Seq(Delivery) /\ <<>> \in Seq(Steering) /\ ToSet(<<>>) = {}
  BY EmptySeq DEF ToSet
<1>1. TypeOK
  BY <1>0, NoClaimFacts, RecordFacts, BoundAssumption DEF TypeOK
<1>2. Phases
  <2>1. \A u \in Run : RunPhase(u)
    <3>1. ASSUME NEW u \in Run PROVE RunPhase(u)
      <4>1. <<u, "loop">> \in Proc /\ <<u, "live">> \in Proc
        BY DEF Proc
      <4>2. loop[u] = NewLoop /\ live[u] = NewLive /\ taking[<<u, "loop">>] = Idle /\ taking[<<u, "live">>] = Idle
        BY <4>1
      <4> QED BY <4>2, RecordFacts DEF RunPhase, LivePhase
    <3> QED BY <3>1
  <2> QED BY <2>1, NoClaimFacts DEF Phases
<1>3. Owned
  BY <1>0 DEF Owned
<1>4. Posted = {} /\ PostedSoFar
  <2>1. Posted = {}
    BY <1>0 DEF Posted, Queue
  <2>2. Cardinality(Posted) = 0 /\ 1..0 = {}
    BY <2>1, FS_EmptySet
  <2> QED BY <2>1, <2>2 DEF PostedSoFar
<1>5. Accounts
  <2>1. ASSUME NEW m \in Msg PROVE Queued(m) = 0 /\ Dequeued(m) = 0
    <3>1. Queued(m) = 0
      <4>1. \A q \in Queue : Peek(q) = Joined(<<>>, <<>>)
        BY NoClaimFacts DEF Peek, Joined
      <4>2. Joined(<<>>, <<>>) = <<>>
        BY <1>0, JoinedFacts
      <4>3. Peek("steering") = <<>> /\ Peek("followUp") = <<>>
        BY <4>1, <4>2 DEF Queue
      <4>4. Times(<<>>, m) = 0
        BY <1>0, TimesBasics
      <4> QED BY <4>3, <4>4 DEF Queued
    <3>2. Dequeued(m) = 0
      <4>1. ToSet(deliveries) = {} /\ ToSet(liveSteered) = {}
        BY <1>0
      <4>2. MessagesOf(ToSet(deliveries)) = {}
        BY <4>1 DEF MessagesOf
      <4>3. Dequeued(m) \in Nat /\ ~(Dequeued(m) > 0)
        BY <1>1, <4>1, <4>2, DequeuedFacts
      <4> QED BY <4>3
    <3> QED BY <3>1, <3>2
  <2>2. controller \notin Run
    BY RunAssumption
  <2> QED BY <1>4, <2>1, <2>2 DEF Accounts, Copies, Counted
<1> QED BY <1>1, <1>2, <1>3, <1>4, <1>5 DEF IInv

\* The inductive invariant holds in every state.
THEOREM Invariant == Spec => []IInv
<1>1. IInv /\ [Next]_vars => IInv'
  <2> SUFFICES ASSUME IInv, [Next]_vars PROVE IInv'
    OBVIOUS
  <2>1. TypeOK' /\ Phases'
    BY TypesKept DEF IInv
  <2>2. Owned' /\ Accounts' /\ PostedSoFar'
    BY AccountsKept
  <2> QED BY <2>1, <2>2 DEF IInv
<1> QED BY <1>1, InitHolds, PTL DEF Spec

\* The types of all the state of the queues (agent.ts 422-444).
THEOREM TypeCorrect == Spec => []TypeOK
<1>1. IInv => TypeOK
  BY DEF IInv
<1> QED BY <1>1, Invariant, PTL

\* Whatever order claims, restorations, edits, aborts and a reset come in, a message is
\* in one place only, is recorded at most once and then no longer queued, and is not recorded
\* by the run that had dequeued it once the user took it back (agent.ts 1021-1111, 1325-1372).
THEOREM NothingTwice == Spec => []DeliveredOnce
<1>1. IInv => DeliveredOnce
  BY DEF IInv, Accounts, DeliveredOnce
<1> QED BY <1>1, Invariant, PTL

\* A posted message is queued, dequeued with a record, recorded or taken back, unless an
\* edit dropped its delivery record (agent.ts 1040-1044).
THEOREM NothingLost == Spec => []NoMessageLost
<1>1. IInv => NoMessageLost
  <2> SUFFICES ASSUME IInv, NEW m \in Posted \ unrecoverable PROVE Copies(m) >= 1
    BY DEF NoMessageLost
  <2>1. m \in Msg
    BY PostedFacts DEF IInv
  <2> QED BY <2>1 DEF IInv, Accounts
<1> QED BY <1>1, Invariant, PTL

-----------------------------------------------------------------------------
(* What comes after what in a sequence *)

\* Every y in s has an x before it.
After(s, x, y) == \A j \in DOMAIN s : s[j] = y => \E i \in DOMAIN s : i < j /\ s[i] = x

\* t is s without some elements: what is left is in the order it had.
Thins(s, t) ==
  /\ ToSet(t) \subseteq ToSet(s)
  /\ \A x \in ToSet(t) : \A y : After(s, x, y) => After(t, x, y)

\* An element of a concatenation, or of an extended sequence.
LEMMA Members ==
  ASSUME NEW X, NEW s \in Seq(X), NEW t \in Seq(X)
  PROVE  /\ ToSet(Joined(s, t)) = ToSet(s) \cup ToSet(t)
         /\ \A e \in X : ToSet(Append(s, e)) = ToSet(s) \cup {e}
         /\ ToSet(<<>>) = {}
         /\ ToSet(s) \subseteq X
BY MembersFacts DEF Joined

\* What is before y, part by part.
LEMMA AfterJoined ==
  ASSUME NEW X, NEW s \in Seq(X), NEW t \in Seq(X), NEW x, NEW y
  PROVE  /\ After(Joined(s, t), x, y) => After(s, x, y)
         /\ After(Joined(s, t), x, y) /\ x \notin ToSet(s) => After(t, x, y)
         /\ After(s, x, y) /\ (x \in ToSet(s) \/ After(t, x, y)) => After(Joined(s, t), x, y)
<1> DEFINE u == Joined(s, t)
<1>0. Len(s) \in Nat /\ DOMAIN s = 1..Len(s) /\ Len(t) \in Nat /\ DOMAIN t = 1..Len(t)
  BY LenProperties
<1>1. /\ DOMAIN u = 1..(Len(s) + Len(t))
      /\ \A i \in 1..Len(s) : u[i] = s[i]
      /\ \A i \in 1..Len(t) : u[Len(s) + i] = t[i]
  <2> HIDE DEF u
  <2>1. DOMAIN Joined(s, t) = 1..(Len(s) + Len(t))
    BY JoinedFacts
  <2>2. \A i \in 1..Len(s) : Joined(s, t)[i] = s[i]
    BY JoinedFacts
  <2>3. \A i \in 1..Len(t) : Joined(s, t)[Len(s) + i] = t[i]
    BY JoinedFacts
  <2> QED BY <2>1, <2>2, <2>3 DEF u
<1> HIDE DEF u
<1>2. \A i \in DOMAIN u : \/ i \in DOMAIN s /\ u[i] = s[i]
                          \/ i - Len(s) \in DOMAIN t /\ u[i] = t[i - Len(s)] /\ i > Len(s)
  <2> SUFFICES ASSUME NEW i \in DOMAIN u, i \notin DOMAIN s
               PROVE  i - Len(s) \in DOMAIN t /\ u[i] = t[i - Len(s)] /\ i > Len(s)
    BY <1>0, <1>1
  <2>1. i - Len(s) \in 1..Len(t) /\ Len(s) + (i - Len(s)) = i /\ i > Len(s)
    BY <1>0, <1>1
  <2>2. u[Len(s) + (i - Len(s))] = t[i - Len(s)]
    BY <1>1, <2>1
  <2> QED BY <1>0, <2>1, <2>2
<1>3. ASSUME After(u, x, y) PROVE After(s, x, y)
  <2> SUFFICES ASSUME NEW j \in DOMAIN s, s[j] = y PROVE \E i \in DOMAIN s : i < j /\ s[i] = x
    BY DEF After
  <2>1. j \in DOMAIN u /\ u[j] = y
    BY <1>0, <1>1
  <2>2. PICK i \in DOMAIN u : i < j /\ u[i] = x
    BY <1>3, <2>1 DEF After
  <2>3. i \in DOMAIN s
    BY <1>0, <1>1, <2>2
  <2> QED BY <1>0, <1>1, <2>2, <2>3
<1>4. ASSUME After(u, x, y), x \notin ToSet(s) PROVE After(t, x, y)
  <2> SUFFICES ASSUME NEW j \in DOMAIN t, t[j] = y PROVE \E i \in DOMAIN t : i < j /\ t[i] = x
    BY DEF After
  <2>1. Len(s) + j \in DOMAIN u /\ u[Len(s) + j] = y
    BY <1>0, <1>1
  <2>2. PICK i \in DOMAIN u : i < Len(s) + j /\ u[i] = x
    BY <1>4, <2>1 DEF After
  <2>3. i \notin DOMAIN s
    <3> SUFFICES ASSUME i \in DOMAIN s PROVE FALSE
      OBVIOUS
    <3>1. s[i] = x
      BY <1>0, <1>1, <2>2
    <3> QED BY <1>4, <3>1 DEF ToSet
  <2>4. i - Len(s) \in DOMAIN t /\ t[i - Len(s)] = x /\ i - Len(s) < j
    BY <1>0, <1>1, <1>2, <2>2, <2>3
  <2> QED BY <2>4
<1>5. ASSUME After(s, x, y), x \in ToSet(s) \/ After(t, x, y) PROVE After(u, x, y)
  <2> SUFFICES ASSUME NEW j \in DOMAIN u, u[j] = y PROVE \E i \in DOMAIN u : i < j /\ u[i] = x
    BY DEF After
  <2>1. CASE j \in DOMAIN s
    <3>1. PICK i \in DOMAIN s : i < j /\ s[i] = x
      BY <1>0, <1>1, <1>5, <2>1 DEF After
    <3> QED BY <1>0, <1>1, <3>1
  <2>2. CASE j \notin DOMAIN s
    <3>1. j - Len(s) \in DOMAIN t /\ t[j - Len(s)] = y /\ j > Len(s) /\ j \in Nat
      BY <1>0, <1>1, <1>2, <2>2
    <3>2. CASE x \in ToSet(s)
      <4>1. PICK i \in DOMAIN s : s[i] = x
        BY <3>2 DEF ToSet
      <4> QED BY <1>0, <1>1, <3>1, <4>1
    <3>3. CASE After(t, x, y)
      <4>1. PICK i \in DOMAIN t : i < j - Len(s) /\ t[i] = x
        BY <3>1, <3>3 DEF After
      <4>2. Len(s) + i \in DOMAIN u /\ Len(s) + i < j /\ u[Len(s) + i] = x
        BY <1>0, <1>1, <3>1, <4>1
      <4> QED BY <4>2
    <3> QED BY <1>5, <3>2, <3>3
  <2> QED BY <2>1, <2>2
<1> QED BY <1>3, <1>4, <1>5 DEF u

\* What is in a sequence and what is not.
LEMMA AfterMembers ==
  ASSUME NEW X, NEW s \in Seq(X), NEW x, NEW y
  PROVE  /\ y \notin ToSet(s) => After(s, x, y)
         /\ After(s, x, y) /\ y \in ToSet(s) => x \in ToSet(s)
         /\ After(<<>>, x, y)
<1>1. y \notin ToSet(s) => After(s, x, y)
  BY DEF After, ToSet
<1>2. After(s, x, y) /\ y \in ToSet(s) => x \in ToSet(s)
  BY DEF After, ToSet
<1>3. After(<<>>, x, y)
  <2>1. DOMAIN <<>> = {}
    BY EmptySeq
  <2> QED BY <2>1 DEF After
<1> QED BY <1>1, <1>2, <1>3

\* A new last element comes after all others, and is before none.
LEMMA AfterAppend ==
  ASSUME NEW X, NEW s \in Seq(X), NEW e \in X, NEW x, NEW y
  PROVE  /\ After(s, x, y) /\ (y # e \/ x \in ToSet(s)) => After(Append(s, e), x, y)
         /\ After(Append(s, e), x, y) => After(s, x, y)
<1>1. <<e>> \in Seq(X) /\ ToSet(<<e>>) = {e}
  <2>1. <<>> \in Seq(X) /\ Append(<<>>, e) = <<>> \o <<e>> /\ <<e>> \in Seq(X)
    BY EmptySeq, AppendIsConcat
  <2>2. Append(<<>>, e) = <<e>>
    BY <2>1, ConcatEmptySeq
  <2>3. ToSet(Append(<<>>, e)) = ToSet(<<>>) \cup {e} /\ ToSet(<<>>) = {}
    BY <2>1, MembersFacts
  <2> QED BY <2>1, <2>2, <2>3
<1>2. Append(s, e) = Joined(s, <<e>>)
  BY AppendIsConcat DEF Joined
<1>3. y # e => After(<<e>>, x, y)
  BY <1>1, AfterMembers
<1>4. /\ After(Joined(s, <<e>>), x, y) => After(s, x, y)
      /\ After(s, x, y) /\ (x \in ToSet(s) \/ After(<<e>>, x, y)) => After(Joined(s, <<e>>), x, y)
  BY <1>1, AfterJoined
<1> QED BY <1>2, <1>3, <1>4

-----------------------------------------------------------------------------
(* Sequences with some elements left out *)

\* All of it, none of it, and the first part.
LEMMA ThinsSome ==
  ASSUME NEW X, NEW s \in Seq(X), NEW t \in Seq(X)
  PROVE  Thins(s, s) /\ Thins(s, <<>>) /\ Thins(Joined(s, t), s)
<1>1. Thins(s, s)
  BY DEF Thins
<1>2. Thins(s, <<>>)
  BY Members DEF Thins
<1>3. Thins(Joined(s, t), s)
  <2> HIDE DEF Joined
  <2> QED BY Members, AfterJoined DEF Thins
<1> QED BY <1>1, <1>2, <1>3

\* Part by part, when the parts share nothing.
LEMMA ThinsJoined ==
  ASSUME NEW X, NEW s \in Seq(X), NEW t \in Seq(X), NEW v \in Seq(X), NEW w \in Seq(X),
         Thins(s, v), Thins(t, w), ToSet(s) \cap ToSet(t) = {}
  PROVE  Thins(Joined(s, t), Joined(v, w))
<1>1. /\ ToSet(Joined(s, t)) = ToSet(s) \cup ToSet(t)
      /\ ToSet(Joined(v, w)) = ToSet(v) \cup ToSet(w)
  BY Members
<1>2. ToSet(v) \subseteq ToSet(s) /\ ToSet(w) \subseteq ToSet(t)
  BY DEF Thins
<1>3. ASSUME NEW x \in ToSet(v) \cup ToSet(w), NEW y, After(Joined(s, t), x, y)
      PROVE  After(Joined(v, w), x, y)
  <2>1. After(s, x, y)
    BY <1>3, AfterJoined
  <2>2. CASE x \in ToSet(v)
    <3>1. After(v, x, y)
      BY <2>1, <2>2 DEF Thins
    <3> QED BY <2>2, <3>1, AfterJoined
  <2>3. CASE x \in ToSet(w)
    <3>1. x \notin ToSet(s)
      BY <1>2, <2>3
    <3>2. After(t, x, y)
      BY <1>3, <3>1, AfterJoined
    <3>3. After(w, x, y)
      BY <2>3, <3>2 DEF Thins
    <3>4. y \notin ToSet(v)
      BY <1>2, <2>1, <3>1, AfterMembers
    <3>5. After(v, x, y)
      BY <3>4, AfterMembers
    <3> QED BY <3>3, <3>5, AfterJoined
  <2> QED BY <1>3, <2>2, <2>3
<1> QED BY <1>1, <1>2, <1>3 DEF Thins

\* No element twice means the parts share nothing.
LEMMA SharesNothing ==
  ASSUME NEW X, NEW s \in Seq(X), NEW t \in Seq(X), \A x \in X : Times(Joined(s, t), x) <= 1
  PROVE  /\ ToSet(s) \cap ToSet(t) = {}
         /\ \A x \in X : Times(s, x) <= 1 /\ Times(t, x) <= 1
<1>1. ASSUME NEW x \in X
      PROVE  /\ Times(s, x) \in Nat /\ Times(t, x) \in Nat /\ Times(s, x) + Times(t, x) <= 1
             /\ x \in ToSet(s) <=> Times(s, x) > 0
             /\ x \in ToSet(t) <=> Times(t, x) > 0
  <2>1. Times(Joined(s, t), x) = Times(s, x) + Times(t, x)
    BY TimesJoined
  <2>2. Times(s, x) \in Nat /\ Times(t, x) \in Nat
    BY TimesBasics
  <2> QED BY <2>1, <2>2, TimesMember
<1>2. ToSet(s) \subseteq X
  BY Members
<1>3. ASSUME NEW x \in X, x \in ToSet(s), x \in ToSet(t) PROVE FALSE
  BY <1>1, <1>3
<1>4. ASSUME NEW x \in X PROVE Times(s, x) <= 1 /\ Times(t, x) <= 1
  BY <1>1
<1> QED BY <1>2, <1>3, <1>4

\* The last part.
LEMMA ThinsLast ==
  ASSUME NEW X, NEW s \in Seq(X), NEW t \in Seq(X), ToSet(s) \cap ToSet(t) = {}
  PROVE  Thins(Joined(s, t), t)
<1>1. Thins(s, <<>>) /\ Thins(t, t) /\ <<>> \in Seq(X)
  BY ThinsSome, EmptySeq
<1>2. Joined(<<>>, t) = t
  BY EmptySeq, JoinedFacts
<1>3. Thins(Joined(s, t), Joined(<<>>, t))
  BY <1>1, ThinsJoined
<1> QED BY <1>2, <1>3

\* One element less, where none is twice.
LEMMA ThinsRemoved ==
  ASSUME NEW X, NEW s \in Seq(X), NEW i \in DOMAIN s, \A x \in X : Times(s, x) <= 1
  PROVE  Thins(s, RemoveAt(s, i))
<1> DEFINE a == SubSeq(s, 1, i - 1)
           b == SubSeq(s, i + 1, Len(s))
           c == SubSeq(s, 1, i)
<1>0. Len(s) \in Nat /\ DOMAIN s = 1..Len(s) /\ \A k \in 1..Len(s) : s[k] \in X
  BY LenProperties, ElementOfSeq
<1>1. i \in 1..Len(s) /\ i \in 0..Len(s) /\ i - 1 \in 0..Len(s) /\ s[i] \in X
  BY <1>0
<1>2. /\ c \in Seq(X) /\ b \in Seq(X) /\ s = Joined(c, b)
  BY <1>1, Parts
<1>3. a \in Seq(X)
  BY <1>1, Parts
<1>4. c = Joined(a, <<s[i]>>)
  <2>1. 1 \in 1..Len(s) /\ i \in 1..Len(s)
    BY <1>0, <1>1
  <2>2. SubSeq(s, 1, i) = SubSeq(s, 1, i - 1) \o <<s[i]>>
    BY <2>1, SubSeqRecursiveSecond
  <2> QED BY <2>2 DEF Joined
<1>5. RemoveAt(s, i) = Joined(a, b)
  BY DEF RemoveAt, Joined
<1> HIDE DEF a, b, c
<1>6. <<s[i]>> \in Seq(X)
  <2>1. Append(<<>>, s[i]) = <<s[i]>> /\ <<>> \in Seq(X)
    BY <1>1, EmptySeq, AppendProperties
  <2> QED BY <1>1, <2>1, AppendProperties
<1>7. Thins(c, a)
  BY <1>3, <1>4, <1>6, ThinsSome
<1>8. Thins(b, b)
  BY <1>2, ThinsSome
<1>9. ToSet(c) \cap ToSet(b) = {}
  BY <1>2, SharesNothing
<1>10. Thins(Joined(c, b), Joined(a, b))
  BY <1>2, <1>3, <1>7, <1>8, <1>9, ThinsJoined
<1> QED BY <1>2, <1>5, <1>10

\* Without its first, or its last.
LEMMA ThinsEnds ==
  ASSUME NEW X, NEW s \in Seq(X), s # <<>>, \A x \in X : Times(s, x) <= 1
  PROVE  Thins(s, Tail(s)) /\ Thins(s, Front(s))
<1>0. Len(s) \in Nat /\ DOMAIN s = 1..Len(s) /\ Len(s) # 0
  BY EmptySeq, LenProperties
<1>1. 1 \in DOMAIN s /\ Len(s) \in DOMAIN s /\ Len(s) - 1 \in 0..Len(s)
  BY <1>0
<1>2. RemoveAt(s, 1) = Tail(s)
  <2>1. SubSeq(s, 1, 1 - 1) = <<>>
    BY SubSeqEmpty
  <2>2. Tail(s) = SubSeq(s, 1 + 1, Len(s))
    BY TailIsSubSeq
  <2>3. Tail(s) \in Seq(X)
    BY HeadTailProperties
  <2>4. <<>> \o Tail(s) = Tail(s)
    BY <2>3, ConcatEmptySeq
  <2> QED BY <2>1, <2>2, <2>4 DEF RemoveAt
<1>3. RemoveAt(s, Len(s)) = Front(s)
  <2>1. SubSeq(s, Len(s) + 1, Len(s)) = <<>>
    BY <1>0, SubSeqEmpty
  <2>2. SubSeq(s, 1, Len(s) - 1) \in Seq(X)
    BY <1>1, Parts
  <2>3. SubSeq(s, 1, Len(s) - 1) \o <<>> = SubSeq(s, 1, Len(s) - 1)
    BY <2>2, ConcatEmptySeq
  <2> QED BY <2>1, <2>3 DEF RemoveAt, Front
<1> QED BY <1>1, <1>2, <1>3, ThinsRemoved

-----------------------------------------------------------------------------
(* What was dequeued for a queue, in order *)

\* What the records ds hold of queue q, and all that is dequeued of it: this is what goes
\* back in front of it when the run is over.
Mail(ds, q) == MessagesIn(Without(ds, {d \in Delivery : d.queue # q}))
BackOf(ds, es, q) == Joined(IF q = "steering" THEN SteeredIn(es) ELSE <<>>, Mail(ds, q))
Back(q) == BackOf(deliveries, liveSteered, q)

\* Mail is the messages of the records, one after the other.
LEMMA MailAppend ==
  ASSUME NEW ds \in Seq(Delivery), NEW d \in Delivery, NEW q
  PROVE  /\ Mail(<<>>, q) = <<>>
         /\ Mail(ds, q) \in Seq(Msg)
         /\ Mail(Append(ds, d), q) =
              IF d.queue = q THEN Joined(Mail(ds, q), d.msgs) ELSE Mail(ds, q)
<1> DEFINE S == {e \in Delivery : e.queue # q}
<1>1. Without(<<>>, S) = <<>> /\ MessagesIn(<<>>) = <<>>
  BY WithoutNone, MessagesAppend
<1>2. Without(ds, S) \in Seq(Delivery)
  BY WithoutFacts
<1>3. Without(Append(ds, d), S) = IF d \in S THEN Without(ds, S) ELSE Append(Without(ds, S), d)
  <2> HIDE DEF S
  <2> QED BY WithoutAppend
<1>4. d \in S <=> d.queue # q
  OBVIOUS
<1> HIDE DEF S
<1>5. /\ MessagesIn(Without(ds, S)) \in Seq(Msg)
      /\ MessagesIn(Append(Without(ds, S), d)) = Joined(MessagesIn(Without(ds, S)), d.msgs)
  BY <1>2, MessagesAppend
<1>6. \A es : Mail(es, q) = MessagesIn(Without(es, S))
  BY DEF Mail, S
<1>7. CASE d.queue = q
  BY <1>1, <1>3, <1>4, <1>5, <1>6, <1>7
<1>8. CASE d.queue # q
  BY <1>1, <1>3, <1>4, <1>5, <1>6, <1>8
<1> QED BY <1>7, <1>8

\* Which messages these are.
LEMMA MailFacts ==
  ASSUME NEW ds \in Seq(Delivery), NEW q
  PROVE  /\ Mail(<<>>, q) = <<>>
         /\ Mail(ds, q) \in Seq(Msg)
         /\ \A x : /\ x \in ToSet(Mail(ds, q)) <=>
                        \E d \in ToSet(ds) : d.queue = q /\ x \in ToSet(d.msgs)
                   /\ Times(Mail(ds, q), x) \in Nat
                   /\ Times(Mail(ds, q), x) <= BatchTimes(ds, x)
<1> DEFINE S == {e \in Delivery : e.queue # q}
           w == Without(ds, S)
<1>1. w \in Seq(Delivery) /\ ToSet(w) = ToSet(ds) \ S
  BY WithoutFacts
<1>2. Mail(ds, q) = MessagesIn(w) /\ MessagesIn(w) \in Seq(Msg)
  <2> HIDE DEF w
  <2>1. MessagesIn(w) \in Seq(Msg)
    BY <1>1, MessagesFacts
  <2> QED BY <2>1 DEF Mail, w
<1>3. Mail(<<>>, q) = <<>>
  BY WithoutNone, MessagesFacts, EmptySeq DEF Mail
<1>4. ToSet(ds) \subseteq Delivery
  BY MembersFacts
<1>5. ASSUME NEW x
      PROVE  /\ x \in ToSet(Mail(ds, q)) <=> \E d \in ToSet(ds) : d.queue = q /\ x \in ToSet(d.msgs)
             /\ Times(Mail(ds, q), x) \in Nat
             /\ Times(Mail(ds, q), x) <= BatchTimes(ds, x)
  <2>1. BatchTimes(w, x) <= BatchTimes(ds, x)
    BY BatchTimesLeft
  <2> HIDE DEF w
  <2>2. x \in ToSet(MessagesIn(w)) <=> Times(MessagesIn(w), x) > 0
    BY <1>2, TimesMember
  <2>3. /\ BatchTimes(w, x) \in Nat
        /\ BatchTimes(w, x) > 0 <=> \E d \in ToSet(w) : x \in ToSet(d.msgs)
    BY <1>1, BatchTimesMember
  <2>4. Times(MessagesIn(w), x) = BatchTimes(w, x)
    BY DEF BatchTimes
  <2>5. \A d : d \in ToSet(w) <=> d \in ToSet(ds) /\ d.queue = q
    BY <1>1, <1>4
  <2> QED BY <1>2, <2>1, <2>2, <2>3, <2>4, <2>5
<1> QED BY <1>2, <1>3, <1>5

\* The records of queue by queue that an edit drops.
LEMMA MailKept ==
  ASSUME NEW ds \in Seq(Delivery), NEW Q, NEW q
  PROVE  Mail(Without(ds, {d \in ToSet(ds) : d.queue \in Q}), q) =
           IF q \in Q THEN <<>> ELSE Mail(ds, q)
<1> DEFINE S == {e \in Delivery : e.queue # q}
           D == {d \in ToSet(ds) : d.queue \in Q}
<1>1. ToSet(ds) \subseteq Delivery
  BY MembersFacts
<1>2. Without(Without(ds, D), S) = Without(ds, D \cup S)
  <2> HIDE DEF D, S
  <2> QED BY WithoutTwice
<1>3. CASE q \in Q
  <2>1. ToSet(ds) \subseteq D \cup S
    BY <1>1, <1>3
  <2> HIDE DEF D, S
  <2>2. Without(ds, D \cup S) = <<>>
    BY <2>1, WithoutAllOrNothing
  <2>3. MessagesIn(<<>>) = <<>>
    BY EmptySeq, MessagesFacts
  <2> QED BY <1>2, <1>3, <2>2, <2>3 DEF Mail, D, S
<1>4. CASE q \notin Q
  <2>1. ToSet(ds) \cap (D \cup S) = ToSet(ds) \cap S
    BY <1>1, <1>4
  <2> HIDE DEF D, S
  <2>2. Without(ds, D \cup S) = Without(ds, S)
    BY <2>1, WithoutSame
  <2> QED BY <1>2, <1>4, <2>2 DEF Mail, D, S
<1> QED BY <1>3, <1>4

\* Left works record by record.
LEMMA LeftAppend ==
  ASSUME NEW ds \in Seq(Delivery), NEW d \in Delivery, NEW m
  PROVE  /\ Left(<<>>, m) = <<>>
         /\ Left(ds, m) \in Seq(Delivery)
         /\ Left(Append(ds, d), m) =
              IF Pop(d, m) \in Bare THEN Left(ds, m) ELSE Append(Left(ds, m), Pop(d, m))
<1> DEFINE p == Pop(d, m)
           s == Popped(ds, m)
<1>1. s \in Seq(Popping) /\ Left(ds, m) \in Seq(Delivery)
  BY LeftFacts
<1>2. p \in Popping
  BY PopFacts
<1>3. Popped(Append(ds, d), m) = Append(s, p)
  BY <1>1, PoppedAppend
<1>4. Popped(<<>>, m) = <<>>
  BY EmptySeq, LenProperties DEF Popped
<1>5. Left(<<>>, m) = <<>>
  BY <1>4, WithoutNone DEF Left
<1> HIDE DEF p, s
<1>6. Without(Append(s, p), Bare) = IF p \in Bare THEN Without(s, Bare) ELSE Append(Without(s, Bare), p)
  BY <1>1, <1>2, WithoutAppend
<1> QED BY <1>1, <1>3, <1>5, <1>6 DEF Left, p, s

\* Recording a message takes it out of the mail and leaves the rest in order.
LEMMA MailThins ==
  ASSUME NEW ds \in Seq(Delivery), NEW m, NEW q, \A x \in Msg : Times(Mail(ds, q), x) <= 1
  PROVE  Thins(Mail(ds, q), Mail(Left(ds, m), q))
<1> DEFINE Once(es) == \A x \in Msg : Times(Mail(es, q), x) <= 1
           Q == {es \in Seq(Delivery) : Once(es) => Thins(Mail(es, q), Mail(Left(es, m), q))}
<1>1. <<>> \in Q
  <2>1. Left(<<>>, m) = <<>> /\ <<>> \in Seq(Delivery)
    BY EmptySeq, LeftAppend, WithoutNone, LenProperties DEF Left, Popped
  <2>2. Mail(<<>>, q) = <<>> /\ <<>> \in Seq(Msg)
    BY EmptySeq, MailFacts
  <2>3. Thins(<<>>, <<>>)
    BY <2>2, ThinsSome
  <2> QED BY <2>1, <2>2, <2>3
<1>2. ASSUME NEW es \in Q, NEW e \in Delivery PROVE Append(es, e) \in Q
  <2> DEFINE p == Pop(e, m)
             t == Append(es, e)
             v == Mail(es, q)
             w == Mail(Left(es, m), q)
  <2>1. es \in Seq(Delivery) /\ t \in Seq(Delivery) /\ (Once(es) => Thins(v, w))
    BY AppendProperties
  <2>2. /\ Left(es, m) \in Seq(Delivery)
        /\ Left(t, m) = IF p \in Bare THEN Left(es, m) ELSE Append(Left(es, m), p)
    BY <2>1, LeftAppend
  <2>3. /\ p \in Bare \/ p \in Delivery
        /\ p \in Bare <=> p.msgs = <<>>
        /\ p.queue = e.queue
        /\ p.msgs = IF Head(e.msgs) = m THEN Tail(e.msgs) ELSE e.msgs
    BY PopFacts
  <2>4. v \in Seq(Msg) /\ w \in Seq(Msg)
    BY <2>1, <2>2, MailFacts
  <2>5. Mail(t, q) = IF e.queue = q THEN Joined(v, e.msgs) ELSE v
    BY <2>1, MailAppend
  <2>6. e.msgs \in Seq(Msg) /\ e.msgs # <<>> /\ Tail(e.msgs) \in Seq(Msg)
    <3>1. e.msgs \in Seq(Msg) /\ e.msgs # <<>>
      BY DEF Delivery
    <3> QED BY <3>1, HeadTailProperties
  <2>7. p.msgs \in Seq(Msg)
    BY <2>3, <2>6
  <2>8. Mail(Left(t, m), q) = IF e.queue = q THEN Joined(w, p.msgs) ELSE w
    <3> HIDE DEF p
    <3>1. CASE p \in Bare
      <4>1. Left(t, m) = Left(es, m) /\ p.msgs = <<>>
        BY <2>2, <2>3, <3>1
      <4>2. Joined(w, <<>>) = w
        BY <2>4, EmptySeq, JoinedFacts
      <4> QED BY <4>1, <4>2
    <3>2. CASE p \notin Bare
      <4>1. p \in Delivery /\ Left(t, m) = Append(Left(es, m), p)
        BY <2>2, <2>3, <3>2
      <4>2. Mail(Append(Left(es, m), p), q) = IF p.queue = q THEN Joined(w, p.msgs) ELSE w
        BY <2>2, <4>1, MailAppend
      <4> QED BY <2>3, <4>1, <4>2
    <3> QED BY <3>1, <3>2
  <2> HIDE DEF v, w, t
  <2>9. ASSUME Once(t) PROVE Thins(Mail(t, q), Mail(Left(t, m), q))
    <3>1. CASE e.queue = q
      <4>1. \A x \in Msg : Times(Joined(v, e.msgs), x) <= 1
        BY <2>5, <2>9, <3>1
      <4>2. /\ ToSet(v) \cap ToSet(e.msgs) = {}
            /\ \A x \in Msg : Times(v, x) <= 1 /\ Times(e.msgs, x) <= 1
        BY <2>4, <2>6, <4>1, SharesNothing
      <4>3. Thins(v, w)
        BY <2>1, <4>2 DEF v
      <4>4. Thins(e.msgs, p.msgs)
        BY <2>3, <2>6, <4>2, ThinsEnds, ThinsSome
      <4> HIDE DEF p
      <4>5. Thins(Joined(v, e.msgs), Joined(w, p.msgs))
        BY <2>4, <2>6, <2>7, <4>2, <4>3, <4>4, ThinsJoined
      <4> QED BY <2>5, <2>8, <3>1, <4>5
    <3>2. CASE e.queue # q
      <4>1. Once(es)
        BY <2>5, <2>9, <3>2 DEF v
      <4> QED BY <2>1, <2>5, <2>8, <3>2, <4>1
    <3> QED BY <3>1, <3>2
  <2> QED BY <2>1, <2>9 DEF t
<1>3. Q \subseteq Seq(Delivery)
  OBVIOUS
<1>4. Q = Seq(Delivery)
  <2> HIDE DEF Q
  <2> QED BY <1>1, <1>2, <1>3, SeqsAreBuilt
<1> QED BY <1>4

\* So does it with the live steering.
LEMMA SteeringThins ==
  ASSUME NEW es \in Seq(Steering), NEW S, \A x \in Msg : Times(SteeredIn(es), x) <= 1
  PROVE  Thins(SteeredIn(es), SteeredIn(Without(es, S)))
<1> DEFINE Once(s) == \A x \in Msg : Times(SteeredIn(s), x) <= 1
           Q == {s \in Seq(Steering) : Once(s) => Thins(SteeredIn(s), SteeredIn(Without(s, S)))}
<1>1. <<>> \in Q
  <2>1. Without(<<>>, S) = <<>> /\ <<>> \in Seq(Steering) /\ <<>> \in Seq(Msg)
    BY EmptySeq, WithoutNone
  <2>2. SteeredIn(<<>>) = <<>>
    BY EmptySeq, LenProperties DEF SteeredIn
  <2>3. Thins(<<>>, <<>>)
    BY <2>1, ThinsSome
  <2> QED BY <2>1, <2>2, <2>3
<1>2. ASSUME NEW s \in Q, NEW e \in Steering PROVE Append(s, e) \in Q
  <2> DEFINE v == SteeredIn(s)
             w == SteeredIn(Without(s, S))
             t == Append(s, e)
             n == <<e.msg>>
  <2>1. /\ s \in Seq(Steering) /\ t \in Seq(Steering) /\ (Once(s) => Thins(v, w))
        /\ Without(s, S) \in Seq(Steering)
    BY AppendProperties, WithoutFacts
  <2>2. v \in Seq(Msg) /\ w \in Seq(Msg)
    BY <2>1, SteeredAppend
  <2>3. e.msg \in Msg /\ n \in Seq(Msg)
    <3>1. e.msg \in Msg
      BY DEF Steering
    <3>2. /\ <<>> \in Seq(Msg) /\ Append(<<>>, e.msg) = <<>> \o <<e.msg>> /\ <<e.msg>> \in Seq(Msg)
      BY <3>1, EmptySeq, AppendIsConcat
    <3> QED BY <3>1, <3>2
  <2>4. Without(t, S) = IF e \in S THEN Without(s, S) ELSE Append(Without(s, S), e)
    BY <2>1, WithoutAppend
  <2>5. SteeredIn(t) = Append(v, e.msg) /\ SteeredIn(Append(Without(s, S), e)) = Append(w, e.msg)
    BY <2>1, SteeredAppend
  <2> HIDE DEF v, w, t
  <2>6. Append(v, e.msg) = Joined(v, n) /\ Append(w, e.msg) = Joined(w, n)
    BY <2>2, <2>3, AppendIsConcat DEF Joined
  <2> HIDE DEF n
  <2>7. ASSUME Once(t) PROVE Thins(SteeredIn(t), SteeredIn(Without(t, S)))
    <3>1. \A x \in Msg : Times(Joined(v, n), x) <= 1
      BY <2>5, <2>6, <2>7
    <3>2. ToSet(v) \cap ToSet(n) = {} /\ \A x \in Msg : Times(v, x) <= 1
      <4> HIDE DEF Q
      <4> QED BY <2>2, <2>3, <3>1, SharesNothing
    <3>3. Thins(v, w)
      BY <2>1, <3>2 DEF v
    <3>4. Thins(n, n) /\ Thins(n, <<>>) /\ <<>> \in Seq(Msg)
      BY <2>3, ThinsSome, EmptySeq
    <3>5. Joined(w, <<>>) = w
      BY <2>2, <3>4, JoinedFacts
    <3>6. Thins(Joined(v, n), Joined(w, n)) /\ Thins(Joined(v, n), Joined(w, <<>>))
      BY <2>2, <2>3, <3>2, <3>3, <3>4, ThinsJoined
    <3>7. SteeredIn(Without(t, S)) = Joined(w, n) \/ SteeredIn(Without(t, S)) = w
      BY <2>4, <2>5, <2>6 DEF w
    <3> QED BY <2>5, <2>6, <3>5, <3>6, <3>7
  <2> QED BY <2>1, <2>7 DEF t
<1>3. Q \subseteq Seq(Steering)
  OBVIOUS
<1>4. Q = Seq(Steering)
  <2> HIDE DEF Q
  <2> QED BY <1>1, <1>2, <1>3, SeqsAreBuilt
<1> QED BY <1>4

\* A batch that is live-steered comes after what was.
LEMMA SteeredJoined ==
  ASSUME NEW es \in Seq(Steering), NEW r \in Run, NEW b \in Seq(Msg)
  PROVE  SteeredIn(Joined(es, Steer(r, b))) = Joined(SteeredIn(es), b)
<1> DEFINE s == Steer(r, b)
           j == Joined(es, s)
           a == SteeredIn(es)
           u == SteeredIn(j)
           v == Joined(a, b)
<1>1. Len(b) \in Nat /\ DOMAIN b = 1..Len(b) /\ Len(es) \in Nat /\ DOMAIN es = 1..Len(es)
  BY LenProperties
<1>2. DOMAIN s = 1..Len(b) /\ \A i \in 1..Len(b) : s[i] = [msg |-> b[i], run |-> r]
  BY <1>1 DEF Steer
<1>3. s \in Seq(Steering)
  <2>1. \A i \in 1..Len(b) : b[i] \in Msg
    BY ElementOfSeq
  <2>2. \A i \in 1..Len(b) : [msg |-> b[i], run |-> r] \in Steering
    BY <2>1 DEF Steering
  <2>3. s = [i \in 1..Len(b) |-> [msg |-> b[i], run |-> r]]
    BY <1>1 DEF Steer
  <2> QED BY <1>1, <2>2, <2>3, IsASeq
<1>4. a \in Seq(Msg) /\ DOMAIN a = 1..Len(es) /\ \A i \in 1..Len(es) : a[i] = es[i].msg
  <2>1. a \in Seq(Msg)
    BY SteerTimesFacts
  <2> QED BY <1>1, <2>1 DEF SteeredIn
<1> HIDE DEF s
<1>5. Len(s) = Len(b) /\ Len(a) = Len(es)
  <2> HIDE DEF a
  <2> QED BY <1>1, <1>2, <1>3, <1>4, LenProperties
<1>6. /\ DOMAIN j = 1..(Len(es) + Len(b))
      /\ \A i \in 1..Len(es) : j[i] = es[i]
      /\ \A i \in 1..Len(b) : j[Len(es) + i] = s[i]
  <2>1. DOMAIN Joined(es, s) = 1..(Len(es) + Len(s))
    BY <1>3, JoinedFacts
  <2>2. \A i \in 1..Len(es) : Joined(es, s)[i] = es[i]
    BY <1>3, JoinedFacts
  <2>3. \A i \in 1..Len(s) : Joined(es, s)[Len(es) + i] = s[i]
    BY <1>3, JoinedFacts
  <2> QED BY <1>5, <2>1, <2>2, <2>3
<1> HIDE DEF j
<1>7. /\ DOMAIN u = 1..(Len(es) + Len(b))
      /\ \A i \in 1..(Len(es) + Len(b)) : u[i] = j[i].msg
      /\ u = [i \in 1..(Len(es) + Len(b)) |-> u[i]]
  BY <1>6 DEF SteeredIn
<1> HIDE DEF a, u
<1>8. /\ DOMAIN v = 1..(Len(es) + Len(b)) /\ v \in Seq(Msg)
      /\ \A i \in 1..Len(es) : v[i] = a[i]
      /\ \A i \in 1..Len(b) : v[Len(es) + i] = b[i]
  <2> HIDE DEF v
  <2>0. a \in Seq(Msg)
    BY <1>4
  <2>1. DOMAIN Joined(a, b) = 1..(Len(a) + Len(b)) /\ Joined(a, b) \in Seq(Msg)
    BY <2>0, JoinedFacts
  <2>2. \A i \in 1..Len(a) : Joined(a, b)[i] = a[i]
    BY <2>0, JoinedFacts
  <2>3. \A i \in 1..Len(b) : Joined(a, b)[Len(a) + i] = b[i]
    BY <2>0, JoinedFacts
  <2> QED BY <1>5, <2>1, <2>2, <2>3 DEF v
<1> HIDE DEF v
<1>9. v = [i \in 1..(Len(es) + Len(b)) |-> v[i]]
  BY <1>8, LenProperties
<1>10. ASSUME NEW i \in 1..(Len(es) + Len(b)) PROVE u[i] = v[i]
  <2>1. i \in 1..Len(es) \/ (i - Len(es) \in 1..Len(b) /\ Len(es) + (i - Len(es)) = i)
    BY <1>1
  <2>2. CASE i \in 1..Len(es)
    BY <1>4, <1>6, <1>7, <1>8, <2>2
  <2>3. CASE i - Len(es) \in 1..Len(b) /\ Len(es) + (i - Len(es)) = i
    <3>1. j[i] = s[i - Len(es)] /\ v[i] = b[i - Len(es)]
      BY <1>6, <1>8, <2>3
    <3>2. s[i - Len(es)].msg = b[i - Len(es)]
      BY <1>2, <2>3
    <3> QED BY <1>7, <3>1, <3>2
  <2> QED BY <2>1, <2>2, <2>3
<1>11. u = v
  BY <1>7, <1>9, <1>10
<1> QED BY <1>11 DEF u, v, j, a, s

-----------------------------------------------------------------------------
(* The order of arrival *)

\* What is pending of queue q.
Known(q) == ToSet(Peek(q)) \cup ToSet(Back(q))

\* In the order o, x came before y.
Older(o, x, y) == \E i, j \in DOMAIN o : i < j /\ o[i] = x /\ o[j] = y

\* A message is pending in the queue it arrived in last.
Home ==
  /\ \A q, u \in Queue : q # u => ToSet(order[q]) \cap ToSet(order[u]) = {}
  /\ \A q \in Queue : Known(q) \subseteq ToSet(order[q])

\* Unless the run has ended, it will record all that was dequeued; and while a response
\* streams, what its loop dequeued is pushed.
Lanes ==
  controller \in Run =>
    /\ loop[controller].at # "ended" =>
         \A q \in Queue : ToSet(Back(q)) \subseteq ToSet(Pipe(controller))
    /\ loop[controller].at = "respond" =>
         \A q \in Queue : ToSet(Mail(deliveries, q)) \subseteq ToSet(stream[controller])

\* A claim is that of a preparation under way; if this is not of the run in charge, the batch
\* is late.  A pump dequeues steering only.
Prepared ==
  /\ \A q \in Queue : claims[q] # NoClaim =>
       /\ claims[q].by \in Proc
       /\ taking[claims[q].by].step = "prepare" /\ taking[claims[q].by].queue = q
       /\ claims[q].by[1] = controller \/ ToSet(claims[q].msgs) \subseteq late
  /\ \A r \in Run : taking[<<r, "live">>].queue = "steering"

\* While x is pending, a message y that arrived after it is not recorded, is behind x in the
\* queue and in the pipe, and would go back behind x, which is dequeued if y is.
InTurn(q) ==
  \A x \in Known(q), y \in Msg \ late : Older(order[q], x, y) =>
    /\ recorded[y] = 0
    /\ x \in ToSet(Back(q)) \/ After(Peek(q), x, y)
    /\ controller \in Run =>
         /\ x \in ToSet(stream[controller]) \/ After(Back(q), x, y)
         /\ After(Pipe(controller), x, y)

Turned == \A q \in Queue : InTurn(q)

OInv == Home /\ Lanes /\ Prepared /\ Turned

\* What is dequeued of a queue counts as dequeued, and all that does is of a queue.
LEMMA BackOfFacts ==
  ASSUME NEW ds \in Seq(Delivery), NEW es \in Seq(Steering), NEW q \in Queue
  PROVE  /\ BackOf(ds, es, q) \in Seq(Msg)
         /\ ToSet(BackOf(ds, es, q)) =
              (IF q = "steering" THEN ToSet(SteeredIn(es)) ELSE {}) \cup ToSet(Mail(ds, q))
         /\ \A x : /\ Times(BackOf(ds, es, q), x) \in Nat
                   /\ Times(BackOf(ds, es, q), x) <= BatchTimes(ds, x) + SteerTimes(es, x)
<1> DEFINE s == IF q = "steering" THEN SteeredIn(es) ELSE <<>>
           t == Mail(ds, q)
<1>1. SteeredIn(es) \in Seq(Msg) /\ <<>> \in Seq(Msg) /\ ToSet(<<>>) = {}
  BY SteerTimesFacts, EmptySeq, MembersFacts
<1>2. s \in Seq(Msg) /\ t \in Seq(Msg)
  BY <1>1, MailFacts
<1>3. ToSet(s) = IF q = "steering" THEN ToSet(SteeredIn(es)) ELSE {}
  BY <1>1
<1>4. BackOf(ds, es, q) = Joined(s, t)
  BY DEF BackOf
<1> HIDE DEF s, t
<1>5. Joined(s, t) \in Seq(Msg) /\ ToSet(Joined(s, t)) = ToSet(s) \cup ToSet(t)
  BY <1>2, JoinedFacts, Members
<1>6. ASSUME NEW x
      PROVE  /\ Times(BackOf(ds, es, q), x) \in Nat
             /\ Times(BackOf(ds, es, q), x) <= BatchTimes(ds, x) + SteerTimes(es, x)
  <2>1. Times(Joined(s, t), x) = Times(s, x) + Times(t, x)
    BY <1>2, TimesJoined
  <2>2. Times(t, x) \in Nat /\ Times(t, x) <= BatchTimes(ds, x)
    BY MailFacts DEF t
  <2>3. BatchTimes(ds, x) \in Nat /\ SteerTimes(es, x) \in Nat
    BY BatchTimesMember, SteerTimesFacts
  <2>4. Times(s, x) = IF q = "steering" THEN SteerTimes(es, x) ELSE 0
    <3>1. Times(<<>>, x) = 0
      BY <1>1, TimesBasics
    <3> QED BY <3>1 DEF s, SteerTimes
  <2> QED BY <1>4, <2>1, <2>2, <2>3, <2>4
<1> QED BY <1>3, <1>4, <1>5, <1>6 DEF t

\* The same of the state.
LEMMA BackFacts ==
  ASSUME TypeOK, NEW q \in Queue
  PROVE  /\ Back(q) \in Seq(Msg)
         /\ ToSet(Back(q)) = (IF q = "steering" THEN ToSet(SteeredIn(liveSteered)) ELSE {})
                               \cup ToSet(Mail(deliveries, q))
         /\ \A x : /\ Times(Back(q), x) \in Nat /\ Times(Back(q), x) <= Dequeued(x)
                   /\ x \in ToSet(Back(q)) => Dequeued(x) > 0
<1>0. deliveries \in Seq(Delivery) /\ liveSteered \in Seq(Steering)
  BY DEF TypeOK
<1>1. Back(q) = BackOf(deliveries, liveSteered, q)
  BY DEF Back
<1>2. Back(q) \in Seq(Msg)
  BY <1>0, <1>1, BackOfFacts
<1>3. ToSet(Back(q)) = (IF q = "steering" THEN ToSet(SteeredIn(liveSteered)) ELSE {})
                               \cup ToSet(Mail(deliveries, q))
  BY <1>0, <1>1, BackOfFacts
<1>4. ASSUME NEW x PROVE Times(Back(q), x) \in Nat /\ Times(Back(q), x) <= Dequeued(x)
  BY <1>0, <1>1, BackOfFacts, DequeuedFacts
<1>5. ASSUME NEW x, x \in ToSet(Back(q)) PROVE Dequeued(x) > 0
  <2>1. Times(Back(q), x) > 0
    BY <1>2, <1>5, TimesMember
  <2>2. Dequeued(x) \in Nat
    BY DequeuedFacts
  <2> QED BY <1>4, <2>1, <2>2
<1> QED BY <1>2, <1>3, <1>4, <1>5

\* What is pending is pending of a queue.
LEMMA PendingIsKnown ==
  ASSUME TypeOK, NEW x \in Pending
  PROVE  \E q \in Queue : x \in Known(q)
<1>0. deliveries \in Seq(Delivery) /\ liveSteered \in Seq(Steering)
  BY DEF TypeOK
<1>1. CASE \E q \in Queue : x \in ToSet(Peek(q))
  BY <1>1 DEF Known
<1>2. CASE x \in MessagesOf(ToSet(deliveries))
  <2>1. PICK d \in ToSet(deliveries) : x \in ToSet(d.msgs)
    BY <1>2 DEF MessagesOf
  <2>2. d.queue \in Queue
    <3>1. ToSet(deliveries) \subseteq Delivery
      BY <1>0, MembersFacts
    <3> QED BY <3>1 DEF Delivery
  <2>3. x \in ToSet(Mail(deliveries, d.queue))
    BY <1>0, <2>1, MailFacts
  <2>4. x \in ToSet(Back(d.queue))
    BY <2>2, <2>3, BackFacts
  <2> QED BY <2>2, <2>4 DEF Known
<1>3. CASE \E e \in ToSet(liveSteered) : x = e.msg
  <2>1. SteerTimes(liveSteered, x) > 0 /\ SteeredIn(liveSteered) \in Seq(Msg)
    BY <1>0, <1>3, SteerTimesFacts
  <2>2. x \in ToSet(SteeredIn(liveSteered))
    BY <2>1, TimesMember DEF SteerTimes
  <2>3. "steering" \in Queue
    BY DEF Queue
  <2>4. x \in ToSet(Back("steering"))
    BY <2>2, <2>3, BackFacts
  <2> QED BY <2>3, <2>4 DEF Known
<1> QED BY <1>1, <1>2, <1>3 DEF Pending

\* A message is in one place.
LEMMA Alone ==
  ASSUME TypeOK, Accounts, NEW x \in Msg, NEW q \in Queue
  PROVE  /\ Times(Back(q), x) <= 1 /\ Times(Peek(q), x) <= 1
         /\ x \in ToSet(Peek(q)) =>
              /\ Queued(x) = 1 /\ Dequeued(x) = 0 /\ recorded[x] = 0 /\ x \notin taken
              /\ \A u \in Queue : x \notin ToSet(Back(u)) /\ (u # q => x \notin ToSet(Peek(u)))
              /\ controller \in Run => x \notin ToSet(Pipe(controller))
         /\ x \in ToSet(Back(q)) =>
              /\ recorded[x] = 0 /\ x \notin taken
              /\ \A u \in Queue : x \notin ToSet(Peek(u))
         /\ controller \in Run => Times(Pipe(controller), x) <= 1
<1>1. /\ Queued(x) \in Nat /\ Dequeued(x) \in Nat /\ recorded[x] \in Nat
      /\ Queued(x) = Times(Peek("steering"), x) + Times(Peek("followUp"), x)
      /\ Times(Peek("steering"), x) \in Nat /\ Times(Peek("followUp"), x) \in Nat
  BY QueuedFacts, DequeuedFacts DEF TypeOK, Queued
<1>2. /\ Copies(x) <= 1 /\ Counted(x) <= 1
  BY DEF Accounts
<1>3. /\ Queued(x) + Dequeued(x) + recorded[x] <= 1
      /\ x \in taken => Queued(x) + Dequeued(x) + recorded[x] = 0
  BY <1>1, <1>2 DEF Copies
<1>4. controller \in Run => /\ Times(Pipe(controller), x) \in Nat
                            /\ x \in ToSet(Pipe(controller)) <=> Times(Pipe(controller), x) > 0
                            /\ Queued(x) + Times(Pipe(controller), x) <= 1
                            /\ Times(Pipe(controller), x) <= 1
  <2> SUFFICES ASSUME controller \in Run
               PROVE  /\ Times(Pipe(controller), x) \in Nat
                      /\ x \in ToSet(Pipe(controller)) <=> Times(Pipe(controller), x) > 0
                      /\ Queued(x) + Times(Pipe(controller), x) <= 1
                      /\ Times(Pipe(controller), x) <= 1
    OBVIOUS
  <2>1. /\ Times(Pipe(controller), x) \in Nat
        /\ x \in ToSet(Pipe(controller)) <=> Times(Pipe(controller), x) > 0
    BY PipeFacts
  <2>2. Queued(x) + recorded[x] + Times(Pipe(controller), x) <= 1
    BY <1>2 DEF Counted
  <2> QED BY <1>1, <2>1, <2>2
<1>5. \A u \in Queue : x \in ToSet(Peek(u)) <=> Times(Peek(u), x) > 0
  BY QueueFacts, TimesMember
<1>6. \A u \in Queue : u = "steering" \/ u = "followUp"
  BY DEF Queue
<1>7. Times(Back(q), x) \in Nat /\ Times(Back(q), x) <= Dequeued(x)
  BY BackFacts
<1>8. \A u \in Queue : x \in ToSet(Back(u)) => Dequeued(x) > 0
  BY BackFacts
<1>9. Times(Back(q), x) <= 1 /\ Times(Peek(q), x) <= 1
  BY <1>1, <1>3, <1>6, <1>7
<1>10. ASSUME x \in ToSet(Peek(q))
       PROVE  /\ Queued(x) = 1 /\ Dequeued(x) = 0 /\ recorded[x] = 0 /\ x \notin taken
              /\ \A u \in Queue : x \notin ToSet(Back(u)) /\ (u # q => x \notin ToSet(Peek(u)))
              /\ controller \in Run => x \notin ToSet(Pipe(controller))
  <2>1. Queued(x) > 0 /\ Times(Peek(q), x) > 0
    BY <1>1, <1>5, <1>6, <1>10
  <2>2. Queued(x) = 1 /\ Dequeued(x) = 0 /\ recorded[x] = 0 /\ x \notin taken
    BY <1>1, <1>3, <2>1
  <2>3. \A u \in Queue : u # q => ~(Times(Peek(u), x) > 0)
    BY <1>1, <1>6, <2>1, <2>2
  <2>4. controller \in Run => x \notin ToSet(Pipe(controller))
    BY <1>4, <2>2
  <2> QED BY <1>5, <1>8, <2>2, <2>3, <2>4
<1>11. ASSUME x \in ToSet(Back(q))
       PROVE  /\ recorded[x] = 0 /\ x \notin taken /\ \A u \in Queue : x \notin ToSet(Peek(u))
  <2>1. recorded[x] = 0 /\ x \notin taken /\ Queued(x) = 0
    BY <1>1, <1>3, <1>8, <1>11
  <2>2. \A u \in Queue : ~(Times(Peek(u), x) > 0)
    BY <1>1, <1>6, <2>1
  <2> QED BY <1>5, <2>1, <2>2
<1> QED BY <1>4, <1>9, <1>10, <1>11

\* What is known are messages.
LEMMA KnownFacts ==
  ASSUME TypeOK, NEW q \in Queue
  PROVE  Known(q) \subseteq Msg /\ Peek(q) \in Seq(Msg) /\ Back(q) \in Seq(Msg)
<1>1. Peek(q) \in Seq(Msg) /\ Back(q) \in Seq(Msg)
  BY QueueFacts, BackFacts
<1>2. ToSet(Peek(q)) \subseteq Msg /\ ToSet(Back(q)) \subseteq Msg
  BY <1>1, MembersFacts
<1> QED BY <1>1, <1>2 DEF Known

-----------------------------------------------------------------------------
(* How the order is kept *)

\* Nothing new in a queue, and what is left is in order.
LEMMA InTurnShrinks ==
  ASSUME TypeOK, Accounts, NEW q \in Queue, InTurn(q),
         controller' = controller, late \subseteq late',
         Thins(Peek(q), Peek(q)'), Thins(Back(q), Back(q)'),
         \A x, y \in Msg : Older(order'[q], x, y) => Older(order[q], x, y),
         \A x \in Known(q)', y \in ToSet(order[q]) :
           controller \in Run =>
             /\ After(Pipe(controller), x, y) => After(Pipe(controller)', x, y)
             /\ x \in ToSet(stream[controller]) => x \in ToSet(stream'[controller]),
         \A x \in Known(q)', y \in Msg :
           \/ recorded'[y] = 0 \/ recorded[y] # 0
           \/ controller \in Run /\ ~After(Pipe(controller), x, y)
  PROVE  InTurn(q)'
<1>0. /\ Known(q) \subseteq Msg /\ Peek(q) \in Seq(Msg) /\ Back(q) \in Seq(Msg)
  BY KnownFacts
<1>1. /\ ToSet(Peek(q)') \subseteq ToSet(Peek(q)) /\ ToSet(Back(q)') \subseteq ToSet(Back(q))
      /\ Known(q)' \subseteq Known(q)
      /\ Known(q)' = ToSet(Peek(q)') \cup ToSet(Back(q)')
  BY DEF Thins, Known
<1>2. SUFFICES ASSUME NEW x \in Known(q)', NEW y \in Msg \ late', Older(order'[q], x, y)
      PROVE  /\ recorded'[y] = 0
             /\ x \in ToSet(Back(q)') \/ After(Peek(q)', x, y)
             /\ controller \in Run =>
                  /\ x \in ToSet(stream'[controller]) \/ After(Back(q)', x, y)
                  /\ After(Pipe(controller)', x, y)
  BY DEF InTurn
<1>3. x \in Known(q) /\ x \in Msg /\ y \in Msg \ late /\ Older(order[q], x, y) /\ y \in ToSet(order[q])
  <2>1. Older(order[q], x, y)
    BY <1>0, <1>1, <1>2
  <2> QED BY <1>0, <1>1, <1>2, <2>1 DEF Older, ToSet
<1>4. /\ recorded[y] = 0
      /\ x \in ToSet(Back(q)) \/ After(Peek(q), x, y)
      /\ controller \in Run =>
           /\ x \in ToSet(stream[controller]) \/ After(Back(q), x, y)
           /\ After(Pipe(controller), x, y)
  BY <1>3 DEF InTurn
<1>5. recorded'[y] = 0
  BY <1>2, <1>4
<1>6. x \in ToSet(Back(q)') \/ After(Peek(q)', x, y)
  <2>1. SUFFICES ASSUME x \in ToSet(Peek(q)') PROVE After(Peek(q)', x, y)
    BY <1>1, <1>2
  <2>2. x \notin ToSet(Back(q))
    BY <1>1, <1>3, <2>1, Alone
  <2> QED BY <1>4, <2>1, <2>2 DEF Thins
<1>7. ASSUME controller \in Run
      PROVE  x \in ToSet(stream'[controller]) \/ After(Back(q)', x, y)
  <2>1. SUFFICES ASSUME After(Back(q), x, y) PROVE After(Back(q)', x, y)
    BY <1>2, <1>3, <1>4, <1>7
  <2>2. CASE x \in ToSet(Back(q)')
    BY <2>1, <2>2 DEF Thins
  <2>3. CASE x \in ToSet(Peek(q)')
    <3>1. x \notin ToSet(Back(q))
      BY <1>1, <1>3, <2>3, Alone
    <3>2. y \notin ToSet(Back(q))
      BY <1>0, <2>1, <3>1, AfterMembers
    <3>3. y \notin ToSet(Back(q)')
      BY <1>1, <3>2
    <3> QED BY <3>3 DEF After, ToSet
  <2> QED BY <1>1, <1>2, <2>2, <2>3
<1> QED BY <1>2, <1>3, <1>4, <1>5, <1>6, <1>7

\* A new message comes last.
LEMMA InTurnNewest ==
  ASSUME TypeOK, Accounts, NEW q \in Queue, InTurn(q), NEW m \in Msg,
         Peek(q)' = Append(Peek(q), m), order'[q] = Append(order[q], m), Back(q)' = Back(q),
         UNCHANGED <<controller, late, recorded, stream>>,
         controller \in Run => /\ Pipe(controller)' = Pipe(controller)
                               /\ m \notin ToSet(Pipe(controller)),
         m \notin ToSet(order[q]), m \notin Known(q), recorded[m] = 0
  PROVE  InTurn(q)'
<1>0. /\ Known(q) \subseteq Msg /\ Peek(q) \in Seq(Msg) /\ Back(q) \in Seq(Msg)
      /\ order[q] \in Seq(Msg)
  BY KnownFacts DEF TypeOK
<1>1. /\ ToSet(Append(Peek(q), m)) = ToSet(Peek(q)) \cup {m}
      /\ Known(q)' = ToSet(Peek(q)') \cup ToSet(Back(q)')
  BY <1>0, Members DEF Known
<1>2. Known(q)' = Known(q) \cup {m}
  BY <1>1 DEF Known
<1>3. SUFFICES ASSUME NEW x \in Known(q)', NEW y \in Msg \ late, Older(order'[q], x, y)
      PROVE  /\ recorded[y] = 0
             /\ x \in ToSet(Back(q)) \/ After(Append(Peek(q), m), x, y)
             /\ controller \in Run =>
                  /\ x \in ToSet(stream[controller]) \/ After(Back(q), x, y)
                  /\ After(Pipe(controller), x, y)
  BY DEF InTurn
<1>4. PICK i, j \in DOMAIN order'[q] : i < j /\ order'[q][i] = x /\ order'[q][j] = y
  BY <1>3 DEF Older
<1>5. /\ Len(order[q]) \in Nat /\ DOMAIN order[q] = 1..Len(order[q])
      /\ DOMAIN order'[q] = 1..(Len(order[q]) + 1)
      /\ \A k \in 1..Len(order[q]) : order'[q][k] = order[q][k]
      /\ order'[q][Len(order[q]) + 1] = m
  BY <1>0, AppendProperties, LenProperties
<1>6. x # m /\ x \in Known(q)
  <2>1. i \in DOMAIN order[q] /\ order[q][i] = x
    BY <1>4, <1>5
  <2> QED BY <1>2, <1>3, <2>1 DEF ToSet
<1>7. CASE y = m
  <2>1. x \in ToSet(Back(q)) \/ After(Append(Peek(q), m), x, m)
    <3>1. SUFFICES ASSUME x \in ToSet(Peek(q)) PROVE After(Append(Peek(q), m), x, m)
      BY <1>6 DEF Known
    <3>2. After(Peek(q), x, m)
      BY <1>0, AfterMembers DEF Known
    <3> QED BY <1>0, <3>1, <3>2, AfterAppend
  <2>2. After(Back(q), x, m) /\ (controller \in Run => After(Pipe(controller), x, m))
    BY <1>0, AfterMembers, PipeFacts DEF Known
  <2> QED BY <1>7, <2>1, <2>2
<1>8. CASE y # m
  <2>1. Older(order[q], x, y)
    <3>1. j \in DOMAIN order[q] /\ order[q][j] = y /\ i \in DOMAIN order[q] /\ order[q][i] = x
      BY <1>4, <1>5, <1>8
    <3> QED BY <1>4, <3>1 DEF Older
  <2>2. /\ recorded[y] = 0
        /\ x \in ToSet(Back(q)) \/ After(Peek(q), x, y)
        /\ controller \in Run =>
             /\ x \in ToSet(stream[controller]) \/ After(Back(q), x, y)
             /\ After(Pipe(controller), x, y)
    BY <1>3, <1>6, <2>1 DEF InTurn
  <2>3. After(Peek(q), x, y) => After(Append(Peek(q), m), x, y)
    BY <1>0, <1>8, AfterAppend
  <2> QED BY <2>2, <2>3
<1> QED BY <1>7, <1>8

\* A batch that leaves the queue is behind what was dequeued before, in the pipe and in what
\* would go back; live steering goes back before what the loop dequeued, which is pushed.
LEMMA InTurnHanded ==
  ASSUME TypeOK, Accounts, NEW q \in Queue, InTurn(q), NEW b \in Seq(Msg), NEW w \in Seq(Msg),
         Peek(q) = Joined(b, w), Peek(q)' = w,
         controller \in Run, UNCHANGED <<controller, late, recorded, order, stream>>,
         Pipe(controller)' = Joined(Pipe(controller), b),
         ToSet(Back(q)) \subseteq ToSet(Pipe(controller)),
         NEW s \in Seq(Msg), NEW t \in Seq(Msg),
         Back(q) = Joined(s, t), Back(q)' = Joined(Joined(s, b), t),
         ToSet(t) \subseteq ToSet(stream[controller])
  PROVE  InTurn(q)'
<1>0. Known(q) \subseteq Msg /\ Pipe(controller) \in Seq(Msg) /\ Joined(s, b) \in Seq(Msg)
  BY KnownFacts, PipeFacts, JoinedFacts
<1>1. /\ ToSet(Joined(b, w)) = ToSet(b) \cup ToSet(w)
      /\ ToSet(Joined(s, t)) = ToSet(s) \cup ToSet(t)
      /\ ToSet(Joined(s, b)) = ToSet(s) \cup ToSet(b)
      /\ ToSet(Joined(Joined(s, b), t)) = ToSet(Joined(s, b)) \cup ToSet(t)
  BY <1>0, Members
<1>2. Known(q)' = ToSet(Peek(q)') \cup ToSet(Back(q)')
  BY DEF Known
<1>3. Known(q)' = Known(q)
  BY <1>1, <1>2 DEF Known
<1>4. SUFFICES ASSUME NEW x \in Known(q), NEW y \in Msg \ late, Older(order[q], x, y)
      PROVE  /\ recorded[y] = 0
             /\ x \in ToSet(Back(q)') \/ After(w, x, y)
             /\ x \in ToSet(stream[controller]) \/ After(Back(q)', x, y)
             /\ After(Joined(Pipe(controller), b), x, y)
  BY <1>3 DEF InTurn
<1>5. /\ recorded[y] = 0
      /\ x \in ToSet(Back(q)) \/ After(Joined(b, w), x, y)
      /\ x \in ToSet(stream[controller]) \/ After(Joined(s, t), x, y)
      /\ After(Pipe(controller), x, y)
  BY <1>4 DEF InTurn
<1>6. x \in ToSet(Back(q)) \/ After(b, x, y)
  BY <1>5, AfterJoined
<1>7. x \in ToSet(Back(q)') \/ After(w, x, y)
  <2>1. CASE x \in ToSet(Back(q)) \/ x \in ToSet(b)
    BY <1>1, <2>1
  <2>2. CASE x \notin ToSet(Back(q)) /\ x \notin ToSet(b)
    BY <1>5, <2>2, AfterJoined
  <2> QED BY <2>1, <2>2
<1>8. ASSUME x \notin ToSet(stream[controller]) PROVE After(Joined(Joined(s, b), t), x, y)
  <2>1. After(s, x, y)
    BY <1>5, <1>8, AfterJoined
  <2>2. x \in ToSet(s) \/ After(b, x, y)
    BY <1>1, <1>6, <1>8
  <2>3. After(Joined(s, b), x, y)
    BY <2>1, <2>2, AfterJoined
  <2>4. x \in ToSet(Joined(s, b)) \/ After(t, x, y)
    BY <1>1, <1>5, <1>8, AfterJoined
  <2> QED BY <1>0, <2>3, <2>4, AfterJoined
<1>9. After(Joined(Pipe(controller), b), x, y)
  BY <1>0, <1>5, <1>6, AfterJoined
<1> QED BY <1>5, <1>7, <1>8, <1>9

\* What goes back when the run in charge is over goes in front of the queue, behind a batch
\* that a pump still prepares and that is late by now.
LEMMA InTurnReturned ==
  ASSUME TypeOK, Accounts, NEW q \in Queue, InTurn(q), NEW c \in Seq(Msg), NEW w \in Seq(Msg),
         Peek(q) = Joined(c, w), Peek(q)' = Joined(c, Joined(Back(q), w)),
         ToSet(Back(q)') = {},
         controller \in Run, ToSet(stream[controller]) = {}, controller' \notin Run,
         late \subseteq late', ToSet(c) \subseteq late', UNCHANGED <<recorded, order>>
  PROVE  InTurn(q)'
<1>0. Known(q) \subseteq Msg /\ Back(q) \in Seq(Msg) /\ Joined(Back(q), w) \in Seq(Msg)
  BY KnownFacts, JoinedFacts
<1>1. /\ ToSet(Joined(c, Joined(Back(q), w))) = ToSet(c) \cup ToSet(Joined(Back(q), w))
      /\ ToSet(Joined(Back(q), w)) = ToSet(Back(q)) \cup ToSet(w)
      /\ ToSet(Joined(c, w)) = ToSet(c) \cup ToSet(w)
  BY <1>0, Members
<1>2. Known(q)' = ToSet(Peek(q)') \cup ToSet(Back(q)')
  BY DEF Known
<1>3. Known(q)' = Known(q)
  BY <1>1, <1>2 DEF Known
<1>4. SUFFICES ASSUME NEW x \in Known(q), NEW y \in Msg \ late', Older(order[q], x, y)
      PROVE  recorded[y] = 0 /\ After(Joined(c, Joined(Back(q), w)), x, y)
  BY <1>3 DEF InTurn
<1>5. /\ recorded[y] = 0
      /\ x \in ToSet(Back(q)) \/ After(Joined(c, w), x, y)
      /\ After(Back(q), x, y)
  BY <1>4 DEF InTurn
<1>6. After(c, x, y)
  BY <1>4, AfterMembers
<1>7. x \in ToSet(c) \/ x \in ToSet(Back(q)) \/ After(w, x, y)
  BY <1>5, AfterJoined
<1>8. x \in ToSet(c) \/ After(Joined(Back(q), w), x, y)
  BY <1>0, <1>5, <1>7, AfterJoined
<1>9. After(Joined(c, Joined(Back(q), w)), x, y)
  BY <1>0, <1>6, <1>8, AfterJoined
<1> QED BY <1>5, <1>9

\* Messages leave the queues, and none comes.
LEMMA HomeShrinks ==
  ASSUME Home, order' = order, \A q \in Queue : Known(q)' \subseteq Known(q)
  PROVE  Home'
<1>1. \A q \in Queue : Known(q)' \subseteq ToSet(order[q])
  BY DEF Home
<1>2. \A q, u \in Queue : q # u => ToSet(order[q]) \cap ToSet(order[u]) = {}
  BY DEF Home
<1> QED BY <1>1, <1>2 DEF Home

\* A step of a run that dequeues and records nothing: the pipe may lose its end.
LEMMA QuietOrder ==
  ASSUME TypeOK, Accounts, Home, Lanes, Turned,
         UNCHANGED <<deliveries, liveSteered, controller, recorded, order>>, late \subseteq late',
         \A q \in Queue : Peek(q)' = Peek(q),
         controller \in Run =>
           /\ \E a, b \in Seq(Msg) : Pipe(controller) = Joined(a, b) /\ Pipe(controller)' = a
           /\ ToSet(stream[controller]) \subseteq ToSet(stream'[controller])
           /\ \/ loop'[controller].at = "ended"
              \/ /\ loop[controller].at # "ended"
                 /\ Pipe(controller)' = Pipe(controller)
                 /\ loop'[controller].at = "respond" =>
                      \/ loop[controller].at = "respond"
                      \/ ToSet(Pipe(controller)) \subseteq ToSet(stream'[controller])
  PROVE  Home' /\ Lanes' /\ Turned'
<1>1. \A q \in Queue : /\ Back(q)' = Back(q) /\ Known(q)' = Known(q)
                       /\ Mail(deliveries, q)' = Mail(deliveries, q)
  BY DEF Back, Known
<1>2. Home'
  BY <1>1, HomeShrinks
<1>3. Lanes'
  <2>1. SUFFICES ASSUME controller \in Run, loop'[controller].at # "ended"
        PROVE  /\ \A q \in Queue : ToSet(Back(q)) \subseteq ToSet(Pipe(controller)')
               /\ loop'[controller].at = "respond" =>
                    \A q \in Queue : ToSet(Mail(deliveries, q)) \subseteq ToSet(stream'[controller])
    BY <1>1 DEF Lanes
  <2>2. \A q \in Queue : ToSet(Back(q)) \subseteq ToSet(Pipe(controller)')
    BY <2>1 DEF Lanes
  <2>3. \A q \in Queue : ToSet(Mail(deliveries, q)) \subseteq ToSet(Back(q))
    BY BackFacts
  <2>4. ASSUME loop'[controller].at = "respond", NEW q \in Queue
        PROVE  ToSet(Mail(deliveries, q)) \subseteq ToSet(stream'[controller])
    <3>1. CASE loop[controller].at = "respond"
      BY <2>1, <3>1 DEF Lanes
    <3>2. CASE ToSet(Pipe(controller)) \subseteq ToSet(stream'[controller])
      BY <2>1, <2>2, <2>3, <3>2
    <3> QED BY <2>1, <2>4, <3>1, <3>2
  <2> QED BY <2>2, <2>4
<1>4. ASSUME NEW q \in Queue PROVE InTurn(q)'
  <2>1. Peek(q) \in Seq(Msg) /\ Back(q) \in Seq(Msg)
    BY KnownFacts
  <2>2. Thins(Peek(q), Peek(q)') /\ Thins(Back(q), Back(q)')
    BY <1>1, <2>1, ThinsSome
  <2>3. ASSUME controller \in Run
        PROVE  \A x, y : After(Pipe(controller), x, y) => After(Pipe(controller)', x, y)
    BY <2>3, AfterJoined
  <2>4. InTurn(q)
    BY DEF Turned
  <2> QED BY <2>2, <2>3, <2>4, InTurnShrinks
<1> QED BY <1>2, <1>3, <1>4 DEF Turned

\* A step of run r, which may be the one in charge.
LEMMA RunOrder ==
  ASSUME TypeOK, Accounts, Home, Lanes, Turned,
         UNCHANGED <<deliveries, liveSteered, controller, recorded, order>>, late \subseteq late',
         \A q \in Queue : Peek(q)' = Peek(q),
         NEW r \in Run,
         \A u \in Run \ {r} : Pipe(u)' = Pipe(u) /\ loop'[u] = loop[u] /\ stream'[u] = stream[u],
         \E a, b \in Seq(Msg) : Pipe(r) = Joined(a, b) /\ Pipe(r)' = a,
         ToSet(stream[r]) \subseteq ToSet(stream'[r]),
         \/ loop'[r].at = "ended"
         \/ /\ loop[r].at # "ended"
            /\ Pipe(r)' = Pipe(r)
            /\ loop'[r].at = "respond" =>
                 loop[r].at = "respond" \/ ToSet(Pipe(r)) \subseteq ToSet(stream'[r])
  PROVE  Home' /\ Lanes' /\ Turned'
<1>1. ASSUME controller \in Run
      PROVE  /\ \E a, b \in Seq(Msg) : Pipe(controller) = Joined(a, b) /\ Pipe(controller)' = a
             /\ ToSet(stream[controller]) \subseteq ToSet(stream'[controller])
             /\ \/ loop'[controller].at = "ended"
                \/ /\ loop[controller].at # "ended"
                   /\ Pipe(controller)' = Pipe(controller)
                   /\ loop'[controller].at = "respond" =>
                        \/ loop[controller].at = "respond"
                        \/ ToSet(Pipe(controller)) \subseteq ToSet(stream'[controller])
  <2>1. CASE controller = r
    BY <2>1
  <2>2. CASE controller # r
    <3>1. /\ Pipe(controller)' = Pipe(controller) /\ loop'[controller] = loop[controller]
          /\ stream'[controller] = stream[controller]
      BY <1>1, <2>2
    <3>2. \E a, b \in Seq(Msg) : Pipe(controller) = Joined(a, b) /\ Pipe(controller)' = a
      BY <1>1, <3>1, SamePipe
    <3> QED BY <3>1, <3>2
  <2> QED BY <2>1, <2>2
<1> QED BY <1>1, QuietOrder

-----------------------------------------------------------------------------
(* Claims and preparations *)

\* Whose claim a queue has
LEMMA ClaimOf ==
  ASSUME Prepared, NEW p \in Proc, NEW u \in Queue, claims[u].by = p
  PROVE  claims[u] # NoClaim /\ taking[p].step = "prepare" /\ taking[p].queue = u
<1>1. claims[u] # NoClaim
  BY RunAssumption DEF NoClaim, Proc
<1> QED BY <1>1 DEF Prepared

\* Claims go, and those left are prepared on.
LEMMA PreparedKept ==
  ASSUME Prepared, controller' = controller, late \subseteq late',
         \A q \in Queue : \/ claims'[q] = NoClaim
                          \/ /\ claims'[q] = claims[q]
                             /\ taking'[claims[q].by] = taking[claims[q].by],
         \A r \in Run : taking'[<<r, "live">>].queue = "steering"
  PROVE  Prepared'
<1>1. ASSUME NEW q \in Queue, claims'[q] # NoClaim
      PROVE  /\ claims'[q].by \in Proc
             /\ taking'[claims'[q].by].step = "prepare" /\ taking'[claims'[q].by].queue = q
             /\ claims'[q].by[1] = controller \/ ToSet(claims'[q].msgs) \subseteq late'
  <2>1. claims'[q] = claims[q] /\ taking'[claims[q].by] = taking[claims[q].by]
    BY <1>1
  <2>2. /\ claims[q].by \in Proc
        /\ taking[claims[q].by].step = "prepare" /\ taking[claims[q].by].queue = q
        /\ claims[q].by[1] = controller \/ ToSet(claims[q].msgs) \subseteq late
    BY <1>1, <2>1 DEF Prepared
  <2> QED BY <2>1, <2>2
<1> QED BY <1>1 DEF Prepared

\* A dequeuer is done, and with it its claim.
LEMMA DoneKeeps ==
  ASSUME TypeOK, Prepared, NEW p \in Proc, taking' = [taking EXCEPT ![p] = Idle],
         controller' = controller, late \subseteq late',
         \A q \in Queue : \/ claims'[q] = NoClaim
                          \/ claims'[q] = claims[q] /\ claims[q].by # p
  PROVE  Prepared'
<1>1. \A x \in Proc : taking'[x] = IF x = p THEN Idle ELSE taking[x]
  BY DEF TypeOK
<1>2. \A q \in Queue : \/ claims'[q] = NoClaim
                       \/ /\ claims'[q] = claims[q]
                          /\ taking'[claims[q].by] = taking[claims[q].by]
  <2> TAKE q \in Queue
  <2>1. SUFFICES ASSUME claims'[q] = claims[q], claims[q].by # p, claims[q] # NoClaim
        PROVE  taking'[claims[q].by] = taking[claims[q].by]
    OBVIOUS
  <2>2. claims[q].by \in Proc
    BY <2>1 DEF Prepared
  <2> QED BY <1>1, <2>1, <2>2
<1>3. \A r \in Run : taking'[<<r, "live">>].queue = "steering"
  <2> TAKE r \in Run
  <2>1. <<r, "live">> \in Proc /\ taking[<<r, "live">>].queue = "steering"
    BY DEF Proc, Prepared
  <2> QED BY <1>1, <2>1 DEF Idle
<1> QED BY <1>2, <1>3, PreparedKept

-----------------------------------------------------------------------------
(* The steps that dequeue and record nothing *)

\* Those of the loop and of the channel
LEMMA LoopOrder ==
  ASSUME IInv, OInv, NEW r \in Run,
         \/ Turn(r) \/ TurnDeadline(r) \/ RespondFails(r) \/ Boundary(r, TRUE) \/ Boundary(r, FALSE)
         \/ LiveAck(r) \/ LiveClaim(r) \/ Abort
  PROVE  OInv'
<1>0. TypeOK /\ Phases /\ Accounts /\ Home /\ Lanes /\ Prepared /\ Turned
  BY DEF IInv, OInv
<1>1. UNCHANGED <<queues, claims, deliveries, liveSteered, controller, recorded, order, late>>
  BY DEF Turn, TurnDeadline, RespondFails, Boundary, LiveAck, LiveClaim, Abort, heldVars, histVars
<1>2. \A q \in Queue : Peek(q)' = Peek(q)
  BY <1>1 DEF Peek
<1>3. Prepared'
  <2>1. CASE LiveClaim(r)
    <3> DEFINE p == <<r, "live">>
    <3>1. /\ taking' = [taking EXCEPT ![p] = [step |-> "hooks", queue |-> "steering"]]
          /\ taking[p] = Idle /\ p \in Proc
      BY <2>1 DEF LiveClaim, LiveQuiet, Proc
    <3>2. \A x \in Proc : /\ x # p => taking'[x] = taking[x]
                          /\ x = p => taking'[x].queue = "steering"
      BY <1>0, <3>1 DEF TypeOK
    <3>3. \A q \in Queue : claims[q] # NoClaim =>
            claims[q].by \in Proc /\ taking[claims[q].by].step = "prepare"
      BY <1>0 DEF Prepared
    <3>4. \A q \in Queue : claims[q] # NoClaim => claims[q].by # p
      BY <3>1, <3>3 DEF Idle
    <3>5. \A q \in Queue : claims[q] = NoClaim \/ taking'[claims[q].by] = taking[claims[q].by]
      BY <3>2, <3>3, <3>4
    <3>6. \A u \in Run : taking'[<<u, "live">>].queue = "steering"
      <4> TAKE u \in Run
      <4>1. <<u, "live">> \in Proc /\ taking[<<u, "live">>].queue = "steering"
        BY <1>0 DEF Proc, Prepared
      <4> QED BY <3>2, <4>1
    <3> QED BY <1>0, <1>1, <3>5, <3>6, PreparedKept
  <2>2. CASE ~LiveClaim(r)
    <3>1. taking' = taking
      BY <2>2 DEF Turn, TurnDeadline, RespondFails, Boundary, LiveAck, Abort
    <3> QED BY <1>0, <1>1, <3>1 DEF Prepared
  <2> QED BY <2>1, <2>2
<1>4. stream[r] \in Seq(Msg) /\ loop[r].held \in Seq(Msg)
  BY <1>0, PipeFacts
<1>5. ASSUME NEW s \in Seq(Msg), NEW h \in Seq(Msg), s = stream[r],
             stream' = [stream EXCEPT ![r] = @ \o h]
      PROVE  ToSet(stream[r]) \subseteq ToSet(stream'[r])
  <2>1. stream'[r] = Joined(s, h)
    BY <1>0, <1>5 DEF TypeOK, Joined
  <2> QED BY <1>5, <2>1, Members
<1>6. /\ \A u \in Run \ {r} : Pipe(u)' = Pipe(u) /\ loop'[u] = loop[u] /\ stream'[u] = stream[u]
      /\ \E a, b \in Seq(Msg) : Pipe(r) = Joined(a, b) /\ Pipe(r)' = a
      /\ ToSet(stream[r]) \subseteq ToSet(stream'[r])
      /\ \/ loop'[r].at = "ended"
         \/ /\ loop[r].at # "ended"
            /\ Pipe(r)' = Pipe(r)
            /\ loop'[r].at = "respond" =>
                 loop[r].at = "respond" \/ ToSet(Pipe(r)) \subseteq ToSet(stream'[r])
  <2>1. CASE Turn(r)
    <3>1. /\ stream' = [stream EXCEPT ![r] = @ \o loop[r].held] /\ loop[r].at = "turn"
          /\ \E at \in {"respond", "ended"} : loop' = [loop EXCEPT ![r] = [NewLoop EXCEPT !.at = at]]
      BY <2>1 DEF Turn
    <3>2. \A u \in Run \ {r} : loop'[u] = loop[u] /\ stream'[u] = stream[u]
      BY <1>0, <3>1 DEF TypeOK
    <3>3. Pipe(r) = stream'[r]
      <4>1. Pipe(r) = Joined(stream[r], loop[r].held)
        BY <1>0, <3>1, PipeBetween
      <4> QED BY <1>0, <3>1, <4>1 DEF TypeOK, Joined
    <3>4. Pipe(r)' = Pipe(r) /\ \A u \in Run \ {r} : Pipe(u)' = Pipe(u)
      BY <1>0, <2>1, TurnPipe
    <3>5. ToSet(stream[r]) \subseteq ToSet(stream'[r])
      BY <1>4, <1>5, <3>1
    <3> QED BY <1>0, <3>1, <3>2, <3>3, <3>4, <3>5, SamePipe
  <2>2. CASE TurnDeadline(r)
    <3>1. /\ loop[r].at # "respond"
          /\ loop' = [loop EXCEPT ![r] = [NewLoop EXCEPT !.at = "ended"]]
          /\ stream' = [stream EXCEPT ![r] = @ \o SubSeq(loop[r].held, 1, loop[r].opening)]
          /\ UNCHANGED live
      BY <2>2 DEF TurnDeadline
    <3>2. /\ \A u \in Run \ {r} : loop'[u] = loop[u] /\ stream'[u] = stream[u]
          /\ loop'[r].at = "ended"
      BY <1>0, <3>1 DEF TypeOK, NewLoop
    <3>3. ToSet(stream[r]) \subseteq ToSet(stream'[r])
      <4>1. /\ loop[r].opening \in Nat /\ loop[r].opening <= Len(loop[r].held)
            /\ Len(loop[r].held) \in Nat
        BY <1>0, <1>4, LenProperties DEF TypeOK, Loop, Phases, RunPhase, LoopPhase
      <4>2. loop[r].opening \in 0..Len(loop[r].held)
        BY <4>1
      <4>3. SubSeq(loop[r].held, 1, loop[r].opening) \in Seq(Msg)
        BY <1>4, <4>2, Parts
      <4> QED BY <1>4, <1>5, <3>1, <4>3
    <3> QED BY <1>0, <3>1, <3>2, <3>3, CutPipe
  <2>3. CASE RespondFails(r)
    <3>1. UNCHANGED stream /\ loop' = [loop EXCEPT ![r] = [NewLoop EXCEPT !.at = "ended"]]
      BY <2>3 DEF RespondFails
    <3>2. (\A u \in Run \ {r} : loop'[u] = loop[u]) /\ loop'[r].at = "ended"
      BY <1>0, <3>1 DEF TypeOK, NewLoop
    <3> QED BY <1>0, <2>3, <3>1, <3>2, FailPipe
  <2>4. CASE Boundary(r, TRUE) \/ Boundary(r, FALSE)
    <3> PICK more \in BOOLEAN : Boundary(r, more)
      BY <2>4
    <3> DEFINE at == IF live[r].accepted # <<>> THEN "turn" ELSE "boundary"
               h == live[r].accepted \o live[r].deferred
    <3>1. /\ loop' = [loop EXCEPT ![r] = [NewLoop EXCEPT !.at = at, !.held = h, !.more = more]]
          /\ UNCHANGED stream /\ loop[r].at = "respond" /\ at # "respond"
      BY DEF Boundary
    <3> HIDE DEF at, h
    <3>2. (\A u \in Run \ {r} : loop'[u] = loop[u]) /\ loop'[r].at # "respond"
      BY <1>0, <3>1 DEF TypeOK, NewLoop
    <3>3. Pipe(r)' = Pipe(r) /\ \A u \in Run \ {r} : Pipe(u)' = Pipe(u)
      BY <1>0, <2>4, BoundaryPipe
    <3> QED BY <1>0, <3>1, <3>2, <3>3, SamePipe
  <2>5. CASE LiveAck(r)
    <3>1. UNCHANGED <<stream, loop>>
      BY <2>5 DEF LiveAck
    <3>2. Pipe(r)' = Pipe(r) /\ \A u \in Run \ {r} : Pipe(u)' = Pipe(u)
      BY <1>0, <2>5, AckPipe
    <3> QED BY <1>0, <3>1, <3>2, SamePipe
  <2>6. CASE LiveClaim(r) \/ Abort
    <3>1. UNCHANGED <<stream, loop, live>>
      BY <2>6 DEF LiveClaim, Abort
    <3>2. \A u \in Run : Pipe(u)' = Pipe(u)
      BY <3>1, PipeOther
    <3> QED BY <1>0, <3>1, <3>2, SamePipe
  <2> QED BY <2>1, <2>2, <2>3, <2>4, <2>5, <2>6
<1>7. Home' /\ Lanes' /\ Turned'
  BY <1>0, <1>1, <1>2, <1>6, RunOrder
<1> QED BY <1>3, <1>7 DEF OInv

\* A dequeue that returns nothing, or throws
LEMMA EmptyReturnOrder ==
  ASSUME IInv, OInv, NEW p \in Proc, Return(p, <<>>) \/ Throw(p),
         p[2] = "loop" => loop[p[1]].at \in PollSites,
         p[2] = "live" => live[p[1]].sent = <<>>,
         UNCHANGED <<deliveries, liveSteered, controller, recorded, order, late>>,
         \A q \in Queue : Peek(q)' = Peek(q)
  PROVE  Home' /\ Lanes' /\ Turned'
<1>0. TypeOK /\ Phases /\ Accounts /\ Home /\ Lanes /\ Turned
  BY DEF IInv, OInv
<1> DEFINE r == p[1]
<1>1. r \in Run /\ p[2] \in {"loop", "live"}
  BY ProcFacts
<1>2. stream[r] \in Seq(Msg) /\ loop[r].held \in Seq(Msg) /\ Pipe(r) \in Seq(Msg)
  BY <1>0, <1>1, PipeFacts
<1>3. /\ \A u \in Run \ {r} : Pipe(u)' = Pipe(u) /\ loop'[u] = loop[u] /\ stream'[u] = stream[u]
      /\ \E a, b \in Seq(Msg) : Pipe(r) = Joined(a, b) /\ Pipe(r)' = a
      /\ ToSet(stream[r]) \subseteq ToSet(stream'[r])
      /\ \/ loop'[r].at = "ended"
         \/ /\ loop[r].at # "ended"
            /\ Pipe(r)' = Pipe(r)
            /\ loop'[r].at = "respond" =>
                 loop[r].at = "respond" \/ ToSet(Pipe(r)) \subseteq ToSet(stream'[r])
  <2>1. CASE Return(p, <<>>)
    <3>1. Pipe(r)' = Joined(Pipe(r), <<>>) /\ \A u \in Run \ {r} : Pipe(u)' = Pipe(u)
      <4>1. <<>> \in Seq(Msg)
        BY EmptySeq
      <4> QED BY <1>0, <2>1, <4>1, ReturnPipe
    <3>2. Joined(Pipe(r), <<>>) = Pipe(r)
      BY <1>2, JoinedFacts
    <3>3. stream' = stream /\ \A u \in Run \ {r} : loop'[u] = loop[u]
      BY <1>0, <1>1, <2>1 DEF Return, TypeOK
    <3>4. \/ loop'[r] = loop[r]
          \/ loop[r].at # "ended" /\ loop'[r].at # "respond"
      <4>1. CASE p[2] = "live"
        BY <2>1, <4>1 DEF Return
      <4>2. CASE p[2] = "loop"
        <5>1. loop'[r] = AfterPoll(loop[r], <<>>) /\ loop[r].at \in PollSites
          BY <1>0, <1>1, <2>1, <4>2 DEF Return, TypeOK
        <5>2. loop[r] \in Loop /\ LoopPhase(loop[r]) /\ <<>> \in Seq(Msg)
          BY <1>0, <1>1, EmptySeq DEF TypeOK, Phases, RunPhase
        <5>3. loop'[r].at # "respond"
          BY <5>1, <5>2, AfterPollFacts
        <5> QED BY <5>1, <5>3 DEF PollSites
      <4> QED BY <1>1, <4>1, <4>2
    <3>5. Pipe(r)' = Pipe(r)
      BY <3>1, <3>2
    <3>6. \E a, b \in Seq(Msg) : Pipe(r) = Joined(a, b) /\ Pipe(r)' = a
      BY <1>0, <1>1, <3>5, SamePipe
    <3> HIDE DEF r
    <3> QED BY <3>1, <3>3, <3>4, <3>5, <3>6
  <2>2. CASE Throw(p) /\ p[2] = "loop"
    <3>1. /\ loop[r].at # "respond"
          /\ loop' = [loop EXCEPT ![r] = [NewLoop EXCEPT !.at = "ended"]]
          /\ stream' = [stream EXCEPT ![r] = @ \o SubSeq(loop[r].held, 1, loop[r].opening)]
          /\ UNCHANGED live
      BY <2>2 DEF Throw, PollSites
    <3>2. /\ \A u \in Run \ {r} : loop'[u] = loop[u] /\ stream'[u] = stream[u]
          /\ loop'[r].at = "ended"
      BY <1>0, <1>1, <3>1 DEF TypeOK, NewLoop
    <3> DEFINE s == stream[r]
               h == SubSeq(loop[r].held, 1, loop[r].opening)
    <3>3. /\ loop[r].opening \in Nat /\ loop[r].opening <= Len(loop[r].held)
          /\ Len(loop[r].held) \in Nat
      BY <1>0, <1>1, <1>2, LenProperties DEF TypeOK, Loop, Phases, RunPhase, LoopPhase
    <3>4. loop[r].opening \in 0..Len(loop[r].held)
      BY <3>3
    <3>5. h \in Seq(Msg)
      BY <1>2, <3>4, Parts
    <3>6. stream'[r] = Joined(s, h)
      BY <1>0, <1>1, <3>1 DEF TypeOK, Joined
    <3>7. /\ \A u \in Run \ {r} : Pipe(u)' = Pipe(u)
          /\ \E a, b \in Seq(Msg) : Pipe(r) = Joined(a, b) /\ Pipe(r)' = a
      BY <1>0, <1>1, <3>1, CutPipe
    <3> HIDE DEF h, r
    <3>8. ToSet(stream[r]) \subseteq ToSet(stream'[r])
      BY <1>2, <3>5, <3>6, Members
    <3> QED BY <3>2, <3>7, <3>8
  <2>3. CASE Throw(p) /\ p[2] # "loop"
    <3>1. UNCHANGED <<stream, loop>> /\ live' = [live EXCEPT ![r].stopped = TRUE]
      BY <2>3 DEF Throw
    <3>2. \A u \in Run : /\ live'[u].sent = live[u].sent /\ live'[u].accepted = live[u].accepted
                         /\ live'[u].deferred = live[u].deferred
      BY <1>0, <1>1, <3>1 DEF TypeOK, Live
    <3>3. \A u \in Run : Pipe(u)' = Pipe(u)
      BY <3>1, <3>2 DEF Pipe
    <3> QED BY <1>0, <1>1, <3>1, <3>3, SamePipe
  <2> QED BY <2>1, <2>2, <2>3
<1> HIDE DEF r
<1> QED BY <1>0, <1>1, <1>3, RunOrder

\* A poll that finds nothing, or starts to dequeue
LEMMA PollOrder ==
  ASSUME IInv, OInv, NEW r \in Run, Poll(r)
  PROVE  OInv'
<1> DEFINE p == <<r, "loop">>
<1>0. TypeOK /\ Accounts /\ Home /\ Lanes /\ Prepared /\ Turned
  BY DEF IInv, OInv
<1>1. /\ UNCHANGED <<queues, claims, deliveries, liveSteered, controller, recorded, order, late>>
      /\ loop[r].at \in PollSites /\ taking[p] = Idle
  BY DEF Poll, heldVars, histVars
<1>2. \A q \in Queue : Peek(q)' = Peek(q)
  BY <1>1 DEF Peek
<1>3. p \in Proc /\ p[1] = r /\ p[2] = "loop"
  BY DEF Proc
<1>4. \A q \in Queue : claims[q].by # p
  <2> SUFFICES ASSUME NEW q \in Queue, claims[q].by = p PROVE FALSE
    OBVIOUS
  <2>1. taking[p].step = "prepare"
    BY <1>0, <1>3, ClaimOf
  <2> QED BY <1>1, <2>1 DEF Idle
<1>5. CASE Return(p, <<>>)
  <2>1. taking' = [taking EXCEPT ![p] = Idle]
    BY <1>5 DEF Return
  <2> HIDE DEF p
  <2>2. Prepared'
    BY <1>0, <1>1, <1>3, <1>4, <2>1, DoneKeeps
  <2>3. Home' /\ Lanes' /\ Turned'
    BY <1>1, <1>2, <1>3, <1>5, EmptyReturnOrder
  <2> QED BY <2>2, <2>3 DEF OInv
<1>6. ASSUME UNCHANGED <<loop, live, stream>>, NEW t, taking' = [taking EXCEPT ![p] = t]
      PROVE  OInv'
  <2>1. \A x \in Proc : x # p => taking'[x] = taking[x]
    BY <1>0, <1>6 DEF TypeOK
  <2>2. \A q \in Queue : claims'[q] = NoClaim \/
          (claims'[q] = claims[q] /\ taking'[claims[q].by] = taking[claims[q].by])
    BY <1>0, <1>1, <1>4, <2>1 DEF Prepared
  <2>3. \A u \in Run : taking'[<<u, "live">>].queue = "steering"
    <3> TAKE u \in Run
    <3>1. <<u, "live">> \in Proc /\ <<u, "live">> # p
      BY DEF Proc
    <3> QED BY <1>0, <2>1, <3>1 DEF Prepared
  <2>4. Prepared'
    BY <1>0, <1>1, <2>2, <2>3, PreparedKept
  <2>5. \A u \in Run : Pipe(u)' = Pipe(u)
    BY <1>6, PipeOther
  <2>6. Home' /\ Lanes' /\ Turned'
    <3>1. \E a, b \in Seq(Msg) : Pipe(r) = Joined(a, b) /\ Pipe(r)' = a
      BY <1>0, <2>5, SamePipe
    <3>2. loop[r].at # "ended"
      BY <1>1 DEF PollSites
    <3> QED BY <1>0, <1>1, <1>2, <1>6, <2>5, <3>1, <3>2, RunOrder
  <2> QED BY <2>4, <2>6 DEF OInv
<1>7. \/ Return(p, <<>>)
      \/ UNCHANGED <<loop, live, stream>> /\ \E t : taking' = [taking EXCEPT ![p] = t]
  BY DEF Poll
<1> HIDE DEF p
<1> QED BY <1>5, <1>6, <1>7

-----------------------------------------------------------------------------
(* A batch is handed over *)

\* w is v with b inserted in front of an end that is in S.
Inserted(v, w, b, S) ==
  \E s, t \in Seq(Msg) : v = Joined(s, t) /\ w = Joined(Joined(s, b), t) /\ ToSet(t) \subseteq S

\* It goes back behind what was dequeued before it; if it is live-steered, in front of what the
\* loop dequeued.
LEMMA HandedBack ==
  ASSUME IInv, OInv, NEW p \in Proc, NEW q \in Queue, taking[p].step # "none", taking[p].queue = q,
         p[1] \notin aborted, NEW b \in Seq(Msg), b # <<>>, HandOver(p, q, b)
  PROVE  /\ Inserted(Back(q), Back(q)', b, ToSet(stream[p[1]]))
         /\ \A u \in Queue \ {q} : Back(u)' = Back(u)
         /\ p[2] = "live" => deliveries' = deliveries
<1>0. /\ TypeOK /\ Phases /\ Lanes /\ Prepared
      /\ deliveries \in Seq(Delivery) /\ liveSteered \in Seq(Steering)
  BY DEF IInv, OInv, TypeOK
<1>1. p[1] \in Run /\ p[2] \in {"loop", "live"} /\ p = <<p[1], p[2]>> /\ controller = p[1]
  BY <1>0, Dequeuer, ProcFacts
<1>2. \A u : Back(u) = Joined(IF u = "steering" THEN SteeredIn(liveSteered) ELSE <<>>,
                              Mail(deliveries, u))
  BY DEF Back, BackOf
<1>3. \A u : Back(u)' = Joined(IF u = "steering" THEN SteeredIn(liveSteered') ELSE <<>>,
                               Mail(deliveries', u))
  BY DEF Back, BackOf
<1>4. /\ Back(q) \in Seq(Msg) /\ SteeredIn(liveSteered) \in Seq(Msg) /\ <<>> \in Seq(Msg)
      /\ ToSet(<<>>) = {}
      /\ \A u : Mail(deliveries, u) \in Seq(Msg)
  BY <1>0, BackFacts, SteerTimesFacts, EmptySeq, MembersFacts, MailFacts
<1>5. CASE p[2] = "loop"
  <2> DEFINE d == [queue |-> q, run |-> p[1], msgs |-> b]
             a == IF q = "steering" THEN SteeredIn(liveSteered) ELSE <<>>
             m == Mail(deliveries, q)
  <2>1. d \in Delivery /\ deliveries' = Append(deliveries, d) /\ liveSteered' = liveSteered
    BY <1>1, <1>5 DEF HandOver, Delivery
  <2>2. d.queue = q /\ d.msgs = b
    OBVIOUS
  <2> HIDE DEF d
  <2>3. \A u : Mail(deliveries', u) = IF u = q THEN Joined(Mail(deliveries, u), b) ELSE Mail(deliveries, u)
    BY <1>0, <2>1, <2>2, MailAppend
  <2>4. \A u \in Queue \ {q} : Back(u)' = Back(u)
    BY <1>2, <1>3, <2>1, <2>3
  <2>5. Back(q) = Joined(a, m) /\ Back(q)' = Joined(a, Joined(m, b))
    BY <1>2, <1>3, <2>1, <2>3
  <2>6. a \in Seq(Msg) /\ m \in Seq(Msg)
    BY <1>4
  <2> HIDE DEF a, m
  <2>7. Joined(Joined(a, m), b) = Joined(a, Joined(m, b))
    BY <2>6, JoinedAssoc
  <2>8. Back(q)' = Joined(Back(q), b)
    BY <2>5, <2>7
  <2>9. Joined(Back(q), b) \in Seq(Msg)
    BY <1>4, JoinedFacts
  <2>10. Joined(Joined(Back(q), b), <<>>) = Joined(Back(q), b) /\ Joined(Back(q), <<>>) = Back(q)
    BY <1>4, <2>9, JoinedFacts
  <2>11. Inserted(Back(q), Back(q)', b, ToSet(stream[p[1]]))
    <3>1. ToSet(<<>>) \subseteq ToSet(stream[p[1]])
      BY <1>4
    <3>2. Back(q) = Joined(Back(q), <<>>) /\ Back(q)' = Joined(Joined(Back(q), b), <<>>)
      BY <2>8, <2>10
    <3> QED BY <1>4, <3>1, <3>2 DEF Inserted
  <2> QED BY <1>5, <2>4, <2>11
<1>6. CASE p[2] = "live"
  <2> DEFINE a == SteeredIn(liveSteered)
             m == Mail(deliveries, q)
  <2>1. /\ deliveries' = deliveries
        /\ liveSteered' = Joined(liveSteered, Steer(p[1], b))
    BY <1>6 DEF HandOver, Joined
  <2>2. q = "steering"
    <3>1. p = <<p[1], "live">>
      BY <1>1, <1>6
    <3>2. taking[<<p[1], "live">>].queue = "steering"
      BY <1>0, <1>1 DEF Prepared
    <3> QED BY <3>1, <3>2
  <2>3. SteeredIn(liveSteered') = Joined(a, b)
    BY <1>0, <1>1, <2>1, SteeredJoined
  <2>4. \A u \in Queue \ {q} : Back(u)' = Back(u)
    BY <1>2, <1>3, <2>1, <2>2
  <2>5. Back(q) = Joined(a, m) /\ Back(q)' = Joined(Joined(a, b), m)
    BY <1>2, <1>3, <2>1, <2>2, <2>3
  <2>6. ToSet(m) \subseteq ToSet(stream[p[1]])
    <3>1. loop[controller].at = "respond"
      BY <1>0, <1>1, <1>6, Dequeuer
    <3> QED BY <1>0, <1>1, <3>1 DEF Lanes
  <2>7. a \in Seq(Msg) /\ m \in Seq(Msg)
    BY <1>4
  <2> HIDE DEF a, m
  <2>8. Inserted(Back(q), Back(q)', b, ToSet(stream[p[1]]))
    BY <2>5, <2>6, <2>7 DEF Inserted
  <2> QED BY <2>1, <2>4, <2>8
<1> QED BY <1>1, <1>5, <1>6

\* A batch is handed over and returned.
LEMMA HandedOrder ==
  ASSUME IInv, OInv, NEW p \in Proc, taking[p].step # "none", p[1] \notin aborted,
         NEW q \in Queue, taking[p].queue = q,
         NEW b \in Seq(Msg), b # <<>>, HandOver(p, q, b), Return(p, b),
         UNCHANGED <<controller, recorded, order, late>>,
         Peek(q) = Joined(b, Peek(q)'), Peek(q)' \in Seq(Msg),
         \A u \in Queue \ {q} : Peek(u)' = Peek(u)
  PROVE  Home' /\ Lanes' /\ Turned'
<1>0. TypeOK /\ Phases /\ Accounts /\ Home /\ Lanes /\ Turned
  BY DEF IInv, OInv
<1>1. /\ p[2] = "loop" => loop[p[1]].at \in PollSites
      /\ p[2] = "live" => live[p[1]].sent = <<>> /\ loop[p[1]].at = "respond"
      /\ controller = p[1] /\ p[1] \in Run /\ p[2] \in {"loop", "live"} /\ controller' = controller
  BY <1>0, Dequeuer, ProcFacts
<1>2. Pipe(controller)' = Joined(Pipe(controller), b)
  <2>1. Pipe(p[1])' = Joined(Pipe(p[1]), b)
    BY <1>0, <1>1, ReturnPipe
  <2>2. Pipe(controller)' = Pipe(p[1])'
    BY <1>1
  <2> QED BY <1>1, <2>1, <2>2
<1>3. /\ Inserted(Back(q), Back(q)', b, ToSet(stream[p[1]]))
      /\ \A u \in Queue \ {q} : Back(u)' = Back(u)
      /\ p[2] = "live" => deliveries' = deliveries
  BY HandedBack
<1>4. PICK s \in Seq(Msg), t \in Seq(Msg) : /\ Back(q) = Joined(s, t)
                                            /\ Back(q)' = Joined(Joined(s, b), t)
                                            /\ ToSet(t) \subseteq ToSet(stream[p[1]])
  BY <1>3 DEF Inserted
<1>5. stream' = stream
  BY DEF Return
<1>6. /\ loop[controller].at # "ended"
      /\ p[2] = "live" => loop' = loop
      /\ p[2] = "loop" => loop'[controller].at # "respond"
  <2>1. CASE p[2] = "live"
    BY <1>1, <2>1 DEF Return
  <2>2. CASE p[2] = "loop"
    <3>1. loop'[p[1]] = AfterPoll(loop[p[1]], b) /\ loop[p[1]].at \in PollSites
      BY <1>0, <1>1, <2>2 DEF Return, TypeOK
    <3>2. loop[p[1]] \in Loop /\ LoopPhase(loop[p[1]])
      BY <1>0, <1>1 DEF TypeOK, Phases, RunPhase
    <3>3. loop'[p[1]].at # "respond"
      BY <3>1, <3>2, AfterPollFacts
    <3> QED BY <1>1, <2>2, <3>1, <3>3 DEF PollSites
  <2> QED BY <1>1, <2>1, <2>2
<1>7. /\ ToSet(Peek(q)) = ToSet(b) \cup ToSet(Peek(q)')
      /\ ToSet(Back(q)') = ToSet(Back(q)) \cup ToSet(b)
  <2>1. Joined(s, b) \in Seq(Msg)
    BY JoinedFacts
  <2>2. /\ ToSet(Joined(b, Peek(q)')) = ToSet(b) \cup ToSet(Peek(q)')
        /\ ToSet(Joined(s, t)) = ToSet(s) \cup ToSet(t)
        /\ ToSet(Joined(s, b)) = ToSet(s) \cup ToSet(b)
        /\ ToSet(Joined(Joined(s, b), t)) = ToSet(Joined(s, b)) \cup ToSet(t)
    BY <2>1, Members
  <2> QED BY <1>4, <2>2
<1>8. \A u \in Queue : Known(u)' = ToSet(Peek(u)') \cup ToSet(Back(u)')
  BY DEF Known
<1>9. \A u \in Queue : Known(u)' = Known(u)
  BY <1>3, <1>7, <1>8 DEF Known
<1>10. Home'
  BY <1>0, <1>9, HomeShrinks
<1>11. Lanes'
  <2>1. \A u \in Queue : ToSet(Back(u)) \subseteq ToSet(Pipe(controller))
    BY <1>0, <1>1, <1>6 DEF Lanes
  <2>2. ToSet(Pipe(controller)') = ToSet(Pipe(controller)) \cup ToSet(b)
    <3>1. Pipe(controller) \in Seq(Msg)
      BY <1>0, <1>1, PipeFacts
    <3>2. ToSet(Joined(Pipe(controller), b)) = ToSet(Pipe(controller)) \cup ToSet(b)
      BY <3>1, Members
    <3> QED BY <1>2, <3>2
  <2>3. \A u \in Queue : ToSet(Back(u)') \subseteq ToSet(Pipe(controller)')
    <3> TAKE u \in Queue
    <3>1. CASE u = q
      BY <1>7, <2>1, <2>2, <3>1
    <3>2. CASE u # q
      BY <1>3, <2>1, <2>2, <3>2
    <3> QED BY <3>1, <3>2
  <2>4. ASSUME loop'[controller].at = "respond", NEW u \in Queue
        PROVE  ToSet(Mail(deliveries', u)) \subseteq ToSet(stream'[controller])
    <3>1. p[2] = "live"
      BY <1>1, <1>6, <2>4
    <3> QED BY <1>0, <1>1, <1>3, <1>5, <3>1 DEF Lanes
  <2> QED BY <1>1, <2>3, <2>4 DEF Lanes
<1>12. ASSUME NEW u \in Queue PROVE InTurn(u)'
  <2>1. InTurn(u)
    BY <1>0 DEF Turned
  <2>2. CASE u = q
    <3>1. ToSet(Back(q)) \subseteq ToSet(Pipe(controller))
      BY <1>0, <1>1, <1>6 DEF Lanes
    <3>2. ToSet(t) \subseteq ToSet(stream[controller])
      BY <1>1, <1>4
    <3>3. InTurn(q)'
      BY <1>0, <1>1, <1>2, <1>4, <1>5, <2>1, <2>2, <3>1, <3>2, InTurnHanded
    <3> QED BY <2>2, <3>3
  <2>3. CASE u # q
    <3>1. Peek(u)' = Peek(u) /\ Back(u)' = Back(u) /\ Peek(u) \in Seq(Msg) /\ Back(u) \in Seq(Msg)
      BY <1>0, <1>3, <2>3, KnownFacts
    <3>2. Thins(Peek(u), Peek(u)') /\ Thins(Back(u), Back(u)')
      BY <3>1, ThinsSome
    <3>3. ASSUME NEW x, NEW y \in ToSet(order[u]), After(Pipe(controller), x, y)
          PROVE  After(Pipe(controller)', x, y)
      <4>1. ToSet(b) \subseteq ToSet(order[q])
        BY <1>0, <1>7 DEF Home, Known
      <4>2. ToSet(order[q]) \cap ToSet(order[u]) = {}
        BY <1>0, <2>3 DEF Home
      <4>3. y \notin ToSet(b)
        BY <4>1, <4>2
      <4>4. After(b, x, y)
        BY <4>3, AfterMembers
      <4>5. Pipe(controller) \in Seq(Msg)
        BY <1>0, <1>1, PipeFacts
      <4>6. After(Joined(Pipe(controller), b), x, y)
        <5>1. CASE x \in ToSet(Pipe(controller))
          BY <3>3, <4>5, <5>1, AfterJoined
        <5>2. CASE x \notin ToSet(Pipe(controller))
          BY <3>3, <4>4, <4>5, <5>2, AfterJoined
        <5> QED BY <5>1, <5>2
      <4> QED BY <1>2, <4>6
    <3> QED BY <1>0, <1>1, <1>5, <2>1, <3>2, <3>3, InTurnShrinks
  <2> QED BY <2>2, <2>3
<1> QED BY <1>10, <1>11, <1>12 DEF Turned

\* A step that moves no run and no message
LEMMA StillOrder ==
  ASSUME TypeOK, Accounts, Home, Lanes, Turned,
         UNCHANGED <<deliveries, liveSteered, controller, recorded, order, stream, loop, live>>,
         late \subseteq late',
         \A q \in Queue : Peek(q)' = Peek(q)
  PROVE  Home' /\ Lanes' /\ Turned'
<1>1. ASSUME controller \in Run
      PROVE  /\ \E a, b \in Seq(Msg) : Pipe(controller) = Joined(a, b) /\ Pipe(controller)' = a
             /\ ToSet(stream[controller]) \subseteq ToSet(stream'[controller])
             /\ \/ loop'[controller].at = "ended"
                \/ /\ loop[controller].at # "ended"
                   /\ Pipe(controller)' = Pipe(controller)
                   /\ loop'[controller].at = "respond" =>
                        \/ loop[controller].at = "respond"
                        \/ ToSet(Pipe(controller)) \subseteq ToSet(stream'[controller])
  <2>1. Pipe(controller)' = Pipe(controller)
    BY DEF Pipe
  <2>2. \E a, b \in Seq(Msg) : Pipe(controller) = Joined(a, b) /\ Pipe(controller)' = a
    BY <1>1, <2>1, SamePipe
  <2> QED BY <2>1, <2>2
<1> QED BY <1>1, QuietOrder

\* A batch is claimed by the run in charge.
LEMMA ClaimKeeps ==
  ASSUME TypeOK, Prepared, NEW p \in Proc, taking[p].step = "hooks", controller = p[1],
         NEW q \in Queue, taking[p].queue = q, NEW b,
         taking' = [taking EXCEPT ![p].step = "prepare"],
         claims' = [claims EXCEPT ![q] = [by |-> p, msgs |-> b]],
         controller' = controller, late \subseteq late'
  PROVE  Prepared'
<1>1. /\ \A x \in Proc : x # p => taking'[x] = taking[x]
      /\ taking'[p].step = "prepare" /\ taking'[p].queue = q
      /\ claims'[q].by = p
      /\ \A u \in Queue \ {q} : claims'[u] = claims[u]
  BY DEF TypeOK, Taking
<1>2. ASSUME NEW u \in Queue, claims'[u] # NoClaim
      PROVE  /\ claims'[u].by \in Proc
             /\ taking'[claims'[u].by].step = "prepare" /\ taking'[claims'[u].by].queue = u
             /\ claims'[u].by[1] = controller \/ ToSet(claims'[u].msgs) \subseteq late'
  <2>1. CASE u = q
    BY <1>1, <2>1
  <2>2. CASE u # q
    <3>1. /\ claims'[u] = claims[u] /\ claims[u].by \in Proc
          /\ taking[claims[u].by].step = "prepare" /\ taking[claims[u].by].queue = u
          /\ claims[u].by[1] = controller \/ ToSet(claims[u].msgs) \subseteq late
      BY <1>1, <1>2, <2>2 DEF Prepared
    <3>2. claims[u].by # p
      BY <3>1
    <3> QED BY <1>1, <3>1, <3>2
  <2> QED BY <2>1, <2>2
<1>3. ASSUME NEW r \in Run PROVE taking'[<<r, "live">>].queue = "steering"
  <2>1. <<r, "live">> \in Proc /\ taking[<<r, "live">>].queue = "steering"
    BY DEF Prepared, Proc
  <2> QED BY <1>1, <2>1
<1> QED BY <1>2, <1>3 DEF Prepared

\* AfterHooks gives the batch to a claim or hands it over.
LEMMA HooksOrder ==
  ASSUME IInv, OInv, NEW p \in Proc, AfterHooks(p)
  PROVE  OInv'
<1> DEFINE q == taking[p].queue
<1>0. TypeOK /\ Phases /\ Accounts /\ Home /\ Lanes /\ Prepared /\ Turned
  BY DEF IInv, OInv
<1>1. /\ taking[p].step = "hooks"
      /\ UNCHANGED <<controller, recorded, order, late>>
  BY DEF AfterHooks
<1>2. /\ p[2] = "loop" => loop[p[1]].at \in PollSites
      /\ p[2] = "live" => live[p[1]].sent = <<>>
      /\ p[1] \notin aborted => controller = p[1]
  BY <1>0, <1>1, Dequeuer
<1>3. \A u \in Queue : claims[u].by # p
  BY <1>0, <1>1, ClaimOf
<1>4. CASE (Return(p, <<>>) \/ Throw(p)) /\ UNCHANGED heldVars
  <2>1. UNCHANGED <<queues, claims, deliveries, liveSteered>> /\ taking' = [taking EXCEPT ![p] = Idle]
    BY <1>4 DEF heldVars, Return, Throw
  <2>2. \A u \in Queue : Peek(u)' = Peek(u)
    BY <2>1 DEF Peek
  <2>3. Prepared'
    BY <1>0, <1>1, <1>3, <2>1, DoneKeeps
  <2>4. Home' /\ Lanes' /\ Turned'
    BY <1>1, <1>2, <1>4, <2>1, <2>2, EmptyReturnOrder
  <2> QED BY <2>3, <2>4 DEF OInv
<1>5. ASSUME p[1] \notin aborted, claims[q] = NoClaim,
             NEW n \in {1, Len(queues[q])} \cap DOMAIN queues[q],
             queues' = [queues EXCEPT ![q] = SubSeq(@, n + 1, Len(@))],
             NEW c, c = SubSeq(queues[q], 1, n),
             \/ /\ claims' = [claims EXCEPT ![q] = [by |-> p, msgs |-> c]]
                /\ taking' = [taking EXCEPT ![p].step = "prepare"]
                /\ UNCHANGED <<deliveries, liveSteered, loop, live, stream>>
             \/ /\ HandOver(p, q, c)
                /\ Return(p, c)
                /\ UNCHANGED claims
      PROVE  OInv'
  <2> PICK u \in Queue : u = q
    BY <1>0 DEF TypeOK, Taking
  <2> DEFINE s == queues[u]
             b == SubSeq(s, 1, n)
             w == SubSeq(s, n + 1, Len(s))
  <2>1. b \in Seq(Msg) /\ w \in Seq(Msg) /\ b # <<>> /\ s = Joined(b, w)
    BY <1>0, <1>5, BatchFacts
  <2>2. Peek(u) = s
    <3>1. claims[u].msgs = <<>> /\ s \in Seq(Msg)
      BY <1>0, <1>5, QueueFacts DEF NoClaim
    <3>2. Peek(u) = Joined(<<>>, s)
      BY <3>1 DEF Peek, Joined
    <3> QED BY <3>1, <3>2, JoinedFacts
  <2>3. queues'[u] = w /\ \A v \in Queue \ {u} : queues'[v] = queues[v]
    BY <1>0, <1>5 DEF TypeOK
  <2>4. ASSUME claims' = [claims EXCEPT ![u] = [by |-> p, msgs |-> b]],
               taking' = [taking EXCEPT ![p].step = "prepare"],
               UNCHANGED <<deliveries, liveSteered, loop, live, stream>>
        PROVE  OInv'
    <3>1. claims'[u].msgs = b /\ \A v \in Queue \ {u} : claims'[v] = claims[v]
      BY <1>0, <2>4 DEF TypeOK
    <3>2. Peek(u)' = Joined(b, w)
      BY <2>3, <3>1 DEF Peek, Joined
    <3>3. \A v \in Queue : Peek(v)' = Peek(v)
      BY <2>1, <2>2, <2>3, <3>1, <3>2 DEF Peek
    <3>4. Home' /\ Lanes' /\ Turned'
      BY <1>0, <1>1, <2>4, <3>3, StillOrder
    <3> HIDE DEF b, w, s
    <3>5. Prepared'
      BY <1>0, <1>1, <1>2, <1>5, <2>4, ClaimKeeps
    <3> QED BY <3>4, <3>5 DEF OInv
  <2>5. ASSUME HandOver(p, u, b), Return(p, b), UNCHANGED claims
        PROVE  OInv'
    <3>1. Peek(u)' = w
      <4>0. claims'[u].msgs = <<>>
        BY <1>5, <2>5 DEF NoClaim
      <4>1. Peek(u)' = Joined(<<>>, w)
        BY <2>3, <4>0 DEF Peek, Joined
      <4>2. Joined(<<>>, w) = w
        BY <2>1, JoinedFacts
      <4> QED BY <4>1, <4>2
    <3>2. \A v \in Queue \ {u} : Peek(v)' = Peek(v)
      BY <2>3, <2>5 DEF Peek
    <3>3. Peek(u) = Joined(b, Peek(u)') /\ Peek(u)' \in Seq(Msg)
      BY <2>1, <2>2, <3>1
    <3>4. taking' = [taking EXCEPT ![p] = Idle]
      BY <2>5 DEF Return
    <3>5. Prepared'
      BY <1>0, <1>1, <1>3, <2>5, <3>4, DoneKeeps
    <3>6. taking[p].step # "none" /\ taking[p].queue = u
      BY <1>1
    <3> HIDE DEF b, w, s, q
    <3>7. Home' /\ Lanes' /\ Turned'
      BY <1>1, <1>5, <2>1, <2>5, <3>2, <3>3, <3>6, HandedOrder
    <3> QED BY <3>5, <3>7 DEF OInv
  <2> QED BY <1>5, <2>4, <2>5
<1>6. \/ (Return(p, <<>>) \/ Throw(p)) /\ UNCHANGED heldVars
      \/ /\ p[1] \notin aborted
         /\ claims[q] = NoClaim
         /\ \E n \in {1, Len(queues[q])} \cap DOMAIN queues[q] :
              /\ queues' = [queues EXCEPT ![q] = SubSeq(@, n + 1, Len(@))]
              /\ \E c : /\ c = SubSeq(queues[q], 1, n)
                       /\ \/ /\ claims' = [claims EXCEPT ![q] = [by |-> p, msgs |-> c]]
                             /\ taking' = [taking EXCEPT ![p].step = "prepare"]
                             /\ UNCHANGED <<deliveries, liveSteered, loop, live, stream>>
                          \/ /\ HandOver(p, q, c)
                             /\ Return(p, c)
                             /\ UNCHANGED claims
  BY DEF AfterHooks
<1> HIDE DEF q
<1> QED BY <1>4, <1>5, <1>6

\* AfterPrepare restores the claim or hands it over.
LEMMA PrepareOrder ==
  ASSUME IInv, OInv, NEW p \in Proc, AfterPrepare(p)
  PROVE  OInv'
<1>0. TypeOK /\ Phases /\ Accounts /\ Home /\ Lanes /\ Prepared /\ Turned
  BY DEF IInv, OInv
<1>1. PICK q \in Queue : q = taking[p].queue
  BY <1>0 DEF TypeOK, Taking
<1>2. taking[p].step # "none" /\ UNCHANGED <<controller, recorded, order, late>>
  BY DEF AfterPrepare
<1>3. /\ p[2] = "loop" => loop[p[1]].at \in PollSites
      /\ p[2] = "live" => live[p[1]].sent = <<>>
  BY <1>0, <1>2, Dequeuer
<1>4. \A u \in Queue \ {q} : claims[u].by # p
  BY <1>0, <1>1, ClaimOf
<1>5. CASE RestoreClaim(p, q) /\ Throw(p) /\ UNCHANGED <<deliveries, liveSteered>>
  <2>1. \A u \in Queue : Peek(u)' = Peek(u)
    BY <1>0, <1>5, RestoreKeeps
  <2>2. \A u \in Queue : claims'[u] = NoClaim \/ (claims'[u] = claims[u] /\ claims[u].by # p)
    BY <1>0, <1>4, <1>5 DEF RestoreClaim, TypeOK
  <2>3. taking' = [taking EXCEPT ![p] = Idle]
    BY <1>5 DEF Throw
  <2>4. Prepared'
    BY <1>0, <1>2, <2>2, <2>3, DoneKeeps
  <2>5. Home' /\ Lanes' /\ Turned'
    BY <1>2, <1>3, <1>5, <2>1, EmptyReturnOrder
  <2> QED BY <2>4, <2>5 DEF OInv
<1>6. CASE Return(p, <<>>) /\ UNCHANGED heldVars /\ claims[q].by # p
  <2>1. UNCHANGED <<queues, claims, deliveries, liveSteered>> /\ taking' = [taking EXCEPT ![p] = Idle]
    BY <1>6 DEF heldVars, Return
  <2>2. \A u \in Queue : Peek(u)' = Peek(u)
    BY <2>1 DEF Peek
  <2>3. Prepared'
    BY <1>0, <1>2, <1>4, <1>6, <2>1, DoneKeeps
  <2>4. Home' /\ Lanes' /\ Turned'
    BY <1>2, <1>3, <1>6, <2>1, <2>2, EmptyReturnOrder
  <2> QED BY <2>3, <2>4 DEF OInv
<1>7. ASSUME p[1] \notin aborted, claims[q].by = p, UNCHANGED queues,
             claims' = [claims EXCEPT ![q] = NoClaim],
             HandOver(p, q, claims[q].msgs), Return(p, claims[q].msgs)
      PROVE  OInv'
  <2> PICK b : b = claims[q].msgs
    OBVIOUS
  <2>1. b \in Seq(Msg) /\ b # <<>> /\ queues[q] \in Seq(Msg)
    BY <1>0, <1>7, QueueFacts DEF Phases, RunPhase
  <2>2. claims'[q].msgs = <<>> /\ \A u \in Queue \ {q} : claims'[u] = claims[u]
    BY <1>0, <1>7 DEF TypeOK, NoClaim
  <2>3. Peek(q)' = Joined(<<>>, queues[q])
    BY <1>7, <2>2 DEF Peek, Joined
  <2>4. Peek(q)' = queues[q] /\ Peek(q) = Joined(b, queues[q])
    BY <1>0, <2>1, <2>3, JoinedFacts, QueueFacts
  <2>5. \A u \in Queue \ {q} : Peek(u)' = Peek(u)
    BY <1>7, <2>2 DEF Peek
  <2>6. HandOver(p, q, b) /\ Return(p, b) /\ taking' = [taking EXCEPT ![p] = Idle]
    BY <1>7 DEF Return
  <2>7. \A u \in Queue : claims'[u] = NoClaim \/ (claims'[u] = claims[u] /\ claims[u].by # p)
    BY <1>0, <1>4, <1>7 DEF TypeOK
  <2>8. Prepared'
    BY <1>0, <1>2, <2>6, <2>7, DoneKeeps
  <2>9. Home' /\ Lanes' /\ Turned'
    BY <1>1, <1>2, <1>7, <2>1, <2>4, <2>5, <2>6, HandedOrder
  <2> QED BY <2>8, <2>9 DEF OInv
<1>8. \/ RestoreClaim(p, q) /\ Throw(p) /\ UNCHANGED <<deliveries, liveSteered>>
      \/ Return(p, <<>>) /\ UNCHANGED heldVars /\ claims[q].by # p
      \/ /\ p[1] \notin aborted /\ claims[q].by = p /\ UNCHANGED queues
         /\ claims' = [claims EXCEPT ![q] = NoClaim]
         /\ HandOver(p, q, claims[q].msgs)
         /\ Return(p, claims[q].msgs)
  BY <1>1 DEF AfterPrepare
<1> QED BY <1>5, <1>6, <1>7, <1>8

-----------------------------------------------------------------------------
(* Order under queue edits *)

\* What an appended element came after.
LEMMA OlderAppend ==
  ASSUME NEW X, NEW s \in Seq(X), NEW e \in X, NEW x, NEW y
  PROVE  Older(Append(s, e), x, y) <=> Older(s, x, y) \/ (y = e /\ x \in ToSet(s))
<1> DEFINE t == Append(s, e)
<1>1. /\ Len(s) \in Nat /\ DOMAIN s = 1..Len(s)
      /\ DOMAIN t = 1..(Len(s) + 1)
      /\ \A i \in 1..Len(s) : t[i] = s[i]
      /\ t[Len(s) + 1] = e
  <2>1. t \in Seq(X) /\ Len(t) = Len(s) + 1 /\ (\A i \in 1..Len(s) : t[i] = s[i]) /\ t[Len(s) + 1] = e
    BY AppendProperties
  <2> HIDE DEF t
  <2> QED BY <2>1, LenProperties
<1> HIDE DEF t
<1>2. ASSUME Older(t, x, y) PROVE Older(s, x, y) \/ (y = e /\ x \in ToSet(s))
  <2>1. PICK i, j \in DOMAIN t : i < j /\ t[i] = x /\ t[j] = y
    BY <1>2 DEF Older
  <2>2. i \in DOMAIN s /\ s[i] = x
    BY <1>1, <2>1
  <2>3. CASE j \in DOMAIN s
    BY <1>1, <2>1, <2>2, <2>3 DEF Older
  <2>4. CASE j \notin DOMAIN s
    <3>1. j = Len(s) + 1
      BY <1>1, <2>1, <2>4
    <3> QED BY <1>1, <2>1, <2>2, <3>1 DEF ToSet
  <2> QED BY <2>3, <2>4
<1>3. ASSUME Older(s, x, y) PROVE Older(t, x, y)
  <2>1. PICK i, j \in DOMAIN s : i < j /\ s[i] = x /\ s[j] = y
    BY <1>3 DEF Older
  <2>2. i \in DOMAIN t /\ j \in DOMAIN t /\ t[i] = x /\ t[j] = y
    BY <1>1, <2>1
  <2> QED BY <2>1, <2>2 DEF Older
<1>4. ASSUME y = e, x \in ToSet(s) PROVE Older(t, x, y)
  <2>1. PICK i \in DOMAIN s : s[i] = x
    BY <1>4 DEF ToSet
  <2>2. i \in DOMAIN t /\ Len(s) + 1 \in DOMAIN t /\ i < Len(s) + 1 /\ t[i] = x /\ t[Len(s) + 1] = y
    BY <1>1, <1>4, <2>1
  <2> QED BY <2>2 DEF Older
<1> QED BY <1>2, <1>3, <1>4 DEF t

\* What Array.filter leaves was in that order.
LEMMA OlderKept ==
  ASSUME NEW X, NEW s \in Seq(X), NEW S
  PROVE  \A x, y : Older(Without(s, S), x, y) => Older(s, x, y)
<1> DEFINE Kept(v) == \A x, y : Older(Without(v, S), x, y) => Older(v, x, y)
           Q == {v \in Seq(X) : Kept(v)}
<1>1. <<>> \in Q
  <2>1. <<>> \in Seq(X) /\ Without(<<>>, S) = <<>>
    BY EmptySeq, WithoutNone
  <2> QED BY <2>1
<1>2. ASSUME NEW v \in Q, NEW e \in X PROVE Append(v, e) \in Q
  <2> DEFINE w == Without(v, S)
             t == Append(v, e)
  <2>1. v \in Seq(X) /\ t \in Seq(X) /\ \A x, y : Older(w, x, y) => Older(v, x, y)
    BY AppendProperties
  <2>2. w \in Seq(X) /\ ToSet(w) \subseteq ToSet(v)
    BY <2>1, WithoutFacts
  <2>3. Without(t, S) = IF e \in S THEN w ELSE Append(w, e)
    BY <2>1, WithoutAppend
  <2> HIDE DEF w, t
  <2>4. ASSUME NEW x, NEW y, Older(Without(t, S), x, y) PROVE Older(t, x, y)
    <3>1. Older(w, x, y) \/ (y = e /\ x \in ToSet(w))
      BY <2>2, <2>3, <2>4, OlderAppend
    <3>2. Older(v, x, y) \/ (y = e /\ x \in ToSet(v))
      BY <2>1, <2>2, <3>1
    <3> QED BY <2>1, <3>2, OlderAppend DEF t
  <2> QED BY <2>1, <2>4 DEF t
<1>3. Q = Seq(X)
  <2>1. Q \subseteq Seq(X)
    OBVIOUS
  <2> HIDE DEF Q
  <2> QED BY <1>1, <1>2, <2>1, SeqsAreBuilt
<1> QED BY <1>3

\* What an edit does to claims, delivery records and the run.
LEMMA EditKept ==
  ASSUME TypeOK, Lanes, Prepared, NEW Q \in SUBSET Queue, NEW new, Replace(Q, new),
         UNCHANGED <<liveSteered, runVars, late>>
  PROVE  /\ Lanes' /\ Prepared'
         /\ \A u \in Queue : Thins(Back(u), Back(u)') /\ (u \notin Q => Back(u)' = Back(u))
<1>0. UNCHANGED <<controller, aborted, taking, loop, live, stream>>
  BY DEF runVars
<1>1. /\ claims' = [u \in Queue |-> IF u \in Q THEN NoClaim ELSE claims[u]]
      /\ deliveries' = Without(deliveries, {d \in ToSet(deliveries) : d.queue \in Q})
      /\ deliveries \in Seq(Delivery)
  BY DEF Replace, TypeOK
<1>2. Prepared'
  <2>1. \A u \in Queue : claims'[u] = NoClaim \/ claims'[u] = claims[u]
    BY <1>1
  <2>2. \A r \in Run : taking'[<<r, "live">>].queue = "steering"
    BY <1>0 DEF Prepared
  <2> QED BY <1>0, <2>1, <2>2, PreparedKept
<1>3. \A u : Mail(deliveries', u) = IF u \in Q THEN <<>> ELSE Mail(deliveries, u)
  BY <1>1, MailKept
<1>4. ASSUME NEW u \in Queue
      PROVE  /\ Thins(Back(u), Back(u)') /\ (u \notin Q => Back(u)' = Back(u))
             /\ ToSet(Back(u)') \subseteq ToSet(Back(u))
             /\ ToSet(Mail(deliveries', u)) \subseteq ToSet(Mail(deliveries, u))
  <2> DEFINE a == IF u = "steering" THEN SteeredIn(liveSteered) ELSE <<>>
             m == Mail(deliveries, u)
  <2>1. Back(u) = Joined(a, m) /\ Back(u)' = Joined(a, Mail(deliveries', u))
    BY DEF Back, BackOf
  <2>2. a \in Seq(Msg) /\ m \in Seq(Msg) /\ Back(u) \in Seq(Msg)
    <3>1. SteeredIn(liveSteered) \in Seq(Msg) /\ <<>> \in Seq(Msg)
      BY SteerTimesFacts, EmptySeq DEF TypeOK
    <3> QED BY <1>1, <3>1, MailFacts, BackFacts
  <2> HIDE DEF a, m
  <2>3. u \notin Q => Back(u)' = Back(u)
    BY <1>3, <2>1 DEF m
  <2>4. Thins(Back(u), Back(u)')
    <3>1. CASE u \in Q
      <4>1. Back(u)' = a
        BY <1>3, <2>1, <2>2, <3>1, JoinedFacts
      <4>2. Thins(Joined(a, m), a)
        BY <2>2, ThinsSome
      <4> QED BY <2>1, <4>1, <4>2
    <3>2. CASE u \notin Q
      BY <2>2, <2>3, <3>2, ThinsSome
    <3> QED BY <3>1, <3>2
  <2>5. ToSet(Mail(deliveries', u)) \subseteq ToSet(Mail(deliveries, u))
    <3>1. ToSet(<<>>) = {}
      BY <1>1, MembersFacts
    <3> QED BY <1>3, <3>1
  <2> QED BY <2>3, <2>4, <2>5 DEF Thins
<1>5. Lanes'
  <2>1. Pipe(controller)' = Pipe(controller)
    BY <1>0 DEF Pipe
  <2> QED BY <1>0, <1>4, <2>1 DEF Lanes
<1> QED BY <1>2, <1>4, <1>5

\* An edit that takes messages out of the queues.
LEMMA EditOrder ==
  ASSUME IInv, OInv, NEW Q \in SUBSET Queue, NEW new, Replace(Q, new),
         UNCHANGED <<liveSteered, runVars, recorded, order, late>>,
         \A u \in Queue : Thins(Peek(u), Peek(u)')
  PROVE  OInv'
<1>0. TypeOK /\ Accounts /\ Home /\ Lanes /\ Prepared /\ Turned
  BY DEF IInv, OInv
<1>1. UNCHANGED <<controller, aborted, taking, loop, live, stream>>
  BY DEF runVars
<1>2. /\ Lanes' /\ Prepared'
      /\ \A u \in Queue : Thins(Back(u), Back(u)') /\ (u \notin Q => Back(u)' = Back(u))
  BY <1>0, EditKept
<1>3. Home'
  <2>1. \A u \in Queue : Known(u)' = ToSet(Peek(u)') \cup ToSet(Back(u)')
    BY DEF Known
  <2>2. \A u \in Queue : Known(u)' \subseteq Known(u)
    BY <1>2, <2>1 DEF Known, Thins
  <2> QED BY <1>0, <2>2, HomeShrinks
<1>4. ASSUME NEW u \in Queue PROVE InTurn(u)'
  <2>1. Pipe(controller)' = Pipe(controller)
    BY <1>1 DEF Pipe
  <2>2. InTurn(u)
    BY <1>0 DEF Turned
  <2> QED BY <1>0, <1>1, <1>2, <2>1, <2>2, InTurnShrinks
<1> QED BY <1>2, <1>3, <1>4 DEF OInv, Turned

-----------------------------------------------------------------------------
\* takeQueuedMessage()
LEMMA TakeOrder ==
  ASSUME IInv, OInv, NEW q \in Queue, NEW i, TakeQueuedMessage(q, i)
  PROVE  OInv'
<1> DEFINE new == [queues EXCEPT ![q] = RemoveAt(Peek(q), i)]
<1>0. TypeOK /\ Accounts
  BY DEF IInv
<1>1. /\ i \in DOMAIN Peek(q) /\ Replace({q}, new)
      /\ UNCHANGED <<liveSteered, runVars, recorded, order, late>>
  BY DEF TakeQueuedMessage
<1>2. Peek(q) \in Seq(Msg) /\ RemoveAt(Peek(q), i) \in Seq(Msg)
  <2>1. Peek(q) \in Seq(Msg)
    BY <1>0, QueueFacts
  <2> QED BY <1>1, <2>1, TimesRemoved
<1>3. /\ new \in [Queue -> Seq(Msg)]
      /\ \A u \in Queue : new[u] = IF u = q THEN RemoveAt(Peek(q), i) ELSE queues[u]
  BY <1>0, <1>2 DEF TypeOK
<1> HIDE DEF new
<1>4. \A u \in Queue : Peek(u)' = IF u = q THEN new[u] ELSE Joined(claims[u].msgs, new[u])
  BY <1>0, <1>1, <1>3, ReplaceOneFacts
<1>5. ASSUME NEW u \in Queue PROVE Thins(Peek(u), Peek(u)')
  <2>1. CASE u = q
    <3>1. \A x \in Msg : Times(Peek(q), x) <= 1
      BY <1>0, Alone
    <3>2. Thins(Peek(q), RemoveAt(Peek(q), i))
      BY <1>1, <1>2, <3>1, ThinsRemoved
    <3> QED BY <1>3, <1>4, <2>1, <3>2
  <2>2. CASE u # q
    <3>1. Peek(u)' = Peek(u) /\ Peek(u) \in Seq(Msg)
      BY <1>0, <1>3, <1>4, <2>2, QueueFacts
    <3> QED BY <3>1, ThinsSome
  <2> QED BY <2>1, <2>2
<1>6. {q} \in SUBSET Queue
  OBVIOUS
<1> QED BY <1>1, <1>5, <1>6, EditOrder

\* popLastQueuedMessage()
LEMMA PopLastOrder ==
  ASSUME IInv, OInv, PopLastQueuedMessage
  PROVE  OInv'
<1>0. TypeOK /\ Accounts
  BY DEF IInv
<1>1. PICK q \in Queue :
        /\ Peek(q) # <<>>
        /\ Replace(Queue, [x \in Queue |-> IF x = q THEN Front(Peek(x)) ELSE Peek(x)])
  BY DEF PopLastQueuedMessage
<1> DEFINE new == [x \in Queue |-> IF x = q THEN Front(Peek(x)) ELSE Peek(x)]
<1>2. UNCHANGED <<liveSteered, runVars, recorded, order, late>>
  BY DEF PopLastQueuedMessage
<1>3. \A u \in Queue : Peek(u) \in Seq(Msg)
  BY <1>0, QueueFacts
<1>4. Front(Peek(q)) \in Seq(Msg)
  BY <1>1, <1>3, TimesFront
<1>5. /\ new \in [Queue -> Seq(Msg)] /\ Replace(Queue, new)
      /\ \A u \in Queue : new[u] = IF u = q THEN Front(Peek(q)) ELSE Peek(u)
  BY <1>1, <1>3, <1>4
<1> HIDE DEF new
<1>6. \A u \in Queue : Peek(u)' = new[u]
  BY <1>0, <1>5, ReplaceFacts
<1>7. ASSUME NEW u \in Queue PROVE Thins(Peek(u), Peek(u)')
  <2>1. CASE u = q
    <3>1. \A x \in Msg : Times(Peek(q), x) <= 1
      BY <1>0, Alone
    <3>2. Thins(Peek(q), Front(Peek(q)))
      BY <1>1, <1>3, <3>1, ThinsEnds
    <3> QED BY <1>5, <1>6, <2>1, <3>2
  <2>2. CASE u # q
    BY <1>3, <1>5, <1>6, <2>2, ThinsSome
  <2> QED BY <2>1, <2>2
<1> QED BY <1>2, <1>5, <1>7, EditOrder

\* clearQueue()
LEMMA ClearQueueOrder ==
  ASSUME IInv, OInv, ClearQueue
  PROVE  OInv'
<1> DEFINE new == [q \in Queue |-> <<>>]
<1>0. TypeOK
  BY DEF IInv
<1>1. Replace(Queue, new) /\ UNCHANGED <<liveSteered, runVars, recorded, order, late>>
  BY DEF ClearQueue
<1>2. new \in [Queue -> Seq(Msg)] /\ \A q \in Queue : new[q] = <<>>
  BY EmptySeq
<1> HIDE DEF new
<1>3. \A u \in Queue : Peek(u)' = <<>>
  BY <1>0, <1>1, <1>2, ReplaceFacts
<1>4. ASSUME NEW u \in Queue PROVE Thins(Peek(u), Peek(u)')
  <2>1. Peek(u) \in Seq(Msg)
    BY <1>0, QueueFacts
  <2>2. Thins(Peek(u), <<>>)
    BY <2>1, ThinsSome
  <2> QED BY <1>3, <2>2
<1> QED BY <1>1, <1>4, EditOrder

\* promoteQueuedMessage(): the message is the newest of its new queue.
LEMMA PromoteOrder ==
  ASSUME IInv, OInv, NEW i, PromoteQueuedMessage(i)
  PROVE  OInv'
<1> DEFINE f == "followUp"
           s == "steering"
           m == Peek(f)[i]
           new == [q \in Queue |->
                     IF q = "steering" THEN Append(queues[q], m) ELSE RemoveAt(Peek(q), i)]
<1>0. TypeOK /\ Accounts /\ Home /\ Lanes /\ Prepared /\ Turned
  BY DEF IInv, OInv
<1>1. /\ i \in DOMAIN Peek(f)
      /\ Replace({f}, new)
      /\ order' = [q \in Queue |->
                     IF q = "steering" THEN Append(order[q], m) ELSE Without(order[q], {m})]
      /\ UNCHANGED <<liveSteered, runVars, recorded, late>>
  BY DEF PromoteQueuedMessage
<1>2. /\ f \in Queue /\ s \in Queue /\ {f} \in SUBSET Queue /\ f # s
      /\ \A u \in Queue : u = f \/ u = s
  BY DEF Queue
<1>3. UNCHANGED <<controller, taking, loop, live, stream>>
  BY <1>1 DEF runVars
<1>4. /\ Peek(f) \in Seq(Msg) /\ RemoveAt(Peek(f), i) \in Seq(Msg) /\ m \in Msg /\ m \in ToSet(Peek(f))
      /\ queues[s] \in Seq(Msg) /\ Append(queues[s], m) \in Seq(Msg) /\ Peek(s) \in Seq(Msg)
  <2>1. Peek(f) \in Seq(Msg) /\ queues[s] \in Seq(Msg) /\ Peek(s) \in Seq(Msg)
    BY <1>0, <1>2, QueueFacts
  <2>2. RemoveAt(Peek(f), i) \in Seq(Msg)
    BY <1>1, <2>1, TimesRemoved
  <2>3. m \in Msg
    BY <1>1, <2>1, ElementOfSeq, LenProperties
  <2>4. m \in ToSet(Peek(f))
    BY <1>1 DEF ToSet
  <2>5. Append(queues[s], m) \in Seq(Msg)
    BY <2>1, <2>3, AppendProperties
  <2> QED BY <2>1, <2>2, <2>3, <2>4, <2>5
<1>5. new \in [Queue -> Seq(Msg)] /\ new[s] = Append(queues[s], m) /\ new[f] = RemoveAt(Peek(f), i)
  BY <1>4, <1>2
<1>6. order'[s] = Append(order[s], m) /\ order'[f] = Without(order[f], {m})
  BY <1>1, <1>2
<1>7. ~(Times(RemoveAt(Peek(f), i), m) > 0)
  <2>1. /\ Times(Peek(f), m) = Times(RemoveAt(Peek(f), i), m) + 1
        /\ Times(RemoveAt(Peek(f), i), m) \in Nat
    BY <1>1, <1>4, TimesRemoved, TimesBasics
  <2>2. Times(Peek(f), m) <= 1
    BY <1>0, <1>4, <1>2, Alone
  <2> QED BY <2>1, <2>2
<1> HIDE DEF new, m, f, s
<1>8. \A u \in Queue : Peek(u)' = IF u = f THEN new[u] ELSE Joined(claims[u].msgs, new[u])
  BY <1>0, <1>1, <1>5, <1>2, ReplaceOneFacts
<1>9. Peek(f)' = RemoveAt(Peek(f), i) /\ Peek(s)' = Append(Peek(s), m)
  <2>1. Append(Peek(s), m) = Joined(claims[s].msgs, Append(queues[s], m))
    BY <1>0, <1>4, <1>2, PeekAppend
  <2> QED BY <1>2, <1>5, <1>8, <2>1
<1>10. /\ Lanes' /\ Prepared'
      /\ \A u \in Queue : Thins(Back(u), Back(u)')
      /\ Back(s)' = Back(s)
  <2>1. UNCHANGED <<liveSteered, runVars, late>>
    BY <1>1
  <2>2. s \notin {f}
    BY <1>2
  <2> QED BY <1>0, <1>1, <1>2, <2>1, <2>2, EditKept
<1>11. Thins(Peek(f), Peek(f)') /\ m \notin ToSet(Peek(f)')
  <2>1. \A x \in Msg : Times(Peek(f), x) <= 1
    BY <1>0, <1>2, Alone
  <2>2. Thins(Peek(f), RemoveAt(Peek(f), i))
    BY <1>1, <1>4, <2>1, ThinsRemoved
  <2>3. m \notin ToSet(RemoveAt(Peek(f), i))
    BY <1>4, <1>7, TimesMember
  <2> QED BY <1>9, <2>2, <2>3
<1>12. /\ m \notin ToSet(Back(f)) /\ m \notin ToSet(Back(s)) /\ m \notin ToSet(Peek(s))
       /\ recorded[m] = 0 /\ (controller \in Run => m \notin ToSet(Pipe(controller)))
       /\ m \notin ToSet(order[s])
  <2>1. /\ m \notin ToSet(Back(f)) /\ m \notin ToSet(Back(s)) /\ m \notin ToSet(Peek(s))
        /\ recorded[m] = 0 /\ (controller \in Run => m \notin ToSet(Pipe(controller)))
    BY <1>0, <1>4, <1>2, Alone
  <2>2. m \in ToSet(order[f]) /\ ToSet(order[f]) \cap ToSet(order[s]) = {}
    BY <1>0, <1>4, <1>2 DEF Home, Known
  <2> QED BY <2>1, <2>2
<1>13. order[s] \in Seq(Msg) /\ order[f] \in Seq(Msg)
  BY <1>0, <1>2 DEF TypeOK
<1>14. /\ ToSet(order'[s]) = ToSet(order[s]) \cup {m}
       /\ ToSet(order'[f]) = ToSet(order[f]) \ {m}
  BY <1>4, <1>6, <1>13, MembersFacts, WithoutFacts
<1>15. \A u \in Queue : Known(u)' = ToSet(Peek(u)') \cup ToSet(Back(u)')
  BY DEF Known
<1>16. Home'
  <2>1. Known(f)' \subseteq Known(f) \ {m}
    BY <1>10, <1>11, <1>12, <1>15, <1>2 DEF Known, Thins
  <2>2. Known(s)' = Known(s) \cup {m}
    <3>1. ToSet(Append(Peek(s), m)) = ToSet(Peek(s)) \cup {m}
      BY <1>4, MembersFacts
    <3> QED BY <1>9, <1>10, <1>15, <1>2, <3>1 DEF Known
  <2>3. /\ Known(f) \subseteq ToSet(order[f]) /\ Known(s) \subseteq ToSet(order[s])
        /\ ToSet(order[f]) \cap ToSet(order[s]) = {}
    BY <1>0, <1>2 DEF Home
  <2>4. Known(f)' \subseteq ToSet(order'[f]) /\ Known(s)' \subseteq ToSet(order'[s])
    BY <1>14, <2>1, <2>2, <2>3
  <2>5. ToSet(order'[f]) \cap ToSet(order'[s]) = {}
    BY <1>14, <2>3
  <2> QED BY <1>2, <2>4, <2>5 DEF Home
<1>17. Pipe(controller)' = Pipe(controller)
  BY <1>3 DEF Pipe
<1>18. InTurn(s)'
  <2>1. InTurn(s) /\ m \notin Known(s)
    BY <1>0, <1>12, <1>2 DEF Turned, Known
  <2>2. UNCHANGED <<controller, late, recorded, stream>>
    BY <1>1, <1>3
  <2> QED BY <1>0, <1>4, <1>6, <1>9, <1>10, <1>12, <1>17, <1>2, <2>1, <2>2, InTurnNewest
<1>19. InTurn(f)'
  <2>1. InTurn(f)
    BY <1>0, <1>2 DEF Turned
  <2>2. \A x, y \in Msg : Older(order'[f], x, y) => Older(order[f], x, y)
    BY <1>6, <1>13, OlderKept
  <2> QED BY <1>0, <1>1, <1>3, <1>10, <1>11, <1>17, <1>2, <2>1, <2>2, InTurnShrinks
<1>20. Turned'
  BY <1>18, <1>19, <1>2 DEF Turned
<1> QED BY <1>10, <1>16, <1>20 DEF OInv

-----------------------------------------------------------------------------
(* A new message *)

\* A posted message is the newest of its queue.
LEMMA PostOrder ==
  ASSUME IInv, OInv, NEW q \in Queue, Post(q)
  PROVE  OInv'
<1> DEFINE n == Cardinality(Posted)
           m == n + 1
<1>0. TypeOK /\ Accounts /\ PostedSoFar /\ Home /\ Lanes /\ Prepared /\ Turned
  BY DEF IInv, OInv
<1>1. /\ n < MaxMsg
      /\ queues' = [queues EXCEPT ![q] = Append(@, m)]
      /\ order' = [order EXCEPT ![q] = Append(@, m)]
      /\ UNCHANGED <<claims, deliveries, liveSteered, controller, taking, stream, loop, live,
                     recorded, late>>
  BY DEF Post, runVars
<1>2. n \in Nat /\ Posted = 1..n
  BY <1>0, PostedFacts DEF PostedSoFar
<1>3. m \in Msg /\ m \notin Posted
  BY <1>1, <1>2, BoundAssumption DEF Msg
<1> HIDE DEF n, m
<1>4. \A u \in Queue : order[u] \in Seq(Msg) /\ m \notin ToSet(order[u])
  BY <1>0, <1>3 DEF TypeOK, Posted, Queue
<1>5. \A u \in Queue : order'[u] = IF u = q THEN Append(order[q], m) ELSE order[u]
  BY <1>0, <1>1 DEF TypeOK
<1>6. \A u \in Queue : Peek(u)' = IF u = q THEN Append(Peek(q), m) ELSE Peek(u)
  <2>1. \A u \in Queue : queues'[u] = IF u = q THEN Append(queues[q], m) ELSE queues[u]
    BY <1>0, <1>1 DEF TypeOK
  <2>2. Append(Peek(q), m) = Joined(claims[q].msgs, Append(queues[q], m))
    BY <1>0, <1>3, PeekAppend
  <2>3. \A u \in Queue : Peek(u)' = Joined(claims[u].msgs, queues'[u])
    BY <1>1 DEF Peek, Joined
  <2>4. \A u \in Queue : Peek(u) = Joined(claims[u].msgs, queues[u])
    BY <1>0, QueueFacts
  <2> QED BY <2>1, <2>2, <2>3, <2>4
<1>7. \A u \in Queue : /\ Back(u)' = Back(u) /\ Mail(deliveries, u)' = Mail(deliveries, u)
                       /\ Peek(u) \in Seq(Msg) /\ Back(u) \in Seq(Msg)
  BY <1>0, <1>1, KnownFacts DEF Back
<1>8. Pipe(controller)' = Pipe(controller)
  BY <1>1 DEF Pipe
<1>9. Lanes' /\ Prepared'
  <2>1. Lanes'
    BY <1>0, <1>1, <1>7, <1>8 DEF Lanes
  <2>2. Prepared'
    BY <1>0, <1>1 DEF Prepared
  <2> QED BY <2>1, <2>2
<1>10. /\ ToSet(Append(order[q], m)) = ToSet(order[q]) \cup {m}
       /\ ToSet(Append(Peek(q), m)) = ToSet(Peek(q)) \cup {m}
  BY <1>3, <1>4, <1>7, MembersFacts
<1>11. Home'
  <2>1. \A u \in Queue : Known(u)' = ToSet(Peek(u)') \cup ToSet(Back(u)')
    BY DEF Known
  <2>2. \A u \in Queue : Known(u)' = IF u = q THEN Known(u) \cup {m} ELSE Known(u)
    BY <1>6, <1>7, <1>10, <2>1 DEF Known
  <2>3. \A u \in Queue : ToSet(order'[u]) = IF u = q THEN ToSet(order[u]) \cup {m} ELSE ToSet(order[u])
    BY <1>5, <1>10
  <2>4. \A u \in Queue : Known(u)' \subseteq ToSet(order'[u])
    BY <1>0, <2>2, <2>3 DEF Home
  <2>5. ASSUME NEW u \in Queue, NEW v \in Queue, u # v
        PROVE  ToSet(order'[u]) \cap ToSet(order'[v]) = {}
    <3>1. /\ ToSet(order[u]) \cap ToSet(order[v]) = {}
          /\ m \notin ToSet(order[u]) /\ m \notin ToSet(order[v])
      BY <1>0, <1>4, <2>5 DEF Home
    <3>2. CASE u = q
      <4>1. /\ ToSet(order'[u]) = ToSet(order[u]) \cup {m} /\ ToSet(order'[v]) = ToSet(order[v])
        BY <2>3, <2>5, <3>2
      <4> QED BY <3>1, <4>1
    <3>3. CASE v = q
      <4>1. /\ ToSet(order'[v]) = ToSet(order[v]) \cup {m} /\ ToSet(order'[u]) = ToSet(order[u])
        BY <2>3, <2>5, <3>3
      <4> QED BY <3>1, <4>1
    <3>4. CASE u # q /\ v # q
      <4>1. /\ ToSet(order'[u]) = ToSet(order[u]) /\ ToSet(order'[v]) = ToSet(order[v])
        BY <2>3, <3>4
      <4> QED BY <3>1, <4>1
    <3> QED BY <3>2, <3>3, <3>4
  <2> QED BY <2>4, <2>5 DEF Home
<1>12. /\ \A u \in Queue : m \notin Known(u)
       /\ recorded[m] = 0
       /\ controller \in Run => m \notin ToSet(Pipe(controller))
  <2>1. \A u \in Queue : m \notin Known(u)
    BY <1>0, <1>4 DEF Home
  <2>2. Counted(m) = 0 /\ Queued(m) \in Nat /\ recorded[m] \in Nat
    BY <1>0, <1>3, QueuedFacts DEF Accounts, TypeOK
  <2>3. recorded[m] = 0 /\ (controller \in Run => Times(Pipe(controller), m) = 0)
    <3>1. CASE controller \in Run
      <4>1. Times(Pipe(controller), m) \in Nat
        BY <1>0, <3>1, PipeFacts
      <4> QED BY <2>2, <3>1, <4>1 DEF Counted
    <3>2. CASE controller \notin Run
      BY <2>2, <3>2 DEF Counted
    <3> QED BY <3>1, <3>2
  <2>4. controller \in Run => m \notin ToSet(Pipe(controller))
    BY <1>0, <2>3, PipeFacts
  <2> QED BY <2>1, <2>3, <2>4
<1>13. ASSUME NEW u \in Queue PROVE InTurn(u)'
  <2>1. InTurn(u)
    BY <1>0 DEF Turned
  <2>2. CASE u = q
    <3>1. /\ Peek(q)' = Append(Peek(q), m) /\ order'[q] = Append(order[q], m)
          /\ m \notin ToSet(order[q]) /\ m \notin Known(q) /\ InTurn(q)
      BY <1>4, <1>5, <1>6, <1>12, <2>1, <2>2
    <3>2. UNCHANGED <<controller, late, recorded, stream>>
      BY <1>1
    <3>3. InTurn(q)'
      BY <1>0, <1>3, <1>7, <1>8, <1>12, <3>1, <3>2, InTurnNewest
    <3> QED BY <2>2, <3>3
  <2>3. CASE u # q
    <3>1. Peek(u)' = Peek(u) /\ order'[u] = order[u]
      BY <1>5, <1>6, <2>3
    <3>2. Thins(Peek(u), Peek(u)') /\ Thins(Back(u), Back(u)')
      BY <1>7, <3>1, ThinsSome
    <3> QED BY <1>0, <1>1, <1>8, <2>1, <3>1, <3>2, InTurnShrinks
  <2> QED BY <2>2, <2>3
<1> QED BY <1>9, <1>11, <1>13 DEF OInv, Turned

-----------------------------------------------------------------------------
(* Nothing is dequeued *)

\* A sequence without elements.
LEMMA EmptyOf ==
  ASSUME NEW X, NEW s \in Seq(X), ToSet(s) = {}
  PROVE  s = <<>>
<1>1. Len(s) \in Nat /\ DOMAIN s = 1..Len(s) /\ (Len(s) = 0 => s = <<>>)
  BY EmptySeq, LenProperties
<1>2. CASE Len(s) # 0
  <2>1. 1 \in DOMAIN s
    BY <1>1, <1>2
  <2> QED BY <2>1 DEF ToSet
<1> QED BY <1>1, <1>2

\* Nothing would go back.
LEMMA NothingBack ==
  ASSUME NEW q \in Queue
  PROVE  Mail(<<>>, q) = <<>> /\ BackOf(<<>>, <<>>, q) = <<>> /\ ToSet(<<>>) = {}
<1>1. <<>> \in Seq(Delivery) /\ <<>> \in Seq(Steering) /\ <<>> \in Seq(Msg)
  BY EmptySeq
<1>2. Mail(<<>>, q) = <<>> /\ ToSet(<<>>) = {}
  BY <1>1, MailFacts, MembersFacts
<1>3. SteeredIn(<<>>) = <<>>
  BY EmptySeq, LenProperties DEF SteeredIn
<1>4. Joined(<<>>, <<>>) = <<>>
  BY <1>1, JoinedFacts
<1> QED BY <1>2, <1>3, <1>4 DEF BackOf

\* With nothing pending there is no order to keep.
LEMMA ClearedOrder ==
  ASSUME OInv, queues' = [q \in Queue |-> <<>>], claims' = [q \in Queue |-> NoClaim],
         deliveries' = <<>>, liveSteered' = <<>>, UNCHANGED <<taking, order>>
  PROVE  OInv'
<1>1. \A q \in Queue : Mail(deliveries, q)' = <<>> /\ Back(q)' = <<>> /\ ToSet(<<>>) = {}
  BY NothingBack DEF Back
<1>2. \A q \in Queue : Known(q)' = {}
  <2> TAKE q \in Queue
  <2>1. Peek(q)' = Joined(<<>>, <<>>)
    BY DEF Peek, NoClaim, Joined
  <2>2. Joined(<<>>, <<>>) = <<>>
    BY EmptySeq, JoinedFacts
  <2>3. Known(q)' = ToSet(Peek(q)') \cup ToSet(Back(q)')
    BY DEF Known
  <2> QED BY <1>1, <2>1, <2>2, <2>3
<1>3. Home'
  BY <1>2, HomeShrinks DEF OInv
<1>4. Lanes'
  BY <1>1 DEF Lanes
<1>5. Prepared'
  BY DEF OInv, Prepared
<1>6. Turned'
  BY <1>2 DEF Turned, InTurn
<1> QED BY <1>3, <1>4, <1>5, <1>6 DEF OInv

\* clearQueue({ forInterrupt }) and reset()
LEMMA InterruptOrder ==
  ASSUME OInv, ClearQueueForInterrupt \/ Reset
  PROVE  OInv'
<1>1. /\ queues' = [q \in Queue |-> <<>>] /\ claims' = [q \in Queue |-> NoClaim]
      /\ deliveries' = <<>> /\ liveSteered' = <<>> /\ UNCHANGED <<taking, order>>
  BY DEF ClearQueueForInterrupt, Reset, runVars
<1> QED BY <1>1, ClearedOrder

\* A run begins with nothing dequeued; a batch that is still prepared is late.
LEMMA BeginOrder ==
  ASSUME IInv, OInv, NEW r \in Run, NEW at \in {"open", "start"}, Begin(r, at)
  PROVE  OInv'
<1>0. TypeOK /\ Owned /\ Home /\ Prepared /\ Turned
  BY DEF IInv, OInv
<1>1. /\ controller = NoRun /\ controller' = r
      /\ loop' = [loop EXCEPT ![r] = [NewLoop EXCEPT !.at = at]]
      /\ stream' = [stream EXCEPT ![r] = <<>>]
      /\ UNCHANGED <<queues, claims, deliveries, liveSteered, taking, recorded, order, late>>
  BY DEF Begin, heldVars, histVars
<1>2. deliveries = <<>> /\ liveSteered = <<>>
  BY <1>0, <1>1, NothingDequeued, EmptyOf DEF TypeOK
<1>3. \A q \in Queue : /\ Mail(deliveries, q)' = <<>> /\ Back(q)' = <<>> /\ ToSet(<<>>) = {}
                       /\ Back(q) = <<>>
  BY <1>1, <1>2, NothingBack DEF Back
<1>4. \A q \in Queue : Peek(q)' = Peek(q) /\ Known(q)' = Known(q)
  BY <1>1 DEF Peek, Known, Back
<1>5. Home'
  BY <1>0, <1>1, <1>4, HomeShrinks
<1>6. Lanes'
  BY <1>3 DEF Lanes
<1>7. Prepared'
  <2>1. \A q \in Queue : claims[q] # NoClaim =>
          claims[q].by \in Proc /\ claims[q].by[1] # controller
    BY <1>0, <1>1, RunAssumption, ProcFacts DEF Prepared
  <2> QED BY <1>0, <1>1, <2>1 DEF Prepared
<1>8. Pipe(r)' = <<>>
  <2>1. stream'[r] = <<>> /\ loop'[r].held = <<>> /\ loop'[r].at # "respond"
    BY <1>0, <1>1 DEF TypeOK, NewLoop
  <2>2. Joined(<<>>, <<>>) = <<>>
    BY EmptySeq, JoinedFacts
  <2> QED BY <2>1, <2>2 DEF Pipe
<1>9. \A x, y : After(<<>>, x, y)
  BY EmptySeq DEF After
<1>10. ASSUME NEW q \in Queue PROVE InTurn(q)'
  <2>1. SUFFICES ASSUME NEW x \in Known(q), NEW y \in Msg \ late, Older(order[q], x, y)
        PROVE  /\ recorded[y] = 0
               /\ x \in ToSet(Back(q)) \/ After(Peek(q), x, y)
    BY <1>1, <1>3, <1>4, <1>8, <1>9 DEF InTurn
  <2>2. InTurn(q)
    BY <1>0 DEF Turned
  <2> QED BY <2>1, <2>2 DEF InTurn
<1> QED BY <1>5, <1>6, <1>7, <1>10 DEF OInv, Turned

-----------------------------------------------------------------------------
(* Order when an event is consumed *)

\* What is after the head stays after what is not the head; nothing comes before it.
LEMMA AfterTail ==
  ASSUME NEW X, NEW s \in Seq(X), s # <<>>
  PROVE  /\ ToSet(s) \ {Head(s)} \subseteq ToSet(Tail(s))
         /\ \A x, y : After(s, x, y) /\ x # Head(s) => After(Tail(s), x, y)
         /\ \A x : ~After(s, x, Head(s))
<1> DEFINE t == Tail(s)
<1>1. /\ t \in Seq(X) /\ Len(s) \in Nat \ {0} /\ Len(t) = Len(s) - 1
      /\ \A i \in 1..Len(t) : t[i] = s[i + 1]
      /\ Head(s) = s[1] /\ DOMAIN s = 1..Len(s)
  BY HeadTailProperties, EmptySeq, LenProperties DEF Head
<1> HIDE DEF t
<1>2. DOMAIN t = 1..Len(t)
  BY <1>1, LenProperties
<1>3. \A i \in DOMAIN s : i # 1 => i - 1 \in DOMAIN t /\ t[i - 1] = s[i]
  BY <1>1, <1>2
<1>4. ToSet(s) \ {Head(s)} \subseteq ToSet(t)
  <2>1. SUFFICES ASSUME NEW i \in DOMAIN s, s[i] # s[1] PROVE s[i] \in ToSet(t)
    BY <1>1 DEF ToSet
  <2>2. i - 1 \in DOMAIN t /\ t[i - 1] = s[i]
    BY <1>3, <2>1
  <2> QED BY <2>2 DEF ToSet
<1>5. ASSUME NEW x, NEW y, After(s, x, y), x # Head(s) PROVE After(t, x, y)
  <2>1. SUFFICES ASSUME NEW j \in DOMAIN t, t[j] = y PROVE \E i \in DOMAIN t : i < j /\ t[i] = x
    BY DEF After
  <2>2. j + 1 \in DOMAIN s /\ s[j + 1] = y /\ j \in Nat
    BY <1>1, <1>2, <2>1
  <2>3. PICK i \in DOMAIN s : i < j + 1 /\ s[i] = x
    BY <1>5, <2>2 DEF After
  <2>4. i - 1 \in DOMAIN t /\ t[i - 1] = x /\ i \in Nat
    BY <1>1, <1>3, <1>5, <2>3
  <2>5. i - 1 < j
    BY <2>2, <2>3, <2>4
  <2> QED BY <2>4, <2>5
<1>6. ASSUME NEW x PROVE ~After(s, x, Head(s))
  <2>1. 1 \in DOMAIN s /\ ~(\E i \in DOMAIN s : i < 1)
    BY <1>1
  <2> QED BY <1>1, <2>1 DEF After
<1> QED BY <1>4, <1>5, <1>6 DEF t

\* The run in charge passes the next event on, and this one is not pending any more.
LEMMA NextOrder ==
  ASSUME TypeOK, Accounts, Home, Lanes, Turned,
         controller \in Run, stream[controller] # <<>>, NEW h, h = Head(stream[controller]),
         stream' = [stream EXCEPT ![controller] = Tail(@)],
         UNCHANGED <<loop, live, controller, order, late>>,
         \A q \in Queue : /\ Peek(q)' = Peek(q) /\ h \notin ToSet(Peek(q))
                          /\ Thins(Back(q), Back(q)') /\ h \notin ToSet(Back(q)')
                          /\ ToSet(Mail(deliveries, q)') \subseteq ToSet(Mail(deliveries, q)) \ {h},
         \A y \in Msg : y # h => recorded'[y] = recorded[y]
  PROVE  Home' /\ Lanes' /\ Turned'
<1> PICK r \in Run : r = controller
  OBVIOUS
<1> DEFINE p == Pipe(r)
           s == stream[r]
<1>1. /\ p # <<>> /\ Head(p) = h /\ Pipe(r)' = Tail(p)
      /\ p \in Seq(Msg) /\ s \in Seq(Msg) /\ s # <<>> /\ Head(s) = h /\ stream'[r] = Tail(s)
  BY PipeHead, PipeFacts DEF TypeOK
<1>2. \A q \in Queue : h \notin Known(q)' /\ Known(q)' \subseteq Known(q)
  <2> TAKE q \in Queue
  <2>1. Known(q)' = ToSet(Peek(q)') \cup ToSet(Back(q)')
    BY DEF Known
  <2> QED BY <2>1 DEF Known, Thins
<1>3. Home'
  BY <1>2, HomeShrinks
<1> HIDE DEF p, s
<1>4. /\ ToSet(p) \ {h} \subseteq ToSet(Tail(p))
      /\ \A x, y : After(p, x, y) /\ x # h => After(Tail(p), x, y)
      /\ \A x : ~After(p, x, h)
  <2>1. p \in Seq(Msg) /\ p # <<>> /\ Head(p) = h
    BY <1>1
  <2>2. /\ ToSet(p) \ {Head(p)} \subseteq ToSet(Tail(p))
        /\ \A x, y : After(p, x, y) /\ x # Head(p) => After(Tail(p), x, y)
        /\ \A x : ~After(p, x, Head(p))
    BY <2>1, AfterTail
  <2> QED BY <2>1, <2>2
<1>5. ToSet(s) \ {h} \subseteq ToSet(Tail(s))
  BY <1>1, AfterTail
<1>6. Lanes'
  <2>1. SUFFICES ASSUME NEW q \in Queue
        PROVE  /\ loop[r].at # "ended" => ToSet(Back(q)') \subseteq ToSet(Tail(p))
               /\ loop[r].at = "respond" => ToSet(Mail(deliveries, q)') \subseteq ToSet(Tail(s))
    BY <1>1 DEF Lanes
  <2>2. ToSet(Back(q)') \subseteq ToSet(Back(q)) \ {h}
    BY DEF Thins
  <2>3. /\ loop[r].at # "ended" => ToSet(Back(q)) \subseteq ToSet(p)
        /\ loop[r].at = "respond" => ToSet(Mail(deliveries, q)) \subseteq ToSet(s)
    BY DEF Lanes, p, s
  <2>4. ToSet(Mail(deliveries, q)') \subseteq ToSet(Mail(deliveries, q)) \ {h}
    OBVIOUS
  <2> QED BY <1>4, <1>5, <2>2, <2>3, <2>4
<1>7. ASSUME NEW q \in Queue PROVE InTurn(q)'
  <2>1. InTurn(q) /\ Peek(q) \in Seq(Msg)
    BY KnownFacts DEF Turned
  <2>2. Thins(Peek(q), Peek(q)') /\ Thins(Back(q), Back(q)')
    BY <2>1, ThinsSome
  <2>3. \A x \in Known(q)', y \in ToSet(order[q]) :
          /\ After(Pipe(controller), x, y) => After(Pipe(controller)', x, y)
          /\ x \in ToSet(stream[controller]) => x \in ToSet(stream'[controller])
    BY <1>1, <1>2, <1>4, <1>5 DEF p, s
  <2>4. \A x \in Known(q)', y \in Msg :
          \/ recorded'[y] = 0 \/ recorded[y] # 0
          \/ controller \in Run /\ ~After(Pipe(controller), x, y)
    BY <1>4 DEF p
  <2>5. controller \in Run =>
          \A x \in Known(q)', y \in ToSet(order[q]) :
            /\ After(Pipe(controller), x, y) => After(Pipe(controller)', x, y)
            /\ x \in ToSet(stream[controller]) => x \in ToSet(stream'[controller])
    BY <2>3
  <2> QED BY <2>1, <2>2, <2>4, <2>5, InTurnShrinks
<1> QED BY <1>3, <1>6, <1>7 DEF Turned

\* What appendMessage(h) leaves dequeued is in the order it had, and h is gone.
LEMMA AppendThins ==
  ASSUME TypeOK, Accounts, NEW h \in Msg, AppendMessage(h), Dequeued(h)' = 0, NEW q \in Queue
  PROVE  /\ Thins(Back(q), Back(q)') /\ h \notin ToSet(Back(q)')
         /\ ToSet(Mail(deliveries, q)') \subseteq ToSet(Mail(deliveries, q)) \ {h}
<1> DEFINE a == IF q = "steering" THEN SteeredIn(liveSteered) ELSE <<>>
           b == IF q = "steering" THEN SteeredIn(liveSteered') ELSE <<>>
           m == Mail(deliveries, q)
           n == Mail(deliveries', q)
           S == {e \in ToSet(liveSteered) : e.msg = h}
<1>0. deliveries \in Seq(Delivery) /\ liveSteered \in Seq(Steering)
  BY DEF TypeOK
<1>1. /\ liveSteered' = Without(liveSteered, S)
      /\ deliveries' = deliveries \/ deliveries' = Left(deliveries, h)
  <2>1. Left(deliveries, h)
          = Without(Popped(deliveries, h), {d \in ToSet(Popped(deliveries, h)) : d.msgs = <<>>})
    BY <1>0, LeftIs
  <2> QED BY <2>1 DEF AppendMessage, SteeredBut
<1> HIDE DEF S
<1>2. deliveries' \in Seq(Delivery) /\ liveSteered' \in Seq(Steering)
  BY <1>0, <1>1, WithoutFacts, LeftFacts
<1>3. /\ SteeredIn(liveSteered) \in Seq(Msg) /\ SteeredIn(liveSteered') \in Seq(Msg)
      /\ m \in Seq(Msg) /\ n \in Seq(Msg) /\ <<>> \in Seq(Msg)
  BY <1>0, <1>2, SteerTimesFacts, MailFacts, EmptySeq
<1>4. a \in Seq(Msg) /\ b \in Seq(Msg)
  BY <1>3
<1>5. Back(q) = Joined(a, m) /\ Back(q)' = Joined(b, n)
  BY DEF Back, BackOf
<1>6. \A x \in Msg : Times(Joined(a, m), x) <= 1
  BY <1>5, Alone
<1>7. q = "steering" => a = SteeredIn(liveSteered) /\ b = SteeredIn(liveSteered')
  OBVIOUS
<1>8. q # "steering" => a = <<>> /\ b = <<>>
  OBVIOUS
<1>9. /\ m = Mail(deliveries, q) /\ n = Mail(deliveries', q)
  OBVIOUS
<1> HIDE DEF a, b, m, n
<1>10. ToSet(a) \cap ToSet(m) = {} /\ \A x \in Msg : Times(a, x) <= 1 /\ Times(m, x) <= 1
  <2>1. a \in Seq(Msg) /\ m \in Seq(Msg)
    BY <1>3, <1>4
  <2>2. /\ ToSet(a) \cap ToSet(m) = {}
        /\ \A x \in Msg : Times(a, x) <= 1 /\ Times(m, x) <= 1
    BY <1>6, <2>1, SharesNothing
  <2> QED BY <2>2
<1>11. Thins(a, b)
  <2>1. CASE q = "steering"
    <3>1. \A x \in Msg : Times(SteeredIn(liveSteered), x) <= 1
      BY <1>7, <1>10, <2>1
    <3>2. Thins(SteeredIn(liveSteered), SteeredIn(Without(liveSteered, S)))
      BY <1>0, <3>1, SteeringThins
    <3> QED BY <1>1, <1>7, <2>1, <3>2
  <2>2. CASE q # "steering"
    BY <1>3, <1>8, <2>2, ThinsSome
  <2> QED BY <2>1, <2>2
<1>12. Thins(m, n)
  <2>1. CASE deliveries' = deliveries
    BY <1>3, <1>9, <2>1, ThinsSome
  <2>2. CASE deliveries' = Left(deliveries, h)
    <3>1. \A x \in Msg : Times(Mail(deliveries, q), x) <= 1
      BY <1>9, <1>10
    <3>2. Thins(Mail(deliveries, q), Mail(Left(deliveries, h), q))
      BY <1>0, <3>1, MailThins
    <3> QED BY <1>9, <2>2, <3>2
  <2> QED BY <1>1, <2>1, <2>2
<1>13. Thins(Joined(a, m), Joined(b, n))
  BY <1>3, <1>4, <1>10, <1>11, <1>12, ThinsJoined
<1>14. h \notin ToSet(Joined(b, n))
  <2>1. /\ BackOf(deliveries', liveSteered', q) \in Seq(Msg)
        /\ Times(BackOf(deliveries', liveSteered', q), h) \in Nat
        /\ Times(BackOf(deliveries', liveSteered', q), h)
             <= BatchTimes(deliveries', h) + SteerTimes(liveSteered', h)
    BY <1>2, BackOfFacts
  <2>2. Dequeued(h)' = BatchTimes(deliveries', h) + SteerTimes(liveSteered', h)
    BY DEF Dequeued, BatchTimes, SteerTimes
  <2>3. BackOf(deliveries', liveSteered', q) = Joined(b, n)
    BY <1>5 DEF Back
  <2>4. ~(Times(BackOf(deliveries', liveSteered', q), h) > 0)
    BY <2>1, <2>2
  <2>5. h \in ToSet(BackOf(deliveries', liveSteered', q)) =>
          Times(BackOf(deliveries', liveSteered', q), h) > 0
    BY <2>1, TimesMember
  <2> QED BY <2>3, <2>4, <2>5
<1>15. ToSet(n) \subseteq ToSet(m) \ {h}
  <2>1. ToSet(Joined(b, n)) = ToSet(b) \cup ToSet(n)
    BY <1>3, <1>4, Members
  <2> QED BY <1>12, <1>14, <2>1 DEF Thins
<1> QED BY <1>5, <1>9, <1>13, <1>14, <1>15

\* Every case of Consume: a detached consumer, a withdrawn message, a recorded one.
LEMMA ConsumeOrder ==
  ASSUME IInv, OInv, NEW r \in Run, Consume(r)
  PROVE  OInv'
<1>0. TypeOK /\ Owned /\ Accounts /\ Home /\ Lanes /\ Prepared /\ Turned
  BY DEF IInv, OInv
<1>1. /\ UNCHANGED <<queues, claims, controller, taking, loop, live, order, late>>
      /\ stream[r] # <<>>
  BY DEF Consume, histVars
<1>2. \A q \in Queue : Peek(q)' = Peek(q)
  BY <1>1 DEF Peek
<1>3. Prepared'
  BY <1>0, <1>1 DEF Prepared
<1>4. CASE controller # r
  <2>1. UNCHANGED <<deliveries, liveSteered, recorded>> /\ stream' = [stream EXCEPT ![r] = <<>>]
    BY <1>4 DEF Consume
  <2>2. ASSUME controller \in Run
        PROVE  /\ \E a, b \in Seq(Msg) : Pipe(controller) = Joined(a, b) /\ Pipe(controller)' = a
               /\ ToSet(stream[controller]) \subseteq ToSet(stream'[controller])
               /\ \/ loop'[controller].at = "ended"
                  \/ /\ loop[controller].at # "ended"
                     /\ Pipe(controller)' = Pipe(controller)
                     /\ loop'[controller].at = "respond" =>
                          \/ loop[controller].at = "respond"
                          \/ ToSet(Pipe(controller)) \subseteq ToSet(stream'[controller])
    <3>1. stream'[controller] = stream[controller]
      BY <1>0, <1>4, <2>1, <2>2 DEF TypeOK
    <3>2. Pipe(controller)' = Pipe(controller)
      BY <1>1, <3>1 DEF Pipe
    <3>3. \E a, b \in Seq(Msg) : Pipe(controller) = Joined(a, b) /\ Pipe(controller)' = a
      <4>1. TypeOK /\ controller \in Run
        BY <1>0, <2>2
      <4> QED BY <1>1, <3>2, <4>1, SamePipe
    <3> QED BY <1>1, <3>1, <3>2, <3>3
  <2>3. Home' /\ Lanes' /\ Turned'
    BY <1>0, <1>1, <1>2, <2>1, <2>2, QuietOrder
  <2> QED BY <1>3, <2>3 DEF OInv
<1>5. CASE controller = r
  <2> PICK h : h = Head(stream[r])
    OBVIOUS
  <2>1. h \in Msg /\ stream' = [stream EXCEPT ![controller] = Tail(@)] /\ h = Head(stream[controller])
    BY <1>0, <1>1, <1>5, NextEvent DEF Consume
  <2>2. \A q \in Queue : /\ h \notin ToSet(Peek(q))
                         /\ Thins(Back(q), Back(q)') /\ h \notin ToSet(Back(q)')
                         /\ ToSet(Mail(deliveries, q)') \subseteq ToSet(Mail(deliveries, q)) \ {h}
    <3> TAKE q \in Queue
    <3>1. CASE withdrawn[h] = r
      <4>1. UNCHANGED <<deliveries, liveSteered>>
        BY <3>1 DEF Consume
      <4>2. h \in taken
        BY <1>0, <2>1, <3>1, RunAssumption DEF Accounts
      <4>3. h \notin ToSet(Peek(q)) /\ h \notin ToSet(Back(q))
        BY <1>0, <2>1, <4>2, Alone
      <4>4. Back(q) \in Seq(Msg) /\ ToSet(Mail(deliveries, q)) \subseteq ToSet(Back(q))
        BY <1>0, BackFacts
      <4>5. Back(q)' = Back(q) /\ Mail(deliveries, q)' = Mail(deliveries, q)
        BY <4>1 DEF Back
      <4> QED BY <4>3, <4>4, <4>5, ThinsSome
    <3>2. CASE withdrawn[h] # r
      <4>1. AppendMessage(h)
        BY <1>5, <3>2 DEF Consume
      <4>2. Queued(h) = 0 /\ Dequeued(h) <= 1
        BY <1>1, <1>5, <3>2, NextIsNew
      <4>3. Dequeued(h)' = 0
        <5>1. Pipe(r) \in Seq(Msg) /\ Pipe(r) # <<>> /\ Head(Pipe(r)) = h
          BY <1>0, <1>5, NextEvent
        <5>2. Pipe(controller) = Pipe(r) /\ controller \in Run
          BY <1>5
        <5> QED BY <1>0, <2>1, <4>1, <4>2, <5>1, <5>2, AppendFacts
      <4>4. h \notin ToSet(Peek(q))
        BY <1>0, <4>2, QueuedFacts
      <4> QED BY <1>0, <2>1, <4>1, <4>3, <4>4, AppendThins
    <3> QED BY <3>1, <3>2
  <2>3. \A y \in Msg : y # h => recorded'[y] = recorded[y]
    BY <1>0, <2>1 DEF Consume, AppendMessage, TypeOK
  <2>4. Home' /\ Lanes' /\ Turned'
    BY <1>0, <1>1, <1>2, <1>5, <2>1, <2>2, <2>3, NextOrder
  <2> QED BY <1>3, <2>4 DEF OInv
<1> QED BY <1>4, <1>5

-----------------------------------------------------------------------------
(* Order at the end of a run *)

\* What goes back when the run in charge is over is all that is dequeued, in its order.
LEMMA AllGoesBack ==
  ASSUME TypeOK, Owned, NEW r \in Run, controller = r, NEW q \in Queue
  PROVE  Undelivered(q, r) = Back(q)
<1> DEFINE E == {e \in ToSet(liveSteered) : e.run # r}
           A == {d \in ToSet(deliveries) : d.run # r \/ d.queue # q}
           B == {d \in Delivery : d.queue # q}
<1>0. deliveries \in Seq(Delivery) /\ liveSteered \in Seq(Steering)
  BY DEF TypeOK
<1>1. ToSet(liveSteered) \cap E = {}
  BY DEF Owned
<1>2. ToSet(deliveries) \cap A = ToSet(deliveries) \cap B
  <2>1. ToSet(deliveries) \subseteq Delivery
    BY <1>0, MembersFacts
  <2>2. \A d \in ToSet(deliveries) : d.run = r
    BY DEF Owned
  <2> QED BY <2>1, <2>2
<1>3. SteeredBy(r) = Without(liveSteered, E) /\ DequeuedBy(r, q) = Without(deliveries, A)
  BY DEF SteeredBy, DequeuedBy
<1>4. Mail(deliveries, q) = MessagesIn(Without(deliveries, B))
  BY DEF Mail
<1> HIDE DEF A, B, E
<1>5. Without(liveSteered, E) = liveSteered
  BY <1>0, <1>1, WithoutAllOrNothing
<1>6. Without(deliveries, A) = Without(deliveries, B)
  BY <1>0, <1>2, WithoutSame
<1> QED BY <1>3, <1>4, <1>5, <1>6 DEF Undelivered, Back, BackOf, Joined

\* What a batch held by the run that ends was claimed by is its pump, and the batch is late.
LEMMA LateClaims ==
  ASSUME TypeOK, Phases, Prepared, NEW r \in Run, controller = r, Finish(r), NEW q \in Queue
  PROVE  ToSet(claims[q].msgs) \subseteq late'
<1> DEFINE p == claims[q].by
<1>1. /\ loop[r].at = "ended"
      /\ late' = late \union
           UNION {ToSet(claims[u].msgs) : u \in {x \in Queue : claims[x].by = <<r, "live">>}}
  BY DEF Finish
<1>2. CASE claims[q] = NoClaim
  BY <1>2, NoClaimFacts, NothingBack
<1>3. CASE claims[q] # NoClaim
  <2>1. /\ p \in Proc /\ taking[p].step = "prepare"
        /\ p[1] = r \/ ToSet(claims[q].msgs) \subseteq late
    BY <1>3 DEF Prepared
  <2>2. CASE p = <<r, "loop">>
    BY <1>1, <2>1, <2>2 DEF Phases, RunPhase, PollSites
  <2>3. CASE p = <<r, "live">>
    BY <1>1, <2>3
  <2>4. CASE p[1] # r
    BY <1>1, <2>1, <2>4
  <2> QED BY <2>1, <2>2, <2>3, <2>4, ProcFacts
<1> QED BY <1>2, <1>3

\* What the run in charge dequeued goes back; a detached run has nothing.
LEMMA FinishOrder ==
  ASSUME IInv, OInv, NEW r \in Run, Finish(r)
  PROVE  OInv'
<1>0. TypeOK /\ Phases /\ Owned /\ Accounts /\ Home /\ Lanes /\ Prepared /\ Turned
  BY DEF IInv, OInv
<1>1. /\ queues' = [q \in Queue |-> Undelivered(q, r) \o queues[q]]
      /\ controller' = IF controller = r THEN NoRun ELSE controller
      /\ loop' = [loop EXCEPT ![r] = NewLoop]
      /\ stream[r] = <<>>
      /\ late \subseteq late'
      /\ UNCHANGED <<claims, taking, live, stream, recorded, order>>
  BY DEF Finish
<1>2. CASE controller # r
  <2>1. /\ deliveries' = deliveries /\ liveSteered' = liveSteered /\ controller' = controller
        /\ \A q \in Queue : Peek(q)' = Peek(q)
        /\ controller \in Run => Pipe(controller)' = Pipe(controller)
    BY <1>0, <1>2, FinishDetached
  <2>2. ASSUME controller \in Run
        PROVE  /\ \E a, b \in Seq(Msg) : Pipe(controller) = Joined(a, b) /\ Pipe(controller)' = a
               /\ ToSet(stream[controller]) \subseteq ToSet(stream'[controller])
               /\ \/ loop'[controller].at = "ended"
                  \/ /\ loop[controller].at # "ended"
                     /\ Pipe(controller)' = Pipe(controller)
                     /\ loop'[controller].at = "respond" =>
                          \/ loop[controller].at = "respond"
                          \/ ToSet(Pipe(controller)) \subseteq ToSet(stream'[controller])
    <3>1. loop'[controller] = loop[controller]
      BY <1>0, <1>1, <1>2, <2>2 DEF TypeOK
    <3>2. \E a, b \in Seq(Msg) : Pipe(controller) = Joined(a, b) /\ Pipe(controller)' = a
      <4>1. TypeOK /\ controller \in Run /\ Pipe(controller)' = Pipe(controller)
        BY <1>0, <2>1, <2>2
      <4> QED BY <2>1, <4>1, SamePipe
    <3> QED BY <1>1, <2>1, <2>2, <3>1, <3>2
  <2>3. Home' /\ Lanes' /\ Turned'
    BY <1>0, <1>1, <2>1, <2>2, QuietOrder
  <2>4. Prepared'
    BY <1>0, <1>1, <2>1, PreparedKept DEF Prepared
  <2> QED BY <2>3, <2>4 DEF OInv
<1>3. CASE controller = r
  <2>1. deliveries' = <<>> /\ liveSteered' = <<>> /\ controller' = NoRun /\ controller' \notin Run
    BY <1>0, <1>1, <1>3, AllRestored, RunAssumption
  <2>2. \A q \in Queue : ToSet(claims[q].msgs) \subseteq late'
    BY <1>0, <1>3, LateClaims
  <2>3. Prepared'
    BY <1>0, <1>1, <2>2 DEF Prepared
  <2>4. Lanes'
    BY <2>1 DEF Lanes
  <2>5. ASSUME NEW q \in Queue
        PROVE  /\ claims[q].msgs \in Seq(Msg) /\ queues[q] \in Seq(Msg) /\ Back(q) \in Seq(Msg)
               /\ Peek(q) = Joined(claims[q].msgs, queues[q])
               /\ Peek(q)' = Joined(claims[q].msgs, Joined(Back(q), queues[q]))
               /\ ToSet(Back(q)') = {}
    <3>1. /\ claims[q].msgs \in Seq(Msg) /\ queues[q] \in Seq(Msg) /\ Back(q) \in Seq(Msg)
          /\ Peek(q) = Joined(claims[q].msgs, queues[q])
      BY <1>0, QueueFacts, BackFacts
    <3>2. queues'[q] = Joined(Back(q), queues[q])
      <4>1. Undelivered(q, r) = Back(q)
        BY <1>0, <1>3, AllGoesBack
      <4> QED BY <1>1, <4>1 DEF Joined
    <3>3. Peek(q)' = Joined(claims[q].msgs, Joined(Back(q), queues[q]))
      BY <1>1, <3>2 DEF Peek, Joined
    <3>4. ToSet(Back(q)') = {}
      BY <2>1, NothingBack DEF Back
    <3> QED BY <3>1, <3>3, <3>4
  <2>6. Home'
    <3>1. \A q \in Queue : Known(q)' \subseteq Known(q)
      <4> TAKE q \in Queue
      <4> DEFINE c == claims[q].msgs
                 w == queues[q]
      <4>1. /\ c \in Seq(Msg) /\ w \in Seq(Msg) /\ Back(q) \in Seq(Msg)
            /\ Peek(q) = Joined(c, w) /\ Peek(q)' = Joined(c, Joined(Back(q), w))
            /\ ToSet(Back(q)') = {}
        BY <2>5
      <4> HIDE DEF c, w
      <4>2. Joined(Back(q), w) \in Seq(Msg)
        BY <4>1, JoinedFacts
      <4>3. /\ ToSet(Joined(c, Joined(Back(q), w))) = ToSet(c) \cup ToSet(Joined(Back(q), w))
            /\ ToSet(Joined(Back(q), w)) = ToSet(Back(q)) \cup ToSet(w)
            /\ ToSet(Joined(c, w)) = ToSet(c) \cup ToSet(w)
        BY <4>1, <4>2, Members
      <4>4. Known(q)' = ToSet(Peek(q)') \cup ToSet(Back(q)')
        BY DEF Known
      <4> QED BY <4>1, <4>3, <4>4 DEF Known
    <3> QED BY <1>0, <1>1, <3>1, HomeShrinks
  <2>7. ASSUME NEW q \in Queue PROVE InTurn(q)'
    <3>1. InTurn(q)
      BY <1>0 DEF Turned
    <3>2. ToSet(stream[controller]) = {} /\ controller \in Run
      BY <1>1, <1>3, EmptySeq, MembersFacts
    <3>3. /\ claims[q].msgs \in Seq(Msg) /\ queues[q] \in Seq(Msg)
          /\ Peek(q) = Joined(claims[q].msgs, queues[q])
          /\ Peek(q)' = Joined(claims[q].msgs, Joined(Back(q), queues[q]))
          /\ ToSet(Back(q)') = {}
      BY <2>5
    <3> QED BY <1>0, <1>1, <2>1, <2>2, <3>1, <3>2, <3>3, InTurnReturned
  <2> QED BY <2>3, <2>4, <2>6, <2>7 DEF OInv, Turned
<1> QED BY <1>2, <1>3

-----------------------------------------------------------------------------
(* The invariant of the order *)

\* Nothing has arrived.
LEMMA OrderStarts == Init => OInv
<1> SUFFICES ASSUME Init PROVE OInv
  OBVIOUS
<1>1. /\ queues = [q \in Queue |-> <<>>] /\ claims = [q \in Queue |-> NoClaim]
      /\ deliveries = <<>> /\ liveSteered = <<>> /\ order = [q \in Queue |-> <<>>]
      /\ controller \notin Run /\ taking = [p \in Proc |-> Idle]
  BY RunAssumption DEF Init
<1>2. \A q \in Queue : Known(q) = {} /\ ToSet(order[q]) = {}
  <2> TAKE q \in Queue
  <2>1. Back(q) = <<>> /\ ToSet(<<>>) = {}
    BY <1>1, NothingBack DEF Back
  <2>2. Peek(q) = Joined(<<>>, <<>>)
    BY <1>1 DEF Peek, NoClaim, Joined
  <2>3. Joined(<<>>, <<>>) = <<>>
    BY EmptySeq, JoinedFacts
  <2> QED BY <1>1, <2>1, <2>2, <2>3 DEF Known
<1>3. Home /\ Turned
  BY <1>2 DEF Home, Turned, InTurn
<1>4. Lanes
  BY <1>1 DEF Lanes
<1>5. Prepared
  <2>1. \A r \in Run : taking[<<r, "live">>].queue = "steering"
    BY <1>1 DEF Proc, Idle
  <2> QED BY <1>1, <2>1 DEF Prepared
<1> QED BY <1>3, <1>4, <1>5 DEF OInv

\* Every step keeps the order.
LEMMA OrderKept ==
  ASSUME IInv, OInv, [Next]_vars
  PROVE  OInv'
<1>1. ASSUME UserStep PROVE OInv'
  <2>1. ASSUME NEW q \in Queue, Post(q) PROVE OInv'
    BY <2>1, PostOrder
  <2>2. ASSUME NEW q \in Queue, NEW i \in Msg, TakeQueuedMessage(q, i) PROVE OInv'
    BY <2>2, TakeOrder
  <2>3. CASE PopLastQueuedMessage
    BY <2>3, PopLastOrder
  <2>4. ASSUME NEW i \in Msg, PromoteQueuedMessage(i) PROVE OInv'
    BY <2>4, PromoteOrder
  <2>5. CASE ClearQueue
    BY <2>5, ClearQueueOrder
  <2>6. CASE ClearQueueForInterrupt \/ Reset
    BY <2>6, InterruptOrder
  <2>7. CASE Abort
    <3>1. PICK r \in Run : r = controller
      BY <2>7 DEF Abort
    <3> QED BY <2>7, LoopOrder
  <2>8. ASSUME NEW r \in Run, Prompt(r) PROVE OInv'
    BY <2>8, BeginOrder DEF Prompt
  <2> QED BY <1>1, <2>1, <2>2, <2>3, <2>4, <2>5, <2>6, <2>7, <2>8 DEF UserStep
<1>2. ASSUME NEW r \in Run,
             \/ Continue(r) \/ RunStep(r) \/ TurnDeadline(r) \/ Boundary(r, TRUE) \/ Boundary(r, FALSE)
             \/ LiveClaim(r) \/ LiveStep(r)
             \/ Consume(r) \/ Finish(r)
      PROVE  OInv'
  <2>0. <<r, "loop">> \in Proc /\ <<r, "live">> \in Proc
    BY DEF Proc
  <2>1. CASE Continue(r)
    BY <2>1, BeginOrder DEF Continue
  <2>2. CASE Poll(r)
    BY <2>2, PollOrder
  <2>3. CASE AfterHooks(<<r, "loop">>) \/ AfterHooks(<<r, "live">>)
    BY <2>0, <2>3, HooksOrder
  <2>4. CASE AfterPrepare(<<r, "loop">>) \/ AfterPrepare(<<r, "live">>)
    BY <2>0, <2>4, PrepareOrder
  <2>5. CASE Turn(r) \/ RespondFails(r) \/ TurnDeadline(r) \/ Boundary(r, TRUE) \/ Boundary(r, FALSE)
               \/ LiveAck(r) \/ LiveClaim(r)
    BY <2>5, LoopOrder
  <2>6. CASE Consume(r)
    BY <2>6, ConsumeOrder
  <2>7. CASE Finish(r)
    BY <2>7, FinishOrder
  <2> QED BY <1>2, <2>1, <2>2, <2>3, <2>4, <2>5, <2>6, <2>7 DEF RunStep, LiveStep
<1>3. CASE UNCHANGED vars
  <2>0. TypeOK /\ Accounts /\ Home /\ Lanes /\ Prepared /\ Turned
    BY DEF IInv, OInv
  <2>1. UNCHANGED <<queues, claims, deliveries, liveSteered, controller, taking, recorded, order,
                    late, stream, loop, live>>
    BY <1>3 DEF vars, heldVars, runVars, histVars
  <2>2. \A q \in Queue : Peek(q)' = Peek(q)
    BY <2>1 DEF Peek
  <2>3. Home' /\ Lanes' /\ Turned'
    BY <2>0, <2>1, <2>2, StillOrder
  <2>4. Prepared'
    BY <2>0, <2>1 DEF Prepared
  <2> QED BY <2>3, <2>4 DEF OInv
<1> QED BY <1>1, <1>2, <1>3 DEF Next

\* The messages of a queue reach the transcript in the order they came, whatever claims,
\* restorations, edits and live steering come in between, but for a batch that a pump was
\* still preparing when its run was over (agent.ts 1060-1084, live-steering.ts 40-41).
THEOREM ArrivesInOrder == Spec => []ArrivalOrder
<1>1. IInv /\ OInv /\ [Next]_vars => OInv'
  BY OrderKept
<1>2. IInv /\ OInv => ArrivalOrder
  <2> SUFFICES ASSUME IInv, OInv, NEW q \in Queue,
                      NEW i \in DOMAIN order[q], NEW j \in DOMAIN order[q],
                      i < j, recorded[order[q][j]] > 0, order[q][j] \notin late,
                      order[q][i] \in Pending
               PROVE  FALSE
    BY DEF ArrivalOrder
  <2> DEFINE x == order[q][i]
             y == order[q][j]
  <2>1. TypeOK /\ Home /\ Turned
    BY DEF IInv, OInv
  <2>2. x \in ToSet(order[q]) /\ Older(order[q], x, y)
    BY DEF ToSet, Older
  <2>3. PICK u \in Queue : x \in Known(u)
    BY <2>1, PendingIsKnown
  <2>4. u = q
    BY <2>1, <2>2, <2>3 DEF Home
  <2>5. y \in Msg \ late
    <3>1. order[q] \in Seq(Msg)
      BY <2>1 DEF TypeOK
    <3> QED BY <3>1, ElementOfSeq
  <2>6. InTurn(q)
    BY <2>1 DEF Turned
  <2>7. recorded[y] = 0
    BY <2>2, <2>3, <2>4, <2>5, <2>6 DEF InTurn
  <2> QED BY <2>7
<1> QED BY <1>1, <1>2, OrderStarts, Invariant, PTL DEF Spec
=============================================================================
