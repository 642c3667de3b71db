---------------------------- MODULE FilterProofs ----------------------------
(***************************************************************************)
(* The laws of Without, and of the set of a sequence's elements.  They are *)
(* inductions: a set of sequences that has the empty one and is closed     *)
(* under Append has them all (SeqsAreBuilt), because a shortest sequence   *)
(* outside of it would have a shorter one before it.                       *)
(***************************************************************************)
EXTENDS Filter, Integers, SequencesExt, SequenceTheorems, WellFoundedInduction,
        NaturalsInduction, TLAPS

\* g is what the definition of Without recurs on, for the first n elements of s.
Fits(g, s, S, n) ==
  g = [i \in 0..n |-> IF i = 0 THEN <<>>
                      ELSE IF s[i] \in S THEN g[i - 1] ELSE Append(g[i - 1], s[i])]

\* A set of natural numbers that is not empty has a least one.
LEMMA Least ==
  ASSUME NEW T, T \subseteq Nat, T # {}
  PROVE  \E n \in T : \A k \in T : ~(k < n)
<1>1. \E n \in T : \A k \in T : ~(<<k, n>> \in OpToRel(<, Nat))
  BY NatLessThanWellFounded, WFMin
<1>2. PICK n \in T : \A k \in T : ~(<<k, n>> \in OpToRel(<, Nat))
  BY <1>1
<1>3. \A k \in T : ~(k < n)
  BY <1>2 DEF OpToRel
<1> QED BY <1>3

\* The recursion has a solution for every sequence.
LEMMA FitExists ==
  ASSUME NEW X, NEW s \in Seq(X), NEW S
  PROVE  \E g : Fits(g, s, S, Len(s))
<1> DEFINE T == {n \in 0..Len(s) : ~\E g : Fits(g, s, S, n)}
<1>0. Len(s) \in Nat
  BY LenProperties
<1>1. SUFFICES ASSUME T # {} PROVE FALSE
  BY <1>0
<1>2. T \subseteq Nat
  BY <1>0
<1>3. PICK n \in T : \A k \in T : ~(k < n)
  <2> HIDE DEF T
  <2> QED BY <1>1, <1>2, Least
<1>4. CASE n = 0
  <2>1. Fits([i \in 0..0 |-> <<>>], s, S, 0)
    BY DEF Fits
  <2> QED BY <1>3, <1>4, <2>1
<1>5. CASE n # 0
  <2>0. n \in 0..Len(s)
    BY <1>3
  <2>1. n - 1 \in 0..Len(s) /\ n \in Nat /\ n - 1 < n
    BY <1>0, <1>5, <2>0
  <2>2. n - 1 \notin T
    BY <1>3, <2>1
  <2>3. PICK g : Fits(g, s, S, n - 1)
    BY <2>1, <2>2
  <2> DEFINE h == [i \in 0..n |-> IF i < n THEN g[i]
                                  ELSE IF s[n] \in S THEN g[n - 1] ELSE Append(g[n - 1], s[n])]
             k == [i \in 0..n |-> IF i = 0 THEN <<>>
                      ELSE IF s[i] \in S THEN h[i - 1] ELSE Append(h[i - 1], s[i])]
  <2>4. ASSUME NEW i \in 0..n PROVE h[i] = k[i]
    <3>1. CASE i = n
      <4>1. i # 0 /\ h[i - 1] = g[n - 1]
        BY <3>1, <2>1, <1>5
      <4> QED BY <3>1, <4>1
    <3>2. CASE i # n /\ i # 0
      <4>1. i \in 0..(n - 1) /\ i - 1 \in 0..n /\ i < n /\ i - 1 < n
        BY <3>2, <2>1
      <4>2. h[i] = g[i] /\ h[i - 1] = g[i - 1]
        BY <4>1
      <4>3. g[i] = IF s[i] \in S THEN g[i - 1] ELSE Append(g[i - 1], s[i])
        BY <2>3, <4>1, <3>2 DEF Fits
      <4> QED BY <4>2, <4>3, <3>2
    <3>3. CASE i = 0
      <4>1. h[i] = g[0] /\ g[0] = <<>>
        BY <3>3, <2>3, <2>1, <1>5 DEF Fits
      <4> QED BY <3>3, <4>1
    <3> QED BY <3>1, <3>2, <3>3
  <2>5. h = k
    BY <2>4
  <2>6. Fits(h, s, S, n)
    BY <2>5 DEF Fits
  <2> QED BY <2>6, <1>3
<1> QED BY <1>4, <1>5

\* Without is the last value of a solution.
LEMMA WithoutIsFit ==
  ASSUME NEW X, NEW s \in Seq(X), NEW S
  PROVE  \E g : Fits(g, s, S, Len(s)) /\ Without(s, S) = g[Len(s)]
<1>1. PICK h : Fits(h, s, S, Len(s))
  BY FitExists
<1> DEFINE k == CHOOSE g : Fits(g, s, S, Len(s))
<1>2. Fits(k, s, S, Len(s))
  BY <1>1
<1>3. Without(s, S) = k[Len(s)]
  BY DEF Without, Fits
<1> QED BY <1>2, <1>3

\* Nothing is left of nothing.
LEMMA WithoutNone ==
  ASSUME NEW S
  PROVE  Without(<<>>, S) = <<>>
<1>0. <<>> \in Seq({}) /\ Len(<<>>) = 0
  BY EmptySeq
<1>1. PICK g : Fits(g, <<>>, S, Len(<<>>)) /\ Without(<<>>, S) = g[Len(<<>>)]
  BY <1>0, WithoutIsFit
<1> QED BY <1>0, <1>1 DEF Fits

\* Solutions agree as far as the sequences do.
LEMMA FitsAgree ==
  ASSUME NEW n \in Nat, NEW m \in Nat, m <= n, NEW s, NEW t, NEW S, NEW g, NEW h,
         Fits(g, s, S, m), Fits(h, t, S, n),
         \A i \in 1..m : s[i] = t[i]
  PROVE  g[m] = h[m]
<1> DEFINE T == {k \in 0..m : g[k] # h[k]}
<1>1. SUFFICES ASSUME T # {} PROVE FALSE
  OBVIOUS
<1>2. PICK k \in T : \A j \in T : ~(j < k)
  <2>1. T \subseteq Nat
    OBVIOUS
  <2> HIDE DEF T
  <2> QED BY <1>1, <2>1, Least
<1>3. k \in 0..m /\ g[k] # h[k]
  BY <1>2
<1>4. CASE k = 0
  BY <1>3, <1>4 DEF Fits
<1>5. CASE k # 0
  <2>1. k - 1 \in 0..m /\ k - 1 < k /\ k \in 1..m /\ k \in 0..n /\ k - 1 \in 0..n
    BY <1>3, <1>5
  <2>2. g[k - 1] = h[k - 1]
    BY <1>2, <2>1
  <2>3. g[k] = IF s[k] \in S THEN g[k - 1] ELSE Append(g[k - 1], s[k])
    BY <2>1, <1>5 DEF Fits
  <2>4. h[k] = IF t[k] \in S THEN h[k - 1] ELSE Append(h[k - 1], t[k])
    BY <2>1, <1>5 DEF Fits
  <2> QED BY <2>1, <2>2, <2>3, <2>4, <1>3
<1> QED BY <1>4, <1>5

\* The last element stays unless it is in S.
LEMMA WithoutAppend ==
  ASSUME NEW X, NEW s \in Seq(X), NEW e \in X, NEW S
  PROVE  Without(Append(s, e), S) = IF e \in S THEN Without(s, S) ELSE Append(Without(s, S), e)
<1> DEFINE t == Append(s, e)
           n == Len(s)
<1>0. /\ t \in Seq(X) /\ n \in Nat /\ Len(t) = n + 1
      /\ \A i \in 1..n : s[i] = t[i]
      /\ t[n + 1] = e
  BY AppendProperties, LenProperties
<1>1. PICK g : Fits(g, s, S, n) /\ Without(s, S) = g[n]
  BY WithoutIsFit
<1>2. PICK h : Fits(h, t, S, n + 1) /\ Without(t, S) = h[n + 1]
  BY <1>0, WithoutIsFit
<1> HIDE DEF n, t
<1>3. g[n] = h[n]
  BY <1>0, <1>1, <1>2, FitsAgree
<1>4. h[n + 1] = IF t[n + 1] \in S THEN h[n] ELSE Append(h[n], t[n + 1])
  <2>1. n + 1 \in 0..(n + 1) /\ n + 1 # 0 /\ (n + 1) - 1 = n
    BY <1>0
  <2> QED BY <1>2, <2>1 DEF Fits
<1> QED BY <1>0, <1>1, <1>2, <1>3, <1>4 DEF t
\* Induction on sequences, for a set of them.
LEMMA SeqsAreBuilt ==
  ASSUME NEW X, NEW Q, Q \subseteq Seq(X), <<>> \in Q,
         \A s \in Q, e \in X : Append(s, e) \in Q
  PROVE  Q = Seq(X)
<1> DEFINE T == {n \in Nat : \E s \in Seq(X) : Len(s) = n /\ s \notin Q}
<1>1. SUFFICES ASSUME T # {} PROVE FALSE
  BY LenProperties
<1>2. PICK n \in T : \A k \in T : ~(k < n)
  <2>1. T \subseteq Nat
    OBVIOUS
  <2> HIDE DEF T
  <2> QED BY <1>1, <2>1, Least
<1>3. PICK s \in Seq(X) : Len(s) = n /\ s \notin Q
  BY <1>2
<1>4. PICK p \in Seq(X), e \in X : s = Append(p, e)
  BY <1>3, SequenceEmptyOrAppend
<1>5. Len(p) = n - 1 /\ n - 1 \in Nat /\ n - 1 < n
  BY <1>3, <1>4, AppendProperties, LenProperties
<1>6. p \in Q
  <2>1. n - 1 \notin T
    BY <1>2, <1>5
  <2> QED BY <2>1, <1>5
<1> QED BY <1>3, <1>4, <1>6

\* The elements of what Append and \o build.
LEMMA MembersFacts ==
  ASSUME NEW X, NEW s \in Seq(X)
  PROVE  /\ ToSet(<<>>) = {}
         /\ ToSet(s) \subseteq X
         /\ \A e \in X : ToSet(Append(s, e)) = ToSet(s) \cup {e}
         /\ \A t \in Seq(X) : ToSet(s \o t) = ToSet(s) \cup ToSet(t)
         /\ \A e : Contains(s, e) <=> e \in ToSet(s)
<1>0. Len(s) \in Nat /\ DOMAIN s = 1..Len(s) /\ \A i \in 1..Len(s) : s[i] \in X
  BY LenProperties, ElementOfSeq
<1>1. ToSet(<<>>) = {}
  BY EmptySeq, LenProperties DEF ToSet
<1>2. ToSet(s) \subseteq X
  BY <1>0 DEF ToSet
<1>3. ASSUME NEW e \in X PROVE ToSet(Append(s, e)) = ToSet(s) \cup {e}
  <2>1. /\ DOMAIN Append(s, e) = 1..(Len(s) + 1)
        /\ \A i \in 1..Len(s) : Append(s, e)[i] = s[i]
        /\ Append(s, e)[Len(s) + 1] = e
    BY AppendProperties, LenProperties
  <2>2. 1..(Len(s) + 1) = (1..Len(s)) \cup {Len(s) + 1}
    BY <1>0
  <2> HIDE DEF ToSet
  <2> QED BY <1>0, <2>1, <2>2 DEF ToSet
<1>4. ASSUME NEW t \in Seq(X) PROVE ToSet(s \o t) = ToSet(s) \cup ToSet(t)
  <2>0. Len(t) \in Nat /\ DOMAIN t = 1..Len(t)
    BY LenProperties
  <2>1. /\ DOMAIN (s \o t) = 1..(Len(s) + Len(t))
        /\ \A i \in 1..(Len(s) + Len(t)) :
             (s \o t)[i] = IF i <= Len(s) THEN s[i] ELSE t[i - Len(s)]
    BY ConcatProperties, LenProperties
  <2>2. ASSUME NEW i \in DOMAIN s PROVE s[i] \in ToSet(s \o t)
    <3>1. i \in 1..(Len(s) + Len(t)) /\ i <= Len(s)
      BY <1>0, <2>0
    <3> QED BY <2>1, <3>1 DEF ToSet
  <2>3. ASSUME NEW i \in DOMAIN t PROVE t[i] \in ToSet(s \o t)
    <3>1. /\ Len(s) + i \in 1..(Len(s) + Len(t))
          /\ ~(Len(s) + i <= Len(s)) /\ (Len(s) + i) - Len(s) = i
      BY <1>0, <2>0
    <3>2. (s \o t)[Len(s) + i] = t[i]
      BY <2>1, <3>1
    <3> QED BY <2>1, <3>1, <3>2 DEF ToSet
  <2>4. ASSUME NEW i \in DOMAIN (s \o t) PROVE (s \o t)[i] \in ToSet(s) \cup ToSet(t)
    <3>1. CASE i <= Len(s)
      <4>1. i \in DOMAIN s
        BY <3>1, <2>1, <1>0, <2>0
      <4> QED BY <3>1, <4>1, <2>1 DEF ToSet
    <3>2. CASE ~(i <= Len(s))
      <4>1. i - Len(s) \in DOMAIN t
        BY <3>2, <2>1, <1>0, <2>0
      <4> QED BY <3>2, <4>1, <2>1 DEF ToSet
    <3> QED BY <3>1, <3>2
  <2> QED BY <2>2, <2>3, <2>4 DEF ToSet
<1>5. \A e : Contains(s, e) <=> e \in ToSet(s)
  BY <1>0 DEF Contains, ToSet
<1> QED BY <1>1, <1>2, <1>3, <1>4, <1>5

\* Concatenation under a name: the provers do not recognise two occurrences of \o.
Joined(s, t) == s \o t

LEMMA JoinedAppend ==
  ASSUME NEW X, NEW v \in Seq(X), NEW w \in Seq(X), NEW e \in X
  PROVE  Append(Joined(v, w), e) = Joined(v, Append(w, e))
<1> DEFINE u == Append(w, e)
           y == Joined(v, w)
           z == Joined(v, u)
           a == Append(y, e)
<1>1. Len(v) \in Nat /\ Len(w) \in Nat
  BY LenProperties
<1>2. /\ u \in Seq(X) /\ Len(u) = Len(w) + 1 /\ u[Len(w) + 1] = e
      /\ \A i \in 1..Len(w) : u[i] = w[i]
  BY AppendProperties
<1>3. /\ y \in Seq(X) /\ Len(y) = Len(v) + Len(w)
      /\ \A i \in 1..(Len(v) + Len(w)) : y[i] = IF i <= Len(v) THEN v[i] ELSE w[i - Len(v)]
  BY ConcatProperties DEF Joined
<1> HIDE DEF u, y
<1>4. /\ a \in Seq(X) /\ Len(a) = Len(y) + 1 /\ a[Len(y) + 1] = e
      /\ \A i \in 1..Len(y) : a[i] = y[i]
  BY <1>3, AppendProperties
<1>5. /\ z \in Seq(X) /\ Len(z) = Len(v) + Len(u)
      /\ \A i \in 1..(Len(v) + Len(u)) : z[i] = IF i <= Len(v) THEN v[i] ELSE u[i - Len(v)]
  BY <1>2, ConcatProperties DEF Joined
<1> HIDE DEF a, z, u, y
<1>6. ASSUME NEW i \in 1..(Len(v) + Len(w) + 1)
      PROVE  a[i] = z[i]
  <2>1. CASE i <= Len(v)
    <3>1. /\ i \in 1..Len(y) /\ i \in 1..(Len(v) + Len(u))
          /\ i \in 1..(Len(v) + Len(w))
      BY <2>1, <1>1, <1>2, <1>3
    <3> QED BY <2>1, <3>1, <1>3, <1>4, <1>5
  <2>2. CASE i > Len(v) /\ i <= Len(v) + Len(w)
    <3>1. i - Len(v) \in 1..Len(w) /\ i \in 1..Len(y) /\ i \in 1..(Len(v) + Len(u))
      BY <2>2, <1>1, <1>2, <1>3
    <3>2. a[i] = w[i - Len(v)]
      BY <2>2, <3>1, <1>1, <1>3, <1>4
    <3>3. ~(i <= Len(v))
      BY <2>2, <1>1
    <3>4. z[i] = u[i - Len(v)]
      BY <3>1, <3>3, <1>5
    <3>5. u[i - Len(v)] = w[i - Len(v)]
      BY <3>1, <1>2
    <3> QED BY <3>2, <3>4, <3>5
  <2>3. CASE i = Len(v) + Len(w) + 1
    BY <2>3, <1>1, <1>2, <1>3, <1>4, <1>5
  <2>4. i <= Len(v) \/ (i > Len(v) /\ i <= Len(v) + Len(w)) \/ i = Len(v) + Len(w) + 1
    BY <1>1
  <2> QED BY <2>1, <2>2, <2>3, <2>4
<1>7. Len(a) = Len(z) /\ \A i \in 1..Len(a) : a[i] = z[i]
  BY <1>1, <1>2, <1>3, <1>4, <1>5, <1>6
<1>8. a = z
  BY <1>4, <1>5, <1>7, SeqEqual
<1> QED BY <1>8 DEF a, z, u, y

\* What is left are the elements that are not in S.
LEMMA WithoutFacts ==
  ASSUME NEW X, NEW s \in Seq(X), NEW S
  PROVE  /\ Without(s, S) \in Seq(X)
         /\ ToSet(Without(s, S)) = ToSet(s) \ S
<1> DEFINE Q == {t \in Seq(X) : Without(t, S) \in Seq(X) /\ ToSet(Without(t, S)) = ToSet(t) \ S}
<1>1. <<>> \in Q
  <2>1. <<>> \in Seq(X) /\ ToSet(<<>>) = {}
    BY EmptySeq, MembersFacts
  <2>2. Without(<<>>, S) = <<>>
    BY WithoutNone
  <2> QED BY <2>1, <2>2
<1>2. ASSUME NEW t \in Q, NEW e \in X PROVE Append(t, e) \in Q
  <2>1. t \in Seq(X) /\ Without(t, S) \in Seq(X) /\ ToSet(Without(t, S)) = ToSet(t) \ S
    OBVIOUS
  <2>2. Append(t, e) \in Seq(X) /\ ToSet(Append(t, e)) = ToSet(t) \cup {e}
    BY <2>1, AppendProperties, MembersFacts
  <2>3. Without(Append(t, e), S) = IF e \in S THEN Without(t, S) ELSE Append(Without(t, S), e)
    BY <2>1, WithoutAppend
  <2>4. /\ Append(Without(t, S), e) \in Seq(X)
        /\ ToSet(Append(Without(t, S), e)) = ToSet(Without(t, S)) \cup {e}
    BY <2>1, AppendProperties, MembersFacts
  <2> QED BY <2>1, <2>2, <2>3, <2>4
<1>3. Q \subseteq Seq(X)
  OBVIOUS
<1>4. Q = Seq(X)
  <2> HIDE DEF Q
  <2> QED BY <1>1, <1>2, <1>3, SeqsAreBuilt
<1> QED BY <1>4

\* Filtering two parts filters the whole.
LEMMA WithoutJoined ==
  ASSUME NEW X, NEW s \in Seq(X), NEW t \in Seq(X), NEW S
  PROVE  Without(Joined(s, t), S) = Joined(Without(s, S), Without(t, S))
<1> DEFINE Q == {u \in Seq(X) : Without(Joined(s, u), S) = Joined(Without(s, S), Without(u, S))}
<1>0. Without(s, S) \in Seq(X)
  BY WithoutFacts
<1>1. <<>> \in Q
  <2>1. \A u \in Seq(X) : Joined(u, <<>>) = u
    BY ConcatEmptySeq DEF Joined
  <2>2. <<>> \in Seq(X) /\ Without(<<>>, S) = <<>>
    BY EmptySeq, WithoutNone
  <2> QED BY <1>0, <2>1, <2>2
<1>2. ASSUME NEW u \in Q, NEW e \in X PROVE Append(u, e) \in Q
  <2>1. /\ u \in Seq(X) /\ Without(u, S) \in Seq(X) /\ Append(u, e) \in Seq(X)
        /\ Joined(s, u) \in Seq(X)
        /\ Without(Joined(s, u), S) = Joined(Without(s, S), Without(u, S))
    BY WithoutFacts, AppendProperties, ConcatProperties DEF Joined
  <2>2. \A v \in Seq(X) : Without(Append(v, e), S) = IF e \in S THEN Without(v, S)
                                                    ELSE Append(Without(v, S), e)
    BY WithoutAppend
  <2>3. \A v, w \in Seq(X) : Append(Joined(v, w), e) = Joined(v, Append(w, e))
    BY JoinedAppend
  <2>4. Without(Joined(s, Append(u, e)), S) = IF e \in S THEN Without(Joined(s, u), S)
                                              ELSE Append(Without(Joined(s, u), S), e)
    BY <2>1, <2>2, <2>3
  <2>5. Without(Joined(s, Append(u, e)), S) = Joined(Without(s, S), Without(Append(u, e), S))
    <3>1. CASE e \in S
      BY <2>1, <2>2, <2>4, <3>1
    <3>2. CASE e \notin S
      <4>1. Append(Joined(Without(s, S), Without(u, S)), e)
              = Joined(Without(s, S), Append(Without(u, S), e))
        BY <1>0, <2>1, <2>3
      <4> QED BY <2>1, <2>2, <2>4, <3>2, <4>1
    <3> QED BY <3>1, <3>2
  <2> QED BY <2>1, <2>5
<1>3. Q \subseteq Seq(X)
  OBVIOUS
<1>4. Q = Seq(X)
  <2> HIDE DEF Q
  <2> QED BY <1>1, <1>2, <1>3, SeqsAreBuilt
<1> QED BY <1>4

\* Two filters are one.
LEMMA WithoutTwice ==
  ASSUME NEW X, NEW s \in Seq(X), NEW A, NEW B
  PROVE  Without(Without(s, A), B) = Without(s, A \cup B)
<1> DEFINE Q == {u \in Seq(X) : Without(Without(u, A), B) = Without(u, A \cup B)}
<1>1. <<>> \in Q
  BY EmptySeq, WithoutNone
<1>2. ASSUME NEW u \in Q, NEW e \in X PROVE Append(u, e) \in Q
  <2>1. /\ u \in Seq(X) /\ Without(u, A) \in Seq(X)
        /\ Without(Without(u, A), B) = Without(u, A \cup B)
    BY WithoutFacts
  <2>2. Append(u, e) \in Seq(X)
    BY <2>1, AppendProperties
  <2>3. Without(Append(u, e), A) = IF e \in A THEN Without(u, A) ELSE Append(Without(u, A), e)
    BY <2>1, WithoutAppend
  <2>4. Without(Append(u, e), A \cup B) =
          IF e \in A \cup B THEN Without(u, A \cup B) ELSE Append(Without(u, A \cup B), e)
    BY <2>1, WithoutAppend
  <2>5. Without(Append(Without(u, A), e), B) =
          IF e \in B THEN Without(Without(u, A), B) ELSE Append(Without(Without(u, A), B), e)
    <3>1. \A v \in Seq(X) : Without(Append(v, e), B) = IF e \in B THEN Without(v, B)
                                                       ELSE Append(Without(v, B), e)
      BY WithoutAppend
    <3> QED BY <2>1, <3>1
  <2> QED BY <2>1, <2>2, <2>3, <2>4, <2>5
<1>3. Q \subseteq Seq(X)
  OBVIOUS
<1>4. Q = Seq(X)
  <2> HIDE DEF Q
  <2> QED BY <1>1, <1>2, <1>3, SeqsAreBuilt
<1> QED BY <1>4

\* Only what is in the sequence matters.
LEMMA WithoutSame ==
  ASSUME NEW X, NEW s \in Seq(X), NEW A, NEW B, ToSet(s) \cap A = ToSet(s) \cap B
  PROVE  Without(s, A) = Without(s, B)
<1> DEFINE Q == {u \in Seq(X) : ToSet(u) \cap A = ToSet(u) \cap B => Without(u, A) = Without(u, B)}
<1>1. <<>> \in Q
  BY EmptySeq, WithoutNone
<1>2. ASSUME NEW u \in Q, NEW e \in X PROVE Append(u, e) \in Q
  <2>1. u \in Seq(X)
    OBVIOUS
  <2>2. Append(u, e) \in Seq(X) /\ ToSet(Append(u, e)) = ToSet(u) \cup {e}
    BY <2>1, AppendProperties, MembersFacts
  <2>3. \A S : Without(Append(u, e), S) = IF e \in S THEN Without(u, S) ELSE Append(Without(u, S), e)
    BY <2>1, WithoutAppend
  <2>4. SUFFICES ASSUME ToSet(Append(u, e)) \cap A = ToSet(Append(u, e)) \cap B
        PROVE  Without(Append(u, e), A) = Without(Append(u, e), B)
    BY <2>2
  <2>5. ToSet(u) \cap A = ToSet(u) \cap B /\ (e \in A <=> e \in B)
    BY <2>2, <2>4
  <2> QED BY <2>3, <2>5
<1>3. Q \subseteq Seq(X)
  OBVIOUS
<1>4. Q = Seq(X)
  <2> HIDE DEF Q
  <2> QED BY <1>1, <1>2, <1>3, SeqsAreBuilt
<1> QED BY <1>4

\* A filter may take everything or nothing.
LEMMA WithoutAllOrNothing ==
  ASSUME NEW X, NEW s \in Seq(X), NEW S
  PROVE  /\ ToSet(s) \subseteq S => Without(s, S) = <<>>
         /\ ToSet(s) \cap S = {} => Without(s, S) = s
<1> DEFINE Q == {u \in Seq(X) : Without(u, {}) = u}
<1>1. ToSet(s) \subseteq S => Without(s, S) = <<>>
  <2>1. Without(s, S) \in Seq(X) /\ ToSet(Without(s, S)) = ToSet(s) \ S
    BY WithoutFacts
  <2>2. ASSUME Without(s, S) # <<>> PROVE ToSet(Without(s, S)) # {}
    <3>1. PICK u \in Seq(X), e \in X : Without(s, S) = Append(u, e)
      BY <2>1, <2>2, SequenceEmptyOrAppend
    <3>2. ToSet(Append(u, e)) = ToSet(u) \cup {e}
      BY MembersFacts
    <3> QED BY <3>1, <3>2
  <2> QED BY <2>1, <2>2
<1>2. <<>> \in Q
  BY EmptySeq, WithoutNone
<1>3. ASSUME NEW u \in Q, NEW e \in X PROVE Append(u, e) \in Q
  BY WithoutAppend, AppendProperties
<1>4. Q \subseteq Seq(X)
  OBVIOUS
<1>5. Q = Seq(X)
  <2> HIDE DEF Q
  <2> QED BY <1>2, <1>3, <1>4, SeqsAreBuilt
<1>6. ASSUME ToSet(s) \cap S = {} PROVE Without(s, S) = s
  <2>1. Without(s, S) = Without(s, {})
    BY <1>6, WithoutSame
  <2> QED BY <2>1, <1>5
<1> QED BY <1>1, <1>6
=============================================================================
