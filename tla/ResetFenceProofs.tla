-------------------------- MODULE ResetFenceProofs --------------------------
(***************************************************************************)
(* Proofs about ResetFence, for any number of processes, credits, grants   *)
(* and block episodes and any times with Delay + Flight < Cooldown, which  *)
(* is TimeAssumption: a marker then outlasts the request it stands for,    *)
(* whoever dies.  The inductive invariant IInv relates the requests under  *)
(* way to the marker (Timing), the balance to what was spent and granted   *)
(* (Account), a plan to the balance it was made on (Plans), and what each  *)
(* session counts as recovery to what was spent (Recovered).               *)
(***************************************************************************)
EXTENDS ResetFence, TLAPS

PlanType == [episode : Int, expected : Int, lastTry : Int, seen : Int, spent : Int,
             grants : Int]
MarkerType == [state : {"none", "pending", "reset"}, at : Int]

MoreTypes ==
  /\ plan \in [Proc -> PlanType]
  /\ lastTry \in [Proc -> Int] /\ adopted \in [Proc -> Int] /\ restored \in [Proc -> Nat]
  /\ spent \in Nat /\ grants \in Nat /\ episode \in Int

\* A request is younger than Flight and was sent within Delay of the marker
\* that is still in the file; only the holder of the lock writes one.
Timing ==
  /\ \A r \in requests :
       /\ r.sent <= now /\ now <= r.sent + Flight
       /\ marker.at <= r.sent /\ r.sent <= marker.at + Delay
  /\ \A p \in Proc : pc[p] = "marked" => requests = {} /\ at[p] <= now /\ now <= at[p] + Delay
  /\ \A p \in Proc : pc[p] \in {"marked", "sent"} => marker = [state |-> "pending", at |-> at[p]]
  /\ \A p \in Proc : answer[p] # "none" => pc[p] = "sent" /\ requests = {}

Account == balance = MaxCredit + grants - spent

Plans ==
  \A p \in Proc :
    /\ pc[p] \notin {"idle", "looked"} =>
         /\ plan[p].expected = MaxCredit + plan[p].grants - plan[p].spent
         /\ plan[p].spent <= spent /\ plan[p].grants <= grants
    /\ pc[p] = "marked" /\ grants = plan[p].grants => spent = plan[p].spent

Recovered ==
  /\ RecoveredOnce
  /\ marker.state = "reset" =>
       spent > 0 /\ \A q \in Proc : marker.at > adopted[q] => restored[q] < spent
  /\ \A p \in Proc : answer[p] = "reset" => \A q \in Proc : restored[q] < spent

IInv ==
  /\ TypeOK /\ MoreTypes /\ OneRequestUnderWay /\ Timing
  /\ Account /\ Plans /\ NoOvertakenSpend /\ Recovered

-----------------------------------------------------------------------------
LEMMA InitIInv ==
  ASSUME Init
  PROVE  IInv
<1> USE TimeAssumption, BoundAssumption, ProcAssumption
<1>1. TypeOK
  BY DEF Init, TypeOK, Cleared, Long, Codes
<1>2. MoreTypes
  BY DEF Init, MoreTypes, PlanType, NoPlan, Long
<1>3. OneRequestUnderWay /\ Timing
  BY DEF Init, OneRequestUnderWay, Timing
<1>4. Account /\ Plans /\ NoOvertakenSpend
  BY DEF Init, Account, Plans, NoOvertakenSpend
<1>5. Recovered
  BY DEF Init, Recovered, RecoveredOnce, Cleared
<1> QED BY <1>1, <1>2, <1>3, <1>4, <1>5 DEF IInv

\* While a request is under way the marker in the file is recent.
LEMMA RequestsKeepMarkerRecent ==
  ASSUME TypeOK, Timing, requests # {}
  PROVE  Recent(marker)
<1>1. PICK r \in requests : TRUE
  OBVIOUS
<1>2. now \in Int /\ marker.at \in Int /\ r.sent \in Int
  BY <1>1 DEF TypeOK
<1> QED BY <1>1, <1>2, TimeAssumption DEF Timing, Recent

\* Only the holder of the lock is past it, and there is one.
LEMMA OneHolder ==
  ASSUME TypeOK, NEW p \in Proc, pc[p] \in {"fenced", "marked", "sent"}
  PROVE  lock = p /\ \A q \in Proc : q # p => pc[q] \notin {"fenced", "marked", "sent"}
  BY DEF TypeOK

\* An attempt that ends, or whose process dies, with or without a write to the
\* marker of the lock it holds.
LEMMA EndStep ==
  ASSUME IInv, NEW p \in Proc, pc[p] # "idle",
         pc' = [pc EXCEPT ![p] = "idle"], lock' = Freed(p), Forget(p),
         UNCHANGED <<now, accountVars, wasted>>,
         MoreTypes',
         \/ marker' = marker
         \/ marker' \in MarkerType /\ lock = p /\ requests = {},
         Recovered'
  PROVE  IInv'
<1> USE DEF accountVars
<1>1. TypeOK'
  <2>1. lock' \in Proc \union {NoProc}
    BY DEF IInv, TypeOK, Freed
  <2>2. \A q \in Proc : pc'[q] \in {"fenced", "marked", "sent"} <=> lock' = q
    BY ProcAssumption DEF IInv, TypeOK, Freed
  <2>3. at' \in [Proc -> Int] /\ answer' \in [Proc -> Codes] /\ marker' \in MarkerType
    BY TimeAssumption DEF IInv, TypeOK, Forget, Codes, Long, MarkerType
  <2>4. pc' \in [Proc -> {"idle", "looked", "planned", "waiting", "fenced", "marked", "sent"}]
    BY DEF IInv, TypeOK
  <2> QED BY <2>1, <2>2, <2>3, <2>4 DEF IInv, TypeOK, MarkerType
<1>2. OneRequestUnderWay'
  BY DEF IInv, OneRequestUnderWay
<1>3. Timing'
  <2>1. \A q \in Proc : q # p => pc'[q] = pc[q] /\ at'[q] = at[q] /\ answer'[q] = answer[q]
    BY DEF IInv, TypeOK, Forget
  <2>2. pc'[p] = "idle" /\ answer'[p] = "none"
    BY DEF IInv, TypeOK, Forget
  <2>3. ASSUME lock = p, NEW q \in Proc PROVE pc'[q] \notin {"fenced", "marked", "sent"}
    BY <2>1, <2>2, <2>3 DEF IInv, TypeOK
  <2> QED BY <2>1, <2>2, <2>3 DEF IInv, Timing
<1>4. Account' /\ NoOvertakenSpend'
  BY DEF IInv, Account, NoOvertakenSpend
<1>5. Plans'
  BY DEF IInv, TypeOK, MoreTypes, Plans, Forget
<1> QED BY <1>1, <1>2, <1>3, <1>4, <1>5 DEF IInv

\* What an attempt that ends leaves is well typed when the rest is.
LEMMA EndTypes ==
  ASSUME MoreTypes, NEW p \in Proc, Forget(p), UNCHANGED <<spent, grants, episode>>,
         lastTry' \in [Proc -> Int], adopted' \in [Proc -> Int], restored' \in [Proc -> Nat]
  PROVE  MoreTypes'
<1>1. NoPlan \in PlanType
  BY TimeAssumption DEF NoPlan, PlanType, Long
<1> QED BY <1>1 DEF MoreTypes, Forget

\* A session that takes over a recent reset of a peer.
LEMMA AdoptStep ==
  ASSUME IInv, NEW p \in Proc, Adopt(p), UNCHANGED <<spent, marker>>,
         \A q \in Proc : answer'[q] \in {answer[q], "none"}
  PROVE  /\ adopted' \in [Proc -> Int] /\ restored' \in [Proc -> Nat]
         /\ Recovered'
<1>0. TypeOK /\ MoreTypes /\ Recovered
  BY DEF IInv
<1>1. CASE Adoptable(p)
  <2>1. /\ adopted' = [adopted EXCEPT ![p] = marker.at]
        /\ restored' = [restored EXCEPT ![p] = @ + 1]
        /\ restored[p] < spent
    BY <1>0, <1>1 DEF Adopt, Adoptable, Recovered
  <2>2. adopted' \in [Proc -> Int] /\ restored' \in [Proc -> Nat]
    BY <1>0, <2>1 DEF TypeOK, MoreTypes
  <2>3. \A q \in Proc : answer[q] # "reset"
    BY <1>1 DEF IInv, Timing, Adoptable
  <2> QED BY <1>0, <2>1, <2>2, <2>3 DEF MoreTypes, TypeOK, Recovered, RecoveredOnce
<1>2. CASE ~Adoptable(p)
  BY <1>0, <1>2 DEF Adopt, MoreTypes, Recovered, RecoveredOnce
<1> QED BY <1>1, <1>2

\* A marker that says nothing of a reset keeps the recoveries as they were.
LEMMA NoAdoption ==
  ASSUME IInv, UNCHANGED <<spent, adopted, restored>>,
         marker' = marker \/ marker' = Cleared,
         \A q \in Proc : answer'[q] \in {answer[q], "none"}
  PROVE  Recovered'
  BY DEF IInv, Recovered, RecoveredOnce, Cleared

LEMMA ForgetsAnswer ==
  ASSUME TypeOK, NEW p \in Proc, Forget(p)
  PROVE  \A q \in Proc : answer'[q] \in {answer[q], "none"}
  BY DEF TypeOK, Forget

LEMMA ClearedType == Cleared \in MarkerType
  BY TimeAssumption DEF Cleared, MarkerType, Long

\* Without a grant, a balance that has not dropped is one no spend has touched.
LEMMA UntouchedBalance ==
  ASSUME NEW c \in Int, NEW g \in Int, NEW s \in Int, NEW t \in Int,
         s <= t, ~(c + g - t < c + g - s)
  PROVE  t = s
  OBVIOUS

\* A file that is not recent stands for no request.
LEMMA FencedIsFree ==
  ASSUME IInv, ~Recent(marker)
  PROVE  requests = {}
  BY RequestsKeepMarkerRecent DEF IInv

LEMMA NextIInv ==
  ASSUME IInv, Next
  PROVE  IInv'
<1>0. TypeOK /\ MoreTypes /\ Timing /\ Account /\ Plans /\ Recovered
  BY DEF IInv
<1> USE DEF fileVars, procVars, coordVars, accountVars
<1>1. ASSUME NEW p \in Proc, Look(p) PROVE IInv'
  <2>0. /\ pc[p] = "idle" /\ pc' = [pc EXCEPT ![p] = "looked"]
        /\ plan' = [plan EXCEPT ![p] = [episode |-> episode, expected |-> 0, lastTry |-> Long,
                                        seen |-> spent, spent |-> 0, grants |-> 0]]
        /\ UNCHANGED <<now, lock, marker, at, answer, lastTry, adopted, restored, requests,
                       balance, episode, spent, grants, wasted>>
    BY <1>1 DEF Look
  <2>1. TypeOK'
    BY <1>0, <2>0 DEF TypeOK
  <2>2. MoreTypes'
    <3>1. [episode |-> episode, expected |-> 0, lastTry |-> Long,
          seen |-> spent, spent |-> 0, grants |-> 0] \in PlanType
      BY <1>0, TimeAssumption DEF MoreTypes, PlanType, Long
    <3> QED BY <1>0, <2>0, <3>1 DEF MoreTypes
  <2>3. Timing'
    BY <1>0, <2>0 DEF TypeOK, Timing
  <2>4. Plans'
    BY <1>0, <2>0 DEF TypeOK, MoreTypes, Plans
  <2>5. Account' /\ Recovered' /\ OneRequestUnderWay' /\ NoOvertakenSpend'
    BY <2>0 DEF IInv, Account, Recovered, RecoveredOnce, OneRequestUnderWay, NoOvertakenSpend
  <2> QED BY <2>1, <2>2, <2>3, <2>4, <2>5 DEF IInv
<1>2. ASSUME NEW p \in Proc, Plan(p) PROVE IInv'
  <2>0. /\ pc[p] = "looked" /\ pc' = [pc EXCEPT ![p] = "planned"]
        /\ plan' = [plan EXCEPT ![p] = [episode |-> plan[p].episode, expected |-> balance,
                                        lastTry |-> Long, seen |-> plan[p].seen,
                                        spent |-> spent, grants |-> grants]]
        /\ UNCHANGED <<now, lock, marker, at, answer, lastTry, adopted, restored, requests,
                       balance, episode, spent, grants, wasted>>
    BY <1>2 DEF Plan
  <2>1. TypeOK'
    BY <1>0, <2>0 DEF TypeOK
  <2>2. MoreTypes'
    <3>1. [episode |-> plan[p].episode, expected |-> balance,
          lastTry |-> Long, seen |-> plan[p].seen,
          spent |-> spent, grants |-> grants] \in PlanType
      BY <1>0, TimeAssumption DEF TypeOK, MoreTypes, PlanType, Long
    <3> QED BY <1>0, <2>0, <3>1 DEF MoreTypes
  <2>3. Timing'
    BY <1>0, <2>0 DEF TypeOK, Timing
  <2>4. Plans'
    <3>1. plan'[p].expected = balance /\ plan'[p].spent = spent /\ plan'[p].grants = grants
      BY <1>0, <2>0 DEF MoreTypes, PlanType
    <3> QED BY <1>0, <2>0, <3>1 DEF TypeOK, MoreTypes, Account, Plans
  <2>5. Account' /\ Recovered' /\ OneRequestUnderWay' /\ NoOvertakenSpend'
    BY <2>0 DEF IInv, Account, Recovered, RecoveredOnce, OneRequestUnderWay, NoOvertakenSpend
  <2> QED BY <2>1, <2>2, <2>3, <2>4, <2>5 DEF IInv
<1>3. ASSUME NEW p \in Proc, AdoptRecentReset(p) PROVE IInv'
  <2>0. /\ pc[p] = "looked" /\ pc' = [pc EXCEPT ![p] = "idle"]
        /\ plan' = [plan EXCEPT ![p] = NoPlan]
        /\ Adopt(p) \/ UNCHANGED <<adopted, restored>>
        /\ UNCHANGED <<now, lock, marker, at, answer, lastTry, requests,
                       balance, episode, spent, grants, wasted>>
    BY <1>3 DEF AdoptRecentReset
  <2>1. adopted' \in [Proc -> Int] /\ restored' \in [Proc -> Nat] /\ Recovered'
    <3>1. CASE Adopt(p)
      BY <2>0, <3>1, AdoptStep
    <3>2. CASE UNCHANGED <<adopted, restored>>
      BY <1>0, <2>0, <3>2, NoAdoption DEF MoreTypes
    <3> QED BY <2>0, <3>1, <3>2
  <2>2. TypeOK' /\ Timing' /\ Plans'
    BY <1>0, <2>0 DEF TypeOK, Timing, Plans
  <2>3. MoreTypes'
    <3>1. NoPlan \in PlanType
      BY TimeAssumption DEF NoPlan, PlanType, Long
    <3> QED BY <1>0, <2>0, <2>1, <3>1 DEF MoreTypes
  <2>4. Account' /\ OneRequestUnderWay' /\ NoOvertakenSpend'
    BY <2>0 DEF IInv, Account, OneRequestUnderWay, NoOvertakenSpend
  <2> QED BY <2>1, <2>2, <2>3, <2>4 DEF IInv
<1>4. ASSUME NEW p \in Proc, Execute(p) PROVE IInv'
  <2>0. /\ pc[p] = "planned"
        /\ UNCHANGED <<now, lock, marker, at, answer, adopted, restored, requests,
                       balance, episode, spent, grants, wasted>>
    BY <1>4 DEF Execute
  <2>1. \/ /\ pc' = [pc EXCEPT ![p] = "waiting"]
           /\ plan' = [plan EXCEPT ![p].lastTry = lastTry[p]]
           /\ lastTry' = [lastTry EXCEPT ![p] = now]
        \/ /\ pc' = [pc EXCEPT ![p] = "idle"]
           /\ plan' = [plan EXCEPT ![p] = NoPlan]
           /\ lastTry' = lastTry
    BY <1>4 DEF Execute
  <2>2. TypeOK'
    BY <1>0, <2>0, <2>1 DEF TypeOK
  <2>3. MoreTypes'
    <3>1. NoPlan \in PlanType
      BY TimeAssumption DEF NoPlan, PlanType, Long
    <3>2. [plan[p] EXCEPT !.lastTry = lastTry[p]] \in PlanType
      BY <1>0 DEF MoreTypes, PlanType
    <3>3. plan' \in [Proc -> PlanType]
      BY <1>0, <2>1, <3>1, <3>2 DEF MoreTypes
    <3>4. lastTry' \in [Proc -> Int]
      BY <1>0, <2>1 DEF MoreTypes, TypeOK
    <3> QED BY <1>0, <2>0, <3>3, <3>4 DEF MoreTypes
  <2>4. Timing'
    BY <1>0, <2>0, <2>1 DEF TypeOK, Timing
  <2>5. Plans'
    <3>1. \A q \in Proc : pc'[q] \notin {"idle", "looked"} =>
            /\ pc[q] \notin {"idle", "looked"} /\ plan'[q].expected = plan[q].expected
            /\ plan'[q].spent = plan[q].spent /\ plan'[q].grants = plan[q].grants
      BY <1>0, <2>0, <2>1 DEF TypeOK, MoreTypes, PlanType
    <3>2. \A q \in Proc : pc'[q] = "marked" => pc[q] = "marked"
      BY <1>0, <2>0, <2>1 DEF TypeOK
    <3> QED BY <1>0, <2>0, <3>1, <3>2 DEF Plans
  <2>6. Account' /\ Recovered' /\ OneRequestUnderWay' /\ NoOvertakenSpend'
    BY <2>0 DEF IInv, Account, Recovered, RecoveredOnce, OneRequestUnderWay, NoOvertakenSpend
  <2> QED BY <2>2, <2>3, <2>4, <2>5, <2>6 DEF IInv
<1>5. ASSUME NEW p \in Proc, Acquire(p) PROVE IInv'
  <2>0. /\ pc[p] = "waiting" /\ lock = NoProc /\ lock' = p
        /\ pc' = [pc EXCEPT ![p] = "fenced"]
        /\ UNCHANGED <<now, marker, plan, at, answer, lastTry, adopted, restored, requests,
                       balance, episode, spent, grants, wasted>>
    BY <1>5 DEF Acquire
  <2>1. TypeOK'
    BY <1>0, <2>0, ProcAssumption DEF TypeOK
  <2>2. MoreTypes' /\ Timing' /\ Plans'
    BY <1>0, <2>0 DEF TypeOK, MoreTypes, Timing, Plans
  <2>3. Account' /\ Recovered' /\ OneRequestUnderWay' /\ NoOvertakenSpend'
    BY <2>0 DEF IInv, Account, Recovered, RecoveredOnce, OneRequestUnderWay, NoOvertakenSpend
  <2> QED BY <2>1, <2>2, <2>3 DEF IInv
<1>6. ASSUME NEW p \in Proc, AcquireFails(p) PROVE IInv'
  <2>1. Recovered'
    BY <1>0, <1>6, NoAdoption, ForgetsAnswer DEF AcquireFails, Conclude
  <2>2. MoreTypes'
    BY <1>0, <1>6, EndTypes DEF AcquireFails, Conclude, MoreTypes
  <2> QED BY <1>6, <2>1, <2>2, EndStep DEF AcquireFails, Conclude
<1>7. ASSUME NEW p \in Proc, SeeRecent(p) PROVE IInv'
  <2>1. adopted' \in [Proc -> Int] /\ restored' \in [Proc -> Nat] /\ Recovered'
    BY <1>0, <1>7, AdoptStep, ForgetsAnswer DEF SeeRecent, Conclude
  <2>2. MoreTypes'
    BY <1>0, <1>7, <2>1, EndTypes DEF SeeRecent, Conclude, MoreTypes
  <2> QED BY <1>7, <2>1, <2>2, EndStep DEF SeeRecent, Conclude
<1>8. ASSUME NEW p \in Proc, CheckBalance(p) PROVE IInv'
  <2>0. /\ pc[p] = "fenced" /\ lock = p /\ requests = {}
        /\ UNCHANGED <<now, lastTry, adopted, restored, requests, balance, episode,
                       spent, grants, wasted>>
    BY <1>0, <1>8, OneHolder, FencedIsFree DEF CheckBalance
  <2>1. ASSUME NEW keep, Conclude(p, keep), marker' \in {marker, Cleared} PROVE IInv'
    <3>1. Recovered'
      BY <1>0, <2>0, <2>1, NoAdoption, ForgetsAnswer DEF Conclude
    <3>2. MoreTypes'
      BY <1>0, <2>0, <2>1, EndTypes DEF Conclude, MoreTypes
    <3> QED BY <2>0, <2>1, <3>1, <3>2, EndStep, ClearedType DEF Conclude
  <2>2. CASE /\ ~Spent(p)
             /\ marker' = [state |-> "pending", at |-> now]
             /\ at' = [at EXCEPT ![p] = now]
             /\ pc' = [pc EXCEPT ![p] = "marked"]
             /\ UNCHANGED <<lock, plan, answer>>
    <3>1. TypeOK'
      BY <1>0, <2>0, <2>2 DEF TypeOK
    <3>2. MoreTypes'
      BY <1>0, <2>0, <2>2 DEF MoreTypes
    <3>3. Timing'
      <4>1. \A q \in Proc : q # p => pc'[q] \notin {"marked", "sent"} /\ answer'[q] = answer[q]
        BY <1>0, <2>0, <2>2, OneHolder DEF TypeOK
      <4>2. answer'[p] = "none" /\ at'[p] = now /\ pc'[p] = "marked"
        BY <1>0, <2>0, <2>2 DEF TypeOK, Timing
      <4>3. now \in Nat
        BY <1>0 DEF TypeOK
      <4> QED BY <1>0, <2>0, <2>2, <4>1, <4>2, <4>3, TimeAssumption DEF Timing
    <3>4. Plans'
      <4>1. /\ plan[p].spent \in Int /\ plan[p].grants \in Int /\ spent \in Int /\ grants \in Int
            /\ plan[p].expected = MaxCredit + plan[p].grants - plan[p].spent
            /\ plan[p].spent <= spent /\ plan[p].grants <= grants
        BY <1>0, <2>0 DEF MoreTypes, PlanType, Plans
      <4>2. ~(balance < plan[p].expected) /\ balance = MaxCredit + grants - spent
        BY <1>0, <2>2 DEF Spent, Account
      <4>3. grants = plan[p].grants => spent = plan[p].spent
        BY <4>1, <4>2, UntouchedBalance, BoundAssumption
      <4> QED BY <1>0, <2>0, <2>2, <4>3 DEF TypeOK, Plans
    <3>5. Recovered'
      BY <1>0, <2>0, <2>2 DEF Recovered, RecoveredOnce
    <3>6. Account' /\ OneRequestUnderWay' /\ NoOvertakenSpend'
      BY <2>0 DEF IInv, Account, OneRequestUnderWay, NoOvertakenSpend
    <3> QED BY <3>1, <3>2, <3>3, <3>4, <3>5, <3>6 DEF IInv
  <2> QED BY <1>8, <2>1, <2>2 DEF CheckBalance
<1>9. ASSUME NEW p \in Proc, Send(p) PROVE IInv'
  <2>0. /\ pc[p] = "marked" /\ requests = {} /\ lock = p
        /\ requests' = {[by |-> p, sent |-> now]}
        /\ pc' = [pc EXCEPT ![p] = "sent"] /\ answer' = [answer EXCEPT ![p] = "none"]
        /\ UNCHANGED <<now, lock, marker, plan, at, lastTry, adopted, restored,
                       balance, episode, spent, grants>>
    BY <1>0, <1>9, OneHolder DEF Send, Timing
  <2>1. TypeOK'
    BY <1>0, <2>0 DEF TypeOK, Codes
  <2>2. MoreTypes' /\ Account' /\ OneRequestUnderWay'
    BY <1>0, <2>0 DEF MoreTypes, Account, OneRequestUnderWay
  <2>3. Timing'
    <3>1. \A q \in Proc : q # p => pc'[q] \notin {"marked", "sent"} /\ answer'[q] = "none"
      BY <1>0, <2>0, OneHolder DEF TypeOK, Timing
    <3>2. answer'[p] = "none" /\ pc'[p] = "sent"
      BY <1>0, <2>0 DEF TypeOK
    <3>3. now \in Nat /\ at[p] \in Int /\ marker = [state |-> "pending", at |-> at[p]]
      BY <1>0, <2>0 DEF TypeOK, Timing
    <3> QED BY <1>0, <2>0, <3>1, <3>2, <3>3, TimeAssumption DEF Timing
  <2>4. Plans'
    BY <1>0, <2>0 DEF TypeOK, Plans
  <2>5. NoOvertakenSpend'
    BY <1>9 DEF IInv, Send, Plans, NoOvertakenSpend
  <2>6. Recovered'
    BY <1>0, <2>0 DEF TypeOK, Recovered, RecoveredOnce
  <2> QED BY <2>1, <2>2, <2>3, <2>4, <2>5, <2>6 DEF IInv
<1>10. ASSUME NEW p \in Proc, LeavePool(p) PROVE IInv'
  <2>0. lock = p /\ requests = {} /\ lastTry' \in [Proc -> Int]
    BY <1>0, <1>10, OneHolder DEF LeavePool, Timing, MoreTypes, PlanType
  <2>1. Recovered'
    BY <1>0, <1>10, NoAdoption, ForgetsAnswer DEF LeavePool, Conclude
  <2>2. MoreTypes'
    BY <1>0, <1>10, <2>0, EndTypes DEF LeavePool, Conclude, MoreTypes
  <2> QED BY <1>10, <2>0, <2>1, <2>2, EndStep, ClearedType DEF LeavePool, Conclude
<1>11. ASSUME NEW p \in Proc, Receive(p) PROVE IInv'
  <2>0. /\ pc[p] = "sent" /\ answer[p] # "none" /\ lock = p /\ requests = {}
        /\ Forget(p) /\ UNCHANGED <<lastTry, episode, spent, grants>>
        /\ at[p] \in Int /\ marker' = MarkerAfter(p, answer[p])
    BY <1>0, <1>11, OneHolder DEF Receive, Conclude, Timing, TypeOK
  <2>1. marker' \in MarkerType
    BY <1>0, <2>0, ClearedType DEF MarkerAfter, TypeOK, MarkerType
  <2>2. adopted' \in [Proc -> Int] /\ restored' \in [Proc -> Nat]
    BY <1>0, <1>11, <2>0 DEF Receive, OwnAdopted, MoreTypes
  <2>3. MoreTypes'
    BY <1>0, <2>0, <2>2, EndTypes DEF MoreTypes
  <2>4. Recovered'
    <3>1. CASE answer[p] = "reset"
      <4>1. /\ adopted' = [adopted EXCEPT ![p] = at[p]]
            /\ restored' = [restored EXCEPT ![p] = @ + 1]
            /\ marker' = [state |-> "reset", at |-> at[p]]
            /\ \A q \in Proc : restored[q] < spent
        BY <1>0, <1>11, <3>1 DEF Receive, OwnAdopted, MarkerAfter, Recovered
      <4>2. \A q \in Proc : answer'[q] = "none"
        BY <1>0, <2>0, OneHolder DEF TypeOK, Forget, Timing
      <4>3. spent > 0
        BY <1>0, <4>1 DEF MoreTypes
      <4> QED BY <1>0, <2>0, <4>1, <4>2, <4>3 DEF MoreTypes, Recovered, RecoveredOnce
    <3>2. CASE answer[p] # "reset"
      <4>1. marker' \in {marker, Cleared} /\ UNCHANGED <<adopted, restored>>
        BY <1>11, <2>0, <3>2 DEF Receive, OwnAdopted, MarkerAfter
      <4> QED BY <1>0, <2>0, <4>1, NoAdoption, ForgetsAnswer
    <3> QED BY <3>1, <3>2
  <2> QED BY <1>11, <2>0, <2>1, <2>3, <2>4, EndStep DEF Receive, Conclude
<1>12. ASSUME NEW p \in Proc, RedeemThrows(p) PROVE IInv'
  <2>0. lock = p /\ (marker' = marker \/ (marker' = Cleared /\ requests = {}))
    BY <1>0, <1>12, OneHolder DEF RedeemThrows, Timing
  <2>1. Recovered'
    BY <1>0, <1>12, <2>0, NoAdoption, ForgetsAnswer DEF RedeemThrows, Conclude
  <2>2. MoreTypes'
    BY <1>0, <1>12, EndTypes DEF RedeemThrows, Conclude, MoreTypes
  <2> QED BY <1>12, <2>0, <2>1, <2>2, EndStep, ClearedType DEF RedeemThrows, Conclude
<1>13. ASSUME NEW p \in Proc, Crash(p) PROVE IInv'
  <2>0. /\ Forget(p) /\ UNCHANGED <<episode, spent, grants>>
        /\ lastTry' = [lastTry EXCEPT ![p] = Long]
        /\ adopted' = [adopted EXCEPT ![p] = Long]
        /\ restored' = [restored EXCEPT ![p] = 0]
        /\ Long \in Int
    BY <1>13, TimeAssumption DEF Crash, Long
  <2>1. MoreTypes'
    BY <1>0, <2>0, EndTypes DEF MoreTypes
  <2>2. \/ marker' = marker
        \/ lock = p /\ requests = {} /\ marker' = Cleared
        \/ /\ lock = p /\ requests = {} /\ answer[p] = "reset"
           /\ marker' = [state |-> "reset", at |-> at[p]]
    BY <1>0, <1>13, OneHolder DEF Crash, Timing, MarkerAfter
  <2>3. \A q \in Proc : restored'[q] <= restored[q] /\ (q # p => adopted'[q] = adopted[q])
    BY <1>0, <2>0 DEF MoreTypes
  <2>4. Recovered'
    <3>1. CASE marker' = marker \/ marker' = Cleared
      BY <1>0, <2>0, <2>3, <3>1, ForgetsAnswer DEF MoreTypes, Recovered, RecoveredOnce, Cleared
    <3>2. CASE answer[p] = "reset"
      BY <1>0, <2>0, <2>3, <3>2, ForgetsAnswer DEF MoreTypes, Recovered, RecoveredOnce
    <3> QED BY <2>2, <3>1, <3>2
  <2>5. marker' = marker \/ (marker' \in MarkerType /\ lock = p /\ requests = {})
    BY <1>0, <2>2, ClearedType DEF TypeOK, MarkerType
  <2> QED BY <1>13, <2>0, <2>1, <2>4, <2>5, EndStep DEF Crash
<1>14. ASSUME NEW r \in requests, Handle(r) PROVE IInv'
  <2>0. /\ r.by \in Proc /\ requests = {r} /\ requests' = {}
        /\ UNCHANGED <<now, lock, marker, pc, plan, at, lastTry, adopted, restored,
                       episode, grants, wasted>>
    BY <1>0, <1>14 DEF Handle, IInv, OneRequestUnderWay, TypeOK
  <2>1. PICK code \in {"reset", "already_redeemed", "no_credit", "nothing_to_reset", "error"} :
          /\ code = "reset" => balance > 0
          /\ balance' = IF code = "reset" THEN balance - 1 ELSE balance
          /\ spent' = IF code = "reset" THEN spent + 1 ELSE spent
          /\ answer' = IF pc[r.by] = "sent" THEN [answer EXCEPT ![r.by] = code] ELSE answer
    BY <1>14 DEF Handle
  <2>2. TypeOK'
    BY <1>0, <2>0, <2>1 DEF TypeOK, Codes
  <2>3. MoreTypes' /\ Account'
    BY <1>0, <2>0, <2>1, BoundAssumption DEF TypeOK, MoreTypes, Account
  <2>4. Timing'
    BY <1>0, <2>0, <2>1 DEF TypeOK, Timing
  <2>5. Plans'
    <3>1. \A p \in Proc : pc[p] # "marked"
      BY <1>0, <2>0 DEF Timing
    <3>2. \A p \in Proc : plan[p].spent \in Int
      BY <1>0 DEF MoreTypes, PlanType
    <3> QED BY <1>0, <2>0, <2>1, <3>1, <3>2 DEF MoreTypes, Plans
  <2>6. Recovered'
    <3>1. CASE code = "reset"
      BY <1>0, <2>0, <2>1, <3>1 DEF TypeOK, MoreTypes, Recovered, RecoveredOnce
    <3>2. CASE code # "reset"
      BY <1>0, <2>0, <2>1, <3>2 DEF TypeOK, MoreTypes, Recovered, RecoveredOnce
    <3> QED BY <3>1, <3>2
  <2>7. OneRequestUnderWay' /\ NoOvertakenSpend'
    BY <2>0 DEF IInv, OneRequestUnderWay, NoOvertakenSpend
  <2> QED BY <2>2, <2>3, <2>4, <2>5, <2>6, <2>7 DEF IInv
<1>15. CASE NewEpisode
  <2>0. /\ episode' = episode + 1
        /\ UNCHANGED <<now, lock, marker, pc, plan, at, answer, lastTry, adopted, restored,
                       requests, balance, spent, grants, wasted>>
    BY <1>15 DEF NewEpisode
  <2> QED BY <2>0 DEF IInv, TypeOK, MoreTypes, OneRequestUnderWay, Timing, Account, Plans,
                      NoOvertakenSpend, Recovered, RecoveredOnce
<1>16. CASE Grant
  <2>0. /\ balance' = balance + 1 /\ grants' = grants + 1
        /\ UNCHANGED <<now, lock, marker, pc, plan, at, answer, lastTry, adopted, restored,
                       requests, episode, spent, wasted>>
    BY <1>16 DEF Grant
  <2>1. TypeOK' /\ MoreTypes' /\ Account'
    BY <1>0, <2>0, BoundAssumption DEF TypeOK, MoreTypes, Account
  <2>2. Plans'
    <3>1. \A p \in Proc : plan[p].grants \in Int
      BY <1>0 DEF MoreTypes, PlanType
    <3> QED BY <1>0, <2>0, <3>1 DEF MoreTypes, Plans, TypeOK
  <2>3. OneRequestUnderWay' /\ Timing' /\ NoOvertakenSpend' /\ Recovered'
    BY <2>0 DEF IInv, OneRequestUnderWay, Timing, NoOvertakenSpend, Recovered, RecoveredOnce
  <2> QED BY <2>1, <2>2, <2>3 DEF IInv
<1>17. CASE Tick
  <2>0. /\ now' = now + 1
        /\ \A r \in requests : now < r.sent + Flight
        /\ \A p \in Proc : pc[p] = "marked" => now < at[p] + Delay
        /\ UNCHANGED <<lock, marker, pc, plan, at, answer, lastTry, adopted, restored,
                       requests, balance, episode, spent, grants, wasted>>
    BY <1>17 DEF Tick
  <2>1. TypeOK' /\ MoreTypes'
    BY <1>0, <2>0 DEF TypeOK, MoreTypes
  <2>2. Timing'
    <3>1. now \in Nat /\ (\A r \in requests : r.sent \in Nat) /\ \A p \in Proc : at[p] \in Int
      BY <1>0 DEF TypeOK
    <3> QED BY <1>0, <2>0, <3>1, TimeAssumption DEF Timing
  <2>3. OneRequestUnderWay' /\ Account' /\ Plans' /\ NoOvertakenSpend' /\ Recovered'
    BY <2>0 DEF IInv, OneRequestUnderWay, Account, Plans, NoOvertakenSpend, Recovered, RecoveredOnce
  <2> QED BY <2>1, <2>2, <2>3 DEF IInv
<1> QED
  BY <1>1, <1>2, <1>3, <1>4, <1>5, <1>6, <1>7, <1>8, <1>9, <1>10, <1>11, <1>12, <1>13, <1>14,
     <1>15, <1>16, <1>17 DEF Next, Step

LEMMA StutterIInv ==
  ASSUME IInv, UNCHANGED vars
  PROVE  IInv'
  BY DEF IInv, TypeOK, MoreTypes, OneRequestUnderWay, Timing, Account, Plans, NoOvertakenSpend,
         Recovered, RecoveredOnce, vars, fileVars, procVars, coordVars, accountVars

THEOREM Invariance == Spec => []IInv
<1>1. IInv /\ [Next]_vars => IInv'
  BY NextIInv, StutterIInv
<1> QED BY <1>1, InitIInv, PTL DEF Spec

-----------------------------------------------------------------------------
(* Theorems *)

\* The state is well typed, and only the holder of the lock is past it.
THEOREM TypeCorrect == Spec => []TypeOK
<1>1. IInv => TypeOK
  BY DEF IInv
<1> QED BY <1>1, Invariance, PTL

\* With any number of processes that crash, time out and retry, one request at
\* a time may spend a reset of the account.
THEOREM OneRequestAtATime == Spec => []OneRequestUnderWay
<1>1. IInv => OneRequestUnderWay
  BY DEF IInv
<1> QED BY <1>1, Invariance, PTL

\* No request is sent on a balance that a spend has lowered since it was listed,
\* unless a credit was granted in between.
THEOREM NoSpendOnOvertakenBalance == Spec => []NoOvertakenSpend
<1>1. IInv => NoOvertakenSpend
  BY DEF IInv
<1> QED BY <1>1, Invariance, PTL

\* A session counts no reset as recovery twice.
THEOREM NoRecoveryTwice == Spec => []RecoveredOnce
<1>1. IInv => RecoveredOnce
  BY DEF IInv, Recovered
<1> QED BY <1>1, Invariance, PTL
=============================================================================
