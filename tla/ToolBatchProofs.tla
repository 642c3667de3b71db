-------------------------- MODULE ToolBatchProofs --------------------------
(***************************************************************************)
(* Proofs about ToolBatch, for every number of calls, every choice of      *)
(* exclusive and interruptible ones, and any number of pauses and posts.   *)
(* IInv adds to the types how far each task's result can be (Progress),    *)
(* that a task which has left the queue was let go by the calls before it  *)
(* (Started), and the shape of what has been emitted (Emission).           *)
(***************************************************************************)
EXTENDS ToolBatch, TLAPS, WellFoundedInduction

\* Before execute() is over a task has neither outcome nor result; a task that
\* ends without a result was a wait that never ran.
Progress ==
  \A i \in Call :
    /\ task[i] \in {"queued", "parked", "woken", "running"} =>
         settled[i] = "none" /\ result[i] = "none"
    /\ task[i] = "settled" => result[i] = "none"
    /\ task[i] = "probing" => result[i] # "none"
    /\ task[i] = "done" /\ result[i] = "none" => i \in waits /\ settled[i] = "none"

Started == \A i \in Call : task[i] # "queued" => Start(i)

FirstCalls(k) == [i \in 1..k |-> i]

Emission ==
  /\ \E k \in 0..NumCalls : emitted = FirstCalls(k)
  /\ ended => /\ emitted = FirstCalls(NumCalls)
              /\ \A i \in Call : task[i] = "done"

IInv ==
  TypeOK /\ Progress /\ Started /\ Emission /\ OnlyWaitsYield /\ FinishedWorkIsReported

-----------------------------------------------------------------------------
(* flushResultMessages *)

\* A nonempty set of naturals with a bound has a largest element.
LEMMA Largest ==
  ASSUME NEW n \in Nat, NEW S \in SUBSET (0..n), S # {}
  PROVE  \E k \in S : \A j \in S : j <= k
<1> DEFINE T == {n - j : j \in S}
<1>1. T \subseteq Nat /\ T # {}
  <2>1. \A j \in S : j \in 0..n /\ n - j \in Nat
    OBVIOUS
  <2>2. PICK j \in S : TRUE
    OBVIOUS
  <2>3. n - j \in T
    BY <2>2
  <2> QED BY <2>1, <2>3
<1>2. \E x \in T : \A y \in T : ~(<<y, x>> \in OpToRel(<, Nat))
  BY <1>1, NatLessThanWellFounded, WFMin
<1>3. PICK x \in T : \A y \in T : ~(<<y, x>> \in OpToRel(<, Nat))
  BY <1>2
<1>4. \A y \in T : ~(y < x)
  BY <1>1, <1>3 DEF OpToRel
<1>5. PICK k \in S : x = n - k
  BY <1>3
<1>6. \A j \in S : n - j \in T /\ ~(n - j < n - k)
  BY <1>4, <1>5
<1> QED BY <1>6

\* What is flushed is the calls up to some k, and up to the last when none is
\* without a result.
LEMMA FlushFacts ==
  ASSUME NEW res
  PROVE  /\ \E k \in 0..NumCalls : Flush(res) = FirstCalls(k)
         /\ (\A i \in Call : res[i] # "none") => Flush(res) = FirstCalls(NumCalls)
<1> DEFINE ready == {k \in 0..NumCalls : \A i \in 1..k : res[i] # "none"}
           last == CHOOSE k \in ready : \A j \in ready : j <= k
<1>0. NumCalls \in Nat
  BY CallsAssumption
<1>1. ready \in SUBSET (0..NumCalls) /\ 0 \in ready
  BY <1>0
<1>2. \E k \in ready : \A j \in ready : j <= k
  BY <1>0, <1>1, Largest
<1>3. last \in ready /\ \A j \in ready : j <= last
  BY <1>2
<1>4. Flush(res) = FirstCalls(last)
  BY DEF Flush, FirstCalls
<1>5. ASSUME \A i \in Call : res[i] # "none" PROVE last = NumCalls
  <2>1. NumCalls \in ready
    BY <1>0, <1>5 DEF Call
  <2> HIDE DEF last
  <2> QED BY <2>1, <1>0, <1>1, <1>3
<1> HIDE DEF last
<1> QED BY <1>1, <1>3, <1>4, <1>5

\* The calls up to k are a sequence of calls, each at its own place.
LEMMA FirstCallsFacts ==
  ASSUME NEW k \in 0..NumCalls
  PROVE  /\ FirstCalls(k) \in Seq(Call)
         /\ Len(FirstCalls(k)) = k
         /\ \A i \in DOMAIN FirstCalls(k) : FirstCalls(k)[i] = i
<1>0. NumCalls \in Nat /\ k \in Nat
  BY CallsAssumption
<1>1. FirstCalls(k) \in [1..k -> Call]
  BY <1>0 DEF FirstCalls, Call
<1>2. FirstCalls(k) \in Seq(Call)
  BY <1>0, <1>1
<1>3. Len(FirstCalls(k)) = k
  BY <1>0, <1>2 DEF FirstCalls
<1> QED BY <1>2, <1>3 DEF FirstCalls

-----------------------------------------------------------------------------
(* Types *)

\* The booleans of TypeOK, one by one.
LEMMA Booleans ==
  ASSUME TypeOK
  PROVE  /\ aborted \in BOOLEAN /\ cut \in BOOLEAN /\ ircCut \in BOOLEAN
         /\ triggered \in BOOLEAN /\ soft \in BOOLEAN /\ steering \in BOOLEAN
         /\ irc \in BOOLEAN /\ completion \in BOOLEAN /\ paused \in BOOLEAN
         /\ ended \in BOOLEAN /\ softInterrupts \in BOOLEAN
  BY DEF TypeOK

\* Detection leaves booleans, and the cooperative signal only when the
\* interrupt mode has one.
LEMMA DetectionTypes ==
  ASSUME TypeOK, CheckSteering \/ CheckAsides
  PROVE  /\ cut' \in BOOLEAN /\ ircCut' \in BOOLEAN
         /\ triggered' \in BOOLEAN /\ soft' \in BOOLEAN
         /\ soft' => softInterrupts
<1>0. soft => softInterrupts
  BY DEF TypeOK
<1>1. CASE CheckAsides
  BY <1>0, <1>1, Booleans DEF CheckAsides
<1>2. CASE CheckSteering
  BY <1>0, <1>1, <1>2, Booleans DEF CheckSteering
<1> QED BY <1>1, <1>2

\* A result goes out as part of the answered calls.
LEMMA EmitFacts ==
  ASSUME NEW i \in Call, NEW r, EmitToolResult(i, r)
  PROVE  /\ result' = [result EXCEPT ![i] = r]
         /\ \E k \in 0..NumCalls : emitted' = FirstCalls(k)
         /\ emitted' \in Seq(Call)
  BY FlushFacts, FirstCallsFacts DEF EmitToolResult

Results == {"none", "error", "aborted", "skipped", "outcome"}

\* What the gate leads to.
LEMMA PastGateFacts ==
  ASSUME TypeOK, NEW i \in Call, PastGate(i)
  PROVE  \/ /\ task' = [task EXCEPT ![i] = "running"] /\ ~Signalled(i)
            /\ UNCHANGED <<result, emitted>>
         \/ \E r \in {"error", "aborted"} :
              /\ task' = [task EXCEPT ![i] = "done"]
              /\ result' = [result EXCEPT ![i] = r]
              /\ \E k \in 0..NumCalls : emitted' = FirstCalls(k)
              /\ emitted' \in Seq(Call)
              /\ r = "aborted" => Signalled(i)
  BY EmitFacts DEF PastGate

\* A call reports one of the results.
LEMMA FinalResultFacts ==
  ASSUME NEW i \in Call
  PROVE  /\ FinalResult(i) \in {"skipped", "outcome", "error"}
         /\ FinalResult(i) = "skipped" => i \in waits
         /\ settled[i] = "returned" => FinalResult(i) = "outcome"
  BY DEF FinalResult

LEMMA TypeStep ==
  ASSUME TypeOK, Next
  PROVE  TypeOK'
<1> USE Booleans
<1>1. ASSUME NEW i \in Call, RunTool(i) PROVE TypeOK'
  BY <1>1, PastGateFacts DEF RunTool, TypeOK, kindVars, signalVars, inputVars, gateVars
<1>2. ASSUME NEW i \in Call, LeaveGate(i) PROVE TypeOK'
  BY <1>2, PastGateFacts DEF LeaveGate, TypeOK, kindVars, signalVars, inputVars, gateVars
<1>3. ASSUME NEW i \in Call, Report(i) PROVE TypeOK'
  <2>1. /\ result' = [result EXCEPT ![i] = FinalResult(i)] /\ emitted' \in Seq(Call)
        /\ FinalResult(i) \in Results
    BY <1>3, EmitFacts, FinalResultFacts DEF Report, Results
  <2> QED BY <1>3, <2>1 DEF Report, TypeOK, Results, kindVars, signalVars, inputVars, gateVars
<1>4. ASSUME NEW i \in Call, Probe(i) PROVE TypeOK'
  BY <1>4, DetectionTypes DEF Probe, TypeOK, kindVars, inputVars, gateVars
<1>5. ASSUME NEW i \in Call, NEW how \in {"returned", "threw"}, Settle(i, how) PROVE TypeOK'
  BY <1>5 DEF Settle, TypeOK, kindVars, signalVars, inputVars, gateVars
<1>6. CASE EndBatch
  <2>1. emitted' \in Seq(Call)
    BY <1>6, FlushFacts, FirstCallsFacts DEF EndBatch
  <2>2. result' \in [Call -> Results]
    BY <1>6 DEF EndBatch, TypeOK, Results
  <2> QED BY <1>6, <2>1, <2>2 DEF EndBatch, TypeOK, Results, kindVars, signalVars, inputVars, gateVars
<1>7. CASE Watch
  BY <1>7, DetectionTypes DEF Watch, TypeOK, kindVars, batchVars, inputVars, gateVars
<1>8. CASE WatchAgain
  BY <1>8 DEF WatchAgain, TypeOK, kindVars, batchVars, signalVars, inputVars, gateVars
<1>9. CASE Tick
  BY <1>9, DetectionTypes DEF Tick, TypeOK, kindVars, batchVars, inputVars, gateVars
<1>10. CASE Steer
  BY <1>10 DEF Steer, TypeOK, kindVars, batchVars, signalVars, gateVars
<1>11. CASE Unsteer
  BY <1>11, ZenonT(30) DEF Unsteer, TypeOK, kindVars, batchVars, signalVars, gateVars
<1>12. ASSUME NEW urgent \in BOOLEAN, Aside(urgent) PROVE TypeOK'
  BY <1>12 DEF Aside, TypeOK, kindVars, batchVars, signalVars, gateVars
<1>13. CASE Abort
  BY <1>13 DEF Abort, TypeOK, kindVars, batchVars, signalVars, inputVars, gateVars
<1>14. CASE Pause
  BY <1>14 DEF Pause, TypeOK, kindVars, batchVars, signalVars, inputVars
<1>15. CASE Resume
  BY <1>15, ZenonT(30) DEF Resume, TypeOK, kindVars, signalVars, inputVars
<1> QED
  BY <1>1, <1>2, <1>3, <1>4, <1>5, <1>6, <1>7, <1>8, <1>9, <1>10, <1>11, <1>12, <1>13, <1>14, <1>15
     DEF Next, TaskStep, Environment

-----------------------------------------------------------------------------
(* The inductive invariant *)

LEMMA InitIInv ==
  ASSUME Init
  PROVE  IInv
<1>0. NumCalls \in Nat
  BY CallsAssumption
<1>1. PICK b \in Batch : exclusive = b.exclusive /\ waits = b.waits
  BY DEF Init
<1>2. exclusive \subseteq Call /\ waits \subseteq Call
  BY <1>1, BatchAssumption
<1>3. FirstCalls(0) = <<>>
  BY DEF FirstCalls
<1>4. TypeOK
  <2>1. /\ task \in [Call -> {"queued"}] /\ settled \in [Call -> {"none"}]
        /\ result \in [Call -> {"none"}] /\ emitted \in Seq(Call)
    BY DEF Init
  <2>2. watch \in {"subscribe", "over"}
    BY DEF Init, Watched
  <2>3. /\ {aborted, cut, ircCut, triggered, soft, steering, irc, completion, paused, ended,
           softInterrupts} \subseteq BOOLEAN
        /\ ~soft
    BY DEF Init
  <2> QED BY <1>2, <2>1, <2>2, <2>3 DEF TypeOK
<1>5. Emission
  BY <1>0, <1>3 DEF Init, Emission
<1>6. Progress /\ Started /\ OnlyWaitsYield /\ FinishedWorkIsReported
  BY DEF Init, Progress, Started, OnlyWaitsYield, FinishedWorkIsReported
<1> QED BY <1>4, <1>5, <1>6 DEF IInv

\* A step that leaves the batch alone, and does not take back an abort.
LEMMA QuietStep ==
  ASSUME IInv, TypeOK', UNCHANGED batchVars, UNCHANGED kindVars, aborted => aborted'
  PROVE  IInv'
  BY DEF IInv, Progress, Started, Start, Emission, OnlyWaitsYield, FinishedWorkIsReported,
         batchVars, kindVars

\* The calls that are done stay done when another one moves, so what was let
\* go stays let go.
LEMMA StartedStep ==
  ASSUME TypeOK, Started, UNCHANGED kindVars,
         NEW i \in Call, NEW where, task' = [task EXCEPT ![i] = where],
         task[i] # "done", task[i] = "queued" => Start(i)
  PROVE  Started'
  BY DEF TypeOK, Started, Start, Call, kindVars

\* A call's task moves on without a result.
LEMMA MoveStep ==
  ASSUME IInv, TypeOK', UNCHANGED <<kindVars, settled, result, emitted, ended>>,
         aborted => aborted',
         NEW i \in Call, NEW where, task' = [task EXCEPT ![i] = where],
         task[i] # "done", task[i] = "queued" => Start(i),
         \/ /\ task[i] \in {"queued", "parked", "woken"}
            /\ where \in {"parked", "running"} \/ (where = "done" /\ i \in waits)
         \/ task[i] = "probing" /\ where = "done"
  PROVE  IInv'
<1>1. Started'
  BY StartedStep DEF IInv
<1>2. Progress'
  BY DEF IInv, TypeOK, Progress, kindVars
<1>3. Emission'
  BY DEF IInv, TypeOK, Emission
<1>4. OnlyWaitsYield' /\ FinishedWorkIsReported'
  BY DEF IInv, TypeOK, OnlyWaitsYield, FinishedWorkIsReported, kindVars
<1> QED BY <1>1, <1>2, <1>3, <1>4 DEF IInv

\* A call gets its result.
LEMMA ResultStep ==
  ASSUME IInv, TypeOK', UNCHANGED <<kindVars, settled, ended, aborted>>,
         NEW i \in Call, NEW r \in {"error", "aborted", "skipped", "outcome"},
         NEW where \in {"probing", "done"},
         task' = [task EXCEPT ![i] = where],
         result' = [result EXCEPT ![i] = r],
         \E k \in 0..NumCalls : emitted' = FirstCalls(k),
         task[i] # "done", task[i] = "queued" => Start(i),
         r \in {"skipped", "aborted"} => i \in waits \/ aborted,
         settled[i] = "returned" => r = "outcome"
  PROVE  IInv'
<1>1. Started'
  BY StartedStep DEF IInv
<1>2. Progress'
  BY DEF IInv, TypeOK, Progress, kindVars
<1>3. Emission'
  BY DEF IInv, TypeOK, Emission
<1>4. OnlyWaitsYield' /\ FinishedWorkIsReported'
  BY DEF IInv, TypeOK, OnlyWaitsYield, FinishedWorkIsReported, kindVars
<1> QED BY <1>1, <1>2, <1>3, <1>4 DEF IInv

LEMMA NextIInv ==
  ASSUME IInv, Next
  PROVE  IInv'
<1>0. TypeOK /\ TypeOK' /\ Progress /\ Started
  BY TypeStep DEF IInv
<1> USE <1>0
<1>1. ASSUME NEW i \in Call, RunTool(i) PROVE IInv'
  <2>0. /\ task[i] = "queued" /\ Start(i)
        /\ UNCHANGED <<kindVars, settled, ended, aborted>>
        /\ settled[i] = "none"
    BY <1>1 DEF RunTool, Progress
  <2>1. CASE /\ Preempted(i) /\ task' = [task EXCEPT ![i] = "done"]
             /\ UNCHANGED <<result, emitted>>
    BY <2>0, <2>1, MoveStep DEF Preempted
  <2>2. CASE task' = [task EXCEPT ![i] = "parked"] /\ UNCHANGED <<result, emitted>>
    BY <2>0, <2>2, MoveStep
  <2>3. CASE PastGate(i)
    <3>1. CASE task' = [task EXCEPT ![i] = "running"] /\ UNCHANGED <<result, emitted>>
      BY <2>0, <3>1, MoveStep
    <3>2. CASE \E r \in {"error", "aborted"} :
                 /\ task' = [task EXCEPT ![i] = "done"]
                 /\ result' = [result EXCEPT ![i] = r]
                 /\ \E k \in 0..NumCalls : emitted' = FirstCalls(k)
                 /\ r = "aborted" => Signalled(i)
      BY <2>0, <3>2, ResultStep DEF Signalled
    <3> QED BY <2>3, <3>1, <3>2, PastGateFacts
  <2> QED BY <1>1, <2>1, <2>2, <2>3 DEF RunTool
<1>2. ASSUME NEW i \in Call, LeaveGate(i) PROVE IInv'
  <2>0. /\ task[i] \in {"parked", "woken"}
        /\ UNCHANGED <<kindVars, settled, ended, aborted>>
        /\ settled[i] = "none"
    BY <1>2 DEF LeaveGate, Roused, Progress
  <2>1. CASE task' = [task EXCEPT ![i] = "parked"] /\ UNCHANGED <<result, emitted>>
    BY <2>0, <2>1, MoveStep
  <2>2. CASE PastGate(i)
    <3>1. CASE task' = [task EXCEPT ![i] = "running"] /\ UNCHANGED <<result, emitted>>
      BY <2>0, <3>1, MoveStep
    <3>2. CASE \E r \in {"error", "aborted"} :
                 /\ task' = [task EXCEPT ![i] = "done"]
                 /\ result' = [result EXCEPT ![i] = r]
                 /\ \E k \in 0..NumCalls : emitted' = FirstCalls(k)
                 /\ r = "aborted" => Signalled(i)
      BY <2>0, <3>2, ResultStep DEF Signalled
    <3> QED BY <2>2, <3>1, <3>2, PastGateFacts
  <2> QED BY <1>2, <2>1, <2>2 DEF LeaveGate
<1>3. ASSUME NEW i \in Call, Report(i) PROVE IInv'
  <2>1. /\ task[i] = "settled" /\ task' = [task EXCEPT ![i] = "probing"]
        /\ UNCHANGED <<kindVars, settled, ended, aborted>>
        /\ result' = [result EXCEPT ![i] = FinalResult(i)]
        /\ \E k \in 0..NumCalls : emitted' = FirstCalls(k)
    BY <1>3, EmitFacts DEF Report
  <2> QED BY <2>1, FinalResultFacts, ResultStep
<1>4. ASSUME NEW i \in Call, Probe(i) PROVE IInv'
  BY <1>4, MoveStep DEF Probe
<1>5. ASSUME NEW i \in Call, NEW how \in {"returned", "threw"}, Settle(i, how) PROVE IInv'
  <2>0. /\ task[i] = "running" /\ task' = [task EXCEPT ![i] = "settled"]
        /\ settled' = [settled EXCEPT ![i] = how] /\ result[i] = "none"
        /\ UNCHANGED <<kindVars, result, emitted, ended, aborted>>
    BY <1>5 DEF Settle, Progress
  <2>1. Started'
    BY <2>0, StartedStep
  <2>2. Progress'
    BY <2>0 DEF TypeOK, Progress, kindVars
  <2>3. Emission'
    BY <2>0 DEF IInv, TypeOK, Emission
  <2>4. OnlyWaitsYield' /\ FinishedWorkIsReported'
    BY <2>0 DEF IInv, TypeOK, OnlyWaitsYield, FinishedWorkIsReported, kindVars
  <2> QED BY <2>1, <2>2, <2>3, <2>4 DEF IInv
<1>6. CASE EndBatch
  <2>0. /\ \A i \in Call : task[i] = "done"
        /\ result' = [i \in Call |-> IF result[i] = "none" THEN "skipped" ELSE result[i]]
        /\ emitted' = Flush(result') /\ ended'
        /\ UNCHANGED <<kindVars, task, settled, aborted>>
    BY <1>6 DEF EndBatch
  <2>1. \A i \in Call : result'[i] # "none"
    BY <2>0
  <2>2. Emission'
    BY <2>0, <2>1, FlushFacts, CallsAssumption DEF Emission
  <2>3. Progress' /\ Started'
    BY <2>0, <2>1 DEF Progress, Started, Start, kindVars
  <2>4. OnlyWaitsYield' /\ FinishedWorkIsReported'
    BY <2>0 DEF IInv, Progress, OnlyWaitsYield, FinishedWorkIsReported, kindVars
  <2> QED BY <2>2, <2>3, <2>4 DEF IInv
<1>7. CASE Watch \/ Tick
  BY <1>7, QuietStep DEF Watch, Tick
<1>8. CASE WatchAgain
  BY <1>8, QuietStep DEF WatchAgain
<1>9. CASE Steer \/ Unsteer \/ Pause
  BY <1>9, QuietStep DEF Steer, Unsteer, Pause
<1>10. ASSUME NEW urgent \in BOOLEAN, Aside(urgent) PROVE IInv'
  BY <1>10, QuietStep DEF Aside
<1>11. CASE Abort
  BY <1>11, QuietStep DEF Abort
<1>12. CASE Resume
  <2>0. /\ task' = [i \in Call |-> IF task[i] = "parked" THEN "woken" ELSE task[i]]
        /\ ~ended /\ UNCHANGED <<kindVars, settled, result, emitted, ended, aborted>>
    BY <1>12 DEF Resume
  <2>1. Progress'
    BY <2>0 DEF TypeOK, Progress, kindVars
  <2>2. Started'
    <3>1. \A i \in Call : /\ task[i] = "done" => task'[i] = "done"
                          /\ task'[i] # "queued" => task[i] # "queued"
      BY <2>0
    <3>2. \A i \in Call : \A j \in 1..(i - 1) : j \in Call
      BY CallsAssumption DEF Call
    <3> QED BY <2>0, <3>1, <3>2 DEF Started, Start, kindVars
  <2>3. Emission' /\ OnlyWaitsYield' /\ FinishedWorkIsReported'
    BY <2>0 DEF IInv, Emission, OnlyWaitsYield, FinishedWorkIsReported, kindVars
  <2> QED BY <2>1, <2>2, <2>3 DEF IInv
<1> QED
  BY <1>1, <1>2, <1>3, <1>4, <1>5, <1>6, <1>7, <1>8, <1>9, <1>10, <1>11, <1>12
     DEF Next, TaskStep, Environment

LEMMA StutterIInv ==
  ASSUME IInv, UNCHANGED vars
  PROVE  IInv'
  BY DEF IInv, TypeOK, Progress, Started, Start, Emission, OnlyWaitsYield,
         FinishedWorkIsReported, vars, kindVars, batchVars, signalVars, inputVars, gateVars

THEOREM Invariance == Spec => []IInv
<1>1. IInv /\ [Next]_vars => IInv'
  BY NextIInv, StutterIInv
<1> QED BY <1>1, InitIInv, PTL DEF Spec

-----------------------------------------------------------------------------
(* Theorems *)

\* The state of a batch is well typed.
THEOREM TypeCorrect == Spec => []TypeOK
<1>1. IInv => TypeOK
  BY DEF IInv
<1> QED BY <1>1, Invariance, PTL

\* In a batch of any size an exclusive call runs alone: of two calls the later
\* one was let go with the earlier one done, if either is exclusive.
THEOREM ExclusiveCallsRunAlone == Spec => []ExclusiveRunsAlone
<1>1. ASSUME TypeOK, Started PROVE ExclusiveRunsAlone
  <2> SUFFICES ASSUME NEW i \in Running, NEW j \in Running, i \in exclusive, i # j
               PROVE  FALSE
    BY DEF ExclusiveRunsAlone
  <2>0. /\ i \in Call /\ j \in Call /\ i \in Int /\ j \in Int
        /\ task[i] \in {"running", "settled"} /\ task[j] \in {"running", "settled"}
        /\ Start(i) /\ Start(j)
    BY <1>1, CallsAssumption DEF Running, Started, Call
  <2>1. CASE j < i
    BY <2>0, <2>1 DEF Start, Call
  <2>2. CASE i < j
    BY <2>0, <2>2 DEF Start, Call
  <2> QED BY <2>0, <2>1, <2>2
<1>2. IInv => ExclusiveRunsAlone
  BY <1>1 DEF IInv
<1> QED BY <1>2, Invariance, PTL

\* A provider gets the results of a batch in the order of its calls, and all of
\* them when the batch is over.
THEOREM CallsAreAnsweredInOrder == Spec => []AnsweredInOrder
<1>1. Emission => AnsweredInOrder
  BY FirstCallsFacts, CallsAssumption DEF Emission, AnsweredInOrder
<1>2. IInv => AnsweredInOrder
  BY <1>1 DEF IInv
<1> QED BY <1>2, Invariance, PTL

\* Only waits are given up for steering or asides.
THEOREM GeneratedWorkRuns == Spec => []OnlyWaitsYield
<1>1. IInv => OnlyWaitsYield
  BY DEF IInv
<1> QED BY <1>1, Invariance, PTL

\* An interrupt never hides what a tool has finished.
THEOREM FinishedWorkSurvives == Spec => []FinishedWorkIsReported
<1>1. IInv => FinishedWorkIsReported
  BY DEF IInv
<1> QED BY <1>1, Invariance, PTL

\* A call starts only at an open gate.
THEOREM GateHoldsCalls == Spec => NoStartWhilePaused
<1> DEFINE P == \A i \in Call : task[i] # "running" /\ task'[i] = "running" => ~paused
<1>1. ASSUME TypeOK, Next PROVE P
  <2>1. ASSUME NEW i \in Call, RunTool(i) \/ LeaveGate(i) PROVE P
    BY <1>1, <2>1, PastGateFacts DEF RunTool, LeaveGate, Passes, TypeOK
  <2>2. ASSUME NEW i \in Call, Report(i) \/ Probe(i) PROVE P
    BY <1>1, <2>2 DEF Report, Probe, TypeOK
  <2>3. ASSUME NEW i \in Call, NEW how \in {"returned", "threw"}, Settle(i, how) PROVE P
    BY <1>1, <2>3 DEF Settle, TypeOK
  <2>4. CASE EndBatch \/ Watch \/ WatchAgain \/ Tick
    BY <2>4 DEF EndBatch, Watch, WatchAgain, Tick, batchVars
  <2>5. CASE Steer \/ Unsteer \/ (\E urgent \in BOOLEAN : Aside(urgent)) \/ Abort \/ Pause
    BY <2>5 DEF Steer, Unsteer, Aside, Abort, Pause, batchVars
  <2>6. CASE Resume
    BY <1>1, <2>6 DEF Resume, TypeOK
  <2> QED BY <1>1, <2>1, <2>2, <2>3, <2>4, <2>5, <2>6 DEF Next, TaskStep, Environment
<1>2. ASSUME UNCHANGED vars PROVE P
  BY <1>2 DEF vars, batchVars
<1>3. TypeOK /\ [Next]_vars => P
  BY <1>1, <1>2
<1> QED BY <1>3, TypeCorrect, PTL DEF Spec, NoStartWhilePaused
=============================================================================
