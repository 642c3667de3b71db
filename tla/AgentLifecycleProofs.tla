------------------------ MODULE AgentLifecycleProofs ------------------------
(***************************************************************************)
(* Proofs about AgentLifecycle for any number of callers, releasers,       *)
(* generations and sessions, and whatever the environment does.            *)
(*                                                                         *)
(* IInv adds to the types the facts DeadStaysDead needs: a killed ref has  *)
(* no session (so a step that writes the ref of a session it holds never   *)
(* writes a killed one), and a park in flight is about a session.          *)
(***************************************************************************)
EXTENDS AgentLifecycle, TLAPS

\* A killed ref is a detached tombstone.
KilledDetached == \A r \in Ref : ref[r].status = "aborted" => ref[r] = Killed

\* A park in flight captured a session.
ParkHasSession == park # NoPark => park.sess # 0

\* A caller told of a reopened ref knows it.
CallKnown ==
  \A c \in Caller : call[c].pc \in {"unmarking", "reopened"} => call[c].ref # 0

\* A release that is going to commit knows its ref.
RelKnown ==
  \A k \in Releaser : rel[k].pc \in {"parkWait", "commit"} => rel[k].ref # 0

RefKnown == CallKnown /\ RelKnown

IInv == TypeOK /\ KilledDetached /\ ParkHasSession /\ RefKnown

\* What DeadStaysDead says of one step.
DeadStep ==
  \A r \in Ref : (ref[r].status = "aborted" \/ (r # reg /\ ref[r] # Unborn))
    => ref'[r] = ref[r] /\ (reg' = r => reg = r)

\* A step that leaves the refs alone and registers no other one.
RefsKept == ref' = ref /\ reg' \in {0, reg}

-----------------------------------------------------------------------------
\* The bounds are numbers, and the constant records have their types.
LEMMA Bounds == /\ Ref \subseteq Nat \ {0} /\ Session \subseteq Nat \ {0}
                /\ 1 \in Ref /\ 1 \in Session
BY BoundAssumption DEF Ref, Session

\* The constant records have the types of the variables they are values of.
LEMMA Records ==
  /\ NoAdoption \in Adoption /\ NoPark \in ParkRecord /\ NoFlight \in Flight
  /\ NoCall \in CallRecord /\ NoRelease \in RelRecord
  /\ Unborn \in RefRecord /\ Parked \in RefRecord /\ Killed \in RefRecord
  /\ Unbuilt \in SessRecord
BY DEF NoAdoption, NoPark, NoFlight, NoCall, NoRelease, Unborn, Parked, Killed, Unbuilt,
       Adoption, ParkRecord, Flight, CallRecord, RelRecord, RefRecord, SessRecord,
       StatusSet, StateSet, CallPc, RelPc, Ref0, Session0, Actor

\* Disposing of a session leaves the sessions well typed.
LEMMA DisposingType ==
  ASSUME NEW ss \in [Session -> SessRecord], NEW s
  PROVE  Disposing(ss, s) \in [Session -> SessRecord]
BY DEF Disposing, SessRecord, StateSet

\* So do the registry's events with the adoption.
LEMMA EventType ==
  ASSUME NEW a \in Adoption, NEW r
  PROVE  OnRemoved(a, r) \in Adoption /\ OnRunning(a, r) \in Adoption /\ OnIdle(a, r) \in Adoption
BY Records DEF OnRemoved, OnRunning, OnIdle, Adoption

\* registry.get(id)?.session is a session or null.
LEMMA SessionOfType ==
  ASSUME TypeOK, NEW r \in Ref0 PROVE SessionOf(r) \in Session0
BY DEF SessionOf, TypeOK, RefRecord, Ref0, Session0

\* Unregistering keeps the types, and forgets at most the registered ref.
LEMMA UnregisterType ==
  ASSUME TypeOK, NEW r, Unregister(r)
  PROVE  reg' \in {0, reg} /\ reg' \in Ref0 /\ adopted' \in Adoption
BY EventType DEF Unregister, TypeOK, Ref0

\* A step that keeps the refs changes no dead one.
LEMMA KeptIsDead == ASSUME RefsKept PROVE DeadStep
BY Bounds DEF RefsKept, DeadStep

\* Whatever the process starts with satisfies the inductive invariant.
LEMMA InitIInv == Init => IInv
<1> SUFFICES ASSUME Init PROVE IInv
  OBVIOUS
<1>1. TypeOK
  <2>1. /\ [status |-> "running", session |-> 1] \in RefRecord
        /\ [st |-> "live", ref |-> 1, by |-> "run", ready |-> TRUE] \in SessRecord
    BY Bounds DEF RefRecord, SessRecord, StatusSet, StateSet, Ref0, Session0
  <2>2. ref \in [Ref -> RefRecord] /\ sess \in [Session -> SessRecord]
    BY <2>1, Records, ZenonT(30) DEF Init
  <2>3. reg \in Ref0 /\ spawn \in [pc : SpawnPc, ref : Ref0]
    BY Bounds DEF Init, NoSpawn, SpawnPc, Ref0
  <2>4. marker \in BOOLEAN /\ stale \in BOOLEAN
    BY DEF Init
  <2> QED BY <2>2, <2>3, <2>4, Records DEF Init, TypeOK
<1>2. KilledDetached
  BY DEF Init, KilledDetached, Unborn, Parked, Killed
<1>3. ParkHasSession /\ RefKnown
  BY DEF Init, ParkHasSession, RefKnown, CallKnown, RelKnown, NoCall, NoRelease
<1> QED BY <1>1, <1>2, <1>3 DEF IInv

-----------------------------------------------------------------------------
\* Sessions.

\* The end of a disposal: the session's ref may be forgotten, none changes.
LEMMA SessionDisposedStep ==
  ASSUME IInv, NEW s \in Session, SessionDisposed(s)
  PROVE  IInv' /\ DeadStep
<1> USE DEF IInv
<1>1. reg' \in {0, reg} /\ reg' \in Ref0 /\ adopted' \in Adoption
  BY UnregisterType DEF SessionDisposed, TypeOK
<1>2. sess' \in [Session -> SessRecord]
  BY DEF SessionDisposed, TypeOK, SessRecord, StateSet
<1>3. TypeOK'
  BY <1>1, <1>2 DEF SessionDisposed, TypeOK
<1>4. KilledDetached' /\ ParkHasSession' /\ RefKnown'
  BY DEF SessionDisposed, KilledDetached, ParkHasSession, RefKnown, CallKnown, RelKnown
<1>5. RefsKept
  BY <1>1 DEF SessionDisposed, RefsKept
<1> QED BY <1>3, <1>4, <1>5, KeptIsDead

\* A session that holds a ref of its own turns it running or idle.
LEMMA TurnStep ==
  ASSUME IInv, StartTurn \/ EndTurn
  PROVE  IInv' /\ DeadStep
<1> USE DEF IInv
<1>1. /\ reg \in Ref /\ ref[reg].status \in {"running", "idle"}
      /\ \E v \in {"running", "idle"} : ref' = [ref EXCEPT ![reg].status = v]
      /\ UNCHANGED <<reg, sess, stray, park, revival, reopen, call, rel, spawn, marker, stale>>
  BY DEF StartTurn, EndTurn, StatusOf, SessionOf, TypeOK, Ref0
<1>2. adopted' \in Adoption
  BY EventType DEF StartTurn, EndTurn, TypeOK
<1>3. ref' \in [Ref -> RefRecord]
  BY <1>1 DEF TypeOK, RefRecord, StatusSet
<1>4. TypeOK'
  BY <1>1, <1>2, <1>3 DEF TypeOK
<1>5. KilledDetached' /\ DeadStep
  BY <1>1 DEF KilledDetached, DeadStep, TypeOK, RefRecord
<1>6. ParkHasSession' /\ RefKnown'
  BY <1>1 DEF ParkHasSession, RefKnown, CallKnown, RelKnown
<1> QED BY <1>4, <1>5, <1>6

\* The executor's hand-over writes only the ref that is registered with its
\* session, which is therefore not a killed one.
LEMMA FinishStep ==
  ASSUME IInv, NEW s \in Session, Finish(s)
  PROVE  IInv' /\ DeadStep
<1> USE DEF IInv
<1>1. UNCHANGED <<reg, stray, park, revival, reopen, call, rel, spawn, marker, stale>>
  BY DEF Finish
<1>2. ParkHasSession' /\ RefKnown'
  BY <1>1 DEF ParkHasSession, RefKnown, CallKnown, RelKnown
<1>3. [sess EXCEPT ![s].by = "manager"] \in [Session -> SessRecord]
  BY DEF TypeOK, SessRecord
<1>4. CASE reg = sess[s].ref /\ ref[reg].session = s
  <2>1. /\ sess' = [sess EXCEPT ![s].by = "manager"]
        /\ ref' = [ref EXCEPT ![reg].status = "idle"]
        /\ adopted' = [ref |-> reg, by |-> "executor", timer |-> TRUE]
    BY <1>4 DEF Finish
  <2>2. ref' \in [Ref -> RefRecord] /\ adopted' \in Adoption
    BY <2>1 DEF TypeOK, RefRecord, StatusSet, Adoption, Actor
  <2>3. TypeOK'
    BY <1>1, <1>3, <2>1, <2>2 DEF TypeOK
  <2>4. reg \in Ref => ref[reg].status # "aborted"
    BY <1>4, Bounds DEF KilledDetached, Killed
  <2>5. KilledDetached' /\ DeadStep
    BY <1>1, <2>1, <2>4 DEF KilledDetached, DeadStep, TypeOK
  <2> QED BY <1>2, <2>3, <2>5
<1>5. CASE ~(reg = sess[s].ref /\ ref[reg].session = s)
  <2>1. /\ sess' = Disposing([sess EXCEPT ![s].by = "manager"], s)
        /\ UNCHANGED <<ref, adopted>>
    BY <1>5 DEF Finish
  <2>2. sess' \in [Session -> SessRecord]
    BY <2>1, <1>3, DisposingType
  <2>3. TypeOK'
    BY <1>1, <2>1, <2>2 DEF TypeOK
  <2>4. KilledDetached' /\ RefsKept
    BY <1>1, <2>1 DEF KilledDetached, RefsKept
  <2> QED BY <1>2, <2>3, <2>4, KeptIsDead
<1> QED BY <1>4, <1>5

-----------------------------------------------------------------------------
\* Parking.

\* Waking those who await a park moves their program counters only.
LEMMA WokenFacts ==
  ASSUME TypeOK, RefKnown
  PROVE  /\ WokenCalls \in [Caller -> CallRecord]
         /\ WokenReleases \in [Releaser -> RelRecord]
         /\ \A c \in Caller : WokenCalls[c].pc \in {"unmarking", "reopened"}
              => WokenCalls[c].ref # 0
         /\ \A k \in Releaser : WokenReleases[k].pc \in {"parkWait", "commit"}
              => WokenReleases[k].ref # 0
<1>1. /\ WokenCalls \in [Caller -> CallRecord]
      /\ \A c \in Caller : WokenCalls[c].pc \in {"unmarking", "reopened"}
           => WokenCalls[c].ref # 0
  BY DEF WokenCalls, TypeOK, CallRecord, CallPc, RefKnown, CallKnown, RelKnown
<1>2. /\ WokenReleases \in [Releaser -> RelRecord]
      /\ \A k \in Releaser : WokenReleases[k].pc \in {"parkWait", "commit"}
           => WokenReleases[k].ref # 0
  BY DEF WokenReleases, TypeOK, RelRecord, RelPc, RefKnown, CallKnown, RelKnown
<1> QED BY <1>1, <1>2

\* The idle timer starts a park of the attached session, and changes no ref.
LEMMA TimerFiresStep == ASSUME IInv, TimerFires PROVE IInv' /\ DeadStep
<1> USE DEF IInv
<1>1. UNCHANGED <<reg, ref, sess, revival, reopen, call, rel, spawn, marker>>
  BY DEF TimerFires
<1>2. stray' \in BOOLEAN /\ stale' \in BOOLEAN
  BY DEF TimerFires, TypeOK
<1>3. adopted' \in Adoption
  BY DEF TimerFires, TypeOK, Adoption
<1>4. park' \in ParkRecord /\ ParkHasSession'
  <2>1. CASE park' = park
    BY <2>1 DEF TypeOK, ParkHasSession
  <2>2. CASE park' = [NoPark EXCEPT !.ref = reg, !.sess = ref[reg].session] /\ Parkable
    <3>1. reg \in Ref /\ ref[reg].session # 0 /\ ref[reg].session \in Session0
      BY <2>2 DEF Parkable, SessionOf, TypeOK, Ref0, RefRecord
    <3> QED BY <2>2, <3>1 DEF NoPark, ParkRecord, ParkHasSession, Ref0
  <2> QED BY <2>1, <2>2 DEF TimerFires
<1>5. TypeOK'
  BY <1>1, <1>2, <1>3, <1>4 DEF TypeOK
<1>6. KilledDetached' /\ RefKnown' /\ RefsKept
  BY <1>1 DEF KilledDetached, RefKnown, CallKnown, RelKnown, RefsKept
<1> QED BY <1>4, <1>5, <1>6, KeptIsDead

\* A park that stands detaches a ref with a session, hence not a killed one.
LEMMA ParkCommitsStep == ASSUME IInv, ParkCommits PROVE IInv' /\ DeadStep
<1> USE DEF IInv
<1>1. UNCHANGED <<reg, adopted, stray, revival, reopen, spawn, marker, stale>>
  BY DEF ParkCommits
<1>2. CASE ~ParkStands
  <2>1. park' = NoPark /\ call' = WokenCalls /\ rel' = WokenReleases /\ UNCHANGED <<ref, sess>>
    BY <1>2 DEF ParkCommits
  <2>2. TypeOK'
    BY <1>1, <2>1, WokenFacts, Records DEF TypeOK
  <2>3. ParkHasSession' /\ KilledDetached'
    BY <2>1 DEF ParkHasSession, KilledDetached
  <2>4. RefKnown'
    BY <2>1, WokenFacts DEF RefKnown, CallKnown, RelKnown
  <2>5. RefsKept
    BY <1>1, <2>1 DEF RefsKept
  <2> QED BY <2>2, <2>3, <2>4, <2>5, KeptIsDead
<1>3. CASE ParkStands
  <2>1. /\ park' = [park EXCEPT !.detached = TRUE]
        /\ ref' = [ref EXCEPT ![reg] = Parked]
        /\ sess' = Disposing(sess, park.sess)
        /\ UNCHANGED <<call, rel>> /\ park # NoPark
    BY <1>3 DEF ParkCommits, ParkedDetached
  <2>2. ref' \in [Ref -> RefRecord] /\ sess' \in [Session -> SessRecord]
    BY <2>1, Records, DisposingType DEF TypeOK
  <2>3. park' \in ParkRecord /\ ParkHasSession'
    BY <2>1 DEF TypeOK, ParkRecord, ParkHasSession
  <2>4. TypeOK'
    BY <1>1, <2>1, <2>2, <2>3 DEF TypeOK
  <2>5. reg \in Ref => ref[reg].status # "aborted"
    BY <1>3, <2>1 DEF ParkStands, KilledDetached, Killed, ParkHasSession
  <2>6. KilledDetached' /\ DeadStep
    BY <1>1, <2>1, <2>5 DEF KilledDetached, DeadStep, Parked, TypeOK
  <2>7. RefKnown'
    BY <2>1 DEF RefKnown, CallKnown, RelKnown
  <2> QED BY <2>3, <2>4, <2>6, <2>7
<1> QED BY <1>2, <1>3

\* The end of a park wakes its waiters and changes no ref.
LEMMA ParkEndsStep == ASSUME IInv, ParkEnds PROVE IInv' /\ DeadStep
<1> USE DEF IInv
<1>1. /\ park' = NoPark /\ call' = WokenCalls /\ rel' = WokenReleases
      /\ UNCHANGED <<reg, ref, sess, adopted, stray, revival, reopen, spawn, marker, stale>>
  BY DEF ParkEnds
<1>2. TypeOK'
  BY <1>1, WokenFacts, Records DEF TypeOK
<1>3. ParkHasSession' /\ KilledDetached' /\ RefsKept
  BY <1>1 DEF ParkHasSession, KilledDetached, RefsKept
<1>4. RefKnown'
  BY <1>1, WokenFacts DEF RefKnown, CallKnown, RelKnown
<1> QED BY <1>2, <1>3, <1>4, KeptIsDead

-----------------------------------------------------------------------------
\* The calls of ensureLive().

\* The outcomes of a call have the type of a call.
LEMMA OutcomeTypes ==
  ASSUME TypeOK, CallKnown, NEW c \in Caller
  PROVE  /\ \A s \in Session0 : [NoCall EXCEPT !.pc = "returned", !.sess = s] \in CallRecord
         /\ [NoCall EXCEPT !.pc = "failed"] \in CallRecord
         /\ \A pc \in CallPc, r \in Ref0 : [NoCall EXCEPT !.pc = pc, !.ref = r] \in CallRecord
         /\ \A pc \in CallPc, r \in Ref0, o \in Actor :
              [NoCall EXCEPT !.pc = pc, !.ref = r, !.on = o] \in CallRecord
BY Records, ZenonT(30) DEF CallRecord, CallPc, NoCall, Session0, Ref0, Actor

\* The revive path starts, joins or answers; it touches no ref.
LEMMA ContinueFacts ==
  ASSUME IInv, NEW c \in Caller, NEW r \in Ref, Continue(c, r)
  PROVE  /\ call' \in [Caller -> CallRecord] /\ CallKnown'
         /\ revival' \in Flight /\ reopen' \in Flight
<1> USE DEF IInv, RefKnown
<1>1. reopen' = reopen
  BY DEF Continue
<1>2. revival' \in Flight
  BY DEF Continue, TypeOK, Flight, Ref0, Actor
<1>3. PICK v \in CallRecord : call' = [call EXCEPT ![c] = v] /\ v.pc \notin {"unmarking", "reopened"}
  <2>1. ref[r].session \in Session0 /\ r \in Ref0 /\ revival.owner \in Actor
    BY DEF TypeOK, RefRecord, Ref0, Flight
  <2>2. CASE call' = Returned(c, ref[r].session)
    BY <2>1, <2>2, OutcomeTypes DEF Returned, NoCall
  <2>3. CASE call' = Joining(c, "joinRevive", r, revival.owner)
    BY <2>1, <2>3, OutcomeTypes DEF Joining, NoCall, CallPc
  <2>4. CASE call' = At(c, "reviving", r)
    BY <2>1, <2>4, OutcomeTypes DEF At, NoCall, CallPc
  <2>5. CASE call' = At(c, "preparing", r)
    BY <2>1, <2>5, OutcomeTypes DEF At, NoCall, CallPc
  <2>6. CASE call' = At(c, "rejecting", r)
    BY <2>1, <2>6, OutcomeTypes DEF At, NoCall, CallPc
  <2> QED BY <2>2, <2>3, <2>4, <2>5, <2>6 DEF Continue
<1> QED BY <1>1, <1>2, <1>3 DEF TypeOK, CallKnown

\* The same for the whole lookup, reopens of killed refs included.
LEMMA LookupFacts ==
  ASSUME IInv, NEW c \in Caller, Lookup(c)
  PROVE  /\ call' \in [Caller -> CallRecord] /\ CallKnown'
         /\ revival' \in Flight /\ reopen' \in Flight
<1> USE DEF IInv, RefKnown
<1>1. CASE reg # 0 /\ StatusOf(reg) # "aborted"
  <2>1. reg \in Ref /\ Continue(c, reg)
    BY <1>1 DEF Lookup, TypeOK, Ref0
  <2> QED BY <2>1, ContinueFacts
<1>2. CASE reg = 0 \/ StatusOf(reg) = "aborted"
  <2>1. revival' = revival /\ reopen' \in Flight
    BY <1>2 DEF Lookup, TypeOK, Flight, Actor, StatusOf
  <2>2. PICK v \in CallRecord : call' = [call EXCEPT ![c] = v] /\ v.pc \notin {"unmarking", "reopened"}
    <3>1. reg \in Ref0 /\ reopen.owner \in Actor
      BY DEF TypeOK, Flight
    <3>2. CASE call' = Joining(c, "joinReopen", reg, reopen.owner)
      BY <3>1, <3>2, OutcomeTypes, ZenonT(30) DEF Joining, NoCall, CallPc
    <3>3. CASE call' = At(c, "probing", reg)
      BY <3>1, <3>3, OutcomeTypes, ZenonT(30) DEF At, NoCall, CallPc
    <3>4. CASE call' = Failed(c)
      BY <3>4, OutcomeTypes DEF Failed, NoCall
    <3> QED BY <1>2, <3>2, <3>3, <3>4 DEF Lookup, StatusOf
  <2> QED BY <2>1, <2>2 DEF TypeOK, CallKnown
<1> QED BY <1>1, <1>2

\* A call of ensureLive() changes no ref until its awaits settle.
LEMMA EnsureLiveStep ==
  ASSUME IInv, NEW c \in Caller, EnsureLive(c) PROVE IInv' /\ DeadStep
<1> USE DEF IInv, RefKnown
<1>1. UNCHANGED <<reg, ref, sess, adopted, stray, rel, spawn, marker, stale>>
  BY DEF EnsureLive
<1>2. park' \in ParkRecord /\ ParkHasSession'
  BY DEF EnsureLive, TypeOK, ParkRecord, ParkHasSession
<1>3. /\ call' \in [Caller -> CallRecord] /\ CallKnown'
      /\ revival' \in Flight /\ reopen' \in Flight
  <2>1. CASE Lookup(c)
    BY <2>1, LookupFacts
  <2>2. CASE /\ call' = At(c, "keeping", reg) \/ call' = At(c, "waiting", 0)
             /\ UNCHANGED <<revival, reopen>>
    <3>0. reg \in Ref0 /\ 0 \in Ref0
      BY DEF TypeOK, Ref0
    <3>1. PICK v \in CallRecord : call' = [call EXCEPT ![c] = v] /\ v.pc \in {"keeping", "waiting"}
      <4>1. CASE call' = At(c, "keeping", reg)
        BY <3>0, <4>1, OutcomeTypes DEF At, NoCall, CallPc
      <4>2. CASE call' = At(c, "waiting", 0)
        BY <3>0, <4>2, OutcomeTypes DEF At, NoCall, CallPc
      <4> QED BY <2>2, <4>1, <4>2
    <3> QED BY <2>2, <3>1 DEF TypeOK, CallKnown
  <2> QED BY <2>1, <2>2 DEF EnsureLive
<1>4. TypeOK'
  BY <1>1, <1>2, <1>3 DEF TypeOK
<1>5. KilledDetached' /\ RelKnown' /\ RefsKept
  BY <1>1 DEF KilledDetached, RelKnown, RefsKept
<1> QED BY <1>2, <1>3, <1>4, <1>5, KeptIsDead

\* Nor does the call whose park was cancelled.
LEMMA KeptStep == ASSUME IInv, NEW c \in Caller, Kept(c) PROVE IInv' /\ DeadStep
<1> USE DEF IInv, RefKnown
<1>1. UNCHANGED <<reg, ref, sess, stray, park, rel, spawn, marker, stale>>
  BY DEF Kept
<1>2. adopted' \in Adoption
  BY DEF Kept, Rearmed, TypeOK, Adoption
<1>3. /\ call' \in [Caller -> CallRecord] /\ CallKnown'
      /\ revival' \in Flight /\ reopen' \in Flight
  <2>1. CASE Lookup(c)
    BY <2>1, LookupFacts
  <2>2. CASE call' = Returned(c, SessionOf(reg)) /\ UNCHANGED <<revival, reopen>>
    <3>1. SessionOf(reg) \in Session0
      BY SessionOfType DEF TypeOK
    <3>2. PICK v \in CallRecord : call' = [call EXCEPT ![c] = v] /\ v.pc = "returned"
      BY <2>2, <3>1, OutcomeTypes DEF Returned, NoCall
    <3> QED BY <2>2, <3>2 DEF TypeOK, CallKnown
  <2> QED BY <2>1, <2>2 DEF Kept
<1>4. TypeOK'
  BY <1>1, <1>2, <1>3 DEF TypeOK
<1>5. KilledDetached' /\ RelKnown' /\ ParkHasSession' /\ RefsKept
  BY <1>1 DEF KilledDetached, RelKnown, RefsKept, ParkHasSession
<1> QED BY <1>3, <1>4, <1>5, KeptIsDead

\* Nor does the call that waited for a park or a reopen.
LEMMA WokenStep ==
  ASSUME IInv, NEW c \in Caller, WokenByPark(c) \/ Reopened(c) PROVE IInv' /\ DeadStep
<1> USE DEF IInv, RefKnown
<1>1. UNCHANGED <<reg, ref, sess, adopted, stray, park, rel, spawn, marker>> /\ stale' \in BOOLEAN
  BY DEF WokenByPark, Reopened, TypeOK
<1>2. /\ call' \in [Caller -> CallRecord] /\ CallKnown'
      /\ revival' \in Flight /\ reopen' \in Flight
  <2>1. CASE WokenByPark(c)
    BY <2>1, LookupFacts DEF WokenByPark
  <2>2. CASE Reopened(c)
    <3>1. call[c].ref \in Ref
      BY <2>2 DEF Reopened, CallKnown, TypeOK, CallRecord, Ref0
    <3> QED BY <2>2, <3>1, ContinueFacts DEF Reopened
  <2> QED BY <2>1, <2>2
<1>3. TypeOK'
  BY <1>1, <1>2 DEF TypeOK
<1>4. KilledDetached' /\ RelKnown' /\ ParkHasSession' /\ RefsKept
  BY <1>1 DEF KilledDetached, RelKnown, RefsKept, ParkHasSession
<1> QED BY <1>2, <1>3, <1>4, KeptIsDead

\* A fresh generation is neither dead nor registered before it is created.
LEMMA FreshIsDead ==
  ASSUME NEW r \in Ref, ref[r] = Unborn, NEW v, ref' = [ref EXCEPT ![r] = v], reg' = r, TypeOK
  PROVE  DeadStep
BY DEF DeadStep, Unborn, TypeOK

\* A flight that has landed is no flight or the flight of another caller.
LEMMA LandedType ==
  ASSUME NEW f \in Flight, NEW c PROVE Landed(f, c) \in Flight
BY Records DEF Landed

\* A reopen registers a generation of its own and leaves the killed ref alone.
LEMMA ProbedStep ==
  ASSUME IInv, NEW c \in Caller, NEW answer, Probed(c, answer) PROVE IInv' /\ DeadStep
<1> USE DEF IInv, RefKnown
<1>1. UNCHANGED <<sess, adopted, stray, park, revival, rel, spawn, marker, stale>>
  BY DEF Probed
<1>2. RelKnown' /\ ParkHasSession'
  BY <1>1 DEF RelKnown, ParkHasSession
<1>3. CASE \E r \in Ref : /\ FreshRef(r) /\ ref' = [ref EXCEPT ![r] = Parked]
                         /\ reg' = r /\ call' = At(c, "unmarking", r)
                         /\ reopen' = reopen
  <2>1. PICK r \in Ref : /\ ref[r] = Unborn /\ ref' = [ref EXCEPT ![r] = Parked]
                         /\ reg' = r /\ call' = At(c, "unmarking", r)
                         /\ reopen' = reopen
    BY <1>3 DEF FreshRef
  <2>2. r \in Ref0 /\ r # 0
    BY Bounds DEF Ref0
  <2>3. PICK v \in CallRecord : call' = [call EXCEPT ![c] = v] /\ v.ref # 0
    BY <2>1, <2>2, OutcomeTypes DEF At, NoCall, CallPc
  <2>4. call' \in [Caller -> CallRecord] /\ CallKnown'
    BY <2>3 DEF TypeOK, CallKnown
  <2>5. TypeOK'
    BY <1>1, <2>1, <2>2, <2>4, Records DEF TypeOK
  <2>6. KilledDetached'
    BY <2>1 DEF KilledDetached, Parked, TypeOK
  <2> QED BY <1>2, <2>1, <2>4, <2>5, <2>6, FreshIsDead
<1>4. CASE /\ call' = [d \in Caller |->
                         IF d = c \/ (call[d].pc = "joinReopen" /\ call[d].on = c)
                         THEN [NoCall EXCEPT !.pc = "failed"] ELSE call[d]]
           /\ reopen' = Landed(reopen, c)
           /\ UNCHANGED <<reg, ref>>
  <2>1. call' \in [Caller -> CallRecord] /\ CallKnown'
    BY <1>4, OutcomeTypes DEF TypeOK, CallKnown, NoCall
  <2>2. TypeOK'
    BY <1>1, <1>4, <2>1, LandedType DEF TypeOK
  <2>3. KilledDetached' /\ RefsKept
    BY <1>4 DEF KilledDetached, RefsKept
  <2> QED BY <1>2, <2>1, <2>2, <2>3, KeptIsDead
<1> QED BY <1>3, <1>4 DEF Probed

\* The removal of the marker changes no ref.
LEMMA UnmarkedStep ==
  ASSUME IInv, NEW c \in Caller, Unmarked(c) PROVE IInv' /\ DeadStep
<1> USE DEF IInv, RefKnown
<1>1. /\ UNCHANGED <<reg, ref, sess, adopted, stray, park, revival, rel, spawn, stale>>
      /\ marker' = FALSE /\ reopen' = Landed(reopen, c)
  BY DEF Unmarked
<1>2. call[c].ref \in Ref0 /\ call[c].ref # 0
  BY DEF Unmarked, CallKnown, TypeOK, CallRecord
<1>3. [NoCall EXCEPT !.pc = "reopened", !.ref = call[c].ref] \in CallRecord
  BY <1>2, OutcomeTypes DEF CallPc
<1>4. call' \in [Caller -> CallRecord] /\ CallKnown'
  BY <1>2, <1>3 DEF Unmarked, TypeOK, CallKnown, NoCall
<1>5. TypeOK'
  BY <1>1, <1>4, LandedType DEF TypeOK
<1>6. KilledDetached' /\ RelKnown' /\ ParkHasSession' /\ RefsKept
  BY <1>1 DEF KilledDetached, RelKnown, ParkHasSession, RefsKept
<1> QED BY <1>4, <1>5, <1>6, KeptIsDead

\* A revival that settles gives everybody the outcome.
LEMMA SettledFacts ==
  ASSUME IInv, NEW c \in Caller, NEW v \in CallRecord, v.pc \in {"returned", "failed"},
         Settled(c, v)
  PROVE  call' \in [Caller -> CallRecord] /\ CallKnown' /\ revival' \in Flight
BY LandedType DEF Settled, IInv, TypeOK, RefKnown, CallKnown

\* A rejected revival changes nothing but calls and revivals.
LEMMA RejectedStep ==
  ASSUME IInv, NEW c \in Caller, Rejected(c) PROVE IInv' /\ DeadStep
<1>1. [NoCall EXCEPT !.pc = "failed"] \in CallRecord /\ [NoCall EXCEPT !.pc = "failed"].pc = "failed"
  BY OutcomeTypes DEF IInv, RefKnown, NoCall
<1>2. /\ UNCHANGED <<reg, ref, sess, adopted, stray, park, reopen, rel, spawn, marker, stale>>
      /\ Settled(c, [NoCall EXCEPT !.pc = "failed"])
  BY DEF Rejected
<1>3. call' \in [Caller -> CallRecord] /\ CallKnown' /\ revival' \in Flight
  BY <1>1, <1>2, SettledFacts
<1>4. TypeOK'
  BY <1>2, <1>3 DEF IInv, TypeOK
<1>5. KilledDetached' /\ RelKnown' /\ ParkHasSession' /\ RefsKept
  BY <1>2 DEF IInv, RefKnown, KilledDetached, RelKnown, ParkHasSession, RefsKept
<1> QED BY <1>3, <1>4, <1>5, KeptIsDead DEF IInv, RefKnown

\* A failed revival keeps the types and drops at most its own adoption.
LEMMA ReviveFailsFacts ==
  ASSUME IInv, NEW c \in Caller, ReviveFails(c)
  PROVE  /\ call' \in [Caller -> CallRecord] /\ CallKnown' /\ revival' \in Flight
         /\ adopted' \in Adoption /\ stray' \in BOOLEAN
<1>1. [NoCall EXCEPT !.pc = "failed"] \in CallRecord /\ [NoCall EXCEPT !.pc = "failed"].pc = "failed"
  BY OutcomeTypes DEF IInv, RefKnown, NoCall
<1>2. adopted' \in Adoption /\ stray' \in BOOLEAN
  BY Records DEF ReviveFails, IInv, TypeOK, Adoption
<1> QED BY <1>1, <1>2, SettledFacts DEF ReviveFails

\* A step that changes calls, revivals, adoptions and sessions only.
LEMMA CallOnlyStep ==
  ASSUME IInv, UNCHANGED <<reg, ref, park, reopen, rel, spawn, marker, stale>>,
         call' \in [Caller -> CallRecord], CallKnown', revival' \in Flight,
         adopted' \in Adoption, stray' \in BOOLEAN, sess' \in [Session -> SessRecord]
  PROVE  IInv' /\ DeadStep
<1>1. TypeOK'
  BY DEF IInv, TypeOK
<1>2. KilledDetached' /\ RelKnown' /\ ParkHasSession' /\ RefsKept
  BY DEF IInv, RefKnown, KilledDetached, RelKnown, ParkHasSession, RefsKept
<1> QED BY <1>1, <1>2, KeptIsDead DEF IInv, RefKnown

\* A call that only moves on to its next await.
LEMMA MovedCall ==
  ASSUME IInv, NEW c \in Caller, NEW pc \in CallPc \ {"unmarking", "reopened"}, NEW cold \in BOOLEAN,
         call' = [call EXCEPT ![c].pc = pc, ![c].cold = cold] \/ call' = [call EXCEPT ![c].pc = pc]
  PROVE  call' \in [Caller -> CallRecord] /\ CallKnown'
BY DEF IInv, RefKnown, TypeOK, CallRecord, CallKnown

\* The factory's answer adopts the ref and changes none.
LEMMA PreparedStep ==
  ASSUME IInv, NEW c \in Caller, NEW answer, Prepared(c, answer) PROVE IInv' /\ DeadStep
<1>1. UNCHANGED <<reg, ref, sess, park, reopen, rel, spawn, marker, stale>>
  BY DEF Prepared
<1>2. adopted' \in Adoption /\ stray' \in BOOLEAN
  <2>1. call[c].ref \in Ref0 /\ c \in Actor
    BY DEF IInv, TypeOK, CallRecord, Actor
  <2>2. [ref |-> call[c].ref, by |-> c, timer |-> FALSE] \in Adoption
    BY <2>1 DEF Adoption
  <2>3. CASE adopted' = [ref |-> call[c].ref, by |-> c, timer |-> FALSE]
             /\ stray' = (stray \/ adopted.timer)
    BY <2>2, <2>3
  <2>4. CASE UNCHANGED <<adopted, stray>>
    BY <2>4 DEF IInv, TypeOK
  <2> QED BY <2>3, <2>4 DEF Prepared
<1>3. call' \in [Caller -> CallRecord] /\ CallKnown' /\ revival' \in Flight
  <2>1. CASE Settled(c, [NoCall EXCEPT !.pc = "failed"])
    <3>1. /\ [NoCall EXCEPT !.pc = "failed"] \in CallRecord
          /\ [NoCall EXCEPT !.pc = "failed"].pc = "failed"
      BY OutcomeTypes DEF IInv, RefKnown, NoCall
    <3> QED BY <2>1, <3>1, SettledFacts
  <2>2. CASE call' = [call EXCEPT ![c].pc = "reviving", ![c].cold = TRUE] /\ revival' = revival
    <3>1. "reviving" \in CallPc \ {"unmarking", "reopened"}
      BY DEF CallPc
    <3> QED BY <2>2, <3>1, MovedCall DEF IInv, TypeOK
  <2> QED BY <2>1, <2>2 DEF Prepared
<1>4. sess' \in [Session -> SessRecord]
  BY <1>1 DEF IInv, TypeOK
<1> QED BY <1>1, <1>2, <1>3, <1>4, CallOnlyStep

\* The claim of the expected ref changes none.
LEMMA ClaimsStep == ASSUME IInv, NEW c \in Caller, Claims(c) PROVE IInv' /\ DeadStep
<1>1. UNCHANGED <<reg, ref, sess, park, reopen, rel, spawn, marker, stale>>
  BY DEF Claims
<1>2. sess' \in [Session -> SessRecord]
  BY <1>1 DEF IInv, TypeOK
<1>3. CASE ReviveFails(c)
  BY <1>1, <1>2, <1>3, ReviveFailsFacts, CallOnlyStep
<1>4. CASE call' = [call EXCEPT ![c].pc = "building"] /\ UNCHANGED <<revival, adopted, stray>>
  <2>1. "building" \in CallPc \ {"unmarking", "reopened"}
    BY DEF CallPc
  <2>2. call' \in [Caller -> CallRecord] /\ CallKnown'
    BY <1>4, <2>1, MovedCall
  <2>3. revival' \in Flight /\ adopted' \in Adoption /\ stray' \in BOOLEAN
    BY <1>4 DEF IInv, TypeOK
  <2> QED BY <1>1, <1>2, <2>2, <2>3, CallOnlyStep
<1> QED BY <1>3, <1>4 DEF Claims

\* A revival that fails or was discarded changes no ref.
LEMMA FailedStep ==
  ASSUME IInv, NEW c \in Caller, InitialisationFails(c) \/ Discarded(c) PROVE IInv' /\ DeadStep
<1>1. UNCHANGED <<reg, ref, sess, park, reopen, rel, spawn, marker, stale>> /\ ReviveFails(c)
  BY DEF InitialisationFails, Discarded
<1>2. sess' \in [Session -> SessRecord]
  BY <1>1 DEF IInv, TypeOK
<1> QED BY <1>1, <1>2, ReviveFailsFacts, CallOnlyStep

\* A ref that takes a session is registered and was not killed.
LEMMA AttachIsDead ==
  ASSUME IInv, NEW r, r = reg, r \in Ref => ref[r].status # "aborted",
         NEW v \in RefRecord, v.status # "aborted",
         ref' = [ref EXCEPT ![r] = v], reg' = reg
  PROVE  KilledDetached' /\ DeadStep
BY DEF IInv, KilledDetached, DeadStep, TypeOK

\* The attachment writes the registered ref only if it was not killed.
LEMMA AttachesStep == ASSUME IInv, NEW c \in Caller, Attaches(c) PROVE IInv' /\ DeadStep
<1>1. UNCHANGED <<reg, park, reopen, rel, spawn, marker, stale>>
  BY DEF Attaches
<1>2. CASE ReviveFails(c) /\ UNCHANGED <<sess, ref>>
  <2>1. sess' \in [Session -> SessRecord]
    BY <1>2 DEF IInv, TypeOK
  <2> QED BY <1>1, <1>2, <2>1, ReviveFailsFacts, CallOnlyStep
<1>3. CASE ~(ReviveFails(c) /\ UNCHANGED <<sess, ref>>)
  <2> DEFINE r == call[c].ref
  <2>1. PICK s \in Session :
          /\ sess' = [sess EXCEPT ![s] =
               [st |-> "live", ref |-> r, by |-> "manager", ready |-> FALSE]]
          /\ ref' = [ref EXCEPT ![r] = [status |-> "running", session |-> s]]
          /\ call' = [call EXCEPT ![c].pc = "initialising", ![c].sess = s]
          /\ Attachable(r) /\ adopted' = OnRunning(adopted, r) /\ UNCHANGED <<revival, stray>>
    BY <1>3 DEF Attaches
  <2>2. r \in Ref0 /\ s \in Session0
    BY DEF IInv, TypeOK, CallRecord, Session0
  <2>3. sess' \in [Session -> SessRecord]
    BY <2>1, <2>2 DEF IInv, TypeOK, SessRecord, StateSet
  <2>4. [status |-> "running", session |-> s] \in RefRecord
    BY <2>2 DEF RefRecord, StatusSet
  <2>5. call' \in [Caller -> CallRecord] /\ CallKnown'
    <3>1. call[c] \in CallRecord
      BY DEF IInv, TypeOK
    <3>2. PICK v \in CallRecord : v.pc = "initialising" /\ v = [call[c] EXCEPT !.pc = "initialising", !.sess = s]
      BY <2>2, <3>1 DEF CallRecord, CallPc
    <3>3. call' = [call EXCEPT ![c] = v]
      BY <2>1, <3>2 DEF IInv, TypeOK
    <3> QED BY <3>2, <3>3 DEF IInv, RefKnown, TypeOK, CallKnown
  <2>6. adopted' \in Adoption
    BY <2>1, EventType DEF IInv, TypeOK
  <2>7. TypeOK'
    BY <1>1, <2>1, <2>3, <2>4, <2>5, <2>6 DEF IInv, TypeOK
  <2>8. KilledDetached' /\ DeadStep
    <3>1. r = reg /\ ref[r].status # "aborted"
      BY <2>1 DEF Attachable
    <3> HIDE DEF r
    <3> QED BY <1>1, <2>1, <2>4, <3>1, AttachIsDead
  <2>9. ParkHasSession' /\ RelKnown'
    BY <1>1 DEF IInv, RefKnown, ParkHasSession, RelKnown
  <2> QED BY <2>5, <2>7, <2>8, <2>9 DEF IInv, RefKnown
<1> QED BY <1>2, <1>3

\* The end of a revival writes only a registered ref that is parked or runs the
\* session revived, hence not a killed one.
LEMMA InitialisedStep == ASSUME IInv, NEW c \in Caller, Initialised(c) PROVE IInv' /\ DeadStep
<1> DEFINE r == call[c].ref
           s == call[c].sess
           attachable == reg = r /\ ref[r] = Parked
           claimed    == reg = r /\ ref[r] = [status |-> "running", session |-> s]
<1>1. UNCHANGED <<reg, stray, park, reopen, rel, spawn, marker, stale>>
  BY DEF Initialised
<1>2. r \in Ref0 /\ s \in Session0
  BY DEF IInv, TypeOK, CallRecord
<1>3. [sess EXCEPT ![s].ready = TRUE] \in [Session -> SessRecord]
  BY DEF IInv, TypeOK, SessRecord
<1>4. ParkHasSession' /\ RelKnown'
  BY <1>1 DEF IInv, RefKnown, ParkHasSession, RelKnown
<1>5. CASE attachable \/ claimed
  <2>1. /\ sess' = [sess EXCEPT ![s].ready = TRUE]
        /\ ref' = [ref EXCEPT ![r] = [status |-> "idle", session |-> s]]
        /\ adopted' = OnIdle(adopted, r)
        /\ Settled(c, [NoCall EXCEPT !.pc = "returned", !.sess = s])
    BY <1>5 DEF Initialised
  <2>2. /\ [NoCall EXCEPT !.pc = "returned", !.sess = s] \in CallRecord
        /\ [NoCall EXCEPT !.pc = "returned", !.sess = s].pc = "returned"
    BY <1>2, OutcomeTypes DEF IInv, RefKnown, NoCall
  <2>3. call' \in [Caller -> CallRecord] /\ CallKnown' /\ revival' \in Flight
    BY <2>1, <2>2, SettledFacts
  <2>4. [status |-> "idle", session |-> s] \in RefRecord
    BY <1>2 DEF RefRecord, StatusSet
  <2>5. adopted' \in Adoption
    BY <2>1, EventType DEF IInv, TypeOK
  <2>6. TypeOK'
    BY <1>1, <1>3, <2>1, <2>3, <2>4, <2>5 DEF IInv, TypeOK
  <2>7. r = reg /\ ref[r].status # "aborted"
    BY <1>5 DEF Parked
  <2> HIDE DEF r, s
  <2>8. KilledDetached' /\ DeadStep
    BY <1>1, <2>1, <2>4, <2>7, AttachIsDead
  <2> QED BY <1>4, <2>3, <2>6, <2>8 DEF IInv, RefKnown
<1>6. CASE ~(attachable \/ claimed)
  <2>1. /\ sess' = Disposing([sess EXCEPT ![s].ready = TRUE], s)
        /\ call' = [call EXCEPT ![c].pc = "discarding"]
        /\ UNCHANGED <<ref, adopted, revival>>
    BY <1>6 DEF Initialised
  <2>2. sess' \in [Session -> SessRecord]
    BY <1>3, <2>1, DisposingType
  <2>3. "discarding" \in CallPc \ {"unmarking", "reopened"}
    BY DEF CallPc
  <2>4. call' \in [Caller -> CallRecord] /\ CallKnown'
    BY <2>1, <2>3, MovedCall
  <2>5. revival' \in Flight /\ adopted' \in Adoption /\ stray' \in BOOLEAN
    BY <1>1, <2>1 DEF IInv, TypeOK
  <2> QED BY <1>1, <2>1, <2>2, <2>4, <2>5, CallOnlyStep
<1> QED BY <1>5, <1>6

-----------------------------------------------------------------------------
\* The releases.

\* The terminal transition of release() writes only the registered ref, and what
\* it writes is a detached tombstone.
LEMMA CommitFacts ==
  ASSUME IInv, NEW k \in Releaser, NEW r \in Ref, NEW tomb \in BOOLEAN, NEW owned \in BOOLEAN,
         Commit(k, r, tomb, owned), reg' = reg
  PROVE  /\ rel' \in [Releaser -> RelRecord] /\ RelKnown'
         /\ ref' \in [Ref -> RefRecord] /\ sess' \in [Session -> SessRecord]
         /\ KilledDetached' /\ DeadStep
<1> DEFINE live == IF reg = r THEN ref[r].session ELSE 0
           next == IF tomb THEN "persist" ELSE IF live # 0 THEN "dispose" ELSE "cleanup"
           v == [NoRelease EXCEPT !.pc = next, !.ref = r, !.live = live, !.tomb = tomb,
                                  !.owned = owned]
<1>1. /\ rel' = [rel EXCEPT ![k] = v]
      /\ ref' = IF tomb /\ reg = r THEN [ref EXCEPT ![r] = Killed] ELSE ref
      /\ sess' = IF ~tomb /\ live # 0 THEN Disposing(sess, live) ELSE sess
  BY DEF Commit
<1>2. live \in Session0 /\ r \in Ref0 /\ next \in RelPc \ {"parkWait", "commit"}
  BY DEF IInv, TypeOK, RefRecord, Session0, Ref0, RelPc
<1> HIDE DEF live, next
<1>3. v \in RelRecord /\ v.pc \notin {"parkWait", "commit"}
  BY <1>2 DEF NoRelease, RelRecord
<1> HIDE DEF v
<1>4. rel' \in [Releaser -> RelRecord] /\ RelKnown'
  BY <1>1, <1>3 DEF IInv, RefKnown, RelKnown, TypeOK
<1>5. ref' \in [Ref -> RefRecord] /\ sess' \in [Session -> SessRecord]
  BY <1>1, Records, DisposingType DEF IInv, TypeOK
<1>6. KilledDetached' /\ DeadStep
  <2>1. ref[r].status = "aborted" => ref[r] = Killed
    BY DEF IInv, KilledDetached
  <2> QED BY <1>1, <2>1 DEF IInv, KilledDetached, DeadStep, TypeOK, Killed
<1> QED BY <1>4, <1>5, <1>6

\* A call of release() commits at once or joins the park in flight.
LEMMA ReleaseBeginsStep ==
  ASSUME IInv, NEW k \in Releaser, NEW tomb \in BOOLEAN, ReleaseBegins(k, tomb)
  PROVE  IInv' /\ DeadStep
<1> DEFINE r == IF reg # 0 THEN reg ELSE adopted.ref
           owned == adopted.ref = r /\ adopted.by = "executor"
<1>1. UNCHANGED <<reg, stray, revival, reopen, call, spawn, marker, stale>>
  BY DEF ReleaseBegins
<1>2. r \in Ref /\ owned \in BOOLEAN
  BY DEF ReleaseBegins, IInv, TypeOK, Ref0, Adoption
<1>3. adopted' \in Adoption
  BY Records DEF ReleaseBegins, IInv, TypeOK
<1>4. CallKnown'
  BY <1>1 DEF IInv, RefKnown, CallKnown
<1>5. CASE Commit(k, r, tomb, owned) /\ UNCHANGED park
  <2> HIDE DEF r, owned
  <2>1. /\ rel' \in [Releaser -> RelRecord] /\ RelKnown'
        /\ ref' \in [Ref -> RefRecord] /\ sess' \in [Session -> SessRecord]
        /\ KilledDetached' /\ DeadStep
    BY <1>1, <1>2, <1>5, CommitFacts
  <2>2. TypeOK' /\ ParkHasSession'
    BY <1>1, <1>3, <1>5, <2>1 DEF IInv, TypeOK, ParkHasSession
  <2> QED BY <1>4, <2>1, <2>2 DEF IInv, RefKnown
<1>6. CASE /\ park.ref = r
           /\ park' = [park EXCEPT !.cancelled = @ \/ ~park.detached]
           /\ rel' = [rel EXCEPT ![k] =
                [NoRelease EXCEPT !.pc = "parkWait", !.ref = r, !.tomb = tomb, !.owned = owned]]
           /\ UNCHANGED <<ref, sess>>
  <2> HIDE DEF owned, r
  <2>1. park' \in ParkRecord /\ ParkHasSession'
    <3>1. park.cancelled \in BOOLEAN /\ (park.cancelled \/ ~park.detached) \in BOOLEAN
      BY DEF IInv, TypeOK, ParkRecord
    <3>2. park # NoPark
      BY <1>2, <1>6, Bounds DEF NoPark
    <3> QED BY <1>6, <3>1, <3>2 DEF IInv, TypeOK, ParkRecord, ParkHasSession
  <2>2. PICK v \in RelRecord : rel' = [rel EXCEPT ![k] = v] /\ v.ref # 0
    <3>1. r \in Ref0 /\ r # 0 /\ "parkWait" \in RelPc
      BY <1>2, Bounds DEF Ref0, RelPc
    <3> DEFINE w == [NoRelease EXCEPT !.pc = "parkWait", !.ref = r, !.tomb = tomb, !.owned = owned]
    <3>2. w \in RelRecord /\ w.ref # 0
      BY <1>2, <3>1, Records DEF NoRelease, RelRecord
    <3>3. rel' = [rel EXCEPT ![k] = w]
      BY <1>6
    <3> HIDE DEF w
    <3> QED BY <3>2, <3>3
  <2>3. rel' \in [Releaser -> RelRecord] /\ RelKnown'
    BY <2>2 DEF IInv, RefKnown, RelKnown, TypeOK
  <2>4. TypeOK'
    BY <1>1, <1>3, <1>6, <2>1, <2>3 DEF IInv, TypeOK
  <2>5. KilledDetached' /\ RefsKept
    BY <1>1, <1>6 DEF IInv, KilledDetached, RefsKept
  <2> QED BY <1>4, <2>1, <2>3, <2>4, <2>5, KeptIsDead DEF IInv, RefKnown
<1> QED BY <1>5, <1>6 DEF ReleaseBegins

\* A release() that waited for the park commits.
LEMMA ReleaseCommitsStep ==
  ASSUME IInv, NEW k \in Releaser, ReleaseCommits(k) PROVE IInv' /\ DeadStep
<1>1. UNCHANGED <<reg, adopted, stray, park, revival, reopen, call, spawn, marker, stale>>
  BY DEF ReleaseCommits
<1>2. rel[k].ref \in Ref /\ rel[k].tomb \in BOOLEAN /\ rel[k].owned \in BOOLEAN
  BY DEF ReleaseCommits, IInv, RefKnown, RelKnown, TypeOK, RelRecord, Ref0
<1>3. /\ rel' \in [Releaser -> RelRecord] /\ RelKnown'
      /\ ref' \in [Ref -> RefRecord] /\ sess' \in [Session -> SessRecord]
      /\ KilledDetached' /\ DeadStep
  BY <1>1, <1>2, CommitFacts DEF ReleaseCommits
<1>4. TypeOK' /\ ParkHasSession' /\ CallKnown'
  BY <1>1, <1>3 DEF IInv, TypeOK, ParkHasSession, RefKnown, CallKnown
<1> QED BY <1>3, <1>4 DEF IInv, RefKnown

\* The steps of a release that move it on and leave the refs alone.
LEMMA ReleaseMoves ==
  ASSUME IInv, NEW k \in Releaser, Persisted(k) \/ Disposed(k) \/ ReleaseEnds(k)
  PROVE  IInv' /\ DeadStep
<1>1. UNCHANGED <<ref, stray, park, revival, reopen, call, spawn, stale>>
  BY DEF Persisted, Disposed, ReleaseEnds
<1>2. PICK v \in RelRecord : rel' = [rel EXCEPT ![k] = v] /\ v.pc \notin {"parkWait", "commit"}
  <2>1. rel[k] \in RelRecord
    BY DEF IInv, TypeOK
  <2>2. CASE Persisted(k)
    <3>1. PICK written \in BOOLEAN, pc \in {"dispose", "cleanup"} :
            rel' = [rel EXCEPT ![k].pc = pc, ![k].ok = written]
      BY <2>2 DEF Persisted
    <3> DEFINE w == [rel[k] EXCEPT !.pc = pc, !.ok = written]
    <3>2. w \in RelRecord /\ w.pc = pc
      BY <2>1 DEF RelRecord, RelPc
    <3>3. rel' = [rel EXCEPT ![k] = w]
      BY <3>1 DEF IInv, TypeOK
    <3> HIDE DEF w
    <3> QED BY <3>2, <3>3
  <2>3. CASE Disposed(k) \/ ReleaseEnds(k)
    <3>1. PICK pc \in {"cleanup", "done"} : rel' = [rel EXCEPT ![k].pc = pc]
      BY <2>3 DEF Disposed, ReleaseEnds
    <3> DEFINE w == [rel[k] EXCEPT !.pc = pc]
    <3>2. w \in RelRecord /\ w.pc = pc
      BY <2>1 DEF RelRecord, RelPc
    <3>3. rel' = [rel EXCEPT ![k] = w]
      BY <3>1 DEF IInv, TypeOK
    <3> HIDE DEF w
    <3> QED BY <3>2, <3>3
  <2> QED BY <2>2, <2>3
<1>3. rel' \in [Releaser -> RelRecord] /\ RelKnown'
  BY <1>2 DEF IInv, RefKnown, RelKnown, TypeOK
<1>4. reg' \in {0, reg} /\ reg' \in Ref0 /\ adopted' \in Adoption
  BY UnregisterType DEF Persisted, Disposed, ReleaseEnds, IInv, TypeOK
<1>5. sess' \in [Session -> SessRecord]
  <2>1. sess' = sess \/ sess' = Disposing(sess, rel[k].live)
    BY DEF Persisted, DisposesCaptured, Disposed, ReleaseEnds
  <2>2. sess \in [Session -> SessRecord]
    BY DEF IInv, TypeOK
  <2> QED BY <2>1, <2>2, DisposingType
<1>6. marker' \in BOOLEAN
  BY DEF Persisted, Disposed, ReleaseEnds, IInv, TypeOK
<1>7. TypeOK'
  BY <1>1, <1>3, <1>4, <1>5, <1>6 DEF IInv, TypeOK
<1>8. KilledDetached' /\ ParkHasSession' /\ CallKnown' /\ RefsKept
  BY <1>1, <1>4 DEF IInv, RefKnown, KilledDetached, ParkHasSession, CallKnown, RefsKept
<1> QED BY <1>3, <1>7, <1>8, KeptIsDead DEF IInv, RefKnown

-----------------------------------------------------------------------------
\* The fresh spawn.

\* A fresh spawn registers a generation of its own.
LEMMA RegistersStep ==
  ASSUME IInv, Registers, UNCHANGED <<sess, adopted, stray, park, revival, reopen, call, rel, marker, stale>>
  PROVE  IInv' /\ DeadStep
<1>1. PICK r \in Ref : /\ ref[r] = Unborn /\ reg' = r
                       /\ ref' = [ref EXCEPT ![r] = [status |-> "running", session |-> 0]]
                       /\ spawn' = [pc |-> "constructing", ref |-> r]
  BY DEF Registers, FreshRef
<1>2. [status |-> "running", session |-> 0] \in RefRecord /\ r \in Ref0
  BY DEF RefRecord, StatusSet, Session0, Ref0
<1>3. TypeOK'
  BY <1>1, <1>2 DEF IInv, TypeOK, SpawnPc
<1>4. DeadStep
  BY <1>1, FreshIsDead DEF IInv
<1>5. KilledDetached'
  BY <1>1 DEF IInv, TypeOK, KilledDetached
<1>6. ParkHasSession' /\ CallKnown' /\ RelKnown'
  BY DEF IInv, RefKnown, ParkHasSession, CallKnown, RelKnown
<1> QED BY <1>3, <1>4, <1>5, <1>6 DEF IInv, RefKnown

\* The steps of a spawn before its session attaches.
LEMMA SpawnStep ==
  ASSUME IInv, SpawnBegins \/ SpawnClaims \/ \E answer \in FactoryAnswers : SpawnProbed(answer)
  PROVE  IInv' /\ DeadStep
<1>1. UNCHANGED <<sess, stray, park, revival, reopen, call, rel, marker, stale>>
  BY DEF SpawnBegins, SpawnClaims, SpawnProbed
<1>2. CASE Registers
  <2>1. adopted' = adopted
    BY <1>2 DEF Registers, SpawnBegins, SpawnClaims, SpawnProbed, NoSpawn
  <2> QED BY <1>1, <1>2, <2>1, RegistersStep
<1>3. CASE ~Registers
  <2>1. /\ ref' = ref /\ reg' \in {0, reg} /\ reg' \in Ref0 /\ adopted' \in Adoption
    BY <1>3, UnregisterType DEF SpawnBegins, SpawnClaims, SpawnProbed, IInv, TypeOK
  <2>2. spawn' \in [pc : SpawnPc, ref : Ref0]
    BY <1>3 DEF SpawnBegins, SpawnClaims, SpawnProbed, NoSpawn, SpawnPc, Ref0, IInv, TypeOK
  <2>3. TypeOK'
    BY <1>1, <2>1, <2>2 DEF IInv, TypeOK
  <2>4. KilledDetached' /\ ParkHasSession' /\ CallKnown' /\ RelKnown' /\ RefsKept
    BY <1>1, <2>1 DEF IInv, RefKnown, KilledDetached, ParkHasSession, CallKnown, RelKnown, RefsKept
  <2> QED BY <2>3, <2>4, KeptIsDead DEF IInv, RefKnown
<1> QED BY <1>2, <1>3

\* The attachment of a spawn's session, like that of a revival.
LEMMA SpawnAttachesStep == ASSUME IInv, SpawnAttaches PROVE IInv' /\ DeadStep
<1> DEFINE r == spawn.ref
<1>1. /\ UNCHANGED <<stray, park, revival, reopen, call, rel, marker, stale>>
      /\ spawn' = NoSpawn
  BY DEF SpawnAttaches
<1>2. spawn' \in [pc : SpawnPc, ref : Ref0]
  BY <1>1 DEF NoSpawn, SpawnPc, Ref0
<1>3. ParkHasSession' /\ CallKnown' /\ RelKnown'
  BY <1>1 DEF IInv, RefKnown, ParkHasSession, CallKnown, RelKnown
<1>4. CASE UNCHANGED <<sess, ref>>
  <2>1. reg' \in {0, reg} /\ reg' \in Ref0 /\ adopted' \in Adoption
    BY <1>4, UnregisterType, EventType DEF SpawnAttaches, IInv, TypeOK
  <2>2. TypeOK'
    BY <1>1, <1>2, <1>4, <2>1 DEF IInv, TypeOK
  <2>3. KilledDetached' /\ RefsKept
    BY <1>4, <2>1 DEF IInv, KilledDetached, RefsKept
  <2> QED BY <1>3, <2>2, <2>3, KeptIsDead DEF IInv, RefKnown
<1>5. CASE ~UNCHANGED <<sess, ref>>
  <2>1. PICK s \in Session :
          /\ sess' = [sess EXCEPT ![s] =
               [st |-> "live", ref |-> r, by |-> "run", ready |-> TRUE]]
          /\ ref' = [ref EXCEPT ![r] = [status |-> "running", session |-> s]]
          /\ Attachable(r) /\ adopted' = OnRunning(adopted, r) /\ reg' = reg
    BY <1>5 DEF SpawnAttaches
  <2>2. r \in Ref0 /\ s \in Session0
    BY DEF IInv, TypeOK, Session0
  <2>3. sess' \in [Session -> SessRecord]
    BY <2>1, <2>2 DEF IInv, TypeOK, SessRecord, StateSet
  <2>4. [status |-> "running", session |-> s] \in RefRecord
    BY <2>2 DEF RefRecord, StatusSet
  <2>5. adopted' \in Adoption
    BY <2>1, EventType DEF IInv, TypeOK
  <2>6. TypeOK'
    BY <1>1, <1>2, <2>1, <2>3, <2>4, <2>5 DEF IInv, TypeOK
  <2>7. r = reg /\ ref[r].status # "aborted"
    BY <2>1 DEF Attachable
  <2> HIDE DEF r
  <2>8. KilledDetached' /\ DeadStep
    BY <2>1, <2>4, <2>7, AttachIsDead
  <2> QED BY <1>3, <2>6, <2>8 DEF IInv, RefKnown
<1> QED BY <1>4, <1>5

-----------------------------------------------------------------------------
\* A step that changes no variable.
LEMMA StutterStep == ASSUME IInv, UNCHANGED vars PROVE IInv' /\ DeadStep
<1>1. IInv'
  BY DEF vars, IInv, TypeOK, KilledDetached, ParkHasSession, RefKnown, CallKnown, RelKnown
<1>2. RefsKept
  BY DEF vars, RefsKept
<1> QED BY <1>1, <1>2, KeptIsDead

\* Every step keeps the invariant and leaves the dead generations alone.
LEMMA NextStep == ASSUME IInv, [Next]_vars PROVE IInv' /\ DeadStep
<1>1. CASE \E s \in Session : SessionDisposed(s) \/ Finish(s)
  BY <1>1, SessionDisposedStep, FinishStep
<1>2. CASE StartTurn \/ EndTurn
  BY <1>2, TurnStep
<1>3. CASE TimerFires \/ ParkCommits \/ ParkEnds
  BY <1>3, TimerFiresStep, ParkCommitsStep, ParkEndsStep
<1>4. CASE \E c \in Caller : EnsureLive(c) \/ CallStep(c)
  <2>1. PICK c \in Caller : EnsureLive(c) \/ CallStep(c)
    BY <1>4
  <2>2. CASE \/ EnsureLive(c) \/ Kept(c) \/ WokenByPark(c) \/ Reopened(c) \/ Unmarked(c)
             \/ Rejected(c)
    BY <2>2, EnsureLiveStep, KeptStep, WokenStep, UnmarkedStep, RejectedStep
  <2>3. CASE \E answer \in FactoryAnswers : Probed(c, answer) \/ Prepared(c, answer)
    BY <2>3, ProbedStep, PreparedStep
  <2>4. CASE Claims(c) \/ Attaches(c) \/ Initialised(c) \/ InitialisationFails(c) \/ Discarded(c)
    BY <2>4, ClaimsStep, AttachesStep, InitialisedStep, FailedStep
  <2> QED BY <2>1, <2>2, <2>3, <2>4 DEF CallStep
<1>5. CASE \E k \in Releaser : ReleaseStep(k) \/ \E tomb \in BOOLEAN : ReleaseBegins(k, tomb)
  <2>1. PICK k \in Releaser : ReleaseStep(k) \/ \E tomb \in BOOLEAN : ReleaseBegins(k, tomb)
    BY <1>5
  <2>2. CASE ReleaseStep(k)
    BY <2>2, ReleaseCommitsStep, ReleaseMoves DEF ReleaseStep
  <2>3. CASE \E tomb \in BOOLEAN : ReleaseBegins(k, tomb)
    BY <2>3, ReleaseBeginsStep
  <2> QED BY <2>1, <2>2, <2>3
<1>6. CASE SpawnBegins \/ SpawnClaims \/ \E answer \in FactoryAnswers : SpawnProbed(answer)
  BY <1>6, SpawnStep
<1>7. CASE SpawnAttaches
  BY <1>7, SpawnAttachesStep
<1>8. CASE UNCHANGED vars
  BY <1>8, StutterStep
<1> QED BY <1>1, <1>2, <1>3, <1>4, <1>5, <1>6, <1>7, <1>8 DEF Next

\* IInv is an inductive invariant of the lifecycle.
THEOREM Invariance == Spec => []IInv
<1>1. IInv /\ [Next]_vars => IInv'
  BY NextStep
<1> QED BY InitIInv, <1>1, PTL DEF Spec

\* The state of the lifecycle is well typed.
THEOREM TypeCorrect == Spec => []TypeOK
<1>1. IInv => TypeOK
  BY DEF IInv
<1> QED BY <1>1, Invariance, PTL

\* Whatever callers, killers, timers and spawns do, a killed generation and a
\* retired one never change and are never registered again.
THEOREM DeadGenerationsStayDead == Spec => DeadStaysDead
<1>1. IInv /\ [Next]_vars => DeadStep
  BY NextStep
<1> QED BY <1>1, Invariance, PTL DEF Spec, DeadStaysDead, DeadStep

-----------------------------------------------------------------------------
\* That no session is lost, no dying session is attached or handed out and
\* no idle agent is forgotten, for any number of callers, releasers,
\* generations and sessions of an id that is never plainly removed.
\*
\* The invariants of AgentLifecycle are not inductive.  SInv adds what the
\* manager's maps, the sessions and the calls under way know of each other
\* as long as no stale work has reached the registered generation (Core),
\* and what holds before the id is first killed (Quiet), when no work can
\* be stale.

\* A ref that something speaks of has been created.
Born(r) == r # 0 => ref[r] # Unborn
RefsBorn ==
  /\ Born(reg) /\ Born(adopted.ref) /\ Born(park.ref)
  /\ \A c \in Caller : Born(call[c].ref)
  /\ \A s \in Session : Born(sess[s].ref)

\* Every release() is a kill.
KillsOnly == \A k \in Releaser : rel[k].pc # "none" => rel[k].tomb

\* A call goes on before the next park begins, and cancels one that can still
\* be cancelled.
WokenWait ==
  \A c \in Caller :
    /\ call[c].pc \in {"kept", "woken"} => park = NoPark
    /\ call[c].pc = "keeping" => park # NoPark /\ ~park.detached /\ park.cancelled

\* No adoption is no adoption by nobody, with no timer.
AdoptionNone == adopted.ref = 0 => adopted = NoAdoption

\* Whoever works on a ref knows it, and a live session was built for one.
RefsKnown ==
  /\ \A c \in Caller :
       call[c].pc \in Reviving \cup {"keeping", "kept", "discarding"} => call[c].ref # 0
  /\ \A k \in Releaser : rel[k].pc = "persist" => rel[k].ref # 0
  /\ spawn.pc = "constructing" => spawn.ref # 0
  /\ park # NoPark => park.ref # 0
  /\ \A s \in Session : sess[s].st = "live" => sess[s].ref # 0

Frame == RefsBorn /\ KillsOnly /\ WokenWait /\ AdoptionNone /\ RefsKnown

\* Only the registered ref has a session, and that is live and its own.
AttachedOk ==
  \A r \in Ref : ref[r].session # 0 =>
    /\ r = reg
    /\ sess[ref[r].session].st = "live" /\ sess[ref[r].session].ref = r

\* A session that is disposed of belongs to a retired or killed ref, or to the
\* park that detached it.
DisposingOk ==
  \A s \in Session : sess[s].st = "disposing" =>
    \/ reg = 0 \/ sess[s].ref # reg \/ StatusOf(reg) = "aborted"
    \/ park.detached /\ park.sess = s /\ park.ref = reg

\* Call c works on a revival of the registered ref, and that was not killed.
Revives(c) == call[c].pc \in Reviving /\ call[c].ref = reg /\ StatusOf(reg) # "aborted"

\* Its revival is the one in flight, and the ref is what it expects.
RevivalOk ==
  \A c \in Caller : Revives(c) =>
    /\ revival = [ref |-> reg, owner |-> c]
    /\ call[c].pc # "initialising" => ref[reg] = Parked
    /\ call[c].pc = "initialising" =>
         /\ ref[reg] = [status |-> "running", session |-> call[c].sess]
         /\ ~sess[call[c].sess].ready

\* A session that is initialised was built for the ref of the call.
InitialisingOk ==
  \A c \in Caller : call[c].pc = "initialising" =>
    /\ call[c].sess \in Session
    /\ sess[call[c].sess].ref = call[c].ref /\ sess[call[c].sess].by = "manager"

\* The executor's run keeps its ref until it is over or killed.
RunOk ==
  \A s \in Session : sess[s].st = "live" /\ sess[s].by = "run" =>
    /\ sess[s].ready
    /\ sess[s].ref = reg =>
         ref[reg] = [status |-> "running", session |-> s] \/ StatusOf(reg) = "aborted"

\* A spawn under construction has its ref to itself.
SpawnOk ==
  spawn.pc = "constructing" =>
    /\ ref[spawn.ref] \in {[status |-> "running", session |-> 0], Killed}
    /\ spawn.ref = reg \/ ref[spawn.ref] = Killed
    /\ adopted.ref = spawn.ref => ref[spawn.ref] = Killed

\* An idle agent has an initialised session.
IdleOk ==
  StatusOf(reg) = "idle" => SessionOf(reg) # 0 /\ sess[SessionOf(reg)].ready

\* An adoption's timer is armed for an idle agent, driven by the manager.
AdoptedOk ==
  (adopted.ref = reg /\ reg # 0) =>
    /\ adopted.timer => StatusOf(reg) \in {"idle", "aborted"}
    /\ SessionOf(reg) # 0 => sess[SessionOf(reg)].by = "manager"

\* A park that has begun is still about the session it captured.
ParkBegun ==
  (/\ park # NoPark /\ ~park.detached
   /\ park.ref = reg /\ StatusOf(reg) # "aborted") =>
     /\ SessionOf(reg) = park.sess
     /\ sess[park.sess].ready /\ sess[park.sess].by = "manager"
     /\ ~(adopted.ref = reg /\ adopted.timer)

\* A park that has detached its session disposes of it.
ParkDetaching ==
  park.detached =>
    /\ ~park.cancelled
    /\ sess[park.sess].st \in {"disposing", "disposed"} /\ sess[park.sess].ref = park.ref

\* The session a kill captured was its ref's.
CapturedOk ==
  \A k \in Releaser : rel[k].pc = "persist" /\ rel[k].live # 0 =>
    ref[rel[k].ref] = Killed /\ sess[rel[k].live].ref = rel[k].ref

\* A live session no run holds is attached or captured by a kill.
HeldOk ==
  \A s \in Session : sess[s].st = "live" /\ sess[s].by # "run" =>
    \/ SessionOf(reg) = s
    \/ \E k \in Releaser : rel[k].pc = "persist" /\ rel[k].live = s

Core ==
  /\ AttachedOk /\ DisposingOk /\ RevivalOk /\ InitialisingOk /\ RunOk /\ SpawnOk
  /\ IdleOk /\ AdoptedOk /\ ParkBegun /\ ParkDetaching /\ CapturedOk /\ HeldOk

\* No generation of the id was ever killed.
Unkilled == \A r \in Ref : ref[r].status # "aborted"

\* Then nothing is stale or reopened, adoption and calls are about the registered
\* ref, and a park that is given up has a caller to answer for it.
Quiet ==
  /\ ~stray /\ ~stale
  /\ adopted.ref \in {0, reg}
  /\ \A c \in Caller :
       /\ call[c].pc \notin {"probing", "joinReopen", "unmarking", "reopened", "discarding"}
       /\ call[c].pc \in Reviving \cup {"keeping", "kept"} => call[c].ref = reg
  /\ park # NoPark => park.ref = reg
  /\ park # NoPark /\ ~park.detached =>
       /\ ~park.cancelled => adopted.ref = reg
       /\ park.cancelled /\ adopted.ref = reg => \E c \in Caller : call[c].pc = "keeping"
  /\ park.detached => ref[reg] = Parked /\ \A c \in Caller : call[c].pc \notin Reviving

SInv ==
  /\ IInv /\ Frame
  /\ ~stale => Core
  /\ Unkilled => Quiet /\ IdleIsTimed

-----------------------------------------------------------------------------
\* What the invariant says where no stale work has reached the ref.
LEMMA SInvFacts ==
  ASSUME SInv
  PROVE  /\ IInv /\ Frame /\ (~stale => Core)
         /\ Unkilled => ~stale /\ Core /\ Quiet /\ IdleIsTimed
BY DEF SInv, Quiet

\* A killed generation stays, so what was never killed was not killed before.
LEMMA UnkilledBefore == ASSUME DeadStep, Unkilled' PROVE Unkilled
BY DEF DeadStep, Unkilled

\* The three parts of the invariant, one step later.
LEMMA SInvStep ==
  ASSUME IInv', Frame', ~stale' => Core', DeadStep, Unkilled => (Unkilled' => Quiet' /\ IdleIsTimed')
  PROVE  SInv'
BY UnkilledBefore DEF SInv

\* The registered ref's status and session, spelled out.
LEMMA RegFacts ==
  ASSUME TypeOK
  PROVE  /\ reg = 0 => StatusOf(reg) = "unborn" /\ SessionOf(reg) = 0
         /\ reg # 0 => reg \in Ref /\ StatusOf(reg) = ref[reg].status /\ SessionOf(reg) = ref[reg].session
BY DEF StatusOf, SessionOf, TypeOK, Ref0

\* Disposing of a session changes at most its own state, from live.
LEMMA DisposingFacts ==
  ASSUME NEW ss \in [Session -> SessRecord], NEW s, NEW q \in Session
  PROVE  /\ Disposing(ss, s)[q].ref = ss[q].ref
         /\ Disposing(ss, s)[q].by = ss[q].by
         /\ Disposing(ss, s)[q].ready = ss[q].ready
         /\ Disposing(ss, s)[q].st =
              IF q = s /\ ss[q].st = "live" THEN "disposing" ELSE ss[q].st
BY DEF Disposing, SessRecord

\* A ref that is spoken of now.
Known(r) ==
  \/ r \in {0, reg, adopted.ref, park.ref}
  \/ \E c \in Caller : r = call[c].ref
  \/ \E s \in Session : r = sess[s].ref

\* No ref is ever taken back, so a step that speaks of known refs and of the one it
\* registers speaks of refs that were created.
LEMMA BornStep ==
  ASSUME IInv, RefsBorn, TypeOK',
         \A q \in Ref : ref[q] # Unborn => ref'[q] # Unborn,
         Born(reg)',
         Known(adopted'.ref) \/ adopted'.ref = reg',
         Known(park'.ref),
         \A c \in Caller : Known(call'[c].ref) \/ call'[c].ref = reg',
         \A s \in Session : Known(sess'[s].ref) \/ sess'[s].ref = reg'
  PROVE  RefsBorn'
<1>1. \A r \in Ref0 : Known(r) => Born(r)
  BY DEF Known, RefsBorn, Born
<1>2. \A r \in Ref0 : Known(r) \/ r = reg' => Born(r)'
  BY <1>1 DEF Born, Ref0
<1>3. /\ adopted'.ref \in Ref0 /\ park'.ref \in Ref0
      /\ \A c \in Caller : call'[c].ref \in Ref0
      /\ \A s \in Session : sess'[s].ref \in Ref0
  BY DEF TypeOK, Adoption, ParkRecord, CallRecord, SessRecord
<1> QED BY <1>2, <1>3 DEF RefsBorn

\* A step that leaves reg, the parks and the calls alone and at most ends sessions.
LEMMA FrameStep ==
  ASSUME IInv, Frame, TypeOK',
         \A q \in Ref : ref[q] # Unborn => ref'[q] # Unborn,
         UNCHANGED <<reg, park, call, rel, spawn>>,
         adopted'.ref \in {0, adopted.ref, reg}, AdoptionNone',
         \A s \in Session : sess'[s].ref = sess[s].ref /\ (sess'[s].st = "live" => sess[s].st = "live")
  PROVE  Frame'
<1>1. /\ Known(adopted'.ref) /\ Known(park'.ref) /\ Born(reg)'
      /\ \A c \in Caller : Known(call'[c].ref)
      /\ \A s \in Session : Known(sess'[s].ref)
  BY DEF Known, Frame, RefsBorn, Born, IInv, TypeOK, Ref0
<1>2. RefsBorn'
  BY <1>1, BornStep DEF Frame
<1>3. KillsOnly' /\ WokenWait' /\ RefsKnown'
  BY DEF Frame, KillsOnly, WokenWait, RefsKnown
<1> QED BY <1>2, <1>3 DEF Frame

-----------------------------------------------------------------------------
\* Sessions.

\* Without removals the end of a disposal forgets no ref: the session's ref is
\* retired, killed or parked.
LEMMA NothingForgotten ==
  ASSUME IInv, Core, NEW s \in Session, sess[s].st = "disposing"
  PROVE  ~Forgets(sess[s].ref)
<1> SUFFICES ASSUME Forgets(sess[s].ref) PROVE FALSE
  OBVIOUS
<1>1. /\ reg = sess[s].ref /\ reg \in Ref /\ reg # 0 /\ ref[reg].status # "parked"
      /\ ~(ref[reg].status = "aborted" /\ ref[reg].session = 0)
      /\ ~(park.ref = reg /\ ~park.cancelled)
  BY DEF Forgets, IInv, TypeOK, Ref0
<1>2. CASE StatusOf(reg) = "aborted"
  BY <1>1, <1>2, Bounds DEF StatusOf, IInv, KilledDetached, Killed
<1>3. CASE park.detached /\ park.sess = s /\ park.ref = reg
  BY <1>1, <1>3 DEF Core, ParkDetaching
<1> QED BY <1>1, <1>2, <1>3 DEF Core, DisposingOk

\* The end of a disposal forgets neither the registered ref nor its adoption.
LEMMA SessionDisposedSafe ==
  ASSUME SInv, NEW s \in Session, SessionDisposed(s) PROVE SInv'
<1>1. IInv' /\ DeadStep
  BY SessionDisposedStep DEF SInv
<1>2. /\ UNCHANGED <<ref, stray, park, revival, reopen, call, rel, spawn, marker, stale>>
      /\ sess[s].st = "disposing"
      /\ sess' = [sess EXCEPT ![s].st = "disposed"]
  BY DEF SessionDisposed
<1>3. \A q \in Session :
        /\ sess'[q].ref = sess[q].ref /\ sess'[q].by = sess[q].by /\ sess'[q].ready = sess[q].ready
        /\ sess'[q].st = IF q = s THEN "disposed" ELSE sess[q].st
  BY <1>2 DEF SInv, IInv, TypeOK, SessRecord
<1>4. Frame'
  <2>1. reg' \in {0, reg} /\ adopted' \in {NoAdoption, adopted}
    BY DEF SessionDisposed, Unregister, OnRemoved
  <2> QED BY <1>2, <1>3, <2>1
        DEF SInv, Frame, RefsBorn, Born, KillsOnly, WokenWait, AdoptionNone, NoAdoption, RefsKnown
<1>5. ~stale => UNCHANGED <<reg, adopted>>
  BY <1>2, NothingForgotten DEF SInv, SessionDisposed
<1>6. ~stale' => Core'
  <2> SUFFICES ASSUME ~stale' PROVE Core'
    OBVIOUS
  <2>1. Core /\ UNCHANGED <<reg, adopted>>
    BY <1>2, <1>5 DEF SInv
  <2> USE <2>1, <1>2, <1>3 DEF Core
  <2>2. AttachedOk'
    BY DEF AttachedOk, SInv, IInv, TypeOK, RefRecord, Session0
  <2>3. DisposingOk' /\ InitialisingOk' /\ RunOk' /\ SpawnOk'
    BY DEF DisposingOk, InitialisingOk, RunOk, SpawnOk, StatusOf
  <2>4. RevivalOk'
    BY DEF RevivalOk, Revives, StatusOf, InitialisingOk
  <2>5. IdleOk' /\ AdoptedOk' /\ ParkBegun' /\ ParkDetaching' /\ CapturedOk' /\ HeldOk'
    BY DEF IdleOk, AdoptedOk, ParkBegun, ParkDetaching, CapturedOk, HeldOk, StatusOf, SessionOf
  <2> QED BY <2>2, <2>3, <2>4, <2>5
<1>7. Unkilled => Quiet' /\ IdleIsTimed'
  BY <1>2, <1>5, SInvFacts DEF Quiet, IdleIsTimed, StatusOf
<1> QED BY <1>1, <1>4, <1>6, <1>7, SInvStep

\* A turn begins or ends on the registered ref with its live, initialised session.
LEMMA TurnSafe == ASSUME SInv, StartTurn \/ EndTurn PROVE SInv'
<1>1. IInv' /\ DeadStep
  BY TurnStep DEF SInv
<1>2. /\ UNCHANGED <<reg, sess, stray, park, revival, reopen, call, rel, spawn, marker, stale>>
      /\ reg \in Ref /\ ref[reg].session # 0 /\ ref[reg].session \in Session
      /\ sess[ref[reg].session].st = "live" /\ sess[ref[reg].session].ready
  BY DEF StartTurn, EndTurn, SInv, IInv, TypeOK, Ref0, RefRecord, Session0, StatusOf, SessionOf
<1>3. \A q \in Ref :
        /\ ref'[q].session = ref[q].session
        /\ q # reg => ref'[q] = ref[q]
  BY <1>2 DEF StartTurn, EndTurn, SInv, IInv, TypeOK, RefRecord
<1>4. CASE StartTurn
  <2>1. /\ ref[reg].status = "idle" /\ ref'[reg].status = "running"
        /\ adopted' = OnRunning(adopted, reg)
    BY <1>2, <1>4 DEF StartTurn, SInv, IInv, TypeOK, RefRecord, StatusOf
  <2>2. /\ adopted'.ref = adopted.ref /\ adopted'.by = adopted.by
        /\ adopted.ref = reg => ~adopted'.timer
        /\ adopted.ref # reg => adopted' = adopted
    BY <2>1 DEF OnRunning, SInv, IInv, TypeOK, Adoption
  <2>3. Frame'
    <3>1. \A q \in Ref : ref[q] # Unborn => ref'[q] # Unborn
      BY <1>3, <2>1 DEF Unborn
    <3>2. AdoptionNone'
      BY <2>2, <1>2, Bounds DEF AdoptionNone, SInv, Frame
    <3> QED BY <1>1, <1>2, <2>2, <3>1, <3>2, FrameStep DEF SInv, IInv
  <2>4. ~stale' => Core'
    <3> SUFFICES ASSUME ~stale' PROVE Core'
      OBVIOUS
    <3>1. Core
      BY <1>2 DEF SInv
    <3> USE <3>1, <1>2, <1>3, <2>1, <2>2 DEF Core, StatusOf, SessionOf
    <3>2. AttachedOk' /\ DisposingOk' /\ InitialisingOk'
      BY DEF AttachedOk, DisposingOk, InitialisingOk
    <3>3. RevivalOk' /\ RunOk'
      BY DEF RevivalOk, Revives, RunOk, Parked
    <3>4. SpawnOk' /\ CapturedOk'
      BY DEF SpawnOk, CapturedOk, Killed, SInv, IInv, TypeOK, RelRecord, Ref0, Frame, RefsKnown
    <3>5. IdleOk' /\ AdoptedOk' /\ ParkBegun' /\ ParkDetaching' /\ HeldOk'
      BY DEF IdleOk, AdoptedOk, ParkBegun, ParkDetaching, HeldOk
    <3> QED BY <3>2, <3>3, <3>4, <3>5
  <2>5. Unkilled => Quiet' /\ IdleIsTimed'
    BY <1>2, <1>3, <2>1, <2>2, SInvFacts DEF Quiet, IdleIsTimed, StatusOf, Parked
  <2> QED BY <1>1, <2>3, <2>4, <2>5, SInvStep
<1>5. CASE EndTurn
  <2>1. /\ ref[reg].status = "running" /\ ref'[reg].status = "idle"
        /\ sess[ref[reg].session].by # "run"
        /\ adopted' = OnIdle(adopted, reg)
    BY <1>2, <1>5 DEF EndTurn, SInv, IInv, TypeOK, RefRecord, StatusOf
  <2>2. /\ adopted'.ref = adopted.ref /\ adopted'.by = adopted.by
        /\ adopted.ref = reg /\ park = NoPark => adopted'.timer
        /\ adopted.ref # reg \/ park # NoPark => adopted' = adopted
    BY <2>1 DEF OnIdle, SInv, IInv, TypeOK, Adoption
  <2>3. Frame'
    <3>1. \A q \in Ref : ref[q] # Unborn => ref'[q] # Unborn
      BY <1>3, <2>1 DEF Unborn
    <3>2. AdoptionNone'
      BY <2>2, <1>2, Bounds DEF AdoptionNone, SInv, Frame
    <3> QED BY <1>1, <1>2, <2>2, <3>1, <3>2, FrameStep DEF SInv, IInv
  <2>4. ~stale' => Core'
    <3> SUFFICES ASSUME ~stale' PROVE Core'
      OBVIOUS
    <3>1. Core
      BY <1>2 DEF SInv
    <3> USE <3>1, <1>2, <1>3, <2>1, <2>2 DEF Core, StatusOf, SessionOf
    <3>2. AttachedOk' /\ DisposingOk' /\ InitialisingOk'
      BY DEF AttachedOk, DisposingOk, InitialisingOk
    <3>3. RevivalOk' /\ RunOk'
      BY DEF RevivalOk, Revives, RunOk, Parked
    <3>4. SpawnOk' /\ CapturedOk'
      BY DEF SpawnOk, CapturedOk, Killed, SInv, IInv, TypeOK, RelRecord, Ref0, Frame, RefsKnown
    <3>5. IdleOk' /\ AdoptedOk' /\ ParkBegun' /\ ParkDetaching' /\ HeldOk'
      BY DEF IdleOk, AdoptedOk, ParkBegun, ParkDetaching, HeldOk
    <3> QED BY <3>2, <3>3, <3>4, <3>5
  <2>5. Unkilled => Quiet' /\ IdleIsTimed'
    BY <1>2, <1>3, <2>1, <2>2, SInvFacts DEF Quiet, IdleIsTimed, StatusOf, Parked
  <2> QED BY <1>1, <2>3, <2>4, <2>5, SInvStep
<1> QED BY <1>4, <1>5


\* The end of a session that no ref holds concerns no ref, park or adoption.
LEMMA EndsUnattached ==
  ASSUME IInv, Core, NEW s \in Session,
         \A q \in Ref : ref[q].session # s,
         sess[s].ref # reg \/ StatusOf(reg) = "aborted",
         UNCHANGED <<reg, ref, park, adopted>>,
         \A q \in Session :
           /\ sess'[q].ref = sess[q].ref
           /\ q # s => sess'[q].st = sess[q].st /\ sess'[q].by = sess[q].by /\ sess'[q].ready = sess[q].ready,
         sess'[s].st = IF sess[s].st = "live" THEN "disposing" ELSE sess[s].st
  PROVE  AttachedOk' /\ DisposingOk' /\ RunOk' /\ IdleOk' /\ AdoptedOk' /\ ParkBegun' /\ ParkDetaching'
<1> USE DEF Core
<1>1. \A q \in Ref : ref[q].session # 0 => ref[q].session \in Session /\ ref[q].session # s
  BY DEF IInv, TypeOK, RefRecord, Session0
<1>2. reg # 0 => reg \in Ref
  BY DEF IInv, TypeOK, Ref0
<1>3. AttachedOk'
  BY <1>1 DEF AttachedOk
<1>4. DisposingOk'
  BY DEF DisposingOk, StatusOf
<1>5. RunOk'
  BY DEF RunOk, StatusOf
<1>6. IdleOk' /\ AdoptedOk'
  BY <1>1, <1>2 DEF IdleOk, AdoptedOk, StatusOf, SessionOf
<1>7. park # NoPark => park.sess \in Session
  BY DEF IInv, TypeOK, ParkRecord, ParkHasSession, Session0
<1>8. ParkBegun'
  <2> SUFFICES ASSUME park # NoPark, ~park.detached, park.ref = reg, StatusOf(reg) # "aborted"
               PROVE  /\ SessionOf(reg) = park.sess
                      /\ sess'[park.sess].ready /\ sess'[park.sess].by = "manager"
                      /\ ~(adopted.ref = reg /\ adopted.timer)
    BY DEF ParkBegun, StatusOf, SessionOf
  <2>1. /\ SessionOf(reg) = park.sess /\ park.sess # 0
        /\ sess[park.sess].ready /\ sess[park.sess].by = "manager"
        /\ ~(adopted.ref = reg /\ adopted.timer)
    BY DEF ParkBegun, IInv, ParkHasSession
  <2>2. park.sess # s
    BY <1>1, <1>2, <2>1 DEF SessionOf
  <2> QED BY <1>7, <2>1, <2>2
<1>9. ParkDetaching'
  <2>1. park.detached => park.sess \in Session
    BY <1>7 DEF NoPark
  <2> QED BY <2>1 DEF ParkDetaching
<1> QED BY <1>3, <1>4, <1>5, <1>6, <1>8, <1>9

\* The hand-over of the executor's run, which nothing else can have parked.
LEMMA FinishSafe == ASSUME SInv, NEW s \in Session, Finish(s) PROVE SInv'
<1>1. IInv' /\ DeadStep
  BY FinishStep DEF SInv
<1>2. /\ UNCHANGED <<reg, stray, park, revival, reopen, call, rel, spawn, marker, stale>>
      /\ sess[s].by = "run" /\ sess[s].st = "live"
  BY DEF Finish
<1>3. \A q \in Session :
        /\ sess'[q].ref = sess[q].ref /\ sess'[q].ready = sess[q].ready
        /\ sess'[q].by = IF q = s THEN "manager" ELSE sess[q].by
        /\ q # s => sess'[q].st = sess[q].st
  <2>1. [sess EXCEPT ![s].by = "manager"] \in [Session -> SessRecord]
    BY DEF SInv, IInv, TypeOK, SessRecord
  <2>2. \/ sess' = [sess EXCEPT ![s].by = "manager"]
        \/ sess' = Disposing([sess EXCEPT ![s].by = "manager"], s)
    BY DEF Finish
  <2> DEFINE ss == [sess EXCEPT ![s].by = "manager"]
  <2>3. \A q \in Session :
          /\ ss[q].ref = sess[q].ref /\ ss[q].ready = sess[q].ready /\ ss[q].st = sess[q].st
          /\ ss[q].by = IF q = s THEN "manager" ELSE sess[q].by
    BY DEF SInv, IInv, TypeOK, SessRecord
  <2>4. ss \in [Session -> SessRecord] /\ (sess' = ss \/ sess' = Disposing(ss, s))
    BY <2>1, <2>2
  <2> HIDE DEF ss
  <2> QED BY <2>3, <2>4, DisposingFacts
<1>4. CASE reg = sess[s].ref /\ ref[reg].session = s
  <2>1. /\ sess' = [sess EXCEPT ![s].by = "manager"]
        /\ ref' = [ref EXCEPT ![reg].status = "idle"]
        /\ adopted' = [ref |-> reg, by |-> "executor", timer |-> TRUE]
    BY <1>4 DEF Finish
  <2>2. sess'[s].st = "live"
    BY <1>2, <2>1 DEF SInv, IInv, TypeOK, SessRecord
  <2>3. ~stale' => Core'
    <3> SUFFICES ASSUME ~stale' PROVE Core'
      OBVIOUS
    <3>1. Core
      BY <1>2 DEF SInv
    <3>2. reg \in Ref
      BY <1>2, <1>4 DEF SInv, Frame, RefsKnown, IInv, TypeOK, Ref0
    <3>3. /\ ref'[reg] = [status |-> "idle", session |-> s] /\ ref[reg].session = s
          /\ \A q \in Ref : ref'[q].session = ref[q].session /\ (q # reg => ref'[q] = ref[q])
      BY <1>4, <2>1, <3>2 DEF SInv, IInv, TypeOK, RefRecord
    <3>4. ref[reg] = [status |-> "running", session |-> s]
      BY <1>2, <1>4, <3>1, <3>2, Bounds
         DEF Core, RunOk, StatusOf, SInv, IInv, KilledDetached, Killed
    <3> USE <3>1, <1>2, <1>3, <1>4, <2>1, <2>2, <3>2, <3>3, <3>4 DEF Core, StatusOf, SessionOf
    <3>5. AttachedOk' /\ DisposingOk'
      BY Bounds DEF AttachedOk, DisposingOk, SInv, IInv, TypeOK, RefRecord, Session0
    <3>6. InitialisingOk' /\ RevivalOk' /\ RunOk'
      BY Bounds DEF RevivalOk, Revives, RunOk, Parked, InitialisingOk
    <3>7. SpawnOk' /\ CapturedOk'
      BY Bounds DEF SpawnOk, CapturedOk, Killed, SInv, IInv, TypeOK, RelRecord, Ref0
    <3>8. IdleOk' /\ AdoptedOk' /\ HeldOk'
      <4>1. IdleOk'
        BY Bounds DEF IdleOk, RunOk
      <4>2. AdoptedOk'
        BY Bounds DEF AdoptedOk
      <4>3. HeldOk'
        BY Bounds DEF HeldOk
      <4> QED BY <4>1, <4>2, <4>3
    <3>9. ParkBegun' /\ ParkDetaching'
      BY Bounds DEF ParkBegun, ParkDetaching, SInv, IInv, TypeOK, ParkRecord, Session0
    <3> QED BY <3>5, <3>6, <3>7, <3>8, <3>9
  <2>4. Frame'
    <3>1. \A q \in Ref : ref[q] # Unborn => ref'[q] # Unborn
      BY <2>1 DEF Unborn, SInv, IInv, TypeOK, RefRecord
    <3>2. AdoptionNone' /\ adopted'.ref = reg
      BY <1>2, <1>4, <2>1 DEF AdoptionNone, SInv, Frame, RefsKnown
    <3> QED BY <1>1, <1>2, <1>3, <3>1, <3>2, FrameStep DEF SInv, IInv
  <2>5. Unkilled => Quiet' /\ IdleIsTimed'
    <3> SUFFICES ASSUME Unkilled PROVE Quiet' /\ IdleIsTimed'
      OBVIOUS
    <3>1. Quiet /\ Core /\ ~stale
      BY SInvFacts
    <3>2. park # NoPark => park.detached
      BY <1>2, <1>4, <3>1, RegFacts DEF Quiet, Core, ParkBegun, Unkilled, SInv, IInv, Frame, RefsKnown
    <3>3. park = NoPark
      BY <1>2, <1>4, <3>1, <3>2, Bounds DEF Quiet, Parked, NoPark
    <3> QED BY <1>2, <2>1, <3>1, <3>3 DEF Quiet, IdleIsTimed, NoPark
  <2> QED BY <1>1, <2>3, <2>4, <2>5, SInvStep
<1>5. CASE ~(reg = sess[s].ref /\ ref[reg].session = s)
  <2>1. /\ sess' = Disposing([sess EXCEPT ![s].by = "manager"], s)
        /\ UNCHANGED <<ref, adopted>>
    BY <1>5 DEF Finish
  <2>2. sess'[s].st = "disposing"
    <3>1. [sess EXCEPT ![s].by = "manager"] \in [Session -> SessRecord]
      BY DEF SInv, IInv, TypeOK, SessRecord
    <3>2. [sess EXCEPT ![s].by = "manager"][s].st = "live"
      BY <1>2 DEF SInv, IInv, TypeOK
    <3> QED BY <2>1, <3>1, <3>2, DisposingFacts
  <2>3. Frame'
    BY <1>1, <1>2, <1>3, <2>1, <2>2, FrameStep DEF SInv, IInv, Frame, AdoptionNone
  <2>4. ~stale' => Core'
    <3> SUFFICES ASSUME ~stale' PROVE Core'
      OBVIOUS
    <3>1. Core
      BY <1>2 DEF SInv
    <3>2. reg \in Ref => ref[reg].session # s
      BY <1>5, <3>1, Bounds DEF Core, AttachedOk
    <3>3. \A q \in Ref : ref[q].session # s
      BY <3>1, <3>2, Bounds DEF Core, AttachedOk
    <3>4. sess[s].ref # reg \/ StatusOf(reg) = "aborted"
      <4>1. ref[reg] # [status |-> "running", session |-> s] \/ reg \notin Ref
        BY <3>2
      <4> QED BY <1>2, <3>1, <4>1 DEF Core, RunOk, SInv, Frame, RefsKnown, IInv, TypeOK, Ref0
    <3>5. /\ AttachedOk' /\ DisposingOk' /\ RunOk' /\ IdleOk' /\ AdoptedOk' /\ ParkBegun'
          /\ ParkDetaching'
      BY <1>2, <1>3, <2>1, <2>2, <3>1, <3>3, <3>4, EndsUnattached DEF SInv
    <3>6. InitialisingOk' /\ RevivalOk'
      BY <1>2, <1>3, <2>1, <3>1 DEF Core, InitialisingOk, RevivalOk, Revives, StatusOf
    <3>7. SpawnOk' /\ CapturedOk'
      BY <1>2, <1>3, <2>1, <3>1 DEF Core, SpawnOk, CapturedOk, SInv, IInv, TypeOK, RelRecord, Session0
    <3>8. HeldOk'
      BY <1>2, <1>3, <2>1, <2>2, <3>1 DEF Core, HeldOk, SessionOf
    <3> QED BY <3>5, <3>6, <3>7, <3>8 DEF Core
  <2>5. Unkilled => Quiet' /\ IdleIsTimed'
    BY <1>2, <2>1, SInvFacts DEF Quiet, IdleIsTimed, StatusOf
  <2> QED BY <1>1, <2>3, <2>4, <2>5, SInvStep
<1> QED BY <1>4, <1>5

-----------------------------------------------------------------------------
\* Parking.

\* The end of a park moves those who await it on, and nobody else.
LEMMA WokenMoves ==
  ASSUME TypeOK
  PROVE  /\ \A c \in Caller :
              /\ WokenCalls[c].ref = call[c].ref /\ WokenCalls[c].sess = call[c].sess
              /\ WokenCalls[c].pc = IF call[c].pc = "keeping" THEN "kept"
                                    ELSE IF call[c].pc = "waiting" THEN "woken" ELSE call[c].pc
         /\ \A k \in Releaser :
              /\ WokenReleases[k].ref = rel[k].ref /\ WokenReleases[k].live = rel[k].live
              /\ WokenReleases[k].tomb = rel[k].tomb
              /\ WokenReleases[k].pc = IF rel[k].pc = "parkWait" THEN "commit" ELSE rel[k].pc
<1>1. \A c \in Caller :
        /\ WokenCalls[c].ref = call[c].ref /\ WokenCalls[c].sess = call[c].sess
        /\ WokenCalls[c].pc = IF call[c].pc = "keeping" THEN "kept"
                              ELSE IF call[c].pc = "waiting" THEN "woken" ELSE call[c].pc
  BY DEF WokenCalls, TypeOK, CallRecord
<1>2. \A k \in Releaser :
        /\ WokenReleases[k].ref = rel[k].ref /\ WokenReleases[k].live = rel[k].live
        /\ WokenReleases[k].tomb = rel[k].tomb
        /\ WokenReleases[k].pc = IF rel[k].pc = "parkWait" THEN "commit" ELSE rel[k].pc
  BY DEF WokenReleases, TypeOK, RelRecord
<1> QED BY <1>1, <1>2

\* A park begins for the idle, initialised session whose timer ran out.
LEMMA TimerFiresSafe == ASSUME SInv, TimerFires PROVE SInv'
<1>1. IInv' /\ DeadStep
  BY TimerFiresStep DEF SInv
<1>2. UNCHANGED <<reg, ref, sess, revival, reopen, call, rel, spawn, marker>>
  BY DEF TimerFires
<1>3. PICK own \in BOOLEAN :
        /\ IF own THEN adopted.timer ELSE stray
        /\ stray' = (stray /\ own)
        /\ stale' = (stale \/ (~own /\ Parkable /\ StatusOf(reg) # "idle"))
        /\ \/ /\ Parkable
              /\ park' = [NoPark EXCEPT !.ref = reg, !.sess = ref[reg].session]
              /\ adopted' = [adopted EXCEPT !.timer = FALSE]
           \/ /\ ~Parkable
              /\ adopted' = [adopted EXCEPT !.timer = @ /\ ~own]
              /\ UNCHANGED park
  BY DEF TimerFires
<1>4. adopted'.ref = adopted.ref /\ adopted'.by = adopted.by /\ (adopted'.timer => adopted.timer)
  BY <1>3 DEF SInv, IInv, TypeOK, Adoption
<1>5. AdoptionNone'
  BY <1>3, <1>4 DEF SInv, Frame, AdoptionNone, NoAdoption
<1>6. CASE Parkable
  <2>1. /\ park = NoPark /\ reg \in Ref /\ adopted.ref = reg
        /\ ref[reg].session # 0 /\ ref[reg].session \in Session
    BY <1>6 DEF Parkable, SessionOf, SInv, IInv, TypeOK, Ref0, RefRecord, Session0
  <2>2. /\ park' = [NoPark EXCEPT !.ref = reg, !.sess = ref[reg].session]
        /\ adopted' = [adopted EXCEPT !.timer = FALSE]
    BY <1>3, <1>6
  <2>3. /\ park'.ref = reg /\ park'.sess = ref[reg].session /\ ~park'.detached /\ ~park'.cancelled
        /\ park' # NoPark /\ ~adopted'.timer
    BY <2>1, <2>2 DEF NoPark, SInv, IInv, TypeOK, Adoption
  <2>4. Frame'
    <3>1. WokenWait'
      <4> SUFFICES ASSUME NEW c \in Caller PROVE call[c].pc \notin {"kept", "woken", "keeping"}
        BY <1>2 DEF WokenWait
      <4> QED BY <2>1 DEF TimerFires, Pending, SInv, Frame, WokenWait
    <3>2. RefsBorn'
      BY <1>1, <1>2, <1>4, <2>3, BornStep DEF Known, SInv, Frame, RefsBorn, Born, IInv
    <3> QED BY <1>2, <1>5, <2>1, <2>3, <3>1, <3>2, Bounds DEF SInv, Frame, KillsOnly, RefsKnown
  <2>5. ~stale' => Core'
    <3> SUFFICES ASSUME ~stale' PROVE Core'
      OBVIOUS
    <3>1. Core /\ (own \/ StatusOf(reg) = "idle")
      BY <1>3, <1>6 DEF SInv
    <3>2. StatusOf(reg) = "idle" /\ SessionOf(reg) = ref[reg].session
      BY <1>3, <2>1, <3>1, Bounds
         DEF Core, AdoptedOk, StatusOf, SessionOf, SInv, IInv, KilledDetached, Killed
    <3>3. sess[ref[reg].session].ready /\ sess[ref[reg].session].by = "manager"
      BY <2>1, <3>1, <3>2, Bounds DEF Core, IdleOk, AdoptedOk
    <3>4. ParkBegun' /\ AdoptedOk'
      BY <1>2, <1>4, <2>3, <3>1, <3>2, <3>3 DEF Core, ParkBegun, AdoptedOk, StatusOf, SessionOf
    <3>5. AttachedOk' /\ DisposingOk' /\ RevivalOk' /\ InitialisingOk' /\ RunOk'
      BY <1>2, <2>1, <3>1 DEF Core, AttachedOk, DisposingOk, RevivalOk, InitialisingOk, RunOk,
         Revives, StatusOf, NoPark
    <3>6. SpawnOk' /\ IdleOk' /\ ParkDetaching' /\ CapturedOk' /\ HeldOk'
      BY <1>2, <1>4, <2>3, <3>1 DEF Core, SpawnOk, IdleOk, ParkDetaching, CapturedOk, HeldOk,
         StatusOf, SessionOf
    <3> QED BY <3>4, <3>5, <3>6 DEF Core
  <2>6. Unkilled => Quiet' /\ IdleIsTimed'
    <3> SUFFICES ASSUME Unkilled PROVE Quiet' /\ IdleIsTimed'
      OBVIOUS
    <3>1. Quiet /\ own
      BY <1>3, SInvFacts DEF Quiet
    <3>2. IdleIsTimed'
      BY <2>3 DEF IdleIsTimed
    <3> QED BY <1>2, <1>3, <1>4, <2>1, <2>3, <3>1, <3>2 DEF Quiet
  <2> QED BY <1>1, <2>4, <2>5, <2>6, SInvStep
<1>7. CASE ~Parkable
  <2>1. UNCHANGED park /\ adopted' = [adopted EXCEPT !.timer = @ /\ ~own]
    BY <1>3, <1>7
  <2>2. Frame'
    BY <1>1, <1>2, <1>4, <1>5, <2>1, FrameStep DEF SInv, IInv
  <2>3. ~stale' => Core'
    <3> SUFFICES ASSUME ~stale' PROVE Core'
      OBVIOUS
    <3>1. Core
      BY <1>3 DEF SInv
    <3>2. AttachedOk' /\ DisposingOk' /\ RevivalOk' /\ InitialisingOk' /\ RunOk'
      BY <1>2, <2>1, <3>1 DEF Core, AttachedOk, DisposingOk, RevivalOk, InitialisingOk, RunOk,
         Revives, StatusOf
    <3>3. SpawnOk' /\ IdleOk' /\ ParkDetaching' /\ CapturedOk' /\ HeldOk' /\ ParkBegun' /\ AdoptedOk'
      BY <1>2, <1>4, <2>1, <3>1 DEF Core, SpawnOk, IdleOk, ParkDetaching, CapturedOk, HeldOk,
         ParkBegun, AdoptedOk, StatusOf, SessionOf
    <3> QED BY <3>2, <3>3 DEF Core
  <2>4. Unkilled => Quiet' /\ IdleIsTimed'
    <3> SUFFICES ASSUME Unkilled PROVE Quiet' /\ IdleIsTimed'
      OBVIOUS
    <3>1. Quiet /\ Core /\ own
      BY <1>3, SInvFacts DEF Quiet
    <3>2. IdleIsTimed'
      <4> SUFFICES ASSUME StatusOf(reg) = "idle", adopted.ref = reg PROVE park # NoPark
        BY <1>2, <1>4, <2>1 DEF IdleIsTimed, StatusOf
      <4>1. reg # 0 /\ SessionOf(reg) # 0
        BY <3>1, RegFacts DEF Core, IdleOk, SInv, IInv
      <4> QED BY <1>7, <4>1 DEF Parkable
    <3>3. Quiet'
      BY <1>2, <1>3, <1>4, <2>1, <3>1 DEF Quiet
    <3> QED BY <3>2, <3>3
  <2> QED BY <1>1, <2>2, <2>3, <2>4, SInvStep
<1> QED BY <1>6, <1>7

\* The end of a park without a commit leaves what the operations know of each other.
LEMMA ParkOverCore ==
  ASSUME SInv, Core, UNCHANGED <<reg, ref, sess, adopted, revival, spawn>>,
         park' = NoPark, call' = WokenCalls, rel' = WokenReleases,
         park.detached => sess[park.sess].st # "disposing"
  PROVE  Core'
<1>1. TypeOK
  BY DEF SInv, IInv
<1>2. AttachedOk' /\ RunOk' /\ SpawnOk' /\ IdleOk' /\ AdoptedOk'
  BY DEF Core, AttachedOk, RunOk, SpawnOk, IdleOk, AdoptedOk, StatusOf, SessionOf
<1>3. DisposingOk' /\ ParkBegun' /\ ParkDetaching'
  BY DEF Core, DisposingOk, ParkBegun, ParkDetaching, NoPark, StatusOf, SessionOf
<1>4. RevivalOk' /\ InitialisingOk'
  BY <1>1, WokenMoves DEF Core, RevivalOk, Revives, InitialisingOk, Reviving, StatusOf
<1>5. CapturedOk' /\ HeldOk'
  BY <1>1, WokenMoves DEF Core, CapturedOk, HeldOk, SessionOf
<1> QED BY <1>2, <1>3, <1>4, <1>5 DEF Core

\* The frame of a park that is over.
LEMMA ParkOverFrame ==
  ASSUME SInv, TypeOK', UNCHANGED <<reg, ref, sess, adopted, spawn>>,
         park' = NoPark, call' = WokenCalls, rel' = WokenReleases
  PROVE  Frame'
<1>1. TypeOK
  BY DEF SInv, IInv
<1>2. RefsBorn'
  BY WokenMoves, <1>1, BornStep DEF Known, SInv, Frame, RefsBorn, Born, NoPark
<1>3. WokenWait'
  BY <1>1, WokenMoves DEF WokenWait
<1>4. KillsOnly' /\ AdoptionNone'
  BY <1>1, WokenMoves DEF SInv, Frame, KillsOnly, AdoptionNone
<1>5. RefsKnown'
  BY <1>1, WokenMoves DEF SInv, Frame, RefsKnown, Reviving
<1> QED BY <1>2, <1>3, <1>4, <1>5 DEF Frame

\* What is left of Quiet when a park is over.
LEMMA ParkOverQuiet ==
  ASSUME SInv, Quiet, UNCHANGED <<reg, ref, stray, stale, adopted>>,
         park' = NoPark, call' = WokenCalls
  PROVE  Quiet'
BY WokenMoves DEF SInv, IInv, Quiet, Reviving, NoPark

\* Nobody works on a revival of a ref whose session is initialised.
LEMMA InitialisedIsNotRevived ==
  ASSUME Core, StatusOf(reg) # "aborted",
         ref[reg].session # 0, sess[ref[reg].session].ready, NEW c \in Caller
  PROVE  ~(call[c].pc \in Reviving /\ call[c].ref = reg)
<1> SUFFICES ASSUME Revives(c) PROVE FALSE
  BY DEF Revives
<1>1. CASE call[c].pc = "initialising"
  <2>1. ref[reg] = [status |-> "running", session |-> call[c].sess] /\ ~sess[call[c].sess].ready
    BY <1>1 DEF Core, RevivalOk
  <2>2. ref[reg].session = call[c].sess
    BY <2>1
  <2> QED BY <2>1, <2>2
<1>2. CASE call[c].pc # "initialising"
  <2>1. ref[reg] = Parked
    BY <1>2 DEF Core, RevivalOk
  <2> QED BY <2>1 DEF Parked
<1> QED BY <1>1, <1>2

\* A park gives up, leaving the caller that cancelled it to start the timer, or
\* detaches the session, which no revival of the ref can be waiting for.
LEMMA ParkCommitsSafe == ASSUME SInv, ParkCommits PROVE SInv'
<1>1. IInv' /\ DeadStep
  BY ParkCommitsStep DEF SInv
<1>2. UNCHANGED <<reg, adopted, stray, revival, reopen, spawn, marker, stale>>
      /\ park # NoPark /\ ~park.detached
  BY DEF ParkCommits
<1>3. CASE ~ParkStands
  <2>1. park' = NoPark /\ call' = WokenCalls /\ rel' = WokenReleases /\ UNCHANGED <<ref, sess>>
    BY <1>3 DEF ParkCommits
  <2>2. Frame'
    BY <1>1, <1>2, <2>1, ParkOverFrame DEF IInv
  <2>3. ~stale' => Core'
    BY <1>2, <2>1, ParkOverCore DEF SInv
  <2>4. Unkilled => Quiet' /\ IdleIsTimed'
    <3> SUFFICES ASSUME Unkilled PROVE Quiet' /\ IdleIsTimed'
      OBVIOUS
    <3>1. Quiet /\ Core
      BY SInvFacts
    <3>2. Quiet'
      BY <1>2, <2>1, <3>1, ParkOverQuiet
    <3>3. IdleIsTimed'
      <4> SUFFICES ASSUME StatusOf(reg) = "idle", adopted.ref = reg
                   PROVE  \E c \in Caller : call'[c].pc = "kept"
        BY <1>2, <2>1 DEF IdleIsTimed, StatusOf
      <4>1. park.ref = reg /\ SessionOf(reg) = park.sess /\ reg # 0
        BY <1>2, <3>1, RegFacts DEF Quiet, Core, ParkBegun, SInv, IInv
      <4>2. park.cancelled
        BY <1>3, <4>1 DEF ParkStands, SessionOf
      <4>3. PICK c \in Caller : call[c].pc = "keeping"
        BY <1>2, <3>1, <4>2 DEF Quiet
      <4> QED BY <2>1, <4>3, WokenMoves DEF SInv, IInv
    <3> QED BY <3>2, <3>3
  <2> QED BY <1>1, <2>2, <2>3, <2>4, SInvStep
<1>4. CASE ParkStands
  <2>1. /\ park' = [park EXCEPT !.detached = TRUE]
        /\ ref' = [ref EXCEPT ![reg] = Parked]
        /\ sess' = Disposing(sess, park.sess)
        /\ UNCHANGED <<call, rel>>
        /\ ~park.cancelled /\ reg = park.ref /\ adopted.ref = reg /\ ref[reg].session = park.sess
    BY <1>2, <1>4 DEF ParkCommits, ParkedDetached, ParkStands
  <2>2. /\ park'.ref = park.ref /\ park'.sess = park.sess /\ park'.cancelled = park.cancelled
        /\ park'.detached
    BY <2>1 DEF SInv, IInv, TypeOK, ParkRecord
  <2>3. park.sess \in Session /\ park.sess # 0
    BY <1>2, Bounds DEF SInv, IInv, TypeOK, ParkRecord, ParkHasSession, Session0
  <2>4. \A q \in Session :
          /\ sess'[q].ref = sess[q].ref /\ sess'[q].by = sess[q].by
          /\ sess'[q].ready = sess[q].ready
          /\ sess'[q].st = IF q = park.sess /\ sess[q].st = "live" THEN "disposing" ELSE sess[q].st
    BY <2>1, DisposingFacts DEF SInv, IInv, TypeOK
  <2>5. \A q \in Ref : ref[q] # Unborn => ref'[q] # Unborn
    BY <2>1 DEF SInv, IInv, TypeOK, Unborn, Parked
  <2>6. Frame'
    <3>1. WokenWait'
      BY <1>2, <2>1, <2>2 DEF SInv, Frame, WokenWait
    <3>2. RefsBorn'
      BY <1>1, <1>2, <2>1, <2>2, <2>4, <2>5, BornStep DEF Known, SInv, Frame, RefsBorn, Born, IInv, TypeOK, Ref0
    <3>3. KillsOnly' /\ AdoptionNone' /\ RefsKnown'
      BY <1>2, <2>1, <2>4 DEF SInv, Frame, KillsOnly, AdoptionNone, RefsKnown
    <3> QED BY <3>1, <3>2, <3>3 DEF Frame
  <2>7. ~stale' => Core'
    <3> SUFFICES ASSUME ~stale' PROVE Core'
      OBVIOUS
    <3>1. Core
      BY <1>2 DEF SInv
    <3>2. reg \in Ref
      BY <1>2, <2>1 DEF SInv, Frame, RefsKnown, IInv, TypeOK, Ref0
    <3>3. ref'[reg] = Parked /\ \A q \in Ref : q # reg => ref'[q] = ref[q]
      BY <2>1, <3>2 DEF SInv, IInv, TypeOK
    <3>4. StatusOf(reg) = ref[reg].status /\ SessionOf(reg) = park.sess /\ StatusOf(reg) # "aborted"
      BY <2>1, <2>3, <3>2, Bounds DEF StatusOf, SessionOf, SInv, IInv, KilledDetached, Killed
    <3>5. /\ sess[park.sess].ready /\ sess[park.sess].by = "manager" /\ ~adopted.timer
          /\ sess[park.sess].st = "live" /\ sess[park.sess].ref = reg
      BY <1>2, <2>1, <2>3, <3>1, <3>2, <3>4 DEF Core, ParkBegun, AttachedOk
    <3>6. \A c \in Caller : ~(call[c].pc \in Reviving /\ call[c].ref = reg)
      BY <2>1, <2>3, <3>1, <3>4, <3>5, InitialisedIsNotRevived
    <3>7. StatusOf(reg)' = "parked" /\ SessionOf(reg)' = 0
      BY <1>2, <3>2, <3>3, Bounds DEF StatusOf, SessionOf, Parked
    <3>8. AttachedOk' /\ DisposingOk'
      <4>1. \A q \in Ref : ref'[q].session = 0
        BY <3>1, <3>3 DEF Core, AttachedOk, Parked
      <4>2. AttachedOk'
        BY <4>1 DEF AttachedOk
      <4>3. DisposingOk'
        BY <1>2, <2>2, <2>1, <2>4, <3>1, <3>4, <3>5 DEF Core, DisposingOk
      <4> QED BY <4>2, <4>3
    <3>9. RevivalOk' /\ InitialisingOk'
      BY <1>2, <2>1, <2>4, <3>1, <3>6 DEF Core, RevivalOk, Revives, InitialisingOk
    <3>10. RunOk'
      BY <1>2, <2>1, <2>4, <3>1, <3>4, <3>5 DEF Core, RunOk
    <3>11. SpawnOk' /\ CapturedOk'
      <4>1. ref[reg] # Killed /\ ref[reg] # [status |-> "running", session |-> 0]
        BY <2>1, <2>3 DEF Killed
      <4>2. SpawnOk'
        BY <1>2, <3>1, <3>3, <4>1 DEF Core, SpawnOk, SInv, Frame, RefsKnown, IInv, TypeOK, Ref0
      <4>3. CapturedOk'
        <5> SUFFICES ASSUME NEW k \in Releaser, rel[k].pc = "persist", rel[k].live # 0
                     PROVE  ref'[rel[k].ref] = Killed /\ sess'[rel[k].live].ref = rel[k].ref
          BY <2>1 DEF CapturedOk
        <5>1. rel[k].live \in Session /\ rel[k].ref \in Ref
          BY DEF SInv, Frame, RefsKnown, IInv, TypeOK, RelRecord, Ref0, Session0
        <5> QED BY <2>4, <3>1, <3>3, <4>1, <5>1 DEF Core, CapturedOk
      <4> QED BY <4>2, <4>3
    <3>12. IdleOk' /\ AdoptedOk' /\ ParkBegun' /\ ParkDetaching'
      BY <1>2, <2>1, <2>2, <2>4, <2>3, <3>5, <3>7 DEF IdleOk, AdoptedOk, ParkBegun, ParkDetaching
    <3>13. HeldOk'
      BY <1>2, <2>1, <2>4, <2>3, <3>1, <3>4, <3>5 DEF Core, HeldOk
    <3> QED BY <3>8, <3>9, <3>10, <3>11, <3>12, <3>13 DEF Core
  <2>8. Unkilled => Quiet' /\ IdleIsTimed'
    <3> SUFFICES ASSUME Unkilled PROVE Quiet' /\ IdleIsTimed'
      OBVIOUS
    <3>1. Quiet /\ Core
      BY SInvFacts
    <3>2. reg \in Ref /\ ref'[reg] = Parked
      BY <1>2, <2>1 DEF SInv, Frame, RefsKnown, IInv, TypeOK, Ref0
    <3>3. SessionOf(reg) = park.sess /\ StatusOf(reg) # "aborted"
      BY <2>1, <3>2, Bounds DEF StatusOf, SessionOf, Unkilled
    <3>4. sess[park.sess].ready
      BY <1>2, <2>1, <3>1, <3>3 DEF Core, ParkBegun
    <3>5. \A c \in Caller : call[c].pc \notin Reviving
      BY <2>1, <2>3, <3>1, <3>3, <3>4, InitialisedIsNotRevived DEF Quiet
    <3>6. Quiet'
      BY <1>2, <2>1, <2>2, <3>1, <3>2, <3>5 DEF Quiet
    <3>7. IdleIsTimed'
      BY <1>2, <2>2 DEF IdleIsTimed, NoPark
    <3> QED BY <3>6, <3>7
  <2> QED BY <1>1, <2>6, <2>7, <2>8, SInvStep
<1> QED BY <1>3, <1>4

\* A park ends when its session is disposed of, with nobody at work on the ref.
LEMMA ParkEndsSafe == ASSUME SInv, ParkEnds PROVE SInv'
<1>1. IInv' /\ DeadStep
  BY ParkEndsStep DEF SInv
<1>2. /\ park' = NoPark /\ call' = WokenCalls /\ rel' = WokenReleases
      /\ UNCHANGED <<reg, ref, sess, adopted, stray, revival, reopen, spawn, marker, stale>>
      /\ park.detached /\ sess[park.sess].st = "disposed"
  BY DEF ParkEnds
<1>3. Frame'
  BY <1>1, <1>2, ParkOverFrame DEF IInv
<1>4. ~stale' => Core'
  BY <1>2, ParkOverCore DEF SInv
<1>5. Unkilled => Quiet' /\ IdleIsTimed'
  <2> SUFFICES ASSUME Unkilled PROVE Quiet' /\ IdleIsTimed'
    OBVIOUS
  <2>1. Quiet
    BY SInvFacts
  <2>2. Quiet'
    BY <1>2, <2>1, ParkOverQuiet
  <2>3. ref[reg] = Parked /\ reg # 0
    BY <1>2, <2>1 DEF Quiet, SInv, Frame, RefsKnown, NoPark
  <2>4. IdleIsTimed'
    BY <1>2, <2>3 DEF IdleIsTimed, StatusOf, Parked
  <2> QED BY <2>2, <2>4
<1> QED BY <1>1, <1>3, <1>4, <1>5, SInvStep

-----------------------------------------------------------------------------
\* The calls of ensureLive().

\* What caller c has become by looking up ref r, all other calls being what they
\* were: it has an answer, waits for another caller's flight or has started one
\* of its own.
LookedUp(c, r) ==
  /\ \A d \in Caller : d # c => call'[d] = call[d]
  /\ call'[c].pc \in {"returned", "failed", "joinRevive", "joinReopen", "probing",
                      "rejecting", "reviving", "preparing"}
  /\ call'[c].ref \in {0, r}
  /\ call'[c].pc = "returned" => r \in Ref /\ ref[r].session # 0 /\ call'[c].sess = ref[r].session
  /\ call'[c].pc \in {"joinReopen", "probing"} => StatusOf(r) = "aborted"
  /\ call'[c].pc \in {"reviving", "preparing"} =>
       /\ r \in Ref /\ call'[c].ref = r /\ ref[r] = Parked
       /\ revival' = [ref |-> r, owner |-> c]
  /\ revival' # revival => revival.ref # r

\* The records of a call's outcomes.
LEMMA OutcomeFields ==
  ASSUME TypeOK, NEW c \in Caller
  PROVE  /\ \A s : /\ Returned(c, s)[c].pc = "returned" /\ Returned(c, s)[c].ref = 0
                   /\ Returned(c, s)[c].sess = s
         /\ Failed(c)[c].pc = "failed" /\ Failed(c)[c].ref = 0
         /\ \A pc, r : At(c, pc, r)[c].pc = pc /\ At(c, pc, r)[c].ref = r
         /\ \A pc, r, o : Joining(c, pc, r, o)[c].pc = pc /\ Joining(c, pc, r, o)[c].ref = r
         /\ \A d \in Caller : d # c =>
              /\ \A s : Returned(c, s)[d] = call[d]
              /\ Failed(c)[d] = call[d]
              /\ \A pc, r : At(c, pc, r)[d] = call[d]
              /\ \A pc, r, o : Joining(c, pc, r, o)[d] = call[d]
<1> USE DEF TypeOK
<1>1. /\ \A s : /\ Returned(c, s)[c].pc = "returned" /\ Returned(c, s)[c].ref = 0
                /\ Returned(c, s)[c].sess = s
      /\ \A d \in Caller : d # c => \A s : Returned(c, s)[d] = call[d]
  BY DEF Returned, NoCall
<1>2. /\ Failed(c)[c].pc = "failed" /\ Failed(c)[c].ref = 0
      /\ \A d \in Caller : d # c => Failed(c)[d] = call[d]
  BY DEF Failed, NoCall
<1>3. /\ \A pc, r : At(c, pc, r)[c].pc = pc /\ At(c, pc, r)[c].ref = r
      /\ \A d \in Caller : d # c => \A pc, r : At(c, pc, r)[d] = call[d]
  BY DEF At, NoCall
<1>4. /\ \A pc, r, o : Joining(c, pc, r, o)[c].pc = pc /\ Joining(c, pc, r, o)[c].ref = r
      /\ \A d \in Caller : d # c => \A pc, r, o : Joining(c, pc, r, o)[d] = call[d]
  BY DEF Joining, NoCall
<1> QED BY <1>1, <1>2, <1>3, <1>4

\* The revive path is a lookup of its ref.
LEMMA ContinueMoves ==
  ASSUME TypeOK, NEW c \in Caller, NEW r \in Ref, Continue(c, r)
  PROVE  LookedUp(c, r)
<1>1. CASE ref[r].session # 0 /\ call' = Returned(c, ref[r].session) /\ revival' = revival
  BY <1>1, OutcomeFields DEF LookedUp
<1>2. CASE call' = Joining(c, "joinRevive", r, revival.owner) /\ revival' = revival
  BY <1>2, OutcomeFields DEF LookedUp
<1>3. CASE call' = At(c, "rejecting", r) /\ revival.ref # r
  BY <1>3, OutcomeFields DEF LookedUp
<1>4. CASE /\ \E pc \in {"reviving", "preparing"} : call' = At(c, pc, r)
           /\ revival' = [ref |-> r, owner |-> c] /\ revival.ref # r
           /\ ref[r].session = 0 /\ ref[r].status = "parked"
  <2>1. ref[r] = Parked
    BY <1>4 DEF Parked, TypeOK, RefRecord
  <2> QED BY <1>4, <2>1, OutcomeFields DEF LookedUp
<1> QED BY <1>1, <1>2, <1>3, <1>4 DEF Continue

\* So is the way from the registry on, of the registered ref.
LEMMA LookupMoves ==
  ASSUME TypeOK, NEW c \in Caller, Lookup(c)
  PROVE  LookedUp(c, reg)
<1>1. CASE reg # 0 /\ StatusOf(reg) # "aborted"
  BY <1>1, ContinueMoves DEF Lookup, TypeOK, Ref0
<1>2. CASE StatusOf(reg) = "aborted"
  <2>1. revival' = revival /\ reg # 0
    BY <1>2 DEF Lookup, StatusOf
  <2> QED BY <1>2, <2>1, OutcomeFields DEF Lookup, LookedUp
<1>3. CASE reg = 0
  <2>1. revival' = revival /\ call' = Failed(c)
    BY <1>3 DEF Lookup, StatusOf
  <2> QED BY <2>1, OutcomeFields DEF LookedUp
<1> QED BY <1>1, <1>2, <1>3

\* A revival that is started takes the place of none of the registered ref.
LEMMA LookedUpRevivals ==
  ASSUME SInv, Core, NEW c \in Caller, NEW r, LookedUp(c, r), UNCHANGED <<reg, ref, sess>>,
         call[c].pc \notin Reviving, reg \in {0, r} \/ revival' = revival \/ revival.ref # reg
  PROVE  RevivalOk' /\ InitialisingOk'
<1>1. InitialisingOk'
  BY DEF LookedUp, Core, InitialisingOk
<1>2. ASSUME NEW d \in Caller, Revives(d)'
      PROVE  /\ revival' = [ref |-> reg, owner |-> d]
             /\ call'[d].pc # "initialising" => ref[reg] = Parked
             /\ call'[d].pc = "initialising" =>
                  /\ ref[reg] = [status |-> "running", session |-> call'[d].sess]
                  /\ ~sess[call'[d].sess].ready
  <2>1. CASE d = c
    BY <1>2, <2>1 DEF LookedUp, Revives, Reviving
  <2>2. CASE d # c
    <3>1. Revives(d) /\ call'[d] = call[d]
      BY <1>2, <2>2 DEF Revives, LookedUp, StatusOf
    <3>2. reg # 0
      BY <3>1 DEF Revives, SInv, Frame, RefsKnown
    <3>3. revival = [ref |-> reg, owner |-> d]
      BY <3>1 DEF Core, RevivalOk
    <3>4. revival' = revival
      <4> SUFFICES ASSUME revival' # revival PROVE FALSE
        OBVIOUS
      <4>1. reg = r /\ revival.ref # r
        BY <3>2, <3>3 DEF LookedUp
      <4> QED BY <3>3, <4>1
    <3> QED BY <3>1, <3>3, <3>4 DEF Core, RevivalOk
  <2> QED BY <2>1, <2>2
<1>3. RevivalOk'
  BY <1>2 DEF RevivalOk
<1> QED BY <1>1, <1>3

\* The frame of a lookup.
LEMMA LookedUpFrame ==
  ASSUME SInv, TypeOK', NEW c \in Caller, NEW r, r = reg \/ Known(r), LookedUp(c, r),
         UNCHANGED <<reg, ref, sess, park, rel, spawn>>,
         adopted'.ref = adopted.ref, AdoptionNone'
  PROVE  Frame'
<1>1. \A d \in Caller : Known(call'[d].ref)
  BY DEF LookedUp, Known
<1>2. RefsBorn'
  BY <1>1, BornStep DEF Known, SInv, Frame, RefsBorn, Born
<1>3. KillsOnly' /\ WokenWait'
  BY DEF LookedUp, SInv, Frame, KillsOnly, WokenWait
<1>4. RefsKnown'
  BY Bounds DEF LookedUp, SInv, Frame, RefsKnown, Reviving
<1> QED BY <1>2, <1>3, <1>4 DEF Frame

\* The part of the invariant that no call touches.
LEMMA CallCore ==
  ASSUME Core, UNCHANGED <<reg, ref, sess, adopted, park, rel, spawn>>,
         RevivalOk', InitialisingOk'
  PROVE  Core'
<1>1. AttachedOk' /\ DisposingOk' /\ RunOk' /\ SpawnOk' /\ IdleOk'
  BY DEF Core, AttachedOk, DisposingOk, RunOk, SpawnOk, IdleOk, StatusOf, SessionOf
<1>2. AdoptedOk' /\ ParkBegun' /\ ParkDetaching' /\ CapturedOk' /\ HeldOk'
  BY DEF Core, AdoptedOk, ParkBegun, ParkDetaching, CapturedOk, HeldOk, StatusOf, SessionOf
<1> QED BY <1>1, <1>2 DEF Core

\* A lookup of the registered ref where no park is in flight keeps Quiet.
LEMMA LookedUpQuiet ==
  ASSUME SInv, Unkilled, NEW c \in Caller, LookedUp(c, reg), park = NoPark, call[c].pc # "keeping",
         UNCHANGED <<reg, ref, stray, stale, park>>, adopted'.ref = adopted.ref
  PROVE  Quiet'
<1>1. Quiet
  BY SInvFacts
<1>2. StatusOf(reg) # "aborted"
  BY RegFacts DEF Unkilled, SInv, IInv
<1> QED BY <1>1, <1>2 DEF Quiet, LookedUp, NoPark, Reviving

\* A call that finds a park in flight cancels it or waits for it; otherwise it
\* looks the ref up.
LEMMA EnsureLiveSafe == ASSUME SInv, NEW c \in Caller, EnsureLive(c) PROVE SInv'
<1>1. IInv' /\ DeadStep
  BY EnsureLiveStep DEF SInv
<1>2. /\ UNCHANGED <<reg, ref, sess, adopted, stray, rel, spawn, marker, stale>>
      /\ call[c].pc \in {"none", "returned", "failed"}
  BY DEF EnsureLive
<1>3. AdoptionNone'
  BY <1>2 DEF SInv, Frame, AdoptionNone
<1>4. CASE park = NoPark /\ Lookup(c) /\ UNCHANGED park
  <2>1. LookedUp(c, reg)
    BY <1>4, LookupMoves DEF SInv, IInv
  <2>2. Frame'
    BY <1>1, <1>2, <1>3, <1>4, <2>1, LookedUpFrame DEF IInv
  <2>3. ~stale' => Core'
    BY <1>2, <1>4, <2>1, LookedUpRevivals, CallCore DEF SInv, Reviving
  <2>4. Unkilled => Quiet' /\ IdleIsTimed'
    <3> SUFFICES ASSUME Unkilled PROVE Quiet' /\ IdleIsTimed'
      OBVIOUS
    <3>1. Quiet'
      BY <1>2, <1>4, <2>1, LookedUpQuiet
    <3>2. IdleIsTimed'
      BY <1>2, <1>4, <2>1, SInvFacts DEF IdleIsTimed, StatusOf, LookedUp
    <3> QED BY <3>1, <3>2
  <2> QED BY <1>1, <2>2, <2>3, <2>4, SInvStep
<1>5. CASE park # NoPark
  <2>1. PICK pc \in {"keeping", "waiting"}, r \in {0, reg} :
          /\ call' = At(c, pc, r)
          /\ pc = "keeping" => r = reg /\ r # 0 /\ ~park.detached /\ park' = [park EXCEPT !.cancelled = TRUE]
          /\ pc = "waiting" => park' = park
          /\ UNCHANGED <<revival, reopen>>
    BY <1>5 DEF EnsureLive, SessionOf
  <2>2. /\ call'[c].pc = pc /\ call'[c].ref = r
        /\ \A d \in Caller : d # c => call'[d] = call[d]
    BY <2>1, OutcomeFields DEF SInv, IInv
  <2>3. /\ park'.ref = park.ref /\ park'.sess = park.sess /\ park'.detached = park.detached
        /\ pc = "keeping" => park'.cancelled /\ ~park.detached
        /\ pc = "waiting" => park' = park
        /\ park' # NoPark
    BY <1>5, <2>1, Bounds DEF SInv, IInv, TypeOK, ParkRecord, NoPark, ParkHasSession
  <2>4. Frame'
    <3>1. RefsBorn'
      BY <1>1, <1>2, <2>2, <2>3, BornStep DEF Known, SInv, Frame, RefsBorn, Born, IInv
    <3>2. KillsOnly' /\ RefsKnown'
      BY <1>2, <1>5, <2>1, <2>2, <2>3 DEF SInv, Frame, KillsOnly, RefsKnown, Reviving
    <3>3. WokenWait'
      BY <1>5, <2>2, <2>3 DEF SInv, Frame, WokenWait
    <3> QED BY <1>3, <3>1, <3>2, <3>3 DEF Frame
  <2>5. ~stale' => Core'
    <3> SUFFICES ASSUME ~stale' PROVE Core'
      OBVIOUS
    <3>1. Core
      BY <1>2 DEF SInv
    <3>2. AttachedOk' /\ DisposingOk' /\ RunOk' /\ SpawnOk' /\ IdleOk'
      BY <1>2, <2>3, <3>1 DEF Core, AttachedOk, DisposingOk, RunOk, SpawnOk, IdleOk, StatusOf, SessionOf
    <3>3. AdoptedOk' /\ ParkBegun' /\ ParkDetaching' /\ CapturedOk' /\ HeldOk'
      BY <1>2, <1>5, <2>3, <3>1 DEF Core, AdoptedOk, ParkBegun, ParkDetaching, CapturedOk, HeldOk,
         StatusOf, SessionOf
    <3>4. RevivalOk' /\ InitialisingOk'
      BY <1>2, <2>1, <2>2, <3>1 DEF Core, RevivalOk, Revives, InitialisingOk, Reviving, StatusOf
    <3> QED BY <3>2, <3>3, <3>4 DEF Core
  <2>6. Unkilled => Quiet' /\ IdleIsTimed'
    <3> SUFFICES ASSUME Unkilled PROVE Quiet' /\ IdleIsTimed'
      OBVIOUS
    <3>1. Quiet
      BY SInvFacts
    <3>2. Quiet'
      <4>1. CASE pc = "keeping"
        <5>1. call'[c].pc = "keeping" /\ call'[c].ref = reg
          BY <2>1, <2>2, <4>1
        <5> QED BY <1>2, <1>5, <2>2, <2>3, <3>1, <4>1, <5>1 DEF Quiet, Reviving
      <4>2. CASE pc = "waiting"
        <5>1. \A d \in Caller : call[d].pc = "keeping" => d # c /\ call'[d].pc = "keeping"
          BY <1>2, <2>2
        <5> QED BY <1>2, <1>5, <2>2, <2>3, <3>1, <4>2, <5>1 DEF Quiet, Reviving
      <4> QED BY <4>1, <4>2
    <3>3. IdleIsTimed'
      BY <2>3 DEF IdleIsTimed
    <3> QED BY <3>2, <3>3
  <2> QED BY <1>1, <2>4, <2>5, <2>6, SInvStep
<1> QED BY <1>4, <1>5 DEF EnsureLive

\* The call whose park was given up starts the timer again, or looks the ref up.
LEMMA KeptSafe == ASSUME SInv, NEW c \in Caller, Kept(c) PROVE SInv'
<1>1. IInv' /\ DeadStep
  BY KeptStep DEF SInv
<1>2. /\ UNCHANGED <<reg, ref, sess, stray, park, rel, spawn, marker, stale>>
      /\ call[c].pc = "kept" /\ park = NoPark
  BY DEF Kept, SInv, Frame, WokenWait
<1>3. LookedUp(c, reg)
  <2>1. CASE SessionOf(reg) # 0 /\ call' = Returned(c, SessionOf(reg)) /\ UNCHANGED revival
    BY <2>1, OutcomeFields, RegFacts DEF LookedUp, SInv, IInv
  <2>2. CASE Lookup(c)
    BY <2>2, LookupMoves DEF SInv, IInv
  <2> QED BY <2>1, <2>2 DEF Kept
<1>4. /\ adopted' \in {adopted, [adopted EXCEPT !.timer = TRUE]}
      /\ SessionOf(reg) # 0 => adopted' = Rearmed(c)
      /\ adopted' # adopted => StatusOf(call[c].ref) = "idle" /\ adopted.ref = call[c].ref
  BY DEF Kept, Rearmed
<1>5. adopted'.ref = adopted.ref /\ adopted'.by = adopted.by
  BY <1>4 DEF SInv, IInv, TypeOK, Adoption
<1>6. AdoptionNone'
  <2>1. adopted' # adopted => adopted.ref # 0
    BY <1>4 DEF StatusOf
  <2> QED BY <1>5, <2>1 DEF SInv, Frame, AdoptionNone
<1>7. Frame'
  BY <1>1, <1>2, <1>3, <1>5, <1>6, LookedUpFrame DEF IInv
<1>8. ~stale' => Core'
  <2> SUFFICES ASSUME ~stale' PROVE Core'
    OBVIOUS
  <2>1. Core
    BY <1>2 DEF SInv
  <2>2. RevivalOk' /\ InitialisingOk'
    BY <1>2, <1>3, <2>1, LookedUpRevivals DEF Reviving
  <2>3. AttachedOk' /\ DisposingOk' /\ RunOk' /\ SpawnOk' /\ IdleOk'
    BY <1>2, <1>5, <2>1 DEF Core, AttachedOk, DisposingOk, RunOk, SpawnOk, IdleOk, StatusOf, SessionOf
  <2>4. ParkBegun' /\ ParkDetaching' /\ CapturedOk' /\ HeldOk'
    BY <1>2, <2>1 DEF Core, ParkBegun, ParkDetaching, CapturedOk, HeldOk, StatusOf, SessionOf
  <2>5. AdoptedOk'
    BY <1>2, <1>4, <1>5, <2>1 DEF Core, AdoptedOk, StatusOf, SessionOf
  <2> QED BY <2>2, <2>3, <2>4, <2>5 DEF Core
<1>9. Unkilled => Quiet' /\ IdleIsTimed'
  <2> SUFFICES ASSUME Unkilled PROVE Quiet' /\ IdleIsTimed'
    OBVIOUS
  <2>1. Quiet /\ Core
    BY SInvFacts
  <2>2. Quiet'
    BY <1>2, <1>3, <1>5, LookedUpQuiet
  <2>3. IdleIsTimed'
    <3> SUFFICES ASSUME StatusOf(reg) = "idle", adopted.ref = reg PROVE adopted'.timer
      BY <1>2, <1>5 DEF IdleIsTimed, StatusOf
    <3>1. SessionOf(reg) # 0 /\ call[c].ref = reg
      BY <1>2, <2>1 DEF Core, IdleOk, Quiet
    <3>2. adopted' = [adopted EXCEPT !.timer = TRUE]
      BY <1>4, <3>1 DEF Rearmed
    <3> QED BY <3>2 DEF SInv, IInv, TypeOK, Adoption
  <2> QED BY <2>2, <2>3
<1> QED BY <1>1, <1>7, <1>8, <1>9, SInvStep

\* The call that waited for a park looks the ref up.
LEMMA WokenSafe == ASSUME SInv, NEW c \in Caller, WokenByPark(c) PROVE SInv'
<1>1. IInv' /\ DeadStep
  BY WokenStep DEF SInv
<1>2. /\ UNCHANGED <<reg, ref, sess, adopted, stray, park, rel, spawn, marker, stale>>
      /\ call[c].pc = "woken" /\ park = NoPark
  BY DEF WokenByPark, SInv, Frame, WokenWait
<1>3. LookedUp(c, reg)
  BY LookupMoves DEF WokenByPark, SInv, IInv
<1>4. Frame'
  BY <1>1, <1>2, <1>3, LookedUpFrame DEF IInv, SInv, Frame, AdoptionNone
<1>5. ~stale' => Core'
  BY <1>2, <1>3, LookedUpRevivals, CallCore DEF SInv, Reviving
<1>6. Unkilled => Quiet' /\ IdleIsTimed'
  <2> SUFFICES ASSUME Unkilled PROVE Quiet' /\ IdleIsTimed'
    OBVIOUS
  <2>1. Quiet'
    BY <1>2, <1>3, LookedUpQuiet
  <2>2. IdleIsTimed'
    BY <1>2, <1>3, SInvFacts DEF IdleIsTimed, StatusOf, LookedUp
  <2> QED BY <2>1, <2>2
<1> QED BY <1>1, <1>4, <1>5, <1>6, SInvStep

\* The call that waited for a reopen looks up the ref it was told of: where that is
\* superseded, a revival that displaces the registered one's makes the state stale.
LEMMA ReopenedSafe == ASSUME SInv, NEW c \in Caller, Reopened(c) PROVE SInv'
<1>1. IInv' /\ DeadStep
  BY WokenStep DEF SInv
<1>2. /\ UNCHANGED <<reg, ref, sess, adopted, stray, park, rel, spawn, marker>>
      /\ stale' = (stale \/ (revival' # revival /\ revival.ref = reg /\ reg \notin {0, call[c].ref}))
      /\ call[c].pc = "reopened" /\ call[c].ref \in Ref
  BY DEF Reopened, SInv, IInv, RefKnown, CallKnown, TypeOK, CallRecord, Ref0
<1>3. LookedUp(c, call[c].ref)
  BY <1>2, ContinueMoves DEF Reopened, SInv, IInv
<1>4. Frame'
  BY <1>1, <1>2, <1>3, LookedUpFrame DEF IInv, SInv, Frame, AdoptionNone, Known
<1>5. ~stale' => Core'
  BY <1>2, <1>3, LookedUpRevivals, CallCore DEF SInv, Reviving
<1>6. ~Unkilled
  BY <1>2, SInvFacts DEF Quiet
<1> QED BY <1>1, <1>4, <1>5, <1>6, SInvStep

\* A flight that lands moves its owner and whoever joined it, and nobody else.
LEMMA SettledMoves ==
  ASSUME TypeOK, NEW c \in Caller, NEW v, Settled(c, v)
  PROVE  /\ call'[c] = v
         /\ \A d \in Caller : call'[d] = v \/ call'[d] = call[d]
         /\ \A d \in Caller : d # c /\ call[d].pc # "joinRevive" => call'[d] = call[d]
         /\ revival' = revival \/ (revival' = NoFlight /\ revival.owner = c)
BY DEF Settled, Landed, TypeOK

\* So no other revival of the registered ref is disturbed.
LEMMA SettledRevivals ==
  ASSUME SInv, Core, NEW c \in Caller, NEW v, Settled(c, v), v.pc \in {"returned", "failed"},
         UNCHANGED <<reg, ref, sess>>
  PROVE  RevivalOk' /\ InitialisingOk'
<1>1. ASSUME NEW d \in Caller, call'[d].pc \in Reviving
      PROVE  /\ call'[d] = call[d] /\ d # c
             /\ revival.owner = d => revival' = revival
  <2>1. call'[d] # v
    BY <1>1 DEF Reviving
  <2> QED BY <2>1, SettledMoves DEF SInv, IInv
<1>2. InitialisingOk'
  BY <1>1 DEF Core, InitialisingOk, Reviving
<1>3. RevivalOk'
  BY <1>1 DEF Core, RevivalOk, Revives, StatusOf
<1> QED BY <1>2, <1>3

\* The frame of a revival's end.
LEMMA SettledFrame ==
  ASSUME SInv, TypeOK', NEW c \in Caller, NEW v, Settled(c, v), v.pc \in {"returned", "failed"},
         v.ref = 0,
         \A q \in Ref : ref[q] # Unborn => ref'[q] # Unborn,
         UNCHANGED <<reg, park, rel, spawn>>,
         adopted'.ref \in {0, adopted.ref, call[c].ref}, AdoptionNone',
         \A s \in Session : sess'[s].ref = sess[s].ref /\ (sess'[s].st = "live" => sess[s].st = "live")
  PROVE  Frame'
<1>1. \A d \in Caller : call'[d] = v \/ call'[d] = call[d]
  BY SettledMoves DEF SInv, IInv
<1>2. RefsBorn'
  <2>1. /\ Known(adopted'.ref) /\ Known(park'.ref) /\ Born(reg)'
        /\ \A d \in Caller : Known(call'[d].ref)
        /\ \A s \in Session : Known(sess'[s].ref)
    BY <1>1 DEF Known, SInv, Frame, RefsBorn, Born, IInv, TypeOK, Ref0
  <2> QED BY <2>1, BornStep DEF SInv, Frame
<1>3. KillsOnly' /\ WokenWait'
  BY <1>1 DEF SInv, Frame, KillsOnly, WokenWait
<1>4. RefsKnown'
  BY <1>1 DEF SInv, Frame, RefsKnown, Reviving
<1> QED BY <1>2, <1>3, <1>4 DEF Frame

\* The end of a rejected revival frees the entry that is its own.
LEMMA RejectedSafe == ASSUME SInv, NEW c \in Caller, Rejected(c) PROVE SInv'
<1> DEFINE v == [NoCall EXCEPT !.pc = "failed"]
<1>1. IInv' /\ DeadStep
  BY RejectedStep DEF SInv
<1>2. /\ UNCHANGED <<reg, ref, sess, adopted, stray, park, reopen, rel, spawn, marker, stale>>
      /\ Settled(c, v) /\ call[c].pc = "rejecting"
      /\ v.pc = "failed" /\ v.ref = 0
  BY DEF Rejected, NoCall
<1> HIDE DEF v
<1>3. Frame'
  <2>1. AdoptionNone'
    BY <1>2 DEF AdoptionNone, SInv, Frame
  <2> QED BY <1>1, <1>2, <2>1, SettledFrame DEF IInv
<1>4. ~stale' => Core'
  <2> SUFFICES ASSUME ~stale' PROVE Core'
    OBVIOUS
  <2>1. Core
    BY <1>2 DEF SInv
  <2>2. RevivalOk' /\ InitialisingOk'
    BY <1>2, <2>1, SettledRevivals
  <2> QED BY <1>2, <2>1, <2>2, CallCore
<1>5. Unkilled => Quiet' /\ IdleIsTimed'
  <2> SUFFICES ASSUME Unkilled PROVE Quiet' /\ IdleIsTimed'
    OBVIOUS
  <2>1. Quiet /\ IdleIsTimed
    BY SInvFacts
  <2>2. /\ \A d \in Caller : call'[d] = v \/ call'[d] = call[d]
        /\ \A d \in Caller : call[d].pc \in {"keeping", "kept"} => call'[d] = call[d]
    BY <1>2, SettledMoves DEF SInv, IInv
  <2>3. Quiet'
    BY <1>2, <2>1, <2>2 DEF Quiet, Reviving
  <2>4. IdleIsTimed'
    BY <1>2, <2>1, <2>2 DEF IdleIsTimed, StatusOf
  <2> QED BY <2>3, <2>4
<1> QED BY <1>1, <1>3, <1>4, <1>5, SInvStep

\* What the end of a revival leaves of Quiet where no park is in flight.
LEMMA SettledQuiet ==
  ASSUME SInv, Unkilled, NEW c \in Caller, NEW v, Settled(c, v), v.pc \in {"returned", "failed"},
         park = NoPark, UNCHANGED <<reg, park, stale>>, ~stray', adopted'.ref \in {0, reg},
         call[c].pc \in Reviving
  PROVE  /\ Quiet'
         /\ (\E d \in Caller : call[d].pc = "kept") => \E d \in Caller : call'[d].pc = "kept"
<1>1. Quiet
  BY SInvFacts
<1>2. \A d \in Caller : call'[d] = v \/ call'[d] = call[d]
  BY SettledMoves DEF SInv, IInv
<1>3. Quiet'
  BY <1>1, <1>2 DEF Quiet, NoPark, Reviving
<1>4. \A d \in Caller : call[d].pc = "kept" => call'[d] = call[d]
  BY SettledMoves DEF SInv, IInv, Reviving
<1> QED BY <1>3, <1>4

\* Without kills the caller of a revival that is to go on has the ref to itself.
LEMMA QuietReviver ==
  ASSUME SInv, Unkilled, NEW c \in Caller, call[c].pc \in Reviving, ~Pending
  PROVE  /\ Revives(c) /\ call[c].ref = reg /\ reg \in Ref /\ park = NoPark
         /\ ~adopted.timer /\ StatusOf(reg) # "idle"
<1>1. Core /\ Quiet
  BY SInvFacts
<1>2. call[c].ref = reg /\ reg \in Ref
  BY <1>1 DEF Quiet, SInv, Frame, RefsKnown, IInv, TypeOK, Ref0
<1>3. Revives(c)
  BY <1>2, Bounds DEF Revives, Unkilled, StatusOf
<1>4. park = NoPark
  BY <1>1 DEF Quiet, Pending
<1>5. StatusOf(reg) # "idle"
  <2>1. CASE call[c].pc = "initialising"
    <3>1. ref[reg] = [status |-> "running", session |-> call[c].sess]
      BY <1>1, <1>3, <2>1 DEF Core, RevivalOk
    <3> QED BY <1>2, <3>1, Bounds DEF StatusOf
  <2>2. CASE call[c].pc # "initialising"
    <3>1. ref[reg] = Parked
      BY <1>1, <1>3, <2>2 DEF Core, RevivalOk
    <3> QED BY <1>2, <3>1, Bounds DEF StatusOf, Parked
  <2> QED BY <2>1, <2>2
<1>6. ~adopted.timer
  <2>1. adopted.ref = 0 => ~adopted.timer
    BY DEF SInv, Frame, AdoptionNone, NoAdoption
  <2>2. StatusOf(reg) # "aborted"
    BY <1>3 DEF Revives
  <2> QED BY <1>1, <1>2, <1>5, <2>1, <2>2 DEF Quiet, Core, AdoptedOk
<1> QED BY <1>2, <1>3, <1>4, <1>5, <1>6

\* A revival that fails takes back at most its own adoption.
LEMMA ReviveFailsSafe ==
  ASSUME SInv, IInv', DeadStep, NEW c \in Caller, ReviveFails(c),
         UNCHANGED <<reg, ref, sess, park, reopen, rel, spawn, marker, stale>>,
         call[c].pc = "discarding" \/ (call[c].pc \in Reviving /\ ~Pending)
  PROVE  SInv'
<1> DEFINE v == [NoCall EXCEPT !.pc = "failed"]
<1>1. v.pc = "failed" /\ v.ref = 0
  BY DEF NoCall
<1>2. /\ Settled(c, v)
      /\ adopted' \in {adopted, NoAdoption}
      /\ stray' => stray \/ adopted.timer
  BY DEF ReviveFails
<1> HIDE DEF v
<1>3. NoAdoption.ref = 0 /\ ~NoAdoption.timer
  BY DEF NoAdoption
<1>4. Frame'
  <2>1. AdoptionNone'
    BY <1>2 DEF AdoptionNone, SInv, Frame
  <2>2. adopted'.ref \in {0, adopted.ref, call[c].ref}
    BY <1>2, <1>3
  <2> QED BY <1>1, <1>2, <2>1, <2>2, SettledFrame DEF IInv
<1>5. ~stale' => Core'
  <2> SUFFICES ASSUME ~stale' PROVE Core'
    OBVIOUS
  <2>1. Core
    BY DEF SInv
  <2>2. RevivalOk' /\ InitialisingOk'
    BY <1>1, <1>2, <2>1, SettledRevivals
  <2>3. AttachedOk' /\ DisposingOk' /\ RunOk' /\ IdleOk' /\ ParkDetaching' /\ CapturedOk' /\ HeldOk'
    BY <2>1 DEF Core, AttachedOk, DisposingOk, RunOk, IdleOk, ParkDetaching, CapturedOk, HeldOk,
       StatusOf, SessionOf
  <2>4. SpawnOk' /\ AdoptedOk' /\ ParkBegun'
    BY <1>2, <1>3, <2>1 DEF Core, SpawnOk, AdoptedOk, ParkBegun, StatusOf, SessionOf, SInv, Frame, RefsKnown
  <2> QED BY <2>2, <2>3, <2>4 DEF Core
<1>6. Unkilled => Quiet' /\ IdleIsTimed'
  <2> SUFFICES ASSUME Unkilled PROVE Quiet' /\ IdleIsTimed'
    OBVIOUS
  <2>1. Quiet /\ IdleIsTimed
    BY SInvFacts
  <2>2. call[c].pc \in Reviving /\ ~Pending
    BY <2>1 DEF Quiet
  <2>3. /\ park = NoPark /\ ~adopted.timer /\ StatusOf(reg) # "idle"
    BY <2>2, QuietReviver
  <2>4. ~stray' /\ adopted'.ref \in {0, reg}
    BY <1>2, <1>3, <2>1, <2>3 DEF Quiet
  <2>5. Quiet'
    BY <1>1, <1>2, <2>2, <2>3, <2>4, SettledQuiet
  <2>6. IdleIsTimed'
    BY <2>3 DEF IdleIsTimed, StatusOf
  <2> QED BY <2>5, <2>6
<1> QED BY <1>4, <1>5, <1>6, SInvStep

\* A generation that is registered takes the place of none, or of a killed one
\* without a session, and nobody knows it yet.
LEMMA FreshCore ==
  ASSUME SInv, Core, NEW r \in Ref, ref[r] = Unborn, NEW v,
         v \in {Parked, [status |-> "running", session |-> 0]},
         ref' = [ref EXCEPT ![r] = v], reg' = r, reg = 0 \/ ref[reg] = Killed,
         UNCHANGED <<sess, adopted, park, revival, rel>>,
         \A d \in Caller : call'[d].pc \in Reviving => call'[d] = call[d],
         SpawnOk'
  PROVE  Core'
<1>1. ref'[r] = v /\ \A q \in Ref : q # r => ref'[q] = ref[q]
  BY DEF SInv, IInv, TypeOK
<1>2. v.session = 0 /\ v.status \in {"parked", "running"}
  BY DEF Parked
<1>3. /\ adopted.ref # r /\ park.ref # r /\ r # 0
      /\ \A c \in Caller : call[c].ref # r
      /\ \A s \in Session : sess[s].ref # r
  BY Bounds DEF SInv, Frame, RefsBorn, Born
<1>4. \A q \in Ref : ref'[q].session = 0
  BY <1>1, <1>2, Bounds DEF Core, AttachedOk, Killed
<1>5. SessionOf(reg) = 0 /\ StatusOf(reg)' = v.status /\ SessionOf(reg)' = 0
  BY <1>1, <1>2, <1>3, <1>4 DEF SessionOf, StatusOf, Killed
<1>6. AttachedOk' /\ DisposingOk' /\ RunOk'
  BY <1>3, <1>4 DEF Core, AttachedOk, DisposingOk, RunOk
<1>7. RevivalOk' /\ InitialisingOk'
  BY <1>3 DEF Core, RevivalOk, Revives, InitialisingOk, Reviving
<1>8. IdleOk' /\ AdoptedOk' /\ ParkBegun' /\ ParkDetaching'
  BY <1>2, <1>3, <1>5 DEF Core, IdleOk, AdoptedOk, ParkBegun, ParkDetaching
<1>9. CapturedOk'
  <2> SUFFICES ASSUME NEW k \in Releaser, rel[k].pc = "persist", rel[k].live # 0
               PROVE  ref'[rel[k].ref] = Killed /\ sess[rel[k].live].ref = rel[k].ref
    BY DEF CapturedOk
  <2>1. rel[k].ref \in Ref /\ ref[rel[k].ref] = Killed /\ sess[rel[k].live].ref = rel[k].ref
    BY DEF Core, CapturedOk, SInv, Frame, RefsKnown, IInv, TypeOK, RelRecord, Ref0
  <2> QED BY <1>1, <2>1 DEF Killed, Unborn
<1>10. HeldOk'
  BY <1>5, Bounds DEF Core, HeldOk
<1> QED BY <1>6, <1>7, <1>8, <1>9, <1>10 DEF Core

\* The frame of a registration.
LEMMA FreshFrame ==
  ASSUME SInv, TypeOK', NEW r \in Ref, ref[r] = Unborn, NEW v,
         v \in {Parked, [status |-> "running", session |-> 0]},
         ref' = [ref EXCEPT ![r] = v], reg' = r,
         UNCHANGED <<sess, adopted, park, rel>>,
         \A d \in Caller :
           call'[d] = call[d] \/ (call'[d].pc = "unmarking" /\ call'[d].ref = r),
         spawn'.pc = "constructing" => spawn'.ref # 0
  PROVE  Frame'
<1>1. \A q \in Ref : ref[q] # Unborn => ref'[q] # Unborn
  BY DEF SInv, IInv, TypeOK
<1>2. Born(reg)'
  BY DEF Born, SInv, IInv, TypeOK, Unborn, Parked
<1>3. /\ Known(adopted'.ref) /\ Known(park'.ref)
      /\ \A c \in Caller : Known(call'[c].ref) \/ call'[c].ref = reg'
      /\ \A s \in Session : Known(sess'[s].ref)
  BY DEF Known
<1>4. RefsBorn'
  BY <1>1, <1>2, <1>3, BornStep DEF SInv, Frame
<1>5. KillsOnly' /\ WokenWait' /\ AdoptionNone' /\ RefsKnown'
  BY DEF SInv, Frame, KillsOnly, WokenWait, AdoptionNone, RefsKnown, Reviving
<1> QED BY <1>4, <1>5 DEF Frame

\* A reopen that settles moves its callers only.
LEMMA ReopenSettledSafe ==
  ASSUME SInv, IInv', DeadStep, NEW c \in Caller, ~Unkilled, NEW v,
         v.pc \in {"failed", "reopened"}, v.ref \in {0, call[c].ref},
         \A d \in Caller : call'[d] \in {v, call[d]},
         UNCHANGED <<reg, ref, sess, adopted, park, revival, rel, spawn, stale>>
  PROVE  SInv'
<1>1. Frame'
  <2>1. RefsBorn'
    <3>1. \A d \in Caller : Known(call'[d].ref)
      BY DEF Known
    <3> QED BY <3>1, BornStep DEF SInv, Frame, RefsBorn, Born, Known, IInv
  <2>2. KillsOnly' /\ WokenWait' /\ AdoptionNone' /\ RefsKnown'
    BY DEF SInv, Frame, KillsOnly, WokenWait, AdoptionNone, RefsKnown, Reviving
  <2> QED BY <2>1, <2>2 DEF Frame
<1>2. ~stale' => Core'
  <2> SUFFICES ASSUME Core PROVE Core'
    BY DEF SInv
  <2>1. RevivalOk' /\ InitialisingOk'
    BY DEF Core, RevivalOk, Revives, InitialisingOk, Reviving, StatusOf
  <2> QED BY <2>1, CallCore
<1> QED BY <1>1, <1>2, SInvStep

\* The reopen of a killed ref registers a generation of its own, or fails.
LEMMA ProbedSafe ==
  ASSUME SInv, NEW c \in Caller, NEW answer, Probed(c, answer) PROVE SInv'
<1>1. IInv' /\ DeadStep
  BY ProbedStep DEF SInv
<1>2. UNCHANGED <<sess, adopted, stray, park, revival, rel, spawn, marker, stale>>
      /\ call[c].pc = "probing"
  BY DEF Probed
<1>3. ~Unkilled
  BY <1>2, SInvFacts DEF Quiet
<1>4. CASE \E r \in Ref : /\ FreshRef(r) /\ ref' = [ref EXCEPT ![r] = Parked]
                         /\ reg' = r /\ call' = At(c, "unmarking", r)
                         /\ reg = call[c].ref /\ ref[call[c].ref] = Killed
  <2>1. PICK r \in Ref : /\ ref[r] = Unborn /\ ref' = [ref EXCEPT ![r] = Parked]
                         /\ reg' = r /\ call' = At(c, "unmarking", r) /\ ref[reg] = Killed
    BY <1>4 DEF FreshRef
  <2>2. \A d \in Caller :
          /\ call'[d] = call[d] \/ (call'[d].pc = "unmarking" /\ call'[d].ref = r)
          /\ call'[d].pc \in Reviving => call'[d] = call[d]
    BY <2>1, OutcomeFields DEF SInv, IInv, Reviving
  <2>3. Frame'
    BY <1>1, <1>2, <2>1, <2>2, FreshFrame DEF IInv, SInv, Frame, RefsKnown
  <2>4. ~stale' => Core'
    <3> SUFFICES ASSUME Core PROVE Core'
      BY <1>2 DEF SInv
    <3>1. SpawnOk'
      <4> SUFFICES ASSUME spawn.pc = "constructing"
                   PROVE  ref'[spawn.ref] = Killed
        BY <1>2 DEF SpawnOk
      <4>1. ref[spawn.ref] = Killed /\ spawn.ref \in Ref
        BY <2>1 DEF Core, SpawnOk, SInv, Frame, RefsKnown, IInv, TypeOK, Ref0
      <4> QED BY <2>1, <4>1 DEF Killed, Unborn, SInv, IInv, TypeOK
    <3> QED BY <1>2, <2>1, <2>2, <3>1, FreshCore
  <2> QED BY <1>1, <1>3, <2>3, <2>4, SInvStep
<1>5. CASE /\ call' = [d \in Caller |->
                         IF d = c \/ (call[d].pc = "joinReopen" /\ call[d].on = c)
                         THEN [NoCall EXCEPT !.pc = "failed"] ELSE call[d]]
           /\ UNCHANGED <<reg, ref>>
  <2> DEFINE v == [NoCall EXCEPT !.pc = "failed"]
  <2>1. v.pc = "failed" /\ v.ref = 0 /\ \A d \in Caller : call'[d] \in {v, call[d]}
    BY <1>5 DEF NoCall
  <2> HIDE DEF v
  <2> QED BY <1>1, <1>2, <1>3, <1>5, <2>1, ReopenSettledSafe
<1> QED BY <1>4, <1>5 DEF Probed

\* The end of a reopen tells its callers of the ref.
LEMMA UnmarkedSafe == ASSUME SInv, NEW c \in Caller, Unmarked(c) PROVE SInv'
<1>1. IInv' /\ DeadStep
  BY UnmarkedStep DEF SInv
<1>2. UNCHANGED <<reg, ref, sess, adopted, stray, park, revival, rel, spawn, stale>>
      /\ call[c].pc = "unmarking"
  BY DEF Unmarked
<1>3. ~Unkilled
  BY <1>2, SInvFacts DEF Quiet
<1> DEFINE v == [NoCall EXCEPT !.pc = "reopened", !.ref = call[c].ref]
<1>4. v.pc = "reopened" /\ v.ref = call[c].ref /\ \A d \in Caller : call'[d] \in {v, call[d]}
  BY DEF NoCall, Unmarked
<1> HIDE DEF v
<1> QED BY <1>1, <1>2, <1>3, <1>4, ReopenSettledSafe

\* The frame of a step of a revival that goes on.
LEMMA MovedFrame ==
  ASSUME SInv, TypeOK', NEW c \in Caller, \A d \in Caller : d # c => call'[d] = call[d],
         call[c].pc \in Reviving, call'[c].pc \in Reviving \cup {"discarding"},
         call'[c].ref = call[c].ref,
         UNCHANGED <<reg, park, rel, spawn>>,
         adopted'.ref \in {adopted.ref, call[c].ref}, AdoptionNone',
         \A q \in Ref : ref[q] # Unborn => ref'[q] # Unborn,
         \A s \in Session :
           /\ sess'[s].ref \in {sess[s].ref, call[c].ref}
           /\ sess'[s].st = "live" => sess'[s].ref = call[c].ref \/ sess[s].st = "live"
  PROVE  Frame'
<1>1. RefsBorn'
  <2>1. /\ Known(adopted'.ref) /\ Known(park'.ref) /\ Born(reg)'
        /\ \A d \in Caller : Known(call'[d].ref)
        /\ \A s \in Session : Known(sess'[s].ref)
    BY DEF Known, SInv, Frame, RefsBorn, Born, IInv, TypeOK, Ref0
  <2> QED BY <2>1, BornStep DEF SInv, Frame
<1>2. KillsOnly'
  BY DEF SInv, Frame, KillsOnly
<1>3. WokenWait'
  BY DEF SInv, Frame, WokenWait, Reviving
<1>4. RefsKnown'
  BY DEF SInv, Frame, RefsKnown, Reviving
<1> QED BY <1>1, <1>2, <1>3, <1>4 DEF Frame

\* Nor does it disturb Quiet.
LEMMA MovedQuiet ==
  ASSUME SInv, Unkilled, NEW c \in Caller, \A d \in Caller : d # c => call'[d] = call[d],
         call[c].pc \in Reviving, ~Pending, call'[c].pc \in Reviving, call'[c].ref = call[c].ref,
         UNCHANGED <<reg, park, stale>>, ~stray', adopted'.ref \in {0, reg}
  PROVE  Quiet'
<1>1. Quiet /\ park = NoPark
  BY SInvFacts, QuietReviver
<1> QED BY <1>1 DEF Quiet, NoPark, Reviving

\* The factory's answer is adopted for the ref it is about, and the ref it is
\* about is not in use.
LEMMA PreparedSafe ==
  ASSUME SInv, NEW c \in Caller, NEW answer, Prepared(c, answer) PROVE SInv'
<1> DEFINE r == call[c].ref
           v == [NoCall EXCEPT !.pc = "failed"]
<1>1. IInv' /\ DeadStep
  BY PreparedStep DEF SInv
<1>2. /\ UNCHANGED <<reg, ref, sess, park, reopen, rel, spawn, marker, stale>>
      /\ call[c].pc = "preparing" /\ call[c].pc \in Reviving /\ ~Pending
  BY DEF Prepared, Reviving
<1>3. v.pc = "failed" /\ v.ref = 0
  BY DEF NoCall
<1>4. r \in Ref
  BY <1>2 DEF SInv, Frame, RefsKnown, IInv, TypeOK, CallRecord, Ref0
<1>5. \/ adopted' = [ref |-> r, by |-> c, timer |-> FALSE] /\ stray' = (stray \/ adopted.timer)
      \/ UNCHANGED <<adopted, stray>>
  BY DEF Prepared
<1>6. \/ Settled(c, v)
      \/ /\ call' = [call EXCEPT ![c].pc = "reviving", ![c].cold = TRUE]
         /\ revival' = revival /\ reg = r /\ ref[r].status = "parked"
  BY DEF Prepared
<1>7. AdoptionNone'
  BY <1>4, <1>5, Bounds DEF AdoptionNone, SInv, Frame
<1>8. adopted'.ref \in {adopted.ref, r}
  BY <1>5
<1> HIDE DEF v
<1>9. ~Settled(c, v) =>
        /\ \A d \in Caller : d # c => call'[d] = call[d]
        /\ call'[c].pc = "reviving" /\ call'[c].ref = r /\ revival' = revival
        /\ reg = r /\ ref[r].status = "parked"
  BY <1>6 DEF SInv, IInv, TypeOK, CallRecord
<1>10. Frame'
  <2>1. CASE Settled(c, v)
    BY <1>1, <1>2, <1>3, <1>7, <1>8, <2>1, SettledFrame DEF IInv
  <2>2. CASE ~Settled(c, v)
    BY <1>1, <1>2, <1>7, <1>8, <1>9, <2>2, MovedFrame DEF IInv, Reviving
  <2> QED BY <2>1, <2>2
<1>11. ~stale' => Core'
  <2> SUFFICES ASSUME Core PROVE Core'
    BY <1>2 DEF SInv
  <2>1. r = reg => Revives(c) \/ ref[reg] = Killed
    BY <1>2, <1>4 DEF Revives, SInv, IInv, KilledDetached, StatusOf
  <2>2. r = reg => ref[reg] \in {Parked, Killed}
    BY <1>2, <2>1 DEF Core, RevivalOk
  <2>3. RevivalOk' /\ InitialisingOk'
    <3>1. CASE Settled(c, v)
      BY <1>2, <1>3, <3>1, SettledRevivals
    <3>2. CASE ~Settled(c, v)
      BY <1>2, <1>9, <3>2 DEF Core, RevivalOk, Revives, InitialisingOk, Reviving, StatusOf
    <3> QED BY <3>1, <3>2
  <2>4. AttachedOk' /\ DisposingOk' /\ RunOk' /\ IdleOk' /\ ParkDetaching' /\ CapturedOk' /\ HeldOk'
    BY <1>2 DEF Core, AttachedOk, DisposingOk, RunOk, IdleOk, ParkDetaching, CapturedOk, HeldOk,
       StatusOf, SessionOf
  <2>5. SpawnOk'
    BY <1>2, <1>5, <2>2 DEF Core, SpawnOk, Parked, Killed
  <2>6. r = reg => SessionOf(reg) = 0
    BY <1>4, <2>2 DEF SessionOf, Parked, Killed
  <2>7. AdoptedOk' /\ ParkBegun'
    BY <1>2, <1>5, <2>6 DEF Core, AdoptedOk, ParkBegun, StatusOf, SessionOf
  <2> QED BY <2>3, <2>4, <2>5, <2>7 DEF Core
<1>12. Unkilled => Quiet' /\ IdleIsTimed'
  <2> SUFFICES ASSUME Unkilled PROVE Quiet' /\ IdleIsTimed'
    OBVIOUS
  <2>1. /\ r = reg /\ park = NoPark /\ ~adopted.timer /\ StatusOf(reg) # "idle" /\ Quiet
    BY <1>2, QuietReviver, SInvFacts
  <2>2. ~stray' /\ adopted'.ref \in {0, reg}
    <3>1. ~stray /\ ~adopted.timer /\ adopted.ref \in {0, reg}
      BY <2>1 DEF Quiet
    <3>2. stray' => stray \/ adopted.timer
      BY <1>5, Zenon
    <3> QED BY <1>8, <2>1, <3>1, <3>2
  <2>3. Quiet'
    <3>1. CASE Settled(c, v)
      BY <1>2, <1>3, <2>1, <2>2, <3>1, SettledQuiet
    <3>2. CASE ~Settled(c, v)
      BY <1>2, <1>9, <2>2, <3>2, MovedQuiet DEF Reviving
    <3> QED BY <3>1, <3>2
  <2>4. IdleIsTimed'
    BY <1>2, <2>1 DEF IdleIsTimed, StatusOf
  <2> QED BY <2>3, <2>4
<1> QED BY <1>1, <1>10, <1>11, <1>12, SInvStep

\* The claim of the expected ref changes no fact about it.
LEMMA ClaimsSafe == ASSUME SInv, NEW c \in Caller, Claims(c) PROVE SInv'
<1>1. IInv' /\ DeadStep
  BY ClaimsStep DEF SInv
<1>2. /\ UNCHANGED <<reg, ref, sess, park, reopen, rel, spawn, marker, stale>>
      /\ call[c].pc = "reviving" /\ call[c].pc \in Reviving /\ ~Pending
  BY DEF Claims, Reviving
<1>3. CASE ReviveFails(c)
  BY <1>1, <1>2, <1>3, ReviveFailsSafe
<1>4. CASE call' = [call EXCEPT ![c].pc = "building"] /\ UNCHANGED <<revival, adopted, stray>>
  <2>1. /\ \A d \in Caller : d # c => call'[d] = call[d]
        /\ call'[c].pc = "building" /\ call'[c].ref = call[c].ref
    BY <1>4 DEF SInv, IInv, TypeOK, CallRecord
  <2>2. Frame'
    BY <1>1, <1>2, <1>4, <2>1, MovedFrame DEF IInv, SInv, Frame, AdoptionNone, Reviving
  <2>3. ~stale' => Core'
    <3> SUFFICES ASSUME Core PROVE Core'
      BY <1>2 DEF SInv
    <3>1. RevivalOk' /\ InitialisingOk'
      BY <1>2, <1>4, <2>1 DEF Core, RevivalOk, Revives, InitialisingOk, Reviving, StatusOf
    <3> QED BY <1>2, <1>4, <3>1, CallCore
  <2>4. Unkilled => Quiet' /\ IdleIsTimed'
    <3> SUFFICES ASSUME Unkilled PROVE Quiet' /\ IdleIsTimed'
      OBVIOUS
    <3>1. Quiet /\ StatusOf(reg) # "idle"
      BY <1>2, QuietReviver, SInvFacts
    <3>2. Quiet'
      BY <1>2, <1>4, <2>1, <3>1, MovedQuiet DEF Quiet, Reviving
    <3>3. IdleIsTimed'
      BY <1>2, <3>1 DEF IdleIsTimed, StatusOf
    <3> QED BY <3>2, <3>3
  <2> QED BY <1>1, <2>2, <2>3, <2>4, SInvStep
<1> QED BY <1>3, <1>4 DEF Claims

\* The facts that the attachment of a new session to the registered ref keeps,
\* whoever drives the session.
LEMMA AttachedCore ==
  ASSUME SInv, Core, NEW s \in Session, sess[s] = Unbuilt, reg \in Ref, ref[reg].session = 0,
         StatusOf(reg) # "aborted",
         NEW by, NEW ready,
         sess' = [sess EXCEPT ![s] = [st |-> "live", ref |-> reg, by |-> by, ready |-> ready]],
         ref' = [ref EXCEPT ![reg] = [status |-> "running", session |-> s]],
         adopted' = OnRunning(adopted, reg),
         UNCHANGED <<reg, park, rel>>
  PROVE  /\ AttachedOk' /\ DisposingOk' /\ IdleOk' /\ ParkBegun' /\ ParkDetaching' /\ CapturedOk'
         /\ by = "manager" => AdoptedOk' /\ HeldOk'
         /\ by = "run" /\ adopted.ref # reg => AdoptedOk' /\ HeldOk'
         /\ adopted'.ref = adopted.ref
<1> USE DEF Core
<1>1. /\ sess'[s].st = "live" /\ sess'[s].ref = reg /\ sess'[s].by = by /\ sess'[s].ready = ready
      /\ \A q \in Session : q # s => sess'[q] = sess[q]
      /\ ref'[reg] = [status |-> "running", session |-> s]
      /\ \A q \in Ref : q # reg => ref'[q] = ref[q]
      /\ sess[s].st = "unbuilt" /\ sess[s].ref = 0
  BY DEF SInv, IInv, TypeOK, Unbuilt
<1>2. /\ StatusOf(reg)' = "running" /\ SessionOf(reg)' = s /\ SessionOf(reg) = 0
      /\ reg # 0 /\ s # 0
  BY <1>1, Bounds DEF StatusOf, SessionOf
<1>3. /\ adopted'.ref = adopted.ref
      /\ adopted.ref = reg => ~adopted'.timer
  BY DEF OnRunning, SInv, IInv, TypeOK, Adoption
<1>4. AttachedOk'
  BY <1>1 DEF AttachedOk
<1>5. DisposingOk'
  BY <1>1, <1>2 DEF DisposingOk
<1>6. IdleOk'
  BY <1>2 DEF IdleOk
<1>7. park # NoPark => park.sess # 0 /\ park.sess \in Session
  BY DEF SInv, IInv, ParkHasSession, TypeOK, ParkRecord, Session0
<1>8. ParkBegun'
  BY <1>2, <1>7 DEF ParkBegun
<1>9. ParkDetaching'
  <2>1. park.detached => park.sess \in Session
    BY <1>7 DEF NoPark
  <2> QED BY <1>1, <2>1 DEF ParkDetaching
<1>10. CapturedOk'
  <2> SUFFICES ASSUME NEW k \in Releaser, rel[k].pc = "persist", rel[k].live # 0
               PROVE  ref'[rel[k].ref] = Killed /\ sess'[rel[k].live].ref = rel[k].ref
    BY DEF CapturedOk
  <2>1. /\ rel[k].ref \in Ref /\ ref[rel[k].ref] = Killed /\ rel[k].live \in Session
        /\ sess[rel[k].live].ref = rel[k].ref
    BY DEF CapturedOk, SInv, Frame, RefsKnown, IInv, TypeOK, RelRecord, Ref0, Session0
  <2>2. rel[k].live # s /\ rel[k].ref # reg
    BY <1>1, <2>1, Bounds DEF StatusOf, Killed
  <2> QED BY <1>1, <2>1, <2>2
<1>11. by = "manager" \/ (by = "run" /\ adopted.ref # reg) => AdoptedOk' /\ HeldOk'
  <2>1. by = "manager" \/ adopted.ref # reg => AdoptedOk'
    BY <1>1, <1>2, <1>3 DEF AdoptedOk
  <2>2. HeldOk'
    BY <1>1, <1>2, Bounds DEF HeldOk
  <2> QED BY <2>1, <2>2
<1> QED BY <1>3, <1>4, <1>5, <1>6, <1>8, <1>9, <1>10, <1>11

\* A revival attaches its session to the parked ref it claimed.
LEMMA AttachesSafe == ASSUME SInv, NEW c \in Caller, Attaches(c) PROVE SInv'
<1> DEFINE r == call[c].ref
<1>1. IInv' /\ DeadStep
  BY AttachesStep DEF SInv
<1>2. /\ UNCHANGED <<reg, park, reopen, rel, spawn, marker, stale>>
      /\ call[c].pc = "building" /\ call[c].pc \in Reviving /\ ~Pending
  BY DEF Attaches, Reviving
<1>3. CASE ReviveFails(c) /\ UNCHANGED <<sess, ref>>
  BY <1>1, <1>2, <1>3, ReviveFailsSafe
<1>4. CASE ~(ReviveFails(c) /\ UNCHANGED <<sess, ref>>)
  <2>1. PICK s \in Session :
          /\ sess[s] = Unbuilt
          /\ sess' = [sess EXCEPT ![s] =
               [st |-> "live", ref |-> r, by |-> "manager", ready |-> FALSE]]
          /\ ref' = [ref EXCEPT ![r] = [status |-> "running", session |-> s]]
          /\ call' = [call EXCEPT ![c].pc = "initialising", ![c].sess = s]
          /\ reg = r /\ ref[r].status # "aborted"
          /\ adopted' = OnRunning(adopted, r) /\ UNCHANGED <<revival, stray>>
    BY <1>4 DEF Attaches, FreshSession, Attachable
  <2>2. reg \in Ref /\ reg # 0 /\ StatusOf(reg) = ref[reg].status /\ Revives(c)
    BY <1>2, <2>1, Bounds
       DEF StatusOf, Revives, SInv, Frame, RefsKnown, IInv, TypeOK, CallRecord, Ref0
  <2>3. /\ \A d \in Caller : d # c => call'[d] = call[d]
        /\ call'[c].pc = "initialising" /\ call'[c].ref = reg /\ call'[c].sess = s
        /\ call[c].ref = reg
    BY <2>1 DEF SInv, IInv, TypeOK, CallRecord
  <2>4. /\ sess'[s].st = "live" /\ sess'[s].ref = reg /\ sess'[s].by = "manager" /\ ~sess'[s].ready
        /\ \A q \in Session : q # s => sess'[q] = sess[q]
        /\ ref'[reg] = [status |-> "running", session |-> s]
        /\ \A q \in Ref : q # reg => ref'[q] = ref[q]
        /\ sess[s].st = "unbuilt" /\ sess[s].ref = 0 /\ sess[s].by = "nobody"
    BY <2>1, <2>2 DEF SInv, IInv, TypeOK, Unbuilt
  <2>5. /\ adopted'.ref = adopted.ref /\ adopted'.by = adopted.by
        /\ adopted' = adopted \/ adopted.ref = reg
    BY <2>1 DEF OnRunning, SInv, IInv, TypeOK, Adoption
  <2>6. Frame'
    <3>1. \A q \in Ref : ref[q] # Unborn => ref'[q] # Unborn
      BY <2>4, Bounds DEF Unborn
    <3>2. AdoptionNone'
      BY <2>2, <2>5 DEF SInv, Frame, AdoptionNone
    <3>3. call'[c].pc \in Reviving
      BY <2>3 DEF Reviving
    <3>4. \A q \in Session :
            /\ sess'[q].ref \in {sess[q].ref, call[c].ref}
            /\ sess'[q].st = "live" => sess'[q].ref = call[c].ref \/ sess[q].st = "live"
      BY <2>3, <2>4
    <3> QED BY <1>1, <1>2, <2>3, <2>5, <3>1, <3>2, <3>3, <3>4, MovedFrame DEF IInv
  <2>7. ~stale' => Core'
    <3> SUFFICES ASSUME Core PROVE Core'
      BY <1>2 DEF SInv
    <3>1. ref[reg] = Parked /\ revival = [ref |-> reg, owner |-> c]
      BY <1>2, <2>2 DEF Core, RevivalOk
    <3>2. ref[reg].session = 0 /\ StatusOf(reg) # "aborted"
      BY <2>2, <3>1 DEF Parked
    <3>3. AttachedOk' /\ DisposingOk' /\ IdleOk' /\ ParkBegun' /\ ParkDetaching' /\ CapturedOk'
          /\ AdoptedOk' /\ HeldOk'
      BY <1>2, <2>1, <2>2, <3>2, AttachedCore
    <3>4. InitialisingOk'
      <4>1. ASSUME NEW d \in Caller, d # c, call[d].pc = "initialising"
            PROVE  call[d].sess \in Session /\ sess'[call[d].sess] = sess[call[d].sess]
        BY <2>4, <4>1 DEF Core, InitialisingOk
      <4> QED BY <2>3, <2>4, <4>1 DEF Core, InitialisingOk
    <3>5. RevivalOk'
      <4>1. ASSUME NEW d \in Caller, Revives(d)', d # c PROVE FALSE
        <5>1. Revives(d)
          BY <1>2, <2>3, <3>2, <4>1 DEF Revives
        <5>2. revival = [ref |-> reg, owner |-> d]
          BY <5>1 DEF Core, RevivalOk
        <5> QED BY <3>1, <4>1, <5>2
      <4>2. revival' = [ref |-> reg', owner |-> c]
        BY <1>2, <2>1, <3>1
      <4>3. ref'[reg'] = [status |-> "running", session |-> call'[c].sess] /\ ~sess'[call'[c].sess].ready
        BY <1>2, <2>3, <2>4
      <4> QED BY <2>3, <4>1, <4>2, <4>3 DEF RevivalOk
    <3>6. RunOk'
      <4>1. \A q \in Session : sess[q].st = "live" /\ sess[q].by = "run" => sess[q].ref # reg
        <5> SUFFICES ASSUME NEW q \in Session, sess[q].st = "live", sess[q].by = "run", sess[q].ref = reg
                     PROVE  FALSE
          OBVIOUS
        <5>1. ref[reg] = [status |-> "running", session |-> q]
          BY <3>2 DEF Core, RunOk
        <5> QED BY <3>1, <5>1 DEF Parked
      <4> QED BY <1>2, <2>4, <4>1 DEF Core, RunOk
    <3>7. SpawnOk'
      <4>1. spawn.pc = "constructing" => spawn.ref \in Ref /\ spawn.ref # reg
        BY <3>1 DEF Core, SpawnOk, Parked, Killed, SInv, Frame, RefsKnown, IInv, TypeOK, Ref0
      <4> QED BY <1>2, <2>4, <2>5, <4>1 DEF Core, SpawnOk
    <3> QED BY <3>3, <3>4, <3>5, <3>6, <3>7 DEF Core
  <2>8. Unkilled => Quiet' /\ IdleIsTimed'
    <3> SUFFICES ASSUME Unkilled PROVE Quiet' /\ IdleIsTimed'
      OBVIOUS
    <3>1. Quiet
      BY SInvFacts
    <3>2. Quiet'
      BY <1>2, <2>1, <2>3, <2>5, <3>1, MovedQuiet DEF Quiet, Reviving
    <3>3. IdleIsTimed'
      BY <1>2, <2>2, <2>4 DEF IdleIsTimed, StatusOf
    <3> QED BY <3>2, <3>3
  <2> QED BY <1>1, <2>6, <2>7, <2>8, SInvStep
<1> QED BY <1>3, <1>4

\* The reviver's session is accepted only for the ref that still runs it, and is
\* disposed of otherwise.
LEMMA InitialisedSafe == ASSUME SInv, NEW c \in Caller, Initialised(c) PROVE SInv'
<1> DEFINE r == call[c].ref
           s == call[c].sess
           attachable == reg = r /\ ref[r] = Parked
           claimed    == reg = r /\ ref[r] = [status |-> "running", session |-> s]
           v == [NoCall EXCEPT !.pc = "returned", !.sess = s]
<1>1. IInv' /\ DeadStep
  BY InitialisedStep DEF SInv
<1>2. /\ UNCHANGED <<reg, stray, park, reopen, rel, spawn, marker, stale>>
      /\ call[c].pc = "initialising" /\ call[c].pc \in Reviving /\ ~Pending
  BY DEF Initialised, Reviving
<1>3. r \in Ref /\ r # 0 /\ s \in Session0
  BY <1>2, Bounds DEF SInv, Frame, RefsKnown, IInv, TypeOK, CallRecord, Ref0
<1>4. v.pc = "returned" /\ v.ref = 0
  BY DEF NoCall
<1>5. Core => s \in Session /\ s # 0 /\ sess[s].ref = r /\ sess[s].by = "manager"
  BY <1>2, Bounds DEF Core, InitialisingOk
<1>6. CASE attachable \/ claimed
  <2>1. /\ sess' = [sess EXCEPT ![s].ready = TRUE]
        /\ ref' = [ref EXCEPT ![r] = [status |-> "idle", session |-> s]]
        /\ adopted' = OnIdle(adopted, r)
        /\ Settled(c, v) /\ reg = r
    BY <1>6 DEF Initialised
  <2>2. \A q \in Session :
          /\ sess'[q].st = sess[q].st /\ sess'[q].ref = sess[q].ref /\ sess'[q].by = sess[q].by
          /\ q = s => sess'[q].ready = TRUE
          /\ q # s => sess'[q] = sess[q]
    BY <2>1 DEF SInv, IInv, TypeOK, SessRecord
  <2>3. /\ ref'[reg] = [status |-> "idle", session |-> s]
        /\ \A q \in Ref : q # reg => ref'[q] = ref[q]
    BY <1>3, <2>1 DEF SInv, IInv, TypeOK
  <2>4. /\ adopted'.ref = adopted.ref /\ adopted'.by = adopted.by
        /\ adopted.ref = reg /\ park = NoPark => adopted'.timer
        /\ adopted' = adopted \/ adopted.ref = reg
    BY <2>1 DEF OnIdle, SInv, IInv, TypeOK, Adoption
  <2> HIDE DEF v, s, attachable, claimed
  <2>5. Frame'
    <3>1. \A q \in Ref : ref[q] # Unborn => ref'[q] # Unborn
      BY <2>3 DEF Unborn
    <3>2. AdoptionNone'
      BY <1>3, <2>1, <2>4 DEF SInv, Frame, AdoptionNone
    <3> QED BY <1>1, <1>2, <1>4, <2>1, <2>2, <2>4, <3>1, <3>2, SettledFrame DEF IInv
  <2>6. ASSUME Core
        PROVE  /\ revival = [ref |-> reg, owner |-> c] /\ StatusOf(reg) # "aborted"
               /\ ref[reg] = [status |-> "running", session |-> s] /\ ~sess[s].ready
    <3>1. StatusOf(reg) # "aborted"
      BY <1>3, <1>6, <2>1 DEF StatusOf, Parked, attachable, claimed
    <3>2. Revives(c)
      BY <1>2, <2>1, <3>1 DEF Revives
    <3> QED BY <1>2, <2>6, <3>1, <3>2 DEF Core, RevivalOk, s
  <2>7. ~stale' => Core'
    <3> SUFFICES ASSUME Core PROVE Core'
      BY <1>2 DEF SInv
    <3>1. /\ StatusOf(reg)' = "idle" /\ SessionOf(reg)' = s /\ SessionOf(reg) = s
          /\ StatusOf(reg) = "running" /\ StatusOf(reg) # "aborted" /\ reg \in Ref
      BY <1>2, <1>3, <2>1, <2>3, <2>6 DEF StatusOf, SessionOf
    <3>2. AttachedOk' /\ DisposingOk'
      <4>1. AttachedOk'
        BY <1>2, <1>5, <2>2, <2>3, <2>6, <3>1 DEF Core, AttachedOk
      <4>2. DisposingOk'
        BY <1>2, <2>2, <3>1 DEF Core, DisposingOk
      <4> QED BY <4>1, <4>2
    <3>3. \A d \in Caller : call'[d].pc \in Reviving => d # c /\ call'[d] = call[d]
      <4>1. v.pc \notin Reviving
        BY <1>4 DEF Reviving
      <4> QED BY <2>1, <4>1, SettledMoves DEF SInv, IInv
    <3>4. InitialisingOk'
      BY <2>2, <3>3 DEF Core, InitialisingOk, Reviving
    <3>5. RevivalOk'
      <4> SUFFICES ASSUME NEW d \in Caller, Revives(d)' PROVE FALSE
        BY DEF RevivalOk
      <4>1. Revives(d) /\ d # c
        BY <1>2, <3>1, <3>3 DEF Revives
      <4>2. revival = [ref |-> reg, owner |-> d]
        BY <4>1 DEF Core, RevivalOk
      <4> QED BY <2>6, <4>1, <4>2
    <3>6. RunOk'
      <4>1. \A q \in Session : sess[q].st = "live" /\ sess[q].by = "run" => q # s /\ sess[q].ref # reg
        <5> SUFFICES ASSUME NEW q \in Session, sess[q].st = "live", sess[q].by = "run"
                     PROVE  q # s /\ sess[q].ref # reg
          OBVIOUS
        <5>1. q # s
          BY <1>5
        <5>2. ref[reg] = [status |-> "running", session |-> s]
          BY <2>6
        <5>3. sess[q].ref = reg => ref[reg] = [status |-> "running", session |-> q]
          BY <3>1 DEF Core, RunOk
        <5>4. [status |-> "running", session |-> q] # [status |-> "running", session |-> s]
          BY <5>1
        <5> QED BY <5>1, <5>2, <5>3, <5>4
      <4> QED BY <1>2, <2>2, <4>1 DEF Core, RunOk
    <3>7. SpawnOk'
      <4>1. spawn.pc = "constructing" => spawn.ref \in Ref /\ spawn.ref # reg
        BY <1>5, <2>6 DEF Core, SpawnOk, Killed, SInv, Frame, RefsKnown, IInv, TypeOK, Ref0
      <4> QED BY <1>2, <2>3, <2>4, <4>1 DEF Core, SpawnOk
    <3>8. IdleOk' /\ AdoptedOk'
      BY <1>2, <1>5, <2>2, <3>1 DEF IdleOk, AdoptedOk
    <3>9. ParkBegun'
      <4>1. ~(park # NoPark /\ ~park.detached /\ park.ref = reg)
        BY <2>6, <3>1 DEF Core, ParkBegun
      <4> QED BY <1>2, <4>1 DEF ParkBegun
    <3>10. ParkDetaching'
      <4>1. park.detached => park.sess \in Session
        BY DEF NoPark, SInv, IInv, ParkHasSession, TypeOK, ParkRecord, Session0
      <4> QED BY <1>2, <2>2, <4>1 DEF Core, ParkDetaching
    <3>11. CapturedOk'
      <4> SUFFICES ASSUME NEW k \in Releaser, rel[k].pc = "persist", rel[k].live # 0
                   PROVE  ref'[rel[k].ref] = Killed /\ sess'[rel[k].live].ref = rel[k].ref
        BY <1>2 DEF CapturedOk
      <4>1. /\ rel[k].ref \in Ref /\ ref[rel[k].ref] = Killed /\ rel[k].live \in Session
            /\ sess[rel[k].live].ref = rel[k].ref
        BY DEF Core, CapturedOk, SInv, Frame, RefsKnown, IInv, TypeOK, RelRecord, Ref0, Session0
      <4>2. rel[k].ref # reg
        BY <2>6, <4>1 DEF Killed
      <4> QED BY <2>2, <2>3, <4>1, <4>2
    <3>12. HeldOk'
      BY <1>2, <2>2, <3>1 DEF Core, HeldOk
    <3> QED BY <3>2, <3>4, <3>5, <3>6, <3>7, <3>8, <3>9, <3>10, <3>11, <3>12 DEF Core
  <2>8. Unkilled => Quiet' /\ IdleIsTimed'
    <3> SUFFICES ASSUME Unkilled PROVE Quiet' /\ IdleIsTimed'
      OBVIOUS
    <3>1. Quiet /\ park = NoPark
      BY <1>2, QuietReviver, SInvFacts
    <3>2. Quiet'
      BY <1>2, <1>4, <2>1, <2>4, <3>1, SettledQuiet DEF Quiet
    <3>3. IdleIsTimed'
      BY <1>2, <2>4, <3>1 DEF IdleIsTimed
    <3> QED BY <3>2, <3>3
  <2> QED BY <1>1, <2>5, <2>7, <2>8, SInvStep
<1>7. CASE ~(attachable \/ claimed)
  <2>1. /\ sess' = Disposing([sess EXCEPT ![s].ready = TRUE], s)
        /\ call' = [call EXCEPT ![c].pc = "discarding"]
        /\ UNCHANGED <<ref, adopted, revival>>
    BY <1>7 DEF Initialised
  <2>2. /\ \A d \in Caller : d # c => call'[d] = call[d]
        /\ call'[c].pc = "discarding" /\ call'[c].ref = r
    BY <2>1 DEF SInv, IInv, TypeOK, CallRecord
  <2>3. \A q \in Session :
          /\ sess'[q].ref = sess[q].ref /\ sess'[q].by = sess[q].by
          /\ q # s => sess'[q].st = sess[q].st /\ sess'[q].ready = sess[q].ready
          /\ q = s => sess'[q].st = IF sess[q].st = "live" THEN "disposing" ELSE sess[q].st
    <3> DEFINE ss == [sess EXCEPT ![s].ready = TRUE]
    <3>1. /\ ss \in [Session -> SessRecord]
          /\ \A q \in Session : /\ ss[q].st = sess[q].st /\ ss[q].ref = sess[q].ref /\ ss[q].by = sess[q].by
                                /\ q # s => ss[q].ready = sess[q].ready
      <4>1. sess \in [Session -> SessRecord]
        BY DEF SInv, IInv, TypeOK
      <4> HIDE DEF s
      <4>2. \A q \in Session : ss[q] = IF q = s THEN [sess[s] EXCEPT !.ready = TRUE] ELSE sess[q]
        BY <4>1
      <4>3. ss \in [Session -> SessRecord]
        BY <4>1 DEF SessRecord
      <4> HIDE DEF ss
      <4> QED BY <4>1, <4>2, <4>3 DEF SessRecord
    <3>2. sess' = Disposing(ss, s)
      BY <2>1
    <3> HIDE DEF ss, s
    <3> QED BY <3>1, <3>2, DisposingFacts
  <2> HIDE DEF v, s
  <2>4. Frame'
    BY <1>1, <1>2, <2>1, <2>2, <2>3, MovedFrame DEF IInv, SInv, Frame, AdoptionNone
  <2>5. ASSUME Core PROVE ~Revives(c)
    <3>1. Revives(c) => claimed
      BY <1>2, <2>5 DEF Core, RevivalOk, Revives, s
    <3> QED BY <1>7, <3>1
  <2>6. ~stale' => Core'
    <3> SUFFICES ASSUME Core PROVE Core'
      BY <1>2 DEF SInv
    <3> HIDE DEF attachable, claimed
    <3>1. r # reg \/ StatusOf(reg) = "aborted"
      BY <1>2, <2>5 DEF Revives
    <3>2. \A q \in Ref : ref[q].session # s
      <4> SUFFICES ASSUME NEW q \in Ref, ref[q].session = s PROVE FALSE
        OBVIOUS
      <4>1. q = reg /\ r = reg
        BY <1>5 DEF Core, AttachedOk
      <4> QED BY <1>3, <1>5, <3>1, <4>1 DEF StatusOf, SInv, IInv, KilledDetached, Killed
    <3>3. /\ AttachedOk' /\ DisposingOk' /\ RunOk' /\ IdleOk' /\ AdoptedOk' /\ ParkBegun'
          /\ ParkDetaching'
      BY <1>2, <1>5, <2>1, <2>3, <3>1, <3>2, EndsUnattached DEF SInv
    <3>4. InitialisingOk'
      BY <2>2, <2>3 DEF Core, InitialisingOk
    <3>5. RevivalOk'
      <4> SUFFICES ASSUME NEW d \in Caller, Revives(d)'
                   PROVE  /\ revival = [ref |-> reg, owner |-> d]
                          /\ call[d].pc # "initialising" => ref[reg] = Parked
                          /\ call[d].pc = "initialising" =>
                               /\ ref[reg] = [status |-> "running", session |-> call[d].sess]
                               /\ ~sess'[call[d].sess].ready
                          /\ call'[d] = call[d]
        BY <1>2, <2>1 DEF RevivalOk
      <4>1. d # c
        BY <2>2 DEF Revives, Reviving
      <4>2. Revives(d) /\ call'[d] = call[d]
        BY <1>2, <2>1, <2>2, <4>1 DEF Revives, StatusOf
      <4>3. ASSUME call[d].pc = "initialising"
            PROVE  /\ ref[reg] = [status |-> "running", session |-> call[d].sess]
                   /\ ~sess'[call[d].sess].ready
        <5>1. /\ ref[reg] = [status |-> "running", session |-> call[d].sess]
              /\ ~sess[call[d].sess].ready /\ call[d].sess \in Session
          BY <4>2, <4>3 DEF Core, RevivalOk, InitialisingOk
        <5>2. reg \in Ref
          BY <4>2 DEF Revives, SInv, Frame, RefsKnown, IInv, TypeOK, Ref0
        <5>3. call[d].sess # s
          BY <3>2, <5>1, <5>2
        <5> QED BY <2>3, <5>1, <5>3
      <4> QED BY <4>2, <4>3 DEF Core, RevivalOk
    <3>6. SpawnOk' /\ CapturedOk'
      BY <1>2, <2>1, <2>3 DEF Core, SpawnOk, CapturedOk, SInv, IInv, TypeOK, RelRecord, Session0
    <3>7. HeldOk'
      <4>1. UNCHANGED <<reg, ref, rel>>
        BY <1>2, <2>1
      <4>2. ASSUME NEW q \in Session, sess'[q].st = "live", sess'[q].by # "run"
            PROVE  sess[q].st = "live" /\ sess[q].by # "run"
        BY <2>3, <4>2
      <4>3. HeldOk
        BY DEF Core
      <4> QED BY <4>1, <4>2, <4>3 DEF HeldOk, SessionOf
    <3> QED BY <3>3, <3>4, <3>5, <3>6, <3>7 DEF Core
  <2>7. ~Unkilled
    BY <1>2, <2>5, QuietReviver, SInvFacts
  <2> QED BY <1>1, <2>4, <2>6, <2>7, SInvStep
<1> QED BY <1>6, <1>7

\* A revival that fails while it is initialising, or whose session was discarded.
LEMMA FailedSafe ==
  ASSUME SInv, NEW c \in Caller, InitialisationFails(c) \/ Discarded(c) PROVE SInv'
<1>1. IInv' /\ DeadStep
  BY FailedStep DEF SInv
<1>2. /\ UNCHANGED <<reg, ref, sess, park, reopen, rel, spawn, marker, stale>> /\ ReviveFails(c)
      /\ call[c].pc = "discarding" \/ (call[c].pc \in Reviving /\ ~Pending)
  BY DEF InitialisationFails, Discarded, Reviving
<1> QED BY <1>1, <1>2, ReviveFailsSafe

-----------------------------------------------------------------------------
\* The kills.

\* The terminal transition of a kill takes the session from its ref and holds it.
LEMMA CommitSafe ==
  ASSUME SInv, IInv', DeadStep, NEW k \in Releaser, NEW r \in Ref, NEW owned,
         Commit(k, r, TRUE, owned),
         rel[k].pc \in {"none", "done", "commit"},
         adopted' \in {adopted, NoAdoption},
         UNCHANGED <<reg, stray, park, revival, reopen, call, spawn, stale>>,
         Unkilled => reg = r \/ adopted' = adopted
  PROVE  SInv'
<1> DEFINE live == IF reg = r THEN ref[r].session ELSE 0
<1>1. /\ rel' = [rel EXCEPT ![k] =
           [NoRelease EXCEPT !.pc = "persist", !.ref = r, !.live = live, !.tomb = TRUE,
                             !.owned = owned]]
      /\ reg = r => ref' = [ref EXCEPT ![r] = Killed]
      /\ reg # r => ref' = ref
      /\ sess' = sess
  BY DEF Commit
<1>2. /\ rel'[k].pc = "persist" /\ rel'[k].ref = r /\ rel'[k].live = live /\ rel'[k].tomb = TRUE
      /\ \A j \in Releaser : j # k => rel'[j] = rel[j]
  BY <1>1 DEF NoRelease, SInv, IInv, TypeOK
<1>3. /\ reg = r => ref'[r] = Killed
      /\ \A q \in Ref : q # r => ref'[q] = ref[q]
      /\ reg # r => live = 0
  BY <1>1 DEF SInv, IInv, TypeOK
<1>4. NoAdoption.ref = 0 /\ ~NoAdoption.timer /\ r # 0
  BY Bounds DEF NoAdoption
<1>5. Frame'
  <2>1. \A q \in Ref : ref[q] # Unborn => ref'[q] # Unborn
    BY <1>1, <1>3 DEF Unborn, Killed
  <2>2. RefsBorn'
    <3>1. /\ Known(adopted'.ref) /\ Known(park'.ref) /\ Born(reg)'
          /\ \A c \in Caller : Known(call'[c].ref)
          /\ \A s \in Session : Known(sess'[s].ref)
      BY <1>1, <1>4, <2>1 DEF Known, SInv, Frame, RefsBorn, Born, IInv, TypeOK, Ref0
    <3> QED BY <2>1, <3>1, BornStep DEF SInv, Frame, IInv
  <2>3. KillsOnly'
    BY <1>2 DEF SInv, Frame, KillsOnly
  <2>4. WokenWait' /\ AdoptionNone'
    BY DEF SInv, Frame, WokenWait, AdoptionNone
  <2>5. RefsKnown'
    BY <1>1, <1>2, <1>4 DEF SInv, Frame, RefsKnown
  <2> QED BY <2>2, <2>3, <2>4, <2>5 DEF Frame
<1>6. ~stale' => Core'
  <2> SUFFICES ASSUME Core PROVE Core'
    BY DEF SInv
  <2>1. HeldOk'
    <3> SUFFICES ASSUME NEW s \in Session, sess[s].st = "live", sess[s].by # "run",
                        SessionOf(reg)' # s
                 PROVE  \E j \in Releaser : rel'[j].pc = "persist" /\ rel'[j].live = s
      BY <1>1 DEF HeldOk
    <3>1. CASE SessionOf(reg) = s
      <4>1. reg = r
        BY <1>1, <3>1 DEF SessionOf
      <4>2. live = s
        BY <3>1, <4>1, <1>4 DEF SessionOf
      <4> QED BY <1>2, <4>2
    <3>2. CASE SessionOf(reg) # s
      <4>1. PICK j \in Releaser : rel[j].pc = "persist" /\ rel[j].live = s
        BY <3>2 DEF Core, HeldOk
      <4> QED BY <1>2, <4>1
    <3> QED BY <3>1, <3>2
  <2>2. CapturedOk'
    <3> SUFFICES ASSUME NEW j \in Releaser, rel'[j].pc = "persist", rel'[j].live # 0
                 PROVE  ref'[rel'[j].ref] = Killed /\ sess[rel'[j].live].ref = rel'[j].ref
      BY <1>1 DEF CapturedOk
    <3>1. CASE j = k
      <4>1. reg = r /\ ref[r].session = live /\ live # 0
        BY <1>2, <1>3, <3>1
      <4>2. sess[live].ref = r
        BY <4>1 DEF Core, AttachedOk
      <4> QED BY <1>2, <1>3, <3>1, <4>1, <4>2
    <3>2. CASE j # k
      <4>1. rel'[j] = rel[j] /\ rel[j].ref \in Ref
        BY <1>2, <3>2 DEF SInv, Frame, RefsKnown, IInv, TypeOK, RelRecord, Ref0
      <4>2. ref[rel[j].ref] = Killed /\ sess[rel[j].live].ref = rel[j].ref
        BY <4>1 DEF Core, CapturedOk
      <4> QED BY <1>1, <1>3, <4>1, <4>2
    <3> QED BY <3>1, <3>2
  <2>3. SpawnOk'
    <3>1. spawn.pc = "constructing" => spawn.ref \in Ref
      BY DEF SInv, Frame, RefsKnown, IInv, TypeOK, Ref0
    <3> QED BY <1>1, <1>3, <1>4, <3>1, Bounds DEF Core, SpawnOk
  <2>4. InitialisingOk' /\ ParkDetaching'
    BY <1>1 DEF Core, InitialisingOk, ParkDetaching
  <2>5. CASE reg = r
    <3>1. StatusOf(reg)' = "aborted" /\ SessionOf(reg)' = 0
      BY <1>3, <1>4, <2>5 DEF StatusOf, SessionOf, Killed
    <3>2. AttachedOk'
      BY <1>3, <2>5 DEF Core, AttachedOk, Killed
    <3>3. DisposingOk' /\ RevivalOk' /\ RunOk' /\ IdleOk' /\ AdoptedOk' /\ ParkBegun'
      BY <1>1, <3>1 DEF Core, DisposingOk, RevivalOk, Revives, RunOk, IdleOk, AdoptedOk, ParkBegun
    <3> QED BY <2>1, <2>2, <2>3, <2>4, <3>2, <3>3 DEF Core
  <2>6. CASE reg # r
    <3>1. ref' = ref
      BY <1>1, <2>6
    <3>2. AttachedOk' /\ DisposingOk' /\ RevivalOk' /\ RunOk' /\ IdleOk'
      BY <1>1, <3>1 DEF Core, AttachedOk, DisposingOk, RevivalOk, Revives, RunOk, IdleOk,
         StatusOf, SessionOf
    <3>3. AdoptedOk' /\ ParkBegun'
      BY <1>1, <1>4, <3>1 DEF Core, AdoptedOk, ParkBegun, StatusOf, SessionOf
    <3> QED BY <2>1, <2>2, <2>3, <2>4, <3>2, <3>3 DEF Core
  <2> QED BY <2>5, <2>6
<1>7. Unkilled => (Unkilled' => Quiet' /\ IdleIsTimed')
  <2> SUFFICES ASSUME Unkilled, Unkilled' PROVE Quiet' /\ IdleIsTimed'
    OBVIOUS
  <2>1. reg # r
    BY <1>3 DEF Unkilled, Killed
  <2>2. UNCHANGED <<ref, adopted>>
    BY <1>1, <2>1
  <2> QED BY <2>2, SInvFacts DEF Quiet, IdleIsTimed, StatusOf
<1> QED BY <1>5, <1>6, <1>7, SInvStep

\* A kill drops the adoption, and cancels the park in flight or kills the ref.
LEMMA ReleaseBeginsSafe ==
  ASSUME SInv, "removal" \notin Env, NEW k \in Releaser, NEW tomb \in BOOLEAN,
         ReleaseBegins(k, tomb)
  PROVE  SInv'
<1> DEFINE r == IF reg # 0 THEN reg ELSE adopted.ref
           owned == adopted.ref = r /\ adopted.by = "executor"
<1>1. IInv' /\ DeadStep
  BY ReleaseBeginsStep DEF SInv
<1>2. /\ UNCHANGED <<reg, stray, revival, reopen, call, spawn, marker, stale>>
      /\ tomb = TRUE /\ rel[k].pc \in {"none", "done"}
      /\ adopted' = IF adopted.ref = r THEN NoAdoption ELSE adopted
      /\ r \in Ref /\ r # 0
  BY Bounds DEF ReleaseBegins, SInv, IInv, TypeOK, Ref0, Adoption
<1>3. Unkilled =>
        reg = r /\ (adopted' = NoAdoption \/ (adopted.ref = 0 /\ adopted' = adopted))
  <2>1. Unkilled => adopted.ref \in {0, reg}
    BY SInvFacts DEF Quiet
  <2> QED BY <1>2, <2>1
<1>4. NoAdoption.ref = 0 /\ ~NoAdoption.timer
  BY DEF NoAdoption
<1>5. CASE Commit(k, r, tomb, owned) /\ UNCHANGED park
  <2> HIDE DEF r, owned
  <2> QED BY <1>1, <1>2, <1>3, <1>5, CommitSafe
<1>6. CASE /\ park.ref = r
           /\ park' = [park EXCEPT !.cancelled = @ \/ ~park.detached]
           /\ rel' = [rel EXCEPT ![k] =
                [NoRelease EXCEPT !.pc = "parkWait", !.ref = r, !.tomb = tomb, !.owned = owned]]
           /\ UNCHANGED <<ref, sess>>
  <2> HIDE DEF r, owned
  <2>1. /\ park'.ref = park.ref /\ park'.sess = park.sess /\ park'.detached = park.detached
        /\ ~park.detached => park'.cancelled
        /\ park.detached => (park'.cancelled <=> park.cancelled)
        /\ park # NoPark /\ park' # NoPark
    <3>1. park \in ParkRecord
      BY DEF SInv, IInv, TypeOK
    <3>2. /\ park'.ref = park.ref /\ park'.sess = park.sess /\ park'.detached = park.detached
          /\ park'.cancelled = (park.cancelled \/ ~park.detached)
      BY <1>6, <3>1 DEF ParkRecord
    <3>3. park # NoPark /\ park' # NoPark
      BY <1>2, <1>6, <3>2 DEF NoPark
    <3>4. /\ ~park.detached => park'.cancelled
          /\ park.detached => (park'.cancelled <=> park.cancelled)
      BY <3>2, Zenon
    <3> QED BY <3>2, <3>3, <3>4
  <2>2. /\ rel'[k].pc = "parkWait" /\ rel'[k].tomb
        /\ \A j \in Releaser : j # k => rel'[j] = rel[j]
    BY <1>2, <1>6 DEF NoRelease, SInv, IInv, TypeOK
  <2>3. adopted' \in {adopted, NoAdoption}
    BY <1>2
  <2>4. Frame'
    <3>1. RefsBorn'
      BY <1>1, <1>2, <1>4, <1>6, <2>1, <2>3, BornStep DEF Known, SInv, Frame, RefsBorn, Born, IInv
    <3>2. KillsOnly' /\ RefsKnown'
      BY <1>2, <1>6, <2>1, <2>2 DEF SInv, Frame, KillsOnly, RefsKnown
    <3>3. WokenWait'
      BY <1>2, <2>1 DEF SInv, Frame, WokenWait
    <3>4. AdoptionNone'
      BY <2>3 DEF SInv, Frame, AdoptionNone
    <3> QED BY <3>1, <3>2, <3>3, <3>4 DEF Frame
  <2>5. ~stale' => Core'
    <3> SUFFICES ASSUME Core PROVE Core'
      BY <1>2 DEF SInv
    <3>1. AttachedOk' /\ DisposingOk' /\ RevivalOk' /\ InitialisingOk' /\ RunOk' /\ IdleOk'
      BY <1>2, <1>6, <2>1 DEF Core, AttachedOk, DisposingOk, RevivalOk, Revives, InitialisingOk,
         RunOk, IdleOk, StatusOf, SessionOf
    <3>2. SpawnOk' /\ AdoptedOk' /\ ParkBegun'
      BY <1>2, <1>4, <1>6, <2>1, <2>3
         DEF Core, SpawnOk, AdoptedOk, ParkBegun, StatusOf, SessionOf, SInv, Frame, RefsKnown
    <3>3. ParkDetaching'
      BY <1>6, <2>1 DEF Core, ParkDetaching
    <3>4. CapturedOk' /\ HeldOk'
      BY <1>2, <1>6, <2>2 DEF Core, CapturedOk, HeldOk, SessionOf
    <3> QED BY <3>1, <3>2, <3>3, <3>4 DEF Core
  <2>6. Unkilled => Quiet' /\ IdleIsTimed'
    <3> SUFFICES ASSUME Unkilled PROVE Quiet' /\ IdleIsTimed'
      OBVIOUS
    <3>1. Quiet /\ adopted'.ref = 0 /\ reg = r /\ reg # 0
      BY <1>2, <1>3, <1>4, SInvFacts
    <3>2. Quiet'
      BY <1>2, <1>6, <2>1, <3>1 DEF Quiet
    <3>3. IdleIsTimed'
      BY <1>2, <3>1 DEF IdleIsTimed
    <3> QED BY <3>2, <3>3
  <2> QED BY <1>1, <2>4, <2>5, <2>6, SInvStep
<1> QED BY <1>5, <1>6 DEF ReleaseBegins

\* A kill that waited for the park kills the ref.
LEMMA ReleaseCommitsSafe == ASSUME SInv, NEW k \in Releaser, ReleaseCommits(k) PROVE SInv'
<1>1. IInv' /\ DeadStep
  BY ReleaseCommitsStep DEF SInv
<1>2. /\ UNCHANGED <<reg, adopted, stray, park, revival, reopen, call, spawn, marker, stale>>
      /\ rel[k].pc = "commit" /\ Commit(k, rel[k].ref, rel[k].tomb, rel[k].owned)
  BY DEF ReleaseCommits
<1>3. rel[k].tomb = TRUE /\ rel[k].ref \in Ref
  BY <1>2 DEF SInv, Frame, KillsOnly, IInv, RefKnown, RelKnown, TypeOK, RelRecord, Ref0
<1>4. Commit(k, rel[k].ref, TRUE, rel[k].owned)
  BY <1>2, <1>3
<1> QED BY <1>1, <1>2, <1>3, <1>4, CommitSafe

\* The frame of a kill that goes on.
LEMMA KillFrame ==
  ASSUME SInv, TypeOK', NEW k \in Releaser,
         \A j \in Releaser : j # k => rel'[j] = rel[j],
         rel'[k].tomb, rel'[k].pc # "persist",
         UNCHANGED <<reg, ref, adopted, park, call, spawn>>,
         \A s \in Session : sess'[s].ref = sess[s].ref /\ (sess'[s].st = "live" => sess[s].st = "live")
  PROVE  Frame'
<1>1. /\ Known(adopted'.ref) /\ Known(park'.ref) /\ Born(reg)'
      /\ \A c \in Caller : Known(call'[c].ref)
      /\ \A s \in Session : Known(sess'[s].ref)
  BY DEF Known, SInv, Frame, RefsBorn, Born, IInv, TypeOK, Ref0
<1>2. RefsBorn'
  BY <1>1, BornStep DEF SInv, Frame
<1>3. KillsOnly' /\ WokenWait' /\ AdoptionNone' /\ RefsKnown'
  BY DEF SInv, Frame, KillsOnly, WokenWait, AdoptionNone, RefsKnown
<1> QED BY <1>2, <1>3 DEF Frame

\* The session a kill captured is disposed of after the marker was written.
LEMMA PersistedSafe == ASSUME SInv, NEW k \in Releaser, Persisted(k) PROVE SInv'
<1> DEFINE s == rel[k].live
<1>1. IInv' /\ DeadStep
  BY ReleaseMoves DEF SInv
<1>2. /\ UNCHANGED <<reg, ref, adopted, stray, park, revival, reopen, call, spawn, stale>>
      /\ rel[k].pc = "persist" /\ s \in Session0
      /\ sess' = IF s # 0 THEN Disposing(sess, s) ELSE sess
  BY DEF Persisted, DisposesCaptured, SInv, IInv, TypeOK, RelRecord
<1>3. PICK written \in BOOLEAN, pc \in {"dispose", "cleanup"} :
        rel' = [rel EXCEPT ![k].pc = pc, ![k].ok = written]
  BY DEF Persisted
<1>4. /\ rel'[k].pc # "persist" /\ rel'[k].tomb
      /\ \A j \in Releaser : j # k => rel'[j] = rel[j]
  <2>1. rel[k].tomb
    BY <1>2 DEF SInv, Frame, KillsOnly
  <2> QED BY <1>3, <2>1 DEF SInv, IInv, TypeOK, RelRecord
<1>5. \A q \in Session :
        /\ sess'[q].ref = sess[q].ref /\ sess'[q].by = sess[q].by /\ sess'[q].ready = sess[q].ready
        /\ sess'[q].st = IF q = s /\ sess[q].st = "live" THEN "disposing" ELSE sess[q].st
  <2>1. sess \in [Session -> SessRecord] /\ 0 \notin Session
    BY Bounds DEF SInv, IInv, TypeOK
  <2> HIDE DEF s
  <2> QED BY <1>2, <2>1, DisposingFacts
<1> HIDE DEF s
<1>6. Frame'
  BY <1>1, <1>2, <1>4, <1>5, KillFrame DEF IInv
<1>7. ~stale' => Core'
  <2> SUFFICES ASSUME Core PROVE Core'
    BY <1>2 DEF SInv
  <2>1. AttachedOk' /\ DisposingOk' /\ RunOk' /\ IdleOk' /\ AdoptedOk' /\ ParkBegun' /\ ParkDetaching'
    <3>1. CASE s = 0
      <4>1. sess' = sess
        BY <1>2, <3>1
      <4> QED BY <1>2, <4>1 DEF Core, AttachedOk, DisposingOk, RunOk, IdleOk, AdoptedOk, ParkBegun,
                                ParkDetaching, StatusOf, SessionOf
    <3>2. CASE s # 0
      <4>1. /\ s \in Session /\ rel[k].ref \in Ref
            /\ ref[rel[k].ref] = Killed /\ sess[s].ref = rel[k].ref
        BY <1>2, <3>2
           DEF s, Core, CapturedOk, SInv, Frame, RefsKnown, IInv, TypeOK, RelRecord, Ref0, Session0
      <4>2. sess[s].ref # reg \/ StatusOf(reg) = "aborted"
        BY <4>1, Bounds DEF StatusOf, Killed
      <4>3. \A q \in Ref : ref[q].session # s
        <5> SUFFICES ASSUME NEW q \in Ref, ref[q].session = s PROVE FALSE
          OBVIOUS
        <5>1. q = sess[s].ref
          BY <3>2 DEF Core, AttachedOk
        <5>2. ref[q] = Killed
          BY <4>1, <5>1
        <5> QED BY <3>2, <5>2 DEF Killed
      <4>4. /\ \A q \in Session :
                 /\ sess'[q].ref = sess[q].ref
                 /\ q # s => sess'[q].st = sess[q].st /\ sess'[q].by = sess[q].by /\ sess'[q].ready = sess[q].ready
            /\ sess'[s].st = IF sess[s].st = "live" THEN "disposing" ELSE sess[s].st
            /\ UNCHANGED <<reg, ref, park, adopted>>
        BY <1>2, <1>5, <4>1
      <4> QED BY <4>1, <4>2, <4>3, <4>4, EndsUnattached DEF SInv
    <3> QED BY <3>1, <3>2
  <2>2. InitialisingOk'
    BY <1>2, <1>5 DEF Core, InitialisingOk
  <2>3. RevivalOk'
    BY <1>2, <1>5 DEF Core, RevivalOk, Revives, InitialisingOk, StatusOf
  <2>4. SpawnOk'
    BY <1>2 DEF Core, SpawnOk
  <2>5. CapturedOk'
    <3> SUFFICES ASSUME NEW j \in Releaser, rel'[j].pc = "persist", rel'[j].live # 0
                 PROVE  ref[rel'[j].ref] = Killed /\ sess'[rel'[j].live].ref = rel'[j].ref
      BY <1>2 DEF CapturedOk
    <3>1. rel'[j] = rel[j] /\ rel[j].live \in Session
      BY <1>4 DEF SInv, IInv, TypeOK, RelRecord, Session0
    <3> QED BY <1>5, <3>1 DEF Core, CapturedOk
  <2>6. HeldOk'
    <3> SUFFICES ASSUME NEW q \in Session, sess'[q].st = "live", sess'[q].by # "run", SessionOf(reg) # q
                 PROVE  \E j \in Releaser : rel'[j].pc = "persist" /\ rel'[j].live = q
      BY <1>2 DEF HeldOk, SessionOf
    <3>1. q # s /\ sess[q].st = "live" /\ sess[q].by # "run"
      BY <1>5
    <3>2. PICK j \in Releaser : rel[j].pc = "persist" /\ rel[j].live = q
      BY <3>1 DEF Core, HeldOk
    <3>3. j # k
      BY <3>1, <3>2 DEF s
    <3> QED BY <1>4, <3>2, <3>3
  <2> QED BY <2>1, <2>2, <2>3, <2>4, <2>5, <2>6 DEF Core
<1>8. Unkilled => Quiet' /\ IdleIsTimed'
  BY <1>2, SInvFacts DEF Quiet, IdleIsTimed, StatusOf
<1> QED BY <1>1, <1>6, <1>7, <1>8, SInvStep

\* The rest of a kill changes nothing but the call: it leaves the ref registered.
LEMMA KillEndsSafe ==
  ASSUME SInv, NEW k \in Releaser, Disposed(k) \/ ReleaseEnds(k) PROVE SInv'
<1>1. IInv' /\ DeadStep
  BY ReleaseMoves DEF SInv
<1>2. rel[k].tomb /\ rel[k].pc \in {"dispose", "cleanup"}
  BY DEF Disposed, ReleaseEnds, SInv, Frame, KillsOnly
<1>3. UNCHANGED <<reg, ref, sess, adopted, stray, park, revival, reopen, call, spawn, stale>>
  BY <1>2 DEF Disposed, ReleaseEnds
<1>4. PICK pc \in {"cleanup", "done"} : rel' = [rel EXCEPT ![k].pc = pc]
  BY DEF Disposed, ReleaseEnds
<1>5. /\ rel'[k].pc # "persist" /\ rel'[k].tomb
      /\ \A j \in Releaser : j # k => rel'[j] = rel[j]
  BY <1>2, <1>4 DEF SInv, IInv, TypeOK, RelRecord
<1>6. Frame'
  BY <1>1, <1>3, <1>5, KillFrame DEF IInv
<1>7. ~stale' => Core'
  <2> SUFFICES ASSUME Core PROVE Core'
    BY <1>3 DEF SInv
  <2>1. AttachedOk' /\ DisposingOk' /\ RevivalOk' /\ InitialisingOk' /\ RunOk' /\ IdleOk'
    BY <1>3 DEF Core, AttachedOk, DisposingOk, RevivalOk, Revives, InitialisingOk, RunOk, IdleOk,
       StatusOf, SessionOf
  <2>2. SpawnOk' /\ AdoptedOk' /\ ParkBegun' /\ ParkDetaching'
    BY <1>3 DEF Core, SpawnOk, AdoptedOk, ParkBegun, ParkDetaching, StatusOf, SessionOf
  <2>3. CapturedOk' /\ HeldOk'
    BY <1>2, <1>3, <1>5 DEF Core, CapturedOk, HeldOk, SessionOf
  <2> QED BY <2>1, <2>2, <2>3 DEF Core
<1>8. Unkilled => Quiet' /\ IdleIsTimed'
  BY <1>3, SInvFacts DEF Quiet, IdleIsTimed, StatusOf
<1> QED BY <1>1, <1>6, <1>7, <1>8, SInvStep

-----------------------------------------------------------------------------
\* The fresh spawn.

\* What is left when a ref without a session is forgotten.
LEMMA ForgottenCore ==
  ASSUME SInv, Core, reg \in Ref, ref[reg].session = 0, reg' = 0, adopted' = adopted,
         UNCHANGED <<ref, sess, park, revival, call, rel>>, spawn'.pc # "constructing"
  PROVE  Core'
<1>1. /\ StatusOf(reg)' = "unborn" /\ SessionOf(reg)' = 0 /\ SessionOf(reg) = 0
  BY Bounds DEF StatusOf, SessionOf
<1>2. AttachedOk' /\ DisposingOk' /\ InitialisingOk' /\ SpawnOk' /\ IdleOk' /\ AdoptedOk'
  BY <1>1 DEF Core, AttachedOk, DisposingOk, InitialisingOk, SpawnOk, IdleOk, AdoptedOk
<1>3. RevivalOk' /\ RunOk' /\ ParkBegun'
  BY <1>1 DEF RevivalOk, Revives, RunOk, ParkBegun, SInv, Frame, RefsKnown, Core
<1>4. ParkDetaching' /\ CapturedOk' /\ HeldOk'
  BY <1>1, Bounds DEF Core, ParkDetaching, CapturedOk, HeldOk
<1> QED BY <1>2, <1>3, <1>4 DEF Core

\* The part of the invariant that no spawn touches until its session attaches.
LEMMA SpawnCore ==
  ASSUME Core, UNCHANGED <<reg, ref, sess, adopted, park, revival, call, rel>>,
         spawn'.pc # "constructing"
  PROVE  Core'
<1>1. AttachedOk' /\ DisposingOk' /\ RevivalOk' /\ InitialisingOk' /\ RunOk' /\ IdleOk' /\ SpawnOk'
  BY DEF Core, AttachedOk, DisposingOk, RevivalOk, Revives, InitialisingOk, RunOk, IdleOk, SpawnOk,
     StatusOf, SessionOf
<1>2. AdoptedOk' /\ ParkBegun' /\ ParkDetaching' /\ CapturedOk' /\ HeldOk'
  BY DEF Core, AdoptedOk, ParkBegun, ParkDetaching, CapturedOk, HeldOk, StatusOf, SessionOf
<1> QED BY <1>1, <1>2 DEF Core

\* The frame of a spawn that registers nothing and attaches nothing.
LEMMA SpawnFrame ==
  ASSUME SInv, TypeOK', reg' \in {0, reg}, adopted' \in {adopted, NoAdoption},
         UNCHANGED <<ref, sess, park, call, rel>>, spawn'.pc # "constructing"
  PROVE  Frame'
<1>1. NoAdoption.ref = 0
  BY DEF NoAdoption
<1>2. RefsBorn'
  BY <1>1 DEF SInv, Frame, RefsBorn, Born
<1>3. KillsOnly' /\ WokenWait' /\ AdoptionNone' /\ RefsKnown'
  BY DEF SInv, Frame, KillsOnly, WokenWait, AdoptionNone, RefsKnown
<1> QED BY <1>2, <1>3 DEF Frame

\* A spawn registers a generation where there is none.
LEMMA RegistersSafe ==
  ASSUME SInv, Registers,
         UNCHANGED <<sess, adopted, stray, park, revival, reopen, call, rel, marker, stale>>
  PROVE  SInv'
<1>1. IInv' /\ DeadStep
  BY RegistersStep DEF SInv
<1>2. reg = 0
  BY DEF Registers
<1>3. PICK r \in Ref : /\ ref[r] = Unborn /\ reg' = r
                       /\ ref' = [ref EXCEPT ![r] = [status |-> "running", session |-> 0]]
                       /\ spawn' = [pc |-> "constructing", ref |-> r]
  BY DEF Registers, FreshRef
<1>4. r # 0 /\ spawn'.ref = r
  BY <1>3, Bounds
<1>5. Frame'
  BY <1>1, <1>3, <1>4, FreshFrame DEF IInv
<1>6. ~stale' => Core'
  <2> SUFFICES ASSUME Core PROVE Core'
    BY DEF SInv
  <2>1. adopted.ref # r
    BY <1>3, <1>4 DEF SInv, Frame, RefsBorn, Born
  <2>2. ref'[r] = [status |-> "running", session |-> 0]
    BY <1>3 DEF SInv, IInv, TypeOK
  <2>3. SpawnOk'
    BY <1>3, <1>4, <2>1, <2>2 DEF SpawnOk
  <2> QED BY <1>2, <1>3, <2>3, FreshCore
<1>7. Unkilled => Quiet' /\ IdleIsTimed'
  <2> SUFFICES ASSUME Unkilled PROVE Quiet' /\ IdleIsTimed'
    OBVIOUS
  <2>1. Quiet
    BY SInvFacts
  <2>2. park = NoPark /\ adopted.ref = 0
    BY <1>2, <2>1 DEF Quiet, SInv, Frame, RefsKnown
  <2>3. \A c \in Caller : call[c].pc \notin Reviving \cup {"keeping", "kept"}
    BY <1>2, <2>1 DEF Quiet, SInv, Frame, RefsKnown
  <2>4. Quiet'
    BY <2>1, <2>2, <2>3 DEF Quiet, NoPark
  <2>5. IdleIsTimed'
    BY <1>3, <1>4, <2>2 DEF IdleIsTimed
  <2> QED BY <2>4, <2>5
<1> QED BY <1>1, <1>5, <1>6, <1>7, SInvStep

\* A spawn that is to begin registers, or looks at the corpse in its way.
LEMMA SpawnBeginsSafe == ASSUME SInv, SpawnBegins \/ SpawnClaims PROVE SInv'
<1>1. UNCHANGED <<sess, adopted, stray, park, revival, reopen, call, rel, marker, stale>>
  BY DEF SpawnBegins, SpawnClaims
<1>2. CASE Registers
  BY <1>1, <1>2, RegistersSafe
<1>3. CASE ~Registers
  <2>1. UNCHANGED <<reg, ref>> /\ spawn'.pc # "constructing"
    BY <1>3 DEF SpawnBegins, SpawnClaims
  <2>2. IInv' /\ DeadStep
    BY SpawnStep DEF SInv
  <2>3. Frame'
    BY <1>1, <2>1, <2>2, SpawnFrame DEF IInv
  <2>4. ~stale' => Core'
    BY <1>1, <2>1, SpawnCore DEF SInv
  <2>5. Unkilled => Quiet' /\ IdleIsTimed'
    BY <1>1, <2>1, SInvFacts DEF Quiet, IdleIsTimed, StatusOf
  <2> QED BY <2>2, <2>3, <2>4, <2>5, SInvStep
<1> QED BY <1>2, <1>3

\* The corpse is forgotten only if nobody is at work on it.
LEMMA SpawnProbedSafe == ASSUME SInv, NEW answer \in FactoryAnswers, SpawnProbed(answer) PROVE SInv'
<1>1. UNCHANGED <<ref, sess, stray, park, revival, reopen, call, rel, marker, stale>>
      /\ spawn'.pc # "constructing" /\ ~Pending
  BY DEF SpawnProbed, NoSpawn
<1>2. IInv' /\ DeadStep
  BY SpawnStep DEF SInv
<1>3. CASE UNCHANGED <<reg, adopted>>
  <2>1. Frame'
    BY <1>1, <1>2, <1>3, SpawnFrame DEF IInv
  <2>2. ~stale' => Core'
    BY <1>1, <1>3, SpawnCore DEF SInv
  <2>3. Unkilled => Quiet' /\ IdleIsTimed'
    BY <1>1, <1>3, SInvFacts DEF Quiet, IdleIsTimed, StatusOf
  <2> QED BY <1>2, <2>1, <2>2, <2>3, SInvStep
<1>4. CASE Reclaimable(spawn.ref) /\ Unregister(spawn.ref)
  <2>1. /\ reg' = 0 /\ adopted = NoAdoption /\ adopted' = adopted /\ park = NoPark
        /\ revival = NoFlight /\ reg \in Ref /\ reg # 0 /\ ref[reg] = Parked
    BY <1>4 DEF Reclaimable, Unregister, OnRemoved, SInv, IInv, TypeOK, Ref0
  <2>2. ref[reg].session = 0 /\ StatusOf(reg) = "parked"
    BY <2>1 DEF Parked, StatusOf
  <2>3. Frame'
    BY <1>1, <1>2, <2>1, SpawnFrame DEF IInv
  <2>4. ~stale' => Core'
    BY <1>1, <2>1, <2>2, ForgottenCore DEF SInv
  <2>5. Unkilled => Quiet' /\ IdleIsTimed'
    <3> SUFFICES ASSUME Unkilled PROVE Quiet' /\ IdleIsTimed'
      OBVIOUS
    <3>1. Quiet /\ Core
      BY SInvFacts
    <3>2. \A c \in Caller : call[c].pc \notin Reviving
      <4> SUFFICES ASSUME NEW c \in Caller, call[c].pc \in Reviving PROVE FALSE
        OBVIOUS
      <4>1. Revives(c)
        BY <2>2, <3>1 DEF Quiet, Revives
      <4>2. revival = [ref |-> reg, owner |-> c]
        BY <3>1, <4>1 DEF Core, RevivalOk
      <4> QED BY <2>1, <4>2 DEF NoFlight
    <3>3. \A c \in Caller : call[c].pc \notin {"keeping", "kept"}
      BY <1>1, <2>1 DEF Pending, SInv, Frame, WokenWait
    <3>4. Quiet'
      BY <1>1, <2>1, <3>1, <3>2, <3>3 DEF Quiet, NoAdoption, NoPark
    <3>5. IdleIsTimed'
      BY <2>1 DEF IdleIsTimed, StatusOf
    <3> QED BY <3>4, <3>5
  <2> QED BY <1>2, <2>3, <2>4, <2>5, SInvStep
<1> QED BY <1>3, <1>4 DEF SpawnProbed

\* The session of a spawn attaches to the ref it registered, which nobody revives;
\* a spawn that failed leaves a ref without a session.
LEMMA SpawnAttachesSafe == ASSUME SInv, SpawnAttaches PROVE SInv'
<1> DEFINE r == spawn.ref
<1>1. IInv' /\ DeadStep
  BY SpawnAttachesStep DEF SInv
<1>2. /\ UNCHANGED <<stray, park, revival, reopen, call, rel, marker, stale>>
      /\ spawn' = NoSpawn /\ spawn'.pc # "constructing"
      /\ spawn.pc = "constructing" /\ ~Pending
  BY DEF SpawnAttaches, NoSpawn
<1>3. r \in Ref /\ r # 0
  BY <1>2 DEF SInv, Frame, RefsKnown, IInv, TypeOK, Ref0
<1>4. ASSUME Core, reg = r, ref[r] # Killed
      PROVE  /\ ref[reg] = [status |-> "running", session |-> 0] /\ adopted.ref # reg
             /\ StatusOf(reg) = "running"
             /\ \A c \in Caller : ~(call[c].pc \in Reviving /\ call[c].ref = reg)
  <2>1. ref[reg] = [status |-> "running", session |-> 0] /\ adopted.ref # reg
    BY <1>2, <1>4 DEF Core, SpawnOk
  <2>2. StatusOf(reg) = "running"
    BY <1>3, <1>4, <2>1 DEF StatusOf
  <2>3. ASSUME NEW c \in Caller, call[c].pc \in Reviving, call[c].ref = reg PROVE FALSE
    <3>1. Revives(c)
      BY <2>2, <2>3 DEF Revives
    <3>2. CASE call[c].pc = "initialising"
      <4>1. ref[reg] = [status |-> "running", session |-> call[c].sess] /\ call[c].sess \in Session
        BY <1>4, <3>1, <3>2 DEF Core, RevivalOk, InitialisingOk
      <4> QED BY <2>1, <4>1, Bounds
    <3>3. CASE call[c].pc # "initialising"
      <4>1. ref[reg] = Parked
        BY <1>4, <3>1, <3>3 DEF Core, RevivalOk
      <4> QED BY <2>1, <4>1 DEF Parked
    <3> QED BY <3>2, <3>3
  <2> QED BY <2>1, <2>2, <2>3
<1>5. CASE UNCHANGED <<sess, ref>>
  <2>1. \/ UNCHANGED <<reg, adopted>>
        \/ Forgets(r) /\ Unregister(r)
    BY <1>5 DEF SpawnAttaches, OnRunning, SInv, IInv, TypeOK, SessRecord, Unbuilt, FreshSession
  <2>2. CASE UNCHANGED <<reg, adopted>>
    <3>1. Frame'
      BY <1>1, <1>2, <1>5, <2>2, SpawnFrame DEF IInv
    <3>2. ~stale' => Core'
      BY <1>2, <1>5, <2>2, SpawnCore DEF SInv
    <3>3. Unkilled => Quiet' /\ IdleIsTimed'
      BY <1>2, <1>5, <2>2, SInvFacts DEF Quiet, IdleIsTimed, StatusOf
    <3> QED BY <1>1, <3>1, <3>2, <3>3, SInvStep
  <2>3. CASE Forgets(r) /\ Unregister(r)
    <3>1. /\ reg = r /\ ref[r] # Killed /\ reg' = 0 /\ adopted' \in {adopted, NoAdoption}
          /\ adopted.ref # reg => adopted' = adopted
      BY <2>3 DEF Forgets, Unregister, OnRemoved, Killed
    <3>2. Frame'
      BY <1>1, <1>2, <1>5, <3>1, SpawnFrame DEF IInv
    <3>3. ~stale' => Core'
      <4> SUFFICES ASSUME Core PROVE Core'
        BY <1>2 DEF SInv
      <4>1. ref[reg].session = 0 /\ adopted' = adopted
        BY <1>4, <3>1
      <4> QED BY <1>2, <1>3, <1>5, <3>1, <4>1, ForgottenCore
    <3>4. Unkilled => Quiet' /\ IdleIsTimed'
      <4> SUFFICES ASSUME Unkilled PROVE Quiet' /\ IdleIsTimed'
        OBVIOUS
      <4>1. Quiet /\ Core
        BY SInvFacts
      <4>2. /\ ref[reg] # Parked /\ adopted' = adopted /\ adopted.ref = 0
            /\ \A c \in Caller : call[c].pc \notin Reviving
        BY <1>4, <3>1, <4>1 DEF Quiet, Parked
      <4>3. park = NoPark
        BY <1>2, <4>1, <4>2 DEF Quiet, Pending
      <4>4. \A c \in Caller : call[c].pc \notin {"keeping", "kept"}
        BY <1>2, <4>3 DEF Pending, SInv, Frame, WokenWait
      <4>5. Quiet'
        BY <1>2, <3>1, <4>1, <4>2, <4>3, <4>4 DEF Quiet, NoPark
      <4>6. IdleIsTimed'
        BY <3>1 DEF IdleIsTimed, StatusOf
      <4> QED BY <4>5, <4>6
    <3> QED BY <1>1, <3>2, <3>3, <3>4, SInvStep
  <2> QED BY <2>1, <2>2, <2>3
<1>6. CASE ~UNCHANGED <<sess, ref>>
  <2>1. PICK s \in Session :
          /\ sess[s] = Unbuilt
          /\ sess' = [sess EXCEPT ![s] =
               [st |-> "live", ref |-> r, by |-> "run", ready |-> TRUE]]
          /\ ref' = [ref EXCEPT ![r] = [status |-> "running", session |-> s]]
          /\ reg = r /\ ref[r].status # "aborted"
          /\ adopted' = OnRunning(adopted, r) /\ reg' = reg
    BY <1>6 DEF SpawnAttaches, FreshSession, Attachable
  <2>2. /\ sess'[s].st = "live" /\ sess'[s].ref = reg /\ sess'[s].by = "run" /\ sess'[s].ready
        /\ \A q \in Session : q # s => sess'[q] = sess[q]
        /\ ref'[reg] = [status |-> "running", session |-> s]
        /\ \A q \in Ref : q # reg => ref'[q] = ref[q]
        /\ sess[s].st = "unbuilt" /\ sess[s].ref = 0 /\ sess[s].by = "nobody"
    BY <1>3, <2>1 DEF SInv, IInv, TypeOK, Unbuilt
  <2>3. adopted'.ref = adopted.ref /\ (adopted' = adopted \/ adopted.ref = reg)
    BY <2>1 DEF OnRunning, SInv, IInv, TypeOK, Adoption
  <2>4. ref[r] # Killed
    BY <2>1 DEF Killed
  <2>5. Frame'
    <3>1. \A q \in Ref : ref[q] # Unborn => ref'[q] # Unborn
      BY <2>2 DEF Unborn
    <3>2. AdoptionNone'
      BY <1>3, <2>1, <2>3 DEF SInv, Frame, AdoptionNone
    <3>3. /\ Known(adopted'.ref) /\ Known(park'.ref) /\ Born(reg)'
          /\ \A c \in Caller : Known(call'[c].ref)
          /\ \A q \in Session : Known(sess'[q].ref)
      BY <1>2, <1>3, <2>1, <2>2, <2>3, <3>1 DEF Known, SInv, Frame, RefsBorn, Born
    <3>4. RefsBorn'
      BY <1>1, <3>1, <3>3, BornStep DEF SInv, Frame, IInv
    <3>5. KillsOnly' /\ WokenWait' /\ RefsKnown'
      BY <1>2, <1>3, <2>1, <2>2 DEF SInv, Frame, KillsOnly, WokenWait, RefsKnown
    <3> QED BY <3>2, <3>4, <3>5 DEF Frame
  <2>6. ~stale' => Core'
    <3> SUFFICES ASSUME Core PROVE Core'
      BY <1>2 DEF SInv
    <3>1. /\ ref[reg] = [status |-> "running", session |-> 0] /\ adopted.ref # reg
          /\ StatusOf(reg) = "running"
          /\ \A c \in Caller : ~(call[c].pc \in Reviving /\ call[c].ref = reg)
      BY <1>4, <2>1, <2>4
    <3>2. AttachedOk' /\ DisposingOk' /\ IdleOk' /\ ParkBegun' /\ ParkDetaching' /\ CapturedOk'
          /\ AdoptedOk' /\ HeldOk'
      <4>1. /\ sess' = [sess EXCEPT ![s] = [st |-> "live", ref |-> reg, by |-> "run", ready |-> TRUE]]
            /\ ref' = [ref EXCEPT ![reg] = [status |-> "running", session |-> s]]
            /\ adopted' = OnRunning(adopted, reg) /\ sess[s] = Unbuilt
            /\ UNCHANGED <<reg, park, rel>> /\ reg \in Ref
        BY <1>2, <1>3, <2>1
      <4>2. ref[reg].session = 0 /\ StatusOf(reg) # "aborted"
        BY <3>1
      <4> QED BY <3>1, <4>1, <4>2, AttachedCore
    <3>3. RevivalOk'
      BY <1>2, <2>1, <3>1 DEF RevivalOk, Revives
    <3>4. InitialisingOk'
      <4>1. ASSUME NEW d \in Caller, call[d].pc = "initialising"
            PROVE  call[d].sess \in Session /\ sess'[call[d].sess] = sess[call[d].sess]
        BY <2>2, <4>1 DEF Core, InitialisingOk
      <4> QED BY <1>2, <4>1 DEF Core, InitialisingOk
    <3>5. RunOk'
      <4>1. \A q \in Session : sess[q].st = "live" /\ sess[q].by = "run" => sess[q].ref # reg
        <5> SUFFICES ASSUME NEW q \in Session, sess[q].st = "live", sess[q].by = "run", sess[q].ref = reg
                     PROVE  FALSE
          OBVIOUS
        <5>1. ref[reg] = [status |-> "running", session |-> q]
          BY <3>1 DEF Core, RunOk
        <5> QED BY <3>1, <5>1, Bounds
      <4> QED BY <2>1, <2>2, <4>1 DEF Core, RunOk
    <3>6. SpawnOk'
      BY <1>2 DEF SpawnOk
    <3> QED BY <3>2, <3>3, <3>4, <3>5, <3>6 DEF Core
  <2>7. Unkilled => Quiet' /\ IdleIsTimed'
    <3> SUFFICES ASSUME Unkilled PROVE Quiet' /\ IdleIsTimed'
      OBVIOUS
    <3>1. Quiet /\ Core
      BY SInvFacts
    <3>2. ref[reg] # Parked /\ \A c \in Caller : call[c].pc \notin Reviving
      BY <1>4, <2>1, <2>4, <3>1 DEF Quiet, Parked
    <3>3. park = NoPark
      BY <1>2, <3>1, <3>2 DEF Quiet, Pending
    <3>4. Quiet'
      BY <1>2, <2>1, <2>3, <3>1, <3>3 DEF Quiet, NoPark
    <3>5. IdleIsTimed'
      BY <1>3, <2>1, <2>2 DEF IdleIsTimed, StatusOf
    <3> QED BY <3>4, <3>5
  <2> QED BY <1>1, <2>5, <2>6, <2>7, SInvStep
<1> QED BY <1>5, <1>6

-----------------------------------------------------------------------------
\* A step that changes no variable keeps the invariant.
LEMMA StutterSafe == ASSUME SInv, UNCHANGED vars PROVE SInv'
<1>1. IInv' /\ DeadStep
  BY StutterStep DEF SInv
<1> USE DEF vars
<1>2. Frame'
  BY DEF SInv, Frame, RefsBorn, Born, KillsOnly, WokenWait, AdoptionNone, RefsKnown
<1>3. ~stale' => Core'
  <2> SUFFICES ASSUME Core PROVE Core'
    BY DEF SInv
  <2>1. RevivalOk' /\ InitialisingOk'
    BY DEF Core, RevivalOk, Revives, InitialisingOk, StatusOf
  <2> QED BY <2>1, CallCore
<1>4. Unkilled => Quiet' /\ IdleIsTimed'
  BY SInvFacts DEF Quiet, IdleIsTimed, StatusOf
<1> QED BY <1>1, <1>2, <1>3, <1>4, SInvStep

\* Whatever the process starts with satisfies the invariant.
LEMMA InitSInv == Init => SInv
<1> SUFFICES ASSUME Init PROVE SInv
  OBVIOUS
<1>1. IInv
  BY InitIInv
<1>2. /\ reg = 1 /\ reg \in Ref /\ reg # 0 /\ adopted = NoAdoption /\ park = NoPark
      /\ \A c \in Caller : call[c] = NoCall
      /\ \A k \in Releaser : rel[k] = NoRelease
      /\ spawn = NoSpawn /\ ~stray /\ ~stale
  BY Bounds DEF Init
<1>3. /\ adopted.ref = 0 /\ ~adopted.timer
      /\ park.ref = 0 /\ ~park.detached
      /\ \A c \in Caller : call[c].pc = "none" /\ call[c].ref = 0
      /\ \A k \in Releaser : rel[k].pc = "none"
      /\ spawn.pc = "none"
  BY <1>2 DEF NoAdoption, NoPark, NoCall, NoRelease, NoSpawn
<1>4. \A s \in Session : sess[s] = Unbuilt \/
        (s = 1 /\ sess[s] = [st |-> "live", ref |-> 1, by |-> "run", ready |-> TRUE]
         /\ ref[1] = [status |-> "running", session |-> 1])
  BY Bounds DEF Init
<1>5. \A q \in Ref : q # 1 => ref[q] = Unborn
  BY DEF Init
<1>6. \/ ref[1] \in {Parked, Killed}
      \/ ref[1] = [status |-> "running", session |-> 1]
         /\ sess[1] = [st |-> "live", ref |-> 1, by |-> "run", ready |-> TRUE]
  BY Bounds DEF Init
<1>7. Frame
  <2>1. RefsBorn
    <3>1. ref[1] # Unborn
      BY <1>6 DEF Parked, Killed, Unborn
    <3>2. \A s \in Session : sess[s].ref \in {0, 1}
      BY <1>4 DEF Unbuilt
    <3> QED BY <1>2, <1>3, <3>1, <3>2 DEF RefsBorn, Born
  <2>2. KillsOnly /\ WokenWait /\ AdoptionNone
    BY <1>2, <1>3 DEF KillsOnly, WokenWait, AdoptionNone
  <2>3. RefsKnown
    BY <1>2, <1>3, <1>4 DEF RefsKnown, Unbuilt, Reviving
  <2> QED BY <2>1, <2>2, <2>3 DEF Frame
<1>8. Core
  <2>1. \A q \in Ref : ref[q].session # 0 =>
          /\ q = 1 /\ ref[1] = [status |-> "running", session |-> 1]
          /\ sess[1] = [st |-> "live", ref |-> 1, by |-> "run", ready |-> TRUE]
    BY <1>5, <1>6 DEF Unborn, Parked, Killed
  <2>2. AttachedOk
    BY <1>2, <2>1 DEF AttachedOk
  <2>3. \A s \in Session : sess[s].st \in {"live", "unbuilt"} /\ (sess[s].st = "live" => sess[s].by = "run")
    BY <1>4 DEF Unbuilt
  <2>4. DisposingOk /\ HeldOk
    BY <2>3 DEF DisposingOk, HeldOk
  <2>5. RevivalOk /\ InitialisingOk /\ SpawnOk /\ CapturedOk
    BY <1>3 DEF RevivalOk, Revives, InitialisingOk, SpawnOk, CapturedOk, Reviving
  <2>6. RunOk
    BY <1>2, <1>4 DEF RunOk, Unbuilt
  <2>7. StatusOf(reg) # "idle"
    BY <1>2, <1>6 DEF StatusOf, Parked, Killed
  <2>8. IdleOk /\ AdoptedOk /\ ParkBegun /\ ParkDetaching
    BY <1>2, <1>3, <2>7 DEF IdleOk, AdoptedOk, ParkBegun, ParkDetaching
  <2> QED BY <2>2, <2>4, <2>5, <2>6, <2>8 DEF Core
<1>9. Quiet /\ IdleIsTimed
  <2>1. StatusOf(reg) # "idle"
    BY <1>2, <1>6 DEF StatusOf, Parked, Killed
  <2> QED BY <1>2, <1>3, <2>1 DEF Quiet, IdleIsTimed, Reviving
<1> QED BY <1>1, <1>7, <1>8, <1>9 DEF SInv

\* Every step keeps the invariant where no release() is a removal.
LEMMA SafeStep == ASSUME "removal" \notin Env, SInv, [Next]_vars PROVE SInv'
<1>1. CASE \E s \in Session : SessionDisposed(s) \/ Finish(s)
  BY <1>1, SessionDisposedSafe, FinishSafe
<1>2. CASE StartTurn \/ EndTurn
  BY <1>2, TurnSafe
<1>3. CASE TimerFires \/ ParkCommits \/ ParkEnds
  BY <1>3, TimerFiresSafe, ParkCommitsSafe, ParkEndsSafe
<1>4. CASE \E c \in Caller : EnsureLive(c) \/ CallStep(c)
  <2>1. PICK c \in Caller : EnsureLive(c) \/ CallStep(c)
    BY <1>4
  <2>2. CASE \/ EnsureLive(c) \/ Kept(c) \/ WokenByPark(c) \/ Reopened(c) \/ Unmarked(c)
             \/ Rejected(c)
    BY <2>2, EnsureLiveSafe, KeptSafe, WokenSafe, ReopenedSafe, UnmarkedSafe, RejectedSafe
  <2>3. CASE \E answer \in FactoryAnswers : Probed(c, answer) \/ Prepared(c, answer)
    BY <2>3, ProbedSafe, PreparedSafe
  <2>4. CASE Claims(c) \/ Attaches(c) \/ Initialised(c) \/ InitialisationFails(c) \/ Discarded(c)
    BY <2>4, ClaimsSafe, AttachesSafe, InitialisedSafe, FailedSafe
  <2> QED BY <2>1, <2>2, <2>3, <2>4 DEF CallStep
<1>5. CASE \E k \in Releaser : ReleaseStep(k) \/ \E tomb \in BOOLEAN : ReleaseBegins(k, tomb)
  <2>1. PICK k \in Releaser : ReleaseStep(k) \/ \E tomb \in BOOLEAN : ReleaseBegins(k, tomb)
    BY <1>5
  <2>2. CASE ReleaseStep(k)
    BY <2>2, ReleaseCommitsSafe, PersistedSafe, KillEndsSafe DEF ReleaseStep
  <2>3. CASE \E tomb \in BOOLEAN : ReleaseBegins(k, tomb)
    BY <2>3, ReleaseBeginsSafe
  <2> QED BY <2>1, <2>2, <2>3
<1>6. CASE SpawnBegins \/ SpawnClaims \/ \E answer \in FactoryAnswers : SpawnProbed(answer)
  BY <1>6, SpawnBeginsSafe, SpawnProbedSafe
<1>7. CASE SpawnAttaches
  BY <1>7, SpawnAttachesSafe
<1>8. CASE UNCHANGED vars
  BY <1>8, StutterSafe
<1> QED BY <1>1, <1>2, <1>3, <1>4, <1>5, <1>6, <1>7, <1>8 DEF Next

\* SInv is an inductive invariant of an id that is killed, spawned and revived, but
\* never plainly removed.
THEOREM Safety == "removal" \notin Env => (Spec => []SInv)
<1> SUFFICES ASSUME "removal" \notin Env PROVE Spec => []SInv
  OBVIOUS
<1>1. SInv /\ [Next]_vars => SInv'
  BY SafeStep
<1> QED BY InitSInv, <1>1, PTL DEF Spec

\* A session that is attached to a ref is live and was built for it, as long as no
\* stale work has reached the ref: a park and a kill detach before they dispose.
THEOREM AttachedSessionsAreLive == "removal" \notin Env => (Spec => []AttachedIsLive)
<1>1. SInv => AttachedIsLive
  BY DEF SInv, Core, AttachedOk, AttachedIsLive
<1> QED BY <1>1, Safety, PTL

\* No live session is lost: until stale work reaches the ref, each is attached to
\* it, or is about to be disposed of by the kill or by the run that holds it.
THEOREM NoSessionIsOrphaned == "removal" \notin Env => (Spec => []NoOrphanSession)
<1>1. SInv => NoOrphanSession
  <2> SUFFICES ASSUME SInv, NEW s \in Session, sess[s].st = "live", ~stale, sess[s].by # "run"
               PROVE  \/ SessionOf(reg) = s
                      \/ \E k \in Releaser : rel[k].pc = "persist" /\ rel[k].live = s
    BY DEF NoOrphanSession
  <2> QED BY DEF SInv, Core, HeldOk
<1> QED BY <1>1, Safety, PTL

\* An idle agent that was never killed is on its way out of memory: its timer is
\* armed, or a park or the call that cancelled it will see to it.
THEOREM IdleAgentsAreTimed == "removal" \notin Env => (Spec => []IdleIsTimed)
<1>1. SInv => IdleIsTimed
  BY DEF SInv, Unkilled, IdleIsTimed
<1> QED BY <1>1, Safety, PTL

-----------------------------------------------------------------------------
\* What a call answers.

\* Every call that answers in this step answers with a live session.
HandsOutLive == \A d \in Caller : Answers(d) => sess'[call'[d].sess].st = "live"

\* A call that takes the session of a ref takes a live one.
LEMMA ContinueAnswers ==
  ASSUME SInv, Core, NEW c \in Caller, NEW r \in Ref, Continue(c, r), sess' = sess
  PROVE  HandsOutLive
<1>1. CASE ref[r].session # 0 /\ call' = Returned(c, ref[r].session)
  <2>1. sess[ref[r].session].st = "live"
    BY <1>1 DEF Core, AttachedOk
  <2>2. call'[c].sess = ref[r].session /\ \A d \in Caller : d # c => call'[d] = call[d]
    BY <1>1 DEF Returned, NoCall, SInv, IInv, TypeOK
  <2> QED BY <2>1, <2>2 DEF HandsOutLive, Answers
<1>2. CASE \/ \E o : call' = Joining(c, "joinRevive", r, o)
           \/ \E pc \in {"reviving", "preparing", "rejecting"} : call' = At(c, pc, r)
  <2>1. call'[c].pc # "returned" /\ \A d \in Caller : d # c => call'[d] = call[d]
    BY <1>2, OutcomeFields DEF SInv, IInv
  <2> QED BY <2>1 DEF HandsOutLive, Answers
<1> QED BY <1>1, <1>2 DEF Continue

\* So does the lookup of the registered ref.
LEMMA LookupAnswers ==
  ASSUME SInv, Core, NEW c \in Caller, Lookup(c), sess' = sess
  PROVE  HandsOutLive
<1>1. CASE reg # 0 /\ Continue(c, reg)
  BY <1>1, ContinueAnswers DEF SInv, IInv, TypeOK, Ref0
<1>2. CASE \/ \E o : call' = Joining(c, "joinReopen", reg, o)
           \/ call' = At(c, "probing", reg) \/ call' = Failed(c)
  <2>1. call'[c].pc # "returned" /\ \A d \in Caller : d # c => call'[d] = call[d]
    BY <1>2, OutcomeFields DEF SInv, IInv
  <2> QED BY <2>1 DEF HandsOutLive, Answers
<1> QED BY <1>1, <1>2 DEF Lookup

\* No call answers in the step that a park's end, a failure or a stutter is.
LEMMA SilentAnswers ==
  ASSUME SInv,
         \A d \in Caller : call'[d] = call[d] \/ call'[d].pc # "returned"
  PROVE  HandsOutLive
BY DEF HandsOutLive, Answers

\* Nor in the step in which a revival fails.
LEMMA FailsSilently ==
  ASSUME SInv, NEW c \in Caller, ReviveFails(c) PROVE HandsOutLive
<1>1. \A d \in Caller : call'[d] = call[d] \/ call'[d].pc # "returned"
  BY DEF ReviveFails, Settled, NoCall
<1> QED BY <1>1, SilentAnswers

\* Only a call whose park was given up, a lookup and the end of an initialisation
\* answer, each with a session that is attached.
LEMMA CallAnswers ==
  ASSUME SInv, Core, NEW c \in Caller, EnsureLive(c) \/ CallStep(c) PROVE HandsOutLive
<1> USE DEF SInv, IInv, TypeOK
<1>1. CASE EnsureLive(c)
  <2>1. CASE \E r \in {0, reg} : call' = At(c, "keeping", r) \/ call' = At(c, "waiting", r)
    BY <2>1, SilentAnswers DEF At, NoCall
  <2>2. CASE Lookup(c)
    BY <1>1, <2>2, LookupAnswers DEF EnsureLive
  <2> QED BY <1>1, <2>1, <2>2 DEF EnsureLive
<1>2. CASE Kept(c)
  <2>1. CASE SessionOf(reg) # 0
    <3>1. reg \in Ref /\ ref[reg].session = SessionOf(reg)
      BY <2>1 DEF SessionOf, Ref0
    <3>2. sess[SessionOf(reg)].st = "live"
      BY <2>1, <3>1 DEF Core, AttachedOk
    <3>3. /\ call'[c].sess = SessionOf(reg) /\ sess' = sess
          /\ \A d \in Caller : d # c => call'[d] = call[d]
      BY <1>2, <2>1 DEF Kept, Returned, NoCall
    <3> QED BY <3>2, <3>3 DEF HandsOutLive, Answers
  <2>2. CASE SessionOf(reg) = 0
    BY <1>2, <2>2, LookupAnswers DEF Kept
  <2> QED BY <2>1, <2>2
<1>3. CASE WokenByPark(c)
  BY <1>3, LookupAnswers DEF WokenByPark
<1>4. CASE Reopened(c)
  <2>1. call[c].ref \in Ref
    BY <1>4 DEF Reopened, RefKnown, CallKnown, CallRecord, Ref0
  <2> QED BY <1>4, <2>1, ContinueAnswers DEF Reopened
<1>5. CASE \E answer \in FactoryAnswers : Probed(c, answer)
  <2>1. \A d \in Caller : call'[d] = call[d] \/ call'[d].pc # "returned"
    <3>1. CASE \E r \in Ref : call' = At(c, "unmarking", r)
      BY <3>1 DEF At, NoCall
    <3>2. CASE call' = [d \in Caller |->
                          IF d = c \/ (call[d].pc = "joinReopen" /\ call[d].on = c)
                          THEN [NoCall EXCEPT !.pc = "failed"] ELSE call[d]]
      BY <3>2 DEF NoCall
    <3> QED BY <1>5, <3>1, <3>2 DEF Probed
  <2> QED BY <2>1, SilentAnswers
<1>6. CASE Unmarked(c)
  <2>1. \A d \in Caller : call'[d] = call[d] \/ call'[d].pc # "returned"
    BY <1>6 DEF Unmarked, NoCall
  <2> QED BY <2>1, SilentAnswers
<1>7. CASE \E answer \in FactoryAnswers : Prepared(c, answer)
  <2>1. \A d \in Caller : call'[d] = call[d] \/ call'[d].pc # "returned"
    BY <1>7 DEF Prepared, Settled, NoCall, CallRecord
  <2> QED BY <2>1, SilentAnswers
<1>8. CASE Claims(c) \/ Attaches(c)
  <2>1. CASE ReviveFails(c)
    BY <2>1, FailsSilently
  <2>2. CASE ~ReviveFails(c)
    <3>1. \A d \in Caller : d # c => call'[d] = call[d]
      BY <1>8, <2>2 DEF Claims, Attaches
    <3>2. \/ call' = [call EXCEPT ![c].pc = "building"]
          \/ \E s \in Session : call' = [call EXCEPT ![c].pc = "initialising", ![c].sess = s]
      BY <1>8, <2>2 DEF Claims, Attaches
    <3>3. call'[c].pc \in {"building", "initialising"}
      BY <3>2 DEF CallRecord
    <3> QED BY <3>1, <3>3, SilentAnswers
  <2> QED BY <2>1, <2>2
<1>9. CASE Initialised(c)
  <2> DEFINE r == call[c].ref
             s == call[c].sess
             v == [NoCall EXCEPT !.pc = "returned", !.sess = s]
  <2>1. call[c].pc = "initialising" /\ call[c].pc \in Reviving /\ s \in Session
    BY <1>9 DEF Initialised, Reviving, Core, InitialisingOk
  <2>2. CASE call' = [call EXCEPT ![c].pc = "discarding"]
    <3>1. \A d \in Caller : call'[d] = call[d] \/ call'[d].pc # "returned"
      BY <2>2 DEF CallRecord
    <3> QED BY <3>1, SilentAnswers
  <2>3. CASE ~(call' = [call EXCEPT ![c].pc = "discarding"])
    <3>1. /\ reg = r /\ r \in Ref
          /\ ref[r] = Parked \/ ref[r] = [status |-> "running", session |-> s]
          /\ sess' = [sess EXCEPT ![s].ready = TRUE]
          /\ Settled(c, v)
      BY <1>9, <2>1, <2>3 DEF Initialised, Frame, RefsKnown, Ref0, CallRecord
    <3>2. ref[reg] = [status |-> "running", session |-> s]
      <4>1. StatusOf(reg) # "aborted"
        BY <3>1, Bounds DEF StatusOf, Parked
      <4> QED BY <2>1, <3>1, <4>1 DEF Core, RevivalOk, Revives
    <3>3. sess[s].st = "live" /\ sess'[s].st = "live"
      BY <2>1, <3>1, <3>2, Bounds DEF Core, AttachedOk, SessRecord
    <3>4. \A d \in Caller : call'[d] = call[d] \/ call'[d].sess = s
      BY <3>1 DEF Settled, NoCall
    <3> QED BY <3>3, <3>4 DEF HandsOutLive, Answers
  <2> QED BY <2>2, <2>3
<1>10. CASE InitialisationFails(c) \/ Discarded(c)
  BY <1>10, FailsSilently DEF InitialisationFails, Discarded
<1>11. CASE Rejected(c)
  <2>1. \A d \in Caller : call'[d] = call[d] \/ call'[d].pc # "returned"
    BY <1>11 DEF Rejected, Settled, NoCall
  <2> QED BY <2>1, SilentAnswers
<1> QED BY <1>1, <1>2, <1>3, <1>4, <1>5, <1>6, <1>7, <1>8, <1>9, <1>10, <1>11 DEF CallStep

\* A park's end moves its callers on to look again; nobody else answers for a call.
LEMMA OthersAnswer ==
  ASSUME SInv, [Next]_vars, \A c \in Caller : ~(EnsureLive(c) \/ CallStep(c))
  PROVE  HandsOutLive
<1>1. CASE call' = call
  BY <1>1, SilentAnswers
<1>2. CASE call' = WokenCalls
  <2>1. \A d \in Caller : call'[d] = call[d] \/ call'[d].pc # "returned"
    BY <1>2 DEF WokenCalls, SInv, IInv, TypeOK, CallRecord
  <2> QED BY <2>1, SilentAnswers
<1>3. CASE UNCHANGED vars
  BY <1>1, <1>3 DEF vars
<1>4. CASE StartTurn \/ EndTurn
  BY <1>1, <1>4 DEF StartTurn, EndTurn
<1>5. CASE TimerFires \/ ParkCommits \/ ParkEnds
  BY <1>1, <1>2, <1>5 DEF TimerFires, ParkCommits, ParkEnds
<1>6. CASE \E s \in Session : SessionDisposed(s) \/ Finish(s)
  BY <1>1, <1>6 DEF SessionDisposed, Finish
<1>7. CASE \E k \in Releaser : ReleaseStep(k) \/ \E tomb \in BOOLEAN : ReleaseBegins(k, tomb)
  BY <1>1, <1>7 DEF ReleaseStep, ReleaseBegins, ReleaseCommits, Persisted, Disposed, ReleaseEnds
<1>8. CASE \/ SpawnBegins \/ SpawnClaims \/ SpawnAttaches
           \/ \E answer \in FactoryAnswers : SpawnProbed(answer)
  BY <1>1, <1>8 DEF SpawnBegins, SpawnClaims, SpawnAttaches, SpawnProbed
<1> QED BY <1>3, <1>4, <1>5, <1>6, <1>7, <1>8 DEF Next

\* Once stale work has reached the registered ref, that is not undone.
LEMMA StaleStays == ASSUME [Next]_vars, ~stale' PROVE ~stale
<1> SUFFICES stale' = stale \/ TimerFires \/ \E c \in Caller : Reopened(c)
  BY DEF TimerFires, Reopened
<1>1. CASE UNCHANGED vars \/ StartTurn \/ EndTurn \/ TimerFires \/ ParkCommits \/ ParkEnds
  BY <1>1 DEF vars, StartTurn, EndTurn, ParkCommits, ParkEnds
<1>2. CASE \E s \in Session : SessionDisposed(s) \/ Finish(s)
  BY <1>2 DEF SessionDisposed, Finish
<1>3. CASE \E c \in Caller : EnsureLive(c) \/ CallStep(c)
  BY <1>3 DEF EnsureLive, CallStep, Kept, WokenByPark, Unmarked, Rejected, Probed, Prepared, Claims,
     Attaches, Initialised, InitialisationFails, Discarded
<1>4. CASE \E k \in Releaser : ReleaseStep(k) \/ \E tomb \in BOOLEAN : ReleaseBegins(k, tomb)
  BY <1>4 DEF ReleaseStep, ReleaseBegins, ReleaseCommits, Persisted, Disposed, ReleaseEnds
<1>5. CASE \/ SpawnBegins \/ SpawnClaims \/ SpawnAttaches
           \/ \E answer \in FactoryAnswers : SpawnProbed(answer)
  BY <1>5 DEF SpawnBegins, SpawnClaims, SpawnAttaches, SpawnProbed
<1> QED BY <1>1, <1>2, <1>3, <1>4, <1>5 DEF Next

\* ensureLive() never hands out a session that is being disposed of: what it answers
\* with is live, as long as no stale work has reached the registered ref.
THEOREM AnswersAreLive == "removal" \notin Env => (Spec => NeverHandsOutDisposing)
<1>1. SInv /\ [Next]_vars => [\A c \in Caller : Answers(c) /\ ~stale' => sess'[call'[c].sess].st = "live"]_vars
  <2> SUFFICES ASSUME SInv, [Next]_vars, ~stale' PROVE HandsOutLive
    BY DEF HandsOutLive
  <2>1. Core
    BY StaleStays DEF SInv
  <2> QED BY <2>1, CallAnswers, OthersAnswer
<1> QED BY <1>1, Safety, PTL DEF Spec, NeverHandsOutDisposing
=============================================================================
