------------------------ MODULE SessionJournalProofs ------------------------
(***************************************************************************)
(* Proofs about SessionJournal, for any number of entries, lines of other  *)
(* writers, files, troubles and recoveries.                                *)
(*                                                                         *)
(* Every line sequence of the state (memory, a file, a staged body, what   *)
(* was read back) has of each atomic batch all entries or none, because    *)
(* each was memory or a file before, entries are appended to memory pair   *)
(* by pair and taken back pair by pair.  What a size check compares tells  *)
(* of every line of others that memory, or the staged body, has it.  IInv  *)
(* is these facts, with the types and with which files exist.              *)
(*                                                                         *)
(* Steps change little of this at a time: Later says of the manager's      *)
(* fields, and Fine of an operation, what every step keeps, and InvKept    *)
(* puts them together.  That a file taken for current is durable needs two *)
(* more invariants, Control and Data, which the second half is about.      *)
(***************************************************************************)
EXTENDS SessionJournal, FilterProofs

-----------------------------------------------------------------------------
\* Types.

Line == Own \cup Alien
Sizes == SUBSET (-1..MaxEntry + MaxAlien)
Content == [id : 0..Stranger, lines : Seq(Line)]
Manager ==
  [entries : Seq(Line), next : Nat, file : Nat \ {0}, expected : Sizes, current : BOOLEAN,
   required : BOOLEAN, failed : BOOLEAN, released : BOOLEAN, fence : BOOLEAN, dirty : BOOLEAN,
   claimed : BOOLEAN, writer : BOOLEAN, batch : BOOLEAN, staged : SUBSET Own]
Operation ==
  [pc : Pc, repair : BOOLEAN, ensure : BOOLEAN, stale : BOOLEAN, waits : SUBSET Actor,
   tries : Nat, body : Seq(Line), expect : Sizes, target : File, superseded : BOOLEAN,
   seen : Content]

\* What the constants' assumption says of files, lines and sizes.
LEMMA Basics ==
  /\ {MaxEntry, MaxAlien, MaxTrouble, MaxRecovery, MaxFile} \subseteq Nat
  /\ 1 \in File /\ File \subseteq Nat /\ Stranger \in Nat
  /\ Line \cap {-1, 0} = {} /\ Own \cap Alien = {}
  /\ Absent \in Sizes /\ Absent \cap Alien = {}
  /\ Missing \in Content /\ Missing.lines = <<>> /\ Missing.id = 0
BY JournalAssumption, EmptySeq
   DEF File, Stranger, Line, Own, Alien, Absent, Sizes, Missing, Content

\* A size that is compared knows the file's lines, and no line of others the file lacks.
LEMMA SizeFacts ==
  ASSUME NEW c \in Content
  PROVE  /\ SizeOf(c.lines) \in Sizes /\ Size(c) \in Sizes
         /\ Size(c) \cap Alien \subseteq ToSet(c.lines)
         /\ c # Missing => ToSet(c.lines) \subseteq Size(c)
<1>1. ToSet(c.lines) \subseteq Line
  BY MembersFacts DEF Content
<1>2. Line \subseteq -1..MaxEntry + MaxAlien /\ 0 \in -1..MaxEntry + MaxAlien
  BY JournalAssumption DEF Line, Own, Alien
<1>3. 0 \notin Alien /\ Absent \cap Alien = {} /\ Absent \in Sizes
  BY Basics DEF Line
<1> QED BY <1>1, <1>2, <1>3 DEF Size, SizeOf, Sizes

\* Claim touches no field but `claimed`.
LEMMA ClaimFields ==
  ASSUME NEW x \in Manager
  PROVE  /\ Claim(x) \in Manager
         /\ Claim(x).file = x.file /\ Claim(x).expected = x.expected
         /\ Claim(x).entries = x.entries /\ Claim(x).next = x.next
         /\ Claim(x).staged = x.staged /\ Claim(x).released = x.released
         /\ Claim(x).current = x.current /\ Claim(x).required = x.required
         /\ Claim(x).failed = x.failed /\ Claim(x).fence = x.fence
         /\ Claim(x).dirty = x.dirty /\ Claim(x).batch = x.batch
BY DEF Claim, Claimable, Manager

\* The sibling is the next file; memory goes along.
LEMMA MovedFields ==
  ASSUME NEW x \in Manager
  PROVE  /\ MovedOff(x) \in Manager
         /\ MovedOff(x).file = x.file + 1 /\ MovedOff(x).expected = Absent
         /\ MovedOff(x).entries = x.entries /\ MovedOff(x).next = x.next
         /\ MovedOff(x).staged = x.staged /\ MovedOff(x).released = x.released
         /\ MovedOff(x).current = FALSE /\ MovedOff(x).required = TRUE
         /\ MovedOff(x).failed = x.failed /\ MovedOff(x).fence = x.fence
         /\ MovedOff(x).dirty = x.dirty /\ MovedOff(x).batch = x.batch
<1>1. x.file + 1 \in Nat \ {0} /\ Absent \in Sizes
  BY Basics DEF Manager
<1> QED BY <1>1 DEF MovedOff, Manager

\* Adoption adds the lines memory lacks.
LEMMA AdoptedFields ==
  ASSUME NEW x \in Manager, NEW c \in Content
  PROVE  /\ Adopted(x, c) \in Manager
         /\ Adopted(x, c).entries = Joined(x.entries, Without(c.lines, ToSet(x.entries)))
         /\ ToSet(Adopted(x, c).entries) = ToSet(x.entries) \cup ToSet(c.lines)
         /\ Adopted(x, c) = [x EXCEPT !.entries = Adopted(x, c).entries, !.expected = Size(c)]
<1> DEFINE w == Without(c.lines, ToSet(x.entries))
           j == x.entries \o w
<1>1. x.entries \in Seq(Line) /\ c.lines \in Seq(Line)
  BY DEF Manager, Content
<1>2. w \in Seq(Line) /\ ToSet(w) = ToSet(c.lines) \ ToSet(x.entries)
  BY <1>1, WithoutFacts
<1>3. j \in Seq(Line) /\ ToSet(j) = ToSet(x.entries) \cup ToSet(w)
  BY <1>1, <1>2, ConcatProperties, MembersFacts
<1> HIDE DEF j
<1>4. Size(c) \in Sizes
  BY SizeFacts
<1>5. Adopted(x, c) = [x EXCEPT !.entries = j, !.expected = Size(c)]
  BY DEF Adopted, j
<1>6. j = Joined(x.entries, w)
  BY DEF j, Joined
<1> QED BY <1>2, <1>3, <1>4, <1>5, <1>6 DEF Manager

-----------------------------------------------------------------------------
\* The invariant.

\* The lines of S were recorded, and of a batch they are all or none.
Sane(S, n, B) ==
  /\ \A e \in S \cap Own : e < n
  /\ \A b \in B : b \subseteq S \/ b \cap S = {}

BatchesOk(n, B) ==
  \A b \in B : /\ b \subseteq Own /\ \A e \in b : e < n
               /\ \A c \in B : b = c \/ b \cap c = {}

ManagerOk(x, B) ==
  /\ x \in Manager
  /\ Sane(ToSet(x.entries), x.next, B)
  /\ x.expected \cap Alien \subseteq ToSet(x.entries)

\* What is staged has the lines of others that the file it is to replace has, and the
\* manager has kept them.
OperationOk(o, x, B) ==
  /\ o \in Operation
  /\ Sane(ToSet(o.body), x.next, B) /\ Sane(ToSet(o.seen.lines), x.next, B)
  /\ o.expect \cap Alien \subseteq ToSet(o.body)
  /\ ToSet(o.body) \cap Alien \subseteq ToSet(x.entries)
  /\ o.target <= x.file

\* A file the manager has not come to does not exist.
FileOk(c, f, x, B) ==
  /\ c \in Content
  /\ Sane(ToSet(c.lines), x.next, B)
  /\ f > x.file => c = Missing

RepairPc == {"draining", "staging", "conflict", "reading", "resolving", "checking", "checked",
             "published", "repaired"}
RepairOk(o, a) == o.repair => a = "batch" /\ o.pc \in RepairPc

WorldOk ==
  /\ lease \in BOOLEAN
  /\ world \in [troubles : 0..MaxTrouble, aliens : 0..MaxAlien, tampered : SUBSET File]
  /\ history \in [batches : SUBSET SUBSET Own, deferred : SUBSET Own, unmarked : SUBSET Own,
                  rejected : SUBSET Own]

IInv ==
  /\ WorldOk
  /\ BatchesOk(m.next, history.batches)
  /\ ManagerOk(m, history.batches) /\ m.file \in File
  /\ op \in [Actor -> Operation]
  /\ \A a \in Actor : OperationOk(op[a], m, history.batches) /\ RepairOk(op[a], a)
  /\ disk \in [File -> Content]
  /\ \A f \in File : FileOk(disk[f], f, m, history.batches)
  /\ m.staged # {} => m.staged \in history.batches \/ op["batch"].repair

\* IInv has all that TypeOK says.
LEMMA TypesFollow == IInv => TypeOK
<1>1. ASSUME NEW x \in Manager, x.file \in File
      PROVE  x \in [entries : Seq(Line), next : Nat, file : File, expected : Sizes,
               current : BOOLEAN, required : BOOLEAN, failed : BOOLEAN, released : BOOLEAN,
               fence : BOOLEAN, dirty : BOOLEAN, claimed : BOOLEAN, writer : BOOLEAN,
               batch : BOOLEAN, staged : SUBSET Nat]
  <2>1. SUBSET Own \subseteq SUBSET Nat
    BY Basics DEF Own
  <2> QED BY <1>1, <2>1 DEF Manager
<1> QED BY <1>1 DEF IInv, WorldOk, ManagerOk, TypeOK, Line, Sizes, Content, Operation

-----------------------------------------------------------------------------
\* What happens to the manager's fields.

\* y is x later on: it has lost no line of others, and what is ok for x is ok for y.
Later(x, y, B) ==
  /\ ManagerOk(y, B) /\ y.next >= x.next /\ y.file >= x.file
  /\ ToSet(x.entries) \cap Alien \subseteq ToSet(y.entries)

\* Two steps are a later state, too.
LEMMA LaterTransitive ==
  ASSUME NEW B, NEW x, NEW y, NEW z, ManagerOk(x, B), Later(x, y, B), Later(y, z, B)
  PROVE  Later(x, z, B)
BY DEF Later, ManagerOk, Manager

\* Changes of the other fields do not matter.
LEMMA SameIsLater ==
  ASSUME NEW B, NEW x, NEW y, ManagerOk(x, B), y \in Manager,
         y.entries = x.entries, y.next = x.next, y.file = x.file,
         y.expected \in {x.expected, Absent}
  PROVE  Later(x, y, B)
BY Basics DEF Later, ManagerOk, Manager

\* A claim.
LEMMA ClaimIsLater ==
  ASSUME NEW B, NEW x, ManagerOk(x, B)
  PROVE  Later(x, Claim(x), B) /\ Claim(x).file = x.file
<1>1. x \in Manager
  BY DEF ManagerOk
<1> QED BY <1>1, ClaimFields, SameIsLater

\* A move to the sibling.
LEMMA MovedIsLater ==
  ASSUME NEW B, NEW x, ManagerOk(x, B)
  PROVE  Later(x, MovedOff(x), B)
<1>1. x \in Manager
  BY DEF ManagerOk
<1>2. x.file \in Nat /\ x.next \in Nat
  BY <1>1 DEF Manager
<1> DEFINE y == MovedOff(x)
<1>3. /\ y \in Manager /\ y.entries = x.entries /\ y.next = x.next /\ y.file = x.file + 1
      /\ y.expected = Absent
  BY <1>1, MovedFields
<1> HIDE DEF y
<1>4. ManagerOk(y, B)
  BY <1>3, Basics DEF ManagerOk
<1> QED BY <1>2, <1>3, <1>4 DEF Later, y

\* Finding a place for the next full write.
LEMMA HousedIsLater ==
  ASSUME NEW B, NEW x, ManagerOk(x, B)
  PROVE  /\ Later(x, Housed(x), B) /\ Housed(x).staged = x.staged
         /\ Housed(x).file = x.file \/ Housed(x).expected = Absent
<1>1. x \in Manager /\ Later(x, x, B)
  BY SameIsLater DEF ManagerOk
<1>2. /\ Claim(x).staged = x.staged /\ MovedOff(x).staged = x.staged
      /\ Claim(x).file = x.file /\ MovedOff(x).expected = Absent
  BY <1>1, ClaimFields, MovedFields
<1> QED BY <1>1, <1>2, ClaimIsLater, MovedIsLater DEF Housed

\* Two sets with whole batches have a union with whole batches.
LEMMA SaneUnion ==
  ASSUME NEW S, NEW T, NEW n, NEW B, Sane(S, n, B), Sane(T, n, B)
  PROVE  Sane(S \cup T, n, B)
BY DEF Sane

\* A recovery from a conflict.
LEMMA RecoveredIsLater ==
  ASSUME NEW B, NEW x, ManagerOk(x, B), NEW c \in Content, Sane(ToSet(c.lines), x.next, B)
  PROVE  Later(x, Recovered(x, c), B) /\ Recovered(x, c).staged = x.staged
<1>1. x \in Manager
  BY DEF ManagerOk
<1>2. CASE c = Missing
  <2>1. Recovered(x, c) = [x EXCEPT !.expected = Absent]
    BY <1>2 DEF Recovered
  <2>2. [x EXCEPT !.expected = Absent] \in Manager
    BY <1>1, Basics DEF Manager
  <2> QED BY <1>1, <2>1, <2>2, SameIsLater DEF Manager
<1>3. CASE c # Missing /\ c.id # x.file
  BY <1>1, <1>3, MovedIsLater, MovedFields DEF Recovered
<1>4. CASE c # Missing /\ c.id = x.file
  <2> DEFINE y == Adopted(x, c)
  <2>1. Recovered(x, c) = y
    BY <1>4 DEF Recovered
  <2>2. /\ y \in Manager /\ ToSet(y.entries) = ToSet(x.entries) \cup ToSet(c.lines)
        /\ y = [x EXCEPT !.entries = y.entries, !.expected = Size(c)]
    BY <1>1, AdoptedFields
  <2> HIDE DEF y
  <2>3. y.next = x.next /\ y.file = x.file /\ y.staged = x.staged /\ y.expected = Size(c)
    BY <1>1, <2>2 DEF Manager
  <2>4. Sane(ToSet(y.entries), y.next, B)
    BY <2>2, <2>3, SaneUnion DEF ManagerOk
  <2>5. y.expected \cap Alien \subseteq ToSet(y.entries)
    BY <2>2, <2>3, SizeFacts
  <2> QED BY <1>1, <2>1, <2>2, <2>3, <2>4, <2>5 DEF Later, ManagerOk, Manager
<1> QED BY <1>2, <1>3, <1>4

\* A rollback takes a whole batch, and no line of others.
LEMMA RolledBackIsLater ==
  ASSUME NEW B, NEW x, ManagerOk(x, B), BatchesOk(x.next, B), x.staged \in B \cup {{}}
  PROVE  Later(x, RolledBack(x), B) /\ RolledBack(x).staged = x.staged
<1> DEFINE y == RolledBack(x)
           w == Without(x.entries, x.staged)
<1>1. x \in Manager /\ x.entries \in Seq(Line) /\ x.staged \subseteq Own
  BY DEF ManagerOk, Manager
<1>2. w \in Seq(Line) /\ ToSet(w) = ToSet(x.entries) \ x.staged
  BY <1>1, WithoutFacts
<1>3. y = [x EXCEPT !.entries = w]
  BY DEF RolledBack
<1> HIDE DEF w, y
<1>4. /\ y \in Manager /\ y.entries = w /\ y.next = x.next /\ y.file = x.file
      /\ y.staged = x.staged /\ y.expected = x.expected
  BY <1>1, <1>2, <1>3 DEF Manager
<1>5. Own \cap Alien = {}
  BY Basics
<1>6. Sane(ToSet(w), x.next, B)
  BY <1>2 DEF Sane, ManagerOk, BatchesOk
<1>7. ManagerOk(y, B)
  BY <1>2, <1>4, <1>5, <1>6, <1>1 DEF ManagerOk
<1>8. x.next \in Nat /\ x.file \in Nat
  BY <1>1 DEF Manager
<1>9. ToSet(x.entries) \cap Alien \subseteq ToSet(y.entries)
  BY <1>1, <1>2, <1>4, <1>5
<1> QED BY <1>4, <1>7, <1>8, <1>9 DEF Later, y

-----------------------------------------------------------------------------
\* What happens to the operations.

SameData(p, o) ==
  p \in Operation /\ p.body = o.body /\ p.expect = o.expect /\ p.target = o.target /\ p.seen = o.seen
Blank(p) ==
  p \in Operation /\ p.body = <<>> /\ p.expect = Absent /\ p.target = 1 /\ p.seen = Missing

\* Later in the same operation, as far as RepairOk tells.
Follows(p, o) == SameData(p, o) /\ p.repair = o.repair /\ p.pc = o.pc

\* An operation that waits for less is at the same point with the same data.
LEMMA WaitsField ==
  ASSUME NEW o \in Operation, NEW s \in SUBSET Actor
  PROVE  Follows([o EXCEPT !.waits = s], o)
<1>1. [o EXCEPT !.waits = s] \in Operation
  BY DEF Operation
<1> QED BY <1>1 DEF Follows, SameData, Operation

\* So is one that a new epoch has overtaken.
LEMMA OvertakenFields ==
  ASSUME NEW o \in Operation
  PROVE  /\ Follows(Overtaken(o), o)
         /\ Overtaken(o).waits = o.waits
         /\ o.pc \notin RestPc => Overtaken(o).stale
<1> DEFINE b == o.pc \in {"reading", "resolving"}
           p == [o EXCEPT !.stale = TRUE, !.superseded = b]
<1>0. b \in BOOLEAN
  OBVIOUS
<1>3. Overtaken(o) = IF o.pc \in RestPc THEN o ELSE p
  BY DEF Overtaken
<1> HIDE DEF b
<1>1. p \in Operation /\ p.pc = o.pc /\ p.repair = o.repair /\ p.stale = TRUE /\ p.waits = o.waits
  BY <1>0 DEF Operation
<1>2. p.body = o.body /\ p.expect = o.expect /\ p.target = o.target /\ p.seen = o.seen
  BY <1>0 DEF Operation
<1> HIDE DEF p
<1> QED BY <1>1, <1>2, <1>3 DEF Follows, SameData

\* An operation that has ended holds nothing.
LEMMA BlankFields ==
  /\ Blank(Idle) /\ ~Idle.repair /\ Idle.pc = "idle"
  /\ Blank(Rejected) /\ ~Rejected.repair /\ Rejected.pc = "rejected"
<1>1. Idle \in Operation
  BY Basics, EmptySeq DEF Idle, Operation, Pc, RestPc
<1>2. Rejected \in Operation
  BY <1>1 DEF Rejected, Operation, Pc, RestPc
<1> QED BY <1>1, <1>2 DEF Blank, Idle, Rejected

\* Nor does one that begins.
LEMMA FreshFields ==
  ASSUME NEW a \in Actor, NEW e \in BOOLEAN
  PROVE  /\ Blank(Scheduled(a, e)) /\ ~Scheduled(a, e).repair
         /\ Blank(Flushing(a)) /\ ~Flushing(a).repair
         /\ Blank([Idle EXCEPT !.pc = "deciding"]) /\ ~[Idle EXCEPT !.pc = "deciding"].repair
         /\ Blank([Idle EXCEPT !.pc = "collecting"]) /\ ~[Idle EXCEPT !.pc = "collecting"].repair
<1>1. Before(a) \in SUBSET Actor
  BY DEF Before
<1>2. /\ Idle \in Operation /\ Idle.body = <<>> /\ Idle.expect = Absent /\ Idle.target = 1
      /\ Idle.seen = Missing /\ ~Idle.repair
  BY BlankFields DEF Blank
<1>3. {"queued", "flushing", "deciding", "collecting"} \subseteq Pc
  BY DEF Pc, TailPc, HopPc
<1> HIDE DEF Idle, Before, Pc
<1> QED BY <1>1, <1>2, <1>3 DEF Blank, Scheduled, Flushing, Operation

\* Nor does what follows the end of work in the queue.
LEMMA EndedFields ==
  ASSUME NEW a \in Actor
  PROVE  Blank(Ended(a)) /\ ~Ended(a).repair
BY FreshFields, BlankFields DEF Ended

\* What Leaves does to the actors.
LEMMA LeavesFacts ==
  ASSUME NEW a \in Actor, NEW rec \in Operation, op \in [Actor -> Operation], Leaves(a, rec)
  PROVE  /\ op' \in [Actor -> Operation] /\ op'[a] = rec
         /\ \A b \in Actor \ {a} : Follows(op'[b], op[b])
<1>1. \A b \in Actor \ {a} : op'[b] = [op[b] EXCEPT !.waits = @ \ {a}]
  BY DEF Leaves
<1>2. \A b \in Actor \ {a} : Follows(op'[b], op[b])
  <2> TAKE b \in Actor \ {a}
  <2>1. op[b] \in Operation /\ op[b].waits \ {a} \in SUBSET Actor
    BY DEF Operation
  <2>2. op'[b] = [op[b] EXCEPT !.waits = op[b].waits \ {a}]
    BY <1>1
  <2> HIDE DEF Operation
  <2> QED BY <2>1, <2>2, WaitsField
<1>3. op'[a] = rec
  BY DEF Leaves
<1>4. \A b \in Actor : op'[b] \in Operation
  BY <1>2, <1>3 DEF Follows, SameData
<1>5. op' = [b \in Actor |-> op'[b]]
  BY DEF Leaves
<1> QED BY <1>2, <1>3, <1>4, <1>5

\* What Goes does to the actors.
LEMMA GoesFacts ==
  ASSUME NEW a \in Actor, NEW pc \in Pc, op \in [Actor -> Operation], Goes(a, pc)
  PROVE  /\ op' \in [Actor -> Operation]
         /\ SameData(op'[a], op[a]) /\ op'[a].pc = pc /\ op'[a].repair = op[a].repair
         /\ \A b \in Actor \ {a} : op'[b] = op[b]
<1>0. \A o \in Operation : [o EXCEPT !.pc = pc] \in Operation
  BY DEF Operation
<1>1. op[a] \in Operation /\ [op[a] EXCEPT !.pc = pc] \in Operation
  BY <1>0
<1>2. op' = [op EXCEPT ![a] = [op[a] EXCEPT !.pc = pc]]
  BY DEF Goes
<1>3. op'[a] = [op[a] EXCEPT !.pc = pc] /\ \A b \in Actor \ {a} : op'[b] = op[b]
  BY <1>2
<1>4. op' \in [Actor -> Operation]
  BY <1>1, <1>2
<1>5. SameData(op'[a], op[a]) /\ op'[a].pc = pc /\ op'[a].repair = op[a].repair
  BY <1>1, <1>3 DEF SameData, Operation
<1> QED BY <1>3, <1>4, <1>5

-----------------------------------------------------------------------------
\* The invariant is kept.

\* An operation with the same data stays ok as the manager goes on.
LEMMA LaterOperation ==
  ASSUME NEW B, NEW x, NEW y, NEW o, NEW p,
         ManagerOk(x, B), Later(x, y, B), OperationOk(o, x, B), SameData(p, o)
  PROVE  OperationOk(p, y, B)
<1>1. x.next \in Nat /\ y.next \in Nat /\ x.file \in Nat /\ y.file \in Nat
  BY DEF ManagerOk, Manager, Later
<1>2. o.target \in Nat
  BY Basics DEF OperationOk, Operation
<1>3. \A S : Sane(S, x.next, B) => Sane(S, y.next, B)
  BY <1>1, Basics DEF Sane, Later, Own
<1>4. /\ p \in Operation /\ Sane(ToSet(p.body), y.next, B) /\ Sane(ToSet(p.seen.lines), y.next, B)
      /\ p.expect \cap Alien \subseteq ToSet(p.body)
      /\ ToSet(p.body) \cap Alien \subseteq ToSet(x.entries)
  BY <1>3 DEF SameData, OperationOk
<1>5. ToSet(p.body) \cap Alien \subseteq ToSet(y.entries)
  BY <1>4 DEF Later
<1>6. p.target <= y.file
  BY <1>1, <1>2 DEF Later, SameData, OperationOk
<1> QED BY <1>4, <1>5, <1>6 DEF OperationOk

\* One that holds nothing is ok.
LEMMA BlankOperation ==
  ASSUME NEW B, NEW x, NEW p, ManagerOk(x, B), Blank(p)
  PROVE  OperationOk(p, x, B)
<1>1. ToSet(<<>>) = {} /\ Missing.lines = <<>> /\ Absent \cap Alien = {}
  <2>1. <<>> \in Seq({})
    BY EmptySeq
  <2> QED BY <2>1, MembersFacts, Basics
<1>2. x.file \in Nat \ {0}
  BY DEF ManagerOk, Manager
<1>3. Sane({}, x.next, B)
  BY DEF Sane
<1>4. 1 <= x.file
  BY <1>2
<1> QED BY <1>1, <1>3, <1>4 DEF Blank, OperationOk

\* A file that is not written stays ok.
LEMMA LaterFile ==
  ASSUME NEW B, NEW x, NEW y, NEW f \in File, NEW c,
         ManagerOk(x, B), Later(x, y, B), FileOk(c, f, x, B)
  PROVE  FileOk(c, f, y, B)
<1>1. x.next \in Nat /\ y.next \in Nat /\ x.file \in Nat /\ y.file \in Nat /\ f \in Nat
  BY Basics DEF ManagerOk, Manager, Later
<1>2. Sane(ToSet(c.lines), y.next, B)
  BY <1>1, Basics DEF Sane, Later, Own, FileOk
<1> QED BY <1>1, <1>2 DEF FileOk, Later

\* An operation after a step: it goes on, is a new one, or is ok by itself.
Fine(a) ==
  /\ RepairOk(op'[a], a)
  /\ \/ SameData(op'[a], op[a]) \/ Blank(op'[a])
     \/ OperationOk(op'[a], m', history.batches)

\* The invariant, from what a step does to the manager, the operations and the files.
LEMMA InvKept ==
  ASSUME IInv, WorldOk', history'.batches = history.batches,
         Later(m, m', history.batches), m'.file \in File,
         op' \in [Actor -> Operation], \A a \in Actor : Fine(a),
         disk' \in [File -> Content],
         \A f \in File : disk'[f] = disk[f] \/ FileOk(disk'[f], f, m', history.batches),
         m'.staged # {} => m'.staged \in history.batches \/ op'["batch"].repair
  PROVE  IInv'
<1> DEFINE B == history.batches
<1>1. ManagerOk(m, B) /\ ManagerOk(m', B)
  BY DEF IInv, Later
<1>2. BatchesOk(m'.next, B)
  <2>1. m.next \in Nat /\ m'.next \in Nat /\ m'.next >= m.next
    BY <1>1 DEF ManagerOk, Manager, Later
  <2>2. Own \subseteq Nat
    BY Basics DEF Own
  <2>3. BatchesOk(m.next, B)
    BY DEF IInv
  <2>4. ASSUME NEW b \in B, NEW e \in b PROVE e < m'.next
    <3>1. e < m.next /\ e \in Nat
      BY <2>2, <2>3, <2>4 DEF BatchesOk
    <3> QED BY <2>1, <3>1
  <2> QED BY <2>3, <2>4 DEF BatchesOk
<1>3. ASSUME NEW a \in Actor PROVE OperationOk(op'[a], m', B) /\ RepairOk(op'[a], a)
  <2>1. OperationOk(op[a], m, B)
    BY DEF IInv
  <2> QED BY <1>1, <2>1, LaterOperation, BlankOperation DEF Fine
<1>4. ASSUME NEW f \in File PROVE FileOk(disk'[f], f, m', B)
  <2>1. FileOk(disk[f], f, m, B)
    BY DEF IInv
  <2> QED BY <1>1, <2>1, LaterFile
<1> QED BY <1>1, <1>2, <1>3, <1>4 DEF IInv

\* What every step below starts from.
LEMMA InvFacts ==
  ASSUME IInv
  PROVE  /\ WorldOk /\ m \in Manager /\ m.file \in File /\ ManagerOk(m, history.batches)
         /\ Later(m, m, history.batches) /\ BatchesOk(m.next, history.batches)
         /\ op \in [Actor -> Operation] /\ disk \in [File -> Content]
         /\ \A a \in Actor : op[a] \in Operation /\ RepairOk(op[a], a)
         /\ \A f \in File : disk[f] \in Content /\ Sane(ToSet(disk[f].lines), m.next, history.batches)
         /\ m.staged # {} => m.staged \in history.batches \/ op["batch"].repair
         /\ "batch" \in Actor /\ "rewrite" \in Actor
<1>1. ManagerOk(m, history.batches) /\ m \in Manager
  BY DEF IInv, ManagerOk
<1>2. Later(m, m, history.batches)
  BY <1>1, SameIsLater
<1> QED BY <1>1, <1>2 DEF IInv, FileOk, Actor

\* Steps that leave the files and what is recorded alone.
LEMMA QuietStep ==
  ASSUME IInv, UNCHANGED <<disk, world, lease, history>>,
         Later(m, m', history.batches), m'.file \in File,
         op' \in [Actor -> Operation], \A a \in Actor : Fine(a),
         m'.staged # {} => m'.staged \in history.batches \/ op'["batch"].repair
  PROVE  IInv'
<1>1. WorldOk'
  BY DEF IInv, WorldOk
<1>2. disk' \in [File -> Content] /\ history'.batches = history.batches
  BY DEF IInv
<1>3. \A f \in File : disk'[f] = disk[f]
  OBVIOUS
<1> QED BY <1>1, <1>2, <1>3, InvKept

\* An operation that stays where it is.
LEMMA FollowsFine ==
  ASSUME IInv, NEW a \in Actor, Follows(op'[a], op[a]) \/ op'[a] = op[a]
  PROVE  Fine(a)
<1>1. op[a] \in Operation /\ RepairOk(op[a], a)
  BY InvFacts
<1> QED BY <1>1 DEF Fine, Follows, SameData, RepairOk

\* a goes on to another point of the same operation.
LEMMA GoesFine ==
  ASSUME IInv, NEW a \in Actor, NEW pc \in Pc, Goes(a, pc), ~op[a].repair \/ pc \in RepairPc
  PROVE  /\ op' \in [Actor -> Operation] /\ \A b \in Actor : Fine(b)
         /\ op'["batch"].repair = op["batch"].repair
<1>1. op \in [Actor -> Operation] /\ RepairOk(op[a], a) /\ "batch" \in Actor
  BY InvFacts
<1>2. /\ op' \in [Actor -> Operation]
      /\ SameData(op'[a], op[a]) /\ op'[a].pc = pc /\ op'[a].repair = op[a].repair
      /\ \A b \in Actor \ {a} : op'[b] = op[b]
  BY <1>1, GoesFacts
<1>3. Fine(a)
  BY <1>1, <1>2 DEF Fine, RepairOk
<1> QED BY <1>1, <1>2, <1>3, FollowsFine

\* a's operation ends, or begins another that holds nothing yet.
LEMMA LeavesFine ==
  ASSUME IInv, NEW a \in Actor, NEW rec, Leaves(a, rec), Blank(rec), ~rec.repair
  PROVE  /\ op' \in [Actor -> Operation] /\ \A b \in Actor : Fine(b)
         /\ a = "batch" \/ op'["batch"].repair = op["batch"].repair
<1>1. op \in [Actor -> Operation] /\ rec \in Operation /\ "batch" \in Actor
  BY InvFacts DEF Blank
<1>2. /\ op' \in [Actor -> Operation] /\ op'[a] = rec
      /\ \A b \in Actor \ {a} : Follows(op'[b], op[b])
  BY <1>1, LeavesFacts
<1>3. Fine(a)
  BY <1>2 DEF Fine, RepairOk
<1> QED BY <1>1, <1>2, <1>3, FollowsFine DEF Follows

\* a's operation is replaced, and no other is touched.
LEMMA ReplacedFine ==
  ASSUME IInv, NEW a \in Actor, NEW rec, op' = [op EXCEPT ![a] = rec], rec \in Operation,
         RepairOk(rec, a), Blank(rec) \/ OperationOk(rec, m', history.batches)
  PROVE  /\ op' \in [Actor -> Operation] /\ \A b \in Actor : Fine(b)
         /\ op'[a] = rec /\ (a = "batch" \/ op'["batch"] = op["batch"])
<1>1. op \in [Actor -> Operation] /\ "batch" \in Actor
  BY InvFacts
<1>2. op'[a] = rec /\ \A b \in Actor \ {a} : op'[b] = op[b]
  BY <1>1
<1>3. Fine(a)
  BY <1>2 DEF Fine
<1> QED BY <1>1, <1>2, <1>3, FollowsFine

\* All work is overtaken.
LEMMA StaleFine ==
  ASSUME IInv, op' = Stale
  PROVE  /\ op' \in [Actor -> Operation] /\ \A b \in Actor : Fine(b)
         /\ op'["batch"].repair = op["batch"].repair
<1>1. \A b \in Actor : op[b] \in Operation /\ op'[b] = Overtaken(op[b])
  BY InvFacts DEF Stale
<1>2. \A b \in Actor : Follows(op'[b], op[b])
  BY <1>1, OvertakenFields
<1>3. op' \in [Actor -> Operation]
  <2>1. \A b \in Actor : op'[b] \in Operation
    BY <1>2 DEF Follows, SameData
  <2> QED BY <2>1 DEF Stale
<1>4. "batch" \in Actor
  BY InvFacts
<1> QED BY <1>4, <1>1, <1>2, <1>3, FollowsFine DEF Follows

\* Stages: a body that has all the manager knows.
LEMMA StagesFine ==
  ASSUME IInv, NEW a \in Actor, NEW x, NEW tries \in Nat, Stages(a, x, tries),
         Later(m, x, history.batches)
  PROVE  /\ m' = x /\ x.file \in File
         /\ op' \in [Actor -> Operation] /\ \A b \in Actor : Fine(b)
         /\ op'["batch"].repair = op["batch"].repair
<1> DEFINE o == op[a]
           rec == [o EXCEPT !.pc = "staging", !.body = x.entries, !.expect = x.expected,
                            !.target = x.file, !.tries = tries, !.seen = Missing]
<1>1. o \in Operation /\ RepairOk(o, a) /\ op \in [Actor -> Operation] /\ "batch" \in Actor
  BY InvFacts
<1>2. m' = x /\ x.file \in File /\ op' = [op EXCEPT ![a] = rec]
  BY DEF Stages
<1>3. ManagerOk(x, history.batches) /\ x \in Manager
  BY DEF Later, ManagerOk
<1>4. x.entries \in Seq(Line) /\ x.expected \in Sizes /\ Missing \in Content /\ "staging" \in Pc
  BY <1>3, Basics DEF Manager, Pc, IOPc
<1> HIDE DEF o
<1>5. /\ rec \in Operation /\ rec.repair = o.repair /\ rec.pc = "staging" /\ rec.body = x.entries
      /\ rec.expect = x.expected /\ rec.target = x.file /\ rec.seen = Missing
  BY <1>1, <1>2, <1>4 DEF Operation
<1>6. ToSet(Missing.lines) = {}
  <2>1. <<>> \in Seq({}) /\ Missing.lines = <<>>
    BY EmptySeq, Basics
  <2> QED BY <2>1, MembersFacts
<1>7. OperationOk(rec, x, history.batches)
  <2>1. x.file \in Nat /\ Sane({}, x.next, history.batches)
    BY <1>3 DEF Manager, Sane
  <2> HIDE DEF rec
  <2> QED BY <1>3, <1>5, <1>6, <2>1 DEF OperationOk, ManagerOk
<1>8. RepairOk(rec, a)
  BY <1>1, <1>5 DEF RepairOk, RepairPc, o
<1> HIDE DEF rec
<1>9. /\ op' \in [Actor -> Operation] /\ \A b \in Actor : Fine(b)
      /\ op'[a] = rec /\ (a = "batch" \/ op'["batch"] = op["batch"])
  BY <1>2, <1>5, <1>7, <1>8, ReplacedFine
<1> QED BY <1>2, <1>5, <1>9 DEF o

-----------------------------------------------------------------------------
\* The manager's own steps.

\* Fields that matter to nothing here.
LEMMA TweakIsLater ==
  ASSUME NEW B, NEW x, NEW y, NEW z, ManagerOk(x, B), Later(x, y, B), z \in Manager,
         z.entries = y.entries, z.next = y.next, z.file = y.file, z.expected \in {y.expected, Absent}
  PROVE  Later(x, z, B)
<1>1. ManagerOk(y, B)
  BY DEF Later
<1>2. Later(y, z, B)
  BY <1>1, SameIsLater
<1> QED BY <1>2, LaterTransitive

\* What the manager expects to find is the staged body.
LEMMA LandsBack ==
  ASSUME NEW B, NEW x, NEW y, NEW o, NEW z, ManagerOk(x, B), Later(x, y, B), OperationOk(o, x, B),
         z \in Manager, z.entries = y.entries, z.next = y.next, z.file = y.file,
         z.expected = SizeOf(o.body)
  PROVE  Later(x, z, B)
<1>1. ManagerOk(z, B)
  BY DEF Later, ManagerOk, OperationOk, SizeOf
<1> QED BY <1>1 DEF Later

\* RewriteSynchronously writes all the manager knows, or latches the failure.
LEMMA SyncStep ==
  ASSUME IInv, NEW x, Later(m, x, history.batches), x.staged = m.staged, x.file = m.file,
         RewriteSynchronously(x), UNCHANGED <<lease, history>>
  PROVE  IInv'
<1> DEFINE B == history.batches
           h == Housed(x)
           y == [h EXCEPT !.writer = FALSE, !.fence = FALSE]
           clash == Size(disk[y.file]) # y.expected
           z == IF clash THEN Recovered(y, disk[y.file]) ELSE y
           final == IF clash /\ y.expected = Absent THEN y ELSE z
<1>0. /\ ManagerOk(m, B) /\ ManagerOk(x, B) /\ WorldOk /\ disk \in [File -> Content]
      /\ \A f \in File : disk[f] \in Content /\ Sane(ToSet(disk[f].lines), m.next, B)
      /\ m.staged # {} => m.staged \in B \/ op["batch"].repair
  BY InvFacts DEF Later
<1>1. /\ Later(m, h, B) /\ h.staged = m.staged /\ h \in Manager
      /\ h.file = x.file \/ h.expected = Absent
  <2>1. Later(x, h, B) /\ h.staged = x.staged /\ (h.file = x.file \/ h.expected = Absent)
    BY <1>0, HousedIsLater
  <2>2. Later(m, h, B)
    BY <1>0, <2>1, LaterTransitive
  <2> QED BY <2>1, <2>2 DEF Later, ManagerOk
<1> HIDE DEF h
<1>2. /\ Later(m, y, B) /\ y.staged = m.staged /\ y \in Manager
      /\ y.file = x.file \/ y.expected = Absent
  <2>1. y \in Manager
    BY <1>1 DEF Manager
  <2>2. /\ y.entries = h.entries /\ y.next = h.next /\ y.file = h.file
        /\ y.expected = h.expected /\ y.staged = h.staged
    BY <1>1 DEF Manager
  <2> HIDE DEF y
  <2> QED BY <1>0, <1>1, <2>1, <2>2, TweakIsLater
<1>3. /\ final.file \in File /\ op' = Stale
      /\ \/ /\ ~(clash /\ y.expected = Absent)
            /\ Published(z, z.file, z.entries)
            /\ m' = [z EXCEPT !.failed = FALSE, !.expected = SizeOf(z.entries),
                              !.current = TRUE, !.required = FALSE]
         \/ /\ m' = [final EXCEPT !.failed = TRUE]
            /\ UNCHANGED disk
            /\ IF clash /\ y.expected = Absent THEN UNCHANGED world ELSE Fault
  BY DEF RewriteSynchronously, h
<1> HIDE DEF y
<1>4. y.file \in File
  <2>1. x.file \in File
    BY InvFacts
  <2>2. y.expected = Absent => final = y
    OBVIOUS
  <2> QED BY <1>2, <1>3, <2>1, <2>2
<1>5. Later(m, z, B) /\ z.staged = m.staged /\ z \in Manager
  <2>1. CASE ~clash
    BY <1>2, <2>1
  <2>2. CASE clash
    <3>1. z = Recovered(y, disk[y.file])
      BY <2>2
    <3>2. disk[y.file] \in Content /\ Sane(ToSet(disk[y.file].lines), m.next, B)
      BY <1>0, <1>4
    <3>3. ManagerOk(y, B) /\ y.next \in Nat /\ m.next \in Nat /\ y.next >= m.next
      BY <1>0, <1>2 DEF Later, ManagerOk, Manager
    <3>4. Sane(ToSet(disk[y.file].lines), y.next, B)
      BY <3>2, <3>3, Basics DEF Sane, Own
    <3>5. Later(y, z, B) /\ z.staged = y.staged
      BY <3>1, <3>2, <3>3, <3>4, RecoveredIsLater
    <3> QED BY <1>0, <1>2, <3>5, LaterTransitive DEF Later, ManagerOk
  <2> QED BY <2>1, <2>2
<1> HIDE DEF z, clash
<1>6. Later(m, final, B) /\ final.staged = m.staged /\ final \in Manager
  BY <1>2, <1>5
<1> HIDE DEF final
<1>7. /\ op' \in [Actor -> Operation] /\ \A b \in Actor : Fine(b)
      /\ op'["batch"].repair = op["batch"].repair
  BY <1>3, StaleFine
<1>8. ASSUME Published(z, z.file, z.entries), final = z,
             m' = [z EXCEPT !.failed = FALSE, !.expected = SizeOf(z.entries),
                            !.current = TRUE, !.required = FALSE]
      PROVE  IInv'
  <2>1. z.entries \in Seq(Line) /\ SizeOf(z.entries) \in Sizes
    <3>1. z.entries \in Seq(Line) /\ 1 \in 0..Stranger
      BY <1>5, JournalAssumption DEF Manager, Stranger
    <3>2. [id |-> 1, lines |-> z.entries] \in Content
      BY <3>1 DEF Content
    <3> QED BY <3>1, <3>2, SizeFacts
  <2>2. /\ m' \in Manager /\ m'.entries = z.entries /\ m'.next = z.next /\ m'.file = z.file
        /\ m'.staged = z.staged /\ m'.expected = SizeOf(z.entries)
    BY <1>5, <1>8, <2>1 DEF Manager
  <2>3. ManagerOk(m', B) /\ Later(m, m', B)
    BY <1>5, <2>2 DEF Later, ManagerOk, SizeOf
  <2>4. m'.file \in File
    BY <1>3, <1>8, <2>2
  <2>5. disk' = [disk EXCEPT ![z.file] = Journal(z.file, z.entries)]
    BY <1>8 DEF Published
  <2>6. z.file \in 0..Stranger /\ Journal(z.file, z.entries) \in Content
    BY <2>1, <2>2, <2>4, Basics DEF Journal, Content, File, Stranger
  <2>7. FileOk(Journal(z.file, z.entries), z.file, m', B)
    <3>1. Journal(z.file, z.entries).lines = z.entries /\ ~(z.file > m'.file)
      BY <2>2, <2>4, Basics DEF Journal, File
    <3> QED BY <2>2, <2>3, <2>6, <3>1 DEF FileOk, ManagerOk
  <2>8. /\ disk' \in [File -> Content]
        /\ \A f \in File : disk'[f] = disk[f] \/ FileOk(disk'[f], f, m', B)
    BY <1>0, <2>2, <2>4, <2>5, <2>6, <2>7
  <2>9. WorldOk'
    BY <1>0, <1>8 DEF WorldOk, Published
  <2> QED BY <1>0, <1>5, <1>7, <2>2, <2>3, <2>4, <2>8, <2>9, InvKept
<1>9. ASSUME m' = [final EXCEPT !.failed = TRUE], UNCHANGED disk,
             UNCHANGED world \/ Fault
      PROVE  IInv'
  <2>1. /\ m' \in Manager /\ m'.entries = final.entries /\ m'.next = final.next
        /\ m'.file = final.file /\ m'.staged = final.staged /\ m'.expected = final.expected
    BY <1>6, <1>9 DEF Manager
  <2>2. Later(m, m', B)
    BY <1>0, <1>6, <2>1, TweakIsLater
  <2>3. WorldOk'
    BY <1>0, <1>9, JournalAssumption DEF WorldOk, Fault, Trouble
  <2> QED BY <1>0, <1>3, <1>6, <1>7, <1>9, <2>1, <2>2, <2>3, InvKept
<1>10. ~(clash /\ y.expected = Absent) => final = z
  BY DEF final
<1> QED BY <1>3, <1>8, <1>9, <1>10

\* A new number belongs to no batch.
LEMMA SaneAdds ==
  ASSUME NEW S, NEW n \in Nat, NEW B, Sane(S, n, B), BatchesOk(n, B)
  PROVE  Sane(S \cup {n}, n + 1, B)
<1>1. \A b \in B : n \notin b
  BY DEF BatchesOk
<1>2. \A e \in (S \cup {n}) \cap Own : e < n + 1
  BY Basics DEF Sane, Own
<1> QED BY <1>1, <1>2 DEF Sane

\* An entry is recorded.
LEMMA RecordIsLater ==
  ASSUME NEW B, NEW x, ManagerOk(x, B), BatchesOk(x.next, B), x.next \in Own
  PROVE  /\ Later(x, Record(x, x.next), B)
         /\ Record(x, x.next).file = x.file /\ Record(x, x.next).staged = x.staged
<1> DEFINE e == x.next
           s == Append(x.entries, e)
           y == Record(x, e)
<1>1. x \in Manager /\ x.entries \in Seq(Line) /\ e \in Line /\ e \in Nat /\ x.file \in Nat
  BY DEF ManagerOk, Manager, Line
<1>2. s \in Seq(Line) /\ ToSet(s) = ToSet(x.entries) \cup {e}
  BY <1>1, AppendProperties, MembersFacts
<1>3. y = [x EXCEPT !.entries = s, !.next = e + 1]
  BY DEF Record
<1> HIDE DEF e, s, y
<1>4. /\ y \in Manager /\ y.entries = s /\ y.next = e + 1 /\ y.file = x.file
      /\ y.staged = x.staged /\ y.expected = x.expected
  <2>1. e + 1 \in Nat
    BY <1>1
  <2>2. y \in Manager
    BY <1>1, <1>2, <1>3, <2>1 DEF Manager
  <2>3. y.entries = s /\ y.next = e + 1
    BY <1>1, <1>3 DEF Manager
  <2>4. y.file = x.file /\ y.staged = x.staged /\ y.expected = x.expected
    BY <1>1, <1>3 DEF Manager
  <2> QED BY <2>2, <2>3, <2>4
<1> USE DEF e
<1>5. Sane(ToSet(s), e + 1, B)
  BY <1>1, <1>2, SaneAdds DEF ManagerOk
<1>6. ManagerOk(y, B)
  BY <1>2, <1>4, <1>5 DEF ManagerOk
<1> QED BY <1>1, <1>2, <1>4, <1>6 DEF Later, y

\* The marks of a file that is behind touch no data.
LEMMA DivergedFields ==
  ASSUME NEW x \in Manager
  PROVE  /\ Diverged(x) \in Manager /\ Diverged(x).entries = x.entries
         /\ Diverged(x).next = x.next /\ Diverged(x).file = x.file
         /\ Diverged(x).expected = x.expected /\ Diverged(x).staged = x.staged
         /\ Deferred(x) \in Manager /\ Deferred(x).entries = x.entries
         /\ Deferred(x).next = x.next /\ Deferred(x).file = x.file
         /\ Deferred(x).expected = x.expected /\ Deferred(x).staged = x.staged
BY DEF Diverged, Deferred, Manager

\* The hot path.
LEMMA AppendLineStep ==
  ASSUME IInv, NEW z, Later(m, z, history.batches), z.staged = m.staged, z.file = m.file,
         z.next = m.next + 1, m.next \in Own,
         AppendLine(z, m.next), UNCHANGED <<lease, history>>
  PROVE  IInv'
<1> DEFINE B == history.batches
           e == m.next
           f == z.file
<1>1. /\ ManagerOk(m, B) /\ ManagerOk(z, B) /\ z \in Manager /\ WorldOk /\ f \in File
      /\ BatchesOk(e, B) /\ e \in Nat
      /\ disk \in [File -> Content] /\ op \in [Actor -> Operation]
      /\ \A g \in File : disk[g] \in Content /\ Sane(ToSet(disk[g].lines), e, B)
      /\ m.staged # {} => m.staged \in B \/ op["batch"].repair
  BY InvFacts DEF Later, ManagerOk, Manager
<1>2. op' = op /\ \A a \in Actor : Fine(a)
  BY FollowsFine DEF AppendLine
<1>3. ASSUME disk' = Landed(z, e), UNCHANGED world,
             m' = [z EXCEPT !.writer = TRUE, !.expected = (@ \ Absent) \cup {e}]
      PROVE  IInv'
  <2>1. {e} \subseteq -1..MaxEntry + MaxAlien /\ {e} \cap Alien = {} /\ e \in Line
    BY Basics, JournalAssumption DEF Own, Line
  <2>2. (z.expected \ Absent) \cup {e} \in Sizes
    BY <1>1, <2>1 DEF Manager, Sizes
  <2>3. /\ m' \in Manager /\ m'.entries = z.entries /\ m'.next = z.next /\ m'.file = z.file
        /\ m'.staged = z.staged /\ m'.expected = (z.expected \ Absent) \cup {e}
    BY <1>1, <1>3, <2>2 DEF Manager
  <2>4. ManagerOk(m', B) /\ Later(m, m', B)
    BY <1>1, <2>1, <2>3 DEF Later, ManagerOk
  <2>5. ASSUME NEW c \in Content, ToSet(c.lines) = {e} \/ ToSet(c.lines) = ToSet(disk[f].lines) \cup {e}
        PROVE  FileOk(c, f, m', B)
    <3>1. Sane({}, e, B) /\ Sane(ToSet(disk[f].lines), e, B)
      BY <1>1 DEF Sane
    <3>2. Sane(ToSet(c.lines), e + 1, B)
      BY <1>1, <2>5, <3>1, SaneAdds
    <3>3. ~(f > m'.file)
      BY <1>1, <2>3, Basics DEF File
    <3> QED BY <2>3, <3>2, <3>3 DEF FileOk
  <2>6. /\ disk' \in [File -> Content]
        /\ \A g \in File : disk'[g] = disk[g] \/ FileOk(disk'[g], g, m', B)
    <3>1. CASE disk[f] # Missing
      <4> DEFINE c == [disk[f] EXCEPT !.lines = Append(disk[f].lines, e)]
      <4>1. disk' = [disk EXCEPT ![f] = c]
        BY <1>3, <3>1 DEF Landed
      <4>2. disk[f].lines \in Seq(Line)
        BY <1>1 DEF Content
      <4>3. /\ Append(disk[f].lines, e) \in Seq(Line)
            /\ ToSet(Append(disk[f].lines, e)) = ToSet(disk[f].lines) \cup {e}
        BY <2>1, <4>2, AppendProperties, MembersFacts
      <4>4. c \in Content /\ c.lines = Append(disk[f].lines, e)
        BY <1>1, <4>3 DEF Content
      <4> QED BY <1>1, <2>5, <4>1, <4>3, <4>4
    <3>2. CASE disk[f] = Missing /\ z.writer
      BY <1>1, <1>3, <3>2 DEF Landed
    <3>3. CASE disk[f] = Missing /\ ~z.writer
      <4>1. disk' = [disk EXCEPT ![f] = Journal(0, <<e>>)]
        BY <1>3, <3>3 DEF Landed
      <4>2. <<e>> \in Seq(Line) /\ <<>> \in Seq(Line) /\ <<e>> = Append(<<>>, e)
        BY <2>1
      <4>3. ToSet(<<e>>) = {e}
        <5>1. ToSet(Append(<<>>, e)) = ToSet(<<>>) \cup {e} /\ ToSet(<<>>) = {}
          BY <2>1, <4>2, MembersFacts
        <5> QED BY <4>2, <5>1
      <4>4. 0 \in 0..Stranger
        BY Basics
      <4>5. Journal(0, <<e>>) \in Content /\ Journal(0, <<e>>).lines = <<e>>
        BY <4>2, <4>4 DEF Journal, Content
      <4> QED BY <1>1, <2>5, <4>1, <4>3, <4>5
    <3> QED BY <3>1, <3>2, <3>3
  <2>7. WorldOk'
    BY <1>1, <1>3 DEF WorldOk
  <2> QED BY <1>1, <1>2, <2>3, <2>4, <2>6, <2>7, InvKept
<1>4. ASSUME Fault, UNCHANGED disk,
             m' = [z EXCEPT !.writer = TRUE, !.failed = TRUE, !.current = FALSE, !.required = TRUE]
      PROVE  IInv'
  <2>1. /\ m' \in Manager /\ m'.entries = z.entries /\ m'.next = z.next /\ m'.file = z.file
        /\ m'.staged = z.staged /\ m'.expected = z.expected
    BY <1>1, <1>4 DEF Manager
  <2>2. Later(m, m', B)
    BY <1>1, <2>1, TweakIsLater
  <2>3. WorldOk'
    BY <1>1, <1>4, JournalAssumption DEF WorldOk, Fault, Trouble
  <2> QED BY <1>1, <1>2, <1>4, <2>1, <2>2, <2>3, InvKept
<1> QED BY <1>3, <1>4 DEF AppendLine

\* The invariant after AppendEntry.
LEMMA AppendEntryStep == ASSUME IInv, AppendEntry PROVE IInv'
<1> DEFINE B == history.batches
           x == Record(m, m.next)
           y == IF m.failed THEN Diverged(x) ELSE x
<1>1. /\ ManagerOk(m, B) /\ WorldOk /\ m.file \in File /\ BatchesOk(m.next, B) /\ m \in Manager
      /\ disk \in [File -> Content] /\ op \in [Actor -> Operation] /\ m.next \in Own
      /\ m.staged # {} => m.staged \in B \/ op["batch"].repair
  BY InvFacts DEF AppendEntry
<1>2. Later(m, x, B) /\ x.file = m.file /\ x.staged = m.staged /\ x \in Manager
      /\ x.next = m.next + 1
  BY <1>1, RecordIsLater DEF Later, ManagerOk, Record, Manager
<1>3. \/ /\ m.batch /\ m' = Deferred(x) /\ UNCHANGED <<op, disk, world>>
         /\ history' = [history EXCEPT !.deferred = @ \cup {m.next}]
      \/ /\ UNCHANGED history
         /\ \/ \E d \in BOOLEAN : RewriteSynchronously([y EXCEPT !.dirty = d])
            \/ AppendLine(Claim(y), m.next)
  <2>1. y.dirty \in BOOLEAN /\ y.fence \in BOOLEAN
    BY <1>2 DEF Manager, Diverged
  <2> QED BY <2>1 DEF AppendEntry
<1>4. UNCHANGED lease
  BY DEF AppendEntry
<1>5. Later(m, y, B) /\ y.file = m.file /\ y.staged = m.staged /\ y \in Manager
      /\ y.next = m.next + 1
  <2>1. Later(m, Diverged(x), B)
    BY <1>1, <1>2, DivergedFields, TweakIsLater
  <2> QED BY <1>2, <2>1, DivergedFields
<1> HIDE DEF x, y
<1>6. ASSUME m' = Deferred(x), UNCHANGED <<op, disk, world>>,
             history' = [history EXCEPT !.deferred = @ \cup {m.next}]
      PROVE  IInv'
  <2>1. Later(m, m', B) /\ m'.file = m.file /\ m'.staged = m.staged
    BY <1>1, <1>2, <1>6, DivergedFields, TweakIsLater
  <2>2. \A a \in Actor : Fine(a)
    BY <1>6, FollowsFine
  <2>3. WorldOk' /\ history'.batches = history.batches
    BY <1>1, <1>4, <1>6 DEF WorldOk
  <2> QED BY <1>1, <1>6, <2>1, <2>2, <2>3, InvKept
<1>7. ASSUME NEW d \in BOOLEAN, RewriteSynchronously([y EXCEPT !.dirty = d]), UNCHANGED history
      PROVE  IInv'
  <2> DEFINE z == [y EXCEPT !.dirty = d]
  <2>1. /\ z \in Manager /\ z.entries = y.entries /\ z.next = y.next /\ z.file = y.file
        /\ z.expected = y.expected /\ z.staged = y.staged
    BY <1>5 DEF Manager
  <2>2. Later(m, z, B)
    <3> HIDE DEF z
    <3> QED BY <1>1, <1>5, <2>1, TweakIsLater
  <2>3. RewriteSynchronously(z)
    BY <1>7
  <2> HIDE DEF z
  <2> QED BY <1>4, <1>5, <1>7, <2>1, <2>2, <2>3, SyncStep
<1>8. ASSUME AppendLine(Claim(y), m.next), UNCHANGED history
      PROVE  IInv'
  <2>1. ManagerOk(y, B)
    BY <1>5 DEF Later
  <2>2. Later(y, Claim(y), B) /\ Claim(y).file = m.file /\ Claim(y).staged = m.staged
        /\ Claim(y).next = m.next + 1
    BY <1>5, <2>1, ClaimIsLater, ClaimFields
  <2>3. Later(m, Claim(y), B)
    BY <1>1, <1>5, <2>2, LaterTransitive
  <2> QED BY <1>1, <1>4, <1>8, <2>2, <2>3, AppendLineStep
<1> QED BY <1>3, <1>6, <1>7, <1>8

\* The invariant after FlushSync.
LEMMA FlushSyncStep == ASSUME IInv, FlushSync PROVE IInv'
<1>1. Later(m, m, history.batches)
  BY InvFacts
<1> QED BY <1>1, SyncStep DEF FlushSync

\* The invariant after Seal.
LEMMA SealStep == ASSUME IInv, Seal PROVE IInv'
<1>1. m \in Manager /\ ManagerOk(m, history.batches) /\ m.file \in File
      /\ (m.staged # {} => m.staged \in history.batches \/ op["batch"].repair)
  BY InvFacts
<1>2. /\ m' \in Manager /\ m'.entries = m.entries /\ m'.next = m.next /\ m'.file = m.file
      /\ m'.expected = m.expected /\ m'.staged = m.staged
  BY <1>1 DEF Seal, Manager
<1>3. Later(m, m', history.batches)
  BY <1>1, <1>2, SameIsLater
<1>4. op' = Stale /\ UNCHANGED <<disk, world, lease, history>>
  BY DEF Seal
<1>5. /\ op' \in [Actor -> Operation] /\ \A b \in Actor : Fine(b)
      /\ op'["batch"].repair = op["batch"].repair
  BY <1>4, StaleFine
<1> QED BY <1>1, <1>2, <1>3, <1>4, <1>5, QuietStep

-----------------------------------------------------------------------------
\* The steps of the asynchronous operations.

\* A repair starts, or a sealed manager needs none.
LEMMA RepairsFine ==
  ASSUME IInv, NEW x \in Manager, Repairs(x)
  PROVE  /\ op' \in [Actor -> Operation]
         /\ \A b \in Actor : RepairOk(op'[b], b) /\ (SameData(op'[b], op[b]) \/ Blank(op'[b]))
         /\ m' \in Manager /\ m'.entries = x.entries /\ m'.next = x.next /\ m'.file = x.file
         /\ m'.expected = x.expected
         /\ m'.staged # {} => op'["batch"].repair
<1>0. /\ op \in [Actor -> Operation] /\ "batch" \in Actor
      /\ \A b \in Actor : op[b] \in Operation /\ RepairOk(op[b], b)
  BY InvFacts
<1>1. CASE x.released
  <2>1. m' = [x EXCEPT !.batch = FALSE, !.staged = {}] /\ Leaves("batch", Idle)
    BY <1>1 DEF Repairs
  <2>2. /\ m' \in Manager /\ m'.entries = x.entries /\ m'.next = x.next /\ m'.file = x.file
        /\ m'.expected = x.expected /\ m'.staged = {}
    BY <2>1 DEF Manager
  <2>3. Blank(Idle) /\ Idle \in Operation /\ ~Idle.repair
    BY BlankFields DEF Blank
  <2>4. /\ op' \in [Actor -> Operation] /\ op'["batch"] = Idle
        /\ \A b \in Actor \ {"batch"} : Follows(op'[b], op[b])
    BY <1>0, <2>1, <2>3, LeavesFacts
  <2>5. \A b \in Actor \ {"batch"} :
          RepairOk(op'[b], b) /\ (SameData(op'[b], op[b]) \/ Blank(op'[b]))
    BY <1>0, <2>4 DEF Follows, RepairOk
  <2>6. RepairOk(op'["batch"], "batch") /\ Blank(op'["batch"])
    BY <2>3, <2>4 DEF RepairOk
  <2> QED BY <2>2, <2>4, <2>5, <2>6
<1>2. CASE ~x.released
  <2> DEFINE rec == [Idle EXCEPT !.pc = "draining", !.repair = TRUE, !.waits = Before("batch")]
  <2>1. m' = [Diverged(x) EXCEPT !.writer = FALSE, !.fence = TRUE, !.failed = TRUE]
    BY <1>2 DEF Repairs
  <2>2. op' = [a \in Actor |-> IF a = "batch" THEN rec
                               ELSE [Overtaken(op[a]) EXCEPT !.waits = @ \ {"batch"}]]
    BY <1>2 DEF Repairs
  <2>3. /\ m' \in Manager /\ m'.entries = x.entries /\ m'.next = x.next /\ m'.file = x.file
        /\ m'.expected = x.expected
    <3> DEFINE d == Diverged(x)
    <3>1. /\ d \in Manager /\ d.entries = x.entries /\ d.next = x.next /\ d.file = x.file
          /\ d.expected = x.expected
      BY DivergedFields
    <3>2. m' = [d EXCEPT !.writer = FALSE, !.fence = TRUE, !.failed = TRUE]
      BY <2>1
    <3> HIDE DEF d
    <3>3. m' \in Manager
      BY <3>1, <3>2 DEF Manager
    <3>4. m'.entries = d.entries /\ m'.next = d.next /\ m'.file = d.file /\ m'.expected = d.expected
      BY <3>1, <3>2 DEF Manager
    <3> QED BY <3>1, <3>3, <3>4
  <2>4. Before("batch") \in SUBSET Actor /\ "draining" \in Pc
    BY DEF Before, Pc, TailPc
  <2>5. /\ Idle \in Operation /\ Idle.body = <<>> /\ Idle.expect = Absent /\ Idle.target = 1
        /\ Idle.seen = Missing
    BY BlankFields DEF Blank
  <2>6. Blank(rec) /\ rec.repair /\ rec.pc = "draining"
    BY <2>4, <2>5 DEF Blank, Operation
  <2> HIDE DEF rec
  <2>7. op'["batch"] = rec
    BY <1>0, <2>2
  <2>8. ASSUME NEW b \in Actor, b # "batch" PROVE Follows(op'[b], op[b])
    <3>1. op[b] \in Operation /\ Follows(Overtaken(op[b]), op[b])
      BY <1>0, OvertakenFields
    <3>2. Overtaken(op[b]) \in Operation
      BY <3>1 DEF Follows, SameData
    <3>3. Overtaken(op[b]).waits \ {"batch"} \in SUBSET Actor
      BY <3>2 DEF Operation
    <3>4. op'[b] = [Overtaken(op[b]) EXCEPT !.waits = Overtaken(op[b]).waits \ {"batch"}]
      BY <2>2, <2>8
    <3>5. Follows(op'[b], Overtaken(op[b]))
      BY <3>2, <3>3, <3>4, WaitsField
    <3> QED BY <3>1, <3>5 DEF Follows, SameData
  <2>9. \A b \in Actor : RepairOk(op'[b], b) /\ (SameData(op'[b], op[b]) \/ Blank(op'[b]))
    <3>1. RepairOk(op'["batch"], "batch") /\ Blank(op'["batch"])
      BY <2>6, <2>7 DEF RepairOk, RepairPc
    <3>2. \A b \in Actor \ {"batch"} : RepairOk(op'[b], b) /\ SameData(op'[b], op[b])
      BY <1>0, <2>8 DEF Follows, RepairOk
    <3> QED BY <3>1, <3>2
  <2>10. op' \in [Actor -> Operation]
    <3>1. \A b \in Actor : op'[b] \in Operation
      BY <2>9 DEF SameData, Blank
    <3>2. op' = [b \in Actor |-> op'[b]]
      BY <2>2
    <3> QED BY <3>1, <3>2
  <2> QED BY <2>3, <2>6, <2>7, <2>9, <2>10
<1> QED BY <1>1, <1>2

\* A repair starts from a later state of the manager.
LEMMA RepairsNoted ==
  ASSUME IInv, NEW x, Later(m, x, history.batches), x.file \in File, Repairs(x),
         UNCHANGED disk, WorldOk', history'.batches = history.batches
  PROVE  IInv'
<1>1. x \in Manager /\ ManagerOk(m, history.batches)
  BY InvFacts DEF Later, ManagerOk
<1>2. /\ op' \in [Actor -> Operation]
      /\ \A b \in Actor : RepairOk(op'[b], b) /\ (SameData(op'[b], op[b]) \/ Blank(op'[b]))
      /\ m' \in Manager /\ m'.entries = x.entries /\ m'.next = x.next /\ m'.file = x.file
      /\ m'.expected = x.expected
      /\ m'.staged # {} => op'["batch"].repair
  BY <1>1, RepairsFine
<1>3. \A b \in Actor : Fine(b)
  BY <1>2 DEF Fine
<1>4. Later(m, m', history.batches)
  BY <1>1, <1>2, TweakIsLater
<1>5. m'.file \in File /\ disk' \in [File -> Content] /\ \A f \in File : disk'[f] = disk[f]
  BY <1>2, InvFacts
<1> QED BY <1>2, <1>3, <1>4, <1>5, InvKept

\* A repair that rejects no batch.
LEMMA RepairsStep ==
  ASSUME IInv, NEW x, Later(m, x, history.batches), x.file \in File, Repairs(x),
         UNCHANGED <<disk, world, lease, history>>
  PROVE  IInv'
<1>1. WorldOk'
  BY DEF IInv, WorldOk
<1> QED BY <1>1, RepairsNoted

\* One that rejects the batch staged in x.
LEMMA RejectsStep ==
  ASSUME IInv, NEW x, Later(m, RolledBack(x), history.batches), RolledBack(x).file \in File,
         x.staged \subseteq Own, Rejects(x), UNCHANGED <<disk, world, lease>>
  PROVE  IInv'
<1>1. WorldOk
  BY InvFacts
<1>2. /\ Repairs(RolledBack(x))
      /\ history' = [history EXCEPT !.rejected = history.rejected \cup x.staged]
  BY DEF Rejects
<1>3. history'.batches = history.batches /\ WorldOk'
  BY <1>1, <1>2 DEF WorldOk
<1> QED BY <1>2, <1>3, RepairsNoted

\* A step that changes fields of the manager that matter to nothing here.
LEMMA TweakStep ==
  ASSUME IInv, UNCHANGED <<disk, world, lease, history>>,
         m' \in Manager, m'.entries = m.entries, m'.next = m.next, m'.file = m.file,
         m'.expected = m.expected, m'.staged \in {m.staged, {}},
         op' \in [Actor -> Operation], \A b \in Actor : Fine(b),
         op["batch"].repair => op'["batch"].repair \/ m'.staged = {}
  PROVE  IInv'
<1>1. ManagerOk(m, history.batches) /\ m.file \in File
      /\ (m.staged # {} => m.staged \in history.batches \/ op["batch"].repair)
  BY InvFacts
<1>2. Later(m, m', history.batches)
  BY <1>1, SameIsLater
<1> QED BY <1>1, <1>2, QuietStep

\* The invariant after Rewrite.
LEMMA RewriteStep == ASSUME IInv, Rewrite PROVE IInv'
<1> DEFINE rec == Scheduled("rewrite", FALSE)
<1>1. Blank(rec) /\ ~rec.repair /\ "rewrite" \in Actor /\ m \in Manager
  BY InvFacts, FreshFields
<1>2. op' = [op EXCEPT !["rewrite"] = rec] /\ rec \in Operation /\ RepairOk(rec, "rewrite")
  BY <1>1 DEF Rewrite, Blank, RepairOk
<1> HIDE DEF rec
<1>3. /\ op' \in [Actor -> Operation] /\ \A b \in Actor : Fine(b)
      /\ op'["batch"] = op["batch"]
  BY <1>1, <1>2, ReplacedFine
<1> QED BY <1>1, <1>3, TweakStep DEF Rewrite

\* A batch that is at rest is no repair.
LEMMA AtRest ==
  ASSUME IInv, op["batch"].pc \notin RepairPc
  PROVE  ~op["batch"].repair
BY InvFacts DEF RepairOk

\* The invariant after BatchBegins.
LEMMA BatchBeginsStep == ASSUME IInv, BatchBegins PROVE IInv'
<1> DEFINE rec == IF m.current /\ ~m.required THEN Flushing("batch") ELSE Scheduled("batch", TRUE)
<1>1. Blank(rec) /\ ~rec.repair /\ "batch" \in Actor /\ m \in Manager
  BY InvFacts, FreshFields
<1>2. op' = [op EXCEPT !["batch"] = rec] /\ rec \in Operation /\ RepairOk(rec, "batch")
  BY <1>1 DEF BatchBegins, Blank, RepairOk
<1> HIDE DEF rec
<1>3. op' \in [Actor -> Operation] /\ \A b \in Actor : Fine(b)
  BY <1>1, <1>2, ReplacedFine
<1>4. ~op["batch"].repair
  BY AtRest DEF BatchBegins, RestPc, RepairPc
<1> QED BY <1>1, <1>3, <1>4, TweakStep DEF BatchBegins

\* The invariant after RecoverPersistence.
LEMMA RecoverPersistenceStep == ASSUME IInv, RecoverPersistence PROVE IInv'
<1>1. Later(m, m, history.batches) /\ m.file \in File
  BY InvFacts
<1> QED BY <1>1, RepairsStep DEF RecoverPersistence, At, Here, Files

\* An operation at a point no repair comes to is none.
LEMMA NoRepair ==
  ASSUME IInv, NEW a \in Actor, op[a].pc \notin RepairPc
  PROVE  ~op[a].repair
BY InvFacts DEF RepairOk

\* The invariant after Starts.
LEMMA StartsStep == ASSUME IInv, NEW a \in Actor, Starts(a) PROVE IInv'
<1>1. m \in Manager /\ "batch" \in Actor
  BY InvFacts
<1>2. UNCHANGED <<disk, world, lease, history>> /\ ~op[a].repair
  BY NoRepair DEF Starts, Reached, At, Here, Files, RepairPc
<1>3. /\ m' \in Manager /\ m'.entries = m.entries /\ m'.next = m.next /\ m'.file = m.file
      /\ m'.expected = m.expected /\ m'.staged = m.staged
  <2> DEFINE y == [m EXCEPT !.fence = TRUE, !.dirty = FALSE, !.writer = FALSE]
  <2>1. m' = m \/ m' = y
    BY DEF Starts
  <2>2. y \in Manager /\ y.entries = m.entries /\ y.next = m.next /\ y.file = m.file
        /\ y.expected = m.expected /\ y.staged = m.staged
    BY <1>1 DEF Manager
  <2> HIDE DEF y
  <2> QED BY <1>1, <2>1, <2>2
<1>4. Leaves(a, Ended(a)) \/ Goes(a, "failing") \/ Goes(a, "closing")
  BY DEF Starts
<1>5. /\ op' \in [Actor -> Operation] /\ \A b \in Actor : Fine(b)
      /\ a = "batch" \/ op'["batch"].repair = op["batch"].repair
  <2>1. {"failing", "closing"} \subseteq Pc
    BY DEF Pc, HopPc
  <2> QED BY <1>2, <1>4, <2>1, EndedFields, LeavesFine, GoesFine
<1> QED BY <1>2, <1>3, <1>5, TweakStep

\* The invariant after Serializes.
LEMMA SerializesStep == ASSUME IInv, NEW a \in Actor, Serializes(a) PROVE IInv'
<1> DEFINE B == history.batches
           h == Housed(m)
<1>1. /\ ManagerOk(m, B) /\ (m.staged # {} => m.staged \in B \/ op["batch"].repair)
      /\ op \in [Actor -> Operation] /\ op[a] \in Operation
  BY InvFacts
<1>2. UNCHANGED <<disk, world, lease, history>> /\ ~op[a].repair
  BY NoRepair DEF Serializes, At, Here, Files, RepairPc
<1>3. Later(m, h, B) /\ h.staged = m.staged
  BY <1>1, HousedIsLater
<1> HIDE DEF h
<1>4. CASE op[a].stale
  <2>1. m' = h /\ m'.file \in File /\ Leaves(a, Ended(a))
    BY <1>4 DEF Serializes, h
  <2>2. /\ op' \in [Actor -> Operation] /\ \A b \in Actor : Fine(b)
        /\ a = "batch" \/ op'["batch"].repair = op["batch"].repair
    BY <2>1, EndedFields, LeavesFine
  <2> QED BY <1>1, <1>2, <1>3, <2>1, <2>2, QuietStep
<1>5. CASE ~op[a].stale
  <2>1. op[a].tries \in Nat /\ Stages(a, h, op[a].tries)
    BY <1>1, <1>5 DEF Serializes, h, Operation
  <2>2. /\ m' = h /\ h.file \in File
        /\ op' \in [Actor -> Operation] /\ \A b \in Actor : Fine(b)
        /\ op'["batch"].repair = op["batch"].repair
    BY <1>3, <2>1, StagesFine
  <2> QED BY <1>1, <1>2, <1>3, <2>2, QuietStep
<1> QED BY <1>4, <1>5

\* A staged body that lands is whole.
LEMMA StagedFile ==
  ASSUME IInv, NEW a \in Actor
  PROVE  /\ Journal(op[a].target, op[a].body) \in Content
         /\ FileOk(Journal(op[a].target, op[a].body), op[a].target, m, history.batches)
<1> DEFINE o == op[a]
           c == Journal(o.target, o.body)
<1>1. OperationOk(o, m, history.batches) /\ o \in Operation /\ m.file \in File
  BY DEF IInv, OperationOk
<1>2. o.target \in File /\ o.body \in Seq(Line) /\ o.target <= m.file
  BY <1>1 DEF Operation, OperationOk
<1>3. c.lines = o.body /\ c \in Content
  <2>1. o.target \in 0..Stranger
    BY <1>2, JournalAssumption DEF File, Stranger
  <2> QED BY <1>2, <2>1 DEF Journal, Content
<1>4. ~(o.target > m.file)
  BY <1>1, <1>2, Basics DEF File
<1> QED BY <1>1, <1>3, <1>4 DEF FileOk, OperationOk

\* The invariant after Publishes.
LEMMA PublishesStep == ASSUME IInv, NEW a \in Actor, Publishes(a) PROVE IInv'
<1> DEFINE B == history.batches
           o == op[a]
<1>1. /\ Later(m, m, B) /\ m.file \in File /\ WorldOk /\ o \in Operation
      /\ disk \in [File -> Content]
      /\ (m.staged # {} => m.staged \in B \/ op["batch"].repair)
  BY InvFacts
<1>2. UNCHANGED <<m, lease, history>>
  BY DEF Publishes, At, Here
<1>3. Goes(a, "published") \/ Goes(a, "conflict") \/ Goes(a, "checking")
  BY DEF Publishes
<1>4. /\ op' \in [Actor -> Operation] /\ \A b \in Actor : Fine(b)
      /\ op'["batch"].repair = op["batch"].repair
  <2>1. {"published", "conflict", "checking"} \subseteq Pc \cap RepairPc
    BY DEF Pc, HopPc, IOPc, RepairPc
  <2> QED BY <1>3, <2>1, GoesFine
<1>5. \/ UNCHANGED <<disk, world>>
      \/ UNCHANGED disk /\ Trouble(world, 1)
      \/ /\ disk' = [disk EXCEPT ![o.target] = Journal(o.target, o.body)]
         /\ \/ world' = [world EXCEPT !.tampered = @ \ {o.target}]
            \/ Trouble([world EXCEPT !.tampered = @ \ {o.target}], 1)
  BY DEF Publishes, Published, Files, Fault
<1>6. WorldOk'
  <2>1. lease' = lease /\ history' = history
    BY <1>2
  <2>2. world' \in [troubles : 0..MaxTrouble, aliens : 0..MaxAlien, tampered : SUBSET File]
    <3> DEFINE v == [world EXCEPT !.tampered = @ \ {o.target}]
    <3>1. \A w \in {world, v} :
            w \in [troubles : 0..MaxTrouble, aliens : 0..MaxAlien, tampered : SUBSET File]
      BY <1>1 DEF WorldOk
    <3>2. world' \in {world, v} \/ Trouble(world, 1) \/ Trouble(v, 1)
      BY <1>5
    <3> HIDE DEF v
    <3> QED BY <3>1, <3>2, JournalAssumption DEF Trouble
  <2> QED BY <1>1, <2>1, <2>2 DEF WorldOk
<1>7. /\ disk' \in [File -> Content]
      /\ \A f \in File : disk'[f] = disk[f] \/ FileOk(disk'[f], f, m', B)
  <2>1. /\ Journal(o.target, o.body) \in Content
        /\ FileOk(Journal(o.target, o.body), o.target, m', B)
    BY <1>2, StagedFile
  <2>2. o.target \in File
    BY <1>1 DEF Operation
  <2> QED BY <1>1, <1>5, <2>1, <2>2
<1> QED BY <1>1, <1>2, <1>4, <1>6, <1>7, InvKept

\* The size of what was staged is put into the manager.
LEMMA MatchIsLater ==
  ASSUME IInv, NEW a \in Actor, NEW x \in Manager, NEW y,
         y \in {x, [x EXCEPT !.expected = SizeOf(op[a].body)]},
         x.entries = m.entries, x.next = m.next, x.file = m.file, x.staged = m.staged,
         x.expected = m.expected
  PROVE  Later(m, y, history.batches) /\ y \in Manager /\ y.file = m.file /\ y.staged = m.staged
         /\ y.entries = m.entries /\ y.next = m.next
<1> DEFINE o == op[a]
           z == [x EXCEPT !.expected = SizeOf(op[a].body)]
<1>1. /\ ManagerOk(m, history.batches) /\ OperationOk(o, m, history.batches) /\ o \in Operation
      /\ Later(m, m, history.batches)
  BY InvFacts DEF IInv
<1>2. SizeOf(o.body) \in Sizes
  <2>1. Journal(o.target, o.body) \in Content /\ Journal(o.target, o.body).lines = o.body
    BY StagedFile DEF Journal
  <2> QED BY <2>1, SizeFacts
<1>3. /\ z \in Manager /\ z.entries = m.entries /\ z.next = m.next /\ z.file = m.file
      /\ z.staged = m.staged /\ z.expected = SizeOf(o.body)
  BY <1>2 DEF Manager
<1> HIDE DEF z, o
<1>4. Later(m, z, history.batches)
  BY <1>1, <1>3, LandsBack
<1>5. Later(m, x, history.batches)
  BY <1>1, SameIsLater
<1>6. y = x \/ y = z
  BY DEF z
<1> QED BY <1>3, <1>4, <1>5, <1>6

\* A body found on disk gives the manager its size.
LEMMA MatchedIsLater ==
  ASSUME IInv, NEW a \in Actor
  PROVE  /\ Later(m, Matched(a), history.batches) /\ Matched(a) \in Manager
         /\ Matched(a).file = m.file /\ Matched(a).staged = m.staged
<1>1. m \in Manager
  BY InvFacts
<1>2. Matched(a) \in {m, [m EXCEPT !.expected = SizeOf(op[a].body)]}
  BY DEF Matched
<1> QED BY <1>1, <1>2, MatchIsLater

\* Another pass of a's rewrite holds nothing yet.
LEMMA AgainFine ==
  ASSUME IInv, NEW a \in Actor, NEW tries \in Nat, Again(a, tries), ~op[a].repair
  PROVE  /\ op' \in [Actor -> Operation] /\ \A b \in Actor : Fine(b)
         /\ op'["batch"].repair = op["batch"].repair
<1> DEFINE rec == [Idle EXCEPT !.pc = "closing", !.ensure = op[a].ensure,
                               !.stale = op[a].stale, !.tries = tries]
<1>1. op[a] \in Operation /\ op[a].ensure \in BOOLEAN /\ op[a].stale \in BOOLEAN
  BY InvFacts DEF Operation
<1>2. /\ Idle \in Operation /\ Idle.body = <<>> /\ Idle.expect = Absent /\ Idle.target = 1
      /\ Idle.seen = Missing /\ ~Idle.repair
  BY BlankFields DEF Blank
<1>3. "closing" \in Pc
  BY DEF Pc, HopPc
<1> HIDE DEF Idle, Pc
<1>4. rec \in Operation
  BY <1>1, <1>2, <1>3 DEF Operation
<1>5. rec.body = <<>> /\ rec.expect = Absent /\ rec.target = 1 /\ rec.seen = Missing /\ ~rec.repair
  BY <1>2 DEF Operation
<1>6. op' = [op EXCEPT ![a] = rec]
  BY DEF Again
<1> HIDE DEF rec
<1>7. /\ op' \in [Actor -> Operation] /\ \A b \in Actor : Fine(b)
      /\ op'[a] = rec /\ (a = "batch" \/ op'["batch"] = op["batch"])
  BY <1>4, <1>5, <1>6, ReplacedFine DEF Blank, RepairOk
<1>8. rec.repair = FALSE /\ op[a].repair = FALSE
  BY <1>1, <1>4, <1>5 DEF Operation
<1> QED BY <1>5, <1>7, <1>8

\* The invariant after Settles.
LEMMA SettlesStep == ASSUME IInv, NEW a \in Actor, Settles(a) PROVE IInv'
<1> DEFINE B == history.batches
           x == [m EXCEPT !.expected = SizeOf(op[a].body)]
<1>1. /\ m \in Manager /\ ManagerOk(m, B) /\ m.file \in File /\ op[a] \in Operation
      /\ (m.staged # {} => m.staged \in B \/ op["batch"].repair)
  BY InvFacts
<1>2. UNCHANGED <<disk, world, lease, history>> /\ ~op[a].repair
  BY DEF Settles, At, Here, Files
<1>3. /\ Later(m, x, B) /\ x \in Manager /\ x.file = m.file /\ x.staged = m.staged
  BY <1>1, MatchIsLater
<1> HIDE DEF x
<1>4. CASE op[a].stale
  <2>1. m' = m /\ Goes(a, "verifying") /\ "verifying" \in Pc
    BY <1>4 DEF Settles, Pc, IOPc
  <2> QED BY <1>1, <1>2, <2>1, GoesFine, TweakStep
<1>5. CASE ~op[a].stale /\ m.dirty
  <2>1. Again(a, op[a].tries) /\ m' = [x EXCEPT !.dirty = FALSE, !.writer = FALSE]
    BY <1>5 DEF Settles, x
  <2>2. /\ m' \in Manager /\ m'.entries = x.entries /\ m'.next = x.next /\ m'.file = x.file
        /\ m'.expected = x.expected /\ m'.staged = x.staged
    BY <1>3, <2>1 DEF Manager
  <2>3. Later(m, m', B)
    BY <1>1, <1>3, <2>2, TweakIsLater
  <2>4. op[a].tries \in Nat
    BY <1>1 DEF Operation
  <2> QED BY <1>1, <1>2, <1>3, <2>1, <2>2, <2>3, <2>4, AgainFine, QuietStep
<1>6. CASE ~op[a].stale /\ ~m.dirty
  <2>1. Goes(a, "marking") /\ "marking" \in Pc /\ m' = [x EXCEPT !.fence = FALSE]
    BY <1>6 DEF Settles, x, Pc, HopPc
  <2>2. /\ m' \in Manager /\ m'.entries = x.entries /\ m'.next = x.next /\ m'.file = x.file
        /\ m'.expected = x.expected /\ m'.staged = x.staged
    BY <1>3, <2>1 DEF Manager
  <2>3. Later(m, m', B)
    BY <1>1, <1>3, <2>2, TweakIsLater
  <2>4. /\ op' \in [Actor -> Operation] /\ \A b \in Actor : Fine(b)
        /\ op'["batch"].repair = op["batch"].repair
    BY <1>2, <2>1, GoesFine
  <2> QED BY <1>1, <1>2, <1>3, <2>2, <2>3, <2>4, QuietStep
<1> QED BY <1>4, <1>5, <1>6

\* The invariant after Marks.
LEMMA MarksStep == ASSUME IInv, NEW a \in Actor, Marks(a) PROVE IInv'
<1> DEFINE left == history.deferred \ ToSet(op[a].body)
<1>1. /\ m \in Manager /\ ManagerOk(m, history.batches) /\ m.file \in File /\ WorldOk
      /\ disk \in [File -> Content]
      /\ (m.staged # {} => m.staged \in history.batches \/ op["batch"].repair)
  BY InvFacts
<1>2. /\ UNCHANGED <<disk, world, lease>> /\ ~op[a].repair /\ Leaves(a, Ended(a))
      /\ m' = [m EXCEPT !.current = TRUE, !.required = FALSE]
      /\ history' = [history EXCEPT !.unmarked = history.unmarked \cup left]
  BY NoRepair DEF Marks, Here, Files, RepairPc
<1>3. left \subseteq Own
  BY <1>1 DEF WorldOk
<1> HIDE DEF left
<1>4. history'.batches = history.batches /\ WorldOk'
  BY <1>1, <1>2, <1>3 DEF WorldOk
<1>5. /\ m' \in Manager /\ m'.entries = m.entries /\ m'.next = m.next /\ m'.file = m.file
      /\ m'.expected = m.expected /\ m'.staged = m.staged
  BY <1>1, <1>2 DEF Manager
<1>6. Later(m, m', history.batches)
  BY <1>1, <1>5, SameIsLater
<1>7. /\ op' \in [Actor -> Operation] /\ \A b \in Actor : Fine(b)
      /\ a = "batch" \/ op'["batch"].repair = op["batch"].repair
  BY <1>2, EndedFields, LeavesFine
<1>8. disk' \in [File -> Content] /\ \A f \in File : disk'[f] = disk[f]
  BY <1>1, <1>2
<1> QED BY <1>1, <1>2, <1>4, <1>5, <1>6, <1>7, <1>8, InvKept

\* The invariant after ReadsBack.
LEMMA ReadsBackStep == ASSUME IInv, NEW a \in Actor, ReadsBack(a) PROVE IInv'
<1> DEFINE B == history.batches
           o == op[a]
           pc == AfterRead[o.pc]
           rec == [o EXCEPT !.seen = disk[o.target], !.pc = pc]
<1>1. /\ m \in Manager /\ op \in [Actor -> Operation] /\ o \in Operation /\ RepairOk(o, a)
      /\ OperationOk(o, m, B) /\ "batch" \in Actor
      /\ \A f \in File : disk[f] \in Content /\ Sane(ToSet(disk[f].lines), m.next, B)
  BY InvFacts DEF IInv
<1>2. o.target \in File
  BY <1>1 DEF Operation
<1>3. UNCHANGED <<m, disk, world, lease, history>>
  BY DEF ReadsBack
<1>4. op' = [op EXCEPT ![a] = rec] /\ o.pc \in DOMAIN AfterRead
  BY DEF ReadsBack
<1>5. pc \in Pc /\ (pc \in RepairPc \/ o.pc = "verifying")
  BY <1>4 DEF AfterRead, Pc, HopPc, RepairPc
<1> HIDE DEF pc, o
<1>6. /\ rec \in Operation /\ rec.repair = o.repair /\ rec.pc = pc /\ rec.body = o.body
      /\ rec.expect = o.expect /\ rec.target = o.target /\ rec.seen = disk[o.target]
  <2>1. disk[o.target] \in Content
    BY <1>1, <1>2
  <2>2. rec \in Operation
    BY <1>1, <1>5, <2>1 DEF Operation
  <2>3. rec.repair = o.repair /\ rec.pc = pc /\ rec.body = o.body
    BY <1>1 DEF Operation
  <2>4. rec.expect = o.expect /\ rec.target = o.target /\ rec.seen = disk[o.target]
    BY <1>1 DEF Operation
  <2> QED BY <2>2, <2>3, <2>4
<1> HIDE DEF rec
<1>7. OperationOk(rec, m', B)
  BY <1>1, <1>2, <1>3, <1>6 DEF OperationOk
<1>8. RepairOk(rec, a)
  BY <1>1, <1>5, <1>6 DEF RepairOk, RepairPc
<1>9. /\ op' \in [Actor -> Operation] /\ \A b \in Actor : Fine(b)
      /\ op'[a] = rec /\ (a = "batch" \/ op'["batch"] = op["batch"])
  BY <1>4, <1>6, <1>7, <1>8, ReplacedFine
<1> QED BY <1>1, <1>3, <1>6, <1>9, TweakStep DEF o

\* The invariant after Verified.
LEMMA VerifiedStep == ASSUME IInv, NEW a \in Actor, Verified(a) PROVE IInv'
<1>1. m.file \in File /\ (m.staged # {} => m.staged \in history.batches \/ op["batch"].repair)
  BY InvFacts
<1>2. UNCHANGED <<disk, world, lease, history>> /\ ~op[a].repair
  BY NoRepair DEF Verified, At, Here, Files, RepairPc
<1>3. m' = Matched(a) /\ Leaves(a, Ended(a))
  BY DEF Verified
<1>4. /\ op' \in [Actor -> Operation] /\ \A b \in Actor : Fine(b)
      /\ a = "batch" \/ op'["batch"].repair = op["batch"].repair
  BY <1>3, EndedFields, LeavesFine
<1> QED BY <1>1, <1>2, <1>3, <1>4, MatchedIsLater, QuietStep

\* The fence touches no data.
LEMMA UnfencedFields ==
  ASSUME NEW a \in Actor, NEW x \in Manager
  PROVE  /\ Unfenced(a, x) \in Manager
         /\ Unfenced(a, x).entries = x.entries /\ Unfenced(a, x).next = x.next
         /\ Unfenced(a, x).file = x.file /\ Unfenced(a, x).expected = x.expected
         /\ Unfenced(a, x).staged = x.staged
BY DEF Unfenced, Manager

\* An operation ends with the failure latched.
LEMMA IndeterminateStep ==
  ASSUME IInv, NEW a \in Actor, NEW x, Later(m, x, history.batches), x.file = m.file,
         Indeterminate(a, x), UNCHANGED <<disk, world, lease, history>>
  PROVE  IInv'
<1> DEFINE y == IF x.batch THEN Diverged(x) ELSE x
           z == Unfenced(a, y)
<1>1. x \in Manager /\ ManagerOk(m, history.batches) /\ m.file \in File
  BY InvFacts DEF Later, ManagerOk
<1>2. /\ y \in Manager /\ y.entries = x.entries /\ y.next = x.next /\ y.file = x.file
      /\ y.expected = x.expected
  BY <1>1, DivergedFields
<1> HIDE DEF y
<1>3. /\ z \in Manager /\ z.entries = x.entries /\ z.next = x.next /\ z.file = x.file
      /\ z.expected = x.expected
  BY <1>2, UnfencedFields
<1>4. m' = [z EXCEPT !.failed = TRUE, !.batch = FALSE, !.staged = {}] /\ Leaves(a, Rejected)
  BY DEF Indeterminate, y
<1> HIDE DEF z
<1>5. /\ m' \in Manager /\ m'.entries = z.entries /\ m'.next = z.next /\ m'.file = z.file
      /\ m'.expected = z.expected /\ m'.staged = {}
  BY <1>3, <1>4 DEF Manager
<1>6. Later(m, m', history.batches)
  BY <1>1, <1>3, <1>5, TweakIsLater
<1>7. op' \in [Actor -> Operation] /\ \A b \in Actor : Fine(b)
  BY <1>4, BlankFields, LeavesFine
<1> QED BY <1>1, <1>3, <1>5, <1>6, <1>7, QuietStep

\* The invariant after Checked.
LEMMA CheckedStep == ASSUME IInv, NEW a \in Actor, Checked(a) PROVE IInv'
<1> DEFINE B == history.batches
           x == Matched(a)
<1>1. /\ m.file \in File /\ ManagerOk(m, B) /\ Later(m, m, B)
      /\ (m.staged # {} => m.staged \in B \/ op["batch"].repair)
  BY InvFacts
<1>2. UNCHANGED <<disk, world, lease, history>>
  BY DEF Checked, At, Here, Files
<1>3. Later(m, x, B) /\ x \in Manager /\ x.file = m.file /\ x.staged = m.staged
  BY MatchedIsLater
<1> HIDE DEF x
<1>4. {"failing", "published"} \subseteq Pc /\ "published" \in RepairPc
  BY DEF Pc, HopPc, RepairPc
<1>5. CASE ~op[a].repair
  <2>1. m' = Unfenced(a, x) /\ Goes(a, "failing")
    BY <1>5 DEF Checked, x
  <2>2. /\ m' \in Manager /\ m'.entries = x.entries /\ m'.next = x.next /\ m'.file = x.file
        /\ m'.expected = x.expected /\ m'.staged = x.staged
    BY <1>3, <2>1, UnfencedFields
  <2>3. Later(m, m', B)
    BY <1>1, <1>3, <2>2, TweakIsLater
  <2> QED BY <1>1, <1>2, <1>3, <1>4, <1>5, <2>1, <2>2, <2>3, GoesFine, QuietStep
<1>6. CASE op[a].repair /\ Landing(a)
  <2>1. m' = x /\ Goes(a, "published")
    BY <1>6 DEF Checked, x
  <2> QED BY <1>1, <1>2, <1>3, <1>4, <2>1, GoesFine, QuietStep
<1>7. CASE op[a].repair /\ ~Landing(a)
  <2>1. Indeterminate(a, m)
    BY <1>7 DEF Checked
  <2> QED BY <1>1, <1>2, <2>1, IndeterminateStep
<1> QED BY <1>5, <1>6, <1>7

\* The next pass starts from a later state of the manager.
LEMMA RetriesStep ==
  ASSUME IInv, NEW a \in Actor, NEW x, Later(m, x, history.batches), x.staged = m.staged,
         Retries(a, x), Unmarks(a), UNCHANGED <<disk, world, lease>>
  PROVE  IInv'
<1> DEFINE B == history.batches
           h == Housed(x)
<1>1. /\ ManagerOk(m, B) /\ ManagerOk(x, B) /\ x \in Manager /\ WorldOk
      /\ op[a] \in Operation /\ disk \in [File -> Content]
      /\ (m.staged # {} => m.staged \in B \/ op["batch"].repair)
  BY InvFacts DEF Later, ManagerOk
<1>2. WorldOk' /\ history'.batches = B
  BY <1>1 DEF WorldOk, Unmarks
<1>3. op[a].tries \in Nat /\ op[a].tries + 1 \in Nat
  BY <1>1 DEF Operation
<1>4. CASE op[a].repair
  <2>1. Stages(a, h, op[a].tries + 1)
    BY <1>4 DEF Retries
  <2>2. Later(x, h, B) /\ h.staged = m.staged
    BY <1>1, HousedIsLater
  <2>3. Later(m, h, B)
    BY <1>1, <2>2, LaterTransitive
  <2> HIDE DEF h
  <2>4. /\ m' = h /\ h.file \in File
        /\ op' \in [Actor -> Operation] /\ \A b \in Actor : Fine(b)
        /\ op'["batch"].repair = op["batch"].repair
    BY <1>3, <2>1, <2>3, StagesFine
  <2> QED BY <1>1, <1>2, <2>2, <2>3, <2>4, InvKept
<1>5. CASE ~op[a].repair
  <2>1. /\ x.file \in File /\ m' = [x EXCEPT !.dirty = FALSE, !.writer = FALSE]
        /\ Again(a, op[a].tries + 1)
    BY <1>5 DEF Retries
  <2>2. /\ m' \in Manager /\ m'.entries = x.entries /\ m'.next = x.next /\ m'.file = x.file
        /\ m'.expected = x.expected /\ m'.staged = x.staged
    BY <1>1, <2>1 DEF Manager
  <2>3. Later(m, m', B)
    BY <1>1, <2>2, TweakIsLater
  <2>4. /\ op' \in [Actor -> Operation] /\ \A b \in Actor : Fine(b)
        /\ op'["batch"].repair = op["batch"].repair
    BY <1>3, <1>5, <2>1, AgainFine
  <2> QED BY <1>1, <1>2, <2>1, <2>2, <2>3, <2>4, InvKept
<1> QED BY <1>4, <1>5

\* The invariant after Conflicts.
LEMMA ConflictsStep == ASSUME IInv, NEW a \in Actor, Conflicts(a) PROVE IInv'
<1> DEFINE B == history.batches
           o == op[a]
<1>1. /\ m \in Manager /\ ManagerOk(m, B) /\ op \in [Actor -> Operation] /\ o \in Operation
      /\ RepairOk(o, a) /\ OperationOk(o, m, B) /\ "batch" \in Actor
  BY InvFacts DEF IInv
<1>2. UNCHANGED <<disk, world, lease>>
  BY DEF Conflicts, Here, Files
<1>3. ASSUME Goes(a, "checking"), UNCHANGED <<m, history>> PROVE IInv'
  <2>1. "checking" \in Pc \cap RepairPc
    BY DEF Pc, IOPc, RepairPc
  <2> QED BY <1>1, <1>2, <1>3, <2>1, GoesFine, TweakStep
<1>4. ASSUME Retries(a, MovedOff(m)), Unmarks(a) PROVE IInv'
  <2>1. Later(m, MovedOff(m), B) /\ MovedOff(m).staged = m.staged
    BY <1>1, MovedIsLater, MovedFields
  <2> QED BY <1>2, <1>4, <2>1, RetriesStep
<1>5. ASSUME op' = [op EXCEPT ![a] = [@ EXCEPT !.pc = "reading", !.superseded = FALSE]],
             UNCHANGED <<m, history>>
      PROVE  IInv'
  <2> DEFINE rec == [o EXCEPT !.pc = "reading", !.superseded = FALSE]
  <2>1. "reading" \in Pc /\ "reading" \in RepairPc
    BY DEF Pc, IOPc, RepairPc
  <2>2. op' = [op EXCEPT ![a] = rec]
    BY <1>5
  <2> HIDE DEF o
  <2>3. rec \in Operation
    BY <1>1, <2>1 DEF Operation
  <2>4. rec.repair = o.repair /\ rec.pc = "reading" /\ rec.body = o.body
    BY <1>1 DEF Operation
  <2>5. rec.expect = o.expect /\ rec.target = o.target /\ rec.seen = o.seen
    BY <1>1 DEF Operation
  <2> HIDE DEF rec
  <2>6. OperationOk(rec, m', B)
    BY <1>1, <1>5, <2>3, <2>4, <2>5 DEF OperationOk
  <2>7. RepairOk(rec, a)
    BY <1>1, <2>1, <2>4 DEF RepairOk
  <2>8. /\ op' \in [Actor -> Operation] /\ \A b \in Actor : Fine(b)
        /\ op'[a] = rec /\ (a = "batch" \/ op'["batch"] = op["batch"])
    BY <1>5, <2>2, <2>3, <2>6, <2>7, ReplacedFine
  <2> QED BY <1>1, <1>2, <1>5, <2>4, <2>8, TweakStep DEF o
<1> QED BY <1>3, <1>4, <1>5 DEF Conflicts

\* The invariant after Resolves.
LEMMA ResolvesStep == ASSUME IInv, NEW a \in Actor, Resolves(a) PROVE IInv'
<1> DEFINE B == history.batches
           x == IF op[a].superseded \/ op[a].target # m.file THEN m ELSE Recovered(m, op[a].seen)
<1>1. /\ ManagerOk(m, B) /\ Later(m, m, B) /\ op[a] \in Operation /\ OperationOk(op[a], m, B)
  BY InvFacts DEF IInv
<1>2. op[a].seen \in Content /\ Sane(ToSet(op[a].seen.lines), m.next, B)
  BY <1>1 DEF Operation, OperationOk
<1>3. Later(m, x, B) /\ x.staged = m.staged
  BY <1>1, <1>2, RecoveredIsLater
<1>4. Retries(a, x) /\ Unmarks(a) /\ UNCHANGED <<disk, world, lease>>
  BY DEF Resolves, Here, Files
<1> QED BY <1>3, <1>4, RetriesStep

\* The invariant after Fails.
LEMMA FailsStep == ASSUME IInv, NEW a \in Actor, Fails(a) PROVE IInv'
<1> DEFINE B == history.batches
           x == [m EXCEPT !.failed = TRUE]
<1>1. /\ m \in Manager /\ ManagerOk(m, B) /\ BatchesOk(m.next, B) /\ m.file \in File
      /\ (m.staged # {} => m.staged \in B \/ op["batch"].repair)
  BY InvFacts
<1>2. UNCHANGED <<disk, world, lease>> /\ ~op[a].repair
  BY NoRepair DEF Fails, Here, Files, RepairPc
<1>3. /\ x \in Manager /\ x.entries = m.entries /\ x.next = m.next /\ x.file = m.file
      /\ x.expected = m.expected /\ x.staged = m.staged
  BY <1>1 DEF Manager
<1>4. \/ a = "rewrite" /\ m' = x /\ Leaves(a, Idle) /\ UNCHANGED history
      \/ a # "rewrite" /\ ((Repairs(x) /\ UNCHANGED history) \/ Rejects(x))
  BY DEF Fails
<1> HIDE DEF x
<1>5. Later(m, x, B)
  BY <1>1, <1>3, SameIsLater
<1>6. CASE a = "rewrite" /\ m' = x /\ Leaves(a, Idle) /\ UNCHANGED history
  <2>1. /\ op' \in [Actor -> Operation] /\ \A b \in Actor : Fine(b)
        /\ a = "batch" \/ op'["batch"].repair = op["batch"].repair
    BY <1>6, BlankFields, LeavesFine
  <2> QED BY <1>1, <1>2, <1>3, <1>5, <1>6, <2>1, QuietStep
<1>7. CASE Repairs(x) /\ UNCHANGED history
  BY <1>1, <1>2, <1>3, <1>5, <1>7, RepairsStep
<1>8. CASE a # "rewrite" /\ Rejects(x)
  <2>1. a = "batch"
    BY <1>8 DEF Actor
  <2>2. x.staged \in B \cup {{}} /\ ManagerOk(x, B)
    BY <1>1, <1>2, <1>3, <1>5, <2>1 DEF Later
  <2>3. Later(x, RolledBack(x), B) /\ RolledBack(x).file = x.file
    BY <1>1, <1>3, <2>2, RolledBackIsLater DEF RolledBack, Manager
  <2>4. Later(m, RolledBack(x), B)
    BY <1>1, <1>5, <2>3, LaterTransitive
  <2>5. x.staged \subseteq Own
    BY <1>3 DEF Manager
  <2> QED BY <1>1, <1>2, <1>3, <1>8, <2>3, <2>4, <2>5, RejectsStep
<1> QED BY <1>4, <1>6, <1>7, <1>8

\* The invariant after Flushed.
LEMMA FlushedStep == ASSUME IInv, Flushed PROVE IInv'
<1>1. /\ m \in Manager /\ Later(m, m, history.batches) /\ m.file \in File /\ "batch" \in Actor
  BY InvFacts
<1>2. UNCHANGED <<disk, world, lease, history>> /\ ~op["batch"].repair
  BY <1>1, NoRepair DEF Flushed, Reached, At, Here, Files, RepairPc
<1>3. CASE m.failed
  BY <1>1, <1>2, <1>3, RepairsStep DEF Flushed
<1>4. CASE ~m.failed
  <2> DEFINE rec == [Idle EXCEPT !.pc = "collecting"]
  <2>1. m' = m /\ Leaves("batch", rec)
    BY <1>4 DEF Flushed
  <2>2. Blank(rec) /\ ~rec.repair
    BY <1>1, FreshFields
  <2> HIDE DEF rec
  <2>3. op' \in [Actor -> Operation] /\ \A b \in Actor : Fine(b)
    BY <1>1, <2>1, <2>2, LeavesFine
  <2> QED BY <1>1, <1>2, <2>1, <2>3, TweakStep
<1> QED BY <1>3, <1>4

\* The invariant after Decides.
LEMMA DecidesStep == ASSUME IInv, Decides PROVE IInv'
<1> DEFINE B == history.batches
<1>1. /\ m \in Manager /\ ManagerOk(m, B) /\ BatchesOk(m.next, B) /\ m.file \in File
      /\ (m.staged # {} => m.staged \in B \/ op["batch"].repair) /\ "batch" \in Actor
  BY InvFacts
<1>2. UNCHANGED <<disk, world, lease>> /\ ~op["batch"].repair
  BY <1>1, NoRepair DEF Decides, Here, Files, RepairPc
<1>3. ASSUME m' = [m EXCEPT !.batch = FALSE, !.staged = {}], op' = [op EXCEPT !["batch"] = Idle],
             UNCHANGED history
      PROVE  IInv'
  <2>1. /\ m' \in Manager /\ m'.entries = m.entries /\ m'.next = m.next /\ m'.file = m.file
        /\ m'.expected = m.expected /\ m'.staged = {}
    BY <1>1, <1>3 DEF Manager
  <2>2. Blank(Idle) /\ Idle \in Operation /\ RepairOk(Idle, "batch")
    BY BlankFields DEF Blank, RepairOk
  <2>3. op' \in [Actor -> Operation] /\ \A b \in Actor : Fine(b)
    BY <1>1, <1>3, <2>2, ReplacedFine
  <2> QED BY <1>2, <1>3, <2>1, <2>3, TweakStep
<1>4. ASSUME Rejects(m) PROVE IInv'
  <2>1. Later(m, RolledBack(m), B) /\ RolledBack(m).file = m.file
    BY <1>1, <1>2, RolledBackIsLater DEF RolledBack, Manager
  <2>2. m.staged \subseteq Own
    BY <1>1 DEF Manager
  <2> QED BY <1>1, <1>2, <1>4, <2>1, <2>2, RejectsStep
<1> QED BY <1>3, <1>4 DEF Decides

\* What the repair stages has all the manager knows.
LEMMA RestagesStep ==
  ASSUME IInv, NEW x, x \in Manager, Later(m, x, history.batches), x.staged = m.staged,
         Stages("batch", Housed([x EXCEPT !.dirty = FALSE]), 0),
         UNCHANGED <<disk, world, lease, history>>
  PROVE  IInv'
<1> DEFINE B == history.batches
           y == [x EXCEPT !.dirty = FALSE]
           h == Housed(y)
<1>1. /\ ManagerOk(m, B) /\ "batch" \in Actor
      /\ (m.staged # {} => m.staged \in B \/ op["batch"].repair)
  BY InvFacts
<1>2. /\ y \in Manager /\ y.entries = x.entries /\ y.next = x.next /\ y.file = x.file
      /\ y.expected = x.expected /\ y.staged = x.staged
  BY DEF Manager
<1>3. Stages("batch", h, 0)
  OBVIOUS
<1> HIDE DEF y
<1>4. Later(m, y, B) /\ ManagerOk(y, B)
  BY <1>1, <1>2, TweakIsLater DEF Later
<1>5. Later(y, h, B) /\ h.staged = m.staged
  BY <1>2, <1>4, HousedIsLater
<1>6. Later(m, h, B)
  BY <1>1, <1>4, <1>5, LaterTransitive
<1> HIDE DEF h
<1>7. /\ m' = h /\ h.file \in File
      /\ op' \in [Actor -> Operation] /\ \A b \in Actor : Fine(b)
      /\ op'["batch"].repair = op["batch"].repair
  BY <1>1, <1>3, <1>6, StagesFine
<1> QED BY <1>1, <1>5, <1>6, <1>7, QuietStep

\* The invariant after Drained.
LEMMA DrainedStep == ASSUME IInv, Drained PROVE IInv'
<1>1. m \in Manager /\ Later(m, m, history.batches)
  BY InvFacts
<1> QED BY <1>1, RestagesStep DEF Drained, Reached, At, Here, Files

\* The invariant after RepairPublished.
LEMMA RepairPublishedStep == ASSUME IInv, RepairPublished PROVE IInv'
<1> DEFINE B == history.batches
           x == [m EXCEPT !.expected = SizeOf(op["batch"].body)]
<1>1. /\ m \in Manager /\ ManagerOk(m, B) /\ m.file \in File /\ "batch" \in Actor
      /\ (m.staged # {} => m.staged \in B \/ op["batch"].repair)
  BY InvFacts
<1>2. UNCHANGED <<disk, world, lease, history>>
  BY DEF RepairPublished, At, Here, Files
<1>3. /\ Later(m, x, B) /\ x \in Manager /\ x.file = m.file /\ x.staged = m.staged
  BY <1>1, MatchIsLater
<1>4. \/ Indeterminate("batch", x)
      \/ Stages("batch", Housed([x EXCEPT !.dirty = FALSE]), 0)
      \/ /\ m' = [x EXCEPT !.current = TRUE, !.required = FALSE, !.failed = FALSE, !.fence = FALSE]
         /\ Goes("batch", "repaired")
  BY DEF RepairPublished
<1> HIDE DEF x
<1>5. CASE Indeterminate("batch", x)
  BY <1>1, <1>2, <1>3, <1>5, IndeterminateStep
<1>6. CASE Stages("batch", Housed([x EXCEPT !.dirty = FALSE]), 0)
  BY <1>2, <1>3, <1>6, RestagesStep
<1>7. ASSUME m' = [x EXCEPT !.current = TRUE, !.required = FALSE, !.failed = FALSE, !.fence = FALSE],
             Goes("batch", "repaired")
      PROVE  IInv'
  <2>1. /\ m' \in Manager /\ m'.entries = x.entries /\ m'.next = x.next /\ m'.file = x.file
        /\ m'.expected = x.expected /\ m'.staged = x.staged
    BY <1>3, <1>7 DEF Manager
  <2>2. Later(m, m', B)
    BY <1>1, <1>3, <2>1, TweakIsLater
  <2>3. "repaired" \in Pc /\ "repaired" \in RepairPc
    BY DEF Pc, HopPc, RepairPc
  <2>4. /\ op' \in [Actor -> Operation] /\ \A b \in Actor : Fine(b)
        /\ op'["batch"].repair = op["batch"].repair
    BY <1>1, <1>7, <2>3, GoesFine
  <2> QED BY <1>1, <1>2, <1>3, <2>1, <2>2, <2>4, QuietStep
<1> QED BY <1>4, <1>5, <1>6, <1>7

\* The invariant after Repaired.
LEMMA RepairedStep == ASSUME IInv, Repaired PROVE IInv'
<1>1. m \in Manager /\ "batch" \in Actor
  BY InvFacts
<1>2. UNCHANGED <<disk, world, lease, history>> /\ op' = [op EXCEPT !["batch"] = Rejected]
      /\ m' = [m EXCEPT !.batch = FALSE, !.staged = {}]
  BY DEF Repaired, At, Here, Files
<1>3. /\ m' \in Manager /\ m'.entries = m.entries /\ m'.next = m.next /\ m'.file = m.file
      /\ m'.expected = m.expected /\ m'.staged = {}
  BY <1>1, <1>2 DEF Manager
<1>4. Blank(Rejected) /\ Rejected \in Operation /\ RepairOk(Rejected, "batch")
  BY BlankFields DEF Blank, RepairOk
<1>5. op' \in [Actor -> Operation] /\ \A b \in Actor : Fine(b)
  BY <1>1, <1>2, <1>4, ReplacedFine
<1> QED BY <1>2, <1>3, <1>5, TweakStep

-----------------------------------------------------------------------------
\* A batch of two new entries.

Pair == {m.next, m.next + 1}
Wider == history.batches \cup {Pair}
Ahead == [m EXCEPT !.next = @ + 2]

\* A new batch is in nothing that was there before.
LEMMA SaneWider ==
  ASSUME IInv, NEW S, Sane(S, m.next, history.batches), Pair \subseteq Own
  PROVE  Sane(S, m.next + 2, Wider)
<1>1. m.next \in Nat /\ \A e \in Own : e \in Nat
  BY InvFacts, Basics DEF Manager, Own
<1>2. \A e \in S \cap Own : e < m.next
  BY DEF Sane
<1>3. Pair \cap S = {}
  BY <1>1, <1>2 DEF Pair
<1>4. \A e \in S \cap Own : e < m.next + 2
  BY <1>1, <1>2
<1> QED BY <1>3, <1>4 DEF Sane, Wider

\* The state is ok with the new batch and its numbers, before anything is appended.
LEMMA AheadFacts ==
  ASSUME IInv, Pair \subseteq Own
  PROVE  /\ Ahead \in Manager /\ ManagerOk(Ahead, Wider) /\ BatchesOk(m.next + 2, Wider)
         /\ Ahead.next = m.next + 2 /\ Ahead.entries = m.entries /\ Ahead.file = m.file
         /\ Ahead.expected = m.expected /\ Ahead.staged = m.staged
         /\ \A a \in Actor : OperationOk(op[a], Ahead, Wider)
         /\ \A f \in File : FileOk(disk[f], f, Ahead, Wider)
<1>1. /\ m \in Manager /\ ManagerOk(m, history.batches) /\ BatchesOk(m.next, history.batches)
      /\ \A a \in Actor : OperationOk(op[a], m, history.batches)
      /\ \A f \in File : FileOk(disk[f], f, m, history.batches)
  BY InvFacts DEF IInv
<1>2. m.next \in Nat /\ m.next + 2 \in Nat
  BY <1>1 DEF Manager
<1>3. /\ Ahead \in Manager /\ Ahead.next = m.next + 2 /\ Ahead.entries = m.entries
      /\ Ahead.file = m.file /\ Ahead.expected = m.expected /\ Ahead.staged = m.staged
  <2>1. Ahead \in Manager
    BY <1>1, <1>2 DEF Ahead, Manager
  <2> QED BY <1>1, <2>1 DEF Ahead, Manager
<1>4. ManagerOk(Ahead, Wider)
  BY <1>1, <1>3, SaneWider DEF ManagerOk
<1>5. BatchesOk(m.next + 2, Wider)
  <2>1. \A b \in history.batches : b \subseteq Own /\ b \subseteq Nat /\ \A e \in b : e < m.next
    BY <1>1, Basics DEF BatchesOk, Own
  <2>2. \A b \in history.batches : b \cap Pair = {}
    BY <1>2, <2>1 DEF Pair
  <2>3. \A b \in history.batches : \A e \in b : e < m.next + 2
    BY <1>2, <2>1
  <2>4. \A e \in Pair : e < m.next + 2
    BY <1>2 DEF Pair
  <2> QED BY <1>1, <2>1, <2>2, <2>3, <2>4 DEF BatchesOk, Wider
<1>6. \A a \in Actor : OperationOk(op[a], Ahead, Wider)
  BY <1>1, <1>3, SaneWider DEF OperationOk
<1>7. \A f \in File : FileOk(disk[f], f, Ahead, Wider)
  BY <1>1, <1>3, SaneWider DEF FileOk
<1> QED BY <1>3, <1>4, <1>5, <1>6, <1>7

\* The invariant, when the step makes a new batch.
LEMMA BatchStep ==
  ASSUME IInv, Pair \subseteq Own, history'.batches = Wider, WorldOk',
         UNCHANGED <<disk, world, lease>>, Later(Ahead, m', Wider), m'.next = m.next + 2,
         m'.file = m.file, op' \in [Actor -> Operation],
         \A b \in Actor : RepairOk(op'[b], b) /\ (SameData(op'[b], op[b]) \/ Blank(op'[b])),
         m'.staged # {} => m'.staged \in Wider \/ op'["batch"].repair
  PROVE  IInv'
<1>1. /\ ManagerOk(Ahead, Wider) /\ BatchesOk(m.next + 2, Wider)
      /\ \A a \in Actor : OperationOk(op[a], Ahead, Wider)
      /\ \A f \in File : FileOk(disk[f], f, Ahead, Wider)
  BY AheadFacts
<1>2. WorldOk /\ m.file \in File /\ disk \in [File -> Content]
  BY InvFacts
<1>4. ManagerOk(m', Wider)
  BY DEF Later
<1>5. \A a \in Actor : OperationOk(op'[a], m', Wider) /\ RepairOk(op'[a], a)
  BY <1>1, <1>4, LaterOperation, BlankOperation
<1>6. \A f \in File : FileOk(disk'[f], f, m', Wider)
  BY <1>1, LaterFile
<1> QED BY <1>1, <1>2, <1>4, <1>5, <1>6 DEF IInv

\* What is recorded of a new batch, rejected at once or not.
LEMMA BatchNoted ==
  ASSUME IInv, Pair \subseteq Own, UNCHANGED <<world, lease>>, NEW e \in Own, NEW h,
         h = [history EXCEPT !.batches = @ \cup {Pair}],
         history' = h \/ history' = [h EXCEPT !.rejected = @ \cup {e}]
  PROVE  history'.batches = Wider /\ WorldOk'
<1>1. WorldOk /\ Pair \in SUBSET Own
  BY InvFacts
<1>2. /\ h \in [batches : SUBSET SUBSET Own, deferred : SUBSET Own, unmarked : SUBSET Own,
                rejected : SUBSET Own]
      /\ h.batches = Wider
  BY <1>1 DEF WorldOk, Wider
<1>3. [h EXCEPT !.rejected = h.rejected \cup {e}]
        \in [batches : SUBSET SUBSET Own, deferred : SUBSET Own, unmarked : SUBSET Own,
            rejected : SUBSET Own]
  BY <1>2
<1> QED BY <1>1, <1>2, <1>3 DEF WorldOk

\* A manager that gains a batch is a manager.
LEMMA ManagerGains ==
  ASSUME NEW d \in Manager, NEW st \in SUBSET Own, NEW j \in Seq(Line), NEW n \in Nat
  PROVE  [d EXCEPT !.batch = TRUE, !.staged = st, !.entries = j, !.next = n] \in Manager
<1> DEFINE y == [d EXCEPT !.batch = TRUE, !.staged = st]
           z == [y EXCEPT !.entries = j, !.next = n]
<1>1. y \in Manager
  BY DEF Manager
<1>2. z = [d EXCEPT !.batch = TRUE, !.staged = st, !.entries = j, !.next = n]
  OBVIOUS
<1> HIDE DEF y
<1>3. z \in Manager
  BY <1>1 DEF Manager
<1> HIDE DEF z
<1> QED BY <1>2, <1>3

\* The manager once the callback has appended.
LEMMA StagingFacts ==
  ASSUME IInv, Pair \subseteq Own, NEW added \in Seq(Own), NEW x,
         x = [Deferred(m) EXCEPT !.batch = TRUE, !.staged = ToSet(added),
                                 !.entries = @ \o added, !.next = @ + 2]
  PROVE  /\ x \in Manager /\ x.next = m.next + 2 /\ x.file = m.file /\ x.expected = m.expected
         /\ x.staged = ToSet(added) /\ ToSet(added) \subseteq Own
         /\ ToSet(x.entries) = ToSet(m.entries) \cup ToSet(added)
<1> DEFINE d == Deferred(m)
           j == m.entries \o added
<1>1. m \in Manager /\ m.entries \in Seq(Line) /\ m.next + 2 \in Nat
  BY InvFacts DEF Manager
<1>2. added \in Seq(Line) /\ ToSet(added) \subseteq Own
  <2>1. Own \subseteq Line
    BY DEF Line
  <2> QED BY <2>1, MembersFacts
<1>3. j \in Seq(Line) /\ ToSet(j) = ToSet(m.entries) \cup ToSet(added)
  BY <1>1, <1>2, ConcatProperties, MembersFacts
<1>4. /\ d \in Manager /\ d.entries = m.entries /\ d.next = m.next /\ d.file = m.file
      /\ d.expected = m.expected
  BY <1>1, DivergedFields
<1>5. x = [d EXCEPT !.batch = TRUE, !.staged = ToSet(added), !.entries = j, !.next = m.next + 2]
  BY <1>4
<1> HIDE DEF d, j
<1>6. x \in Manager
  <2>1. [d EXCEPT !.batch = TRUE, !.staged = ToSet(added), !.entries = j, !.next = m.next + 2]
          \in Manager
    BY <1>1, <1>2, <1>3, <1>4, ManagerGains
  <2> QED BY <1>5, <2>1
<1>7. x.entries = j /\ x.next = m.next + 2 /\ x.staged = ToSet(added)
  BY <1>4, <1>5 DEF Manager
<1>8. x.file = m.file /\ x.expected = m.expected
  BY <1>4, <1>5 DEF Manager
<1> QED BY <1>2, <1>3, <1>6, <1>7, <1>8

\* The invariant after Collects.
LEMMA CollectsStep == ASSUME IInv, Collects PROVE IInv'
<1> DEFINE n == m.next
           pair == <<n, n + 1>>
           Staging(added) == [Deferred(m) EXCEPT !.batch = TRUE, !.staged = ToSet(added),
                                                 !.entries = @ \o added, !.next = @ + 2]
           rec == Scheduled("batch", FALSE)
           begun(b) == [history EXCEPT !.batches = @ \cup {b}]
<1>1. /\ m \in Manager /\ ManagerOk(m, history.batches) /\ m.file \in File /\ "batch" \in Actor
      /\ op \in [Actor -> Operation] /\ n \in Nat
      /\ \A a \in Actor : op[a] \in Operation /\ RepairOk(op[a], a)
  BY InvFacts DEF Manager
<1>7. n + 2 \in Nat /\ m.file \in Nat
  <2>1. n \in Nat /\ m.file \in File
    BY <1>1
  <2>2. m.file \in Nat
    BY <2>1, Basics
  <2> HIDE DEF n
  <2> QED BY <2>1, <2>2
<1>2. UNCHANGED <<disk, world, lease>> /\ ~op["batch"].repair
  BY <1>1, NoRepair DEF Collects, RepairPc
<1>3. Blank(rec) /\ ~rec.repair /\ rec \in Operation /\ RepairOk(rec, "batch")
  BY <1>1, FreshFields DEF Blank, RepairOk
<1>4. \/ /\ UNCHANGED history /\ m' = [m EXCEPT !.batch = TRUE, !.staged = {}]
         /\ Goes("batch", "deciding") \/ op' = [op EXCEPT !["batch"] = rec]
      \/ /\ ToSet(pair) \subseteq Own
         /\ \/ /\ m' = Staging(pair) /\ op' = [op EXCEPT !["batch"] = rec]
               /\ history' = begun(ToSet(pair))
            \/ /\ Repairs(RolledBack(Staging(<<n>>)))
               /\ history' = [begun(ToSet(pair)) EXCEPT !.rejected = @ \cup {n}]
  BY DEF Collects
<1> HIDE DEF rec
<1>5. ASSUME UNCHANGED history, m' = [m EXCEPT !.batch = TRUE, !.staged = {}],
             Goes("batch", "deciding") \/ op' = [op EXCEPT !["batch"] = rec]
      PROVE  IInv'
  <2>1. /\ m' \in Manager /\ m'.entries = m.entries /\ m'.next = m.next /\ m'.file = m.file
        /\ m'.expected = m.expected /\ m'.staged = {}
    BY <1>1, <1>5 DEF Manager
  <2>2. "deciding" \in Pc
    BY DEF Pc, HopPc
  <2>3. op' \in [Actor -> Operation] /\ \A b \in Actor : Fine(b)
    BY <1>1, <1>2, <1>3, <1>5, <2>2, GoesFine, ReplacedFine
  <2> QED BY <1>2, <1>5, <2>1, <2>3, TweakStep
<1>6. ASSUME ToSet(pair) \subseteq Own,
             \/ history' = begun(ToSet(pair))
             \/ history' = [begun(ToSet(pair)) EXCEPT !.rejected = @ \cup {n}],
             \/ m' = Staging(pair) /\ op' = [op EXCEPT !["batch"] = rec]
             \/ Repairs(RolledBack(Staging(<<n>>)))
      PROVE  IInv'
  <2>1. ToSet(pair) = Pair /\ ToSet(<<n>>) = {n}
    BY DEF ToSet, Pair
  <2>2. Pair \subseteq Own /\ n \in Own /\ n + 1 \in Own
    BY <1>6, <2>1 DEF Pair
  <2>3. pair \in Seq(Own) /\ <<n>> \in Seq(Own)
    BY <2>2
  <2>7. history'.batches = Wider /\ WorldOk'
    <3> HIDE DEF pair
    <3> QED BY <1>2, <1>6, <2>1, <2>2, BatchNoted
  <2>4. /\ Ahead \in Manager /\ ManagerOk(Ahead, Wider) /\ BatchesOk(n + 2, Wider)
        /\ Ahead.next = n + 2 /\ Ahead.entries = m.entries /\ Ahead.file = m.file
        /\ Ahead.expected = m.expected
    BY <2>2, AheadFacts
  <2>5. CASE m' = Staging(pair) /\ op' = [op EXCEPT !["batch"] = rec]
    <3>1. /\ m' \in Manager /\ m'.next = n + 2 /\ m'.file = m.file /\ m'.expected = m.expected
          /\ m'.staged = Pair /\ ToSet(m'.entries) = ToSet(m.entries) \cup Pair
      BY <2>1, <2>2, <2>3, <2>5, StagingFacts
    <3>2. Sane(Pair, n + 2, Wider)
      <4>1. \A b \in Wider : b = Pair \/ b \cap Pair = {}
        BY <2>4 DEF BatchesOk, Wider
      <4>2. \A e \in Pair : e < n + 2
        BY <1>1 DEF Pair
      <4> QED BY <4>1, <4>2 DEF Sane
    <3>3. Later(Ahead, m', Wider)
      <4>1. Sane(ToSet(m'.entries), n + 2, Wider)
        BY <2>4, <3>1, <3>2, SaneUnion DEF ManagerOk
      <4>2. n + 2 \in Nat /\ m.file \in Nat
        BY <1>7
      <4> QED BY <2>4, <3>1, <4>1, <4>2 DEF Later, ManagerOk
    <3>4. /\ op' \in [Actor -> Operation]
          /\ \A b \in Actor : RepairOk(op'[b], b) /\ (SameData(op'[b], op[b]) \/ Blank(op'[b]))
      <4>1. op'["batch"] = rec /\ \A b \in Actor \ {"batch"} : op'[b] = op[b]
        BY <1>1, <2>5
      <4>2. \A b \in Actor : SameData(op[b], op[b])
        BY <1>1 DEF SameData
      <4> QED BY <1>1, <1>3, <2>5, <4>1, <4>2
    <3> QED BY <1>2, <2>2, <2>7, <3>1, <3>3, <3>4, BatchStep DEF Wider
  <2>6. CASE Repairs(RolledBack(Staging(<<n>>)))
    <3> DEFINE t == Staging(<<n>>)
               r == RolledBack(t)
               w == Without(t.entries, t.staged)
    <3>1. /\ t \in Manager /\ t.next = n + 2 /\ t.file = m.file /\ t.expected = m.expected
          /\ t.staged = {n} /\ ToSet(t.entries) = ToSet(m.entries) \cup {n}
      BY <2>1, <2>2, <2>3, StagingFacts
    <3>2. Repairs(r)
      BY <2>6
    <3> HIDE DEF t
    <3>3. n \notin ToSet(m.entries)
      BY <1>1, <2>2 DEF ManagerOk, Sane
    <3>4. w \in Seq(Line) /\ ToSet(w) = ToSet(m.entries)
      <4>1. t.entries \in Seq(Line)
        BY <3>1 DEF Manager
      <4>2. w \in Seq(Line) /\ ToSet(w) = ToSet(t.entries) \ t.staged
        BY <4>1, WithoutFacts
      <4> QED BY <3>1, <3>3, <4>2
    <3>5. r = [t EXCEPT !.entries = w]
      BY DEF RolledBack
    <3> HIDE DEF r, w
    <3>6. /\ r \in Manager /\ r.entries = w /\ r.next = n + 2 /\ r.file = m.file
          /\ r.expected = m.expected
      BY <3>1, <3>4, <3>5 DEF Manager
    <3>7. Later(Ahead, r, Wider)
      <4>1. n + 2 \in Nat /\ m.file \in Nat
        BY <1>7
      <4> QED BY <2>4, <3>4, <3>6, <4>1 DEF Later, ManagerOk
    <3>8. /\ op' \in [Actor -> Operation]
          /\ \A b \in Actor : RepairOk(op'[b], b) /\ (SameData(op'[b], op[b]) \/ Blank(op'[b]))
          /\ m' \in Manager /\ m'.entries = r.entries /\ m'.next = r.next /\ m'.file = r.file
          /\ m'.expected = r.expected
          /\ m'.staged # {} => op'["batch"].repair
      BY <3>2, <3>6, RepairsFine
    <3>9. Later(Ahead, m', Wider)
      BY <2>4, <3>7, <3>8, TweakIsLater
    <3> QED BY <1>2, <2>2, <2>7, <3>6, <3>8, <3>9, BatchStep
  <2> QED BY <1>6, <2>5, <2>6
<1> QED BY <1>4, <1>5, <1>6

-----------------------------------------------------------------------------
\* Other processes, and all steps together.

\* What others do leaves the manager and its operations alone.
LEMMA OthersStepBy ==
  ASSUME IInv, UNCHANGED <<m, op, history>>, WorldOk', disk' \in [File -> Content],
         \A f \in File : disk'[f] = disk[f] \/ FileOk(disk'[f], f, m, history.batches)
  PROVE  IInv'
<1>1. Later(m, m', history.batches) /\ m'.file \in File /\ op' \in [Actor -> Operation]
      /\ (m'.staged # {} => m'.staged \in history.batches \/ op'["batch"].repair)
  BY InvFacts
<1>2. \A a \in Actor : Fine(a)
  BY FollowsFine
<1> QED BY <1>1, <1>2, InvKept

\* The invariant after AlienAppends.
LEMMA AlienAppendsStep == ASSUME IInv, NEW f \in File, AlienAppends(f) PROVE IInv'
<1> DEFINE e == MaxEntry + world.aliens + 1
           c == [disk[f] EXCEPT !.lines = Append(disk[f].lines, e)]
<1>1. /\ WorldOk /\ disk \in [File -> Content] /\ disk[f] \in Content
      /\ FileOk(disk[f], f, m, history.batches) /\ BatchesOk(m.next, history.batches)
  BY InvFacts DEF IInv
<1>2. UNCHANGED <<m, op, lease, history>> /\ disk' = [disk EXCEPT ![f] = c]
      /\ disk[f].id = f /\ world.aliens < MaxAlien
      /\ Trouble([world EXCEPT !.aliens = @ + 1], 1)
  BY DEF AlienAppends
<1>3. e \in Alien /\ e \in Line /\ e \notin Own
  BY <1>1, <1>2, JournalAssumption, Basics DEF WorldOk, Alien, Own, Line
<1>4. WorldOk'
  <2>1. lease' = lease /\ history' = history
    BY <1>2
  <2> DEFINE v == [world EXCEPT !.aliens = @ + 1]
  <2>2. v \in [troubles : 0..MaxTrouble, aliens : 0..MaxAlien, tampered : SUBSET File]
    BY <1>1, <1>2, JournalAssumption DEF WorldOk
  <2> HIDE DEF v
  <2>3. world' \in [troubles : 0..MaxTrouble, aliens : 0..MaxAlien, tampered : SUBSET File]
    <3>1. Trouble(v, 1)
      BY <1>2 DEF v
    <3> QED BY <2>2, <3>1, JournalAssumption DEF Trouble
  <2> QED BY <1>1, <2>1, <2>3 DEF WorldOk
<1> HIDE DEF e
<1>5. disk[f].lines \in Seq(Line)
  BY <1>1 DEF Content
<1>6. /\ Append(disk[f].lines, e) \in Seq(Line)
      /\ ToSet(Append(disk[f].lines, e)) = ToSet(disk[f].lines) \cup {e}
  BY <1>3, <1>5, AppendProperties, MembersFacts
<1>7. c \in Content /\ c.lines = Append(disk[f].lines, e)
  BY <1>1, <1>6 DEF Content
<1>8. Sane(ToSet(disk[f].lines) \cup {e}, m.next, history.batches)
  <2>1. \A b \in history.batches : e \notin b
    BY <1>1, <1>3 DEF BatchesOk
  <2>2. Sane(ToSet(disk[f].lines), m.next, history.batches)
    BY <1>1 DEF FileOk
  <2> QED BY <1>3, <2>1, <2>2 DEF Sane
<1>9. ~(f > m.file)
  BY <1>1, <1>2, Basics DEF FileOk, File
<1> HIDE DEF c
<1>10. FileOk(c, f, m, history.batches)
  BY <1>6, <1>7, <1>8, <1>9 DEF FileOk
<1>11. /\ disk' \in [File -> Content]
       /\ \A g \in File : disk'[g] = disk[g] \/ FileOk(disk'[g], g, m, history.batches)
  BY <1>1, <1>2, <1>7, <1>10
<1> QED BY <1>2, <1>4, <1>11, OthersStepBy

\* The invariant after Tampers.
LEMMA TampersStep == ASSUME IInv, NEW f \in File, Tampers(f) PROVE IInv'
<1>1. /\ WorldOk /\ disk \in [File -> Content] /\ FileOk(disk[f], f, m, history.batches)
  BY InvFacts DEF IInv
<1>2. PICK c \in {Missing, Journal(Stranger, <<>>)} : disk' = [disk EXCEPT ![f] = c]
  BY DEF Tampers
<1>3. UNCHANGED <<m, op, lease, history>> /\ disk[f].id = f
      /\ Trouble([world EXCEPT !.tampered = @ \cup {f}], 2)
  BY DEF Tampers
<1>4. WorldOk'
  <2>1. lease' = lease /\ history' = history
    BY <1>3
  <2> DEFINE v == [world EXCEPT !.tampered = @ \cup {f}]
  <2>2. v \in [troubles : 0..MaxTrouble, aliens : 0..MaxAlien, tampered : SUBSET File]
    BY <1>1 DEF WorldOk
  <2> HIDE DEF v
  <2>3. world' \in [troubles : 0..MaxTrouble, aliens : 0..MaxAlien, tampered : SUBSET File]
    <3>1. Trouble(v, 2)
      BY <1>3 DEF v
    <3> QED BY <2>2, <3>1, JournalAssumption DEF Trouble
  <2> QED BY <1>1, <2>1, <2>3 DEF WorldOk
<1>5. c \in Content /\ c.lines = <<>>
  <2>1. Stranger \in 0..Stranger /\ <<>> \in Seq(Line)
    BY Basics, EmptySeq
  <2> QED BY <2>1, Basics DEF Journal, Content
<1>6. ToSet(<<>>) = {} /\ Sane({}, m.next, history.batches)
  <2>1. <<>> \in Seq({})
    BY EmptySeq
  <2> QED BY <2>1, MembersFacts DEF Sane
<1>7. ~(f > m.file)
  BY <1>1, <1>3, Basics DEF FileOk, File
<1>8. FileOk(c, f, m, history.batches)
  BY <1>5, <1>6, <1>7 DEF FileOk
<1>9. /\ disk' \in [File -> Content]
      /\ \A g \in File : disk'[g] = disk[g] \/ FileOk(disk'[g], g, m, history.batches)
  BY <1>1, <1>2, <1>5, <1>8
<1> QED BY <1>3, <1>4, <1>9, OthersStepBy

\* The invariant after LeaseMoves.
LEMMA LeaseMovesStep == ASSUME IInv, LeaseMoves PROVE IInv'
<1>1. WorldOk /\ disk \in [File -> Content]
  BY InvFacts
<1>2. UNCHANGED <<m, op, disk, history>> /\ lease' = ~lease /\ Trouble(world, 1)
  BY DEF LeaseMoves
<1>3. world' \in [troubles : 0..MaxTrouble, aliens : 0..MaxAlien, tampered : SUBSET File]
  BY <1>1, <1>2, JournalAssumption DEF Trouble, WorldOk
<1>4. WorldOk'
  BY <1>1, <1>2, <1>3 DEF WorldOk
<1> QED BY <1>1, <1>2, <1>4, OthersStepBy

\* A stutter.
LEMMA StutterStep == ASSUME IInv, UNCHANGED vars PROVE IInv'
<1>1. WorldOk /\ disk \in [File -> Content]
  BY InvFacts
<1>2. UNCHANGED <<m, op, disk, lease, world, history>>
  BY DEF vars
<1>3. WorldOk'
  BY <1>1, <1>2 DEF WorldOk
<1> QED BY <1>1, <1>2, <1>3, OthersStepBy

\* The initial state.
LEMMA InitOk == Init => IInv
<1> SUFFICES ASSUME Init PROVE IInv
  OBVIOUS
<1>1. <<>> \in Seq(Line) /\ ToSet(<<>>) = {} /\ SizeOf(<<>>) = {}
  <2>1. <<>> \in Seq(Line)
    BY EmptySeq
  <2> QED BY <2>1, MembersFacts DEF SizeOf
<1>2. m \in Manager /\ m.entries = <<>> /\ m.next = 1 /\ m.file = 1 /\ m.expected = {} /\ m.staged = {}
  BY <1>1 DEF Init, Manager, Sizes
<1>3. /\ history = [batches |-> {}, deferred |-> {}, unmarked |-> {}, rejected |-> {}]
      /\ lease = FALSE
      /\ world = [troubles |-> 0, aliens |-> 0, tampered |-> {}]
      /\ disk = [f \in File |-> IF f = 1 THEN Journal(1, <<>>) ELSE Missing]
      /\ op = [a \in Actor |-> Idle]
  BY DEF Init
<1>4. history.batches = {} /\ WorldOk
  <2>1. history.batches = {} /\ lease \in BOOLEAN
    BY <1>3
  <2>2. world \in [troubles : 0..MaxTrouble, aliens : 0..MaxAlien, tampered : SUBSET File]
    BY <1>3, JournalAssumption
  <2>3. history \in [batches : SUBSET SUBSET Own, deferred : SUBSET Own, unmarked : SUBSET Own,
                     rejected : SUBSET Own]
    BY <1>3
  <2> QED BY <2>1, <2>2, <2>3 DEF WorldOk
<1>5. BatchesOk(m.next, history.batches)
  BY <1>4 DEF BatchesOk
<1>6. ManagerOk(m, history.batches) /\ m.file \in File
  BY <1>1, <1>2, <1>4, Basics DEF ManagerOk, Sane
<1>7. /\ op \in [Actor -> Operation]
      /\ \A a \in Actor : OperationOk(op[a], m, history.batches) /\ RepairOk(op[a], a)
  <2>1. Blank(Idle) /\ ~Idle.repair /\ Idle \in Operation
    BY BlankFields DEF Blank
  <2>2. OperationOk(Idle, m, history.batches)
    BY <1>6, <2>1, BlankOperation
  <2> QED BY <1>3, <2>1, <2>2 DEF RepairOk
<1>8. /\ disk \in [File -> Content]
      /\ \A f \in File : FileOk(disk[f], f, m, history.batches)
  <2>1. Journal(1, <<>>) \in Content /\ Journal(1, <<>>).lines = <<>>
    <3>1. 1 \in 0..Stranger
      BY JournalAssumption DEF Stranger
    <3> QED BY <1>1, <3>1 DEF Journal, Content
  <2>2. Missing \in Content /\ Missing.lines = <<>>
    BY Basics
  <2>3. \A f \in File : f # 1 => disk[f] = Missing
    BY <1>3
  <2>4. disk[1] = Journal(1, <<>>) /\ ~(1 > m.file)
    BY <1>2, <1>3, Basics
  <2>5. \A f \in File : disk[f] \in Content /\ disk[f].lines = <<>>
    BY <2>1, <2>2, <2>3, <2>4
  <2>6. Sane({}, m.next, history.batches)
    BY DEF Sane
  <2>7. disk \in [File -> Content]
    BY <1>3, <2>1, <2>2
  <2> QED BY <1>1, <2>3, <2>4, <2>5, <2>6, <2>7 DEF FileOk
<1> QED BY <1>2, <1>4, <1>5, <1>6, <1>7, <1>8 DEF IInv

\* Every step keeps the invariant: one lemma per action.
LEMMA NextStep == ASSUME IInv, [Next]_vars PROVE IInv'
<1>1. CASE UNCHANGED vars
  BY <1>1, StutterStep
<1>2. CASE AppendEntry \/ FlushSync \/ Seal \/ Rewrite \/ BatchBegins \/ RecoverPersistence
  BY <1>2, AppendEntryStep, FlushSyncStep, SealStep, RewriteStep, BatchBeginsStep,
     RecoverPersistenceStep
<1>3. CASE \E a \in Actor : Continues(a)
  <2>1. PICK a \in Actor : Continues(a)
    BY <1>3
  <2> QED BY <2>1, StartsStep, SerializesStep, PublishesStep, SettlesStep, MarksStep, ReadsBackStep,
             VerifiedStep, CheckedStep, ConflictsStep, ResolvesStep, FailsStep DEF Continues
<1>4. CASE BatchContinues
  BY <1>4, FlushedStep, CollectsStep, DecidesStep, DrainedStep, RepairPublishedStep, RepairedStep
     DEF BatchContinues
<1>5. CASE Others
  BY <1>5, LeaseMovesStep, AlienAppendsStep, TampersStep DEF Others
<1> QED BY <1>1, <1>2, <1>3, <1>4, <1>5 DEF Next

\* The invariant, which the theorems below draw from.
LEMMA Invariant == Spec => []IInv
<1>1. IInv /\ [Next]_vars => IInv'
  BY NextStep
<1> QED BY <1>1, InitOk, PTL DEF Spec

\* The types of TypeOK hold in every state.
THEOREM TypeCorrect == Spec => []TypeOK
BY Invariant, TypesFollow, PTL

\* appendEntriesAtomically is all or nothing in every file: no append, rewrite, rollback,
\* recovery or repair, however they overlap or fail, leaves half a batch on disk.
THEOREM BatchesAreAtomic == Spec => []BatchAtomic
<1>1. IInv => BatchAtomic
  <2> SUFFICES ASSUME IInv, NEW batch \in history.batches, NEW f \in File
               PROVE  batch \subseteq ToSet(disk[f].lines) \/ batch \cap ToSet(disk[f].lines) = {}
    BY DEF BatchAtomic
  <2>1. Sane(ToSet(disk[f].lines), m.next, history.batches)
    BY InvFacts
  <2> QED BY <2>1 DEF Sane
<1> QED BY <1>1, Invariant, PTL

-----------------------------------------------------------------------------
\* Steps that touch the files.

\* The lines others appended to f are still there.
KeptIn(f) == disk[f].id = f => ToSet(disk[f].lines) \cap Alien \subseteq ToSet(disk'[f].lines)

\* A file that is not written keeps its lines.
LEMMA UntouchedKept == ASSUME NEW f \in File, disk'[f] = disk[f] PROVE KeptIn(f)
BY DEF KeptIn

\* A file whose size is as expected has only lines of others that the expectation knows.
LEMMA SizeKept ==
  ASSUME IInv, NEW f \in File, disk[f].id = f
  PROVE  ToSet(disk[f].lines) \subseteq Size(disk[f])
<1>1. disk[f] \in Content
  BY InvFacts
<1>2. disk[f] # Missing
  BY Basics DEF File
<1> QED BY <1>1, <1>2, SizeFacts

\* A synchronous rewrite replaces a file whose lines it knows, or has adopted.
LEMMA SyncKeeps ==
  ASSUME IInv, NEW x, Later(m, x, history.batches), x.file = m.file,
         RewriteSynchronously(x), NEW f \in File
  PROVE  KeptIn(f)
<1> DEFINE B == history.batches
           h == Housed(x)
           y == [h EXCEPT !.writer = FALSE, !.fence = FALSE]
           clash == Size(disk[y.file]) # y.expected
           z == IF clash THEN Recovered(y, disk[y.file]) ELSE y
           final == IF clash /\ y.expected = Absent THEN y ELSE z
<1>1. /\ final.file \in File
      /\ \/ ~(clash /\ y.expected = Absent) /\ Published(z, z.file, z.entries)
         \/ UNCHANGED disk
  BY DEF RewriteSynchronously
<1>2. /\ ManagerOk(m, B) /\ ManagerOk(x, B) /\ m.file \in File
      /\ disk \in [File -> Content]
      /\ \A g \in File : disk[g] \in Content /\ FileOk(disk[g], g, m, B)
  BY InvFacts DEF Later, IInv
<1>3. ManagerOk(h, B) /\ h \in Manager /\ (h.file = m.file \/ h.expected = Absent)
  BY <1>2, HousedIsLater DEF Later, ManagerOk
<1> HIDE DEF h
<1>4. ManagerOk(y, B) /\ y \in Manager /\ (y.file = m.file \/ y.expected = Absent)
  <2>1. /\ y \in Manager /\ y.entries = h.entries /\ y.next = h.next /\ y.file = h.file
        /\ y.expected = h.expected
    BY <1>3 DEF Manager
  <2> HIDE DEF y
  <2> QED BY <1>3, <2>1 DEF ManagerOk
<1> HIDE DEF y
<1>5. SUFFICES ASSUME ~(clash /\ y.expected = Absent), Published(z, z.file, z.entries),
                      f = z.file, disk[f].id = f
               PROVE  KeptIn(f)
  <2>1. ~(clash /\ y.expected = Absent) /\ Published(z, z.file, z.entries) => z.file \in File
    BY <1>1
  <2>2. ASSUME Published(z, z.file, z.entries), z.file \in File, f # z.file PROVE disk'[f] = disk[f]
    BY <1>2, <2>2 DEF Published
  <2> HIDE DEF z, clash
  <2> QED BY <1>1, <2>1, <2>2, UntouchedKept DEF KeptIn
<1>6. disk'[f].lines = z.entries
  BY <1>2, <1>5 DEF Published, Journal
<1>7. CASE ~clash
  <2>1. z = y /\ Size(disk[f]) = y.expected
    BY <1>5, <1>7
  <2>2. ToSet(disk[f].lines) \subseteq y.expected
    BY <1>5, <2>1, SizeKept
  <2> QED BY <1>4, <1>6, <2>1, <2>2 DEF KeptIn, ManagerOk
<1>8. CASE clash
  <2> DEFINE c == disk[y.file]
  <2>1. y.file = m.file /\ y.file \in File /\ z = Recovered(y, c) /\ c \in Content
    BY <1>2, <1>4, <1>5, <1>8
  <2> HIDE DEF z, clash
  <2>2. CASE c = Missing
    <3>1. z = [y EXCEPT !.expected = Absent]
      BY <2>1, <2>2 DEF Recovered
    <3>2. z.file = y.file
      BY <1>4, <3>1 DEF Manager
    <3> QED BY <1>5, <2>2, <3>2, Basics DEF File
  <2>3. CASE c # Missing /\ c.id # y.file
    <3>1. z.file = m.file + 1
      BY <1>4, <2>1, <2>3, MovedFields DEF Recovered
    <3>2. f > m.file
      BY <1>2, <1>5, <3>1, Basics
    <3>3. disk[f] = Missing
      BY <1>2, <3>2 DEF FileOk
    <3> QED BY <1>5, <3>3, Basics DEF File
  <2>4. CASE c # Missing /\ c.id = y.file
    <3>1. z = Adopted(y, c)
      BY <2>1, <2>4 DEF Recovered
    <3>2. z.file = y.file
      BY <1>4, <3>1 DEF Adopted, Manager
    <3>3. ToSet(c.lines) \subseteq ToSet(z.entries)
      BY <1>4, <2>1, <3>1, AdoptedFields
    <3> QED BY <1>5, <1>6, <3>2, <3>3 DEF KeptIn
  <2> QED BY <2>2, <2>3, <2>4
<1> QED BY <1>7, <1>8

\* An append writes at the end, or rewrites.
LEMMA AppendKeeps ==
  ASSUME IInv, AppendEntry, NEW f \in File
  PROVE  KeptIn(f)
<1> DEFINE B == history.batches
           e == m.next
           x == Record(m, e)
           y == IF m.failed THEN Diverged(x) ELSE x
           w == Claim(y)
<1>1. /\ ManagerOk(m, B) /\ m \in Manager /\ BatchesOk(e, B) /\ m.file \in File
      /\ disk \in [File -> Content] /\ \A g \in File : disk[g] \in Content
  BY InvFacts
<1>2. e \in Own /\ e \in Line
  BY DEF AppendEntry, Line
<1>3. Later(m, x, B) /\ x.file = m.file /\ x \in Manager
  BY <1>1, <1>2, RecordIsLater DEF Later, ManagerOk
<1>4. \/ UNCHANGED disk
      \/ \E d \in BOOLEAN : RewriteSynchronously([y EXCEPT !.dirty = d])
      \/ disk' = Landed(w, e)
  <2>1. y.dirty \in BOOLEAN /\ y.fence \in BOOLEAN
    BY <1>3, DivergedFields DEF Manager
  <2> QED BY <2>1 DEF AppendEntry, AppendLine
<1> HIDE DEF x
<1>5. Later(m, y, B) /\ y.file = m.file /\ y \in Manager
  <2>1. Later(m, Diverged(x), B)
    BY <1>1, <1>3, DivergedFields, TweakIsLater
  <2> QED BY <1>3, <2>1, DivergedFields
<1> HIDE DEF y
<1>6. ASSUME NEW d \in BOOLEAN, RewriteSynchronously([y EXCEPT !.dirty = d]) PROVE KeptIn(f)
  <2> DEFINE z == [y EXCEPT !.dirty = d]
  <2>1. /\ z \in Manager /\ z.entries = y.entries /\ z.next = y.next /\ z.file = y.file
        /\ z.expected = y.expected
    BY <1>5 DEF Manager
  <2>2. RewriteSynchronously(z)
    BY <1>6
  <2> HIDE DEF z
  <2>3. Later(m, z, B)
    BY <1>1, <1>5, <2>1, TweakIsLater
  <2> QED BY <1>5, <2>1, <2>2, <2>3, SyncKeeps
<1>7. ASSUME disk' = Landed(w, e) PROVE KeptIn(f)
  <2>1. w.file = m.file
    BY <1>5, ClaimFields
  <2> HIDE DEF w
  <2>2. CASE disk[m.file] # Missing
    <3>1. disk' = [disk EXCEPT ![m.file] = [disk[m.file] EXCEPT !.lines = Append(disk[m.file].lines, e)]]
      BY <1>7, <2>1, <2>2 DEF Landed
    <3>2. disk[m.file].lines \in Seq(Line)
      BY <1>1 DEF Content
    <3>3. ToSet(Append(disk[m.file].lines, e)) = ToSet(disk[m.file].lines) \cup {e}
      BY <1>2, <3>2, MembersFacts
    <3>4. disk'[m.file].lines = Append(disk[m.file].lines, e)
      BY <1>1, <3>1 DEF Content
    <3>5. f # m.file => disk'[f] = disk[f]
      BY <1>1, <3>1
    <3> QED BY <3>3, <3>4, <3>5 DEF KeptIn
  <2>3. CASE disk[m.file] = Missing
    <3>1. disk' = disk \/ disk' = [disk EXCEPT ![m.file] = Journal(0, <<e>>)]
      BY <1>7, <2>1, <2>3 DEF Landed
    <3>2. f # m.file => disk'[f] = disk[f]
      BY <1>1, <3>1
    <3>3. f = m.file => disk[f].id # f
      BY <2>3, Basics DEF File
    <3> QED BY <3>2, <3>3 DEF KeptIn
  <2> QED BY <2>2, <2>3
<1> QED BY <1>4, <1>6, <1>7, UntouchedKept

\* A staged body replaces a file whose lines it has.
LEMMA PublishKeeps ==
  ASSUME IInv, NEW a \in Actor, Publishes(a), NEW f \in File
  PROVE  KeptIn(f)
<1> DEFINE o == op[a]
<1>1. o \in Operation /\ OperationOk(o, m, history.batches) /\ disk \in [File -> Content]
  BY InvFacts DEF IInv
<1>2. \/ UNCHANGED disk
      \/ /\ Size(disk[o.target]) = o.expect
         /\ disk' = [disk EXCEPT ![o.target] = Journal(o.target, o.body)]
  BY DEF Publishes, Published, Files
<1>3. ASSUME Size(disk[o.target]) = o.expect, f = o.target, disk[f].id = f,
             disk' = [disk EXCEPT ![o.target] = Journal(o.target, o.body)]
      PROVE  ToSet(disk[f].lines) \cap Alien \subseteq ToSet(disk'[f].lines)
  <2>1. disk'[f].lines = o.body
    BY <1>1, <1>3 DEF Journal
  <2>2. ToSet(disk[f].lines) \subseteq o.expect
    BY <1>3, SizeKept
  <2> QED BY <1>1, <2>1, <2>2 DEF OperationOk
<1> QED BY <1>1, <1>2, <1>3, UntouchedKept DEF KeptIn

\* Any other step of the manager leaves the files alone.
LEMMA OnlyThese ==
  ASSUME [Next]_vars, ~Others, ~AppendEntry, ~FlushSync, \A a \in Actor : ~Publishes(a)
  PROVE  UNCHANGED disk
<1>1. CASE UNCHANGED vars \/ Seal \/ Rewrite \/ BatchBegins \/ RecoverPersistence
  BY <1>1 DEF vars, Seal, Rewrite, BatchBegins, RecoverPersistence, At, Here, Files
<1>2. CASE \E a \in Actor : Continues(a)
  BY <1>2 DEF Continues, Starts, Serializes, Settles, Marks, ReadsBack, Verified, Checked,
              Conflicts, Resolves, Fails, Reached, At, Here, Files
<1>3. CASE BatchContinues
  BY <1>3 DEF BatchContinues, Flushed, Collects, Decides, Drained, RepairPublished, Repaired,
              Reached, At, Here, Files
<1> QED BY <1>1, <1>2, <1>3 DEF Next

\* No write of the manager erases a line another process appended to the session: a file is
\* only replaced while its size is one whose lines the new body has.
THEOREM LinesOfOthersKept == Spec => ForeignKept
<1> DEFINE Kept == Others \/ \A f \in File :
             disk[f].id = f => ToSet(disk[f].lines) \cap Alien \subseteq ToSet(disk'[f].lines)
<1>1. ASSUME IInv, [Next]_vars PROVE Kept
  <2> SUFFICES ASSUME ~Others, NEW f \in File PROVE KeptIn(f)
    BY DEF KeptIn
  <2>1. CASE AppendEntry
    BY <1>1, <2>1, AppendKeeps
  <2>2. CASE FlushSync
    BY <1>1, <2>2, InvFacts, SyncKeeps DEF FlushSync
  <2>3. CASE \E a \in Actor : Publishes(a)
    BY <1>1, <2>3, PublishKeeps
  <2>4. CASE ~AppendEntry /\ ~FlushSync /\ \A a \in Actor : ~Publishes(a)
    BY <1>1, <2>4, OnlyThese, UntouchedKept
  <2> QED BY <2>1, <2>2, <2>3, <2>4
<1>2. IInv /\ [Next]_vars => [Kept]_vars
  BY <1>1
<1> QED BY <1>2, Invariant, PTL DEF Spec, ForeignKept

\* A sealed manager writes no file, whatever was under way: every way to the disk is behind a
\* guard that asks for `released`.
THEOREM SealedIsStill == Spec => SealedWritesNothing
<1>1. [Next]_vars => [m.released /\ ~Others => UNCHANGED disk]_vars
  <2> SUFFICES ASSUME [Next]_vars, m.released, ~Others PROVE UNCHANGED disk
    OBVIOUS
  <2>1. ~AppendEntry /\ ~FlushSync
    BY DEF AppendEntry, FlushSync
  <2>2. CASE \E a \in Actor : Publishes(a)
    BY <2>2 DEF Publishes, CommitGuard, Files
  <2>3. CASE \A a \in Actor : ~Publishes(a)
    BY <2>1, <2>3, OnlyThese
  <2> QED BY <2>2, <2>3
<1> QED BY <1>1, PTL DEF Spec, SealedWritesNothing

-----------------------------------------------------------------------------
(***************************************************************************)
(* Why a current file is durable.                                          *)
(*                                                                         *)
(* Control says who may be where: of two operations at most one holds the  *)
(* fence, the other is behind it in the queue or stale; a repair that may  *)
(* still write has the failure latched; and no batch is staged by anybody  *)
(* who has not collected one.  It is inductive with IInv alone.            *)
(*                                                                         *)
(* Data says what each body and each content read back has to do with      *)
(* memory and the files while the manager is not sealed.  A staged body is *)
(* memory but for lines that a later pass, or a rollback, accounts for;    *)
(* what has landed is still in the file, and what a rewrite leaves out     *)
(* before it is marked was deferred; what a recovery has read holds no     *)
(* line of this manager that memory lacks, unless a failure is latched and *)
(* stays so until a whole body has been written.  Data needs Control, and  *)
(* CurrentIsDurable is what it says of the session's file.                 *)
(***************************************************************************)

\* Points of an operation whose work may come to write, or has just written.
Running == {"closing", "staging", "conflict", "reading", "resolving", "checking", "checked",
            "published"}
\* The commit guard would let o write.
Live(o) == ~o.stale /\ o.pc \in Running
\* A repair that has not ended and that no epoch has overtaken.
Repairing(o) == o.repair /\ ~o.stale /\ o.pc \in Running \cup {"draining", "repaired"}
\* File and memory are taken for equal.
Cur(x) == x.current /\ ~x.required
\* Work in the queue of this epoch.
Tailed(o) == ~o.stale /\ ~o.repair /\ o.pc \notin RestPc \cup {"collecting", "deciding"}

\* At most one of two operations is at a hop, and at most one may write.
Apart(o, p) ==
  /\ ~(o.pc \in HopPc /\ p.pc \in HopPc)
  /\ o.pc \in {"conflict", "marking"} \/ Live(o) \/ Repairing(o) => ~Live(p)
\* Of two works in the queue one waits for the other.
Turns(a, o, b, p) ==
  Tailed(o) /\ Tailed(p) /\ o.pc \in TailPc
    => b \in o.waits \/ (p.pc \in TailPc /\ a \in p.waits)
\* What o relies on in the manager x.
Held(o, x) ==
  /\ o.pc \in {"draining", "repaired"} => o.repair
  /\ Repairing(o) /\ o.pc # "repaired" => x.failed
  /\ ~x.released /\ (Live(o) \/ (Repairing(o) /\ o.pc # "repaired")) => x.fence
  /\ ~x.released /\ Live(o) /\ o.pc # "closing" => x.claimed
  /\ Live(o) /\ ~o.repair /\ x.dirty => ~Cur(x)
\* The batch has not collected its entries, or cannot commit them any more.
Preparing(o) == o.stale \/ o.ensure \/ o.pc \in RestPc \cup {"flushing", "collecting"}
Batching ==
  /\ ~m.released /\ Preparing(op["batch"]) => ~m.batch
  /\ m.staged # {} => m.batch
  /\ ~m.released /\ Live(op["rewrite"]) /\ m.dirty => m.batch
\* No size that is expected has the header of another session in it.
Control ==
  /\ \A a, b \in Actor : a # b => Apart(op[a], op[b]) /\ Turns(a, op[a], b, op[b])
  /\ \A a \in Actor : Held(op[a], m) /\ 0 \notin op[a].expect
  /\ Batching /\ 0 \notin m.expected

\* s and t are equal but for the lines of others and those of S.
Same(S, s, t) == Without(s, Alien \cup S) = Without(t, Alien \cup S)
Mine(s) == ToSet(s) \cap Own
\* Entries of memory that a's body may lack: their mark is set or was taken away, or they
\* are a batch's, which a rewrite may precede.
Aside(a) == history.unmarked \cup history.deferred \cup (IF a = "rewrite" THEN m.staged ELSE {})
Staged(o) == Live(o) /\ o.pc # "closing"
BodyOk(a) ==
  LET o == op[a] IN
  Staged(o) =>
   /\ Mine(o.body) \subseteq ToSet(m.entries)
   /\ Same(Aside(a), o.body, m.entries)
   /\ ~m.dirty => Same(history.unmarked, o.body, m.entries)
\* Something that is not the session's stands at f.
Elsewhere(f) == disk[f] # Missing /\ disk[f].id # f
\* The session moves off a file with a body staged for it only for what stands there, and
\* then the body does not land.
PlaceOk(a) ==
  LET o == op[a] IN
  Staged(o) /\ o.target # m.file =>
   /\ Elsewhere(o.target) /\ o.pc # "published"
   /\ o.pc = "checked" => o.seen.id # o.target
\* f has the lines s, unless others have tampered with it.
StillHas(f, s) ==
  /\ disk[f].id = f => Same({}, disk[f].lines, s)
  /\ f \notin world.tampered => disk[f].id = f
LandedOk(a) ==
  LET o == op[a] IN
  /\ Live(o) /\ o.pc = "published" => StillHas(o.target, o.body)
  /\ Live(o) /\ o.pc = "checked" /\ o.seen.id = o.target => StillHas(o.target, o.seen.lines)
\* The file has no line of this manager that memory lacks: a rejected batch's, say.
Clean == disk[m.file].id = m.file => Mine(disk[m.file].lines) \subseteq ToSet(m.entries)
\* o would adopt what is in the file.
Contests(o) ==
  ~o.repair /\ (o.pc = "conflict" \/ (o.pc \in {"reading", "resolving"} /\ ~o.superseded))
LeftOver ==
  ~Clean => m.failed /\ \A a \in Actor : (Live(op[a]) => op[a].repair) /\ ~Contests(op[a])
\* What a has read is in memory, unless a is a repair and nobody else may write.
Trusted(a) == m.failed /\ op[a].repair => \E b \in Actor : Live(op[b]) /\ ~op[b].repair
ReadOk(a) ==
  LET o == op[a] IN
  o.pc = "resolving" /\ ~o.superseded /\ o.target = m.file =>
   /\ o.seen # Missing /\ o.seen.id # o.target => Elsewhere(o.target)
   /\ o.seen.id = o.target /\ Trusted(a) => Mine(o.seen.lines) \subseteq ToSet(m.entries)
Durable ==
  Cur(m) /\ ~m.failed /\ m.file \notin world.tampered
    => disk[m.file].id = m.file /\ Same(history.unmarked, disk[m.file].lines, m.entries)
\* a's rewrite is about to be marked: what it leaves out was deferred to a batch meanwhile.
\* A synchronous rewrite may have written all the same, or has latched its failure.
MarkOk(a) ==
  op[a].pc = "marking" /\ ~m.failed /\ m.file \notin world.tampered =>
   /\ disk[m.file].id = m.file
   /\ Same(history.unmarked \cup (history.deferred \ ToSet(op[a].body)),
           disk[m.file].lines, m.entries)
Good(a) == BodyOk(a) /\ PlaceOk(a) /\ LandedOk(a) /\ ReadOk(a) /\ MarkOk(a)
\* No file has the header of another of the session's files.
Named == \A f \in File : disk[f].id \in File => disk[f].id = f
Data == ~m.released => (\A a \in Actor : Good(a)) /\ LeftOver /\ Durable /\ Named

-----------------------------------------------------------------------------
\* The operations, once more: all that Control looks at.

\* p is o, but may wait for less.
Steady(p, o) ==
  /\ Follows(p, o) /\ p.stale = o.stale /\ p.ensure = o.ensure /\ p.superseded = o.superseded
  /\ p.waits \subseteq o.waits
\* p is o in a new epoch.
Overtook(p, o) ==
  /\ Follows(p, o) /\ p.ensure = o.ensure /\ p.waits \subseteq o.waits
  /\ IF o.pc \in RestPc THEN p.stale = o.stale
     ELSE p.stale /\ (o.pc \in {"reading", "resolving"} => p.superseded)

\* Waiting for less changes nothing else.
LEMMA SteadyWaits ==
  ASSUME NEW o \in Operation, NEW s \in SUBSET Actor, s \subseteq o.waits
  PROVE  Steady([o EXCEPT !.waits = s], o) /\ [o EXCEPT !.waits = s].waits = s
<1>1. Follows([o EXCEPT !.waits = s], o)
  BY WaitsField
<1> QED BY <1>1 DEF Steady, Operation

\* An operation is as steady as itself.
LEMMA SteadySame ==
  ASSUME NEW o \in Operation
  PROVE  Steady(o, o)
BY DEF Steady, Follows, SameData

\* What a new epoch does.
LEMMA OvertookFields ==
  ASSUME NEW o \in Operation
  PROVE  Overtook(Overtaken(o), o)
<1> DEFINE b == o.pc \in {"reading", "resolving"}
           p == [o EXCEPT !.stale = TRUE, !.superseded = b]
<1>0. b \in BOOLEAN
  OBVIOUS
<1>3. Overtaken(o) = IF o.pc \in RestPc THEN o ELSE p
  BY DEF Overtaken
<1>4. o.pc \in {"reading", "resolving"} => b
  OBVIOUS
<1>5. Follows(Overtaken(o), o) /\ Overtaken(o).waits = o.waits
  BY OvertakenFields
<1> HIDE DEF b
<1>1. p.stale = TRUE /\ p.superseded = b /\ p.ensure = o.ensure
  BY <1>0 DEF Operation
<1> HIDE DEF p
<1> QED BY <1>1, <1>3, <1>4, <1>5 DEF Overtook

\* Both actors.
LEMMA TwoActors ==
  ASSUME NEW a \in Actor
  PROVE  \E b \in Actor : a # b /\ Actor = {a, b}
BY DEF Actor

\* The others of an actor that leaves.
LEMMA LeavesSteady ==
  ASSUME NEW a \in Actor, NEW rec \in Operation, op \in [Actor -> Operation], Leaves(a, rec)
  PROVE  /\ op'[a] = rec
         /\ \A b \in Actor \ {a} : Steady(op'[b], op[b]) /\ op'[b].waits = op[b].waits \ {a}
<1>1. ASSUME NEW b \in Actor \ {a}
      PROVE  Steady(op'[b], op[b]) /\ op'[b].waits = op[b].waits \ {a}
  <2>1. op[b] \in Operation /\ op[b].waits \ {a} \in SUBSET Actor
    BY DEF Operation
  <2>2. op'[b] = [op[b] EXCEPT !.waits = op[b].waits \ {a}]
    BY DEF Leaves
  <2> HIDE DEF Operation
  <2> QED BY <2>1, <2>2, SteadyWaits
<1> QED BY <1>1 DEF Leaves

\* The operation of an actor that goes on.
LEMMA GoesSteady ==
  ASSUME NEW a \in Actor, NEW pc \in Pc, op \in [Actor -> Operation], Goes(a, pc)
  PROVE  /\ op'[a].pc = pc /\ SameData(op'[a], op[a]) /\ op'[a].repair = op[a].repair
         /\ op'[a].stale = op[a].stale /\ op'[a].ensure = op[a].ensure
         /\ op'[a].superseded = op[a].superseded /\ op'[a].waits = op[a].waits
         /\ \A b \in Actor \ {a} : op'[b] = op[b]
<1>1. op[a] \in Operation /\ op' = [op EXCEPT ![a] = [op[a] EXCEPT !.pc = pc]]
  BY DEF Goes
<1>2. op'[a] = [op[a] EXCEPT !.pc = pc]
  BY <1>1
<1> QED BY <1>1, <1>2, GoesFacts DEF Operation

-----------------------------------------------------------------------------
\* Control is kept: what each kind of step has to show.

\* Control, of two actors.
LEMMA ControlOfTwo ==
  ASSUME NEW a \in Actor, NEW b \in Actor, a # b,
         Apart(op'[a], op'[b]), Apart(op'[b], op'[a]),
         Turns(a, op'[a], b, op'[b]), Turns(b, op'[b], a, op'[a]),
         Held(op'[a], m'), Held(op'[b], m'), 0 \notin op'[a].expect, 0 \notin op'[b].expect,
         Batching', 0 \notin m'.expected
  PROVE  Control'
<1>1. Actor = {a, b}
  BY DEF Actor
<1> QED BY <1>1 DEF Control

\* The manager after a step of a that takes the fence, the failure or the mark from no
\* other.
Keeps(a) ==
  /\ m.released => m'.released
  /\ m.claimed => m'.claimed
  /\ m.failed /\ ~m'.failed => Live(op[a])
  /\ m.fence /\ ~m'.fence => m'.released \/ Live(op[a])
  /\ m'.dirty /\ Cur(m') => (m.dirty /\ Cur(m)) \/ Live(op[a]) \/ op[a].pc = "marking"
\* The operation of a after a step of its own.
Proceeds(a, b) ==
  /\ op'[a].pc \in HopPc => op[a].pc \in HopPc \/ op[b].pc \notin HopPc
  /\ Live(op'[a]) => \/ Live(op[a])
                     \/ /\ ~Live(op[b]) /\ op[b].pc \notin {"conflict", "marking"}
                        /\ ~Repairing(op[b])
  /\ op'[a].pc \in {"conflict", "marking"} => Live(op[a])
  /\ Repairing(op'[a]) => Repairing(op[a]) \/ ~Live(op[b])
\* Its turn, and the other's.
KeepsTurn(a, b) ==
  Tailed(op'[a]) =>
    IF op'[a].pc \in TailPc THEN op'[a].waits = Before(a)
    ELSE Tailed(op[a]) /\ (op[a].pc \in TailPc => op[a].waits = {}) /\ op'[b].waits = op[b].waits

\* A step of a, beside which b stays where it is.
LEMMA ControlStep ==
  ASSUME IInv, Control, NEW a \in Actor, NEW b \in Actor, a # b,
         Steady(op'[b], op[b]), Keeps(a), Proceeds(a, b), KeepsTurn(a, b),
         Held(op'[a], m'), 0 \notin op'[a].expect, Batching', 0 \notin m'.expected
  PROVE  Control'
<1>1. /\ Apart(op[a], op[b]) /\ Apart(op[b], op[a])
      /\ Turns(a, op[a], b, op[b]) /\ Turns(b, op[b], a, op[a])
      /\ Held(op[b], m) /\ 0 \notin op[b].expect
  BY DEF Control
<1>2. /\ op'[b].pc = op[b].pc /\ op'[b].repair = op[b].repair /\ op'[b].stale = op[b].stale
      /\ op'[b].waits \subseteq op[b].waits /\ op'[b].expect = op[b].expect
  BY DEF Steady, Follows, SameData
<1>3. /\ Live(op'[b]) = Live(op[b]) /\ Repairing(op'[b]) = Repairing(op[b])
      /\ Tailed(op'[b]) = Tailed(op[b])
  BY <1>2 DEF Live, Repairing, Tailed
<1>4. Apart(op'[a], op'[b]) /\ Apart(op'[b], op'[a])
  BY <1>1, <1>2, <1>3 DEF Apart, Proceeds
<1>5. Tailed(op[b]) => b \in Before(a)
  BY DEF Before, InTail, Tailed
<1>6. Turns(a, op'[a], b, op'[b])
  BY <1>3, <1>5 DEF Turns, KeepsTurn
<1>7. Turns(b, op'[b], a, op'[a])
  BY <1>1, <1>2, <1>3, <1>5 DEF Turns, KeepsTurn
<1>8. Held(op'[b], m')
  BY <1>1, <1>2, <1>3 DEF Held, Keeps, Apart
<1> QED BY <1>2, <1>1, <1>4, <1>6, <1>7, <1>8, ControlOfTwo

\* Nobody's batch begins or ends in the step.
LEMMA BatchingKept ==
  ASSUME Control, NEW a \in Actor, NEW b \in Actor, a # b, Steady(op'[b], op[b]),
         m.released => m'.released, m'.batch = m.batch, m'.staged = m.staged,
         m'.dirty => m.dirty /\ (Live(op'[a]) => Live(op[a])),
         a = "batch" /\ Preparing(op'[a]) => Preparing(op[a]) \/ ~m.batch
  PROVE  Batching'
<1>1. op'[b].pc = op[b].pc /\ op'[b].stale = op[b].stale /\ op'[b].ensure = op[b].ensure
  BY DEF Steady, Follows
<1>2. Live(op'[b]) = Live(op[b]) /\ Preparing(op'[b]) = Preparing(op[b])
  BY <1>1 DEF Live, Preparing
<1>3. a \in {"batch", "rewrite"} /\ b \in {"batch", "rewrite"}
  BY DEF Actor
<1>4. Batching
  BY DEF Control
<1> QED BY <1>2, <1>3, <1>4 DEF Batching

\* A step that leaves all work of its time behind.
LEMMA ControlStale ==
  ASSUME IInv, Control, \A c \in Actor : Overtook(op'[c], op[c]),
         0 \notin m'.expected, ~m'.released => ~m'.batch, m'.staged # {} => m'.batch
  PROVE  Control'
<1>1. PICK a \in Actor, b \in Actor : a # b /\ Actor = {a, b}
  BY InvFacts, TwoActors
<1>2. ASSUME NEW c \in Actor
      PROVE  /\ op'[c].pc = op[c].pc /\ op'[c].expect = op[c].expect
             /\ op'[c].repair = op[c].repair
             /\ ~Live(op'[c]) /\ ~Tailed(op'[c]) /\ ~Repairing(op'[c])
    BY DEF Overtook, Follows, SameData, Live, Tailed, Repairing, Running, RestPc
<1>3. Apart(op[a], op[b]) /\ Apart(op[b], op[a])
  BY <1>1 DEF Control
<1>4. Apart(op'[a], op'[b]) /\ Apart(op'[b], op'[a])
  BY <1>1, <1>2, <1>3 DEF Apart
<1>5. Turns(a, op'[a], b, op'[b]) /\ Turns(b, op'[b], a, op'[a])
  BY <1>1, <1>2 DEF Turns
<1>6. Held(op'[a], m') /\ Held(op'[b], m')
  BY <1>1, <1>2 DEF Held, Control
<1>7. 0 \notin op'[a].expect /\ 0 \notin op'[b].expect
  BY <1>1, <1>2 DEF Control
<1>8. Batching'
  <2>1. "rewrite" \in Actor
    BY DEF Actor
  <2> QED BY <1>2, <2>1 DEF Batching
<1> QED BY <1>1, <1>4, <1>5, <1>6, <1>7, <1>8, ControlOfTwo

\* A repair begins, and leaves all work of its time behind.
LEMMA ControlRepairs ==
  ASSUME IInv, Control, NEW x, x \in Manager, Repairs(x), x.expected = m.expected,
         ~x.released, ~m.released,
         x.staged # {} => x.batch
  PROVE  Control'
<1> DEFINE rec == [Idle EXCEPT !.pc = "draining", !.repair = TRUE, !.waits = Before("batch")]
<1>1. /\ op' = [a \in Actor |-> IF a = "batch" THEN rec
                                ELSE [Overtaken(op[a]) EXCEPT !.waits = @ \ {"batch"}]]
      /\ m' = [Diverged(x) EXCEPT !.writer = FALSE, !.fence = TRUE, !.failed = TRUE]
  BY DEF Repairs
<1>2. /\ m'.batch = x.batch /\ m'.staged = x.staged /\ m'.expected = m.expected
      /\ m'.fence = TRUE /\ m'.failed = TRUE /\ m'.released = x.released
  BY <1>1 DEF Diverged, Manager
<1>3. "batch" \in Actor /\ "rewrite" \in Actor /\ op["rewrite"] \in Operation
      /\ \A o \in Operation : o.waits \in SUBSET Actor
  BY InvFacts DEF Operation
<1>4. op'["batch"] = rec
  BY <1>1, <1>3
<1>5. rec.pc = "draining" /\ rec.repair /\ ~rec.stale /\ rec.expect = Absent /\ ~rec.ensure
  BY DEF Idle
<1>6. op'["rewrite"] = [Overtaken(op["rewrite"])
                          EXCEPT !.waits = Overtaken(op["rewrite"]).waits \ {"batch"}]
  BY <1>1, <1>3
<1> DEFINE q == Overtaken(op["rewrite"])
<1>7. q \in Operation /\ Overtook(q, op["rewrite"])
  BY <1>3, OvertookFields, OvertakenFields DEF Follows, SameData
<1> HIDE DEF q, rec
<1>8. Steady(op'["rewrite"], q)
  BY <1>3, <1>6, <1>7, SteadyWaits DEF q
<1>9. /\ op'["rewrite"].pc = op["rewrite"].pc /\ op'["rewrite"].expect = op["rewrite"].expect
      /\ op'["rewrite"].repair = op["rewrite"].repair
      /\ ~Live(op'["rewrite"]) /\ ~Tailed(op'["rewrite"]) /\ ~Repairing(op'["rewrite"])
  BY <1>7, <1>8 DEF Steady, Overtook, Follows, SameData, Live, Tailed, Repairing, Running, RestPc
<1>10. /\ ~Live(op'["batch"]) /\ ~Tailed(op'["batch"]) /\ op'["batch"].pc \notin HopPc
       /\ 0 \notin op'["batch"].expect /\ ~Preparing(op'["batch"])
  BY <1>4, <1>5, Basics DEF Live, Tailed, Running, HopPc, Absent, Preparing, RestPc
<1>11. /\ Apart(op'["batch"], op'["rewrite"]) /\ Apart(op'["rewrite"], op'["batch"])
       /\ Turns("batch", op'["batch"], "rewrite", op'["rewrite"])
       /\ Turns("rewrite", op'["rewrite"], "batch", op'["batch"])
  BY <1>9, <1>10 DEF Apart, Turns
<1>12. Held(op'["batch"], m') /\ Held(op'["rewrite"], m')
  BY <1>2, <1>3, <1>4, <1>5, <1>9, <1>10 DEF Held, Control
<1>13. Batching'
  BY <1>2, <1>9, <1>10 DEF Batching
<1>14. 0 \notin op'["rewrite"].expect /\ 0 \notin m'.expected
  BY <1>2, <1>3, <1>9 DEF Control
<1> QED BY <1>3, <1>10, <1>11, <1>12, <1>13, <1>14, ControlOfTwo

-----------------------------------------------------------------------------
\* What the manager's helpers change.

\* y is x but for where the session is, what is in memory and in the file.
Alike(y, x) ==
  /\ x \in Manager /\ y \in Manager /\ y.released = x.released /\ y.failed = x.failed
  /\ y.fence = x.fence /\ y.dirty = x.dirty /\ y.batch = x.batch /\ y.staged = x.staged
  /\ x.claimed => y.claimed
  /\ Cur(y) => Cur(x)
\* y has moved off x's file.
Moved(y, x) ==
  /\ y.file = x.file + 1 /\ y.expected = Absent /\ ~Cur(y) /\ y.claimed
\* y stays at x's file.
Stays(y, x) ==
  /\ y.file = x.file /\ y.current = x.current /\ y.required = x.required

\* Alike twice over.
LEMMA AlikeTwice ==
  ASSUME NEW x, NEW y, NEW z, Alike(y, x), Alike(z, y)
  PROVE  Alike(z, x)
BY DEF Alike

\* Moving off.
LEMMA MovedAlike ==
  ASSUME NEW x \in Manager
  PROVE  Alike(MovedOff(x), x) /\ Moved(MovedOff(x), x) /\ MovedOff(x).entries = x.entries
<1> DEFINE y == MovedOff(x)
<1>1. y \in Manager /\ y.file = x.file + 1 /\ y.expected = Absent /\ y.entries = x.entries
      /\ y.staged = x.staged /\ y.released = x.released /\ ~Cur(y)
      /\ y.failed = x.failed /\ y.fence = x.fence /\ y.dirty = x.dirty /\ y.batch = x.batch
  BY MovedFields DEF Cur
<1>2. y.claimed
  BY DEF MovedOff, Manager
<1> HIDE DEF y
<1>3. Alike(y, x) /\ Moved(y, x) /\ y.entries = x.entries
  BY <1>1, <1>2 DEF Alike, Moved
<1> QED BY <1>3 DEF y

\* The place of the next full write.
LEMMA HousedAlike ==
  ASSUME NEW x \in Manager
  PROVE  /\ Alike(Housed(x), x) /\ Housed(x).entries = x.entries
         /\ ~x.released => Housed(x).claimed
         /\ \/ Stays(Housed(x), x) /\ Housed(x).expected = x.expected
            \/ Moved(Housed(x), x) /\ ~x.claimed
<1> DEFINE c == Claim(x)
<1>1. /\ c \in Manager /\ c.file = x.file /\ c.expected = x.expected /\ c.entries = x.entries
      /\ c.staged = x.staged /\ c.released = x.released
      /\ c.current = x.current /\ c.required = x.required
      /\ c.failed = x.failed /\ c.fence = x.fence /\ c.dirty = x.dirty /\ c.batch = x.batch
  BY ClaimFields
<1>2. c.claimed = (x.claimed \/ Claimable(x))
  BY DEF Claim, Manager
<1>3. OwnedElsewhere(x) = (~x.released /\ ~c.claimed)
  BY DEF OwnedElsewhere
<1> HIDE DEF c
<1>4. Alike(c, x) /\ Stays(c, x)
  BY <1>1, <1>2 DEF Alike, Stays, Cur
<1>5. Alike(x, x) /\ Stays(x, x)
  BY DEF Alike, Stays
<1>6. Housed(x) = IF x.released THEN x ELSE IF OwnedElsewhere(x) THEN MovedOff(x) ELSE c
  BY DEF Housed, c
<1>7. CASE x.released
  BY <1>5, <1>6, <1>7
<1>8. CASE ~x.released /\ OwnedElsewhere(x)
  <2>1. Housed(x) = MovedOff(x)
    BY <1>6, <1>8
  <2>2. ~x.claimed
    BY <1>2, <1>3, <1>8
  <2>3. MovedOff(x).claimed
    BY MovedAlike DEF Moved
  <2> QED BY <2>1, <2>2, <2>3, MovedAlike
<1>9. CASE ~x.released /\ ~OwnedElsewhere(x)
  <2>1. Housed(x) = c /\ c.claimed
    BY <1>3, <1>6, <1>9
  <2> QED BY <1>1, <1>4, <2>1
<1> QED BY <1>7, <1>8, <1>9

\* The recovery.
LEMMA RecoveredAlike ==
  ASSUME NEW x \in Manager, NEW c \in Content
  PROVE  /\ Alike(Recovered(x, c), x)
         /\ \/ /\ c = Missing /\ Stays(Recovered(x, c), x)
               /\ Recovered(x, c).entries = x.entries /\ Recovered(x, c).expected = Absent
            \/ /\ c # Missing /\ c.id # x.file /\ Moved(Recovered(x, c), x)
               /\ Recovered(x, c).entries = x.entries
            \/ /\ c # Missing /\ c.id = x.file /\ Stays(Recovered(x, c), x)
               /\ Recovered(x, c).expected = Size(c)
               /\ Recovered(x, c).entries = Joined(x.entries, Without(c.lines, ToSet(x.entries)))
<1>1. CASE c = Missing
  <2>1. Recovered(x, c) = [x EXCEPT !.expected = Absent]
    BY <1>1 DEF Recovered
  <2>2. [x EXCEPT !.expected = Absent] \in Manager
    BY Basics DEF Manager
  <2> QED BY <1>1, <2>1, <2>2 DEF Manager, Alike, Stays, Cur
<1>2. CASE c # Missing /\ c.id # x.file
  <2>1. Recovered(x, c) = MovedOff(x)
    BY <1>2 DEF Recovered
  <2> QED BY <1>2, <2>1, MovedAlike
<1>3. CASE c # Missing /\ c.id = x.file
  <2> DEFINE y == Adopted(x, c)
             s == Adopted(x, c).entries
  <2>1. Recovered(x, c) = y
    BY <1>3 DEF Recovered
  <2>2. /\ y \in Manager /\ y = [x EXCEPT !.entries = s, !.expected = Size(c)]
        /\ s = Joined(x.entries, Without(c.lines, ToSet(x.entries)))
    BY AdoptedFields
  <2> HIDE DEF y, s
  <2>3. Alike(y, x) /\ Stays(y, x) /\ y.expected = Size(c)
    BY <2>2 DEF Manager, Alike, Stays, Cur
  <2>4. y.entries = s
    BY <2>2 DEF Manager
  <2> QED BY <1>3, <2>1, <2>2, <2>3, <2>4
<1> QED BY <1>1, <1>2, <1>3

\* The mark of a file that is behind, the fence that falls, the body that is there.
LEMMA MarksAlike ==
  ASSUME NEW x \in Manager
  PROVE  /\ Diverged(x) \in Manager /\ ~Cur(Diverged(x)) /\ Diverged(x).failed = x.failed
         /\ Diverged(x).released = x.released /\ Diverged(x).fence = x.fence
         /\ Diverged(x).dirty = x.dirty /\ Diverged(x).batch = x.batch
         /\ Diverged(x).claimed = x.claimed
         /\ Diverged(x).staged = x.staged /\ Diverged(x).expected = x.expected
         /\ Diverged(x).file = x.file /\ Diverged(x).entries = x.entries
BY DEF Diverged, Cur, Manager

\* The end of the fence.
LEMMA UnfencedMarks ==
  ASSUME NEW a \in Actor, NEW x \in Manager
  PROVE  /\ Unfenced(a, x) \in Manager /\ Cur(Unfenced(a, x)) = Cur(x)
         /\ Unfenced(a, x).failed = x.failed
         /\ Unfenced(a, x).released = x.released /\ Unfenced(a, x).dirty = x.dirty
         /\ Unfenced(a, x).batch = x.batch /\ Unfenced(a, x).claimed = x.claimed
         /\ Unfenced(a, x).staged = x.staged /\ Unfenced(a, x).expected = x.expected
         /\ Unfenced(a, x).file = x.file /\ Unfenced(a, x).entries = x.entries
         /\ Unfenced(a, x).fence = (x.fence /\ op[a].stale)
BY DEF Unfenced, Cur, Manager

\* A size has no header of another session in it, when it is that of a body, or of a
\* journal of the session's.
LEMMA NoHeader ==
  ASSUME NEW s \in Seq(Line)
  PROVE  0 \notin SizeOf(s) /\ SizeOf(s) \in Sizes
<1>1. ToSet(s) \subseteq Line
  BY MembersFacts
<1>2. Line \subseteq -1..MaxEntry + MaxAlien
  BY JournalAssumption DEF Line, Own, Alien
<1> QED BY <1>1, <1>2, Basics DEF SizeOf, Sizes

\* Nor has the size of a file that is missing or the session's.
LEMMA NoHeaderIn ==
  ASSUME NEW c \in Content, c = Missing \/ c.id \in File
  PROVE  0 \notin Size(c)
<1>1. 0 \notin SizeOf(c.lines) /\ 0 \notin Absent
  BY NoHeader DEF Content, Absent
<1> QED BY <1>1 DEF Size

\* What was read back, or found, leaves no header in what is expected.
LEMMA RecoveredSize ==
  ASSUME NEW x \in Manager, NEW c \in Content, x.file \in File, 0 \notin x.expected
  PROVE  0 \notin Recovered(x, c).expected
<1>1. 0 \notin Absent
  BY DEF Absent
<1>2. c.id = x.file => 0 \notin Size(c)
  BY NoHeaderIn
<1> QED BY <1>1, <1>2, RecoveredAlike DEF Moved

\* Match sets what is expected and nothing else.
LEMMA MatchedAlike ==
  ASSUME IInv, NEW a \in Actor
  PROVE  /\ Alike(Matched(a), m) /\ Stays(Matched(a), m) /\ Matched(a).entries = m.entries
         /\ Matched(a).expected \in {m.expected, SizeOf(op[a].body)}
         /\ Matched(a).claimed = m.claimed
<1>1. op[a].body \in Seq(Line) /\ m \in Manager
  BY InvFacts DEF Operation
<1>2. SizeOf(op[a].body) \in Sizes
  BY <1>1, NoHeader
<1>3. [m EXCEPT !.expected = SizeOf(op[a].body)] \in Manager
  BY <1>1, <1>2 DEF Manager
<1>4. Alike(m, m) /\ Stays(m, m)
  BY <1>1 DEF Alike, Stays
<1> QED BY <1>1, <1>3, <1>4 DEF Matched, Alike, Stays, Cur, Manager

-----------------------------------------------------------------------------
\* What the operations turn into.

\* No body is staged in o, and it stands at pc.
Plain(o, pc, ensure, waits) ==
  /\ Blank(o) /\ o.pc = pc /\ o.ensure = ensure /\ o.waits = waits
  /\ ~o.repair /\ ~o.stale /\ 0 \notin o.expect

\* The records of the queue, and those outside it.
LEMMA PlainRecords ==
  ASSUME NEW a \in Actor, NEW e \in BOOLEAN
  PROVE  /\ Plain(Idle, "idle", FALSE, {}) /\ Plain(Rejected, "rejected", FALSE, {})
         /\ Plain([Idle EXCEPT !.pc = "deciding"], "deciding", FALSE, {})
         /\ Plain([Idle EXCEPT !.pc = "collecting"], "collecting", FALSE, {})
         /\ Plain(Scheduled(a, e), "queued", e, Before(a))
         /\ Plain(Flushing(a), "flushing", FALSE, Before(a))
<1>1. 0 \notin Absent
  BY DEF Absent
<1>2. /\ Blank(Idle) /\ Blank(Rejected) /\ Blank([Idle EXCEPT !.pc = "deciding"])
      /\ Blank([Idle EXCEPT !.pc = "collecting"]) /\ Blank(Scheduled(a, e)) /\ Blank(Flushing(a))
  BY BlankFields, FreshFields
<1>3. Plain(Idle, "idle", FALSE, {}) /\ Plain(Rejected, "rejected", FALSE, {})
  BY <1>1, <1>2 DEF Plain, Idle, Rejected
<1>4. /\ Plain([Idle EXCEPT !.pc = "deciding"], "deciding", FALSE, {})
      /\ Plain([Idle EXCEPT !.pc = "collecting"], "collecting", FALSE, {})
  BY <1>1, <1>2 DEF Plain, Idle
<1>5. Plain(Scheduled(a, e), "queued", e, Before(a))
  BY <1>1, <1>2 DEF Plain, Idle, Scheduled
<1>6. Plain(Flushing(a), "flushing", FALSE, Before(a))
  BY <1>1, <1>2 DEF Plain, Idle, Flushing
<1> QED BY <1>3, <1>4, <1>5, <1>6

\* An operation whose work in the queue has ended.
LEMMA EndedRecord ==
  ASSUME NEW a \in Actor
  PROVE  /\ Blank(Ended(a)) /\ ~Ended(a).repair /\ ~Ended(a).stale /\ ~Ended(a).ensure
         /\ Ended(a).pc \in {"idle", "flushing", "deciding"}
         /\ Ended(a).pc = "flushing" => op[a].ensure /\ Ended(a).waits = Before(a)
         /\ a = "batch" => (Ended(a).pc = "flushing" <=> op[a].ensure) /\ Ended(a).pc # "idle"
         /\ Ended(a).pc = "deciding" => a = "batch"
         /\ 0 \notin Ended(a).expect
<1>1. /\ Plain(Idle, "idle", FALSE, {}) /\ Plain(Flushing(a), "flushing", FALSE, Before(a))
      /\ Plain([Idle EXCEPT !.pc = "deciding"], "deciding", FALSE, {})
  BY PlainRecords
<1>2. CASE a = "rewrite"
  BY <1>1, <1>2 DEF Ended, Plain
<1>3. CASE a # "rewrite" /\ op[a].ensure
  BY <1>1, <1>3 DEF Ended, Plain
<1>4. CASE a # "rewrite" /\ ~op[a].ensure
  <2>1. Ended(a) = [Idle EXCEPT !.pc = "deciding"] /\ a = "batch"
    BY <1>4 DEF Ended, Actor
  <2> QED BY <1>1, <1>4, <2>1 DEF Plain
<1> QED BY <1>2, <1>3, <1>4

\* Another pass.
LEMMA AgainRecord ==
  ASSUME IInv, NEW a \in Actor, NEW tries \in Nat, Again(a, tries)
  PROVE  /\ op'[a].pc = "closing" /\ ~op'[a].repair /\ op'[a].stale = op[a].stale
         /\ op'[a].ensure = op[a].ensure /\ op'[a].waits = {} /\ op'[a].tries = tries
         /\ 0 \notin op'[a].expect /\ op'[a] \in Operation
         /\ \A b \in Actor \ {a} : op'[b] = op[b]
<1> DEFINE e == op[a].ensure
           s == op[a].stale
           rec == [Idle EXCEPT !.pc = "closing", !.ensure = e, !.stale = s, !.tries = tries]
<1>1. op \in [Actor -> Operation] /\ e \in BOOLEAN /\ s \in BOOLEAN
  BY InvFacts DEF Operation
<1>2. op' = [op EXCEPT ![a] = rec]
  BY DEF Again
<1> HIDE DEF e, s
<1>3. /\ rec.pc = "closing" /\ ~rec.repair /\ rec.stale = s /\ rec.ensure = e /\ rec.waits = {}
      /\ rec.tries = tries /\ rec.expect = Absent
  BY DEF Idle
<1>4. rec \in Operation
  <2>1. Idle \in Operation /\ "closing" \in Pc
    BY BlankFields DEF Blank, Pc, HopPc
  <2> QED BY <1>1, <2>1 DEF Operation
<1> HIDE DEF rec
<1> QED BY <1>1, <1>2, <1>3, <1>4 DEF Absent, e, s

\* A body is staged.
LEMMA StagesRecord ==
  ASSUME IInv, NEW a \in Actor, NEW x \in Manager, NEW tries \in Nat, Stages(a, x, tries)
  PROVE  /\ m' = x /\ x.file \in File
         /\ op'[a].pc = "staging" /\ op'[a].repair = op[a].repair /\ op'[a].stale = op[a].stale
         /\ op'[a].ensure = op[a].ensure /\ op'[a].waits = op[a].waits
         /\ op'[a].body = x.entries /\ op'[a].expect = x.expected /\ op'[a].target = x.file
         /\ op'[a].seen = Missing /\ op'[a] \in Operation
         /\ \A b \in Actor \ {a} : op'[b] = op[b]
<1> DEFINE o == op[a]
           rec == [o EXCEPT !.pc = "staging", !.body = x.entries, !.expect = x.expected,
                            !.target = x.file, !.tries = tries, !.seen = Missing]
<1>1. op \in [Actor -> Operation] /\ o \in Operation
  BY InvFacts
<1>2. x.file \in File /\ m' = x /\ op' = [op EXCEPT ![a] = rec]
  BY DEF Stages
<1> HIDE DEF o
<1>3. rec \in Operation
  BY <1>1, <1>2, Basics DEF Operation, Manager, Pc, IOPc
<1>4. /\ rec.pc = "staging" /\ rec.body = x.entries /\ rec.expect = x.expected
      /\ rec.target = x.file /\ rec.seen = Missing
  BY <1>1 DEF Operation
<1>5. /\ rec.repair = o.repair /\ rec.stale = o.stale /\ rec.ensure = o.ensure
      /\ rec.waits = o.waits
  BY <1>1 DEF Operation
<1> HIDE DEF rec
<1> QED BY <1>1, <1>2, <1>3, <1>4, <1>5 DEF o

\* The actor beside a, and what Control says of the two.
LEMMA Beside ==
  ASSUME IInv, Control, NEW a \in Actor
  PROVE  \E b \in Actor :
           /\ a # b /\ Actor = {a, b} /\ (a = "batch" => b = "rewrite") /\ (b = "batch" => a = "rewrite")
           /\ Apart(op[a], op[b]) /\ Apart(op[b], op[a])
           /\ Turns(a, op[a], b, op[b]) /\ Turns(b, op[b], a, op[a])
           /\ Held(op[a], m) /\ Held(op[b], m) /\ 0 \notin op[a].expect /\ 0 \notin op[b].expect
           /\ op[a] \in Operation /\ op[b] \in Operation /\ m \in Manager
           /\ RepairOk(op[a], a) /\ RepairOk(op[b], b) /\ 0 \notin m.expected /\ Batching
<1>1. PICK b \in Actor : a # b /\ Actor = {a, b}
  BY TwoActors
<1>2. {a, b} = {"batch", "rewrite"}
  BY <1>1 DEF Actor
<1> QED BY <1>1, <1>2, InvFacts DEF Control

-----------------------------------------------------------------------------
\* Control after each step.

\* All work of an epoch is overtaken at its end.
LEMMA StaleOvertook ==
  ASSUME IInv, op' = Stale
  PROVE  \A c \in Actor : Overtook(op'[c], op[c])
<1>1. ASSUME NEW c \in Actor PROVE Overtook(op'[c], op[c])
  <2>1. op'[c] = Overtaken(op[c]) /\ op[c] \in Operation
    BY InvFacts DEF Stale
  <2> QED BY <2>1, OvertookFields
<1> QED BY <1>1

\* Control after a synchronous rewrite.
LEMMA SyncControl ==
  ASSUME IInv, Control, NEW x \in Manager, x.file \in File, 0 \notin x.expected,
         ~x.batch, x.staged = {}, RewriteSynchronously(x)
  PROVE  Control'
<1> DEFINE h == Housed(x)
           y == [h EXCEPT !.writer = FALSE, !.fence = FALSE]
           clash == Size(disk[y.file]) # y.expected
           z == IF clash THEN Recovered(y, disk[y.file]) ELSE y
           final == IF clash /\ y.expected = Absent THEN y ELSE z
<1>1. /\ h \in Manager /\ ~h.batch /\ h.staged = {} /\ 0 \notin h.expected
      /\ h.file = x.file \/ h.expected = Absent
  BY HousedAlike DEF Alike, Stays, Moved, Absent
<1>2. /\ final.file \in File /\ op' = Stale
      /\ \/ m' = [z EXCEPT !.failed = FALSE, !.expected = SizeOf(z.entries),
                              !.current = TRUE, !.required = FALSE]
         \/ m' = [final EXCEPT !.failed = TRUE]
  BY DEF RewriteSynchronously
<1> HIDE DEF h
<1>3. /\ y \in Manager /\ ~y.batch /\ y.staged = {} /\ 0 \notin y.expected
      /\ y.file = h.file /\ y.expected = h.expected
  BY <1>1 DEF Manager
<1> HIDE DEF y
<1>4. y.file \in File
  <2>1. y.expected = Absent => final = y
    OBVIOUS
  <2> QED BY <1>1, <1>2, <1>3, <2>1
<1>5. disk[y.file] \in Content
  BY <1>4, InvFacts
<1>6. z \in Manager /\ ~z.batch /\ z.staged = {} /\ 0 \notin z.expected
  <2>1. CASE clash
    BY <1>3, <1>4, <1>5, <2>1, RecoveredAlike, RecoveredSize DEF Alike
  <2> QED BY <1>3, <2>1
<1> HIDE DEF clash, z
<1>7. final \in Manager /\ ~final.batch /\ final.staged = {} /\ 0 \notin final.expected
  BY <1>3, <1>6
<1> HIDE DEF final
<1>8. ~m'.batch /\ m'.staged = {} /\ 0 \notin m'.expected
  <2>1. 0 \notin SizeOf(z.entries)
    BY <1>6, NoHeader DEF Manager
  <2> QED BY <1>2, <1>6, <1>7, <2>1 DEF Manager
<1> QED BY <1>2, <1>8, StaleOvertook, ControlStale

\* Control after FlushSync.
LEMMA FlushSyncControl == ASSUME IInv, Control, FlushSync PROVE Control'
<1>1. m \in Manager /\ m.file \in File /\ 0 \notin m.expected /\ Batching
  BY InvFacts DEF Control
<1> QED BY <1>1, SyncControl DEF FlushSync, Batching

\* Control after Seal.
LEMMA SealControl == ASSUME IInv, Control, Seal PROVE Control'
<1>1. m \in Manager /\ 0 \notin m.expected /\ Batching
  BY InvFacts DEF Control
<1>2. m'.released /\ m'.batch = m.batch /\ m'.staged = m.staged /\ m'.expected = m.expected
  BY <1>1 DEF Seal, Manager
<1> QED BY <1>1, <1>2, StaleOvertook, ControlStale DEF Seal, Batching

\* Control after AppendEntry.
LEMMA AppendEntryControl == ASSUME IInv, Control, AppendEntry PROVE Control'
<1> DEFINE x == Record(m, m.next)
           y == IF m.failed THEN Diverged(x) ELSE x
<1>1. m \in Manager /\ m.file \in File /\ 0 \notin m.expected /\ Batching /\ m.next \in Own
      /\ op \in [Actor -> Operation]
  BY InvFacts DEF Control, AppendEntry
<1>2. /\ x \in Manager /\ x.expected = m.expected /\ x.file = m.file /\ x.batch = m.batch
      /\ x.staged = m.staged /\ x.failed = m.failed /\ x.fence = m.fence /\ x.dirty = m.dirty
      /\ x.claimed = m.claimed /\ x.released = m.released /\ x.current = m.current
      /\ x.required = m.required
  <2> DEFINE s == Append(m.entries, m.next)
  <2>1. s \in Seq(Line) /\ m.next + 1 \in Nat
    BY <1>1, AppendProperties DEF Manager, Line
  <2>2. x = [m EXCEPT !.entries = s, !.next = m.next + 1]
    BY DEF Record
  <2> HIDE DEF s, x
  <2> QED BY <1>1, <2>1, <2>2 DEF Manager
<1> HIDE DEF x
<1>3. /\ y \in Manager /\ y.expected = m.expected /\ y.file = m.file /\ y.batch = m.batch
      /\ y.staged = m.staged /\ y.failed = m.failed /\ y.fence = m.fence /\ y.dirty = m.dirty
      /\ y.claimed = m.claimed /\ y.released = m.released /\ (Cur(y) => Cur(m) /\ ~m.failed)
  BY <1>2, MarksAlike DEF Cur
<1>4. \/ m.batch /\ m' = Deferred(x) /\ op' = op
      \/ ~m.batch /\ \E d \in BOOLEAN : RewriteSynchronously([y EXCEPT !.dirty = d])
      \/ Cur(y) /\ AppendLine(Claim(y), m.next)
  <2>1. y.dirty \in BOOLEAN /\ y.fence \in BOOLEAN
    BY <1>3 DEF Manager
  <2> QED BY <2>1 DEF AppendEntry, Cur, x
<1> HIDE DEF y
<1>7. ASSUME op' = op, ~(m'.dirty /\ Cur(m')) \/ (m.dirty /\ Cur(m)),
             m'.released = m.released, m.claimed => m'.claimed,
             m.failed => m'.failed, m'.fence = m.fence, 0 \notin m'.expected, Batching'
      PROVE  Control'
  <2>1. \A a1, a2 \in Actor : a1 # a2 =>
          Apart(op'[a1], op'[a2]) /\ Turns(a1, op'[a1], a2, op'[a2])
    BY <1>7 DEF Control
  <2>2. ASSUME NEW c \in Actor PROVE Held(op'[c], m') /\ 0 \notin op'[c].expect
    <3>1. Held(op[c], m) /\ 0 \notin op[c].expect /\ op'[c] = op[c]
      BY <1>7 DEF Control
    <3> QED BY <1>7, <3>1 DEF Held
  <2> QED BY <1>7, <2>1, <2>2 DEF Control
<1>8. ASSUME m.batch, m' = Deferred(x), op' = op
      PROVE  Control'
  <2>1. /\ m'.dirty /\ ~Cur(m') /\ m'.released = m.released /\ m'.claimed = m.claimed
        /\ m'.failed = m.failed /\ m'.fence = m.fence /\ m'.expected = m.expected
        /\ m'.batch = m.batch /\ m'.staged = m.staged
    BY <1>2, <1>8 DEF Deferred, Diverged, Cur, Manager
  <2>2. Batching'
    BY <1>1, <1>8, <2>1 DEF Batching
  <2> QED BY <1>1, <1>7, <1>8, <2>1, <2>2
<1>9. ASSUME ~m.batch, NEW d \in BOOLEAN, RewriteSynchronously([y EXCEPT !.dirty = d])
      PROVE  Control'
  <2> DEFINE z == [y EXCEPT !.dirty = d]
  <2>1. /\ z \in Manager /\ z.expected = y.expected /\ z.file = y.file /\ z.batch = y.batch
        /\ z.staged = y.staged
    BY <1>3 DEF Manager
  <2>2. RewriteSynchronously(z)
    BY <1>9
  <2> HIDE DEF z
  <2> QED BY <1>1, <1>3, <1>9, <2>1, <2>2, SyncControl DEF Batching
<1>10. ASSUME Cur(y), AppendLine(Claim(y), m.next)
       PROVE  Control'
  <2> DEFINE c == Claim(y)
  <2>1. /\ c \in Manager /\ c.expected = y.expected /\ c.batch = y.batch
        /\ c.staged = y.staged /\ c.failed = y.failed /\ c.fence = y.fence /\ c.dirty = y.dirty
        /\ c.released = y.released
    BY <1>3, ClaimFields
  <2>2. c.claimed = (y.claimed \/ Claimable(y))
    BY <1>3 DEF Claim, Manager
  <2>3. /\ op' = op
        /\ \/ m' = [c EXCEPT !.writer = TRUE, !.expected = (@ \ Absent) \cup {m.next}]
           \/ m' = [c EXCEPT !.writer = TRUE, !.failed = TRUE, !.current = FALSE, !.required = TRUE]
    BY <1>10 DEF AppendLine
  <2> HIDE DEF c
  <2>4. /\ m'.batch = c.batch /\ m'.staged = c.staged /\ (c.failed => m'.failed)
        /\ m'.fence = c.fence /\ m'.dirty = c.dirty /\ m'.released = c.released
        /\ m'.claimed = c.claimed
    BY <2>1, <2>3 DEF Manager
  <2>5. 0 \notin m'.expected
    <3>1. 0 \notin c.expected /\ m.next # 0
      BY <1>1, <1>3, <2>1, Basics DEF Line
    <3>2. m.next \in -1..MaxEntry + MaxAlien
      BY <1>1, JournalAssumption DEF Own
    <3>3. (c.expected \ Absent) \cup {m.next} \in Sizes
      BY <2>1, <3>2 DEF Manager, Sizes
    <3>4. m'.expected \in {c.expected, (c.expected \ Absent) \cup {m.next}}
      BY <2>1, <2>3, <3>3 DEF Manager
    <3> QED BY <3>1, <3>4
  <2>6. Batching'
    BY <1>1, <1>3, <2>1, <2>3, <2>4 DEF Batching
  <2> QED BY <1>3, <1>7, <1>10, <2>1, <2>2, <2>3, <2>4, <2>5, <2>6
<1> QED BY <1>4, <1>8, <1>9, <1>10

\* Control after Rewrite.
LEMMA RewriteControl == ASSUME IInv, Control, Rewrite PROVE Control'
<1> DEFINE a == "rewrite"
           rec == Scheduled(a, FALSE)
<1>1. a \in Actor
  BY InvFacts
<1>2. PICK b \in Actor : /\ a # b /\ Actor = {a, b} /\ op[b] \in Operation
                         /\ Held(op[a], m) /\ 0 \notin m.expected
  BY <1>1, Beside
<1>3. Plain(rec, "queued", FALSE, Before(a))
  BY <1>1, PlainRecords
<1>4. op' = [op EXCEPT ![a] = rec] /\ m' = m /\ op \in [Actor -> Operation]
  BY InvFacts DEF Rewrite
<1> HIDE DEF rec
<1>5. op'[a] = rec /\ op'[b] = op[b]
  BY <1>1, <1>2, <1>4
<1>6. ~Live(op'[a]) /\ ~Repairing(op'[a]) /\ op'[a].pc = "queued"
  BY <1>3, <1>5 DEF Plain, Live, Repairing, Running
<1>7. Keeps(a) /\ Proceeds(a, b) /\ KeepsTurn(a, b)
  BY <1>3, <1>4, <1>5, <1>6 DEF Keeps, Proceeds, KeepsTurn, HopPc, TailPc, Plain
<1>8. Held(op'[a], m')
  BY <1>6 DEF Held
<1>9. Steady(op'[b], op[b])
  BY <1>2, <1>5, SteadySame
<1>10. Batching'
  BY <1>1, <1>2, <1>4, <1>6, <1>9, BatchingKept
<1> HIDE DEF a
<1> QED BY <1>1, <1>2, <1>3, <1>4, <1>5, <1>7, <1>8, <1>9, <1>10, ControlStep DEF Plain

\* Control after BatchBegins.
LEMMA BatchBeginsControl == ASSUME IInv, Control, BatchBegins PROVE Control'
<1> DEFINE a == "batch"
           rec == IF m.current /\ ~m.required THEN Flushing(a) ELSE Scheduled(a, TRUE)
<1>1. a \in Actor
  BY InvFacts
<1>2. PICK b \in Actor : /\ a # b /\ Actor = {a, b} /\ op[b] \in Operation /\ Batching
                         /\ Held(op[a], m) /\ 0 \notin m.expected
  BY <1>1, Beside
<1>3. /\ rec.pc \in {"queued", "flushing"} /\ rec.waits = Before(a) /\ ~rec.repair /\ ~rec.stale
      /\ 0 \notin rec.expect
  BY <1>1, PlainRecords DEF Plain
<1>4. op' = [op EXCEPT ![a] = rec] /\ m' = m /\ op \in [Actor -> Operation]
  BY InvFacts DEF BatchBegins
<1> HIDE DEF rec
<1>5. op'[a] = rec /\ op'[b] = op[b]
  BY <1>1, <1>2, <1>4
<1>6. ~Live(op'[a]) /\ ~Repairing(op'[a]) /\ op'[a].pc \in {"queued", "flushing"}
  BY <1>3, <1>5 DEF Live, Repairing, Running
<1>7. Keeps(a) /\ Proceeds(a, b) /\ KeepsTurn(a, b)
  BY <1>3, <1>4, <1>5, <1>6 DEF Keeps, Proceeds, KeepsTurn, HopPc, TailPc
<1>8. Held(op'[a], m')
  BY <1>6 DEF Held
<1>9. Steady(op'[b], op[b])
  BY <1>2, <1>5, SteadySame
<1>10. ~m.batch
  BY <1>2 DEF BatchBegins, Batching, Preparing
<1>11. Batching'
  BY <1>1, <1>2, <1>4, <1>6, <1>9, <1>10, BatchingKept
<1> HIDE DEF a
<1> QED BY <1>1, <1>2, <1>3, <1>4, <1>5, <1>7, <1>8, <1>9, <1>11, ControlStep

\* No continuation is due but a's.
Foremost(a) == op[a].pc \in HopPc \/ \A b \in Actor : op[b].pc \notin HopPc

\* Control when the work of a has ended.
LEMMA EndedControl ==
  ASSUME IInv, Control, NEW a \in Actor, Leaves(a, Ended(a)), Foremost(a), Keeps(a),
         m'.batch = m.batch, m'.staged = m.staged, m'.dirty => m.dirty, 0 \notin m'.expected
  PROVE  Control'
<1> DEFINE rec == Ended(a)
<1>1. PICK b \in Actor : a # b /\ Actor = {a, b} /\ op[b] \in Operation
  BY Beside
<1>2. op'[a] = rec /\ Steady(op'[b], op[b])
  BY <1>1, LeavesSteady, EndedFields, InvFacts DEF Blank
<1>3. /\ ~rec.repair /\ ~rec.stale /\ ~rec.ensure
      /\ rec.pc \in {"idle", "flushing", "deciding"}
      /\ rec.pc = "flushing" => op[a].ensure /\ rec.waits = Before(a)
      /\ a = "batch" => rec.pc # "idle"
      /\ 0 \notin rec.expect
  BY EndedRecord
<1> HIDE DEF rec
<1>4. ~Live(op'[a]) /\ ~Repairing(op'[a])
  BY <1>2, <1>3 DEF Live, Repairing, Running
<1>5. Proceeds(a, b)
  BY <1>1, <1>2, <1>3, <1>4 DEF Proceeds, Foremost
<1>6. KeepsTurn(a, b)
  BY <1>2, <1>3 DEF KeepsTurn, Tailed, RestPc, TailPc
<1>7. Held(op'[a], m')
  BY <1>2, <1>3, <1>4 DEF Held
<1>8. a = "batch" /\ Preparing(op'[a]) => Preparing(op[a])
  BY <1>2, <1>3 DEF Preparing, RestPc
<1>9. Batching'
  BY <1>1, <1>2, <1>4, <1>8, BatchingKept DEF Keeps
<1> QED BY <1>1, <1>2, <1>3, <1>5, <1>6, <1>7, <1>9, ControlStep

\* Control when a goes on to pc.
LEMMA GoesControl ==
  ASSUME IInv, Control, NEW a \in Actor, NEW pc \in (IOPc \cup HopPc) \ {"collecting"}, Goes(a, pc),
         Foremost(a) \/ pc \notin HopPc,
         op[a].pc \notin RestPc \cup {"collecting", "deciding"} \/ pc = "deciding",
         op[a].pc \in TailPc => op[a].waits = {},
         pc \in {"conflict", "marking"} => Live(op[a]), pc \in Running => op[a].pc \in Running,
         pc \in {"draining", "repaired"} => op[a].pc \in Running /\ op[a].repair,
         Keeps(a), m'.batch = m.batch, m'.staged = m.staged, m'.dirty => m.dirty,
         0 \notin m'.expected, Held(op'[a], m')
  PROVE  Control'
<1>1. PICK b \in Actor : a # b /\ Actor = {a, b} /\ op[b] \in Operation /\ 0 \notin op[a].expect
  BY Beside
<1>2. pc \in Pc /\ pc \notin TailPc /\ pc \notin RestPc /\ pc \notin {"flushing", "collecting"}
  BY DEF Pc, IOPc, HopPc, TailPc, RestPc
<1>3. /\ op'[a].pc = pc /\ SameData(op'[a], op[a]) /\ op'[a].repair = op[a].repair
      /\ op'[a].stale = op[a].stale /\ op'[a].ensure = op[a].ensure
      /\ op'[a].waits = op[a].waits
      /\ op'[b] = op[b]
  BY <1>1, <1>2, InvFacts, GoesSteady
<1>4. Live(op'[a]) => Live(op[a])
  BY <1>3 DEF Live
<1>5. Proceeds(a, b)
  BY <1>1, <1>3, <1>4 DEF Proceeds, Foremost, Repairing
<1>6. KeepsTurn(a, b)
  BY <1>2, <1>3 DEF KeepsTurn, Tailed
<1>7. 0 \notin op'[a].expect
  BY <1>1, <1>3 DEF SameData
<1>8. Steady(op'[b], op[b])
  BY <1>1, <1>3, SteadySame
<1>9. a = "batch" /\ Preparing(op'[a]) => Preparing(op[a])
  BY <1>2, <1>3 DEF Preparing, TailPc
<1>10. Batching'
  BY <1>1, <1>4, <1>8, <1>9, BatchingKept DEF Keeps
<1> QED BY <1>1, <1>5, <1>6, <1>7, <1>8, <1>10, ControlStep

\* The manager stays as it is.
LEMMA SameKeeps ==
  ASSUME NEW a \in Actor, m' = m
  PROVE  Keeps(a)
BY DEF Keeps

\* Control after Starts.
LEMMA StartsControl == ASSUME IInv, Control, NEW a \in Actor, Starts(a) PROVE Control'
<1>1. PICK b \in Actor : /\ a # b /\ Actor = {a, b} /\ op[b] \in Operation
                         /\ Turns(a, op[a], b, op[b]) /\ Held(op[b], m) /\ Held(op[a], m)
                         /\ 0 \notin m.expected /\ 0 \notin op[a].expect /\ m \in Manager
  BY Beside
<1>2. /\ op[a].pc = "queued" /\ op[a].waits = {} /\ \A c \in Actor : op[c].pc \notin HopPc
      /\ ~op[a].repair
  BY NoRepair DEF Starts, Reached, At, Here, RepairPc
<1>3. Foremost(a)
  BY <1>2 DEF Foremost
<1>4. CASE op[a].stale
  BY <1>1, <1>3, <1>4, EndedControl, SameKeeps DEF Starts
<1>5. CASE ~op[a].stale /\ m.failed
  <2>1. Goes(a, "failing") /\ m' = m
    BY <1>5 DEF Starts
  <2>2. op'[a].pc = "failing"
    BY <2>1, GoesSteady, InvFacts DEF Pc, HopPc
  <2>3. Held(op'[a], m')
    BY <2>2 DEF Held, Repairing, Live, Running
  <2> QED BY <1>1, <1>2, <1>3, <2>1, <2>3, GoesControl, SameKeeps
             DEF IOPc, HopPc, RestPc, Running
<1>6. CASE ~op[a].stale /\ ~m.failed
  <2>1. Goes(a, "closing") /\ m' = [m EXCEPT !.fence = TRUE, !.dirty = FALSE, !.writer = FALSE]
    BY <1>6 DEF Starts
  <2>2. /\ m'.fence = TRUE /\ m'.dirty = FALSE /\ m'.failed = m.failed /\ m'.released = m.released
        /\ m'.claimed = m.claimed /\ m'.batch = m.batch /\ m'.staged = m.staged
        /\ m'.expected = m.expected
    BY <1>1, <2>1 DEF Manager
  <2>3. /\ op'[a].pc = "closing" /\ SameData(op'[a], op[a]) /\ op'[a].repair = op[a].repair
        /\ op'[a].stale = op[a].stale /\ op'[a].ensure = op[a].ensure
        /\ op'[a].waits = op[a].waits /\ op'[b] = op[b]
    BY <1>1, <2>1, GoesSteady, InvFacts DEF Pc, HopPc
  <2>4. ~Live(op[b]) /\ op[b].pc # "conflict" /\ ~Repairing(op[b])
    <3>1. Tailed(op[a])
      BY <1>2, <1>6 DEF Tailed, RestPc
    <3>2. Tailed(op[b]) => op[b].pc \in TailPc
      BY <1>1, <1>2, <3>1 DEF Turns, TailPc
    <3>3. Live(op[b]) => op[b].repair \/ Tailed(op[b])
      BY DEF Live, Tailed, Running, RestPc
    <3>4. op[b].pc \in TailPc => ~Live(op[b])
      BY DEF TailPc, Live, Running
    <3>5. ~Repairing(op[b])
      BY <1>1, <1>2, <1>6 DEF Held, HopPc
    <3> QED BY <1>2, <3>2, <3>3, <3>4, <3>5 DEF Live, Repairing, HopPc
  <2>5. Keeps(a)
    BY <2>2 DEF Keeps
  <2>6. Proceeds(a, b)
    BY <1>2, <2>3, <2>4 DEF Proceeds, HopPc, Repairing
  <2>7. KeepsTurn(a, b)
    BY <1>2, <2>3 DEF KeepsTurn, Tailed, RestPc, TailPc
  <2>8. Held(op'[a], m')
    BY <1>2, <2>2, <2>3 DEF Held, Repairing
  <2>9. Steady(op'[b], op[b])
    BY <1>1, <2>3, SteadySame
  <2>10. Batching'
    BY <1>1, <1>2, <2>2, <2>3, <2>9, BatchingKept DEF Preparing, RestPc
  <2> QED BY <1>1, <2>2, <2>3, <2>5, <2>6, <2>7, <2>8, <2>9, <2>10, ControlStep DEF SameData
<1> QED BY <1>4, <1>5, <1>6

\* Control after a body has been staged by an operation that is under way.
LEMMA StagesControl ==
  ASSUME IInv, Control, NEW a \in Actor, NEW x, NEW tries \in Nat, Stages(a, x, tries),
         Alike(x, m) \/ Alike(x, [m EXCEPT !.dirty = FALSE]), 0 \notin x.expected,
         ~x.released => x.claimed, op[a].pc \in Running \cap HopPc
  PROVE  Control'
<1>1. PICK b \in Actor : a # b /\ Actor = {a, b} /\ op[b] \in Operation /\ Held(op[a], m) /\ m \in Manager
  BY Beside
<1>2. /\ x \in Manager /\ x.released = m.released /\ x.failed = m.failed
      /\ x.fence = m.fence /\ (x.dirty => m.dirty) /\ x.batch = m.batch /\ x.staged = m.staged
      /\ (m.claimed => x.claimed) /\ (Cur(x) => Cur(m))
  <2> DEFINE y == [m EXCEPT !.dirty = FALSE]
  <2>1. /\ y.released = m.released /\ y.failed = m.failed /\ y.fence = m.fence
        /\ y.dirty = FALSE /\ y.batch = m.batch /\ y.staged = m.staged
        /\ y.claimed = m.claimed /\ Cur(y) = Cur(m)
    BY <1>1 DEF Manager, Cur
  <2> HIDE DEF y
  <2>2. Alike(x, m) \/ Alike(x, y)
    BY DEF y
  <2> QED BY <2>1, <2>2 DEF Alike
<1>3. /\ m' = x
      /\ op'[a].pc = "staging" /\ op'[a].repair = op[a].repair /\ op'[a].stale = op[a].stale
      /\ op'[a].ensure = op[a].ensure /\ op'[a].waits = op[a].waits
      /\ op'[a].expect = x.expected /\ op'[b] = op[b]
  BY <1>1, <1>2, StagesRecord
<1>4. Keeps(a)
  BY <1>2, <1>3 DEF Keeps
<1>5. Live(op'[a]) = Live(op[a]) /\ (Repairing(op'[a]) => Repairing(op[a])) /\ op[a].pc # "repaired"
  BY <1>3 DEF Live, Repairing, Running
<1>6. Proceeds(a, b)
  BY <1>3, <1>5 DEF Proceeds, HopPc
<1>7. KeepsTurn(a, b)
  BY <1>1, <1>3 DEF KeepsTurn, Tailed, Running, RestPc, TailPc
<1>8. Held(op'[a], m')
  BY <1>1, <1>2, <1>3, <1>5 DEF Held
<1>9. Steady(op'[b], op[b])
  BY <1>1, <1>3, SteadySame
<1>10. Batching'
  BY <1>1, <1>2, <1>3, <1>5, <1>9, BatchingKept DEF Preparing, RestPc
<1> QED BY <1>1, <1>3, <1>4, <1>6, <1>7, <1>8, <1>9, <1>10, ControlStep

\* A manager that is but housed keeps all that Control asks.
LEMMA AlikeKeeps ==
  ASSUME NEW a \in Actor, Alike(m', m)
  PROVE  /\ Keeps(a) /\ m'.batch = m.batch /\ m'.staged = m.staged /\ (m'.dirty => m.dirty)
BY DEF Keeps, Alike

\* The size a housed manager expects.
LEMMA HousedSize ==
  ASSUME NEW x \in Manager, 0 \notin x.expected
  PROVE  0 \notin Housed(x).expected
<1>1. 0 \notin Absent
  BY DEF Absent
<1> QED BY <1>1, HousedAlike DEF Moved

\* Control after Serializes.
LEMMA SerializesControl == ASSUME IInv, Control, NEW a \in Actor, Serializes(a) PROVE Control'
<1>1. m \in Manager /\ 0 \notin m.expected /\ op[a].tries \in Nat
  BY InvFacts DEF Control, Operation
<1>2. op[a].pc = "closing" /\ op[a].pc \in Running \cap HopPc
  BY DEF Serializes, At, Here, Running, HopPc
<1>3. Alike(Housed(m), m) /\ 0 \notin Housed(m).expected /\ (~Housed(m).released => Housed(m).claimed)
  BY <1>1, HousedAlike, HousedSize DEF Alike
<1>4. CASE op[a].stale
  <2>1. m' = Housed(m) /\ Leaves(a, Ended(a))
    BY <1>4 DEF Serializes
  <2> QED BY <1>2, <1>3, <2>1, AlikeKeeps, EndedControl DEF Foremost
<1>5. CASE ~op[a].stale
  <2>1. Stages(a, Housed(m), op[a].tries)
    BY <1>5 DEF Serializes
  <2> QED BY <1>1, <1>2, <1>3, <2>1, StagesControl
<1> QED BY <1>4, <1>5

\* Control after Publishes.
LEMMA PublishesControl == ASSUME IInv, Control, NEW a \in Actor, Publishes(a) PROVE Control'
<1>1. /\ op[a].pc = "staging" /\ ~Pending /\ m' = m
  BY DEF Publishes, At, Here
<1>2. PICK pc \in {"published", "conflict", "checking"} :
        Goes(a, pc) /\ (pc = "conflict" => ~op[a].stale)
  BY DEF Publishes, CommitGuard
<1>3. Foremost(a)
  BY <1>1 DEF Pending, Foremost
<1>4. /\ op'[a].pc = pc /\ op'[a].repair = op[a].repair /\ op'[a].stale = op[a].stale
  BY <1>2, GoesSteady, InvFacts DEF Pc, HopPc, IOPc
<1>5. Held(op[a], m) /\ 0 \notin m.expected
  BY DEF Control
<1>6. Held(op'[a], m')
  BY <1>1, <1>2, <1>4, <1>5 DEF Held, Live, Repairing, Running
<1>7. pc \in {"conflict", "marking"} => Live(op[a])
  BY <1>1, <1>2 DEF Live, Running
<1>8. pc \in (IOPc \cup HopPc) \ {"collecting"} /\ pc \notin {"draining", "repaired", "deciding"}
  BY <1>2 DEF IOPc, HopPc
<1>9. op[a].pc \in Running /\ op[a].pc \notin RestPc \cup {"collecting", "deciding"} /\ op[a].pc \notin TailPc
  BY <1>1 DEF Running, RestPc, TailPc
<1> QED BY <1>1, <1>2, <1>3, <1>5, <1>6, <1>7, <1>8, <1>9, SameKeeps, GoesControl

\* Control when a rewrite starts another pass.
LEMMA AgainControl ==
  ASSUME IInv, Control, NEW a \in Actor, NEW tries \in Nat, Again(a, tries), m' \in Manager,
         m'.released = m.released, m'.fence = m.fence, m'.failed = m.failed, ~m'.dirty,
         m.claimed => m'.claimed, m'.batch = m.batch, m'.staged = m.staged,
         0 \notin m'.expected, op[a].pc \in Running \cap HopPc, ~op[a].repair
  PROVE  Control'
<1>1. PICK b \in Actor : a # b /\ Actor = {a, b} /\ op[b] \in Operation /\ Held(op[a], m)
  BY Beside
<1>2. /\ op'[a].pc = "closing" /\ ~op'[a].repair /\ op'[a].stale = op[a].stale
      /\ op'[a].ensure = op[a].ensure /\ op'[a].waits = {}
      /\ 0 \notin op'[a].expect /\ op'[b] = op[b]
  BY <1>1, AgainRecord
<1>3. Keeps(a)
  BY DEF Keeps
<1>4. Live(op'[a]) = Live(op[a]) /\ ~Repairing(op'[a])
  BY <1>2 DEF Live, Running, Repairing
<1>5. Proceeds(a, b)
  BY <1>2, <1>4 DEF Proceeds
<1>6. KeepsTurn(a, b)
  BY <1>1, <1>2 DEF KeepsTurn, Tailed, TailPc, HopPc, Running, RestPc
<1>7. Held(op'[a], m')
  BY <1>1, <1>2, <1>4 DEF Held
<1>8. Steady(op'[b], op[b])
  BY <1>1, <1>2, SteadySame
<1>9. Batching'
  BY <1>1, <1>2, <1>4, <1>8, BatchingKept DEF Preparing, RestPc
<1> QED BY <1>1, <1>2, <1>3, <1>5, <1>6, <1>7, <1>8, <1>9, ControlStep

\* The size of a body.
LEMMA BodySize ==
  ASSUME IInv, NEW a \in Actor
  PROVE  /\ 0 \notin SizeOf(op[a].body) /\ SizeOf(op[a].body) \in Sizes
         /\ op[a].body \in Seq(Line)
BY InvFacts, NoHeader DEF Operation

\* Control after Settles.
LEMMA SettlesControl == ASSUME IInv, Control, NEW a \in Actor, Settles(a) PROVE Control'
<1>1. /\ m \in Manager /\ 0 \notin m.expected /\ op[a].tries \in Nat
  BY InvFacts DEF Control, Operation
<1>2. op[a].pc = "published" /\ ~op[a].repair /\ op[a].pc \in Running \cap HopPc
  BY DEF Settles, At, Here, Running, HopPc
<1>3. CASE op[a].stale
  <2>1. Goes(a, "verifying") /\ m' = m
    BY <1>3 DEF Settles
  <2>2. op'[a].pc = "verifying"
    BY <2>1, GoesSteady, InvFacts DEF Pc, IOPc
  <2>3. Held(op'[a], m')
    BY <2>2 DEF Held, Repairing, Live, Running
  <2> QED BY <1>1, <1>2, <2>1, <2>3, GoesControl, SameKeeps
             DEF Foremost, IOPc, HopPc, RestPc, TailPc, Running
<1> DEFINE x == [m EXCEPT !.expected = SizeOf(op[a].body)]
<1>4. /\ x \in Manager /\ 0 \notin x.expected /\ x.released = m.released /\ x.fence = m.fence
      /\ x.failed = m.failed /\ x.claimed = m.claimed /\ x.batch = m.batch
      /\ x.staged = m.staged /\ x.dirty = m.dirty
  BY <1>1, BodySize DEF Manager
<1>5. CASE ~op[a].stale /\ m.dirty
  <2>1. Again(a, op[a].tries) /\ m' = [x EXCEPT !.dirty = FALSE, !.writer = FALSE]
    BY <1>5 DEF Settles
  <2> HIDE DEF x
  <2>2. /\ m' \in Manager /\ m'.expected = x.expected /\ m'.released = x.released
        /\ m'.fence = x.fence /\ ~m'.dirty
        /\ m'.failed = x.failed /\ m'.claimed = x.claimed /\ m'.batch = x.batch
        /\ m'.staged = x.staged
    BY <1>4, <2>1 DEF Manager
  <2> QED BY <1>1, <1>2, <1>4, <2>1, <2>2, AgainControl
<1>6. CASE ~op[a].stale /\ ~m.dirty
  <2>1. m' = [x EXCEPT !.fence = FALSE] /\ Goes(a, "marking")
    BY <1>6 DEF Settles
  <2> HIDE DEF x
  <2>2. /\ m'.expected = x.expected /\ m'.released = x.released /\ m'.dirty = x.dirty
        /\ m'.failed = x.failed /\ m'.claimed = x.claimed /\ m'.batch = x.batch
        /\ m'.staged = x.staged
    BY <1>4, <2>1 DEF Manager
  <2>3. Keeps(a) /\ Live(op[a])
    BY <1>2, <1>4, <1>6, <2>2 DEF Keeps, Live
  <2>4. op'[a].pc = "marking" /\ op'[a].repair = op[a].repair
    BY <2>1, GoesSteady, InvFacts DEF Pc, HopPc
  <2>5. Held(op'[a], m')
    BY <1>2, <2>4 DEF Held, Repairing, Live, Running
  <2> QED BY <1>2, <1>4, <2>1, <2>2, <2>3, <2>5, GoesControl
             DEF Foremost, HopPc, RestPc, TailPc, Running
<1> QED BY <1>3, <1>5, <1>6

\* Control after Marks.
LEMMA MarksControl == ASSUME IInv, Control, NEW a \in Actor, Marks(a) PROVE Control'
<1>1. m \in Manager /\ 0 \notin m.expected
  BY InvFacts DEF Control
<1>2. /\ op[a].pc = "marking" /\ Leaves(a, Ended(a))
      /\ m' = [m EXCEPT !.current = TRUE, !.required = FALSE]
  BY DEF Marks, Here
<1>3. /\ m'.expected = m.expected /\ m'.released = m.released /\ m'.dirty = m.dirty
      /\ m'.failed = m.failed /\ m'.claimed = m.claimed /\ m'.batch = m.batch
      /\ m'.staged = m.staged /\ m'.fence = m.fence
  BY <1>1, <1>2 DEF Manager
<1>4. Keeps(a)
  BY <1>2, <1>3 DEF Keeps
<1> QED BY <1>1, <1>2, <1>3, <1>4, EndedControl DEF Foremost, HopPc

\* Control after ReadsBack.
LEMMA ReadsBackControl == ASSUME IInv, Control, NEW a \in Actor, ReadsBack(a) PROVE Control'
<1>1. PICK b \in Actor : /\ a # b /\ Actor = {a, b} /\ op[b] \in Operation /\ op[a] \in Operation
                         /\ Held(op[a], m) /\ 0 \notin m.expected /\ 0 \notin op[a].expect
  BY Beside
<1> DEFINE pc == AfterRead[op[a].pc]
           s == disk[op[a].target]
           rec == [op[a] EXCEPT !.seen = s, !.pc = pc]
<1>2. /\ op[a].pc \in {"reading", "checking", "verifying"} /\ ~Pending /\ m' = m
      /\ op' = [op EXCEPT ![a] = rec] /\ op \in [Actor -> Operation]
  BY InvFacts DEF ReadsBack, AfterRead
<1>3. pc \in {"resolving", "checked", "verified"} /\ (pc # "verified" => op[a].pc \in Running)
  BY <1>2 DEF AfterRead, Running
<1> HIDE DEF pc, s
<1>4. /\ rec.pc = pc /\ rec.repair = op[a].repair /\ rec.stale = op[a].stale
      /\ rec.ensure = op[a].ensure /\ rec.waits = op[a].waits /\ rec.expect = op[a].expect
  BY <1>1 DEF Operation
<1> HIDE DEF rec
<1>5. op'[a] = rec /\ op'[b] = op[b]
  BY <1>1, <1>2
<1>6. (Live(op'[a]) => Live(op[a])) /\ (Repairing(op'[a]) => Repairing(op[a])) /\ op[a].pc # "repaired"
  BY <1>2, <1>3, <1>4, <1>5 DEF Live, Repairing, Running
<1>7. \A c \in Actor : op[c].pc \notin HopPc
  BY <1>2 DEF Pending
<1>8. Proceeds(a, b)
  BY <1>3, <1>4, <1>5, <1>6, <1>7 DEF Proceeds
<1>9. KeepsTurn(a, b)
  BY <1>1, <1>2, <1>3, <1>4, <1>5 DEF KeepsTurn, Tailed, TailPc, RestPc
<1>10. Held(op'[a], m')
  BY <1>1, <1>2, <1>3, <1>4, <1>5, <1>6 DEF Held
<1>11. Steady(op'[b], op[b])
  BY <1>1, <1>5, SteadySame
<1>12. Batching'
  BY <1>1, <1>2, <1>3, <1>4, <1>5, <1>6, <1>11, BatchingKept DEF Preparing, RestPc
<1> QED BY <1>1, <1>2, <1>4, <1>5, <1>8, <1>9, <1>10, <1>11, <1>12, ControlStep, SameKeeps

\* Control after Verified.
LEMMA VerifiedControl == ASSUME IInv, Control, NEW a \in Actor, Verified(a) PROVE Control'
<1>1. /\ 0 \notin m.expected /\ m' = Matched(a) /\ Leaves(a, Ended(a)) /\ Foremost(a)
  BY DEF Control, Verified, At, Here, Foremost, HopPc
<1>2. Alike(m', m) /\ 0 \notin m'.expected
  BY <1>1, MatchedAlike, BodySize
<1> QED BY <1>1, <1>2, AlikeKeeps, EndedControl

\* Control after a batch's repair has failed.
LEMMA IndeterminateControl ==
  ASSUME IInv, Control, NEW x, Alike(x, m), 0 \notin x.expected, Indeterminate("batch", x),
         op["batch"].repair, op["batch"].pc \in Running \cap HopPc
  PROVE  Control'
<1> DEFINE a == "batch"
           y == IF x.batch THEN Diverged(x) ELSE x
           u == Unfenced(a, y)
<1>1. PICK b \in Actor : /\ a # b /\ Actor = {a, b} /\ op[b] \in Operation /\ b = "rewrite"
                         /\ Apart(op[a], op[b]) /\ Batching
  BY InvFacts, Beside
<1>2. a \in Actor /\ x \in Manager /\ x.released = m.released /\ x.fence = m.fence
      /\ (m.claimed => x.claimed) /\ x.batch = m.batch /\ x.dirty = m.dirty /\ (Cur(x) => Cur(m))
  BY InvFacts DEF Alike
<1>3. /\ y \in Manager /\ y.released = x.released /\ y.fence = x.fence /\ y.claimed = x.claimed
      /\ y.expected = x.expected /\ y.dirty = x.dirty /\ (Cur(y) => Cur(x))
  BY <1>2, MarksAlike
<1> HIDE DEF y
<1>4. /\ u \in Manager /\ u.released = y.released /\ u.fence = (y.fence /\ op[a].stale)
      /\ u.claimed = y.claimed /\ u.expected = y.expected /\ u.dirty = y.dirty
      /\ Cur(u) = Cur(y)
  BY <1>2, <1>3, UnfencedMarks
<1>5. m' = [u EXCEPT !.failed = TRUE, !.batch = FALSE, !.staged = {}] /\ Leaves(a, Rejected)
  BY DEF Indeterminate, y
<1> HIDE DEF u
<1>6. /\ m'.released = u.released /\ m'.fence = u.fence /\ m'.claimed = u.claimed
      /\ m'.expected = u.expected /\ m'.dirty = u.dirty /\ Cur(m') = Cur(u)
      /\ m'.failed /\ ~m'.batch /\ m'.staged = {}
  BY <1>4, <1>5 DEF Manager, Cur
<1>7. op'[a] = Rejected /\ Steady(op'[b], op[b])
  BY <1>1, <1>2, <1>5, BlankFields, LeavesSteady, InvFacts DEF Blank
<1>8. Plain(Rejected, "rejected", FALSE, {})
  BY <1>2, PlainRecords
<1>9. Keeps(a)
  <2>1. ~op[a].stale => Live(op[a])
    BY DEF Live
  <2>2. m'.dirty /\ Cur(m') => m.dirty /\ Cur(m)
    BY <1>2, <1>3, <1>4, <1>6
  <2>3. m.fence /\ ~m'.fence => ~op[a].stale
    BY <1>2, <1>3, <1>4, <1>6
  <2>4. (m.released => m'.released) /\ (m.claimed => m'.claimed) /\ m'.failed
    BY <1>2, <1>3, <1>4, <1>6
  <2> QED BY <2>1, <2>2, <2>3, <2>4 DEF Keeps
<1>10. ~Live(op'[a]) /\ ~Repairing(op'[a]) /\ ~Tailed(op'[a]) /\ op'[a].pc \notin HopPc
       /\ 0 \notin op'[a].expect /\ op'[a].pc = "rejected"
  BY <1>7, <1>8 DEF Plain, Live, Repairing, Tailed, Running, RestPc, HopPc
<1>11. Proceeds(a, b) /\ KeepsTurn(a, b) /\ Held(op'[a], m')
  BY <1>10 DEF Proceeds, KeepsTurn, Held, HopPc
<1>12. Batching'
  <2>1. Live(op'[b]) = Live(op[b])
    BY <1>7 DEF Steady, Follows, Live
  <2>2. ~m.released /\ m.dirty => ~Live(op[b])
    BY <1>1 DEF Batching, Preparing, Apart, Live
  <2> QED BY <1>1, <1>2, <1>3, <1>4, <1>6, <2>1, <2>2 DEF Batching
<1>13. 0 \notin m'.expected
  BY <1>3, <1>4, <1>6
<1> HIDE DEF a
<1> QED BY <1>1, <1>2, <1>7, <1>9, <1>10, <1>11, <1>12, <1>13, ControlStep

\* Control after Checked.
LEMMA CheckedControl == ASSUME IInv, Control, NEW a \in Actor, Checked(a) PROVE Control'
<1>1. /\ op[a].pc = "checked" /\ op[a].pc \in Running \cap HopPc /\ Foremost(a)
      /\ m \in Manager /\ 0 \notin m.expected /\ Held(op[a], m) /\ RepairOk(op[a], a)
  BY InvFacts DEF Checked, At, Here, Running, HopPc, Foremost, Control
<1> DEFINE y == Matched(a)
           u == Unfenced(a, y)
<1>2. Alike(y, m) /\ 0 \notin y.expected
  BY <1>1, MatchedAlike, BodySize
<1> HIDE DEF y
<1>3. CASE ~op[a].repair
  <2>1. m' = u /\ Goes(a, "failing")
    BY <1>3 DEF Checked, y
  <2>2. /\ u.released = y.released /\ u.fence = (y.fence /\ op[a].stale) /\ u.failed = y.failed
        /\ u.claimed = y.claimed /\ u.expected = y.expected /\ u.dirty = y.dirty
        /\ Cur(u) = Cur(y) /\ u.batch = y.batch /\ u.staged = y.staged
    BY <1>2, UnfencedMarks DEF Alike
  <2> HIDE DEF u
  <2>3. op'[a].pc = "failing"
    BY <2>1, GoesSteady, InvFacts DEF Pc, HopPc
  <2>4. Held(op'[a], m')
    BY <2>3 DEF Held, Repairing, Live, Running
  <2>5. Keeps(a)
    BY <1>1, <1>2, <2>1, <2>2 DEF Keeps, Alike, Live
  <2> QED BY <1>1, <1>2, <2>1, <2>2, <2>4, <2>5, GoesControl
             DEF IOPc, HopPc, RestPc, TailPc, Running, Alike
<1>4. CASE op[a].repair /\ Landing(a)
  <2>1. m' = y /\ Goes(a, "published")
    BY <1>4 DEF Checked, y
  <2>2. op'[a].pc = "published" /\ op'[a].stale = op[a].stale /\ op'[a].repair = op[a].repair
    BY <2>1, GoesSteady, InvFacts DEF Pc, HopPc
  <2>3. Held(op'[a], m')
    BY <1>1, <1>2, <2>1, <2>2 DEF Held, Repairing, Live, Running, Alike
  <2>4. Keeps(a) /\ m'.batch = m.batch /\ m'.staged = m.staged /\ (m'.dirty => m.dirty)
    BY <1>2, <2>1, AlikeKeeps
  <2> QED BY <1>1, <1>2, <2>1, <2>3, <2>4, GoesControl
             DEF IOPc, HopPc, RestPc, TailPc, Running
<1>5. CASE op[a].repair /\ ~Landing(a)
  <2>1. Indeterminate(a, m) /\ a = "batch"
    BY <1>1, <1>5 DEF Checked, RepairOk
  <2>2. Alike(m, m)
    BY <1>1 DEF Alike
  <2> QED BY <1>1, <1>5, <2>1, <2>2, IndeterminateControl
<1> QED BY <1>3, <1>4, <1>5

\* Control after the next pass has begun.
LEMMA RetriesControl ==
  ASSUME IInv, Control, NEW a \in Actor, NEW x, Alike(x, m), 0 \notin x.expected, Retries(a, x),
         op[a].pc \in Running \cap HopPc
  PROVE  Control'
<1>1. op[a].tries + 1 \in Nat
  BY InvFacts DEF Operation
<1>2. x \in Manager
  BY DEF Alike
<1>3. CASE op[a].repair
  <2>1. Stages(a, Housed(x), op[a].tries + 1)
    BY <1>3 DEF Retries
  <2>2. Alike(Housed(x), m) /\ 0 \notin Housed(x).expected /\ (~Housed(x).released => Housed(x).claimed)
    BY <1>2, HousedAlike, HousedSize, AlikeTwice DEF Alike
  <2> QED BY <1>1, <2>1, <2>2, StagesControl
<1>4. CASE ~op[a].repair
  <2>1. m' = [x EXCEPT !.dirty = FALSE, !.writer = FALSE] /\ Again(a, op[a].tries + 1)
    BY <1>4 DEF Retries
  <2>2. /\ m' \in Manager /\ m'.released = x.released /\ m'.fence = x.fence
        /\ m'.failed = x.failed /\ ~m'.dirty
        /\ m'.claimed = x.claimed /\ m'.batch = x.batch /\ m'.staged = x.staged
        /\ m'.expected = x.expected
    BY <1>2, <2>1 DEF Manager
  <2> QED BY <1>1, <1>4, <2>1, <2>2, AgainControl DEF Alike
<1> QED BY <1>3, <1>4

\* Control after Conflicts.
LEMMA ConflictsControl == ASSUME IInv, Control, NEW a \in Actor, Conflicts(a) PROVE Control'
<1>1. PICK b \in Actor : /\ a # b /\ Actor = {a, b} /\ op[b] \in Operation /\ op[a] \in Operation
                         /\ Held(op[a], m) /\ 0 \notin m.expected /\ 0 \notin op[a].expect
                         /\ m \in Manager
  BY Beside
<1>2. op[a].pc = "conflict" /\ op[a].pc \in Running \cap HopPc
  BY DEF Conflicts, Here, Running, HopPc
<1>3. \/ Goes(a, "checking") /\ m' = m
      \/ Retries(a, MovedOff(m))
      \/ op' = [op EXCEPT ![a] = [@ EXCEPT !.pc = "reading", !.superseded = FALSE]] /\ m' = m
  BY DEF Conflicts
<1>4. CASE Goes(a, "checking") /\ m' = m
  <2>1. op'[a].pc = "checking" /\ op'[a].stale = op[a].stale /\ op'[a].repair = op[a].repair
    BY <1>4, GoesSteady, InvFacts DEF Pc, IOPc
  <2>2. Held(op'[a], m')
    BY <1>1, <1>2, <1>4, <2>1 DEF Held, Repairing, Live, Running
  <2> QED BY <1>1, <1>2, <1>4, <2>2, GoesControl, SameKeeps
             DEF IOPc, HopPc, RestPc, TailPc, Running
<1>5. CASE Retries(a, MovedOff(m))
  <2>1. Alike(MovedOff(m), m) /\ 0 \notin MovedOff(m).expected
    BY <1>1, MovedAlike DEF Moved, Absent
  <2> QED BY <1>2, <1>5, <2>1, RetriesControl
<1>6. CASE op' = [op EXCEPT ![a] = [@ EXCEPT !.pc = "reading", !.superseded = FALSE]] /\ m' = m
  <2> DEFINE rec == [op[a] EXCEPT !.pc = "reading", !.superseded = FALSE]
  <2>1. /\ rec.pc = "reading" /\ rec.repair = op[a].repair /\ rec.stale = op[a].stale
        /\ rec.ensure = op[a].ensure /\ rec.waits = op[a].waits /\ rec.expect = op[a].expect
    BY <1>1 DEF Operation
  <2>2. op'[a] = rec /\ op'[b] = op[b]
    BY <1>1, <1>6, InvFacts
  <2> HIDE DEF rec
  <2>3. Live(op'[a]) = Live(op[a]) /\ (Repairing(op'[a]) => Repairing(op[a]))
    BY <1>2, <2>1, <2>2 DEF Live, Repairing, Running
  <2>4. Proceeds(a, b) /\ KeepsTurn(a, b)
    BY <1>2, <2>1, <2>2, <2>3 DEF Proceeds, KeepsTurn, Tailed, TailPc, RestPc, HopPc
  <2>5. Held(op'[a], m')
    BY <1>1, <1>2, <1>6, <2>1, <2>2, <2>3 DEF Held
  <2>6. Steady(op'[b], op[b])
    BY <1>1, <2>2, SteadySame
  <2>7. Batching'
    BY <1>1, <1>6, <2>1, <2>2, <2>3, <2>6, BatchingKept DEF Preparing, RestPc
  <2> QED BY <1>1, <1>6, <2>1, <2>2, <2>4, <2>5, <2>6, <2>7, ControlStep, SameKeeps
<1> QED BY <1>3, <1>4, <1>5, <1>6

\* Control after Resolves.
LEMMA ResolvesControl == ASSUME IInv, Control, NEW a \in Actor, Resolves(a) PROVE Control'
<1> DEFINE x == IF op[a].superseded \/ op[a].target # m.file THEN m ELSE Recovered(m, op[a].seen)
<1>1. /\ m \in Manager /\ m.file \in File /\ 0 \notin m.expected /\ op[a].seen \in Content
  BY InvFacts DEF Control, Operation
<1>2. op[a].pc \in Running \cap HopPc
  BY DEF Resolves, Here, Running, HopPc
<1>3. Alike(m, m)
  BY <1>1 DEF Alike
<1>4. Alike(x, m) /\ 0 \notin x.expected
  BY <1>1, <1>3, RecoveredAlike, RecoveredSize
<1>5. Retries(a, x)
  BY DEF Resolves
<1> HIDE DEF x
<1> QED BY <1>2, <1>4, <1>5, RetriesControl

\* Control after a repair has begun, or a sealed manager has declined one.
LEMMA RepairsControl ==
  ASSUME IInv, Control, NEW x \in Manager, Repairs(x), x.expected = m.expected,
         x.released = m.released, m.failed => x.failed, x.fence = m.fence, m.claimed => x.claimed,
         m.released => (x.dirty /\ Cur(x) => m.dirty /\ Cur(m)), x.staged # {} => x.batch
  PROVE  Control'
<1>1. CASE ~x.released
  BY <1>1, ControlRepairs
<1>2. CASE x.released
  <2> DEFINE a == "batch"
  <2>1. PICK b \in Actor : a # b /\ Actor = {a, b} /\ op[b] \in Operation /\ 0 \notin m.expected
    BY InvFacts, Beside
  <2>2. m' = [x EXCEPT !.batch = FALSE, !.staged = {}] /\ Leaves(a, Idle)
    BY <1>2 DEF Repairs
  <2>3. /\ m'.released /\ m'.expected = m.expected /\ m'.failed = x.failed /\ m'.fence = x.fence
        /\ m'.claimed = x.claimed /\ m'.dirty = x.dirty /\ Cur(m') = Cur(x)
        /\ ~m'.batch /\ m'.staged = {}
    BY <1>2, <2>2 DEF Manager, Cur
  <2>4. a \in Actor /\ op'[a] = Idle /\ Steady(op'[b], op[b])
    BY <2>1, <2>2, BlankFields, LeavesSteady, InvFacts DEF Blank
  <2>5. Plain(op'[a], "idle", FALSE, {})
    BY <2>4, PlainRecords
  <2>6. ~Live(op'[a]) /\ ~Repairing(op'[a]) /\ ~Tailed(op'[a]) /\ op'[a].pc = "idle"
    BY <2>5 DEF Plain, Live, Repairing, Tailed, Running, RestPc
  <2>7. Keeps(a)
    BY <1>2, <2>3 DEF Keeps
  <2>8. Proceeds(a, b) /\ KeepsTurn(a, b) /\ Held(op'[a], m')
    BY <2>6 DEF Proceeds, KeepsTurn, Held, HopPc
  <2>9. Batching'
    BY <2>3 DEF Batching
  <2> HIDE DEF a
  <2> QED BY <2>1, <2>3, <2>4, <2>5, <2>7, <2>8, <2>9, ControlStep DEF Plain
<1> QED BY <1>1, <1>2

\* The rollback takes entries away.
LEMMA RolledBackMarks ==
  ASSUME NEW x \in Manager
  PROVE  /\ RolledBack(x) \in Manager /\ RolledBack(x).expected = x.expected
         /\ RolledBack(x).released = x.released /\ RolledBack(x).failed = x.failed
         /\ RolledBack(x).fence = x.fence /\ RolledBack(x).claimed = x.claimed
         /\ RolledBack(x).dirty = x.dirty /\ Cur(RolledBack(x)) = Cur(x)
         /\ RolledBack(x).batch = x.batch /\ RolledBack(x).staged = x.staged
         /\ RolledBack(x).file = x.file
         /\ RolledBack(x).entries = Without(x.entries, x.staged)
<1> DEFINE s == Without(x.entries, x.staged)
<1>1. s \in Seq(Line)
  BY WithoutFacts DEF Manager
<1>2. RolledBack(x) = [x EXCEPT !.entries = s]
  BY DEF RolledBack
<1> HIDE DEF s
<1>3. RolledBack(x).entries = s
  BY <1>2 DEF Manager
<1>4. RolledBack(x) \in Manager
  BY <1>1, <1>2 DEF Manager
<1> QED BY <1>2, <1>3, <1>4 DEF Manager, Cur, s

\* Control after RecoverPersistence.
LEMMA RecoverPersistenceControl == ASSUME IInv, Control, RecoverPersistence PROVE Control'
<1>1. m \in Manager /\ Batching
  BY InvFacts DEF Control
<1> QED BY <1>1, RepairsControl DEF RecoverPersistence, Batching

\* Control after Fails.
LEMMA FailsControl == ASSUME IInv, Control, NEW a \in Actor, Fails(a) PROVE Control'
<1>1. PICK b \in Actor : /\ a # b /\ Actor = {a, b} /\ op[b] \in Operation
                         /\ m \in Manager /\ 0 \notin m.expected /\ Batching
  BY Beside
<1>2. op[a].pc = "failing"
  BY DEF Fails, At, Here
<1> DEFINE x == [m EXCEPT !.failed = TRUE]
<1>3. /\ x \in Manager /\ x.expected = m.expected /\ x.released = m.released /\ x.failed
      /\ x.fence = m.fence /\ x.claimed = m.claimed /\ x.dirty = m.dirty /\ Cur(x) = Cur(m)
      /\ x.batch = m.batch /\ x.staged = m.staged
  BY <1>1 DEF Manager, Cur
<1>4. CASE a = "rewrite"
  <2>1. m' = x /\ Leaves(a, Idle)
    BY <1>4 DEF Fails
  <2> HIDE DEF x
  <2>2. op'[a] = Idle /\ Steady(op'[b], op[b])
    BY <1>1, <2>1, BlankFields, LeavesSteady, InvFacts DEF Blank
  <2>3. Plain(op'[a], "idle", FALSE, {})
    BY <2>2, PlainRecords
  <2>4. ~Live(op'[a]) /\ ~Repairing(op'[a]) /\ ~Tailed(op'[a]) /\ op'[a].pc = "idle"
    BY <2>3 DEF Plain, Live, Repairing, Tailed, Running, RestPc
  <2>5. Keeps(a)
    BY <1>3, <2>1 DEF Keeps
  <2>6. Proceeds(a, b) /\ KeepsTurn(a, b) /\ Held(op'[a], m')
    BY <2>4 DEF Proceeds, KeepsTurn, Held, HopPc
  <2>7. Batching'
    BY <1>1, <1>3, <1>4, <2>1, <2>2, <2>4, BatchingKept
  <2> QED BY <1>1, <1>3, <2>1, <2>2, <2>3, <2>5, <2>6, <2>7, ControlStep DEF Plain
<1>5. CASE a # "rewrite"
  <2> DEFINE y == IF op[a].ensure THEN x ELSE RolledBack(x)
  <2>1. Repairs(y)
    BY <1>5 DEF Fails, Rejects
  <2> HIDE DEF x
  <2>2. /\ y \in Manager /\ y.expected = m.expected /\ y.released = m.released /\ y.failed
        /\ y.fence = m.fence /\ y.claimed = m.claimed /\ y.dirty = m.dirty /\ Cur(y) = Cur(m)
        /\ y.batch = m.batch /\ y.staged = m.staged
    BY <1>3, RolledBackMarks
  <2> HIDE DEF y
  <2> QED BY <1>1, <2>1, <2>2, RepairsControl DEF Batching
<1> QED BY <1>4, <1>5

\* Control when a batch goes on as rec, a plain operation.
LEMMA BatchControl ==
  ASSUME IInv, Control, NEW rec, NEW pc, NEW waits, NEW ensure \in BOOLEAN,
         Plain(rec, pc, ensure, waits),
         Leaves("batch", rec) \/ op' = [op EXCEPT !["batch"] = rec],
         pc \in RestPc \cup {"collecting", "deciding"} \/ (pc = "queued" /\ waits = Before("batch")),
         Foremost("batch"), Keeps("batch"), Batching', 0 \notin m'.expected
  PROVE  Control'
<1> DEFINE a == "batch"
<1>1. PICK b \in Actor : a # b /\ Actor = {a, b} /\ op[b] \in Operation
  BY InvFacts, Beside
<1>2. a \in Actor /\ rec \in Operation /\ op \in [Actor -> Operation]
  BY InvFacts DEF Plain, Blank
<1>3. op'[a] = rec /\ Steady(op'[b], op[b])
  <2>1. CASE Leaves(a, rec)
    BY <1>1, <1>2, <2>1, LeavesSteady
  <2>2. CASE op' = [op EXCEPT ![a] = rec]
    BY <1>1, <1>2, <2>2, SteadySame
  <2> QED BY <2>1, <2>2
<1>4. /\ ~Live(op'[a]) /\ ~Repairing(op'[a])
      /\ op'[a].pc \notin {"conflict", "marking", "draining", "repaired"}
  BY <1>3 DEF Plain, Live, Repairing, Running, RestPc
<1>5. Proceeds(a, b) /\ Held(op'[a], m')
  BY <1>1, <1>3, <1>4 DEF Proceeds, Held, Foremost
<1>6. KeepsTurn(a, b)
  BY <1>3 DEF KeepsTurn, Tailed, Plain, TailPc, RestPc
<1>7. 0 \notin op'[a].expect
  BY <1>3 DEF Plain
<1>8. a # b /\ b \in Actor /\ Steady(op'[b], op[b]) /\ Keeps(a) /\ Batching' /\ 0 \notin m'.expected
  BY <1>1, <1>3
<1> HIDE DEF a
<1> QED BY <1>2, <1>5, <1>6, <1>7, <1>8, ControlStep

\* Control after Flushed.
LEMMA FlushedControl == ASSUME IInv, Control, Flushed PROVE Control'
<1>1. /\ m \in Manager /\ Batching /\ 0 \notin m.expected
      /\ op["batch"].pc = "flushing" /\ \A c \in Actor : op[c].pc \notin HopPc
  BY InvFacts DEF Control, Flushed, Reached, At, Here
<1>2. CASE m.failed
  BY <1>1, <1>2, RepairsControl DEF Flushed, Batching
<1>3. CASE ~m.failed
  <2> DEFINE rec == [Idle EXCEPT !.pc = "collecting"]
  <2>1. m' = m /\ Leaves("batch", rec)
    BY <1>3 DEF Flushed
  <2>2. Plain(rec, "collecting", FALSE, {}) /\ "batch" \in Actor
    BY InvFacts, PlainRecords
  <2> HIDE DEF rec
  <2>3. PICK b \in Actor : "batch" # b /\ Actor = {"batch", b}
    BY <2>2, Beside
  <2>4. op'["batch"] = rec /\ Steady(op'[b], op[b])
    BY <2>1, <2>2, <2>3, LeavesSteady, InvFacts DEF Plain, Blank
  <2>5. Batching'
    BY <1>1, <2>1, <2>2, <2>3, <2>4, BatchingKept DEF Preparing, Plain, Live, Running
  <2> QED BY <1>1, <2>1, <2>2, <2>5, BatchControl, SameKeeps DEF Foremost
<1> QED BY <1>2, <1>3

\* Control after Decides.
LEMMA DecidesControl == ASSUME IInv, Control, Decides PROVE Control'
<1>1. PICK b \in Actor : /\ "batch" # b /\ Actor = {"batch", b} /\ b = "rewrite"
                         /\ m \in Manager /\ Batching /\ 0 \notin m.expected
                         /\ Held(op[b], m) /\ RepairOk(op[b], b) /\ op[b] \in Operation
  BY InvFacts, Beside
<1>2. op["batch"].pc = "deciding" /\ Foremost("batch")
  BY DEF Decides, At, Here, Foremost, HopPc
<1>3. CASE Cur(m)
  <2>1. m' = [m EXCEPT !.batch = FALSE, !.staged = {}] /\ op' = [op EXCEPT !["batch"] = Idle]
    BY <1>3 DEF Decides, Cur
  <2>2. /\ m'.released = m.released /\ m'.expected = m.expected /\ m'.failed = m.failed
        /\ m'.fence = m.fence /\ m'.claimed = m.claimed /\ m'.dirty = m.dirty
        /\ Cur(m') = Cur(m) /\ ~m'.batch /\ m'.staged = {}
    BY <1>1, <2>1 DEF Manager, Cur
  <2>3. op'[b] = op[b]
    BY <1>1, <2>1, InvFacts
  <2>4. Batching'
    BY <1>1, <1>3, <2>2, <2>3 DEF Batching, Held, RepairOk
  <2>5. Keeps("batch")
    BY <2>2 DEF Keeps
  <2> QED BY <1>1, <1>2, <2>1, <2>2, <2>4, <2>5, PlainRecords, InvFacts, BatchControl DEF RestPc
<1>4. CASE ~Cur(m)
  <2>1. Repairs(RolledBack(m))
    BY <1>4 DEF Decides, Rejects, Cur
  <2> QED BY <1>1, <2>1, RolledBackMarks, RepairsControl DEF Batching
<1> QED BY <1>3, <1>4

\* Control after Repaired.
LEMMA RepairedControl == ASSUME IInv, Control, Repaired PROVE Control'
<1>1. PICK b \in Actor : /\ "batch" # b /\ Actor = {"batch", b} /\ b = "rewrite"
                         /\ m \in Manager /\ Batching /\ 0 \notin m.expected
                         /\ Held(op["batch"], m) /\ Apart(op["batch"], op[b])
  BY InvFacts, Beside
<1>2. op["batch"].pc = "repaired" /\ Foremost("batch")
  BY DEF Repaired, At, Here, Foremost, HopPc
<1>3. m' = [m EXCEPT !.batch = FALSE, !.staged = {}] /\ op' = [op EXCEPT !["batch"] = Rejected]
  BY DEF Repaired
<1>4. /\ m'.released = m.released /\ m'.expected = m.expected /\ m'.failed = m.failed
      /\ m'.fence = m.fence /\ m'.claimed = m.claimed /\ m'.dirty = m.dirty
      /\ Cur(m') = Cur(m) /\ ~m'.batch /\ m'.staged = {}
  BY <1>1, <1>3 DEF Manager, Cur
<1>5. op'[b] = op[b]
  BY <1>1, <1>3, InvFacts
<1>6. Batching'
  <2>1. op["batch"].stale => Preparing(op["batch"])
    BY DEF Preparing
  <2>2. ~op["batch"].stale => Repairing(op["batch"])
    BY <1>1, <1>2 DEF Repairing, Held
  <2> QED BY <1>1, <1>4, <1>5, <2>1, <2>2 DEF Batching, Apart
<1>7. Keeps("batch")
  BY <1>4 DEF Keeps
<1> QED BY <1>1, <1>2, <1>3, <1>4, <1>6, <1>7, PlainRecords, InvFacts, BatchControl DEF RestPc

\* Control after Drained.
LEMMA DrainedControl == ASSUME IInv, Control, Drained PROVE Control'
<1> DEFINE a == "batch"
           d == [m EXCEPT !.dirty = FALSE]
           x == Housed(d)
<1>1. PICK b \in Actor : /\ a # b /\ Actor = {a, b} /\ b = "rewrite" /\ op[b] \in Operation
                         /\ m \in Manager /\ 0 \notin m.expected /\ RepairOk(op[b], b)
                         /\ Held(op[a], m) /\ Apart(op[a], op[b]) /\ a \in Actor
  BY InvFacts, Beside
<1>2. /\ op[a].pc = "draining" /\ op[a].waits = {} /\ \A c \in Actor : op[c].pc \notin HopPc
      /\ Stages(a, x, 0) /\ op[a].repair
  BY <1>1 DEF Drained, Reached, At, Here, Held
<1>3. /\ d \in Manager /\ d.released = m.released /\ d.failed = m.failed /\ d.fence = m.fence
      /\ d.batch = m.batch /\ d.staged = m.staged /\ d.claimed = m.claimed /\ ~d.dirty
      /\ d.expected = m.expected
  BY <1>1 DEF Manager
<1> HIDE DEF d
<1>4. /\ x \in Manager /\ x.released = m.released /\ x.failed = m.failed /\ x.fence = m.fence
      /\ x.batch = m.batch /\ x.staged = m.staged /\ (m.claimed => x.claimed) /\ ~x.dirty
      /\ (~x.released => x.claimed) /\ 0 \notin x.expected
  BY <1>1, <1>3, HousedAlike, HousedSize DEF Alike
<1> HIDE DEF x
<1>5. /\ m' = x
      /\ op'[a].pc = "staging" /\ op'[a].repair = op[a].repair /\ op'[a].stale = op[a].stale
      /\ op'[a].ensure = op[a].ensure /\ op'[a].waits = op[a].waits
      /\ op'[a].expect = x.expected /\ op'[b] = op[b]
  <2>1. ASSUME NEW n \in Nat, Stages(a, x, n)
        PROVE  /\ m' = x
               /\ op'[a].pc = "staging" /\ op'[a].repair = op[a].repair /\ op'[a].stale = op[a].stale
               /\ op'[a].ensure = op[a].ensure /\ op'[a].waits = op[a].waits
               /\ op'[a].expect = x.expected /\ op'[b] = op[b]
    <3> HIDE DEF a
    <3> QED BY <1>1, <1>4, <2>1, StagesRecord
  <2> QED BY <1>2, <2>1
<1>6. Keeps(a)
  BY <1>4, <1>5 DEF Keeps
<1>7. ~op[a].stale => Repairing(op[a]) /\ ~Live(op[b])
  BY <1>1, <1>2 DEF Repairing, Apart
<1>8. ~Repairing(op[b]) /\ op[b].pc \notin {"conflict", "marking"}
  BY <1>1, <1>2 DEF Repairing, RepairOk, HopPc
<1>9. Proceeds(a, b)
  BY <1>5, <1>7, <1>8 DEF Proceeds, HopPc, Live, Repairing
<1>10. KeepsTurn(a, b)
  BY <1>2, <1>5 DEF KeepsTurn, Tailed
<1>11. Held(op'[a], m')
  BY <1>1, <1>2, <1>4, <1>5, <1>7 DEF Held, Repairing, Live
<1>12. Steady(op'[b], op[b])
  BY <1>1, <1>5, SteadySame
<1>13. Batching'
  BY <1>1, <1>2, <1>4, <1>5, <1>12, BatchingKept DEF Preparing, RestPc
<1> HIDE DEF a
<1> QED BY <1>1, <1>4, <1>5, <1>6, <1>9, <1>10, <1>11, <1>12, <1>13, ControlStep

\* Control after RepairPublished.
LEMMA RepairPublishedControl == ASSUME IInv, Control, RepairPublished PROVE Control'
<1> DEFINE a == "batch"
           x == [m EXCEPT !.expected = SizeOf(op[a].body)]
<1>1. /\ m \in Manager /\ 0 \notin m.expected /\ a \in Actor
      /\ op[a].pc = "published" /\ op[a].repair /\ op[a].pc \in Running \cap HopPc
      /\ Foremost(a) /\ Held(op[a], m)
  BY InvFacts DEF Control, RepairPublished, At, Here, Running, HopPc, Foremost
<1>2. /\ x \in Manager /\ Alike(x, m) /\ 0 \notin x.expected
  <2>1. 0 \notin SizeOf(op[a].body) /\ SizeOf(op[a].body) \in Sizes
    BY <1>1, BodySize
  <2> QED BY <1>1, <2>1 DEF Manager, Alike, Cur
<1>3. CASE op[a].stale
  <2>1. Indeterminate(a, x)
    BY <1>3 DEF RepairPublished
  <2> HIDE DEF x
  <2> QED BY <1>1, <1>2, <2>1, IndeterminateControl
<1>4. CASE ~op[a].stale /\ m.dirty
  <2> DEFINE d == [x EXCEPT !.dirty = FALSE]
             n == [m EXCEPT !.dirty = FALSE]
  <2>1. Stages(a, Housed(d), 0)
    BY <1>4 DEF RepairPublished
  <2> HIDE DEF x
  <2>2. Alike(d, n) /\ d \in Manager /\ d.expected = x.expected
    BY <1>1, <1>2 DEF Alike, Manager, Cur
  <2> HIDE DEF d, n
  <2>3. /\ Alike(Housed(d), n) /\ 0 \notin Housed(d).expected
        /\ (~Housed(d).released => Housed(d).claimed)
    BY <1>2, <2>2, HousedAlike, HousedSize, AlikeTwice DEF Alike
  <2>4. Alike(Housed(d), [m EXCEPT !.dirty = FALSE])
    BY <2>3 DEF n
  <2> QED BY <1>1, <2>1, <2>3, <2>4, StagesControl
<1>5. CASE ~op[a].stale /\ ~m.dirty
  <2>1. /\ m' = [x EXCEPT !.current = TRUE, !.required = FALSE, !.failed = FALSE, !.fence = FALSE]
        /\ Goes(a, "repaired")
    BY <1>5 DEF RepairPublished
  <2> HIDE DEF x
  <2>2. /\ m'.released = x.released /\ m'.expected = x.expected /\ m'.claimed = x.claimed
        /\ m'.dirty = x.dirty /\ m'.batch = x.batch /\ m'.staged = x.staged
    BY <1>2, <2>1 DEF Manager
  <2>3. op'[a].pc = "repaired" /\ op'[a].repair = op[a].repair
    BY <1>1, <2>1, GoesSteady, InvFacts DEF Pc, HopPc
  <2>4. Held(op'[a], m')
    BY <1>1, <2>3 DEF Held, Live, Running
  <2>5. Keeps(a)
    BY <1>1, <1>2, <1>5, <2>2 DEF Keeps, Live, Alike
  <2> HIDE DEF a
  <2> QED BY <1>1, <1>2, <2>1, <2>2, <2>4, <2>5, GoesControl
             DEF IOPc, HopPc, RestPc, TailPc, Running, Alike
<1> QED BY <1>3, <1>4, <1>5

\* The manager z with the batch added staged.
StagedWith(z, added) ==
  [z EXCEPT !.batch = TRUE, !.staged = ToSet(added), !.entries = @ \o added, !.next = @ + 2]

LEMMA StagedMarks ==
  ASSUME IInv, NEW added \in Seq(Own), NEW x,
         x = StagedWith(Deferred(m), added)
  PROVE  /\ x \in Manager /\ x.expected = m.expected /\ x.released = m.released
         /\ x.failed = m.failed /\ x.fence = m.fence /\ x.claimed = m.claimed
         /\ x.file = m.file /\ x.dirty /\ ~Cur(x) /\ x.batch /\ x.staged = ToSet(added)
         /\ x.entries = Joined(m.entries, added)
<1> DEFINE d == Deferred(m)
           j == Joined(m.entries, added)
           st == ToSet(added)
           n == m.next + 2
<1>1. m \in Manager
  BY InvFacts
<1>2. /\ d \in Manager /\ d.expected = m.expected /\ d.released = m.released
      /\ d.failed = m.failed /\ d.fence = m.fence /\ d.claimed = m.claimed
      /\ d.file = m.file /\ d.dirty /\ ~Cur(d) /\ d.entries = m.entries /\ d.next = m.next
  BY <1>1 DEF Deferred, Diverged, Manager, Cur
<1> HIDE DEF d
<1>3. st \in SUBSET Own
  BY MembersFacts
<1>4. j \in Seq(Line) /\ n \in Nat
  <2>1. m.entries \in Seq(Line) /\ added \in Seq(Line)
    BY <1>1 DEF Manager, Line
  <2> QED BY <1>1, <2>1, ConcatProperties DEF Joined, Manager
<1>5. x = [d EXCEPT !.batch = TRUE, !.staged = st, !.entries = j, !.next = n]
  BY <1>2 DEF d, Joined, StagedWith
<1> HIDE DEF j, st, n
<1>6. x \in Manager
  <2>1. [d EXCEPT !.batch = TRUE, !.staged = st, !.entries = j, !.next = n] \in Manager
    BY <1>2, <1>3, <1>4, ManagerGains
  <2> QED BY <1>5, <2>1
<1>7. /\ x.expected = d.expected /\ x.released = d.released /\ x.failed = d.failed
      /\ x.fence = d.fence /\ x.claimed = d.claimed
  BY <1>2, <1>5 DEF Manager
<1>8. /\ x.file = d.file /\ x.dirty = d.dirty /\ x.current = d.current
      /\ x.required = d.required
  BY <1>2, <1>5 DEF Manager
<1>9. Cur(x) = Cur(d)
  BY <1>8 DEF Cur
<1>10. x.batch /\ x.staged = st /\ x.entries = j
  BY <1>2, <1>5 DEF Manager
<1> QED BY <1>2, <1>6, <1>7, <1>8, <1>9, <1>10 DEF st, j

\* What a batch is staged with.
LEMMA StagingMarks ==
  ASSUME IInv, NEW added \in Seq(Own), NEW x,
         x = [Deferred(m) EXCEPT !.batch = TRUE, !.staged = ToSet(added),
                                 !.entries = @ \o added, !.next = @ + 2]
  PROVE  /\ x \in Manager /\ x.expected = m.expected /\ x.released = m.released
         /\ x.failed = m.failed /\ x.fence = m.fence /\ x.claimed = m.claimed
         /\ x.file = m.file /\ x.dirty /\ ~Cur(x) /\ x.batch /\ x.staged = ToSet(added)
         /\ x.entries = Joined(m.entries, added)
<1>1. x = StagedWith(Deferred(m), added)
  BY DEF StagedWith
<1> HIDE DEF StagedWith
<1> QED BY <1>1, StagedMarks

\* Control after Collects.
LEMMA CollectsControl == ASSUME IInv, Control, Collects PROVE Control'
<1> DEFINE pair == <<m.next, m.next + 1>>
           one == <<m.next>>
           x == [Deferred(m) EXCEPT !.batch = TRUE, !.staged = ToSet(pair),
                                    !.entries = @ \o pair, !.next = @ + 2]
           y == [Deferred(m) EXCEPT !.batch = TRUE, !.staged = ToSet(one),
                                    !.entries = @ \o one, !.next = @ + 2]
           rec == Scheduled("batch", FALSE)
<1>1. PICK b \in Actor : /\ "batch" # b /\ Actor = {"batch", b} /\ b = "rewrite"
                         /\ m \in Manager /\ Batching /\ 0 \notin m.expected
                         /\ "batch" \in Actor /\ op \in [Actor -> Operation]
  BY InvFacts, Beside
<1>2. op["batch"].pc = "collecting" /\ Foremost("batch")
  BY DEF Collects, Foremost, HopPc
<1>3. Plain(rec, "queued", FALSE, Before("batch"))
  BY <1>1, PlainRecords
<1>4. \/ /\ (m.released \/ op' = [op EXCEPT !["batch"] = rec])
         /\ (m.released => Goes("batch", "deciding"))
         /\ m' = [m EXCEPT !.batch = TRUE, !.staged = {}]
      \/ op' = [op EXCEPT !["batch"] = rec] /\ m' = x /\ pair \in Seq(Own)
      \/ Repairs(RolledBack(y)) /\ one \in Seq(Own) /\ ~m.released
  <2>1. ToSet(pair) \subseteq Own => pair \in Seq(Own) /\ one \in Seq(Own)
    <3>1. ToSet(pair) = {m.next, m.next + 1}
      BY DEF ToSet
    <3> QED BY <3>1
  <2> QED BY <2>1 DEF Collects
<1>5. ASSUME op' = [op EXCEPT !["batch"] = rec], m'.batch, Keeps("batch"), 0 \notin m'.expected
      PROVE  Control'
  <2> HIDE DEF rec
  <2>1. op'["batch"] = rec
    BY <1>1, <1>5
  <2>2. Batching'
    BY <1>3, <1>5, <2>1 DEF Batching, Preparing, Plain, RestPc
  <2> QED BY <1>2, <1>3, <1>5, <2>2, BatchControl
<1>6. CASE /\ (m.released \/ op' = [op EXCEPT !["batch"] = rec])
           /\ (m.released => Goes("batch", "deciding"))
           /\ m' = [m EXCEPT !.batch = TRUE, !.staged = {}]
  <2>1. /\ m'.released = m.released /\ m'.expected = m.expected /\ m'.failed = m.failed
        /\ m'.fence = m.fence /\ m'.claimed = m.claimed /\ m'.dirty = m.dirty
        /\ Cur(m') = Cur(m) /\ m'.batch /\ m'.staged = {}
    BY <1>1, <1>6 DEF Manager, Cur
  <2>2. Keeps("batch")
    BY <2>1 DEF Keeps
  <2>3. CASE ~m.released
    <3> HIDE DEF rec
    <3> QED BY <1>1, <1>5, <1>6, <2>1, <2>2, <2>3
  <2>4. CASE m.released
    <3> DEFINE o == op["batch"]
               r == [o EXCEPT !.pc = "deciding"]
    <3>1. op'["batch"] = r /\ o \in Operation /\ op'[b] = op[b]
      BY <1>1, <1>6, <2>4, InvFacts DEF Goes
    <3>2. /\ r.pc = "deciding" /\ r.expect = o.expect
      BY <3>1 DEF Operation
    <3> HIDE DEF r
    <3>3. /\ ~Live(op'["batch"]) /\ ~Repairing(op'["batch"]) /\ ~Tailed(op'["batch"])
      BY <3>1, <3>2 DEF Live, Repairing, Tailed, Running
    <3>4. Proceeds("batch", b) /\ KeepsTurn("batch", b) /\ Held(op'["batch"], m')
      BY <1>2, <3>1, <3>2, <3>3 DEF Proceeds, KeepsTurn, Held, HopPc
    <3>5. Batching'
      BY <2>1, <2>4 DEF Batching
    <3>6. Steady(op'[b], op[b]) /\ 0 \notin op'["batch"].expect
      BY <1>1, <3>1, <3>2, SteadySame DEF Control
    <3> QED BY <1>1, <2>1, <2>2, <3>4, <3>5, <3>6, ControlStep
  <2> QED BY <2>3, <2>4
<1>7. CASE op' = [op EXCEPT !["batch"] = rec] /\ m' = x /\ pair \in Seq(Own)
  <2> HIDE DEF rec, pair
  <2>1. /\ x.expected = m.expected /\ x.released = m.released
        /\ x.failed = m.failed /\ x.fence = m.fence /\ x.claimed = m.claimed
        /\ ~Cur(x) /\ x.batch
    BY <1>7, StagingMarks
  <2> HIDE DEF x
  <2>2. Keeps("batch")
    BY <1>7, <2>1 DEF Keeps
  <2> QED BY <1>1, <1>5, <1>7, <2>1, <2>2
<1>8. CASE Repairs(RolledBack(y)) /\ one \in Seq(Own) /\ ~m.released
  <2> HIDE DEF one
  <2>1. /\ y \in Manager /\ y.expected = m.expected /\ y.released = m.released
        /\ y.failed = m.failed /\ y.fence = m.fence /\ y.claimed = m.claimed
        /\ ~Cur(y) /\ y.batch
    BY <1>8, StagingMarks
  <2> HIDE DEF y
  <2> QED BY <1>8, <2>1, RolledBackMarks, RepairsControl
<1> QED BY <1>4, <1>6, <1>7, <1>8

\* Control is kept.
LEMMA ControlKept == ASSUME IInv, Control, [Next]_vars PROVE Control'
<1>1. ASSUME UNCHANGED <<m, op>> PROVE Control'
  BY <1>1 DEF Control, Batching
<1>2. Others => UNCHANGED <<m, op>>
  BY DEF Others, LeaseMoves, AlienAppends, Tampers
<1>3. UNCHANGED vars => UNCHANGED <<m, op>>
  BY DEF vars
<1>4. ASSUME NEW a \in Actor, Continues(a) PROVE Control'
  <2>1. CASE Starts(a) \/ Serializes(a) \/ Publishes(a) \/ Settles(a) \/ Marks(a) \/ ReadsBack(a)
    BY <2>1, StartsControl, SerializesControl, PublishesControl, SettlesControl, MarksControl,
       ReadsBackControl
  <2>2. CASE Verified(a) \/ Checked(a) \/ Conflicts(a) \/ Resolves(a) \/ Fails(a)
    BY <2>2, VerifiedControl, CheckedControl, ConflictsControl, ResolvesControl, FailsControl
  <2> QED BY <1>4, <2>1, <2>2 DEF Continues
<1>5. ASSUME BatchContinues PROVE Control'
  BY <1>5, FlushedControl, CollectsControl, DecidesControl, DrainedControl,
     RepairPublishedControl, RepairedControl DEF BatchContinues
<1>6. CASE AppendEntry \/ FlushSync \/ Seal \/ Rewrite \/ BatchBegins \/ RecoverPersistence
  BY <1>6, AppendEntryControl, FlushSyncControl, SealControl, RewriteControl,
     BatchBeginsControl, RecoverPersistenceControl
<1> QED BY <1>1, <1>2, <1>3, <1>4, <1>5, <1>6 DEF Next

\* Control holds at the start.
LEMMA ControlAtFirst == Init => Control
<1> SUFFICES ASSUME Init PROVE Control
  OBVIOUS
<1>1. /\ op = [a \in Actor |-> Idle]
      /\ m.expected = SizeOf(<<>>) /\ ~m.released /\ ~m.batch /\ m.staged = {}
  BY DEF Init
<1>2. \A a \in Actor : Plain(op[a], "idle", FALSE, {})
  BY <1>1, PlainRecords
<1>3. <<>> \in Seq(Line)
  BY EmptySeq
<1>4. 0 \notin m.expected
  BY <1>1, <1>3, NoHeader
<1>5. \A a \in Actor : ~Live(op[a]) /\ ~Repairing(op[a]) /\ ~Tailed(op[a]) /\ op[a].pc = "idle"
  BY <1>2 DEF Plain, Live, Repairing, Tailed, Running, RestPc
<1>6. "rewrite" \in Actor /\ "batch" \in Actor
  BY DEF Actor
<1>7. Batching
  BY <1>1, <1>5, <1>6 DEF Batching
<1>8. \A a, b \in Actor : a # b => Apart(op[a], op[b]) /\ Turns(a, op[a], b, op[b])
  BY <1>5 DEF Apart, Turns, HopPc
<1>9. \A a \in Actor : Held(op[a], m) /\ 0 \notin op[a].expect
  BY <1>2, <1>5 DEF Held, Plain
<1> QED BY <1>4, <1>7, <1>8, <1>9 DEF Control

-----------------------------------------------------------------------------
\* Equal but for some lines.

\* More may be left out.
LEMMA SameGrows ==
  ASSUME NEW s \in Seq(Line), NEW t \in Seq(Line), NEW S, NEW T, S \subseteq T, Same(S, s, t)
  PROVE  Same(T, s, t)
<1>1. (Alien \cup S) \cup (Alien \cup T) = Alien \cup T
  OBVIOUS
<1>2. /\ Without(Without(s, Alien \cup S), Alien \cup T) = Without(s, Alien \cup T)
      /\ Without(Without(t, Alien \cup S), Alien \cup T) = Without(t, Alien \cup T)
  BY <1>1, WithoutTwice
<1> QED BY <1>2 DEF Same

\* Both get a line.
LEMMA SameAppends ==
  ASSUME NEW s \in Seq(Line), NEW t \in Seq(Line), NEW S, NEW e \in Line, Same(S, s, t)
  PROVE  Same(S, Append(s, e), Append(t, e))
<1> DEFINE A == Alien \cup S
<1>1. /\ Without(Append(s, e), A) = IF e \in A THEN Without(s, A) ELSE Append(Without(s, A), e)
      /\ Without(Append(t, e), A) = IF e \in A THEN Without(t, A) ELSE Append(Without(t, A), e)
  BY WithoutAppend
<1>2. Without(s, A) = Without(t, A)
  BY DEF Same
<1> HIDE DEF A
<1>3. Without(Append(s, e), A) = Without(Append(t, e), A)
  BY <1>1, <1>2
<1> QED BY <1>3 DEF Same, A

\* One gets a line that is left out.
LEMMA SameAdds ==
  ASSUME NEW s \in Seq(Line), NEW t \in Seq(Line), NEW S, NEW e \in Line, e \in Alien \cup S,
         Same(S, s, t)
  PROVE  Same(S, Append(s, e), t) /\ Same(S, s, Append(t, e))
BY WithoutAppend DEF Same

\* One gets lines that are left out.
LEMMA SameJoins ==
  ASSUME NEW s \in Seq(Line), NEW t \in Seq(Line), NEW S, NEW w \in Seq(Line),
         ToSet(w) \subseteq Alien \cup S, Same(S, s, t)
  PROVE  Same(S, s, Joined(t, w))
<1> DEFINE A == Alien \cup S
<1>1. Without(w, A) = <<>>
  BY WithoutAllOrNothing
<1>2. Without(t, A) \in Seq(Line)
  BY WithoutFacts
<1>3. Joined(Without(t, A), <<>>) = Without(t, A)
  BY <1>2 DEF Joined
<1>4. Without(Joined(t, w), A) = Joined(Without(t, A), Without(w, A))
  BY WithoutJoined
<1> QED BY <1>1, <1>3, <1>4 DEF Same

\* What is equal to everything is equal.
LEMMA SameChain ==
  ASSUME NEW s, NEW t, NEW u, NEW S, Same(S, s, t), Same(S, t, u)
  PROVE  Same(S, s, u)
BY DEF Same

\* The lines of this manager that equal sequences have.
LEMMA SameMine ==
  ASSUME NEW s \in Seq(Line), NEW t \in Seq(Line), Same({}, s, t)
  PROVE  Mine(s) = Mine(t)
<1>1. /\ ToSet(Without(s, Alien \cup {})) = ToSet(s) \ (Alien \cup {})
      /\ ToSet(Without(t, Alien \cup {})) = ToSet(t) \ (Alien \cup {})
  BY WithoutFacts
<1>2. Own \cap Alien = {}
  BY Basics
<1> QED BY <1>1, <1>2 DEF Same, Mine

-----------------------------------------------------------------------------
\* What is known of data.

\* The types that Data is about.
LEMMA Stuff ==
  ASSUME IInv
  PROVE  /\ m \in Manager /\ m.entries \in Seq(Line) /\ m.file \in File /\ m.staged \in SUBSET Own
         /\ op \in [Actor -> Operation] /\ disk \in [File -> Content]
         /\ \A f \in File : disk[f] \in Content /\ disk[f].lines \in Seq(Line)
         /\ \A a \in Actor : /\ op[a].body \in Seq(Line) /\ op[a].target \in File
                             /\ op[a].target <= m.file
                             /\ op[a].seen \in Content /\ op[a].seen.lines \in Seq(Line)
         /\ history.unmarked \in SUBSET Own /\ history.deferred \in SUBSET Own
         /\ \A a \in Actor : Aside(a) \in SUBSET Own
<1>1. /\ m \in Manager /\ m.file \in File /\ op \in [Actor -> Operation]
      /\ disk \in [File -> Content] /\ WorldOk /\ \A a \in Actor : op[a] \in Operation
  BY InvFacts
<1>2. \A f \in File : disk[f] \in Content /\ disk[f].lines \in Seq(Line)
  BY <1>1 DEF Content
<1>3. \A a \in Actor : op[a].target <= m.file
  BY DEF IInv, OperationOk
<1>4. m.entries \in Seq(Line) /\ m.staged \in SUBSET Own
  BY <1>1 DEF Manager
<1>5. \A a \in Actor : op[a].body \in Seq(Line) /\ op[a].target \in File /\ op[a].seen \in Content
  BY <1>1 DEF Operation
<1>6. \A a \in Actor : op[a].seen.lines \in Seq(Line)
  BY <1>5 DEF Content
<1>7. history.unmarked \in SUBSET Own /\ history.deferred \in SUBSET Own
  BY <1>1 DEF WorldOk
<1>8. \A a \in Actor : Aside(a) \in SUBSET Own
  BY <1>4, <1>7 DEF Aside
<1> QED BY <1>1, <1>2, <1>3, <1>4, <1>5, <1>6, <1>7, <1>8

\* An operation without a body that could land.
LEMMA IdleGood ==
  ASSUME NEW a \in Actor, ~Staged(op'[a]),
         op'[a].pc # "resolving" \/ op'[a].superseded \/ op'[a].target # m'.file,
         op'[a].pc = "marking" => MarkOk(a)'
  PROVE  Good(a)'
<1>1. ~(Live(op'[a]) /\ op'[a].pc \in {"published", "checked"})
  BY DEF Staged
<1> QED BY <1>1 DEF Good, BodyOk, PlaceOk, LandedOk, ReadOk, MarkOk

\* An operation that has just staged what is in memory.
LEMMA StagedGood ==
  ASSUME NEW a \in Actor, op'[a].pc = "staging", op'[a].body = m'.entries, op'[a].target = m'.file
  PROVE  Good(a)'
BY DEF Good, BodyOk, PlaceOk, LandedOk, ReadOk, MarkOk, Same, Mine

\* A file that has not been come to.
LEMMA MovedClean ==
  ASSUME IInv, m'.file \in File, m'.file > m.file, UNCHANGED disk
  PROVE  Clean'
<1>1. FileOk(disk[m'.file], m'.file, m, history.batches)
  BY DEF IInv
<1>2. disk'[m'.file].id = 0 /\ 0 \notin File
  BY <1>1, Basics DEF FileOk, File
<1> QED BY <1>2 DEF Clean

\* Lines that memory lacks are still the leftovers of before.
LEMMA LeftOverKept ==
  ASSUME LeftOver, Clean => Clean', m.failed => m'.failed \/ Clean',
         \A c \in Actor :
           /\ Live(op'[c]) /\ ~op'[c].repair => (Live(op[c]) /\ ~op[c].repair) \/ ~m.failed
           /\ Contests(op'[c]) => Contests(op[c]) \/ ~m.failed \/ Clean
  PROVE  LeftOver'
BY DEF LeftOver

\* What b is about is as it was.
LEMMA BesideGood ==
  ASSUME IInv, NEW b \in Actor, Good(b), Steady(op'[b], op[b]),
         m'.entries = m.entries, m'.file = m.file,
         UNCHANGED disk, world'.tampered = world.tampered,
         history'.unmarked = history.unmarked, history'.deferred = history.deferred,
         Live(op[b]) => (m'.staged = m.staged \/ ~m.dirty) /\ (~m'.dirty => ~m.dirty),
         Trusted(b)' => Trusted(b),
         op[b].pc = "marking" /\ m.failed => m'.failed
  PROVE  Good(b)'
<1>1. /\ op'[b].pc = op[b].pc /\ op'[b].stale = op[b].stale /\ op'[b].repair = op[b].repair
      /\ op'[b].superseded = op[b].superseded /\ op'[b].body = op[b].body
      /\ op'[b].target = op[b].target /\ op'[b].seen = op[b].seen
  BY DEF Steady, Follows, SameData
<1>2. Live(op'[b]) = Live(op[b]) /\ Staged(op'[b]) = Staged(op[b])
  BY <1>1 DEF Live, Staged
<1>3. m'.staged = m.staged => Aside(b)' = Aside(b)
  BY DEF Aside
<1>4. history.unmarked \subseteq Aside(b)'
  BY DEF Aside
<1>5. /\ op[b].body \in Seq(Line) /\ m.entries \in Seq(Line)
  BY Stuff
<1>6. BodyOk(b)'
  <2>1. SUFFICES ASSUME Staged(op[b])
        PROVE  /\ Mine(op[b].body) \subseteq ToSet(m.entries)
               /\ Same(Aside(b)', op[b].body, m.entries)
               /\ ~m'.dirty => Same(history.unmarked, op[b].body, m.entries)
    BY <1>1, <1>2 DEF BodyOk
  <2>2. /\ Mine(op[b].body) \subseteq ToSet(m.entries)
        /\ Same(Aside(b), op[b].body, m.entries)
        /\ ~m.dirty => Same(history.unmarked, op[b].body, m.entries)
    BY <2>1 DEF Good, BodyOk
  <2>3. (m'.staged = m.staged \/ ~m.dirty) /\ (~m'.dirty => ~m.dirty)
    BY <2>1 DEF Staged
  <2>4. Same(Aside(b)', op[b].body, m.entries)
    BY <1>3, <1>4, <1>5, <2>2, <2>3, SameGrows
  <2> QED BY <2>2, <2>3, <2>4
<1>7. PlaceOk(b)'
  BY <1>1, <1>2 DEF Good, PlaceOk, Elsewhere
<1>8. LandedOk(b)'
  BY <1>1, <1>2 DEF Good, LandedOk, StillHas
<1>9. ReadOk(b)'
  BY <1>1 DEF Good, ReadOk, Elsewhere
<1>10. MarkOk(b)'
  BY <1>1 DEF Good, MarkOk
<1> QED BY <1>6, <1>7, <1>8, <1>9, <1>10 DEF Good

\* A step of a that touches neither memory nor the files.
LEMMA DataQuiet ==
  ASSUME IInv, Control, Data, ~m.released, NEW a \in Actor, NEW b \in Actor, a # b,
         Steady(op'[b], op[b]), m'.entries = m.entries, m'.file = m.file,
         UNCHANGED disk, world'.tampered = world.tampered,
         history'.unmarked = history.unmarked, history'.deferred = history.deferred,
         Live(op[b]) => (m'.staged = m.staged \/ ~m.dirty) /\ (~m'.dirty => ~m.dirty),
         m.failed => m'.failed \/ (Clean /\ ~op[b].repair /\ op[b].pc # "marking"),
         Live(op'[a]) /\ ~op'[a].repair => (Live(op[a]) /\ ~op[a].repair) \/ ~m.failed,
         Contests(op'[a]) => Contests(op[a]) \/ ~m.failed \/ Clean,
         Good(a)', Durable'
  PROVE  Data'
<1>1. Actor = {a, b}
  BY DEF Actor
<1>2. /\ op'[b].pc = op[b].pc /\ op'[b].stale = op[b].stale /\ op'[b].repair = op[b].repair
      /\ op'[b].superseded = op[b].superseded
  BY DEF Steady, Follows
<1>3. Live(op'[b]) = Live(op[b]) /\ Contests(op'[b]) = Contests(op[b])
  BY <1>2 DEF Live, Contests
<1>4. Good(b) /\ LeftOver /\ Named
  BY DEF Data
<1>5. Trusted(b)' => Trusted(b)
  BY <1>1, <1>2, <1>3 DEF Trusted
<1>6. Good(b)'
  BY <1>4, <1>5, BesideGood
<1>7. Clean' = Clean
  BY DEF Clean
<1>8. LeftOver'
  BY <1>1, <1>2, <1>3, <1>4, <1>7, LeftOverKept
<1>9. Named'
  BY <1>4 DEF Named
<1> QED BY <1>1, <1>6, <1>8, <1>9 DEF Data

\* A step that moves the session off its file.
LEMMA DataMoves ==
  ASSUME IInv, Data, ~m.released, m'.file \in File, m'.file > m.file,
         UNCHANGED disk, ~Cur(m'),
         \A c \in Actor : /\ Staged(op'[c]) => op'[c].pc = "staging" /\ op'[c].body = m'.entries
                                               /\ op'[c].target = m'.file
                          /\ op'[c].pc = "resolving" => op'[c].target <= m.file
                          /\ op'[c].pc # "marking"
  PROVE  Data'
<1>1. ASSUME NEW c \in Actor PROVE Good(c)'
  <2>1. CASE Staged(op'[c])
    BY <2>1, StagedGood
  <2>2. CASE ~Staged(op'[c])
    <3>1. ASSUME op'[c].target <= m.file, op'[c].target = m'.file PROVE FALSE
      <4>1. m'.file \in Nat /\ m.file \in Nat /\ m'.file <= m.file
        BY <3>1, Stuff, Basics
      <4> QED BY <4>1
    <3> QED BY <2>2, <3>1, IdleGood
  <2> QED BY <2>1, <2>2
<1>2. Clean'
  BY MovedClean
<1>3. LeftOver'
  BY <1>2 DEF LeftOver
<1>4. Durable'
  BY DEF Durable
<1>5. Named'
  BY DEF Data, Named
<1> QED BY <1>1, <1>3, <1>4, <1>5 DEF Data

\* A step after which no work of the epoch is left, and memory has all it had.
LEMMA DataStale ==
  ASSUME IInv, Data, ~m.released, \A c \in Actor : Overtook(op'[c], op[c]) \/ op'[c].pc = "draining",
         m'.failed \/ Clean', (Clean => Clean') \/ \A c \in Actor : ~Contests(op'[c]),
         Durable', Named', \A c \in Actor : MarkOk(c)'
  PROVE  Data'
<1>1. ASSUME NEW c \in Actor
      PROVE  /\ ~Live(op'[c]) /\ ~Staged(op'[c])
             /\ op'[c].pc = "resolving" => op'[c].superseded
             /\ Contests(op'[c]) => Contests(op[c])
  <2>1. CASE Overtook(op'[c], op[c])
    BY <2>1 DEF Overtook, Follows, Live, Staged, Running, RestPc, Contests
  <2>2. CASE op'[c].pc = "draining"
    BY <2>2 DEF Live, Staged, Running, Contests
  <2> QED BY <2>1, <2>2
<1>2. \A c \in Actor : Good(c)'
  BY <1>1, IdleGood
<1>3. LeftOver'
  BY <1>1 DEF LeftOver, Data
<1> QED BY <1>2, <1>3 DEF Data

-----------------------------------------------------------------------------
\* Data after the manager's own steps.

\* Memory that only grows, at the file or further on.
LEMMA GrownClean ==
  ASSUME IInv, UNCHANGED disk, m'.file \in File,
         (m'.file = m.file /\ ToSet(m.entries) \subseteq ToSet(m'.entries)) \/ m'.file > m.file
  PROVE  Clean => Clean'
<1>1. CASE m'.file = m.file /\ ToSet(m.entries) \subseteq ToSet(m'.entries)
  BY <1>1 DEF Clean
<1>2. CASE m'.file > m.file
  BY <1>2, MovedClean
<1> QED BY <1>1, <1>2

\* Data after a synchronous rewrite.
LEMMA SyncData ==
  ASSUME IInv, Data, ~m.released, NEW x \in Manager, x.file = m.file,
         ToSet(m.entries) \subseteq ToSet(x.entries), RewriteSynchronously(x)
  PROVE  Data'
<1> DEFINE h == Housed(x)
           y == [h EXCEPT !.writer = FALSE, !.fence = FALSE]
           clash == Size(disk[y.file]) # y.expected
           z == IF clash THEN Recovered(y, disk[y.file]) ELSE y
           final == IF clash /\ y.expected = Absent THEN y ELSE z
           Grown(n) == n \in Manager /\ ToSet(m.entries) \subseteq ToSet(n.entries)
                       /\ (n.file = m.file \/ n.file > m.file)
<1>0. m.file \in Nat /\ File \subseteq Nat /\ disk \in [File -> Content] /\ m.file \in File
  BY Stuff, Basics
<1>1. Grown(h) /\ (h.file = m.file \/ h.expected = Absent)
  BY <1>0, HousedAlike DEF Alike, Stays, Moved
<1>2. /\ final.file \in File /\ op' = Stale
      /\ \/ /\ Published(z, z.file, z.entries) /\ final = z
            /\ m' = [z EXCEPT !.failed = FALSE, !.expected = SizeOf(z.entries),
                              !.current = TRUE, !.required = FALSE]
         \/ m' = [final EXCEPT !.failed = TRUE] /\ UNCHANGED disk
  BY DEF RewriteSynchronously
<1> HIDE DEF h
<1>3. Grown(y) /\ y.file = h.file /\ y.expected = h.expected
  <2>1. y \in Manager /\ y.entries = h.entries /\ y.file = h.file /\ y.expected = h.expected
    BY <1>1 DEF Manager
  <2> HIDE DEF y
  <2> QED BY <1>1, <2>1
<1> HIDE DEF y
<1>4. y.file \in File
  <2>1. y.expected = Absent => final = y
    OBVIOUS
  <2> QED BY <1>0, <1>1, <1>2, <1>3, <2>1
<1>5. Grown(z)
  <2>1. CASE clash
    <3>1. z = Recovered(y, disk[y.file]) /\ disk[y.file] \in Content
      BY <1>0, <1>4, <2>1
    <3>2. y.entries \in Seq(Line) /\ y.file \in Nat
      BY <1>3 DEF Manager
    <3>3. disk[y.file].lines \in Seq(Line)
      BY <3>1 DEF Content
    <3>4. Without(disk[y.file].lines, ToSet(y.entries)) \in Seq(Line)
      BY <3>3, WithoutFacts
    <3>5. ToSet(y.entries) \subseteq ToSet(Joined(y.entries, Without(disk[y.file].lines, ToSet(y.entries))))
      BY <3>2, <3>4, MembersFacts DEF Joined
    <3>6. z \in Manager /\ (z.file = y.file \/ z.file = y.file + 1)
          /\ ToSet(y.entries) \subseteq ToSet(z.entries)
      BY <1>3, <3>1, <3>5, RecoveredAlike DEF Alike, Stays, Moved
    <3> QED BY <1>0, <1>3, <3>2, <3>6
  <2> QED BY <1>3, <2>1
<1> HIDE DEF clash, z
<1>6. Grown(final)
  BY <1>3, <1>5
<1> HIDE DEF final
<1>7. \A c \in Actor : Overtook(op'[c], op[c])
  BY <1>2, StaleOvertook
<1>8. Named
  BY DEF Data
<1>9. CASE /\ Published(z, z.file, z.entries) /\ final = z
           /\ m' = [z EXCEPT !.failed = FALSE, !.expected = SizeOf(z.entries),
                             !.current = TRUE, !.required = FALSE]
  <2>1. m'.entries = z.entries /\ m'.file = z.file /\ z.file \in File
    BY <1>2, <1>5, <1>9 DEF Manager
  <2>2. disk'[m'.file] = Journal(m'.file, m'.entries) /\ \A f \in File \ {m'.file} : disk'[f] = disk[f]
    BY <1>0, <1>9, <2>1 DEF Published
  <2>3. Clean' /\ Durable' /\ Named' /\ \A c \in Actor : MarkOk(c)'
    BY <1>8, <2>1, <2>2 DEF Clean, Durable, Named, MarkOk, Journal, Same, Mine
  <2> QED BY <1>7, <2>3, DataStale
<1>10. CASE m' = [final EXCEPT !.failed = TRUE] /\ UNCHANGED disk
  <2>1. m'.entries = final.entries /\ m'.file = final.file /\ m'.failed
    BY <1>6, <1>10 DEF Manager
  <2>2. Clean => Clean'
    BY <1>2, <1>6, <1>10, <2>1, GrownClean
  <2>3. Durable' /\ Named' /\ \A c \in Actor : MarkOk(c)'
    BY <1>8, <1>10, <2>1 DEF Durable, Named, MarkOk
  <2> QED BY <1>7, <2>1, <2>2, <2>3, DataStale
<1> QED BY <1>2, <1>9, <1>10

\* Data after FlushSync.
LEMMA FlushSyncData == ASSUME IInv, Data, FlushSync PROVE Data'
<1>1. m \in Manager
  BY Stuff
<1> QED BY <1>1, SyncData DEF FlushSync

\* Data after Seal.
LEMMA SealData == ASSUME IInv, Seal PROVE Data'
<1>1. m'.released
  BY Stuff DEF Seal, Manager
<1> QED BY <1>1 DEF Data

\* An entry that is recorded.
LEMMA RecordMarks ==
  ASSUME NEW x \in Manager, NEW e \in Own
  PROVE  /\ Record(x, e) \in Manager /\ Record(x, e).entries = Append(x.entries, e)
         /\ Record(x, e).file = x.file /\ Record(x, e).expected = x.expected
         /\ Record(x, e).staged = x.staged /\ Record(x, e).batch = x.batch
         /\ Record(x, e).failed = x.failed /\ Record(x, e).fence = x.fence
         /\ Record(x, e).dirty = x.dirty /\ Record(x, e).claimed = x.claimed
         /\ Record(x, e).released = x.released /\ Record(x, e).writer = x.writer
         /\ Cur(Record(x, e)) = Cur(x)
         /\ ToSet(Record(x, e).entries) = ToSet(x.entries) \cup {e}
<1> DEFINE s == Append(x.entries, e)
<1>1. x.entries \in Seq(Line) /\ e \in Line /\ x.next + 1 \in Nat
  BY DEF Manager, Line
<1>2. s \in Seq(Line) /\ ToSet(s) = ToSet(x.entries) \cup {e}
  BY <1>1, AppendProperties, MembersFacts
<1>3. Record(x, e) = [x EXCEPT !.entries = s, !.next = x.next + 1]
  BY DEF Record
<1> HIDE DEF s
<1>4. Record(x, e) \in Manager
  BY <1>1, <1>2, <1>3 DEF Manager
<1>5. Record(x, e).entries = s
  BY <1>3 DEF Manager
<1> QED BY <1>2, <1>3, <1>4, <1>5 DEF Manager, Cur, s

\* An entry is left to a batch.
LEMMA DeferralData ==
  ASSUME IInv, Data, ~m.released, NEW e \in Own, e = m.next, m' = Deferred(Record(m, e)),
         UNCHANGED <<op, disk, world>>,
         history' = [history EXCEPT !.deferred = @ \cup {e}]
  PROVE  Data'
<1> DEFINE x == Record(m, e)
<1>1. /\ x \in Manager /\ x.entries = Append(m.entries, e) /\ x.file = m.file
      /\ x.staged = m.staged /\ x.failed = m.failed
      /\ ToSet(x.entries) = ToSet(m.entries) \cup {e}
  BY Stuff, RecordMarks
<1> HIDE DEF x
<1>2. /\ m'.entries = Append(m.entries, e) /\ m'.file = m.file /\ m'.staged = m.staged
      /\ m'.failed = m.failed /\ m'.dirty /\ ~Cur(m')
  BY <1>1 DEF Deferred, Diverged, Manager, Cur, x
<1>3. history'.unmarked = history.unmarked /\ history'.deferred = history.deferred \cup {e}
  BY InvFacts DEF WorldOk
<1>4. ToSet(m'.entries) = ToSet(m.entries) \cup {e}
  BY <1>1, <1>2
<1>5. ASSUME NEW c \in Actor PROVE Good(c)'
  <2>1. Good(c) /\ op'[c] = op[c]
    BY DEF Data
  <2>2. Aside(c)' = Aside(c) \cup {e}
    BY <1>2, <1>3 DEF Aside
  <2>3. ASSUME Staged(op[c]) PROVE Same(Aside(c)', op[c].body, m'.entries)
    <3>1. Same(Aside(c), op[c].body, m.entries)
      BY <2>1, <2>3 DEF Good, BodyOk
    <3>2. op[c].body \in Seq(Line) /\ m.entries \in Seq(Line) /\ e \in Line
      BY Stuff DEF Line
    <3>3. Same(Aside(c)', op[c].body, m.entries)
      BY <2>2, <3>1, <3>2, SameGrows
    <3> QED BY <1>2, <2>2, <3>2, <3>3, SameAdds
  <2>4. BodyOk(c)'
    BY <1>2, <1>4, <2>1, <2>3 DEF Good, BodyOk
  <2>5. PlaceOk(c)' /\ LandedOk(c)'
    BY <1>2, <2>1 DEF Good, PlaceOk, LandedOk, Elsewhere, StillHas
  <2>6. Trusted(c)' => Trusted(c)
    BY <1>2 DEF Trusted
  <2>7. ReadOk(c)'
    BY <1>2, <1>4, <2>1, <2>6 DEF Good, ReadOk, Elsewhere
  <2>8. MarkOk(c)'
    <3> DEFINE S == history.unmarked \cup (history.deferred \ ToSet(op[c].body))
               T == history.unmarked \cup ((history.deferred \cup {e}) \ ToSet(op[c].body))
    <3>1. SUFFICES ASSUME op[c].pc = "marking", ~m.failed, m.file \notin world.tampered
          PROVE  disk[m.file].id = m.file /\ Same(T, disk[m.file].lines, m'.entries)
      BY <1>2, <1>3, <2>1 DEF MarkOk
    <3>2. disk[m.file].id = m.file /\ Same(S, disk[m.file].lines, m.entries)
      BY <2>1, <3>1 DEF Good, MarkOk
    <3>3. e \notin ToSet(op[c].body)
      <4>1. Sane(ToSet(op[c].body), m.next, history.batches)
        BY DEF IInv, OperationOk
      <4>2. m.next \in Nat
        BY Stuff DEF Manager
      <4> QED BY <4>1, <4>2 DEF Sane
    <3>4. /\ disk[m.file].lines \in Seq(Line) /\ m.entries \in Seq(Line) /\ e \in Line
          /\ S \subseteq T /\ e \in T
      BY <3>3, Stuff DEF Line
    <3> HIDE DEF S, T
    <3>5. Same(T, disk[m.file].lines, m.entries)
      BY <3>2, <3>4, SameGrows
    <3>6. Same(T, disk[m.file].lines, m'.entries)
      BY <1>2, <3>4, <3>5, SameAdds
    <3> QED BY <3>2, <3>6
  <2> QED BY <2>4, <2>5, <2>7, <2>8 DEF Good
<1>6. Clean => Clean'
  BY <1>2, <1>4, Stuff, GrownClean
<1>7. LeftOver'
  BY <1>2, <1>6 DEF LeftOver, Data
<1>8. Durable' /\ Named'
  BY <1>2 DEF Durable, Named, Data
<1> QED BY <1>5, <1>7, <1>8 DEF Data

\* No operation is live while the fence is down.
LEMMA NoFence ==
  ASSUME Control, ~m.released, ~m.fence
  PROVE  \A c \in Actor : ~Live(op[c])
BY DEF Control, Held

\* A line is written at the end, or the failure noted.
LEMMA HotData ==
  ASSUME IInv, Control, Data, ~m.released, NEW x \in Manager, NEW e \in Own,
         x.entries = Append(m.entries, e), x.file = m.file, x.failed = m.failed, ~m.failed,
         ~m.fence, Cur(m), AppendLine(x, e), history' = history
  PROVE  Data'
<1>1. /\ m.entries \in Seq(Line) /\ m.file \in File /\ disk \in [File -> Content] /\ e \in Line
      /\ disk[m.file] \in Content /\ disk[m.file].lines \in Seq(Line)
      /\ ToSet(x.entries) = ToSet(m.entries) \cup {e}
  <2>1. m.entries \in Seq(Line) /\ e \in Line
    BY Stuff DEF Line
  <2> QED BY <2>1, Stuff, MembersFacts
<1>2. op' = op /\ \A c \in Actor : ~Live(op[c])
  BY NoFence DEF AppendLine
<1>3. Clean /\ Durable /\ Named /\ \A c \in Actor : Good(c) /\ Trusted(c)
  BY DEF Data, LeftOver, Trusted
<1>4. ASSUME m'.entries = x.entries, m'.file = m.file, Clean', Durable', Named',
             \A f \in File : Elsewhere(f) => Elsewhere(f)', \A c \in Actor : MarkOk(c)'
      PROVE  Data'
  <2>1. ASSUME NEW c \in Actor PROVE Good(c)'
    <3>1. op'[c] = op[c] /\ ~Live(op'[c]) /\ ~Staged(op'[c]) /\ op[c].target \in File
      BY <1>2, Stuff DEF Staged
    <3>2. ReadOk(c)'
      BY <1>1, <1>3, <1>4, <3>1 DEF Good, ReadOk
    <3>3. MarkOk(c)'
      BY <1>4
    <3> QED BY <3>1, <3>2, <3>3 DEF Good, BodyOk, PlaceOk, LandedOk
  <2> QED BY <1>4, <2>1 DEF Data, LeftOver
<1>5. CASE disk' = Landed(x, e)
           /\ m' = [x EXCEPT !.writer = TRUE, !.expected = (@ \ Absent) \cup {e}]
           /\ UNCHANGED world
  <2>1. m'.entries = x.entries /\ m'.file = m.file /\ m'.failed = m.failed
    BY <1>5 DEF Manager
  <2>2. CASE disk[m.file] # Missing
    <3> DEFINE s == Append(disk[m.file].lines, e)
               d == [disk[m.file] EXCEPT !.lines = s]
    <3>1. disk' = [disk EXCEPT ![m.file] = d]
      BY <1>5, <2>2 DEF Landed
    <3>2. s \in Seq(Line) /\ ToSet(s) = ToSet(disk[m.file].lines) \cup {e} /\ s # <<>>
      <4>1. ToSet(s) = ToSet(disk[m.file].lines) \cup {e} /\ s \in Seq(Line)
        BY <1>1, AppendProperties, MembersFacts
      <4>2. ToSet(<<>>) = {}
        BY <1>1, MembersFacts
      <4> QED BY <4>1, <4>2
    <3> HIDE DEF s
    <3>3. d.id = disk[m.file].id /\ d.lines = s /\ d # Missing
      <4>1. d.id = disk[m.file].id /\ d.lines = s
        BY <1>1 DEF Content
      <4> HIDE DEF d
      <4> QED BY <3>2, <4>1, Basics
    <3> HIDE DEF d
    <3>4. disk'[m.file] = d /\ \A f \in File \ {m.file} : disk'[f] = disk[f]
      BY <1>1, <3>1
    <3>5. Clean'
      BY <1>1, <1>3, <2>1, <3>2, <3>3, <3>4 DEF Clean, Mine
    <3>6. Durable'
      <4>1. SUFFICES ASSUME m.file \notin world.tampered
            PROVE  d.id = m.file /\ Same(history.unmarked, s, x.entries)
        BY <1>5, <2>1, <3>3, <3>4 DEF Durable
      <4>2. disk[m.file].id = m.file /\ Same(history.unmarked, disk[m.file].lines, m.entries)
        BY <1>3, <4>1 DEF Durable
      <4>3. Same(history.unmarked, s, x.entries)
        BY <1>1, <4>2, SameAppends DEF s
      <4> QED BY <3>3, <4>2, <4>3
    <3>7. Named' /\ \A f \in File : Elsewhere(f) => Elsewhere(f)'
      BY <1>3, <3>3, <3>4 DEF Named, Elsewhere
    <3>8. ASSUME NEW c \in Actor PROVE MarkOk(c)'
      <4> DEFINE S == history.unmarked \cup (history.deferred \ ToSet(op[c].body))
      <4>1. SUFFICES ASSUME op[c].pc = "marking", m.file \notin world.tampered
            PROVE  d.id = m.file /\ Same(S, s, x.entries)
        BY <1>2, <1>5, <2>1, <3>3, <3>4 DEF MarkOk
      <4>2. disk[m.file].id = m.file /\ Same(S, disk[m.file].lines, m.entries)
        BY <1>3, <4>1 DEF Good, MarkOk
      <4> HIDE DEF S
      <4>3. Same(S, s, x.entries)
        BY <1>1, <4>2, SameAppends DEF s
      <4> QED BY <3>3, <4>2, <4>3
    <3> QED BY <1>4, <2>1, <3>5, <3>6, <3>7, <3>8
  <2>3. CASE disk[m.file] = Missing
    <3>1. m.file \in world.tampered
      <4>1. disk[m.file].id # m.file
        BY <1>1, <2>3, Basics DEF File
      <4> QED BY <1>3, <4>1 DEF Durable
    <3>2. Durable' /\ \A c \in Actor : MarkOk(c)'
      BY <1>5, <2>1, <3>1 DEF Durable, MarkOk
    <3>3. CASE x.writer
      <4>1. disk' = disk
        BY <1>5, <2>3, <3>3 DEF Landed
      <4>2. Clean'
        BY <1>1, <1>3, <2>1, <4>1 DEF Clean
      <4> QED BY <1>3, <1>4, <2>1, <3>2, <4>1, <4>2 DEF Named, Elsewhere
    <3>4. CASE ~x.writer
      <4>1. disk' = [disk EXCEPT ![m.file] = Journal(0, <<e>>)]
        BY <1>5, <2>3, <3>4 DEF Landed
      <4>2. disk'[m.file].id = 0 /\ \A f \in File \ {m.file} : disk'[f] = disk[f]
        BY <1>1, <4>1 DEF Journal
      <4>3. 0 \notin File
        BY DEF File
      <4>4. Clean' /\ Named'
        BY <1>1, <1>3, <2>1, <4>2, <4>3 DEF Clean, Named
      <4>5. \A f \in File : Elsewhere(f) => Elsewhere(f)'
        BY <2>3, <4>2 DEF Elsewhere
      <4> QED BY <1>4, <2>1, <3>2, <4>4, <4>5
    <3> QED BY <3>3, <3>4
  <2> QED BY <2>2, <2>3
<1>6. CASE /\ UNCHANGED disk
           /\ m' = [x EXCEPT !.writer = TRUE, !.failed = TRUE, !.current = FALSE, !.required = TRUE]
  <2>1. m'.entries = x.entries /\ m'.file = m.file /\ ~Cur(m') /\ m'.failed
    BY <1>6 DEF Manager, Cur
  <2>2. Clean' /\ Durable' /\ Named' /\ \A c \in Actor : MarkOk(c)'
    BY <1>1, <1>3, <1>6, <2>1 DEF Clean, Durable, Named, MarkOk
  <2> QED BY <1>4, <1>6, <2>1, <2>2 DEF Elsewhere
<1> QED BY <1>5, <1>6 DEF AppendLine

\* Data after AppendEntry.
LEMMA AppendEntryData == ASSUME IInv, Control, Data, AppendEntry PROVE Data'
<1> DEFINE x == Record(m, m.next)
           y == IF m.failed THEN Diverged(x) ELSE x
<1>1. m \in Manager /\ m.next \in Own /\ ~m.released
  BY Stuff DEF AppendEntry
<1>2. /\ x \in Manager /\ x.entries = Append(m.entries, m.next) /\ x.file = m.file
      /\ x.failed = m.failed /\ x.fence = m.fence /\ x.dirty = m.dirty
      /\ Cur(x) = Cur(m) /\ ToSet(x.entries) = ToSet(m.entries) \cup {m.next}
  BY <1>1, RecordMarks
<1>3. /\ y \in Manager /\ y.entries = x.entries /\ y.file = m.file /\ y.failed = m.failed
      /\ y.fence = m.fence /\ (Cur(y) => Cur(m) /\ ~m.failed)
  <2> HIDE DEF x
  <2> QED BY <1>2, MarksAlike
<1>4. \/ /\ m' = Deferred(x) /\ UNCHANGED <<op, disk, world>>
         /\ history' = [history EXCEPT !.deferred = @ \cup {m.next}]
      \/ \E d \in BOOLEAN : RewriteSynchronously([y EXCEPT !.dirty = d])
      \/ Cur(y) /\ ~y.fence /\ AppendLine(Claim(y), m.next) /\ history' = history
  <2>1. y.dirty \in BOOLEAN /\ y.fence \in BOOLEAN
    BY <1>3 DEF Manager
  <2> QED BY <2>1 DEF AppendEntry, Cur
<1>5. CASE /\ m' = Deferred(x) /\ UNCHANGED <<op, disk, world>>
           /\ history' = [history EXCEPT !.deferred = @ \cup {m.next}]
  BY <1>1, <1>5, DeferralData
<1> HIDE DEF x, y
<1>6. ASSUME NEW d \in BOOLEAN, RewriteSynchronously([y EXCEPT !.dirty = d])
      PROVE  Data'
  <2> DEFINE z == [y EXCEPT !.dirty = d]
  <2>1. z \in Manager /\ z.file = y.file /\ z.entries = y.entries
    BY <1>3 DEF Manager
  <2>2. RewriteSynchronously(z)
    BY <1>6
  <2> HIDE DEF z
  <2> QED BY <1>1, <1>2, <1>3, <2>1, <2>2, SyncData
<1>7. CASE Cur(y) /\ ~y.fence /\ AppendLine(Claim(y), m.next) /\ history' = history
  <2>1. /\ Claim(y) \in Manager /\ Claim(y).file = y.file /\ Claim(y).entries = y.entries
        /\ Claim(y).failed = y.failed
    BY <1>3, ClaimFields
  <2> QED BY <1>1, <1>2, <1>3, <1>7, <2>1, HotData
<1> QED BY <1>4, <1>5, <1>6, <1>7

-----------------------------------------------------------------------------
\* Data after the steps of the operations.

\* The same memory is as durable as it was.
LEMMA DurableKept ==
  ASSUME Data, ~m.released, m'.entries = m.entries, m'.file = m.file, UNCHANGED disk,
         world'.tampered = world.tampered, history'.unmarked = history.unmarked,
         (Cur(m') /\ ~m'.failed) => (Cur(m) /\ ~m.failed)
  PROVE  Durable'
BY DEF Data, Durable

\* No step that changes neither memory nor files puts a at risk, if a has nothing staged.
LEMMA DataIdle ==
  ASSUME IInv, Control, Data, ~m.released, NEW a \in Actor, NEW b \in Actor, a # b,
         Steady(op'[b], op[b]), m'.entries = m.entries, m'.file = m.file,
         UNCHANGED <<disk, world>>,
         history'.unmarked = history.unmarked, history'.deferred = history.deferred,
         Live(op[b]) => (m'.staged = m.staged \/ ~m.dirty) /\ (~m'.dirty => ~m.dirty),
         m.failed => m'.failed \/ (Clean /\ ~op[b].repair /\ op[b].pc # "marking"),
         Live(op'[a]) /\ ~op'[a].repair => (Live(op[a]) /\ ~op[a].repair) \/ ~m.failed,
         ~Staged(op'[a]), op'[a].pc \notin {"conflict", "reading", "resolving", "marking"}, Durable'
  PROVE  Data'
<1>1. Good(a)'
  BY IdleGood
<1>2. ~Contests(op'[a])
  BY DEF Contests
<1> QED BY <1>1, <1>2, DataQuiet

\* Data after a's work in the queue has ended.
LEMMA EndedData ==
  ASSUME IInv, Control, Data, ~m.released, NEW a \in Actor, Leaves(a, Ended(a)),
         m'.entries = m.entries, m'.file = m.file, m'.staged = m.staged, m'.dirty = m.dirty,
         m'.failed = m.failed, UNCHANGED <<disk, world, history>>, Durable'
  PROVE  Data'
<1>1. PICK b \in Actor : a # b /\ Actor = {a, b}
  BY Beside
<1>2. op'[a] = Ended(a) /\ Steady(op'[b], op[b])
  BY <1>1, LeavesSteady, EndedFields, InvFacts DEF Blank
<1>3. Ended(a).pc \in {"idle", "flushing", "deciding"}
  BY EndedRecord
<1>4. /\ ~Live(op'[a]) /\ ~Staged(op'[a])
      /\ op'[a].pc \notin {"conflict", "reading", "resolving", "marking"}
  BY <1>2, <1>3 DEF Live, Staged, Running
<1> QED BY <1>1, <1>2, <1>4, DataIdle

\* Data after Rewrite.
LEMMA RewriteData == ASSUME IInv, Control, Data, Rewrite PROVE Data'
<1> DEFINE rec == Scheduled("rewrite", FALSE)
<1>1. PICK b \in Actor : "rewrite" # b /\ Actor = {"rewrite", b} /\ "rewrite" \in Actor
                         /\ op[b] \in Operation
  BY InvFacts, Beside
<1>2. Plain(rec, "queued", FALSE, Before("rewrite"))
  BY <1>1, PlainRecords
<1>3. op' = [op EXCEPT !["rewrite"] = rec] /\ m' = m /\ ~m.released
      /\ UNCHANGED <<disk, world, history>>
  BY DEF Rewrite
<1> HIDE DEF rec
<1>4. op'["rewrite"] = rec /\ Steady(op'[b], op[b])
  BY <1>1, <1>3, SteadySame, InvFacts
<1>5. /\ ~Live(op'["rewrite"]) /\ ~Staged(op'["rewrite"])
      /\ op'["rewrite"].pc \notin {"conflict", "reading", "resolving", "marking"}
  BY <1>2, <1>4 DEF Live, Staged, Running, Plain
<1>6. Durable'
  BY <1>3, DurableKept
<1> QED BY <1>1, <1>3, <1>4, <1>5, <1>6, DataIdle

\* Data after BatchBegins.
LEMMA BatchBeginsData == ASSUME IInv, Control, Data, BatchBegins PROVE Data'
<1> DEFINE rec == IF m.current /\ ~m.required THEN Flushing("batch") ELSE Scheduled("batch", TRUE)
<1>1. PICK b \in Actor : "batch" # b /\ Actor = {"batch", b} /\ "batch" \in Actor
                         /\ op[b] \in Operation
  BY InvFacts, Beside
<1>2. rec.pc \in {"queued", "flushing"}
  BY <1>1, PlainRecords DEF Plain
<1>3. op' = [op EXCEPT !["batch"] = rec] /\ m' = m /\ ~m.released
      /\ UNCHANGED <<disk, world, history>>
  BY DEF BatchBegins
<1> HIDE DEF rec
<1>4. op'["batch"] = rec /\ Steady(op'[b], op[b])
  BY <1>1, <1>3, SteadySame, InvFacts
<1>5. /\ ~Live(op'["batch"]) /\ ~Staged(op'["batch"])
      /\ op'["batch"].pc \notin {"conflict", "reading", "resolving", "marking"}
  BY <1>2, <1>4 DEF Live, Staged, Running
<1>6. Durable'
  BY <1>3, DurableKept
<1> QED BY <1>1, <1>3, <1>4, <1>5, <1>6, DataIdle

\* Data after a repair has begun.
LEMMA RepairsData ==
  ASSUME IInv, Control, Data, ~m.released, NEW x \in Manager, Repairs(x),
         x.file = m.file, UNCHANGED <<disk, world>>,
         x.entries = m.entries \/ op["batch"].pc \in HopPc
  PROVE  Data'
<1>1. CASE x.released
  <2>1. m'.released
    BY <1>1 DEF Repairs, Manager
  <2> QED BY <2>1 DEF Data
<1>2. CASE ~x.released
  <2> DEFINE rec == [Idle EXCEPT !.pc = "draining", !.repair = TRUE, !.waits = Before("batch")]
             q == Overtaken(op["rewrite"])
  <2>1. /\ op' = [a \in Actor |-> IF a = "batch" THEN rec
                                  ELSE [Overtaken(op[a]) EXCEPT !.waits = @ \ {"batch"}]]
        /\ m' = [Diverged(x) EXCEPT !.writer = FALSE, !.fence = TRUE, !.failed = TRUE]
    BY <1>2 DEF Repairs
  <2>2. m'.failed /\ m'.file = m.file /\ m'.entries = x.entries
    BY <2>1 DEF Diverged, Manager
  <2>3. "batch" \in Actor /\ "rewrite" \in Actor /\ op["rewrite"] \in Operation
        /\ \A c \in Actor : c \in {"batch", "rewrite"}
    BY InvFacts DEF Actor
  <2>4. op'["batch"].pc = "draining"
    BY <2>1, <2>3 DEF Idle
  <2>5. op'["rewrite"] = [q EXCEPT !.waits = q.waits \ {"batch"}]
    BY <2>1, <2>3
  <2>6. q \in Operation /\ Overtook(q, op["rewrite"])
    BY <2>3, OvertookFields, OvertakenFields DEF Follows, SameData
  <2>7. q.waits \ {"batch"} \in SUBSET Actor
    BY <2>6 DEF Operation
  <2> HIDE DEF q, rec
  <2>70. q.waits \ {"batch"} \subseteq q.waits
    OBVIOUS
  <2>8. Steady(op'["rewrite"], q)
    <3> DEFINE s == q.waits \ {"batch"}
    <3>1. s \in SUBSET Actor /\ s \subseteq q.waits /\ op'["rewrite"] = [q EXCEPT !.waits = s]
      BY <2>5, <2>7, <2>70
    <3> HIDE DEF s
    <3> QED BY <2>6, <3>1, SteadyWaits
  <2>9. Overtook(op'["rewrite"], op["rewrite"])
    BY <2>6, <2>8 DEF Steady, Overtook, Follows, SameData
  <2>10. \A c \in Actor : Overtook(op'[c], op[c]) \/ op'[c].pc = "draining"
    BY <2>3, <2>4, <2>9
  <2>11. (Clean => Clean') \/ \A c \in Actor : ~Contests(op'[c])
    <3>1. CASE x.entries = m.entries
      BY <2>2, <3>1 DEF Clean
    <3>2. CASE op["batch"].pc \in HopPc
      <4>1. op["rewrite"].pc \notin HopPc
        BY <2>3, <3>2 DEF Control, Apart
      <4>2. ~Contests(op'["rewrite"])
        BY <2>9, <4>1 DEF Overtook, Follows, Contests, HopPc, RestPc
      <4>3. ~Contests(op'["batch"])
        BY <2>4 DEF Contests
      <4> QED BY <2>3, <4>2, <4>3
    <3> QED BY <3>1, <3>2
  <2>12. Durable' /\ Named' /\ \A c \in Actor : MarkOk(c)'
    BY <2>2 DEF Durable, MarkOk, Data, Named
  <2> QED BY <2>2, <2>10, <2>11, <2>12, DataStale
<1> QED BY <1>1, <1>2

\* Data after RecoverPersistence.
LEMMA RecoverPersistenceData == ASSUME IInv, Control, Data, RecoverPersistence PROVE Data'
<1>1. ~m.released /\ Repairs(m) /\ UNCHANGED <<disk, world>> /\ m \in Manager
  BY Stuff DEF RecoverPersistence, Files
<1> QED BY <1>1, RepairsData

\* Data after Fails.
LEMMA FailsData ==
  ASSUME IInv, Control, Data, ~m.released, NEW a \in Actor, Fails(a) PROVE Data'
<1>1. PICK b \in Actor : a # b /\ Actor = {a, b} /\ op[b] \in Operation /\ m \in Manager
  BY Beside
<1>2. op[a].pc = "failing" /\ UNCHANGED <<disk, world>>
  BY DEF Fails, Here, Files
<1> DEFINE x == [m EXCEPT !.failed = TRUE]
<1>3. /\ x \in Manager /\ x.failed /\ x.dirty = m.dirty /\ x.staged = m.staged
      /\ x.entries = m.entries /\ x.file = m.file
  BY <1>1 DEF Manager
<1>4. CASE a = "rewrite"
  <2>1. m' = x /\ Leaves(a, Idle) /\ UNCHANGED history
    BY <1>4 DEF Fails
  <2> HIDE DEF x
  <2>2. op'[a] = Idle /\ Steady(op'[b], op[b])
    BY <1>1, <2>1, BlankFields, LeavesSteady, InvFacts DEF Blank
  <2>3. ~Live(op'[a]) /\ ~Staged(op'[a]) /\ op'[a].pc \notin {"conflict", "reading", "resolving", "marking"}
    BY <2>2, BlankFields DEF Live, Staged, Running
  <2>4. Durable'
    BY <1>3, <2>1 DEF Durable
  <2> QED BY <1>1, <1>2, <1>3, <2>1, <2>2, <2>3, <2>4, DataIdle
<1>5. CASE a # "rewrite"
  <2> DEFINE y == IF op[a].ensure THEN x ELSE RolledBack(x)
  <2>1. Repairs(y) /\ a = "batch"
    BY <1>5 DEF Fails, Rejects, Actor
  <2> HIDE DEF x
  <2>2. y \in Manager /\ y.file = m.file
    BY <1>3, RolledBackMarks
  <2> HIDE DEF y
  <2>3. op["batch"].pc \in HopPc
    BY <1>2, <2>1 DEF HopPc
  <2> QED BY <1>2, <2>1, <2>2, <2>3, RepairsData
<1> QED BY <1>4, <1>5

\* Data after Flushed.
LEMMA FlushedData == ASSUME IInv, Control, Data, ~m.released, Flushed PROVE Data'
<1>1. UNCHANGED <<disk, world, history>> /\ m \in Manager
  BY Stuff DEF Flushed, Reached, At, Files
<1>2. CASE m.failed
  <2>1. Repairs(m)
    BY <1>2 DEF Flushed
  <2> QED BY <1>1, <2>1, RepairsData
<1>3. CASE ~m.failed
  <2> DEFINE rec == [Idle EXCEPT !.pc = "collecting"]
  <2>1. m' = m /\ Leaves("batch", rec)
    BY <1>3 DEF Flushed
  <2>2. PICK b \in Actor : "batch" # b /\ Actor = {"batch", b} /\ "batch" \in Actor
    BY InvFacts, Beside
  <2>3. Plain(rec, "collecting", FALSE, {})
    BY <2>2, PlainRecords
  <2> HIDE DEF rec
  <2>4. op'["batch"] = rec /\ Steady(op'[b], op[b])
    BY <2>1, <2>2, <2>3, LeavesSteady, InvFacts DEF Plain, Blank
  <2>5. /\ ~Live(op'["batch"]) /\ ~Staged(op'["batch"])
        /\ op'["batch"].pc \notin {"conflict", "reading", "resolving", "marking"}
    BY <2>3, <2>4 DEF Live, Staged, Running, Plain
  <2>6. Durable'
    BY <1>1, <2>1, DurableKept
  <2> QED BY <1>1, <2>1, <2>2, <2>4, <2>5, <2>6, DataIdle
<1> QED BY <1>2, <1>3

\* Data after Starts.
LEMMA StartsData ==
  ASSUME IInv, Control, Control', Data, ~m.released, NEW a \in Actor, Starts(a) PROVE Data'
<1>1. PICK b \in Actor : a # b /\ Actor = {a, b} /\ op[b] \in Operation /\ m \in Manager
  BY Beside
<1>2. UNCHANGED <<disk, world, history>>
  BY DEF Starts, Reached, At, Files
<1>3. CASE op[a].stale
  <2>1. Leaves(a, Ended(a)) /\ m' = m
    BY <1>3 DEF Starts
  <2>2. Durable'
    BY <1>2, <2>1, DurableKept
  <2> QED BY <1>2, <2>1, <2>2, EndedData
<1>4. CASE ~op[a].stale /\ m.failed
  <2>1. Goes(a, "failing") /\ m' = m
    BY <1>4 DEF Starts
  <2>2. op'[a].pc = "failing" /\ op'[b] = op[b]
    BY <1>1, <2>1, GoesSteady, InvFacts DEF Pc, HopPc
  <2>3. /\ ~Live(op'[a]) /\ ~Staged(op'[a]) /\ op'[a].pc \notin {"conflict", "reading", "resolving", "marking"}
        /\ Steady(op'[b], op[b])
    BY <1>1, <2>2, SteadySame DEF Live, Staged, Running
  <2>4. Durable'
    BY <1>2, <2>1, DurableKept
  <2> QED BY <1>1, <1>2, <2>1, <2>3, <2>4, DataIdle
<1>5. CASE ~op[a].stale /\ ~m.failed
  <2>1. Goes(a, "closing") /\ m' = [m EXCEPT !.fence = TRUE, !.dirty = FALSE, !.writer = FALSE]
    BY <1>5 DEF Starts
  <2>2. op'[a].pc = "closing" /\ op'[b] = op[b] /\ op'[a].stale = op[a].stale
    BY <1>1, <2>1, GoesSteady, InvFacts DEF Pc, HopPc
  <2>3. /\ ~Staged(op'[a]) /\ op'[a].pc \notin {"conflict", "reading", "resolving", "marking"}
        /\ Steady(op'[b], op[b]) /\ Live(op'[a])
    BY <1>1, <1>5, <2>2, SteadySame DEF Live, Staged, Running
  <2>4. ~Live(op[b])
    BY <1>1, <2>2, <2>3 DEF Control, Apart
  <2>5. m'.entries = m.entries /\ m'.file = m.file /\ m'.failed = m.failed /\ Cur(m') = Cur(m)
    BY <1>1, <2>1 DEF Manager, Cur
  <2>6. Durable'
    BY <1>2, <2>5, DurableKept
  <2> QED BY <1>1, <1>2, <1>5, <2>3, <2>4, <2>5, <2>6, DataIdle
<1> QED BY <1>3, <1>4, <1>5

-----------------------------------------------------------------------------
\* Passes that begin, and passes that begin again.

\* An actor that is not at a hop has read nothing that could still count.
LEMMA FarGood ==
  ASSUME NEW b \in Actor, op'[b] = op[b], op[b].pc \notin HopPc, BodyOk(b)', PlaceOk(b)'
  PROVE  Good(b)'
<1>1. op'[b].pc \notin {"published", "checked", "resolving"}
  BY DEF HopPc
<1> QED BY <1>1 DEF Good, LandedOk, ReadOk, MarkOk, HopPc

\* Data after a body has been staged, perhaps beside another file.
LEMMA StagesData ==
  ASSUME IInv, Control, Data, ~m.released, NEW a \in Actor, NEW b \in Actor, a # b,
         NEW z \in Manager, z.entries = m.entries, z.file = m.file, z.failed = m.failed,
         z.staged = m.staged, z.claimed = m.claimed, Cur(z) => Cur(m),
         Live(op[b]) => z.dirty = m.dirty, NEW tries \in Nat, Stages(a, Housed(z), tries),
         UNCHANGED <<disk, world, history>>, op[a].repair \/ Live(op[a]), op[b].pc # "marking"
  PROVE  Data'
<1> DEFINE x == Housed(z)
<1>0. op[b] \in Operation /\ Held(op[b], m) /\ Actor = {a, b} /\ m.file \in Nat
  <2>1. op[b] \in Operation /\ m.file \in Nat
    BY InvFacts, Basics
  <2>2. Held(op[b], m)
    BY DEF Control
  <2> QED BY <2>1, <2>2 DEF Actor
<1>1. /\ x \in Manager /\ x.entries = m.entries /\ x.failed = m.failed /\ x.staged = m.staged
      /\ x.dirty = z.dirty /\ (Cur(x) => Cur(m))
      /\ \/ x.file = m.file
         \/ x.file = m.file + 1 /\ ~Cur(x) /\ ~m.claimed
  BY HousedAlike DEF Alike, Stays, Moved
<1> HIDE DEF x
<1>2. /\ m' = x /\ x.file \in File
      /\ op'[a].pc = "staging" /\ op'[a].repair = op[a].repair /\ op'[a].stale = op[a].stale
      /\ op'[a].body = x.entries /\ op'[a].target = x.file
      /\ op'[b] = op[b]
  BY <1>1, StagesRecord DEF x
<1>3. Steady(op'[b], op[b])
  BY <1>0, <1>2, SteadySame
<1>4. CASE x.file = m.file
  <2>1. Good(a)'
    BY <1>2, StagedGood
  <2>2. Durable'
    BY <1>1, <1>2, <1>4, DurableKept
  <2>3. Live(op'[a]) /\ ~op'[a].repair => Live(op[a]) /\ ~op[a].repair
    BY <1>2
  <2>4. ~Contests(op'[a])
    BY <1>2 DEF Contests
  <2> QED BY <1>1, <1>2, <1>3, <1>4, <2>1, <2>2, <2>3, <2>4, DataQuiet
<1>5. CASE x.file = m.file + 1 /\ ~Cur(x) /\ ~m.claimed
  <2>1. ~Staged(op[b])
    BY <1>0, <1>5 DEF Held, Staged
  <2>2. op[b].target <= m.file
    BY Stuff
  <2>3. x.file > m.file
    BY <1>0, <1>5
  <2> QED BY <1>0, <1>2, <1>5, <2>1, <2>2, <2>3, DataMoves
<1> QED BY <1>1, <1>4, <1>5

\* Data after Serializes.
LEMMA SerializesData ==
  ASSUME IInv, Control, Data, ~m.released, NEW a \in Actor, Serializes(a) PROVE Data'
<1>1. PICK b \in Actor : /\ a # b /\ Actor = {a, b} /\ op[b] \in Operation /\ m \in Manager
                         /\ op[a] \in Operation /\ Held(op[b], m) /\ Apart(op[a], op[b])
  BY Beside
<1>2. UNCHANGED <<disk, world, history>> /\ op[a].pc = "closing"
  BY DEF Serializes, At, Here, Files
<1>3. CASE op[a].stale
  <2>1. m' = Housed(m) /\ m'.file \in File /\ Leaves(a, Ended(a))
    BY <1>3 DEF Serializes
  <2>2. /\ m'.entries = m.entries /\ m'.failed = m.failed /\ m'.staged = m.staged
        /\ m'.dirty = m.dirty /\ (Cur(m') => Cur(m))
        /\ \/ m'.file = m.file
           \/ m'.file = m.file + 1 /\ ~Cur(m') /\ ~m.claimed
    BY <1>1, <2>1, HousedAlike DEF Alike, Stays, Moved
  <2>3. CASE m'.file = m.file
    <3>1. Durable'
      BY <1>2, <2>2, <2>3, DurableKept
    <3> QED BY <1>2, <2>1, <2>2, <2>3, <3>1, EndedData
  <2>4. CASE m'.file = m.file + 1 /\ ~Cur(m') /\ ~m.claimed
    <3>1. op'[a] = Ended(a) /\ Steady(op'[b], op[b])
      BY <1>1, <2>1, LeavesSteady, EndedFields, InvFacts DEF Blank
    <3>2. Ended(a).pc \in {"idle", "flushing", "deciding"}
      BY EndedRecord
    <3>3. ~Staged(op'[a]) /\ op'[a].pc \notin {"resolving", "marking"}
      BY <3>1, <3>2 DEF Staged, Live, Running
    <3>4. ~Staged(op[b])
      BY <1>1, <2>4 DEF Held, Staged
    <3>5. ~Staged(op'[b]) /\ op'[b].target = op[b].target /\ op'[b].pc # "marking"
      BY <1>1, <1>2, <3>1, <3>4 DEF Staged, Live, Steady, Follows, SameData, Apart, HopPc
    <3>6. op[b].target <= m.file /\ m.file \in Nat
      BY Stuff, Basics
    <3>7. m'.file > m.file
      BY <2>4, <3>6
    <3> QED BY <1>1, <1>2, <2>1, <2>4, <3>3, <3>5, <3>6, <3>7, DataMoves
  <2> QED BY <2>2, <2>3, <2>4
<1>4. CASE ~op[a].stale
  <2>1. /\ Stages(a, Housed(m), op[a].tries) /\ op[a].tries \in Nat /\ Live(op[a])
        /\ op[b].pc # "marking"
    BY <1>1, <1>2, <1>4 DEF Serializes, Operation, Live, Running, Apart, HopPc
  <2> QED BY <1>1, <1>2, <2>1, StagesData
<1> QED BY <1>3, <1>4

\* Data after a pass that follows a recovery has begun: w is what the recovery adopted.
LEMMA RetriesData ==
  ASSUME IInv, Control, Data, ~m.released, NEW a \in Actor, NEW b \in Actor, a # b,
         NEW x, Alike(x, m), op[a].pc \in Running \cap HopPc, Retries(a, x), Unmarks(a),
         UNCHANGED <<disk, world>>, NEW w \in Seq(Line), x.entries = Joined(m.entries, w),
         \/ x.file = m.file
         \/ /\ x.file = m.file + 1 /\ ToSet(w) = {} /\ ~Cur(x) /\ x.claimed
            /\ Staged(op[b]) => Elsewhere(m.file),
         ToSet(w) \subseteq Alien \/ (m.failed /\ ~Live(op[b]))
  PROVE  Data'
<1>0. /\ op[b] \in Operation /\ Held(op[b], m) /\ Actor = {a, b} /\ m.file \in Nat
      /\ op[b].pc \notin HopPc /\ op[a] \in Operation /\ Apart(op[a], op[b])
      /\ x \in Manager /\ op[a].tries + 1 \in Nat
      /\ m.entries \in Seq(Line) /\ op[b].body \in Seq(Line) /\ Good(b) /\ Named
  <2>1. /\ op[b] \in Operation /\ op[a] \in Operation /\ m.file \in Nat
        /\ m.entries \in Seq(Line) /\ op[b].body \in Seq(Line)
    BY Stuff, InvFacts, Basics
  <2>2. Held(op[b], m) /\ Apart(op[a], op[b]) /\ Actor = {a, b}
    BY DEF Control, Actor
  <2>3. op[b].pc \notin HopPc
    BY <2>2 DEF Apart
  <2>4. op[a].tries + 1 \in Nat
    BY <2>1 DEF Operation
  <2> QED BY <2>1, <2>2, <2>3, <2>4 DEF Alike, Data
<1>1. /\ m'.entries = x.entries /\ m'.failed = m.failed /\ m'.staged = m.staged /\ m' \in Manager
      /\ (Cur(m') => Cur(x)) /\ m'.file \in File
      /\ \/ m'.file = x.file
         \/ m'.file = x.file + 1 /\ ~Cur(m') /\ ~x.claimed
      /\ (m'.dirty => m.dirty) /\ (op[a].repair => m'.dirty = m.dirty)
      /\ op'[b] = op[b] /\ op'[a].stale = op[a].stale /\ op'[a].repair = op[a].repair
      /\ \/ op'[a].pc = "closing"
         \/ op'[a].pc = "staging" /\ op'[a].body = m'.entries /\ op'[a].target = m'.file
  <2>1. CASE op[a].repair
    <3> DEFINE h == Housed(x)
               n == op[a].tries + 1
    <3>1. /\ h \in Manager /\ h.entries = x.entries /\ h.failed = m.failed /\ h.staged = m.staged
          /\ h.dirty = m.dirty /\ (Cur(h) => Cur(x))
          /\ \/ h.file = x.file
             \/ h.file = x.file + 1 /\ ~Cur(h) /\ ~x.claimed
      BY <1>0, HousedAlike DEF Alike, Stays, Moved
    <3>2. Stages(a, h, n) /\ n \in Nat
      BY <1>0, <2>1 DEF Retries
    <3> HIDE DEF h, n
    <3>3. /\ m' = h /\ h.file \in File
          /\ op'[a].pc = "staging" /\ op'[a].repair = op[a].repair /\ op'[a].stale = op[a].stale
          /\ op'[a].body = h.entries /\ op'[a].target = h.file
          /\ op'[b] = op[b]
      BY <3>1, <3>2, StagesRecord
    <3> QED BY <3>1, <3>3
  <2>2. CASE ~op[a].repair
    <3> DEFINE n == op[a].tries + 1
    <3>1. /\ x.file \in File /\ m' = [x EXCEPT !.dirty = FALSE, !.writer = FALSE]
          /\ Again(a, n) /\ n \in Nat
      BY <1>0, <2>2 DEF Retries
    <3> HIDE DEF n
    <3>2. /\ op'[a].pc = "closing" /\ ~op'[a].repair /\ op'[a].stale = op[a].stale
          /\ op'[b] = op[b] /\ op'[a] \in Operation
      BY <3>1, AgainRecord
    <3>3. m' \in Manager /\ m'.entries = x.entries /\ m'.failed = x.failed /\ m'.staged = x.staged
          /\ (Cur(m') => Cur(x)) /\ m'.file = x.file /\ ~m'.dirty
      BY <1>0, <3>1 DEF Manager, Cur
    <3>4. x.failed = m.failed /\ x.staged = m.staged
      BY DEF Alike
    <3>5. m'.failed = m.failed /\ m'.staged = m.staged /\ m'.file \in File
      BY <3>1, <3>3, <3>4
    <3>6. op'[a].repair = op[a].repair
      BY <1>0, <2>2, <3>2 DEF Operation
    <3> QED BY <2>2, <3>2, <3>3, <3>5, <3>6
  <2> QED BY <2>1, <2>2
<1>2. /\ history'.deferred = history.deferred
      /\ history'.unmarked = IF op[a].stale /\ m.dirty /\ ~op[a].repair
                             THEN history.unmarked \cup history.deferred ELSE history.unmarked
  BY InvFacts DEF Unmarks, WorldOk
<1>3. /\ history.unmarked \subseteq history'.unmarked
      /\ Aside(b) \subseteq Aside(b)' /\ history'.unmarked \subseteq Aside(b)'
  BY <1>1, <1>2 DEF Aside
<1>4. ToSet(m.entries) \subseteq ToSet(m'.entries)
  BY <1>0, <1>1, MembersFacts DEF Joined
<1>5. ASSUME Staged(op[b]) PROVE BodyOk(b)'
  <2>1. /\ Mine(op[b].body) \subseteq ToSet(m.entries)
        /\ Same(Aside(b), op[b].body, m.entries)
        /\ ~m.dirty => Same(history.unmarked, op[b].body, m.entries)
    BY <1>0, <1>5 DEF Good, BodyOk
  <2>2. Live(op[b]) /\ ToSet(w) \subseteq Alien
    BY <1>5 DEF Staged
  <2>3. ~m'.dirty => Same(history'.unmarked, op[b].body, m.entries)
    <3>1. CASE ~m.dirty
      BY <1>0, <1>3, <2>1, <3>1, SameGrows
    <3>2. CASE m.dirty /\ ~m'.dirty
      <4>1. op[a].stale /\ ~op[a].repair
        BY <1>0, <1>1, <2>2, <3>2 DEF Apart, Live
      <4>2. CASE b = "batch"
        <5>1. Aside(b) = history'.unmarked
          BY <1>2, <3>2, <4>1, <4>2 DEF Aside
        <5> QED BY <2>1, <5>1
      <4>3. CASE b # "batch"
        <5>1. a = "batch" /\ b = "rewrite"
          BY <4>3 DEF Actor
        <5>2. FALSE
          BY <2>2, <3>2, <4>1, <5>1 DEF Control, Batching, Preparing
        <5> QED BY <5>2
      <4> QED BY <4>2, <4>3
    <3> QED BY <3>1, <3>2
  <2>4. Same(Aside(b)', op[b].body, m.entries)
    BY <1>0, <1>3, <2>1, SameGrows
  <2>5. /\ Same(Aside(b)', op[b].body, m'.entries)
        /\ ~m'.dirty => Same(history'.unmarked, op[b].body, m'.entries)
    BY <1>0, <1>1, <2>2, <2>3, <2>4, SameJoins
  <2> QED BY <1>1, <1>4, <2>1, <2>5 DEF BodyOk
<1>6. BodyOk(b)'
  BY <1>1, <1>5 DEF BodyOk
<1>7. PlaceOk(b)'
  <2>1. SUFFICES ASSUME Staged(op[b]), op[b].target # m'.file
        PROVE  Elsewhere(op[b].target)
    BY <1>0, <1>1 DEF PlaceOk, Elsewhere, HopPc
  <2>2. CASE op[b].target # m.file
    BY <1>0, <2>1, <2>2 DEF Good, PlaceOk
  <2>3. CASE op[b].target = m.file
    <3>1. m.claimed
      BY <1>0, <2>1 DEF Held, Staged
    <3>2. x.claimed
      BY <3>1 DEF Alike
    <3>3. x.file # m.file
      BY <1>1, <2>1, <2>3, <3>2
    <3> QED BY <2>1, <2>3, <3>3
  <2> QED BY <2>2, <2>3
<1>8. Good(b)'
  BY <1>0, <1>1, <1>6, <1>7, FarGood
<1>9. Good(a)'
  <2>1. CASE op'[a].pc = "closing"
    BY <2>1, IdleGood DEF Staged
  <2>2. CASE op'[a].pc = "staging" /\ op'[a].body = m'.entries /\ op'[a].target = m'.file
    BY <2>2, StagedGood
  <2> QED BY <1>1, <2>1, <2>2
<1>10. m'.file = m.file \/ m'.file > m.file
  BY <1>0, <1>1
<1>11. LeftOver'
  <2>1. Clean => Clean'
    BY <1>1, <1>4, <1>10, GrownClean
  <2>2. /\ Live(op'[a]) /\ ~op'[a].repair => Live(op[a]) /\ ~op[a].repair
        /\ ~Contests(op'[a])
    BY <1>1 DEF Live, Contests
  <2> QED BY <1>0, <1>1, <2>1, <2>2, LeftOverKept DEF Data
<1>12. Durable'
  <2>1. SUFFICES ASSUME Cur(m'), ~m'.failed, m'.file \notin world'.tampered
        PROVE  /\ disk'[m'.file].id = m'.file
               /\ Same(history'.unmarked, disk'[m'.file].lines, m'.entries)
    BY DEF Durable
  <2>2. m'.file = m.file /\ Cur(m) /\ ToSet(w) \subseteq Alien
    BY <1>1, <2>1 DEF Alike
  <2>3. disk[m.file].id = m.file /\ Same(history.unmarked, disk[m.file].lines, m.entries)
    BY <1>1, <2>1, <2>2 DEF Data, Durable
  <2>4. disk[m.file].lines \in Seq(Line)
    BY Stuff
  <2>5. Same(history'.unmarked, disk[m.file].lines, m.entries)
    BY <1>0, <1>3, <2>3, <2>4, SameGrows
  <2>6. Same(history'.unmarked, disk[m.file].lines, m'.entries)
    BY <1>0, <1>1, <2>2, <2>4, <2>5, SameJoins
  <2> QED BY <2>2, <2>3, <2>6
<1>13. Named'
  BY <1>0 DEF Named
<1> QED BY <1>0, <1>8, <1>9, <1>11, <1>12, <1>13 DEF Data

-----------------------------------------------------------------------------
\* Data after the rest of a pass.

\* a's operation goes on with its body, and neither memory nor files are touched.
LEMMA CarriedBody ==
  ASSUME NEW a \in Actor, BodyOk(a), Staged(op'[a]) => Staged(op[a]), op'[a].body = op[a].body,
         m'.entries = m.entries, m'.staged = m.staged, m'.dirty = m.dirty,
         history'.unmarked = history.unmarked, history'.deferred = history.deferred
  PROVE  BodyOk(a)'
<1>1. Aside(a)' = Aside(a)
  BY DEF Aside
<1> QED BY <1>1 DEF BodyOk

\* What a publish without a write, and the steps of a recovery that reads, have in common.
LEMMA CarriedData ==
  ASSUME IInv, Control, Data, ~m.released, NEW a \in Actor, NEW b \in Actor, a # b,
         m' = m, op'[b] = op[b], UNCHANGED disk, world'.tampered = world.tampered, UNCHANGED history,
         SameData(op'[a], op[a]), op'[a].repair = op[a].repair, op'[a].stale = op[a].stale,
         op[a].pc \in Running \ {"closing"}, op'[a].pc \in {"conflict", "reading", "checking"},
         Contests(op'[a]) => Contests(op[a]) \/ (Live(op[a]) /\ ~op[a].repair)
  PROVE  Data'
<1>1. op[b] \in Operation /\ LeftOver /\ Good(a)
  BY InvFacts DEF Data
<1>2. Steady(op'[b], op[b])
  BY <1>1, SteadySame
<1>3. Live(op'[a]) => Live(op[a])
  BY DEF Live
<1>4. Contests(op'[a]) => Contests(op[a]) \/ Clean
  BY <1>1 DEF LeftOver
<1>5. Staged(op'[a]) => Staged(op[a])
  BY <1>3 DEF Staged
<1>6. BodyOk(a)'
  BY <1>1, <1>5, CarriedBody DEF Good, SameData
<1>7. PlaceOk(a)'
  BY <1>1, <1>5 DEF Good, PlaceOk, SameData, Elsewhere
<1>8. Good(a)'
  BY <1>6, <1>7 DEF Good, LandedOk, ReadOk, MarkOk
<1>9. Durable'
  BY DurableKept
<1> QED BY <1>2, <1>3, <1>4, <1>8, <1>9, DataQuiet

\* Only the session's file is replaced.
LEMMA FreshHere ==
  ASSUME IInv, Control, Named, NEW a \in Actor, PlaceOk(a), Staged(op[a]),
         Size(disk[op[a].target]) = op[a].expect
  PROVE  op[a].target = m.file
<1>1. op[a].target \in File /\ 0 \notin op[a].expect
  BY Stuff DEF Control
<1>2. SUFFICES ASSUME Elsewhere(op[a].target) PROVE FALSE
  BY DEF PlaceOk
<1>3. disk[op[a].target] # Missing /\ disk[op[a].target].id \notin File
  BY <1>1, <1>2 DEF Elsewhere, Named
<1>4. 0 \in Size(disk[op[a].target])
  BY <1>3 DEF Size
<1> QED BY <1>1, <1>4

\* Data after a body has been renamed over the file.
LEMMA WriteData ==
  ASSUME IInv, Control, Data, ~m.released, NEW a \in Actor, NEW b \in Actor, a # b,
         m' = m, op'[b] = op[b], UNCHANGED history, op[b].pc \notin HopPc,
         disk' = [disk EXCEPT ![op[a].target] = Journal(op[a].target, op[a].body)],
         SameData(op'[a], op[a]), op'[a].repair = op[a].repair, op'[a].stale = op[a].stale,
         op[a].pc = "staging", ~op[a].stale, op'[a].pc \in {"published", "checking"},
         Size(disk[op[a].target]) = op[a].expect
  PROVE  Data'
<1>1. Live(op[a]) /\ Staged(op[a])
  BY DEF Live, Staged, Running
<1>2. Good(a) /\ Named
  BY DEF Data
<1>3. op[a].target = m.file
  BY <1>1, <1>2, FreshHere DEF Good
<1>4. /\ op[b] \in Operation /\ Actor = {a, b} /\ m.file \in File
      /\ disk \in [File -> Content] /\ op[a] \in Operation
  BY Stuff, InvFacts DEF Actor
<1>5. /\ disk'[m.file].id = m.file /\ disk'[m.file].lines = op[a].body
      /\ \A f \in File \ {m.file} : disk'[f] = disk[f]
  BY <1>3, <1>4 DEF Journal
<1>6. op'[a].body = op[a].body /\ op'[a].target = m.file
  BY <1>3 DEF SameData
<1>7. /\ Mine(op[a].body) \subseteq ToSet(m.entries)
      /\ ~m.dirty => Same(history.unmarked, op[a].body, m.entries)
  BY <1>1, <1>2 DEF Good, BodyOk
<1>8. Good(a)'
  <2>1. BodyOk(a)'
    BY <1>1, <1>2, <1>6, CarriedBody DEF Good
  <2>2. PlaceOk(a)'
    BY <1>6 DEF PlaceOk
  <2>3. LandedOk(a)'
    BY <1>5, <1>6 DEF LandedOk, StillHas, Same
  <2>4. ReadOk(a)' /\ MarkOk(a)'
    BY DEF ReadOk, MarkOk
  <2> QED BY <2>1, <2>2, <2>3, <2>4 DEF Good
<1>9. Good(b)'
  <2>1. ~Live(op[b])
    BY <1>1 DEF Control, Apart
  <2>2. ~Staged(op'[b]) /\ op'[b].pc \notin {"resolving", "marking"}
    BY <2>1 DEF Staged, HopPc
  <2> QED BY <2>2, IdleGood
<1>10. LeftOver'
  BY <1>5, <1>7 DEF LeftOver, Clean
<1>11. Durable'
  <2>1. m.dirty => ~Cur(m) \/ m.failed
    <3>1. Held(op[a], m)
      BY DEF Control
    <3> QED BY <1>1, <3>1 DEF Held, Repairing, Live
  <2> QED BY <1>5, <1>7, <2>1 DEF Durable
<1>12. Named'
  BY <1>2, <1>4, <1>5 DEF Named
<1> QED BY <1>4, <1>8, <1>9, <1>10, <1>11, <1>12 DEF Data

\* Data after Publishes.
LEMMA PublishesData ==
  ASSUME IInv, Control, Data, ~m.released, NEW a \in Actor, Publishes(a) PROVE Data'
<1>1. PICK b \in Actor : a # b /\ Actor = {a, b} /\ op[b] \in Operation
  BY Beside
<1>2. /\ op[a].pc = "staging" /\ m' = m /\ UNCHANGED history /\ op[b].pc \notin HopPc
      /\ op[a].pc \in Running \ {"closing"}
  BY DEF Publishes, At, Here, Pending, Running
<1>3. \E pc \in {"published", "conflict", "checking"} : Goes(a, pc)
  BY DEF Publishes
<1>4. /\ op'[b] = op[b] /\ SameData(op'[a], op[a]) /\ op'[a].repair = op[a].repair
      /\ op'[a].stale = op[a].stale
  BY <1>1, <1>3, GoesSteady, InvFacts DEF Pc, HopPc, IOPc
<1>5. ASSUME NEW pc \in {"published", "conflict", "checking"}, Goes(a, pc)
      PROVE  op'[a].pc = pc
  BY <1>5, GoesSteady, InvFacts DEF Pc, HopPc, IOPc
<1>6. CASE ~CommitGuard(a) /\ Goes(a, "published") /\ UNCHANGED Files
  <2>1. op'[a].pc = "published" /\ op'[a].stale /\ UNCHANGED <<disk, world, history>>
    BY <1>2, <1>4, <1>5, <1>6 DEF CommitGuard, Files
  <2>2. ~Live(op'[a]) /\ ~Staged(op'[a]) /\ op'[a].pc \notin {"conflict", "reading", "resolving", "marking"}
    BY <2>1 DEF Live, Staged
  <2>3. Durable'
    BY <1>2, <2>1, DurableKept
  <2>4. Steady(op'[b], op[b])
    BY <1>1, <1>4, SteadySame
  <2> QED BY <1>1, <1>2, <2>1, <2>2, <2>3, <2>4, DataIdle
<1>7. CASE CommitGuard(a) /\ Goes(a, "conflict") /\ UNCHANGED Files
  <2>1. op'[a].pc = "conflict" /\ UNCHANGED <<disk, world>> /\ Live(op[a])
    BY <1>2, <1>5, <1>7 DEF CommitGuard, Files, Live
  <2>2. Contests(op'[a]) => Live(op[a]) /\ ~op[a].repair
    BY <1>4, <2>1 DEF Contests
  <2> QED BY <1>1, <1>2, <1>4, <2>1, <2>2, CarriedData
<1>8. CASE Fault /\ Goes(a, "checking") /\ UNCHANGED disk
  <2>1. op'[a].pc = "checking" /\ world'.tampered = world.tampered
    BY <1>5, <1>8, InvFacts DEF Fault, Trouble, WorldOk
  <2>2. ~Contests(op'[a])
    BY <2>1 DEF Contests
  <2> QED BY <1>1, <1>2, <1>4, <1>8, <2>1, <2>2, CarriedData
<1>9. CASE /\ CommitGuard(a) /\ Size(disk[op[a].target]) = op[a].expect
           /\ Goes(a, "published") \/ Goes(a, "checking")
           /\ disk' = [disk EXCEPT ![op[a].target] = Journal(op[a].target, op[a].body)]
  <2>1. op'[a].pc \in {"published", "checking"} /\ ~op[a].stale
    BY <1>5, <1>9 DEF CommitGuard
  <2> QED BY <1>1, <1>2, <1>4, <1>9, <2>1, WriteData
<1> QED BY <1>6, <1>7, <1>8, <1>9 DEF Publishes, Published

-----------------------------------------------------------------------------
\* Data after a publish, and what was read back.

\* What a publish leaves in the file.
LEMMA LandedFile ==
  ASSUME IInv, Data, ~m.released, NEW a \in Actor, Live(op[a]), op[a].pc = "published"
  PROVE  /\ Clean
         /\ m.file \notin world.tampered /\ ~m.dirty
              => disk[m.file].id = m.file /\ Same(history.unmarked, disk[m.file].lines, m.entries)
<1>1. Good(a) /\ Staged(op[a])
  BY DEF Data, Staged
<1>2. op[a].target = m.file
  BY <1>1 DEF Good, PlaceOk
<1>3. StillHas(m.file, op[a].body)
  BY <1>1, <1>2 DEF Good, LandedOk
<1>4. /\ Mine(op[a].body) \subseteq ToSet(m.entries)
      /\ ~m.dirty => Same(history.unmarked, op[a].body, m.entries)
  BY <1>1 DEF Good, BodyOk
<1>5. disk[m.file].lines \in Seq(Line) /\ op[a].body \in Seq(Line)
  BY Stuff
<1>6. Clean
  BY <1>3, <1>4, <1>5, SameMine DEF Clean, StillHas
<1>7. ASSUME m.file \notin world.tampered, ~m.dirty
      PROVE  disk[m.file].id = m.file /\ Same(history.unmarked, disk[m.file].lines, m.entries)
  <2>1. disk[m.file].id = m.file /\ Same({}, disk[m.file].lines, op[a].body)
    BY <1>3, <1>7 DEF StillHas
  <2>2. Same(history.unmarked, disk[m.file].lines, op[a].body)
    BY <1>5, <2>1, SameGrows
  <2> QED BY <1>4, <1>7, <2>1, <2>2, SameChain
<1> QED BY <1>6, <1>7

\* Data after Settles.
LEMMA SettlesData ==
  ASSUME IInv, Control, Data, ~m.released, NEW a \in Actor, Settles(a) PROVE Data'
<1>1. PICK b \in Actor : /\ a # b /\ Actor = {a, b} /\ op[b] \in Operation /\ m \in Manager
                         /\ op[a] \in Operation /\ Apart(op[a], op[b])
  BY Beside
<1>2. UNCHANGED <<disk, world, history>> /\ op[a].pc = "published" /\ ~op[a].repair
  BY DEF Settles, At, Here, Files
<1>3. CASE op[a].stale
  <2>1. Goes(a, "verifying") /\ m' = m
    BY <1>3 DEF Settles
  <2>2. op'[a].pc = "verifying" /\ op'[b] = op[b]
    BY <1>1, <2>1, GoesSteady, InvFacts DEF Pc, IOPc
  <2>3. /\ ~Live(op'[a]) /\ ~Staged(op'[a]) /\ op'[a].pc \notin {"conflict", "reading", "resolving", "marking"}
        /\ Steady(op'[b], op[b])
    BY <1>1, <2>2, SteadySame DEF Live, Staged, Running
  <2>4. Durable'
    BY <1>2, <2>1, DurableKept
  <2> QED BY <1>1, <1>2, <2>1, <2>3, <2>4, DataIdle
<1>4. CASE ~op[a].stale
  <2>0. Live(op[a]) /\ ~Live(op[b])
    BY <1>1, <1>2, <1>4 DEF Live, Running, Apart
  <2> DEFINE x == [m EXCEPT !.expected = SizeOf(op[a].body)]
  <2>1. SizeOf(op[a].body) \in Sizes
    BY BodySize
  <2>2. /\ x \in Manager /\ x.entries = m.entries /\ x.file = m.file /\ x.staged = m.staged
        /\ x.dirty = m.dirty /\ x.failed = m.failed /\ Cur(x) = Cur(m)
    BY <1>1, <2>1 DEF Manager, Cur
  <2>3. CASE m.dirty
    <3>1. /\ Again(a, op[a].tries) /\ op[a].tries \in Nat
          /\ m' = [x EXCEPT !.dirty = FALSE, !.writer = FALSE]
      BY <1>1, <1>4, <2>3 DEF Settles, Operation
    <3> HIDE DEF x
    <3>2. op'[a].pc = "closing" /\ op'[b] = op[b]
      BY <1>1, <3>1, AgainRecord
    <3>3. /\ m'.entries = m.entries /\ m'.file = m.file /\ m'.failed = m.failed
          /\ (Cur(m') => Cur(m))
      BY <2>2, <3>1 DEF Manager, Cur
    <3>4. /\ ~Staged(op'[a]) /\ op'[a].pc \notin {"conflict", "reading", "resolving", "marking"}
          /\ Steady(op'[b], op[b])
      BY <1>1, <3>2, SteadySame DEF Staged
    <3>5. Durable'
      BY <1>2, <3>3, DurableKept
    <3> QED BY <1>1, <1>2, <2>0, <3>3, <3>4, <3>5, DataIdle
  <2>4. CASE ~m.dirty
    <3>1. m' = [x EXCEPT !.fence = FALSE] /\ Goes(a, "marking")
      BY <1>4, <2>4 DEF Settles
    <3> HIDE DEF x
    <3>2. /\ m'.entries = m.entries /\ m'.file = m.file /\ m'.failed = m.failed
          /\ m'.staged = m.staged /\ m'.dirty = m.dirty /\ (Cur(m') => Cur(m))
      BY <2>2, <3>1 DEF Manager, Cur
    <3>3. Durable'
      BY <1>2, <3>2, DurableKept
    <3>4. op'[a].pc = "marking" /\ op'[b] = op[b] /\ op'[a].body = op[a].body
      BY <1>1, <3>1, GoesSteady, InvFacts DEF Pc, HopPc, SameData
    <3>5. /\ ~Live(op'[a]) /\ ~Staged(op'[a]) /\ ~Contests(op'[a]) /\ Steady(op'[b], op[b])
      BY <1>1, <3>4, SteadySame DEF Live, Staged, Running, Contests
    <3>6. MarkOk(a)'
      <4> DEFINE S == history.unmarked \cup (history.deferred \ ToSet(op[a].body))
      <4>1. SUFFICES ASSUME m.file \notin world.tampered
            PROVE  disk[m.file].id = m.file /\ Same(S, disk[m.file].lines, m.entries)
        BY <1>2, <3>2, <3>4 DEF MarkOk
      <4>2. disk[m.file].id = m.file /\ Same(history.unmarked, disk[m.file].lines, m.entries)
        BY <1>2, <2>0, <2>4, <4>1, LandedFile
      <4>3. /\ disk[m.file].lines \in Seq(Line) /\ m.entries \in Seq(Line)
            /\ history.unmarked \subseteq S
        BY Stuff
      <4> HIDE DEF S
      <4> QED BY <4>2, <4>3, SameGrows
    <3>7. Good(a)'
      BY <3>4, <3>5, <3>6, IdleGood
    <3> QED BY <1>1, <1>2, <3>2, <3>3, <3>5, <3>7, DataQuiet
  <2> QED BY <2>3, <2>4
<1> QED BY <1>3, <1>4

\* Data after Marks.
LEMMA MarksData ==
  ASSUME IInv, Control, Data, ~m.released, NEW a \in Actor, Marks(a) PROVE Data'
<1>1. PICK b \in Actor : /\ a # b /\ Actor = {a, b} /\ op[b] \in Operation /\ m \in Manager
                         /\ Apart(op[a], op[b])
  BY Beside
<1>2. /\ UNCHANGED <<disk, world>> /\ op[a].pc = "marking" /\ Leaves(a, Ended(a))
      /\ m' = [m EXCEPT !.current = TRUE, !.required = FALSE]
  BY DEF Marks, Here, Files
<1>3. m'.entries = m.entries /\ m'.file = m.file /\ m'.failed = m.failed
  BY <1>1, <1>2 DEF Manager
<1>4. op'[a] = Ended(a) /\ Steady(op'[b], op[b])
  BY <1>1, <1>2, LeavesSteady, EndedFields, InvFacts DEF Blank
<1>5. Ended(a).pc \in {"idle", "flushing", "deciding"}
  BY EndedRecord
<1>6. /\ ~Live(op'[a]) /\ ~Staged(op'[a]) /\ ~Contests(op'[a])
      /\ op'[a].pc \notin {"resolving", "marking"}
  BY <1>4, <1>5 DEF Live, Staged, Running, Contests
<1>7. ~Live(op[b]) /\ op[b].pc \notin HopPc
  BY <1>1, <1>2 DEF Apart, HopPc
<1>8. op'[b].pc = op[b].pc /\ op'[b].stale = op[b].stale
      /\ op'[b].repair = op[b].repair /\ op'[b].superseded = op[b].superseded
  BY <1>4 DEF Steady, Follows
<1>9. ~Staged(op'[b]) /\ op'[b].pc \notin {"resolving", "marking"}
  BY <1>7, <1>8 DEF Live, Staged, HopPc
<1>10. Good(a)' /\ Good(b)'
  BY <1>6, <1>9, IdleGood
<1>11. LeftOver'
  BY <1>1, <1>2, <1>3, <1>6, <1>8 DEF Data, LeftOver, Clean, Live, Contests
<1>12. history'.unmarked = history.unmarked \cup (history.deferred \ ToSet(op[a].body))
  BY InvFacts DEF Marks, WorldOk
<1>13. Durable'
  BY <1>2, <1>3, <1>12 DEF Data, Good, MarkOk, Durable
<1>14. Named'
  BY <1>2 DEF Data, Named
<1> QED BY <1>1, <1>10, <1>11, <1>13, <1>14 DEF Data

\* Data after ReadsBack.
LEMMA ReadsBackData ==
  ASSUME IInv, Control, Data, ~m.released, NEW a \in Actor, ReadsBack(a) PROVE Data'
<1>1. PICK b \in Actor : /\ a # b /\ Actor = {a, b} /\ op[b] \in Operation
                         /\ op[a] \in Operation /\ RepairOk(op[a], a) /\ RepairOk(op[b], b)
  BY Beside
<1> DEFINE pc == AfterRead[op[a].pc]
           s == disk[op[a].target]
           rec == [op[a] EXCEPT !.seen = s, !.pc = pc]
<1>2. /\ op[a].pc \in {"reading", "checking", "verifying"}
      /\ op' = [op EXCEPT ![a] = rec] /\ op \in [Actor -> Operation]
      /\ m' = m /\ UNCHANGED <<disk, world, history>> /\ op[b].pc \notin HopPc
  BY <1>1, InvFacts DEF ReadsBack, AfterRead, Pending
<1>3. /\ op[a].pc = "reading" => pc = "resolving"
      /\ op[a].pc = "checking" => pc = "checked"
      /\ op[a].pc = "verifying" => pc = "verified"
  BY DEF AfterRead
<1> HIDE DEF pc, s
<1>4. op'[a] = rec /\ op'[b] = op[b]
  BY <1>1, <1>2
<1>5. /\ op'[a].pc = pc /\ op'[a].seen = s /\ op'[a].repair = op[a].repair
      /\ op'[a].stale = op[a].stale /\ op'[a].superseded = op[a].superseded
      /\ op'[a].body = op[a].body /\ op'[a].target = op[a].target
  BY <1>1, <1>4 DEF Operation
<1> HIDE DEF rec
<1>6. /\ Live(op'[a]) => Live(op[a])
      /\ Staged(op'[a]) => Staged(op[a])
      /\ Contests(op'[a]) => Contests(op[a])
  BY <1>2, <1>3, <1>5 DEF Live, Staged, Contests, Running
<1>7. Good(a) /\ LeftOver /\ op[a].target \in File
  BY Stuff DEF Data
<1>8. BodyOk(a)'
  BY <1>2, <1>5, <1>6, <1>7, CarriedBody DEF Good
<1>9. PlaceOk(a)'
  <2>1. SUFFICES ASSUME Staged(op'[a]), op[a].target # m.file
        PROVE  Elsewhere(op[a].target)' /\ pc # "published" /\ (pc = "checked" => s.id # op[a].target)
    BY <1>2, <1>5 DEF PlaceOk
  <2>2. Elsewhere(op[a].target)
    BY <1>6, <1>7, <2>1 DEF Good, PlaceOk
  <2> QED BY <1>2, <1>3, <1>5, <2>2 DEF Elsewhere, s
<1>10. LandedOk(a)'
  <2>1. pc # "published"
    BY <1>2, <1>3
  <2>2. s.id = op[a].target => StillHas(op[a].target, s.lines)
    BY DEF StillHas, Same, s
  <2> QED BY <1>2, <1>5, <2>1, <2>2 DEF LandedOk, StillHas
<1>11. ReadOk(a)'
  <2>1. SUFFICES ASSUME pc = "resolving", ~op[a].superseded, op[a].target = m.file
        PROVE  /\ s # Missing /\ s.id # op[a].target => Elsewhere(op[a].target)
               /\ s.id = op[a].target /\ Trusted(a)' => Mine(s.lines) \subseteq ToSet(m.entries)
    BY <1>2, <1>5 DEF ReadOk, Elsewhere
  <2>2. s # Missing /\ s.id # op[a].target => Elsewhere(op[a].target)
    BY DEF Elsewhere, s
  <2>3. ASSUME s.id = op[a].target, Trusted(a)' PROVE Mine(s.lines) \subseteq ToSet(m.entries)
    <3>1. Clean => Mine(s.lines) \subseteq ToSet(m.entries)
      BY <2>1, <2>3 DEF Clean, s
    <3>2. ASSUME ~Clean PROVE FALSE
      <4>1. /\ m.failed /\ ~Contests(op[a])
            /\ \A c \in Actor : Live(op[c]) => op[c].repair
        BY <1>7, <3>2 DEF LeftOver
      <4>2. op[a].pc = "reading"
        BY <1>2, <1>3, <2>1
      <4>3. op[a].repair
        BY <2>1, <4>1, <4>2 DEF Contests
      <4>4. PICK c \in Actor : Live(op'[c]) /\ ~op'[c].repair
        BY <1>2, <1>5, <2>3, <4>1, <4>3 DEF Trusted
      <4>5. c = b
        BY <1>1, <1>5, <4>3, <4>4
      <4> QED BY <1>4, <4>1, <4>4, <4>5
    <3> QED BY <3>1, <3>2
  <2> QED BY <2>2, <2>3
<1>12. Good(a)'
  BY <1>2, <1>3, <1>5, <1>8, <1>9, <1>10, <1>11 DEF Good, MarkOk
<1>13. Durable'
  BY <1>2, DurableKept
<1>14. Steady(op'[b], op[b])
  BY <1>1, <1>4, SteadySame
<1> QED BY <1>1, <1>2, <1>5, <1>6, <1>12, <1>13, <1>14, DataQuiet

\* Data after Verified.
LEMMA VerifiedData ==
  ASSUME IInv, Control, Data, ~m.released, NEW a \in Actor, Verified(a) PROVE Data'
<1>1. m' = Matched(a) /\ Leaves(a, Ended(a)) /\ UNCHANGED <<disk, world, history>>
  BY DEF Verified, At, Files
<1>2. /\ m'.entries = m.entries /\ m'.file = m.file /\ m'.staged = m.staged
      /\ m'.dirty = m.dirty /\ m'.failed = m.failed /\ (Cur(m') => Cur(m))
  BY <1>1, MatchedAlike DEF Alike, Stays
<1>3. Durable'
  BY <1>1, <1>2, DurableKept
<1> QED BY <1>1, <1>2, <1>3, EndedData

\* Data after a repair that cannot tell has ended.
LEMMA IndeterminateData ==
  ASSUME IInv, Control, Data, ~m.released, NEW x \in Manager, x.entries = m.entries, x.file = m.file,
         x.staged = m.staged, x.dirty = m.dirty, Indeterminate("batch", x),
         op["batch"].repair, op["batch"].pc \in Running, UNCHANGED <<disk, world, history>>
  PROVE  Data'
<1> DEFINE y == IF x.batch THEN Diverged(x) ELSE x
           u == Unfenced("batch", y)
<1>1. PICK b \in Actor : /\ "batch" # b /\ Actor = {"batch", b} /\ "batch" \in Actor /\ b = "rewrite"
                         /\ op[b] \in Operation /\ Apart(op["batch"], op[b]) /\ Batching
  BY InvFacts, Beside
<1>2. /\ m' = [u EXCEPT !.failed = TRUE, !.batch = FALSE, !.staged = {}] /\ Leaves("batch", Rejected)
  BY DEF Indeterminate
<1>3. /\ y \in Manager /\ y.entries = m.entries /\ y.file = m.file /\ y.dirty = m.dirty
  BY MarksAlike
<1> HIDE DEF y
<1>4. /\ u \in Manager /\ u.entries = m.entries /\ u.file = m.file /\ u.dirty = m.dirty
  BY <1>1, <1>3, UnfencedMarks
<1> HIDE DEF u
<1>5. /\ m'.entries = m.entries /\ m'.file = m.file /\ m'.dirty = m.dirty /\ m'.failed
      /\ m'.staged = {}
  BY <1>2, <1>4 DEF Manager
<1>6. Live(op[b]) => m.staged = {}
  <2>1. SUFFICES ASSUME Live(op[b]) PROVE m.staged = {}
    OBVIOUS
  <2>2. op["batch"].stale
    BY <1>1, <2>1 DEF Apart, Repairing
  <2> QED BY <1>1, <2>2 DEF Batching, Preparing
<1>7. op'["batch"] = Rejected /\ Steady(op'[b], op[b])
  BY <1>1, <1>2, BlankFields, LeavesSteady, InvFacts DEF Blank
<1>8. /\ ~Live(op'["batch"]) /\ ~Staged(op'["batch"])
      /\ op'["batch"].pc \notin {"conflict", "reading", "resolving", "marking"}
  BY <1>7, BlankFields DEF Live, Staged, Running
<1>9. Durable'
  BY <1>5 DEF Durable
<1> QED BY <1>1, <1>5, <1>6, <1>7, <1>8, <1>9, DataIdle

\* Data after Checked.
LEMMA CheckedData ==
  ASSUME IInv, Control, Data, ~m.released, NEW a \in Actor, Checked(a) PROVE Data'
<1>1. PICK b \in Actor : /\ a # b /\ Actor = {a, b} /\ op[b] \in Operation /\ m \in Manager
                         /\ op[a] \in Operation /\ RepairOk(op[a], a)
  BY Beside
<1>2. UNCHANGED <<disk, world, history>> /\ op[a].pc = "checked"
  BY DEF Checked, At, Here, Files
<1> DEFINE y == Matched(a)
           u == Unfenced(a, y)
<1>3. /\ y \in Manager /\ y.entries = m.entries /\ y.file = m.file /\ y.staged = m.staged
      /\ y.dirty = m.dirty /\ y.failed = m.failed /\ (Cur(y) => Cur(m))
  BY MatchedAlike DEF Alike, Stays
<1>4. CASE ~op[a].repair
  <2>1. m' = u /\ Goes(a, "failing")
    BY <1>4 DEF Checked
  <2> HIDE DEF y
  <2>2. /\ u.entries = m.entries /\ u.file = m.file /\ u.staged = m.staged
        /\ u.dirty = m.dirty /\ u.failed = m.failed /\ (Cur(u) => Cur(m))
    BY <1>3, UnfencedMarks
  <2>3. op'[a].pc = "failing" /\ op'[b] = op[b]
    BY <1>1, <2>1, GoesSteady, InvFacts DEF Pc, HopPc
  <2>4. /\ ~Live(op'[a]) /\ ~Staged(op'[a]) /\ op'[a].pc \notin {"conflict", "reading", "resolving", "marking"}
        /\ Steady(op'[b], op[b])
    BY <1>1, <2>3, SteadySame DEF Live, Staged, Running
  <2> HIDE DEF u
  <2>5. Durable'
    BY <1>2, <2>1, <2>2, DurableKept
  <2> QED BY <1>1, <1>2, <2>1, <2>2, <2>4, <2>5, DataIdle
<1>5. CASE op[a].repair /\ Landing(a)
  <2>1. m' = y /\ Goes(a, "published")
    BY <1>5 DEF Checked
  <2> HIDE DEF y
  <2>2. /\ op'[a].pc = "published" /\ op'[b] = op[b] /\ SameData(op'[a], op[a])
        /\ op'[a].repair = op[a].repair /\ op'[a].stale = op[a].stale
    BY <1>1, <2>1, GoesSteady, InvFacts DEF Pc, HopPc
  <2>3. op[a].seen.id = op[a].target /\ op[a].seen.lines = op[a].body
    BY <1>5 DEF Landing, Journal
  <2>4. op'[a].body = op[a].body /\ op'[a].target = op[a].target
    BY <2>2 DEF SameData
  <2>5. Good(a) /\ (Live(op'[a]) => Live(op[a])) /\ (Staged(op'[a]) => Staged(op[a]))
    BY <1>2, <2>2 DEF Data, Live, Staged, Running
  <2>6. BodyOk(a)'
    BY <1>2, <1>3, <2>1, <2>4, <2>5, CarriedBody DEF Good
  <2>7. PlaceOk(a)'
    <3>1. Staged(op[a]) => op[a].target = m.file
      BY <1>2, <2>3, <2>5 DEF Good, PlaceOk
    <3> QED BY <1>3, <2>1, <2>4, <2>5, <3>1 DEF PlaceOk
  <2>8. LandedOk(a)'
    <3>1. Live(op[a]) => StillHas(op[a].target, op[a].body)
      BY <1>2, <2>3, <2>5 DEF Good, LandedOk
    <3> QED BY <1>2, <2>2, <2>4, <2>5, <3>1 DEF LandedOk, StillHas
  <2>9. ReadOk(a)'
    BY <2>2 DEF ReadOk
  <2>10. Good(a)'
    BY <2>2, <2>6, <2>7, <2>8, <2>9 DEF Good, MarkOk
  <2>11. ~Contests(op'[a]) /\ Steady(op'[b], op[b]) /\ op'[a].repair
    BY <1>1, <1>5, <2>2, SteadySame DEF Contests
  <2>12. Durable'
    BY <1>2, <1>3, <2>1, DurableKept
  <2> QED BY <1>1, <1>2, <1>3, <2>1, <2>10, <2>11, <2>12, DataQuiet
<1>6. CASE op[a].repair /\ ~Landing(a)
  <2>1. a = "batch" /\ Indeterminate("batch", m)
    BY <1>1, <1>6 DEF Checked, RepairOk
  <2> QED BY <1>1, <1>2, <1>6, <2>1, IndeterminateData DEF Running
<1> QED BY <1>4, <1>5, <1>6

\* Data after Conflicts.
LEMMA ConflictsData ==
  ASSUME IInv, Control, Data, ~m.released, NEW a \in Actor, Conflicts(a) PROVE Data'
<1>1. PICK b \in Actor : /\ a # b /\ Actor = {a, b} /\ op[b] \in Operation /\ m \in Manager
                         /\ op[a] \in Operation /\ Apart(op[a], op[b])
  BY Beside
<1>2. UNCHANGED <<disk, world>> /\ op[a].pc = "conflict" /\ op[a].pc \in Running \cap HopPc
  BY DEF Conflicts, Here, Files, Running, HopPc
<1>3. \/ Goes(a, "checking") /\ m' = m /\ history' = history
      \/ Retries(a, MovedOff(m)) /\ Unmarks(a)
      \/ /\ op' = [op EXCEPT ![a] = [@ EXCEPT !.pc = "reading", !.superseded = FALSE]]
         /\ m' = m /\ history' = history
  BY DEF Conflicts
<1>4. CASE Goes(a, "checking") /\ m' = m /\ history' = history
  <2>1. /\ op'[a].pc = "checking" /\ op'[b] = op[b] /\ SameData(op'[a], op[a])
        /\ op'[a].repair = op[a].repair /\ op'[a].stale = op[a].stale
    BY <1>1, <1>4, GoesSteady, InvFacts DEF Pc, IOPc
  <2>2. ~Contests(op'[a])
    BY <2>1 DEF Contests
  <2> QED BY <1>1, <1>2, <1>4, <2>1, <2>2, CarriedData
<1>5. CASE Retries(a, MovedOff(m)) /\ Unmarks(a)
  <2> DEFINE x == MovedOff(m)
  <2>1. Alike(x, m) /\ Moved(x, m) /\ x.entries = m.entries
    BY <1>1, MovedAlike
  <2>2. Retries(a, x) /\ Unmarks(a)
    BY <1>5
  <2> HIDE DEF x
  <2>3. <<>> \in Seq(Line) /\ ToSet(<<>>) = {} /\ x.entries = Joined(m.entries, <<>>)
    BY <1>1, <2>1, MembersFacts DEF Manager, Joined
  <2>4. ~Live(op[b]) /\ ~Staged(op[b])
    BY <1>1, <1>2 DEF Apart, Staged
  <2> QED BY <1>1, <1>2, <2>1, <2>2, <2>3, <2>4, RetriesData DEF Moved
<1>6. CASE /\ op' = [op EXCEPT ![a] = [@ EXCEPT !.pc = "reading", !.superseded = FALSE]]
           /\ m' = m /\ history' = history
  <2> DEFINE rec == [op[a] EXCEPT !.pc = "reading", !.superseded = FALSE]
  <2>1. /\ rec.pc = "reading" /\ rec.repair = op[a].repair /\ rec.stale = op[a].stale
        /\ rec.body = op[a].body /\ rec.expect = op[a].expect /\ rec.target = op[a].target
        /\ rec.seen = op[a].seen
    BY <1>1 DEF Operation
  <2>2. rec \in Operation
    BY <1>1 DEF Operation, Pc, IOPc
  <2>3. op' = [op EXCEPT ![a] = rec] /\ op \in [Actor -> Operation]
    BY <1>6, InvFacts
  <2> HIDE DEF rec
  <2>4. op'[a] = rec /\ op'[b] = op[b]
    BY <1>1, <2>3
  <2>5. SameData(op'[a], op[a])
    BY <2>1, <2>2, <2>4 DEF SameData
  <2>6. Contests(op'[a]) => Contests(op[a])
    BY <1>2, <2>1, <2>4 DEF Contests
  <2> QED BY <1>1, <1>2, <1>6, <2>1, <2>4, <2>5, <2>6, CarriedData
<1> QED BY <1>3, <1>4, <1>5, <1>6

\* Data after Resolves.
LEMMA ResolvesData ==
  ASSUME IInv, Control, Data, ~m.released, NEW a \in Actor, Resolves(a) PROVE Data'
<1>1. PICK b \in Actor : /\ a # b /\ Actor = {a, b} /\ op[b] \in Operation /\ m \in Manager
                         /\ op[a] \in Operation /\ RepairOk(op[a], a) /\ RepairOk(op[b], b)
  BY Beside
<1>2. /\ UNCHANGED <<disk, world>> /\ op[a].pc = "resolving" /\ op[a].pc \in Running \cap HopPc
      /\ Unmarks(a)
  BY DEF Resolves, Here, Files, Running, HopPc
<1>3. /\ <<>> \in Seq(Line) /\ ToSet(<<>>) = {} /\ m.entries = Joined(m.entries, <<>>)
      /\ Alike(m, m) /\ m.entries \in Seq(Line) /\ op[a].seen \in Content
      /\ op[a].seen.lines \in Seq(Line)
  BY <1>1, MembersFacts, Stuff DEF Manager, Joined, Alike
<1>4. CASE op[a].superseded \/ op[a].target # m.file
  <2>1. Retries(a, m)
    BY <1>4 DEF Resolves
  <2> QED BY <1>1, <1>2, <1>3, <2>1, RetriesData
<1>5. CASE ~op[a].superseded /\ op[a].target = m.file
  <2> DEFINE c == op[a].seen
             x == Recovered(m, c)
             w == Without(c.lines, ToSet(m.entries))
  <2>1. Retries(a, x)
    BY <1>5 DEF Resolves
  <2>2. /\ c # Missing /\ c.id # m.file => Elsewhere(m.file)
        /\ c.id = m.file /\ Trusted(a) => Mine(c.lines) \subseteq ToSet(m.entries)
    BY <1>2, <1>5 DEF Data, Good, ReadOk
  <2>3. c \in Content /\ c.lines \in Seq(Line)
    BY <1>3
  <2>4. w \in Seq(Line) /\ ToSet(w) = ToSet(c.lines) \ ToSet(m.entries)
    BY <2>3, WithoutFacts
  <2>5. /\ Alike(x, m)
        /\ \/ c = Missing /\ Stays(x, m) /\ x.entries = m.entries
           \/ c # Missing /\ c.id # m.file /\ Moved(x, m) /\ x.entries = m.entries
           \/ c # Missing /\ c.id = m.file /\ Stays(x, m) /\ x.entries = Joined(m.entries, w)
    BY <1>1, <2>3, RecoveredAlike
  <2> HIDE DEF x, w, c
  <2>6. CASE Stays(x, m) /\ x.entries = m.entries
    BY <1>1, <1>2, <1>3, <2>1, <2>5, <2>6, RetriesData DEF Stays
  <2>7. CASE c # Missing /\ c.id # m.file /\ Moved(x, m) /\ x.entries = m.entries
    <3>1. Elsewhere(m.file)
      BY <2>2, <2>7
    <3> QED BY <1>1, <1>2, <1>3, <2>1, <2>5, <2>7, <3>1, RetriesData DEF Moved
  <2>8. CASE c.id = m.file /\ Stays(x, m) /\ x.entries = Joined(m.entries, w)
    <3>1. ToSet(w) \subseteq Alien \/ (m.failed /\ ~Live(op[b]))
      <4>1. CASE Trusted(a)
        <5>1. Mine(c.lines) \subseteq ToSet(m.entries)
          BY <2>2, <2>8, <4>1
        <5>2. ToSet(c.lines) \subseteq Line
          BY <2>3, MembersFacts
        <5> QED BY <2>4, <5>1, <5>2 DEF Mine, Line
      <4>2. CASE ~Trusted(a)
        <5>1. m.failed /\ op[a].repair /\ (Live(op[b]) => op[b].repair)
          BY <4>2 DEF Trusted
        <5>2. ~op[b].repair
          BY <1>1, <5>1 DEF RepairOk
        <5> QED BY <5>1, <5>2
      <4> QED BY <4>1, <4>2
    <3> QED BY <1>1, <1>2, <2>1, <2>4, <2>5, <2>8, <3>1, RetriesData DEF Stays
  <2> QED BY <2>5, <2>6, <2>7, <2>8
<1> QED BY <1>4, <1>5

-----------------------------------------------------------------------------
\* Data after the steps of batches, and of others.

\* Data after a batch has ended, whether or not it was repaired.
LEMMA BatchEndsData ==
  ASSUME IInv, Control, Data, ~m.released, NEW rec, NEW pc, Plain(rec, pc, FALSE, {}), pc \in RestPc,
         m' = [m EXCEPT !.batch = FALSE, !.staged = {}], op' = [op EXCEPT !["batch"] = rec],
         UNCHANGED <<disk, world, history>>, Live(op["rewrite"]) => m.staged = {} \/ ~m.dirty
  PROVE  Data'
<1>1. PICK b \in Actor : /\ "batch" # b /\ Actor = {"batch", b} /\ "batch" \in Actor /\ b = "rewrite"
                         /\ op[b] \in Operation /\ m \in Manager
  BY InvFacts, Beside
<1>2. op'["batch"] = rec /\ op'[b] = op[b]
  BY <1>1, InvFacts
<1>3. /\ ~Live(op'["batch"]) /\ ~Staged(op'["batch"])
      /\ op'["batch"].pc \notin {"conflict", "reading", "resolving", "marking"} /\ Steady(op'[b], op[b])
  BY <1>1, <1>2, SteadySame DEF Plain, RestPc, Live, Staged, Running
<1>4. /\ m'.entries = m.entries /\ m'.file = m.file /\ m'.failed = m.failed /\ m'.dirty = m.dirty
      /\ m'.staged = {} /\ (Cur(m') => Cur(m))
  BY <1>1 DEF Manager, Cur
<1>5. Durable'
  BY <1>4, DurableKept
<1> QED BY <1>1, <1>3, <1>4, <1>5, DataIdle

\* Data after Repaired.
LEMMA RepairedData == ASSUME IInv, Control, Data, ~m.released, Repaired PROVE Data'
<1>1. /\ "batch" \in Actor /\ "rewrite" \in Actor /\ UNCHANGED <<disk, world, history>>
      /\ op["batch"].pc = "repaired"
      /\ m' = [m EXCEPT !.batch = FALSE, !.staged = {}] /\ op' = [op EXCEPT !["batch"] = Rejected]
  BY InvFacts DEF Repaired, At, Here, Files
<1>2. Plain(Rejected, "rejected", FALSE, {})
  BY <1>1, PlainRecords
<1>3. ASSUME Live(op["rewrite"]) PROVE m.staged = {}
  <2>1. /\ op["batch"].repair /\ Apart(op["batch"], op["rewrite"]) /\ Batching
    BY <1>1 DEF Control, Held
  <2>2. op["batch"].stale
    BY <1>1, <1>3, <2>1 DEF Apart, Repairing
  <2> QED BY <2>1, <2>2 DEF Batching, Preparing
<1> QED BY <1>1, <1>2, <1>3, BatchEndsData DEF RestPc

\* Data after Decides.
LEMMA DecidesData == ASSUME IInv, Control, Data, ~m.released, Decides PROVE Data'
<1>1. /\ "batch" \in Actor /\ "rewrite" \in Actor /\ UNCHANGED <<disk, world>>
      /\ op["batch"].pc = "deciding" /\ m \in Manager
  BY InvFacts DEF Decides, Here, Files
<1>2. CASE Cur(m)
  <2>1. /\ m' = [m EXCEPT !.batch = FALSE, !.staged = {}] /\ op' = [op EXCEPT !["batch"] = Idle]
        /\ UNCHANGED history
    BY <1>2 DEF Decides, Cur
  <2>2. Plain(Idle, "idle", FALSE, {})
    BY <1>1, PlainRecords
  <2>3. Held(op["rewrite"], m) /\ RepairOk(op["rewrite"], "rewrite")
    BY <1>1, InvFacts DEF Control
  <2>4. Live(op["rewrite"]) => ~m.dirty
    BY <1>2, <2>3 DEF Held, RepairOk
  <2> QED BY <1>1, <2>1, <2>2, <2>4, BatchEndsData DEF RestPc
<1>3. CASE ~Cur(m)
  <2> DEFINE x == RolledBack(m)
  <2>1. Repairs(x)
    BY <1>3 DEF Decides, Rejects, Cur
  <2>2. x \in Manager /\ x.file = m.file
    BY <1>1, RolledBackMarks
  <2> HIDE DEF x
  <2> QED BY <1>1, <2>1, <2>2, RepairsData DEF HopPc
<1> QED BY <1>2, <1>3

\* Data after Drained.
LEMMA DrainedData == ASSUME IInv, Control, Data, ~m.released, Drained PROVE Data'
<1>1. /\ "batch" \in Actor /\ "rewrite" \in Actor /\ UNCHANGED <<disk, world, history>>
      /\ op["batch"].pc = "draining" /\ m \in Manager /\ Actor = {"batch", "rewrite"}
      /\ Stages("batch", Housed([m EXCEPT !.dirty = FALSE]), 0)
  BY InvFacts DEF Drained, Reached, At, Here, Files, Actor
<1>2. /\ op["batch"].repair /\ Apart(op["batch"], op["rewrite"]) /\ Batching
      /\ op["rewrite"].pc # "marking"
  BY <1>1 DEF Control, Held, Drained, Reached, HopPc
<1> DEFINE z == [m EXCEPT !.dirty = FALSE]
<1>3. /\ z \in Manager /\ z.entries = m.entries /\ z.file = m.file /\ z.failed = m.failed
      /\ z.staged = m.staged /\ z.claimed = m.claimed /\ (Cur(z) => Cur(m)) /\ z.dirty = FALSE
  BY <1>1 DEF Manager, Cur
<1>4. ASSUME Live(op["rewrite"]) PROVE z.dirty = m.dirty
  <2>1. op["batch"].stale
    BY <1>1, <1>2, <1>4 DEF Apart, Repairing
  <2>2. ~m.dirty /\ m.dirty \in BOOLEAN
    BY <1>1, <1>2, <1>4, <2>1 DEF Batching, Preparing, Manager
  <2> QED BY <1>3, <2>2
<1>5. Stages("batch", Housed(z), 0) /\ 0 \in Nat
  BY <1>1
<1> HIDE DEF z
<1> QED BY <1>1, <1>2, <1>3, <1>4, <1>5, StagesData

\* Data after RepairPublished.
LEMMA RepairPublishedData == ASSUME IInv, Control, Data, ~m.released, RepairPublished PROVE Data'
<1> DEFINE x == [m EXCEPT !.expected = SizeOf(op["batch"].body)]
<1>1. PICK b \in Actor : /\ "batch" # b /\ Actor = {"batch", b} /\ "batch" \in Actor /\ b = "rewrite"
                         /\ op[b] \in Operation /\ Apart(op["batch"], op[b]) /\ m \in Manager
                         /\ RepairOk(op[b], b)
  BY InvFacts, Beside
<1>2. /\ UNCHANGED <<disk, world, history>> /\ op["batch"].pc = "published" /\ op["batch"].repair
  BY DEF RepairPublished, At, Here, Files
<1>3. SizeOf(op["batch"].body) \in Sizes
  BY <1>1, BodySize
<1>4. /\ x \in Manager /\ x.entries = m.entries /\ x.file = m.file /\ x.staged = m.staged
      /\ x.dirty = m.dirty /\ x.failed = m.failed /\ x.claimed = m.claimed /\ (Cur(x) => Cur(m))
  BY <1>1, <1>3 DEF Manager, Cur
<1>5. CASE op["batch"].stale
  <2>1. Indeterminate("batch", x)
    BY <1>5 DEF RepairPublished
  <2> HIDE DEF x
  <2> QED BY <1>2, <1>4, <2>1, IndeterminateData DEF Running
<1>6. CASE ~op["batch"].stale
  <2>1. Live(op["batch"]) /\ ~Live(op[b]) /\ op[b].pc # "marking"
    BY <1>1, <1>2, <1>6 DEF Apart, Live, Running, HopPc
  <2>2. CASE m.dirty
    <3> DEFINE z == [x EXCEPT !.dirty = FALSE]
    <3>1. Stages("batch", Housed(z), 0) /\ 0 \in Nat
      BY <1>6, <2>2 DEF RepairPublished
    <3> HIDE DEF x
    <3>2. /\ z \in Manager /\ z.entries = m.entries /\ z.file = m.file /\ z.failed = m.failed
          /\ z.staged = m.staged /\ z.claimed = m.claimed /\ (Cur(z) => Cur(m))
      BY <1>4 DEF Manager, Cur
    <3> HIDE DEF z
    <3> QED BY <1>1, <1>2, <2>1, <3>1, <3>2, StagesData
  <2>3. CASE ~m.dirty
    <3>1. /\ m' = [x EXCEPT !.current = TRUE, !.required = FALSE, !.failed = FALSE, !.fence = FALSE]
          /\ Goes("batch", "repaired")
      BY <1>6, <2>3 DEF RepairPublished
    <3> HIDE DEF x
    <3>2. /\ m'.entries = m.entries /\ m'.file = m.file /\ m'.staged = m.staged /\ m'.dirty = m.dirty
      BY <1>4, <3>1 DEF Manager
    <3>3. op'["batch"].pc = "repaired" /\ op'[b] = op[b]
      BY <1>1, <3>1, GoesSteady, InvFacts DEF Pc, HopPc
    <3>4. /\ ~Live(op'["batch"]) /\ ~Staged(op'["batch"])
          /\ op'["batch"].pc \notin {"conflict", "reading", "resolving", "marking"} /\ Steady(op'[b], op[b])
      BY <1>1, <3>3, SteadySame DEF Live, Staged, Running
    <3>5. Clean /\ ~op[b].repair
      BY <1>1, <1>2, <2>1, LandedFile DEF RepairOk
    <3>6. Durable'
      BY <1>1, <1>2, <2>1, <2>3, <3>2, LandedFile DEF Durable
    <3> QED BY <1>1, <1>2, <2>1, <3>2, <3>4, <3>5, <3>6, DataIdle
  <2> QED BY <2>2, <2>3
<1> QED BY <1>5, <1>6

\* Data after Collects.
LEMMA CollectsData == ASSUME IInv, Control, Data, ~m.released, Collects PROVE Data'
<1> DEFINE pair == <<m.next, m.next + 1>>
           one == <<m.next>>
           x == [Deferred(m) EXCEPT !.batch = TRUE, !.staged = ToSet(pair),
                                    !.entries = @ \o pair, !.next = @ + 2]
           y == [Deferred(m) EXCEPT !.batch = TRUE, !.staged = ToSet(one),
                                    !.entries = @ \o one, !.next = @ + 2]
           rec == Scheduled("batch", FALSE)
<1>1. PICK b \in Actor : /\ "batch" # b /\ Actor = {"batch", b} /\ "batch" \in Actor /\ b = "rewrite"
                         /\ op[b] \in Operation /\ Apart(op["batch"], op[b]) /\ m \in Manager
                         /\ RepairOk(op[b], b) /\ Batching
  BY InvFacts, Beside
<1>2. op["batch"].pc = "collecting" /\ UNCHANGED <<disk, world>> /\ m.staged = {}
  <2>1. op["batch"].pc = "collecting" /\ UNCHANGED <<disk, world>>
    BY DEF Collects
  <2> QED BY <1>1, <2>1 DEF Batching, Preparing
<1>3. Plain(rec, "queued", FALSE, Before("batch"))
  BY <1>1, PlainRecords
<1>4. ToSet(pair) = {m.next, m.next + 1} /\ ToSet(one) = {m.next}
  BY DEF ToSet
<1>5. \/ /\ m' = [m EXCEPT !.batch = TRUE, !.staged = {}] /\ history' = history
         /\ op' = [op EXCEPT !["batch"] = rec]
      \/ /\ ToSet(pair) \subseteq Own
         /\ history' = [history EXCEPT !.batches = @ \cup {ToSet(pair)}]
         /\ m' = x /\ op' = [op EXCEPT !["batch"] = rec]
      \/ ToSet(pair) \subseteq Own /\ Repairs(RolledBack(y))
  BY DEF Collects
<1> HIDE DEF rec
<1>6. ASSUME op' = [op EXCEPT !["batch"] = rec]
      PROVE  /\ op'[b] = op[b] /\ Steady(op'[b], op[b])
             /\ ~Live(op'["batch"]) /\ ~Staged(op'["batch"])
             /\ op'["batch"].pc \notin {"conflict", "reading", "resolving", "marking"}
  <2>1. op'["batch"] = rec /\ op'[b] = op[b]
    BY <1>1, <1>6, InvFacts
  <2> QED BY <1>1, <1>3, <2>1, SteadySame DEF Plain, Live, Staged, Running
<1>7. CASE /\ m' = [m EXCEPT !.batch = TRUE, !.staged = {}] /\ history' = history
           /\ op' = [op EXCEPT !["batch"] = rec]
  <2>1. /\ m'.entries = m.entries /\ m'.file = m.file /\ m'.failed = m.failed /\ m'.dirty = m.dirty
        /\ m'.staged = m.staged /\ (Cur(m') => Cur(m))
    BY <1>1, <1>2, <1>7 DEF Manager, Cur
  <2>2. Durable'
    BY <1>2, <1>7, <2>1, DurableKept
  <2>3. Steady(op'[b], op[b]) /\ ~Live(op'["batch"]) /\ ~Staged(op'["batch"])
        /\ op'["batch"].pc \notin {"conflict", "reading", "resolving", "marking"}
    BY <1>6, <1>7
  <2> QED BY <1>1, <1>2, <1>7, <2>1, <2>2, <2>3, DataIdle
<1>8. CASE /\ ToSet(pair) \subseteq Own
           /\ history' = [history EXCEPT !.batches = @ \cup {ToSet(pair)}]
           /\ m' = x /\ op' = [op EXCEPT !["batch"] = rec]
  <2>1. pair \in Seq(Own)
    BY <1>4, <1>8
  <2> HIDE DEF pair
  <2>2. /\ x.failed = m.failed /\ x.file = m.file /\ x.dirty /\ ~Cur(x) /\ x.staged = ToSet(pair)
        /\ x.entries = Joined(m.entries, pair)
    BY <2>1, StagingMarks
  <2> HIDE DEF x
  <2>3. /\ m.entries \in Seq(Line) /\ op[b].body \in Seq(Line) /\ pair \in Seq(Line)
        /\ Aside(b) \in SUBSET Own
    BY <2>1, Stuff DEF Line
  <2>4. ToSet(m.entries) \subseteq ToSet(m'.entries)
    BY <1>8, <2>2, <2>3, MembersFacts DEF Joined
  <2>5. history'.unmarked = history.unmarked /\ history'.deferred = history.deferred
    BY <1>8, InvFacts DEF WorldOk
  <2>6. Aside(b)' = Aside(b) \cup ToSet(pair)
    BY <1>1, <1>2, <1>8, <2>2, <2>5 DEF Aside
  <2>7. Good(b) /\ op'[b] = op[b] /\ op[b].pc \notin HopPc
    BY <1>1, <1>2, <1>6, <1>8 DEF Data, Apart, HopPc
  <2>8. BodyOk(b)'
    <3>1. SUFFICES ASSUME Staged(op[b])
          PROVE  Mine(op[b].body) \subseteq ToSet(m'.entries) /\ Same(Aside(b)', op[b].body, m'.entries)
      BY <1>8, <2>2, <2>7 DEF BodyOk
    <3>2. Mine(op[b].body) \subseteq ToSet(m.entries) /\ Same(Aside(b), op[b].body, m.entries)
      BY <2>7, <3>1 DEF Good, BodyOk
    <3>3. Same(Aside(b)', op[b].body, m.entries)
      BY <2>3, <2>6, <3>2, SameGrows
    <3>4. Same(Aside(b)', op[b].body, Joined(m.entries, pair))
      BY <2>3, <2>6, <3>3, SameJoins
    <3> QED BY <1>8, <2>2, <2>4, <3>2, <3>4
  <2>9. PlaceOk(b)'
    BY <1>2, <1>8, <2>2, <2>7 DEF Good, PlaceOk, Elsewhere
  <2>10. Good(b)'
    BY <2>7, <2>8, <2>9, FarGood
  <2>11. Good("batch")' /\ ~Live(op'["batch"]) /\ ~Contests(op'["batch"])
    BY <1>1, <1>6, <1>8, IdleGood DEF Contests
  <2>12. Clean => Clean'
    BY <1>2, <1>8, <2>2, <2>4, Stuff, GrownClean
  <2>13. LeftOver'
    BY <1>1, <1>8, <2>2, <2>7, <2>11, <2>12, LeftOverKept DEF Data
  <2>14. Durable' /\ Named'
    BY <1>2, <1>8, <2>2 DEF Durable, Data, Named
  <2> QED BY <1>1, <2>10, <2>11, <2>13, <2>14 DEF Data
<1>9. CASE ToSet(pair) \subseteq Own /\ Repairs(RolledBack(y))
  <2> DEFINE z == RolledBack(y)
  <2>1. one \in Seq(Own)
    BY <1>4, <1>9
  <2> HIDE DEF one
  <2>2. y \in Manager /\ y.file = m.file
    BY <2>1, StagingMarks
  <2>3. Repairs(z)
    BY <1>9
  <2> HIDE DEF y
  <2>4. z \in Manager /\ z.file = m.file
    BY <2>2, RolledBackMarks
  <2> HIDE DEF z
  <2> QED BY <1>2, <2>3, <2>4, RepairsData DEF HopPc
<1> QED BY <1>5, <1>7, <1>8, <1>9

\* What others do to the files.
LEMMA OthersData ==
  ASSUME IInv, Data, UNCHANGED <<m, op, history>>, disk' \in [File -> Content], Named',
         \A f \in File : Elsewhere(f) => Elsewhere(f)',
         \A f \in File : disk'[f].id = f =>
            disk[f].id = f /\ Same({}, disk'[f].lines, disk[f].lines),
         \A f \in File \ world'.tampered : f \notin world.tampered /\ disk'[f].id = disk[f].id
  PROVE  Data'
<1>1. SUFFICES ASSUME ~m.released PROVE Data'
  BY DEF Data
<1>2. /\ m.file \in File
      /\ \A c \in Actor : op[c].target \in File
      /\ \A f \in File : disk[f].lines \in Seq(Line) /\ disk'[f].lines \in Seq(Line)
  BY Stuff DEF Content
<1>3. ASSUME NEW c \in Actor PROVE Good(c)'
  <2>1. Good(c) /\ op[c].target \in File
    BY <1>1, <1>2 DEF Data
  <2>2. BodyOk(c)'
    BY <2>1 DEF Good, BodyOk, Aside
  <2>3. PlaceOk(c)'
    BY <2>1 DEF Good, PlaceOk
  <2>4. ASSUME NEW f \in File, NEW s, StillHas(f, s) PROVE StillHas(f, s)'
    <3>1. f \notin world'.tampered => disk'[f].id = f
      BY <2>4 DEF StillHas
    <3>2. disk'[f].id = f => Same({}, disk'[f].lines, s)
      BY <2>4, SameChain DEF StillHas
    <3> QED BY <3>1, <3>2 DEF StillHas
  <2>5. LandedOk(c)'
    BY <2>1, <2>4 DEF Good, LandedOk
  <2>6. ReadOk(c)'
    BY <1>2, <2>1 DEF Good, ReadOk, Trusted
  <2>7. MarkOk(c)'
    <3> DEFINE S == history.unmarked \cup (history.deferred \ ToSet(op[c].body))
    <3>1. SUFFICES ASSUME op[c].pc = "marking", ~m.failed, m.file \notin world'.tampered
          PROVE  disk'[m.file].id = m.file /\ Same(S, disk'[m.file].lines, m.entries)
      BY DEF MarkOk
    <3>2. m.file \notin world.tampered /\ disk'[m.file].id = disk[m.file].id
      BY <1>2, <3>1
    <3>3. disk[m.file].id = m.file /\ Same(S, disk[m.file].lines, m.entries)
      BY <2>1, <3>1, <3>2 DEF Good, MarkOk
    <3> HIDE DEF S
    <3>4. Same({}, disk'[m.file].lines, disk[m.file].lines)
      BY <1>2, <3>2, <3>3
    <3>5. Same(S, disk'[m.file].lines, disk[m.file].lines)
      BY <1>2, <3>4, SameGrows
    <3> QED BY <3>2, <3>3, <3>5, SameChain
  <2> QED BY <2>2, <2>3, <2>5, <2>6, <2>7 DEF Good
<1>4. Clean => Clean'
  BY <1>2, SameMine DEF Clean
<1>5. LeftOver'
  BY <1>1, <1>4 DEF LeftOver, Data
<1>6. Durable'
  <2>1. SUFFICES ASSUME Cur(m), ~m.failed, m.file \notin world'.tampered
        PROVE  disk'[m.file].id = m.file /\ Same(history.unmarked, disk'[m.file].lines, m.entries)
    BY DEF Durable
  <2>2. m.file \notin world.tampered /\ disk'[m.file].id = disk[m.file].id
    BY <1>2, <2>1
  <2>3. disk[m.file].id = m.file /\ Same(history.unmarked, disk[m.file].lines, m.entries)
    BY <1>1, <2>1, <2>2 DEF Data, Durable
  <2>4. Same({}, disk'[m.file].lines, disk[m.file].lines)
    BY <1>2, <2>2, <2>3
  <2>5. Same(history.unmarked, disk'[m.file].lines, disk[m.file].lines)
    BY <1>2, <2>4, SameGrows
  <2> QED BY <2>2, <2>3, <2>5, SameChain
<1> QED BY <1>3, <1>5, <1>6 DEF Data

\* Data after AlienAppends.
LEMMA AlienAppendsData == ASSUME IInv, Data, NEW f \in File, AlienAppends(f) PROVE Data'
<1> DEFINE e == MaxEntry + world.aliens + 1
           s == Append(disk[f].lines, e)
           d == [disk[f] EXCEPT !.lines = s]
<1>1. /\ disk \in [File -> Content] /\ disk[f] \in Content /\ disk[f].lines \in Seq(Line)
      /\ WorldOk
  BY Stuff, InvFacts
<1>2. e \in Alien
  <2>1. world.aliens \in 0..MaxAlien /\ world.aliens < MaxAlien
    BY <1>1 DEF WorldOk, AlienAppends
  <2> QED BY <2>1, Basics DEF Alien
<1>3. e \in Line
  BY <1>2 DEF Line
<1>4. /\ disk[f].id = f /\ disk' = [disk EXCEPT ![f] = d] /\ UNCHANGED <<m, op, history>>
      /\ world'.tampered = world.tampered
  BY <1>1 DEF AlienAppends, Trouble, WorldOk
<1> HIDE DEF e
<1>5. s \in Seq(Line) /\ Same({}, s, disk[f].lines)
  <2>1. s \in Seq(Line)
    BY <1>1, <1>3, AppendProperties
  <2>2. Same({}, disk[f].lines, disk[f].lines)
    BY DEF Same
  <2> QED BY <1>1, <1>2, <1>3, <2>1, <2>2, SameAdds
<1> HIDE DEF s
<1>6. d \in Content /\ d.id = f /\ d.lines = s
  BY <1>1, <1>4, <1>5 DEF Content
<1> HIDE DEF d
<1>7. disk'[f] = d /\ \A g \in File \ {f} : disk'[g] = disk[g]
  BY <1>1, <1>4
<1>8. disk' \in [File -> Content]
  BY <1>1, <1>4, <1>6
<1>9. CASE m.released
  BY <1>4, <1>9 DEF Data
<1>10. CASE ~m.released
  <2>1. Named'
    BY <1>6, <1>7, <1>10 DEF Data, Named
  <2>2. \A g \in File : Elsewhere(g) => Elsewhere(g)'
    BY <1>4, <1>7 DEF Elsewhere
  <2>3. ASSUME NEW g \in File, disk'[g].id = g
        PROVE  disk[g].id = g /\ Same({}, disk'[g].lines, disk[g].lines)
    BY <1>4, <1>5, <1>6, <1>7, <2>3 DEF Same
  <2>4. \A g \in File : disk'[g].id = disk[g].id
    BY <1>4, <1>6, <1>7
  <2> QED BY <1>4, <1>8, <2>1, <2>2, <2>3, <2>4, OthersData
<1> QED BY <1>9, <1>10

\* Data after Tampers.
LEMMA TampersData == ASSUME IInv, Data, NEW f \in File, Tampers(f) PROVE Data'
<1>1. PICK c \in {Missing, Journal(Stranger, <<>>)} : disk' = [disk EXCEPT ![f] = c]
  BY DEF Tampers
<1>2. /\ disk \in [File -> Content] /\ WorldOk /\ <<>> \in Seq(Line)
  BY Stuff, InvFacts
<1>3. c \in Content /\ c.id \notin File
  BY <1>2, Basics, JournalAssumption DEF Journal, Content, File, Stranger
<1>4. disk[f].id = f /\ UNCHANGED <<m, op, history>> /\ world'.tampered = world.tampered \cup {f}
  BY <1>2 DEF Tampers, Trouble, WorldOk
<1>5. disk'[f] = c /\ \A g \in File \ {f} : disk'[g] = disk[g]
  BY <1>1, <1>2
<1>6. disk' \in [File -> Content]
  BY <1>1, <1>2, <1>3
<1>7. CASE m.released
  BY <1>4, <1>7 DEF Data
<1>8. CASE ~m.released
  <2>1. Named'
    BY <1>3, <1>5, <1>8 DEF Data, Named
  <2>2. \A g \in File : Elsewhere(g) => Elsewhere(g)'
    BY <1>4, <1>5 DEF Elsewhere
  <2>3. ASSUME NEW g \in File, disk'[g].id = g
        PROVE  disk[g].id = g /\ Same({}, disk'[g].lines, disk[g].lines)
    BY <1>3, <1>5, <2>3 DEF Same
  <2>4. \A g \in File \ world'.tampered : g \notin world.tampered /\ disk'[g].id = disk[g].id
    BY <1>4, <1>5
  <2> QED BY <1>4, <1>6, <2>1, <2>2, <2>3, <2>4, OthersData
<1> QED BY <1>7, <1>8

\* Data when neither the session nor its files change.
LEMMA StillData ==
  ASSUME IInv, Data, UNCHANGED <<m, op, history, disk>>, world'.tampered = world.tampered
  PROVE  Data'
<1>1. CASE m.released
  BY <1>1 DEF Data
<1>2. CASE ~m.released
  <2>1. disk' \in [File -> Content] /\ Named'
    BY <1>2, Stuff DEF Data, Named
  <2>2. \A f \in File : Elsewhere(f) => Elsewhere(f)'
    BY DEF Elsewhere
  <2> QED BY <2>1, <2>2, OthersData DEF Same
<1> QED BY <1>1, <1>2

-----------------------------------------------------------------------------
\* Data is kept.

\* A repair does not unseal the manager.
LEMMA RepairsReleased ==
  ASSUME NEW x \in Manager, x.released, Repairs(x)
  PROVE  m'.released
BY DEF Repairs, Manager

\* Nor does a pass that is staged.
LEMMA StagesReleased ==
  ASSUME NEW a \in Actor, NEW x \in Manager, x.released, NEW tries, Stages(a, Housed(x), tries)
  PROVE  m'.released
BY HousedAlike DEF Stages, Alike

\* Nor one that follows a recovery.
LEMMA RetriesReleased ==
  ASSUME NEW a \in Actor, NEW x \in Manager, x.released, Retries(a, x)
  PROVE  m'.released
<1>1. CASE op[a].repair
  BY <1>1, StagesReleased DEF Retries
<1>2. CASE ~op[a].repair
  BY <1>2 DEF Retries, Manager
<1> QED BY <1>1, <1>2

\* Nor does a repair that cannot tell.
LEMMA IndeterminateReleased ==
  ASSUME NEW a \in Actor, NEW x \in Manager, x.released, Indeterminate(a, x)
  PROVE  m'.released
<1> DEFINE y == IF x.batch THEN Diverged(x) ELSE x
           u == Unfenced(a, y)
<1>1. m' = [u EXCEPT !.failed = TRUE, !.batch = FALSE, !.staged = {}]
  BY DEF Indeterminate
<1>2. y \in Manager /\ y.released
  BY MarksAlike
<1> HIDE DEF y
<1>3. u \in Manager /\ u.released
  BY <1>2, UnfencedMarks
<1> HIDE DEF u
<1> QED BY <1>1, <1>3 DEF Manager

\* A sealed manager stays sealed, whatever its operations do.
LEMMA ContinuesReleased ==
  ASSUME IInv, m.released, NEW a \in Actor, Continues(a)
  PROVE  m'.released
<1>1. m \in Manager /\ op[a].seen \in Content
  BY Stuff
<1>2. CASE Starts(a)
  BY <1>1, <1>2 DEF Starts, Manager
<1>3. CASE Serializes(a)
  <2>1. m' = Housed(m)
    BY <1>3 DEF Serializes, Stages
  <2> QED BY <1>1, <2>1, HousedAlike DEF Alike
<1>4. CASE Publishes(a) \/ ReadsBack(a)
  BY <1>4 DEF Publishes, ReadsBack
<1>5. CASE Settles(a)
  <2> DEFINE x == [m EXCEPT !.expected = SizeOf(op[a].body)]
  <2>1. x \in Manager /\ x.released
    BY <1>1, BodySize DEF Manager
  <2>2. \/ m' = m
        \/ m' = [x EXCEPT !.dirty = FALSE, !.writer = FALSE]
        \/ m' = [x EXCEPT !.fence = FALSE]
    BY <1>5 DEF Settles
  <2> HIDE DEF x
  <2> QED BY <2>1, <2>2 DEF Manager
<1>6. Matched(a) \in Manager /\ Matched(a).released
  BY MatchedAlike DEF Alike
<1>7. CASE Verified(a)
  BY <1>6, <1>7 DEF Verified
<1>8. CASE Checked(a)
  <2>1. m' = Unfenced(a, Matched(a)) \/ m' = Matched(a) \/ Indeterminate(a, m)
    BY <1>8 DEF Checked
  <2> QED BY <1>1, <1>6, <2>1, UnfencedMarks, IndeterminateReleased
<1>9. CASE Conflicts(a)
  <2>1. m' = m \/ Retries(a, MovedOff(m))
    BY <1>9 DEF Conflicts
  <2> QED BY <1>1, <2>1, MovedAlike, RetriesReleased DEF Alike
<1>10. CASE Resolves(a)
  <2>1. Retries(a, m) \/ Retries(a, Recovered(m, op[a].seen))
    BY <1>10 DEF Resolves
  <2>2. Recovered(m, op[a].seen) \in Manager /\ Recovered(m, op[a].seen).released
    BY <1>1, RecoveredAlike DEF Alike
  <2> QED BY <1>1, <2>1, <2>2, RetriesReleased
<1>11. CASE Fails(a)
  <2> DEFINE x == [m EXCEPT !.failed = TRUE]
  <2>1. x \in Manager /\ x.released
    BY <1>1 DEF Manager
  <2>2. m' = x \/ Repairs(x) \/ Repairs(RolledBack(x))
    BY <1>11 DEF Fails, Rejects
  <2> HIDE DEF x
  <2>3. RolledBack(x) \in Manager /\ RolledBack(x).released
    BY <2>1, RolledBackMarks
  <2> QED BY <2>1, <2>2, <2>3, RepairsReleased
<1>12. CASE Marks(a)
  BY <1>1, <1>12 DEF Marks, Manager
<1> QED BY <1>2, <1>3, <1>4, <1>5, <1>7, <1>8, <1>9, <1>10, <1>11, <1>12 DEF Continues

\* Nor do the steps of batches unseal it.
LEMMA BatchReleased ==
  ASSUME IInv, m.released, BatchContinues
  PROVE  m'.released
<1>1. m \in Manager /\ "batch" \in Actor
  BY InvFacts
<1>2. CASE Flushed
  BY <1>1, <1>2, RepairsReleased DEF Flushed
<1>3. CASE Collects
  BY <1>1, <1>3 DEF Collects, Manager
<1>4. CASE Decides
  <2>1. m' = [m EXCEPT !.batch = FALSE, !.staged = {}] \/ Repairs(RolledBack(m))
    BY <1>4 DEF Decides, Rejects
  <2>2. RolledBack(m) \in Manager /\ RolledBack(m).released
    BY <1>1, RolledBackMarks
  <2> QED BY <1>1, <2>1, <2>2, RepairsReleased DEF Manager
<1>5. CASE Drained
  <2> DEFINE z == [m EXCEPT !.dirty = FALSE]
  <2>1. z \in Manager /\ z.released
    BY <1>1 DEF Manager
  <2>2. Stages("batch", Housed(z), 0)
    BY <1>5 DEF Drained
  <2> HIDE DEF z
  <2> QED BY <1>1, <2>1, <2>2, StagesReleased
<1>6. CASE RepairPublished
  <2> DEFINE x == [m EXCEPT !.expected = SizeOf(op["batch"].body)]
             z == [x EXCEPT !.dirty = FALSE]
  <2>1. x \in Manager /\ x.released
    BY <1>1, BodySize DEF Manager
  <2>2. \/ Indeterminate("batch", x)
        \/ Stages("batch", Housed(z), 0)
        \/ m' = [x EXCEPT !.current = TRUE, !.required = FALSE, !.failed = FALSE, !.fence = FALSE]
    BY <1>6 DEF RepairPublished
  <2> HIDE DEF x
  <2>3. z \in Manager /\ z.released
    BY <2>1 DEF Manager
  <2> HIDE DEF z
  <2>4. CASE Indeterminate("batch", x)
    BY <1>1, <2>1, <2>4, IndeterminateReleased
  <2>5. CASE Stages("batch", Housed(z), 0)
    BY <1>1, <2>3, <2>5, StagesReleased
  <2>6. CASE m' = [x EXCEPT !.current = TRUE, !.required = FALSE, !.failed = FALSE, !.fence = FALSE]
    BY <2>1, <2>6 DEF Manager
  <2> QED BY <2>2, <2>4, <2>5, <2>6
<1>7. CASE Repaired
  BY <1>1, <1>7 DEF Repaired, Manager
<1> QED BY <1>2, <1>3, <1>4, <1>5, <1>6, <1>7 DEF BatchContinues

\* Every step keeps Data: one lemma per action.
LEMMA DataKept == ASSUME IInv, Control, Control', Data, [Next]_vars PROVE Data'
<1>1. CASE UNCHANGED vars
  BY <1>1, StillData DEF vars
<1>2. CASE Others
  <2>1. CASE LeaseMoves
    <3>1. UNCHANGED <<m, op, history, disk>> /\ world'.tampered = world.tampered
      BY <2>1, InvFacts DEF LeaseMoves, Trouble, WorldOk
    <3> QED BY <3>1, StillData
  <2>2. ASSUME NEW f \in File, AlienAppends(f) \/ Tampers(f) PROVE Data'
    BY <2>2, AlienAppendsData, TampersData
  <2> QED BY <1>2, <2>1, <2>2 DEF Others
<1>3. CASE AppendEntry \/ FlushSync \/ Seal
  BY <1>3, AppendEntryData, FlushSyncData, SealData
<1>4. CASE Rewrite \/ BatchBegins \/ RecoverPersistence
  BY <1>4, RewriteData, BatchBeginsData, RecoverPersistenceData
<1>5. ASSUME NEW a \in Actor, Continues(a) PROVE Data'
  <2>1. CASE m.released
    BY <1>5, <2>1, ContinuesReleased DEF Data
  <2>2. CASE ~m.released
    <3>1. CASE \/ Starts(a) \/ Serializes(a) \/ Publishes(a) \/ Settles(a) \/ Marks(a)
               \/ ReadsBack(a)
      BY <2>2, <3>1, StartsData, SerializesData, PublishesData, SettlesData, MarksData,
         ReadsBackData
    <3>2. CASE Verified(a) \/ Checked(a) \/ Conflicts(a) \/ Resolves(a) \/ Fails(a)
      BY <2>2, <3>2, VerifiedData, CheckedData, ConflictsData, ResolvesData, FailsData
    <3> QED BY <1>5, <3>1, <3>2 DEF Continues
  <2> QED BY <2>1, <2>2
<1>6. CASE BatchContinues
  <2>1. CASE m.released
    BY <1>6, <2>1, BatchReleased DEF Data
  <2>2. CASE ~m.released
    BY <1>6, <2>2, FlushedData, CollectsData, DecidesData, DrainedData, RepairPublishedData,
       RepairedData DEF BatchContinues
  <2> QED BY <2>1, <2>2
<1> QED BY <1>1, <1>2, <1>3, <1>4, <1>5, <1>6 DEF Next

\* Nothing is under way at first, and the file is empty as memory is.
LEMMA DataAtFirst == Init => Data
<1> SUFFICES ASSUME Init PROVE Data
  OBVIOUS
<1>1. /\ m.entries = <<>> /\ m.file = 1 /\ ~m.failed /\ op = [a \in Actor |-> Idle]
      /\ disk = [f \in File |-> IF f = 1 THEN Journal(1, <<>>) ELSE Missing]
      /\ 1 \in File /\ 0 \notin File
  BY Basics DEF Init, File
<1>2. /\ disk[1].id = 1 /\ disk[1].lines = <<>>
      /\ \A f \in File : f # 1 => disk[f].id = 0
  BY <1>1, Basics DEF Journal
<1>3. ASSUME NEW a \in Actor PROVE op[a].pc = "idle"
  BY <1>1 DEF Idle
<1>4. \A a \in Actor : Good(a)
  BY <1>3 DEF Good, BodyOk, PlaceOk, LandedOk, ReadOk, MarkOk, Staged, Live, Running
<1>5. Clean /\ Durable /\ Named
  BY <1>1, <1>2 DEF Clean, Mine, Durable, Same, Named
<1> QED BY <1>4, <1>5 DEF Data, LeftOver

\* When the manager takes its file and memory for equal, both hold the same entries of its
\* own in the same order, but for entries deferred to a batch that a rewrite unmarked which
\* was not to write them: no overlap of appends, rewrites, recoveries, batches and repairs,
\* and no failure, lets #fileIsCurrent outrun what is on disk in any other way.
THEOREM WhatIsCurrentIsDurable == Spec => []CurrentIsDurable
<1>1. Init => Control /\ Data
  BY ControlAtFirst, DataAtFirst
<1>2. IInv /\ (Control /\ Data) /\ [Next]_vars => (Control /\ Data)'
  BY ControlKept, DataKept
<1>3. Data => CurrentIsDurable
  BY DEF Data, Durable, CurrentIsDurable, Settled, Cur, Same
<1> QED BY <1>1, <1>2, <1>3, Invariant, PTL DEF Spec

=============================================================================
