------------------------------ MODULE SlotPool ------------------------------
(***************************************************************************)
(* What a counting semaphore promises its callers, whatever queue and      *)
(* counter it keeps: slots are granted up to the ceiling and no further,   *)
(* one that becomes free goes on to a waiter in the same step, and a       *)
(* caller that gives up leaves nothing behind.  Which waiter is next is    *)
(* left open.                                                              *)
(***************************************************************************)
EXTENDS Integers, FiniteSets

CONSTANTS
  Client,   \* the callers
  Ceiling   \* the ceilings the pool may be given; 0 is no ceiling

VARIABLES
  cap,      \* the ceiling in force
  holders,  \* who holds a slot
  waiting   \* who waits for one

poolVars == <<cap, holders, waiting>>

Fits(h, m) == m = 0 \/ Cardinality(h) <= m
Full(h, m) == m # 0 /\ Cardinality(h) >= m

Init ==
  /\ cap \in Ceiling
  /\ holders = {}
  /\ waiting = {}

\* With h holding, the slots left under m go to waiters: never too many, and
\* none stays free while somebody waits.
Admit(h, m) ==
  \E granted \in SUBSET waiting :
    /\ holders' = h \union granted
    /\ waiting' = waiting \ granted
    /\ granted # {} => Fits(holders', m)
    /\ waiting' # {} => Full(holders', m)

Ask(c) ==
  /\ c \notin holders \union waiting
  /\ IF Full(holders, cap)
     THEN waiting' = waiting \union {c} /\ UNCHANGED holders
     ELSE holders' = holders \union {c} /\ UNCHANGED waiting
  /\ UNCHANGED cap

GiveUp(c) ==
  /\ c \in waiting
  /\ waiting' = waiting \ {c}
  /\ UNCHANGED <<cap, holders>>

GiveBack(c) ==
  /\ c \in holders
  /\ Admit(holders \ {c}, cap)
  /\ UNCHANGED cap

SetCeiling(m) ==
  /\ cap' = m
  /\ Admit(holders, m)

Next ==
  \/ \E c \in Client : Ask(c) \/ GiveUp(c) \/ GiveBack(c)
  \/ \E m \in Ceiling : SetCeiling(m)

Spec == Init /\ [][Next]_poolVars
=============================================================================
