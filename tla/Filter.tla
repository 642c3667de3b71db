------------------------------- MODULE Filter -------------------------------
(***************************************************************************)
(* What JavaScript's Array.filter leaves of a sequence.  SelectSeq of the  *)
(* module Sequences says the same; the proofs cannot expand it, while the  *)
(* recursive function below is an ordinary definition to them.             *)
(***************************************************************************)
EXTENDS Naturals, Sequences

\* The elements of s that are not in S, in their order.
Without(s, S) ==
  LET kept[i \in 0..Len(s)] ==
        IF i = 0 THEN <<>>
        ELSE IF s[i] \in S THEN kept[i - 1] ELSE Append(kept[i - 1], s[i])
  IN kept[Len(s)]
=============================================================================
