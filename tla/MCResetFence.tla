---------------------------- MODULE MCResetFence ----------------------------
(* Two processes, one account. *)
EXTENDS ResetFence, TLC

CONSTANTS p1, p2
MCProc == {p1, p2}
Symmetric == Permutations(MCProc)
=============================================================================
