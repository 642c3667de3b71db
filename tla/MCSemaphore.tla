----------------------------- MODULE MCSemaphore -----------------------------
(* Instance of Semaphore for TLC: no bound is needed, the state is finite. *)
EXTENDS Semaphore

CONSTANTS c1, c2, c3, c4

MCClient == {c1, c2, c3, c4}
\* negative and zero are "unlimited"; 1..3 lie below the number of clients
MCLimitInput == {-1, 0, 1, 2, 3}
=============================================================================
