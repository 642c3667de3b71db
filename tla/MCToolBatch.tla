---------------------------- MODULE MCToolBatch ----------------------------
(* A wait beside a shared call that does work, and an exclusive call after  *)
(* both; the queue, the gate and the abort come in at any point.            *)
EXTENDS ToolBatch

MCBatch == {[exclusive |-> {3}, waits |-> {1}]}
=============================================================================
