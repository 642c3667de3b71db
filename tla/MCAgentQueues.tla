---------------------------- MODULE MCAgentQueues ----------------------------
(* Instances of AgentQueues for TLC: two run slots, reused. *)
EXTENDS AgentQueues

CONSTANTS r1, r2

MCRun == {r1, r2}
=============================================================================
