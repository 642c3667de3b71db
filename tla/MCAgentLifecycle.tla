-------------------------- MODULE MCAgentLifecycle --------------------------
(***************************************************************************)
(* Instances of AgentLifecycle for TLC: two callers and one releaser of one*)
(* id, two or three generations of it and two or three sessions.           *)
(***************************************************************************)
EXTENDS AgentLifecycle

\* everything but the plain removal of a ref
MCNoRemoval == Happening \ {"removal"}
\* kills, or plain removals, alone
MCKill == {"kill"}
MCRemoval == {"removal"}
=============================================================================
