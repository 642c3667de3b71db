---------------------------- MODULE MCJobManager ----------------------------
(***************************************************************************)
(* Instances of JobManager for TLC: one agent whose id jobs may carry, and *)
(* two jobs in all.                                                        *)
(***************************************************************************)
EXTENDS JobManager

\* every job has an id of its own, and only the model's own tools recover
MCOwnIds == {"foreground", "kill", "dispose", "eval"}
\* the agent's id is used again once its row is gone
MCReuse == {"reuse"}
MCPlain == {}
=============================================================================
