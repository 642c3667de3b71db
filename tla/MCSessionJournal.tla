-------------------------- MODULE MCSessionJournal --------------------------
(* A batch of two entries and one appended beside it, with room to move to *)
(* a sibling twice.                                                        *)
EXTENDS SessionJournal
=============================================================================
