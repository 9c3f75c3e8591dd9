----------------------------- MODULE MCTickLoop -----------------------------
(* Instance of TickLoop, with what TickTask observes of it, for TLC.        *)
EXTENDS TickTask
=============================================================================
