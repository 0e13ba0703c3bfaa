--------------------------- MODULE MCTaskManager ---------------------------
(* TaskManager for TLC: one scrub and one other task over one slot.        *)
EXTENDS TaskManager
=============================================================================
