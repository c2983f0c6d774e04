----------------------------- MODULE MCTaskTimers -----------------------------
(* Small instance of TaskTimers for TLC *)
EXTENDS TaskTimers
CONSTANTS once, again

\* A delay in the past, one that is due at once and one that is not
Waits == {-1, 0, 1}
=============================================================================
