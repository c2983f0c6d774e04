--------------------------- MODULE MCIdentifyPermits ---------------------------
(* Small instance of IdentifyPermits for TLC *)
EXTENDS IdentifyPermits
CONSTANTS a, b
=============================================================================
