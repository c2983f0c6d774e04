--------------------------- MODULE MCGatewayShard ---------------------------
(* GatewayShard for TLC: its configurations give every constant and bound. *)
EXTENDS GatewayShard
=============================================================================
