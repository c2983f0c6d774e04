--------------------------- MODULE MCCommandPacer ---------------------------
(* CommandPacer for TLC: model values as commands, of both kinds. *)
EXTENDS CommandPacer

CONSTANTS a1, a2, b1

MCCommands == {a1, a2, b1}
MCApplication == {a1, a2}
=============================================================================
