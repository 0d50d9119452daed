--------------------------- MODULE MCMatchmaking ---------------------------
(* Instances of Matchmaking: a duel is for two, any other mode for three. *)
EXTENDS Matchmaking, TLC

CONSTANTS j1, j2, c1, a1

SizeOf == [mode \in Modes |-> IF mode = "duel" THEN 2 ELSE 3]
=============================================================================
