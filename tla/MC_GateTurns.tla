---------------------------- MODULE MC_GateTurns ----------------------------
(* Three stop gates: two for a container that runs one at once, and one whose marker says two. *)
EXTENDS GateTurns

CONSTANTS g1, g2, g3

MCGates == {g1, g2, g3}
MCCap == [g \in MCGates |-> IF g = g3 THEN 2 ELSE 1]
=============================================================================
