------------------------------ MODULE MC_Claims ------------------------------
(* Claims on two devices. *)
EXTENDS Claims, TLC

CONSTANTS d1, d2

MCDevices == {d1, d2}
MCSymmetry == Permutations(MCDevices)
==============================================================================
