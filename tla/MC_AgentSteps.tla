---------------------------- MODULE MC_AgentSteps ----------------------------
(* A gated writer, an ungated one and a reader, of which one is started. *)
EXTENDS AgentSteps

CONSTANTS gated, ungated, reader
MCKeys == {gated, ungated, reader}
MCGated == {gated}
MCUngated == {ungated}
=============================================================================
