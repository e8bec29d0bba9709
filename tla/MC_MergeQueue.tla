---------------------------- MODULE MC_MergeQueue ----------------------------
(* Two records in the merge queue, and others on GitHub. *)
EXTENDS MergeQueue

CONSTANTS r1, r2

MCRecords == {r1, r2}
MCStart == <<r1, r2>>
=============================================================================
