---------------------------- MODULE MC_ActLock ----------------------------
(* ActLock on two sessions that contend for one device's lock. *)
EXTENDS ActLock, TLC

CONSTANTS s1, s2

MCSessions == {s1, s2}
MCSymmetry == Permutations(MCSessions)

\* what the proofs carry along, each until the races that end it
LockInvHeld == "busy-end" \notin raced => LockInv
LedgerInvHeld == raced = {} => LedgerInv

\* NothingLost though races took place: "this one never writes over it" (driver-io.ts:335)
NeverWrittenOver == [][store \subseteq store']_vars
============================================================================
