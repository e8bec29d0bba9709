----------------------------- MODULE MC_Ledger -----------------------------
(* Ledger with one inline key and one key whose commands run off the pass. *)
EXTENDS Ledger, TLC

CONSTANTS close, merge

MCKeys == {close, merge}
MCOffPass == {merge}
=============================================================================
