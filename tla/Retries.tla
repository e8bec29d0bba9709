------------------------------ MODULE Retries ------------------------------
(***************************************************************************)
(* What the ledger promises the world about one action's commands: of a    *)
(* key's commands one runs at a time, and at most MaxAttempts of them run  *)
(* before the owner's retry, or the week after which an entry is dropped,  *)
(* clears the count.  Ledger implements it.                                *)
(***************************************************************************)
EXTENDS Naturals

CONSTANTS Keys, MaxAttempts

VARIABLES
  runs,   \* commands begun under a key since its count was cleared
  doing   \* a command of the key runs now

Init == runs = [k \in Keys |-> 0] /\ doing = [k \in Keys |-> FALSE]

Begins(k) == ~doing[k] /\ doing'[k] /\ runs[k] < MaxAttempts /\ runs'[k] = runs[k] + 1
\* a command ends, or dies with its process; one that did nothing is not counted, and
\* the entry it leaves may be old enough to go
Ends(k) == doing[k] /\ ~doing'[k] /\ (runs'[k] = runs[k] \/ runs'[k] + 1 = runs[k] \/ runs'[k] = 0)
Cleared(k) == ~doing[k] /\ ~doing'[k] /\ runs'[k] = 0
Same(k) == doing'[k] = doing[k] /\ runs'[k] = runs[k]

Next ==
  /\ runs' \in [Keys -> Nat] /\ doing' \in [Keys -> BOOLEAN]
  /\ \A k \in Keys : Begins(k) \/ Ends(k) \/ Cleared(k) \/ Same(k)

Spec == Init /\ [][Next]_<<runs, doing>>
============================================================================
