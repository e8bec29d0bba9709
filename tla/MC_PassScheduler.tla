-------------------------- MODULE MC_PassScheduler --------------------------
(* PassScheduler with two tasks in flight, and a storm within a few ticks. *)
EXTENDS PassScheduler, TLC

CONSTANTS t1, t2

MCTasks == {t1, t2}
============================================================================
