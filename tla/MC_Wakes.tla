------------------------------ MODULE MC_Wakes ------------------------------
(* Wakes with two tells of one kind and name, or one, and a task. *)
EXTENDS Wakes, TLC

CONSTANTS stalled1, stalled2, release

MCKeys == {stalled1, stalled2, release}
MCPair == {stalled1, release}
MCTasks == {release}
MCSort == [k \in Keys |-> IF k = release THEN "TASK release" ELSE "TELL stalled"]
MCLimit == [k \in Keys |-> 1]
=============================================================================
