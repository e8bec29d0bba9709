----------------------------- MODULE GateState -----------------------------
(***************************************************************************)
(* The state of the stop gates (the steps are GateTurns's), and what the   *)
(* turns, the slot files and the recovery promise of it.                   *)
(***************************************************************************)
EXTENDS Naturals, Sequences, FiniteSets, FiniteSetsExt, Functions

CONSTANTS
  Gates,       \* the gated writer attempts, each in its slot of the workspace
  Cap,         \* gateConcurrency in each one's marker
  MaxMemories, \* bound: module memories, the first and one more for each restart or reload
  MaxStops,    \* bound: stops of one writer
  MaxUpsets    \* bound: reloads and restarts, hooks cut off, calls that throw, start lines that come late,
               \* agents' own gate commands

ASSUME CapAssumption == IsFiniteSet(Gates) /\ Cap \in [Gates -> Nat \ {0}]
ASSUME BoundsAssumption == MaxMemories \in Nat \ {0} /\ {MaxStops, MaxUpsets} \subseteq Nat

VARIABLES
  proc,    \* the process of each module memory; the newest one's is the one that runs
  held,    \* the turns held, by module memory
  queue,   \* the waiters, by module memory
  run,     \* the handlers in runStopGate
  writer,  \* each attempt's agent: where it is, its stops, and whether a start line is on its way
  slots,   \* who holds each slot file
  log,     \* each attempt's gate lines: the newest, the process in its newest start line and the one
           \* that wrote the newest line; and, for the properties, the re-runs and cuts since that start
  recover, \* each memory: whether its recovery ran, and the gates it has yet to look at
  upsets

Memories == 1..MaxMemories
Own == MaxMemories + 1
Runs == Gates \X ({0} \cup 2..MaxMemories)    \* <<g, 0>>: the writer's stop; <<g, m>>: memory m's re-run
                                             \* (the first memory finds no gate of an earlier process)
Commands == Runs \cup (Gates \X {Own})              \* <<g, Own>>: the agent runs a gate command itself
SlotFiles == 0..(Max({Cap[g] : g \in Gates}) - 1)
-----------------------------------------------------------------------------
Holds(m) == {r \in Runs : run[r].mem = m /\ run[r].at \in {"granted", "slot", "running"}}

\* No turn leaks and nobody is stranded: the turns counted are the handlers that have one, the queue has
\* each waiter once, and while somebody waits somebody holds a turn, whose return will admit; although
\* timers, throws, cut handlers and other capacities take waiters and holders out in any order. A
\* command has one slot file at most, one of those its own capacity lets it try.
Counted ==
  /\ \A m \in Memories :
       /\ held[m] = Cardinality(Holds(m))
       /\ IsInjective(queue[m]) /\ Range(queue[m]) = {r \in Runs : run[r].mem = m /\ run[r].at = "queued"}
       /\ queue[m] # <<>> => held[m] > 0
  /\ \A c \in Commands :
       LET its == {i \in SlotFiles : slots[i] = {c}} IN Cardinality(its) <= 1 /\ \A i \in its : i < Cap[c[1]]

Ahead(m, r) == {queue[m][i] : i \in {k \in DOMAIN queue[m] : r \notin Range(SubSeq(queue[m], 1, k))}}

\* FIFO under the capacity: whoever gets a turn leaves nobody queued who asked before it, and finds fewer
\* turns held than its own capacity, those given in the same step before it counted.
InOrder ==
  [][\A r \in Runs, m \in Memories :
       (r \notin Holds(m) /\ r \in Holds(m)') =>
         /\ \A q \in Ahead(m, r) : run'[q].at # "queued"
         /\ Cardinality(Holds(m)' \cap (Holds(m) \cup Ahead(m, r))) < Cap[r[1]]]_run

\* The recovery takes only what a restart cut: it never re-runs or gives up a gate whose agent still
\* works, or whose own stop handler is still in it, after a reload of the plugin either.
LiveLeft ==
  [][\A g \in Gates : log'[g].again > log[g].again =>
       writer[g].at \notin {"working", "stopping"} /\ run[<<g, 0>>].at = "none"]_log
=============================================================================
