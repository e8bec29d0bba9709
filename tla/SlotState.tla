----------------------------- MODULE SlotState ------------------------------
(***************************************************************************)
(* The state of the pool and of the lives that work in it (the steps are   *)
(* Slots's), and what the leases promise of it.                            *)
(***************************************************************************)
EXTENDS Naturals

CONSTANTS
  NLives,      \* bound: the lives, in the order of their claims, which is that of their issues
  NSlots,      \* the slots of the pool, in the order of their paths
  Cap,         \* the effective cap
  Reserve,     \* worktreeReserve
  LeaseIds,    \* the ids of leases
  MaxSteps,    \* bound: further attempts of a life, but those that a lost slot costs
  MaxOutside   \* bound: faults, reloads, and acts of people and the owner

ASSUME SizesAssumption == {NLives, NSlots, Cap, Reserve, MaxSteps, MaxOutside} \subseteq Nat
ASSUME LeaseIdsAssumption == LeaseIds \subseteq Nat \ {0}

VARIABLES
  slot,     \* the pool, what lies in each slot's tree and git dir, and its lease's free attempts
  rec,      \* each life's record, and what the owner or the clock asks of it
  entry,    \* the ledger's entries of each life: its lease, and its seq's stop, prepare and step
  agents,   \* the agents at work that the ledger names; cur: of the record's seq; unstopped: a stop of it failed; loose: its
            \* slot was returned by hand
  unseen,   \* spawns whose answer never came: works, once the engine did start the agent; no entry
            \* names it, so nothing waits for it or stops it
  todo,     \* the actions left of the pass's plan
  op,       \* the awaited call: the slot tool's run, or an agent's spawn
  late,     \* the lives for which a treehouse get goes on though its tool is dead
  outside,  \* how many outside happenings there were
  hist      \* history: lost, work not saved of an agent the ledger names was reset; taken, whose prepared slot was returned by hand;
            \* wrong, an attempt was ended for a slot that was not
-----------------------------------------------------------------------------
\* The loop's agents work only in the slot their life still holds on the lease it was prepared on, and
\* one to a slot, whatever leases are lost, taken twice, freed, or answered late (W1, W2, leaseOf, the
\* prepare's compare, the marker). The next attempt of the same life may start beside an agent that
\* could not be stopped, as stopping is best effort; an agent whose slot a person returned is left out,
\* and so is one whose spawn's answer never came (unseen), which keeps its slot whoever has it next.
Alone ==
  \A a \in agents : ~a.loose =>
    /\ slot[a.slot].holder = a.life /\ slot[a.slot].id = a.id
    /\ \A b \in agents : b.slot = a.slot /\ ~b.loose => b = a \/ a.unstopped \/ b.unstopped

\* No reset of a slot's tree loses work: what its agent wrote was saved before, though saving and
\* resetting are two steps and any call may fail or be cut off in between (clear, W2's wait). An agent
\* that could not be stopped may lose what it writes while the next attempt's prepare runs, but not to a free;
\* what an agent writes that no entry names (unseen) may be lost to either.
WorkSaved == ~hist.lost

\* A prepared or running attempt is ended for its slot only when somebody took that slot away: no
\* second lease, late answer or failed free makes the loop take its own slot for lost (slotLost, leaseOf).
SlotKept == ~hist.wrong
=============================================================================
