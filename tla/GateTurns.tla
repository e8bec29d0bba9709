------------------------------ MODULE GateTurns ------------------------------
(***************************************************************************)
(* The stop gates of the writers: the FIFO turns of one module memory, the *)
(* container's slot files, the lines of companion.jsonl and the recovery   *)
(* of gates a restart cut. A run is a handler in runStopGate: a writer's   *)
(* stop, or a recovery's re-run.                                           *)
(*                                                                         *)
(* Left out: a marker without gateConcurrency (no turn, no slot), a second *)
(* gate command (it takes its slot anew), the 24 h window of the log, a    *)
(* /proc/self/stat that does not read, and the agents before their first   *)
(* gate command or stop.                                                   *)
(***************************************************************************)
EXTENDS GateState, SequencesExt

vars == <<proc, held, queue, run, writer, slots, log, recover, upsets>>

Waiting == {"gate-start", "gate-wait"}
Causes == Waiting \cup {"settled", "gate-rerun", "gate-cut"}  \* settled: gate-pass, gate-fail or gate-unknown
Free == {}                                   \* a slot file nobody locks

None == [at |-> "none", mem |-> 1, behind |-> FALSE, cut |-> FALSE]

Upset == upsets < MaxUpsets /\ upsets' = upsets + 1

Now == Len(proc)
Process == proc[Now]
Live(m) == m \in DOMAIN proc /\ proc[m] = Process

TypeOK ==
  /\ proc \in SeqOf(Memories, MaxMemories) /\ proc # <<>>
  /\ held \in [Memories -> 0..Cardinality(Runs)]
  /\ \A m \in Memories : queue[m] \in Seq(Runs)
  /\ run \in [Runs -> [at : {"none", "queued", "granted", "slot", "running"}, mem : Memories,
                       behind : BOOLEAN, cut : BOOLEAN]]
  /\ writer \in [Gates -> [at : {"working", "stopping", "ended", "dead"}, stops : 0..MaxStops,
                           starting : BOOLEAN]]
  /\ slots \in [SlotFiles -> {Free} \cup {{c} : c \in Commands}]
  /\ log \in [Gates -> [last : Causes \cup {"none"}, start : 0..MaxMemories, wrote : 0..MaxMemories, again : Nat]]
  /\ recover \in [Memories -> [ran : BOOLEAN, todo : SUBSET Gates]]
  /\ upsets \in 0..MaxUpsets

-----------------------------------------------------------------------------
(* The turns (createTurns): each operator gives held, queue and run anew. *)

\* how many of the queue's head may enter, h turns held: each while it fits under its own capacity
Admitted(h, q) == Max({k \in 0..Len(q) : \A i \in 1..k : h + i - 1 < Cap[q[i][1]]})

Admit(m, h, rs) ==
  LET k == Admitted(h, queue[m]) IN
  /\ held' = [held EXCEPT ![m] = h + k]
  /\ queue' = [queue EXCEPT ![m] = SubSeq(@, k + 1, Len(@))]
  /\ run' = [r \in Runs |-> IF \E i \in 1..k : queue[m][i] = r THEN [rs[r] EXCEPT !.at = "granted"] ELSE rs[r]]

\* a turn given back; the handler is over
Release(r) == Admit(run[r].mem, held[run[r].mem] - 1, [run EXCEPT ![r] = None])

\* whether one that asks enters at once
\* mutant: it enters past those that wait
EntersPast(r, m) == held[m] < Cap[r[1]]

Enters(r, m) == queue[m] = <<>> /\ held[m] < Cap[r[1]]

Ask(r, m) ==
  /\ run[r] = None
  /\ \/ /\ Enters(r, m)
        /\ held' = [held EXCEPT ![m] = @ + 1]
        /\ run' = [run EXCEPT ![r] = [None EXCEPT !.at = "granted", !.mem = m]]
        /\ UNCHANGED queue
     \/ /\ ~Enters(r, m)
        /\ queue' = [queue EXCEPT ![m] = Append(@, r)]
        /\ run' = [run EXCEPT ![r] = [None EXCEPT !.at = "queued", !.mem = m, !.behind = TRUE]]
        /\ UNCHANGED held

-----------------------------------------------------------------------------
(* One gate run (runStopGate). *)

Line(g, cause) ==
  log' = [log EXCEPT ![g].last = cause, ![g].wrote = Process,
                     ![g].again = @ + (IF cause \in {"gate-rerun", "gate-cut"} THEN 1 ELSE 0)]

\* what a stop's end means for its agent, unless the engine cut the handler off: refused, or done
Answers(r, refused) ==
  writer' = IF r[2] = 0 /\ ~run[r].cut THEN [writer EXCEPT ![r[1]].at = IF refused THEN "working" ELSE "ended"]
                                       ELSE writer

\* the wait for a turn ran past its cap, or the clock's read after it throws: unknown, never a pass; one
\* already granted keeps its turn
\* mutant: the timer does not look whether the waiter is still queued
MayLeaveAny(r) == run[r].at \in {"queued", "granted"} /\ run[r].behind

MayLeave(r) == run[r].at = "queued"

WaitedOut(r) ==
  /\ MayLeave(r)
  /\ queue' = [queue EXCEPT ![run[r].mem] = RemoveFirst(@, r)]
  /\ run' = [run EXCEPT ![r] = None]
  /\ Line(r[1], "settled")
  /\ Answers(r, FALSE)
  /\ UNCHANGED <<proc, held, slots, recover, upsets>>

\* the turn is there: a handler cut off meanwhile gives it back and writes nothing
TurnCut(r) ==
  /\ run[r].at = "granted" /\ run[r].cut
  /\ Release(r)
  /\ UNCHANGED <<proc, writer, slots, log, recover, upsets>>

TurnTaken(r) ==
  /\ run[r].at = "granted" /\ ~run[r].cut
  /\ run' = [run EXCEPT ![r].at = "slot"]
  /\ IF run[r].behind THEN Line(r[1], "gate-wait") ELSE UNCHANGED log
  /\ UNCHANGED <<proc, held, queue, writer, slots, recover, upsets>>

\* the lowest slot file that c may lock and nobody holds
\* mutant: all of the container's slot files are tried, whatever the capacity in the marker
LowestAny(c, i) == slots[i] = Free /\ \A j \in SlotFiles : j < i => slots[j] # Free

Lowest(c, i) ==
  /\ slots[i] = Free /\ i < Cap[c[1]]
  /\ \A j \in SlotFiles : j < i => slots[j] # Free
NoSlot(c) == \A i \in SlotFiles : i < Cap[c[1]] => slots[i] # Free

TakeSlot(r) ==
  /\ run[r].at = "slot"
  /\ \E i \in SlotFiles : Lowest(r, i) /\ slots' = [slots EXCEPT ![i] = {r}]
  /\ run' = [run EXCEPT ![r].at = "running"]
  /\ UNCHANGED <<proc, held, queue, writer, log, recover, upsets>>

Unlocked(c) == [i \in SlotFiles |-> IF slots[i] = {c} THEN Free ELSE slots[i]]

\* the gate settles and its turn goes back: busy slot files past the cap, or the command's end
Settle(r, refused) ==
  /\ \/ run[r].at = "slot" /\ NoSlot(r) /\ ~refused
     \/ run[r].at = "running"
  /\ slots' = Unlocked(r)
  /\ Line(r[1], "settled")
  /\ Answers(r, refused)
  /\ Release(r)
  /\ UNCHANGED <<proc, recover, upsets>>

\* a call that throws with the turn held (the clock's read after a wait, a line's append): the turn goes
\* back, and the catch of the hook, or of the recovery, records the gate as unknown
Throws(r) ==
  /\ (run[r].at = "granted" /\ run[r].behind) \/ run[r].at = "slot"
  /\ Release(r)
  /\ Line(r[1], "settled")
  /\ Answers(r, FALSE)
  /\ Upset
  /\ UNCHANGED <<proc, slots, recover>>

-----------------------------------------------------------------------------
(* The writers and their stop hook. *)

\* an agent runs a gate command itself; with no slot free in time its call is refused
OwnCommand(g) ==
  /\ writer[g].at = "working"
  /\ \A i \in SlotFiles : slots[i] # {<<g, Own>>}
  /\ \E i \in SlotFiles : Lowest(<<g, Own>>, i) /\ slots' = [slots EXCEPT ![i] = {<<g, Own>>}]
  /\ Upset
  /\ UNCHANGED <<proc, held, queue, run, writer, log, recover>>

\* the end of an agent's own command, or of one whose process died without it
OtherEnds(c) ==
  /\ c[2] # Own => run[c].at # "running"
  /\ \E i \in SlotFiles : slots[i] = {c}
  /\ slots' = Unlocked(c)
  /\ UNCHANGED <<proc, held, queue, run, writer, log, recover, upsets>>

\* the hook begins its start line and asks for its turn without waiting for it
Started(g) == log' = [log EXCEPT ![g] = [last |-> "gate-start", start |-> Process, wrote |-> Process, again |-> 0]]

Stop(g) ==
  /\ writer[g].at = "working" /\ ~writer[g].starting /\ writer[g].stops < MaxStops
  /\ \A i \in SlotFiles : slots[i] # {<<g, Own>>}
  /\ \E late \in BOOLEAN :
       /\ writer' = [writer EXCEPT ![g] = [at |-> "stopping", stops |-> @.stops + 1, starting |-> late]]
       /\ IF late THEN Upset /\ UNCHANGED log ELSE Started(g) /\ UNCHANGED upsets
  /\ Ask(<<g, 0>>, Now)
  /\ UNCHANGED <<proc, slots, recover>>

StartLine(g) ==
  /\ writer[g].starting
  /\ writer' = [writer EXCEPT ![g].starting = FALSE]
  /\ Started(g)
  /\ UNCHANGED <<proc, held, queue, run, slots, recover, upsets>>

\* the engine's bound ends the hook: its catch lets the agent finish, the handler itself goes on
CutOff(g) ==
  /\ run[<<g, 0>>] # None /\ ~run[<<g, 0>>].cut
  /\ run' = [run EXCEPT ![<<g, 0>>].cut = TRUE]
  /\ Line(g, "settled")
  /\ writer' = [writer EXCEPT ![g].at = "ended"]
  /\ Upset
  /\ UNCHANGED <<proc, held, queue, slots, recover>>

-----------------------------------------------------------------------------
(* A restart ends the process; a reload renews the module's memory in it. *)

Reload ==
  /\ Now < MaxMemories
  /\ proc' = Append(proc, Process)
  /\ Upset
  /\ UNCHANGED <<held, queue, run, writer, slots, log, recover>>

\* a command may outlive its process, and hold its slot file till it ends
Restart ==
  /\ Now < MaxMemories
  /\ proc' = Append(proc, Process + 1)
  /\ \E over \in SUBSET SlotFiles : slots' = [i \in SlotFiles |-> IF i \in over THEN slots[i] ELSE Free]
  /\ run' = [r \in Runs |-> None]
  /\ queue' = [m \in Memories |-> <<>>] /\ held' = [m \in Memories |-> 0]
  /\ writer' = [g \in Gates |-> [writer[g] EXCEPT !.starting = FALSE,
                                     !.at = IF @ = "stopping" \/ (@ = "working" /\ writer[g].stops > 0) THEN "dead" ELSE @]]
  /\ recover' = [m \in Memories |-> [recover[m] EXCEPT !.todo = {}]]
  /\ Upset
  /\ UNCHANGED log

-----------------------------------------------------------------------------
(* The recovery (recover.ts, recoverGates). *)

Open(g) == log[g].last \in Waiting
\* whether the process that began the gate is gone; without a start line, by when its line was written
\* mutant: an open gate is taken for cut
DeadAny(g) == TRUE

Dead(g) == IF log[g].start # 0 THEN log[g].start # Process ELSE log[g].wrote < Process

\* the beat's recovery runs once in a memory, by the session that holds the loop dir's act lock
\* mutant: a beat without the lease counts as the one recovery
RanAny(lease) == TRUE

Ran(lease) == lease

Beat(lease) ==
  /\ ~recover[Now].ran
  /\ recover' = [recover EXCEPT ![Now] = [ran |-> Ran(lease), todo |-> IF lease THEN {g \in Gates : Open(g)} ELSE {}]]
  /\ UNCHANGED <<proc, held, queue, run, writer, slots, log, upsets>>

\* the list is read once; its gates are looked at one after another, a re-run awaited before the next;
\* the slot's marker names the attempt, or the loop has given the slot to another (external)
LookAt(m, g) ==
  /\ Live(m) /\ g \in recover[m].todo /\ \A r \in Runs : r[2] = m => run[r] = None
  /\ recover' = [recover EXCEPT ![m].todo = @ \ {g}]
  /\ \/ ~Dead(g) /\ UNCHANGED <<held, queue, run, log>>
     \/ Dead(g) /\ Line(g, "gate-cut") /\ UNCHANGED <<held, queue, run>>
     \/ Dead(g) /\ log[g].start # 0 /\ Line(g, "gate-rerun") /\ Ask(<<g, m>>, m)
  /\ UNCHANGED <<proc, writer, slots, upsets>>

-----------------------------------------------------------------------------
Init ==
  /\ proc = <<1>>
  /\ held = [m \in Memories |-> 0] /\ queue = [m \in Memories |-> <<>>]
  /\ run = [r \in Runs |-> None]
  /\ writer = [g \in Gates |-> [at |-> "working", stops |-> 0, starting |-> FALSE]]
  /\ slots = [i \in SlotFiles |-> Free]
  /\ log = [g \in Gates |-> [last |-> "none", start |-> 0, wrote |-> 0, again |-> 0]]
  /\ recover = [m \in Memories |-> [ran |-> FALSE, todo |-> {}]]
  /\ upsets = 0

\* a handler past its wait goes on
GoesOn(r) ==
  \/ TurnCut(r) \/ TurnTaken(r) \/ TakeSlot(r) \/ Throws(r)
  \/ \E refused \in BOOLEAN : Settle(r, refused)

Next ==
  \/ \E r \in Runs : WaitedOut(r) \/ GoesOn(r)
  \/ \E g \in Gates : OwnCommand(g) \/ Stop(g) \/ StartLine(g) \/ CutOff(g)
  \/ \E c \in Commands : OtherEnds(c)
  \/ Reload \/ Restart
  \/ \E lease \in BOOLEAN : Beat(lease)
  \/ \E m \in Memories, g \in Gates : LookAt(m, g)

Spec == Init /\ [][Next]_vars

\* The host calls and the commands end (each has a timeout), the beat comes every minute, and at some beat
\* this session holds the lease. The cap's timer is owed nothing: no waiter depends on it.
Fairness ==
  /\ WF_vars(\E r \in Runs : GoesOn(r))
  /\ WF_vars(Beat(TRUE))
  /\ WF_vars(\E m \in Memories, g \in Gates : LookAt(m, g))

FairSpec == Spec /\ Fairness

-----------------------------------------------------------------------------
(* Properties. *)

\* A gate that began is decided (the stops and upsets are bounded, so: in the end all are): every handler
\* gets its turn and its slot from those before it, or learns that it does not, with no help of the cap's
\* timer; and no gate a restart cut is left with neither a re-run nor a gate-cut line.
Decided == <>[](/\ \A r \in Runs : run[r] = None
               /\ \A g \in Gates : ~(Open(g) /\ Dead(g)))

\* SPEC 10.6 of the recovery: "A candidate gets at most one `gate-rerun` or `gate-cut`, across beats and
\* restarts." Here with restarts alone, no reload.
OneRecovery == (\A m \in DOMAIN proc : proc[m] = m) => \A g \in Gates : log[g].again <= 1
=============================================================================
