----------------------------- MODULE AgentSteps -----------------------------
(***************************************************************************)
(* An agent step from its spawn to its end: v2/steps.ts, act-between.ts,   *)
(* act.ts, ledger.ts.  The agent records its answer with a script, its     *)
(* turn ends (a gated writer's through the companion's stop gate), and     *)
(* three readers race to end its entry: the hook of its turn's end, the    *)
(* pass's judging of the agent list, and the pass's reading of answers.    *)
(* Each reads, awaits, and applies what it read.  A key is one attempt.    *)
(* Each step takes its save with it; intake readers, and the answer found  *)
(* recorded before a spawn, are left out.                                  *)
(***************************************************************************)
EXTENDS Naturals, Sequences, FiniteSets

CONSTANTS
  Keys,       \* attempts of agent steps
  Gated,      \* the writers with stop-gate commands
  Ungated,    \* the writers without; the other keys are readers
  Races,      \* which of {"late-list"} may happen
  MaxSteps,   \* bound: steps started
  MaxUpsets   \* bound: reloads, restarts and hooks that find the loop off, together

ASSUME KeysAssumption == Gated \cup Ungated \subseteq Keys /\ Gated \cap Ungated = {}
ASSUME BoundsAssumption == MaxSteps \in Nat /\ MaxUpsets \in Nat

VARIABLES
  entry,      \* the ledger's entries, by key
  agent,      \* what each key's agent does
  file,       \* the answer it recorded
  gate,       \* the newest line of its stop gate, in the companion's log
  listed,     \* what the engine's agent list shows of it, maybe late
  hooks,      \* the hook queue: turns that ended
  hook,       \* the hook that runs
  pass,       \* the pass that runs
  seen,       \* completedSeen: first listed with its turn ended, in this pass or before
  repairing,  \* its repair message went out, within REPAIR_GRACE_MS
  hold,       \* gateHeld: its answer waits for a gate line, within gateHoldMs or over it
  repairs,    \* history: repair messages taken
  upsets

between == <<seen, repairing, hold>>
engine == <<agent, file, gate, listed>>
vars == <<entry, agent, file, gate, listed, hooks, hook, pass, seen, repairing, hold, repairs, upsets>>

\* overdue: answered, with no gate line when the hold's bound ran out
Ended == {"answered", "overdue", "unknown", "lost", "failed"}
Entry == [status : Ended \cup {"none", "running"}, id : BOOLEAN, reminded : BOOLEAN]
Verdicts == {"none", "answered", "overdue", "unknown", "repair"}
Views == {"no", "running", "ended", "failed"}

Settling == {"pass", "unknown"}

Idle == [phase |-> "idle"]
Hooks == {Idle} \cup [phase : {"reading", "read", "sending", "taken"}, key : Keys, reason : {"answer", "error"}, verdict : Verdicts]
\* over: the keys whose hold's bound had run out when the pass began
Passes == {Idle}
  \cup [phase : {"listed", "losing", "answers"}, list : [Keys -> Views], over : SUBSET Keys,
        todo : SUBSET Keys, verdict : [Keys -> Verdicts]]
  \cup [phase : {"spawn", "spawned"}, key : Keys]

TypeOK ==
  /\ entry \in [Keys -> Entry]
  /\ agent \in [Keys -> {"none", "working", "gate", "cut", "over", "dead"}]
  /\ file \in [Keys -> {"no", "ok", "not-ok"}]
  /\ gate \in [Keys -> Settling \cup {"no", "fail", "rerun-fail"}]
  /\ listed \in [Keys -> Views]
  /\ hooks \in Seq([key : Keys, reason : {"answer", "error"}]) /\ hook \in Hooks /\ pass \in Passes
  /\ seen \in [Keys -> {"no", "now", "before"}] /\ repairing \in [Keys -> BOOLEAN]
  /\ hold \in [Keys -> {"no", "held", "over"}] /\ \A k \in Keys \ Gated : hold[k] = "no"
  /\ repairs \in [Keys -> Nat] /\ upsets \in Nat

Init ==
  /\ entry = [k \in Keys |-> [status |-> "none", id |-> FALSE, reminded |-> FALSE]]
  /\ agent = [k \in Keys |-> "none"] /\ file = [k \in Keys |-> "no"] /\ gate = [k \in Keys |-> "no"]
  /\ listed = [k \in Keys |-> "no"] /\ hooks = <<>> /\ hook = Idle /\ pass = Idle
  /\ seen = [k \in Keys |-> "no"] /\ repairing = [k \in Keys |-> FALSE] /\ hold = [k \in Keys |-> "no"]
  /\ repairs = [k \in Keys |-> 0] /\ upsets = 0

Runs(k) == entry[k].status = "running"
AtWork(k) == agent[k] \in {"working", "gate"}

----------------------------------------------------------------------------
(* The agent and its engine *)

Does(k, what) == agent' = [agent EXCEPT ![k] = what]
TurnEnds(k, reason) == hooks' = Append(hooks, [key |-> k, reason |-> reason])

\* the answer script: a valid answer replaces the one before
Answer(k) ==
  /\ agent[k] = "working"
  /\ \E a \in {"ok"} \cup (IF k \in Gated \cup Ungated THEN {"not-ok"} ELSE {}) : file' = [file EXCEPT ![k] = a]
  /\ UNCHANGED <<entry, agent, gate, listed, hooks, hook, pass, between, repairs, upsets>>

\* the agent would end its turn: a gated writer meets its stop gate
Stop(k) ==
  /\ agent[k] = "working"
  /\ IF k \in Gated THEN Does(k, "gate") /\ UNCHANGED hooks ELSE Does(k, "over") /\ TurnEnds(k, "answer")
  /\ UNCHANGED <<entry, file, gate, listed, hook, pass, between, repairs, upsets>>

\* runStopGate: a failed gate refuses the stop; one that passes, cannot run or is cut off by the
\* engine lets the turn end, with a line unless the log cannot be written
StopGate(k) ==
  /\ agent[k] = "gate"
  /\ \/ gate' = [gate EXCEPT ![k] = "fail"] /\ Does(k, "working") /\ UNCHANGED hooks
     \/ /\ \E g \in Settling \cup {gate[k]} : gate' = [gate EXCEPT ![k] = g]
        /\ Does(k, "over") /\ TurnEnds(k, "answer")
  /\ UNCHANGED <<entry, file, listed, hook, pass, between, repairs, upsets>>

\* the gate the engine cut off ends after all
LateLine(k) ==
  /\ gate[k] = "unknown" /\ \E g \in {"pass", "fail"} : gate' = [gate EXCEPT ![k] = g]
  /\ UNCHANGED <<entry, agent, file, listed, hooks, hook, pass, between, repairs, upsets>>

\* a turn ends in error, or the loop stopped it
Die(k) ==
  /\ AtWork(k) /\ Does(k, "dead") /\ TurnEnds(k, "error")
  /\ UNCHANGED <<entry, file, gate, listed, hook, pass, between, repairs, upsets>>

Sent(k) == hook # Idle /\ hook.phase \in {"sending", "taken"} /\ hook.key = k

\* the list catches up; an agent whose turn ended leaves it some time, once its messages are answered
Shows(k) ==
  CASE AtWork(k) -> {"running"}
    [] agent[k] = "over" -> {"ended", "no"} \ (IF Sent(k) THEN {"no"} ELSE {})
    [] agent[k] = "dead" -> {"ended", "failed", "no"} \ (IF Sent(k) THEN {"no"} ELSE {})
    [] OTHER -> {"no"}
List(k) ==
  /\ listed[k] # "no" /\ \E v \in Shows(k) \ {listed[k]} : listed' = [listed EXCEPT ![k] = v]
  /\ UNCHANGED <<entry, agent, file, gate, hooks, hook, pass, between, repairs, upsets>>

\* recoverDir: a gate the restart cut runs again, with no agent to refuse, or is given up
Recover(k) ==
  /\ agent[k] = "cut" /\ Does(k, "dead")
  /\ \E g \in Settling \cup {gate[k], "rerun-fail"} : gate' = [gate EXCEPT ![k] = g]
  /\ UNCHANGED <<entry, file, listed, hooks, hook, pass, between, repairs, upsets>>

----------------------------------------------------------------------------
(* Reading an answer *)

Waits(k) == k \in Gated \cup Ungated /\ file[k] = "ok"

\* mutant: an answer is taken as soon as it is recorded
TakeAtOnce(k, atEnd) == [verdict |-> "answered", hold |-> hold[k]]

\* mutant: a hold past its bound waits on
TakeOnLine(k, atEnd) ==
  IF k \notin Gated
  THEN [verdict |-> IF ~atEnd /\ Waits(k) THEN "none" ELSE "answered", hold |-> "no"]
  ELSE IF gate[k] \in Settling \cup {"rerun-fail"}
  THEN [verdict |-> IF gate[k] \in Settling THEN "answered" ELSE "none", hold |-> "no"]
  ELSE [verdict |-> "none", hold |-> "held"]

\* gateRule: when a valid answer is taken, and since when it waits
Take(k, atEnd) ==
  IF k \notin Gated
  THEN [verdict |-> IF ~atEnd /\ Waits(k) THEN "none" ELSE "answered", hold |-> "no"]
  ELSE IF gate[k] \in Settling \cup {"rerun-fail"}
  THEN [verdict |-> IF gate[k] \in Settling THEN "answered" ELSE "none", hold |-> "no"]
  ELSE IF hold[k] = "over" THEN [verdict |-> "overdue", hold |-> "no"]
  ELSE [verdict |-> "none", hold |-> "held"]

\* stepRecorded: the valid answer already recorded, if it is taken now
Recorded(k, atEnd) == IF file[k] = "no" THEN [verdict |-> "none", hold |-> hold[k]] ELSE Take(k, atEnd)

\* stepAnswered: what a turn's end gives
Given(k, reason) ==
  CASE reason = "error" -> [verdict |-> IF file[k] # "no" /\ ~Waits(k) THEN "answered" ELSE "unknown", hold |-> hold[k]]
    [] reason = "answer" /\ file[k] # "no" -> Take(k, TRUE)
    [] OTHER -> [verdict |-> "repair", hold |-> hold[k]]

Ends(k, status) == [entry EXCEPT ![k].status = status]

----------------------------------------------------------------------------
(* The hook of a turn's end: agentAnswered *)

\* answering: a pass takes this agent as at work
Answering(k) == hook # Idle /\ hook.key = k

HookStart ==
  LET h == Head(hooks) IN
  /\ hook = Idle /\ hooks # <<>> /\ hooks' = Tail(hooks)
  /\ IF Runs(h.key) /\ entry[h.key].id
     THEN /\ hook' = [phase |-> "reading", key |-> h.key, reason |-> h.reason, verdict |-> "none"]
          /\ repairing' = [repairing EXCEPT ![h.key] = FALSE]
     ELSE UNCHANGED <<hook, repairing>>
  /\ UNCHANGED <<entry, engine, pass, seen, hold, repairs, upsets>>

\* the file and the gate log are read; a gated writer's answer may be held
HookRead ==
  LET g == Given(hook.key, hook.reason) IN
  /\ hook.phase = "reading"
  /\ hook' = IF g.verdict = "none" THEN Idle ELSE [hook EXCEPT !.phase = "read", !.verdict = g.verdict]
  /\ hold' = [hold EXCEPT ![hook.key] = g.hold]
  /\ UNCHANGED <<entry, engine, hooks, pass, seen, repairing, repairs, upsets>>

\* mutant: the entry does not say it was repaired
MarkedNot(k) == entry

\* the repair is on the entry before it goes out
Marked(k) == [entry EXCEPT ![k].reminded = TRUE]

\* the entry, if it still runs, ends; the first unreadable answer is asked for once more
HookApply ==
  LET k == hook.key IN
  /\ hook.phase = "read"
  /\ IF Runs(k) /\ hook.verdict = "repair" /\ ~entry[k].reminded
     THEN entry' = Marked(k) /\ hook' = [hook EXCEPT !.phase = "sending"]
     ELSE /\ entry' = IF Runs(k) THEN Ends(k, IF hook.verdict = "repair" THEN "unknown" ELSE hook.verdict) ELSE entry
          /\ hook' = Idle
  /\ UNCHANGED <<engine, hooks, pass, between, repairs, upsets>>

\* the engine takes the message to an agent it still lists, which resumes; the list shows it late
Resume ==
  /\ hook.phase = "sending" /\ agent[hook.key] = "over" /\ listed[hook.key] # "no"
  /\ hook' = [hook EXCEPT !.phase = "taken"] /\ Does(hook.key, "working")
  /\ repairs' = [repairs EXCEPT ![hook.key] = @ + 1]
  /\ UNCHANGED <<entry, file, gate, listed, hooks, pass, between, upsets>>

\* repairTo: the send is answered, delivered; the passes wait for the reply
Delivered ==
  /\ hook.phase = "taken" /\ hook' = Idle
  /\ seen' = [seen EXCEPT ![hook.key] = "no"] /\ repairing' = [repairing EXCEPT ![hook.key] = TRUE]
  /\ UNCHANGED <<entry, engine, hooks, pass, hold, repairs, upsets>>

\* it is refused, or not answered in time: the attempt ends with the answer it has
Undelivered ==
  /\ hook.phase \in {"sending", "taken"} /\ hook' = Idle
  /\ entry' = IF Runs(hook.key) THEN Ends(hook.key, "unknown") ELSE entry
  /\ UNCHANGED <<engine, hooks, pass, between, repairs, upsets>>

----------------------------------------------------------------------------
(* The pass: actPass *)

Nothing == [k \in Keys |-> "none"]
Begin(phase, todo) == [pass EXCEPT !.phase = phase, !.todo = todo, !.verdict = Nothing]

\* observe reads the list; a hold is over by this pass's clock or not
PassList ==
  /\ pass = Idle
  /\ pass' = [phase |-> "listed", list |-> listed, over |-> {k \in Keys : hold[k] = "over"}, todo |-> {}, verdict |-> Nothing]
  /\ seen' = [k \in Keys |-> IF seen[k] = "now" THEN "before" ELSE seen[k]]
  /\ UNCHANGED <<entry, engine, hooks, hook, repairing, hold, repairs, upsets>>

\* mutant: the hold's bound is read anew
HoldingNow(k) == hold[k] = "held"

\* holding: its answer waits for its gate line, within the bound by this pass's clock
Holding(k) == hold[k] = "held" \/ (hold[k] = "over" /\ k \notin pass.over)

\* reconcilable: the list as it is judged; a turn's end is believed from the second pass that sees it
Judged(k) ==
  IF Answering(k) \/ Holding(k) THEN "running"
  ELSE IF pass.list[k] = "ended" /\ (repairing[k] \/ seen[k] # "before") THEN "running"
  ELSE pass.list[k]
Seen ==
  [k \in Keys |-> IF pass.list[k] # "ended" THEN "no"
                  ELSE IF seen[k] = "no" /\ ~Answering(k) /\ ~Holding(k) /\ ~repairing[k] THEN "now" ELSE seen[k]]

\* reconcileAgents: what the judged list makes of an entry with an agent
Reconciled(k) ==
  IF ~Runs(k) \/ ~entry[k].id THEN entry[k].status
  ELSE CASE Judged(k) = "failed" -> "failed" [] Judged(k) \in {"no", "ended"} -> "lost" [] OTHER -> "running"

\* answeredBeforeLost begins: the entries the list would mark lost; a list that was not read marks none
PassJudge(ok) ==
  /\ pass.phase = "listed"
  /\ IF ok THEN /\ pass' = Begin("losing", {k \in Keys : Runs(k) /\ Reconciled(k) = "lost"}) /\ seen' = Seen
           ELSE /\ pass' = Begin("answers", {k \in Keys : Runs(k)}) /\ UNCHANGED seen
  /\ UNCHANGED <<entry, engine, hooks, hook, repairing, hold, repairs, upsets>>

\* mutant: an answer read is applied whatever became of its entry
AppliedAll(ks) == [k \in Keys |-> IF k \in ks /\ pass.verdict[k] # "none" THEN [entry[k] EXCEPT !.status = pass.verdict[k]] ELSE entry[k]]

\* finishAsRead: an answer read ends its entry if that still runs
Applied(ks) == [k \in Keys |-> IF k \in ks /\ Runs(k) /\ pass.verdict[k] # "none" THEN [entry[k] EXCEPT !.status = pass.verdict[k]] ELSE entry[k]]

\* an entry's recorded answer is read, with its gate line
PassRead(k) ==
  LET r == Recorded(k, pass.phase = "losing") IN
  /\ pass.phase \in {"losing", "answers"} /\ k \in pass.todo
  /\ pass.phase = "losing" => pass.verdict = Nothing
  /\ pass' = [pass EXCEPT !.todo = @ \ {k}, !.verdict[k] = r.verdict]
  /\ hold' = [hold EXCEPT ![k] = r.hold]
  /\ UNCHANGED <<entry, engine, hooks, hook, seen, repairing, repairs, upsets>>

\* answeredBeforeLost: each answer is applied as it was read
PassKeep(k) ==
  /\ pass.phase = "losing" /\ pass.verdict[k] # "none"
  /\ entry' = Applied({k}) /\ pass' = [pass EXCEPT !.verdict[k] = "none"]
  /\ UNCHANGED <<engine, hooks, hook, between, repairs, upsets>>

\* then an ended entry holds nothing, and what the list, judged again, proves goes on the entries
PassLose ==
  /\ pass.phase = "losing" /\ pass.todo = {} /\ pass.verdict = Nothing
  /\ entry' = [k \in Keys |-> [entry[k] EXCEPT !.status = Reconciled(k)]]
  /\ seen' = Seen /\ hold' = [k \in Keys |-> IF Runs(k) THEN hold[k] ELSE "no"]
  /\ pass' = Begin("answers", {k \in Keys : Runs(k)'})
  /\ UNCHANGED <<engine, hooks, hook, repairing, repairs, upsets>>

\* stepAnswers: every answer is read before the first is applied; then plan starts a step, or none
PassAnswers(next) ==
  /\ pass.phase = "answers" /\ pass.todo = {}
  /\ entry' = [k \in Keys |-> IF k \in next THEN [entry[k] EXCEPT !.status = "running"] ELSE Applied(Keys)[k]]
  /\ \/ next = {} /\ pass' = Idle
     \/ /\ Cardinality({k \in Keys : entry[k].status # "none"}) < MaxSteps
        /\ \E k \in next : next = {k} /\ entry[k].status = "none" /\ pass' = [phase |-> "spawn", key |-> k]
  /\ UNCHANGED <<engine, hooks, hook, between, repairs, upsets>>

\* stepExecutor: the engine starts the agent, or refuses; an attempt it skips is undone
Spawn ==
  LET k == pass.key IN
  /\ pass.phase = "spawn"
  /\ \/ /\ Does(k, "working") /\ listed' = [listed EXCEPT ![k] = "running"]
        /\ pass' = [pass EXCEPT !.phase = "spawned"] /\ UNCHANGED entry
     \/ \E s \in {"failed", "none"} : entry' = Ends(k, s) /\ pass' = Idle /\ UNCHANGED <<agent, listed>>
  /\ UNCHANGED <<file, gate, hooks, hook, between, repairs, upsets>>

\* its agent's id goes on the entry
Spawned ==
  /\ pass.phase = "spawned" /\ pass' = Idle
  /\ entry' = [entry EXCEPT ![pass.key].id = TRUE]
  /\ UNCHANGED <<engine, hooks, hook, between, repairs, upsets>>

----------------------------------------------------------------------------
(* Time, reloads and restarts *)

\* gateHoldMs runs out
HoldOver(k) ==
  /\ hold[k] = "held" /\ hold' = [hold EXCEPT ![k] = "over"]
  /\ UNCHANGED <<entry, engine, hooks, hook, pass, seen, repairing, repairs, upsets>>

\* what the loop may still read of the list shows a resumed agent
Caught(k) ==
  /\ AtWork(k) => listed[k] = "running"
  /\ AtWork(k) /\ pass.phase \in {"listed", "losing"} => pass.list[k] = "running"

\* REPAIR_GRACE_MS runs out: the list is not that late
RepairOver(k) ==
  /\ repairing[k] /\ Caught(k) /\ repairing' = [repairing EXCEPT ![k] = FALSE]
  /\ UNCHANGED <<entry, engine, hooks, hook, pass, seen, hold, repairs, upsets>>

Upset == upsets < MaxUpsets /\ upsets' = upsets + 1

\* ledgerFor: the kill switch is set, the mode changed, or the ledger cannot be loaded
HookOff ==
  /\ hook = Idle /\ hooks # <<>> /\ Upset /\ hooks' = Tail(hooks)
  /\ UNCHANGED <<entry, engine, hook, pass, between, repairs>>

\* onLoad: the module's memory goes, and a step whose agent has no id yet is lost
Loaded ==
  /\ Upset
  /\ hooks' = <<>> /\ hook' = Idle /\ pass' = Idle
  /\ seen' = [k \in Keys |-> "no"] /\ repairing' = [k \in Keys |-> FALSE] /\ hold' = [k \in Keys |-> "no"]
  /\ entry' = [k \in Keys |-> IF Runs(k) /\ ~entry[k].id THEN [entry[k] EXCEPT !.status = "lost"] ELSE entry[k]]
  /\ UNCHANGED <<file, repairs>>

\* the race: a resumed agent is still listed with its turn ended when the module loads
Late == \E k \in Keys : AtWork(k) /\ listed[k] # "running"

Reload ==
  /\ Loaded /\ (Late => "late-list" \in Races)
  /\ UNCHANGED <<agent, gate, listed>>

\* the session goes with its agents; a gate it cut is left to the companion
Restart ==
  /\ Loaded
  /\ agent' = [k \in Keys |-> IF agent[k] \in {"gate", "cut"} THEN "cut" ELSE IF agent[k] = "none" THEN "none" ELSE "dead"]
  /\ listed' = [k \in Keys |-> "no"]
  /\ UNCHANGED gate

Pass ==
  \/ PassList \/ PassLose \/ Spawn \/ Spawned
  \/ \E ok \in BOOLEAN : PassJudge(ok)
  \/ \E k \in Keys : PassRead(k) \/ PassKeep(k)
  \/ \E next \in SUBSET Keys : PassAnswers(next)
Hook == HookStart \/ HookRead \/ HookApply \/ Delivered \/ Undelivered
Engine == Resume \/ \E k \in Keys : Answer(k) \/ Stop(k) \/ StopGate(k) \/ LateLine(k) \/ Die(k) \/ List(k) \/ Recover(k)
Time == \E k \in Keys : HoldOver(k) \/ RepairOver(k)

Next == Pass \/ Hook \/ Engine \/ Time \/ HookOff \/ Reload \/ Restart

\* passes come again and read the list, hooks run, sends are answered, the list catches up and
\* time passes; that an agent ever stops or records anything is not assumed
Fairness ==
  /\ WF_vars(Pass) /\ SF_vars(PassJudge(TRUE)) /\ WF_vars(Hook)
  /\ \A k \in Keys : WF_vars(List(k)) /\ WF_vars(HoldOver(k)) /\ WF_vars(RepairOver(k))

Spec == Init /\ [][Next]_vars
FairSpec == Spec /\ Fairness

----------------------------------------------------------------------------
(* Properties *)

\* A gated writer's step taken on its gate line has left its agent at work no more, whichever
\* reader took it; one repaired after its gate had passed is taken on that gate's line.
GateFirst == \A k \in Gated : entry[k].status = "answered" /\ ~entry[k].reminded => ~AtWork(k)

\* A gated attempt is not taken while its stop gate still runs, or is about to, repaired or not.
GateSettled == \A k \in Gated : entry[k].status = "answered" => ~AtWork(k)

\* An agent list, read when the pass began and judged after hooks, repairs and reads, makes an
\* entry lost or failed only when its agent is gone, and lost only with no answer left to take.
LostOver ==
  [][\A k \in Keys : Runs(k) /\ entry[k].id =>
       /\ entry'[k].status \in {"lost", "failed"} => ~AtWork(k)
       /\ entry'[k].status = "lost" => file[k] = "no" \/ (k \in Gated /\ gate[k] = "rerun-fail")]_vars

\* One repair message per attempt, whatever is reloaded, dropped or answered late.
OneRepair == \A k \in Keys : repairs[k] <= 1

\* An attempt that ended stays as it ended: of the three readers, the later ones change nothing.
EndsOnce == [][\A k \in Keys : entry[k].status \in Ended => entry'[k] = entry[k]]_vars

\* A running step whose agent's turn is over ends, unless its repair message sets the agent to
\* work again: an unheard turn end or a gate that says nothing holds it for a while only.
StepEnds == \A k \in Keys : Runs(k) /\ agent[k] \in {"over", "dead"} ~> ~Runs(k) \/ AtWork(k)
=============================================================================
