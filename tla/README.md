# The factory loop in TLA+

This directory is a verification project for the factory loop of `cbundy/dev-system`: the
Claude Code plugin (`src/plugins/factory-loop/`) that turns GitHub issues into merged pull
requests by itself. The loop wakes on timers and events, reads GitHub and the local files,
plans a list of actions with pure rules, and executes them, keeping a ledger of what it did.
The models are written from the TypeScript of `src/plugins/factory-loop/hooks/`, of the
workspace's companion plugin (`src/plugins/factory-loop-workspace/hooks/`) and of the
claim and merge commands in `src/images/base/`, read with their tests.

Paths below are relative to `src/plugins/factory-loop/hooks/` unless they say otherwise.

## 1. The system

| Part | State it keeps | Operations | Interacts with |
| --- | --- | --- | --- |
| **Act lock** (`rails.ts`, `driver-io.ts`, `driver-pass.ts`) | a lease in `act.lock` | acquire, renew, release: read, compare-and-set under flock, read back | every session of the device; the pass asks before every action |
| **Ledger store** (`driver-store.ts`) | `live` (ledger in memory, loaded, basis), the store's copy | load, save, reload after a takeover | the act lock says who may write |
| **Pass scheduler** (`rails.ts` 460-552, `driver-pass.ts` 40-110) | running, queued request, last start, wait timer, ping breaker | request, next, wait over, pass ended | engine events, the timer, the pass |
| **Ledger** (`ledger.ts`, `act.ts`, `act-off.ts`) | entries: key, status, attempts, ids | start, finish, undo, load (lost), prune, off-pass completion and expiry | executors, the pass, a reload |
| **Wakes** (`wake.ts`) | the open wake, prompts and turns of the session | submit, answer, remind, lose, time out | the session's turns, the ledger |
| **Agent steps** (`act.ts`, `act-between.ts`, `ledger.ts`, `v2/steps-gate.ts`) | attempts of agents, answer files | spawn, judge the list, repair, take an answer | the engine's agents, stop gates |
| **Issue records and table** (`v2/table.ts`, `v2/act-state.ts`, `v2/rules-state.ts`, `v2/rules-entry.ts`) | one record per issue: state, step, attempts, caps | the transition rows, entry actions | GitHub, agents, the merge queue |
| **Claims** (`src/images/base/`: `fabriek-claim`, `fabriek-sweep`, `claim-events.sh`) | claim comments with a lease, the ready label, claim events | claim, renew, requeue, release, sweep | every device of the repository, through GitHub |
| **Merge queue** (`v2/rules-queue.ts`, `v2/act-queue.ts`, `v2/rules-train.ts`, `v2/act-train.ts`, `fabriek-merge`, `fabriek-merge-guard`) | the order of the queue, merge tries, the live train | update, CI re-run, guard, merge, read back, train | GitHub's PRs, branch protection and CI, other people |
| **Gate turns** (workspace plugin's `turns.ts`, `gate.ts`, `slots.ts`, `recover.ts`) | a FIFO of turns, flock slot files, the gate lines of a log | take a turn, take a slot, run, settle, recover | every session's writers, restarts |
| **Slots** (`bin/factory-slot`, `v2/rules-slots.ts`, `v2/rules-agent.ts`, `v2/act-slots.ts`) | the pool's worktree slots, a lease with its holder's name on each, the step marker in a slot's git dir | lease, prepare, free | records, agents, people who use the pool |
| **Planner** (`plan.ts`, `v2/rules-*.ts`) | none (pure) | rules in a fixed order, admission | everything it reads |
| **Intake, holds, wind-down, reports** | see section 6 | | |
| **Images, CLIs, terraform, docs** | log files, pid files | provisioning, event push, rendering | - |

What makes it hard:

* Several sessions on one device and several devices on one repository; every read and write is
  an await that another session, device, person or hook can interleave.
* The process restarts at any point (a crash, a reload, `restart-self`), losing its memory and
  keeping the store, the lock, the agents' files and GitHub.
* Hooks (agent turns, wake answers, tool calls) change the ledger between the pass's own steps.
* Commands time out, fail after they took effect, or answer after the attempt they belonged to
  was given up and retried.
* Every plan is made on a read that may be stale by the time it is carried out.
* Capacities (one pass, one open wake, one gate at a time, a few tries) that must be given back on every path.

### What makes each part correct

| Part | Properties |
| --- | --- |
| Act lock, store | two sessions never take a step at once; a session that acts has every saved entry; no session's save drops another's entry |
| Pass scheduler | passes do not overlap, ping storms are bounded, what is queued waits no longer than the gap and then starts |
| Ledger | of one key one command at a time and at most its attempts; an entry ends by its own attempt's result; no entry runs for ever |
| Wakes | one open at a time; each ends by its own turn or answer (or, misled, by one of its kind and name); the session sees it once; a wake nobody takes ends |
| Agent steps | a gated writer's answer waits for its gate; a list read earlier loses no agent at work and no answer; three readers end an attempt once; a step whose agent is over ends |
| Issue records | no event fits two rows; a life winds down; a row is applied only on what happened; the label follows; one agent at a time that the ledger names; every record comes to rest |
| Claims | one device holds an issue; contenders do not all lose; no issue stays claimed for ever |
| Merge queue | what is merged is a version that was approved, on a tree that CI passed; the loop's own merge is told from one by hand; the head never blocks the queue |
| Slots | agents that the ledger names work alone, in the slot their life holds; no reset loses their work; an attempt is not ended for a slot that is its own; every slot comes back; a queued issue is served |
| Gate turns | no turn leaks and nobody is stranded; first come first served under the capacity; the recovery leaves live agents alone; every gate is decided |

## 2. The modules

Variables carry the code's names where TLA+ allows it. An await is a step boundary: what the code
does between two awaits is one action. `PROJECT.json` maps each definition to its lines.

**ActLock** - the lease of `act.lock` and the ledger in the shared store. `op` holds the lock
operations in flight (`holdActLock`, `releaseActLock`), each a read
(`OpRead`), a compare-and-set under flock (`OpWrite`) and a read back (`OpBack`); `live`, `loading` and `save` are the module memory,
`loadLedger` and `persist` of `driver-store.ts`; `pass` says where the session's pass is, from the
rails through load, renewal and the step. Crashes, resumed sessions, `session.end` and the clock are
actions. `Races` names five races the code leaves open; each configuration says which it admits, and
`raced` keeps those that took place: a property that one of them breaks is asked up to then.

**PassScheduler** - `Scheduler` of `rails.ts` field by field, the requests and steps in flight with
the clock each read before its await (`task`), the timers, and the passes that run (`bodies`).

**Ledger** and **Retries** - an attempt at a command: `Plan`, `Start` (memory, save), `Launch` or
`Refused`, the executor's end (`Record`), off-pass completions (`OffEnds`), the time-out by a later
pass, `Reload`, saves that fail, the owner's retry. `ran` and `begun` are history. `Retries` is the
abstract promise to the world: one command of a key at a time, at most `MaxAttempts` before the
count is cleared; `Ledger` implements it with `runs <- ran` and `doing <- Doing`.

**Wakes** - the pass's submit with its grace (`exec`), the engine's prompt queue, the main loop's
turn, the hook queue (`turn.start`, `turn.complete`, drops), the answer tool, reminders, time-outs,
reloads (the engine keeps the prompts) and restarts (it loses them).

**AgentSteps** - an agent's attempt from spawn to end: the answer file, the companion's stop gate
(`Stop`, `StopGate`, `LateLine`, `Recover`), the engine's list (`listed`, late), the hook of the
turn's end (`HookStart`, `HookRead`, `HookApply`, the repair message `Resume`/`Delivered`/
`Undelivered`), and the pass (`PassList`, `PassJudge`, `PassRead`, `PassKeep`, `PassLose`,
`PassAnswers`, `Spawn`, `Spawned`). `seen`, `repairing` and `hold` are `Between` of `act.ts`.
`Take` is `gateRule`, `Judged`/`Seen` are `reconcilable`, `Reconciled` is `reconcileAgents`.

**IssueTable** and **Records** - the transition table as pure operators: which row an event
matches in a record (`Hits`, every row of `table.ts` and `table-fix.ts` with its guard) and the record it makes
(`NextRecord`). Records runs it: a pass reads the facts and plans (`Plan`: entry actions first,
then the early events in their order, then the step's own), the executors carry the plan out one by one (`ExecLog`,
`ExecStop`, `ExecLabel`, `ExecStart` with its awaited answer `Started`, `CheckMove`, `WriteMove`), and between any two of them the agent
ends, a spawn fails or is given up (`unseen`: its agent may work though no entry names it), the owner drops, resumes or retries, GitHub's PR or issue changes, a call fails, the module reloads.
`hist` is history.

**Claims** - one issue on GitHub and several devices. `cmd` is each device's `fabriek-claim` and
`sweep` its `fabriek-sweep`, one action per GitHub call (`keep`, `delete`, `post`, `reread`, `judge`,
`withdraw`, `labels`, `event`, `renew`, `requeue`); the log of claim events is each device's own
until pushed. `Races` names what the code does not rule out: `late` (acting on a
claim with less lease left than the act may take), `slip` (a claim between a sweep's label and its event), `unlogged` (a
claim cut off between the label and its event).

**MergeQueue** - the head's step (`HeadSays`, `OpenSays`, `CiSays`, in the order of `headStep`), the
actions that run in the pass (`Update`, `Rerun`, `Build`), and the merge off the pass (`PlanMerge`,
`GuardEnds`, `Merge`, `Cut`, `Readback`, `Lose`). A commit's content is the set of changes in it; merging is union
unless GitHub calls it dirty, so "CI passed this tree" is membership of `tested`. GitHub's PR (`pr`)
and what was last read of it (`view`) are two variables; main and `mainSeen` too. `trains` chooses
the setting, which also decides whether branch protection is strict.

**GateState** and **GateTurns** - the state of the stop gates with what is promised of it, and its steps: the FIFO turns (`createTurns`: one module memory's `held` and `queue`), the slot files
of the container (`TakeSlot`, shared with other memories and agents' own gate commands), the stop
hook that may be cut off while its handler goes on (`CutOff`, `TurnCut`), the gate lines of `companion.jsonl`, and the recovery of
gates a restart cut (`Beat`, `LookAt`). A reload adds a module memory to the process, a restart
ends the process.

**SlotState** and **Slots** - the pool (`slot`: lease id, holder, what lies in the tree, the marker) and the lives that
work in it, with what is promised of them, and the steps. A pass plans on one read of the pool (`Plan`: the records' `RecordActs`, then `ClaimActs`, W2's `FreeActs`
and W1's `LeasePlan`, each in its order) and carries its `todo` out in order; the slot tool goes step by step (`Check`, `Get`, `Save`,
`Reset`, `Mark`, `Return`, `Answer`), and a spawn is awaited (`Exec_Spawn`, `Spawned`). Any step may fail or lose its answer (`ToolFails`), the module may reload
(`Reload`) and leave a `treehouse get` or a spawn running that lands later (`LateGet`, `LateSpawn`: an agent in `unseen`, which no entry names); people return, take and give slots; the
owner drops and resumes; agents write, end, and may not be stopped (`Exec_Stop(FALSE)`), for a stop is tried once a
seq. A record's states are reduced to where it stands to a slot: `queued`, `slot` (designing to merge-queue),
`parked`, `closed`.

How they meet: at the ledger and the record. ActLock says whose ledger it is and when a save
lands; the others take a save as part of a step (Ledger and Records let it fail) and assume one session
acts, which ActLock establishes. Ledger's commands, Wakes' prompts and AgentSteps' agents are the
three kinds of entry; they share keys with nobody, so each is a module of its own. Records takes an agent's end
from AgentSteps as one of its `Outcomes` and the merge queue's verdicts as events of the table (T9, T10,
T14, T15, U1 to U4), which MergeQueue's `Leave`, `ToBack`, `Merged` and `ByHand` apply to its own records. GateTurns refines the
stop gate that AgentSteps takes as one wait. Slots has the records' moves and the agents' starts and stops of Records as
far as a slot sees them, for several lives at once, where Records has one. Claims decides that one device has the issue's record.

## 3. The runs

| Run | Shows | Bounds, and why they are enough |
| --- | --- | --- |
| `act_lock` | OneActor; ActsOnWholeLedger and NothingLost until the first race. `lapsed-save` and `blind-save` are admitted (the other three make the run too large) | two sessions (the lock's races are of a pair; the proof has any number), clock to 2 with a lease of 2 and a step of 1, so a lease can run out under its session; two entries |
| `pass_scheduler` | NoOverlap, SomethingAsks, StormBounded, QueuedStarts | two tasks in flight, gap 2, storm limit 1 in 5, clock to 14: the breaker opens, closes and opens again; requests stop at 9 so that waits run out |
| `ledger` | OwnResult, the refinement of Retries, EntryEnds | an inline and an off-pass key, two attempts, back-off 1, clock to 7: a timed-out attempt is retried while its completion is still to come; one upset at any step |
| `wakes` | OneOpen, OwnTurn, AskedOnce, Told | two tells of one kind and name and one task, two ids and two turns: a turn may meet the other key's entry; one upset |
| `wakes_end` | WakeEnds | one tell and the task; the same clock |
| `agent_steps` | GateFirst, LostOver, EndsOnce, StepEnds | one step of each role, started alone: the readers race over one attempt, and a second one would only delay them; answers, gates and turns are not bounded; one upset |
| `records` | LabelFollows, OneAgent, WindsDown, RowsAreDue, Settles | one record, two outside happenings at any two steps, one triage, no fix rounds beyond the first: every row is reached and every cap is hit; the theorems have any caps |
| `claims` | OneHolder, SomeoneWins, NeverStuck | two devices, two claim comments, a lease of 2 and commands of 1: a lease lapses while a rival claims; one failure, merge or close by hand |
| `claims_unlogged` | a code bug (section 5) | the same with `unlogged` |
| `gate_turns` | Counted, InOrder, LiveLeft, Decided | three gates with capacities 1, 1 and 2: a waiter behind another that asks for less room; two memories (one reload or restart) and two upsets: a re-run meets a holder of the memory before it |
| `merge_queue` | OnlyApproved, OwnHead, Tested, QueueMoves | two PRs, the train on and off, one return to the queue, two tries a head, two upsets: a push between plan and guard and a merge by hand between guard and merge, or a cut-off call and its retry |
| `slots` | Alone, WorkSaved, SlotKept, ComesBack, Served | two lives for one place, so that one waits for the other's slot; two slots, so that a life may come to hold two; one retry of a step, two outside happenings: a lost answer and a reload, a failed stop and a drop, a spawn given up and its agent beside the next |

The type invariants are proved, so no run checks them.
Slots' configurations give `LeaseIds` enough ids that a fresh one is always left; the proof has any set of them.
`MC_ActLock_inductive.cfg` checks the two inductive invariants that ActLock itself states, each until the races that end it (`LockInvHeld`, `LedgerInvHeld`).
`CHECK_DEADLOCK FALSE` stands where a clock or a count stops the instance or every process may come to rest;
`act_lock` and the merge queue's runs check deadlock.

Each property of a passing run has a mutant: a plausible bug put in one definition
(`\* mutant:` in the modules) under which the run must find the property violated.

**Fairness.** PassScheduler: an await that was begun is answered, a pass that runs ends (each of
its commands has a timeout), a timer fires, the clock ticks; that anything is ever asked again is not
assumed. Ledger: passes come again (the timer), each goes through its planned actions, commands end
by their own timeout; that an off-pass completion's message lands before the pass times it out is not. Wakes: passes
come, a submit settles by its grace, hooks run, time passes; that the session ever takes a prompt
is not. AgentSteps: passes come and, again and again, read the list (strong fairness of a read that
works: one read may fail, not all), hooks run, a send is answered or times out, the list catches up, time passes; that an agent
ever stops or records is not. Records: one condition over the loop and the agents as a whole: something of the pass, or the
step's agent, goes on (a step's timeout ends an agent that does not); the owner and GitHub owe nothing. Claims: time passes, each device's
command goes on, its events are pushed, its sweep comes again; that any device ever claims is not. GateTurns: a handler past its wait goes on
(the host calls and commands have timeouts), the beat comes and at some beat this session holds the
lease, the recovery looks at its gates; the cap's timer is owed nothing, so `Decided` shows that no
waiter depends on it. Slots: passes come and go through their plans, the tool answers or times out, agents that the ledger names end (a
step has a timeout); that a late get or spawn lands, an unseen agent ends, a person gives a slot back or the owner resumes anything is not. MergeQueue: passes read and plan, what was begun ends; CI never has to end, nor
does anyone else do anything. A reload or restart is never assumed.

**Assumed of the engine and the system** (outside the repository): commands started by the module
die with it on a reload, except a merge, which may go on; the prompt queue is first in, first out; hooks and the submit grace take
less than a wake's timeout; a wake has one attempt (`config.ts` 73-76) and an agent step's key too;
the agent list shows a spawned agent at once and a resumed one within `REPAIR_GRACE_MS`; only an
agent the list still shows is resumed, and one does not leave it before the message to it is
answered. The time before a command's launch fits `OFF_PASS_MARGIN_MS` (`MarginAssumption`). GitHub's claim comments have one order and one
clock; devices' clocks agree where the event log is ordered; GitHub merges a PR only at the head
the call names (`--match-head-commit`) and, with strict protection, not behind main.

## 4. What is proved

All proofs are checked by TLAPS, for any value of the constants that meets the modules' ASSUMEs:
any number of sessions, devices, keys, tasks, records and upsets, any caps and any timings.

The hypotheses a theorem has (`ASSUME ... PROVE`) are about `Races`, `Faults` and, for the storms, the clock (ActLock's have none: they speak of `raced`); section 5 says what
each race is, and TLC finds the property violated without its hypothesis wherever a configuration is named there.

* **ActLockProofs**: `TypeCorrect`; `LockInvariant`, `LeaseHeld` and `MutualExclusion`, in every state before a `session.end`
  found a pass in progress (`"busy-end" \notin raced`), the other four races included. OneActor is not inductive: two sessions could each be about to write.
  `LockInv` adds what an operation in flight knows (`OpKnows`: what it read would let it write), that
  a renewal that wrote is the lease in the file (`OpsOfRenewal`), and that a step stands on its own
  lease with the step's time left (`StepsCovered`, from `StepMs < LeaseMs`). Two sessions in a step
  would both own the one lock file. The ledger: `LedgerInvariant`, `WholeLedgerActs`, `SavedFirst` and `NothingOverwritten`,
  in every state before the first race took place (`raced = {}`), whichever of the five an instance admits. That they stop there is the code's doing: TLC finds each of
  the five, admitted alone, to break both ActsOnWholeLedger and NothingLost as asked of every state (`WholeLedgerHeld`, `NeverWrittenOver`). `LedgerInv` says that whoever may save has the whole store in memory, and so
  has the snapshot on its way (`WholeLedger`), unless its takeover is in the lock file and unseen yet (`TakingOver`); and that a ledger is loaded
  under an own lease, for a pass that waits for it (`LoadsOwn`).
* **TurnsProofs**, of PassScheduler: types, `NoOverlap`, `TimerKept`, and `SomethingAsks`, which
  needs `WaitHasTimer` (a noted wait is the gap's and has its timer) and `Clocks` (a task's clock is at most `Delay` old). `StormsBounded`: the scheduler counts some of the
  ping-driven passes that did start; those are the latest (`CountedLatest`), and one it no longer counts is out of the window or its storm
  opened the breaker (`Forgotten`, `Opened`).
  It is proved under `StormDelay`: a step goes on with a clock at most `StormQuiet + Gap - StormWindow` old, with the
  code's equal window and quiet a gap (5 s). That is no formality: with a gap of 1, TLC breaks the bound when a step's clock may be 2 old.
  Of GateTurns: `GateTypeCorrect`, `CountedHolds`, `InOrderHolds`, `LiveLeftHolds`, for any writers, capacities and restarts. The
  turns are a matter of `TurnInv`: the count is the number of holders, the queue lists each waiter once, and who waits has somebody
  before it; `Admitted` is the longest head of the queue that fits, each under its own capacity (`AdmittedIs`). The recovery reads a log
  that lags the processes, so `LiveLeft` needs what its lines tell: a handler's memory is of the living process (`RunsLive`), an agent is
  alive only while the newest start line, or the first line that wrote, is of that process (`LogOK`), and what a stop left behind is known by where its writer
  stands (`StopsOK`, `FreshOK`).
* **LedgerProofs**: types, `OwnResults`, `CommandsInStore`, and `Implementation`: Ledger
  implements Retries. The invariant (`LedgerInv`) says that memory and store both count what ran
  (`Books`), and what the action in hand and every command off the pass know of their entry
  (`Executing`, `OffOK`): a running command's entry still runs, for the pass that times it out
  waits out the command's own timeout and the margin.
* **WakesProofs**: types, `OneWakeOpen`, and `EndsByOwnTurn`, no race left out.
  The thread from a prompt to the entry it ends is a turn's number: every place that names a turn
  names it with one wake id (`OneId`), and an open entry's id is none or its own (`Entries`). A turn's start is matched
  by kind and name while the entry has no id, so an entry may take another prompt's turn: such keys are remembered (`misled`), and of
  them the id stands only for a prompt of the same kind and name (`KinInv`). `AskedOnceEach` and `ToldStays`
  follow the id the other way, from an entry to its prompts (`PromptInv`): a prompt queued with it is the wake's own (`Owned`),
  a key has one first prompt in the queue (`QueuedOnce`), and what may go out again was never shown (`Unasked`). They are
  proved as long as no entry is `misled`; that the other keys are safe after it is TLC's alone.
* **AgentStepsProofs**: types, `GateFirstHolds`, `EndsOnceHolds` and `RepairedOnce` (an attempt gets one repair message) with no race excluded;
  `LostOverHolds` under `"late-list" \notin Races`. The pass judges a list it read when it began. What makes that right: an agent at work is in the
  list, or its repair is being answered or was within the grace (`ListInv`); an answer whose hold was over
  when the pass began is on its way to its entry and is not held again (`OverInv`); an entry that comes to look lost after it was read had no answer to take (`LossInv`).
* **RecordsProofs**, for any caps, about the table alone: `RowsExclusive` (no event matches two rows, so `rowFor` never throws; by cases on
  the event's kind, then on the record's state), `TableWindsDown` (a row that is no refill and no owner's nudge leaves the record
  less in the lexicographic measure of `Less`), `TableKeepsCaps`. Carried over a life: `TypeCorrect`, `LifeWindsDown` (a plan's
  row still fits the record when it is written, `MoveFits`), `LabelIsRight` and `OneAgentWorks` (`LInv`: what
  the actions left in the plan, the ledger's entries and the label on GitHub say of each other after each partial failure; a start that is
  awaited, fails or is cut off is among them), and
  `RowsAreDueHolds`. `DueInv` follows what a row answers from the read to the write: a read made after the park's label that lacks it, or an
  op, is the owner's wish since the park (`AskedInv`); a read of the open issue made after the PR's close says the close came first
  (`CloseInv`); and the plan's row is still due when it is written, a checked trigger included (`MoveDue`).
* **LeaseProofs**, of Claims, under `"late" \notin Races`: `OneHolderHolds` and `OneOwnHolds`. A device judges on a list
  it read some time ago. While its run is under way a foreign claim that is live was made or renewed since the run's
  first read, so it outlives the run (`Since`), what the run judges on shows it (`SeenRight`), and no lapsed claim
  becomes live again (`InTimeStill`): a claim that wins is the earliest live one (`WonFirst`).
  `SomeoneWinsHolds`: while a run withdraws, no claim that
  it saw lapses (`Outlives`), and an earlier one than its own won or will still be judged on (`Beaten`, `SeenStands`). The property leaves out a winner that let the issue go and claims again (`CameBack`,
  section 5): then two may withdraw before each other's claim.
  Of Slots: `SlotTypeCorrect`, `AloneHolds`, `WorkSavedHolds`, `SlotKeptHolds`, for any slots, lives, cap, reserve, lease ids and retries. A plan
  is made of one read and carried out later, against a pool that late gets, hands and the tool's own failures change. `SlotInv` says what
  each of its actions knows until it is done (`ActOK`), what the tool's run knows at each stage (`RunOK`), and which two actions one
  plan never has (`Clash`: two moves of a life, a free of the lease that another prepares). The thread is the lease's id: it is of one
  slot and one holder (`LeasesOK`), a done prepare names the one it prepared (`PreparedOK`), and what is freed is an id that no agent
  works on and no done prepare names (`FreeOK`), so a free that comes late finds its lease or nothing. A prepare and a spawn, up to its answer, know
  that of the agents the ledger names nobody works for the life but those that a stop failed to end (`AtRest`); agents in `unseen` are in no clause but their type's, for nothing the loop does looks at them; between the tool's save and its reset nobody else works in the
  slot (`RunOK`); a slot that is found lost was taken by hand (`LostKnows`).
* **MergeQueueProofs**: `ApprovedHolds`, `TestedHolds`, and `OwnHolds` under `Faults = {}`. Each step is first
  shown to be one of a few moves of GitHub's PRs, the reads, the records and the tries (`Moves`);
  the invariant is then kept by moves alone. It says what a try knows at each stage (`Knows`: its plan's
  reading before the guard, the guard's own after it, with CI green on that head), that a reading
  lags GitHub's PR but a merge that was read stands (`Reads`), and that a merge of the loop
  is some try's own, which never denies it (`Owned`).

**Only model-checked**: liveness (`QueuedStarts`, `EntryEnds`, `WakeEnds`, `StepEnds`, `Settles`, `NeverStuck`,
`Decided`, `QueueMoves`, `ComesBack`, `Served`), which the prover cannot do.

## 5. Where code and documents part

One run expects a violation: **claims_unlogged** (`NeverStuck`). `fabriek-claim` takes the ready label off and then logs its
event. Cut off in between on an issue that was requeued once, the last event still says released:
the issue is neither ready nor held, and every sweep skips it.

Twelve configurations, not among the runs, each show what a document says and the code does not keep, or a race that a
module names and the passing run leaves out;
`tlc -config <cfg> <module>` finds each at once:

| Configuration | Property | What the code does |
| --- | --- | --- |
| `MC_ActLock_blind_save.cfg` | NeverWrittenOver | between a takeover's compare-and-set and `live.loaded = false` (`driver-pass.ts` 177-180, 264-267) a hook's save passes `mayWrite` and writes an old ledger over the store; `driver-io.ts` 335 says "this one never writes over it" |
| `MC_Wakes_stale_turn.cfg` | OwnTurnOnly | after a reload the queued prompt of a timed-out tell may start its turn while the next tell of its name has no id yet (`wake.ts` 317): its end delivers the wrong tell, where the comment of `onTurnStart` has "the one such running entry of that kind and name is it"; SPEC.md 3535 says a tell is "delivered when its own turn ends having said something" |
| `MC_AgentSteps_repaired.cfg` | GateSettled | after a repair message the gate line of the turn before it still settles the attempt (`v2/steps-gate.ts` 27): the answer is taken while the agent works and before its gate |
| `MC_AgentSteps_late_list.cfg` | LostOver | a reload while the list still shows a resumed agent's turn as ended forgets that it was resumed (`repairing` of `act.ts` is memory): two passes on the late list then lose its entry, and it works on |
| `MC_Claims_came_back.cfg` | NotAllLose | a winner that lets the issue go and claims again deletes its own claim while a rival has seen it and posts behind the rival: both withdraw; `fabriek-claim` line 20 says "exactly one winner" |
| `MC_Records_resume.cfg` | ResumeHolds | a resume reads the close it answers from the record's own `pr` (`v2/rules-state.ts` 130): where only a done ensure names the PR, the record is parked again on the same close |
| `MC_Records_unseen.cfg` | UnseenAlone | a spawn that times out (`driver-io.ts` 199) or is cut off by a reload leaves an entry `failed` or `lost` with no agent id (`act.ts` 269-292, `ledger.ts` 184-188); the engine may have started the agent, or may yet: nothing stops it (`v2/rules-entry.ts` 70 asks for the id) and the next attempt starts beside it. SPEC.md 3008 has a key wait for the agent list "so two agents never work one key"; 3633 calls such a spawn "a failed attempt" |
| `MC_Slots_unseen.cfg` | UnseenAlone | the same agent in the pool: `runningIn` (`v2/rules-slots.ts` 91-94) does not see it, so its slot is prepared, freed and leased to another life under it, and what it wrote is reset away (`StraySaved` of `MC_Slots.tla` fails too). SPEC.md 4558 says "At most one step per record; ... no two records share a slot" |
| `MC_MergeQueue_untested.cfg` | DocTested | with `mergeTrain` on, strict protection is off, and the merge of a head with no ready train carries no tested tree (`v2/rules-queue.ts` 265-266): a merge by hand between its CI and its merge is not noticed; SPEC.md 4602 says "every merge leaves main on a tree CI passed" |
| `MC_Slots_cap.cfg` | AtMostCap | a `treehouse get` that outlives its tool lands after W1 gave the place to a resumed record, and T1 takes both: SPEC.md 4556 says records in slot states "number at most K"; `tests/v2-slots.test.ts` 467 asks it of one plan |
| `MC_MergeQueue_readback.cfg` | OwnMerge | a merge that took effect and whose read-back fails is `failed` (`v2/act-queue.ts` 200): the merge is then taken for one by hand, which the file's head (line 20) rules out |
| `MC_GateTurns_again.cfg` | OneRecovery | a re-run that waits for its turn writes `gate-wait`, which opens the gate again: after a second restart it is re-run or cut a second time; SPEC 10.6 says at most once "across beats and restarts" |

Races that are named in a module and have no configuration: `lock-fault` (a renewal whose lock command failed reloads
over a save under way), `busy-end` (`session.end` releases the lease under a step), `lapsed-save` (a save on a lease that ran
out), `stray-load` (a load with no lease), and of Claims `late` and `slip`. `rails.ts` 487 says "one timer, however many requests arrive"; a wait read on an
older clock may set a second one, which is harmless: a timer that fires early asks again
(`StepStart` starts no pass within the gap of the one before, and `SomethingAsks`).

## 6. What is not modelled, and why

The map covers the loop's own state machines; it is a small share of the repository's lines,
because most of the repository is not one:

* **Planner** (`v2/rules-*.ts`, `plan.ts`): pure functions of an observed state. Those that decide an order or a guard are in
  Records and MergeQueue (`rules-state.ts`, `rules-entry.ts`, `rules-queue.ts`, `rules-train.ts`); for the rest the modules take a
  plan as a free choice, so what they show holds for any plan.
* **Intake, wind-down**: state machines still to be written (below); every module takes a restart as a free step.
* **Holds** (`session-hold.ts`, `title-flight.ts`): one flag in memory that delays spawns; AgentSteps has the skipped attempt.
* **Reports, HUD, schemas, observers and parsers** (`observe.ts`, `event-schemas.ts`, `control.ts`, `contracts-work.mjs`,
  `factory-event-translate.js`): reading, checking and rendering of data whose outcome the modules
  choose freely (a read that fails, a PR in any state, an answer of any kind).
* **Images, CLIs, terraform, replay scripts, skills, docs**: provisioning, installation and simulations
  outside the loop; their effect on the loop is a command's result.

Each module names its own omissions in its head, and `PROJECT.json` with each component.

Next: **wind-down** and release (a drain that ends though agents and passes go on).
