------------------------------ MODULE Records -------------------------------
(* One issue's record over one life: the passes that read its facts and plan
   (v2/rules-state.ts, v2/rules-entry.ts, v2/rules-agent.ts), the executors that
   carry a plan out one action after another (v2/act-state.ts over v2/store.ts),
   and what happens meanwhile: its agents end, the owner and GitHub act, a call
   fails, the module is reloaded.  The rows are IssueTable's. *)
EXTENDS IssueTable, Sequences

CONSTANTS MaxOutside,  \* bound: happenings outside the loop's own work, faults and reloads too
          Outcomes     \* bound: the outcomes a step's agent may give

ASSUME BoundsAssumption == Outcomes \subseteq Event /\ MaxOutside \in Nat

VARIABLES
  rec,       \* the record in the store, and in memory once the store has it
  prSeen,    \* its prClosedAt: the newest of the PR's closes it answered
  ledger,    \* the ledger's entries of the seq: its transition event, the stop of the old
             \* step, the label
  step,      \* the ledger entry of the step's attempt
  old,       \* an agent that an earlier seq started still runs
  unseen,    \* an agent works that no entry names: its spawn was given up, or cut off
  plan,      \* the pass in hand: its actions left, its transition (the row, its event and
             \* trigger, the close of the PR it answers and the newest seen), and whether
             \* that was checked
  pr,        \* the life's PR on GitHub; at: its newest close; known: a done ensure names it
  issue,     \* the issue on GitHub
  read,      \* the newest direct read of the issue; due: the next pass reads it
  owner,     \* the owner's drop and resume ops
  outside,   \* how many outside happenings there were
  hist       \* history: asked, the owner resumed the record since it was parked; due, the newest
             \* of the PR's closes that the last resume saw; late, the step ended between the
             \* transition's check and its write

vars == <<rec, prSeen, ledger, step, old, unseen, plan, pr, issue, read, owner, outside, hist>>

-----------------------------------------------------------------------------
Ev(k) == [kind |-> k, tag |-> "none", flag |-> FALSE]
NoMove == [row |-> "none", ev |-> Ev("ok"), trigger |-> "fact", close |-> 0, seen |-> 0]
NoPlan == [todo |-> <<>>, move |-> NoMove, checked |-> FALSE]
NoStep == [st |-> "none", ev |-> Ev("ok")]
LabelOf(s) == IF s = "closed" THEN "none" ELSE s

TypeOK ==
    /\ rec \in Record /\ CapsHold(rec)
    /\ ledger \in [log : {"todo", "done", "out"}, stop : {"no", "done", "failed"},
                   label : {"todo", "done", "out"}]
    /\ step.st \in {"none", "running", "done"} /\ step.ev \in Event
    /\ old \in BOOLEAN /\ unseen \in BOOLEAN /\ prSeen <= pr.at
    /\ plan.move.row = "none" \/ plan.move.ev \in Event
    /\ pr.st \in {"none", "open", "closed", "merged", "landed"}
    /\ issue.label \in States \cup {"none"}
    /\ outside \in 0..MaxOutside

(* S0's record, just stored: the seq's entry actions are still to do. *)
Init ==
    /\ rec = Made(FALSE) /\ prSeen = 0
    /\ ledger = [log |-> "todo", stop |-> "no", label |-> "todo"]
    /\ step = NoStep /\ old = FALSE /\ unseen = FALSE /\ plan = NoPlan
    /\ pr = [st |-> "none", at |-> 0, known |-> FALSE, issueFirst |-> FALSE]
    /\ issue = [open |-> TRUE, label |-> "none"]
    /\ read = [open |-> TRUE, parked |-> FALSE, afterLabel |-> FALSE, afterClose |-> FALSE, due |-> FALSE]
    /\ owner = [drop |-> FALSE, resume |-> "none"]
    /\ outside = 0
    /\ hist = [asked |-> FALSE, due |-> 0, late |-> FALSE]

Outside == outside < MaxOutside /\ outside' = outside + 1

-----------------------------------------------------------------------------
(* What a pass reads in its facts. *)
LifePr == rec.pr \/ pr.known
Logged == ledger.log = "done"
Stalled == ledger.log = "out" \/ ledger.label = "out"

(* entryItems: the seq's actions still to do, in their order; entryDone. *)
If(c, a) == IF c THEN <<a>> ELSE <<>>
EntryItems == If(ledger.log = "todo", "log") \o If(old /\ ledger.stop = "no", "stop")
              \o If(ledger.label = "todo", "label")
EntryDoneUnstopped == Logged /\ ledger.label = "done"                                \* mutant: the stop is not waited for
EntryDoneStrict == Logged /\ (old => ledger.stop = "done") /\ ledger.label = "done"   \* mutant: a failed stop holds for ever
EntryDone == Logged /\ (old => ledger.stop # "no") /\ ledger.label = "done"

(* earlyEvents, in the order they are taken: those present that the table has a
   row for.  A PR's close waits for a read of its issue made after it. *)
EarlyKinds == <<"pr-merged", "issue-closed", "drop", "pr-closed">>
EarlyEv == [k \in Kinds |-> [kind |-> k, tag |-> "none", flag |-> k \in {"pr-merged", "pr-closed"}]]
Present(k, r) ==
    CASE k = "pr-merged" -> LifePr /\ pr.st = "merged"
      [] k = "issue-closed" -> ~r.open
      [] k = "drop" -> owner.drop
      [] k = "pr-closed" -> LifePr /\ pr.st = "closed" /\ pr.at > prSeen
Early(r) == {i \in 1..4 : Present(EarlyKinds[i], r) /\ Hits(rec, EarlyEv[EarlyKinds[i]]) # {}}
Waits(k, r) == k = "pr-closed" /\ ~r.afterClose

(* unparkOf: the owner's op newer than the park; or a read of the issue made
   after the park's label was written that lacks it.  The PR's close it answers
   is that of the record's own PR. *)
LabelGoneSoon(r) == rec.state = "parked" /\ ledger.label = "done" /\ ~r.parked   \* mutant: a read before the label counts
LabelGone(r) == rec.state = "parked" /\ ledger.label = "done" /\ r.afterLabel /\ ~r.parked
Unpark(r) == rec.state \in {"parked", "waiting"} /\ (owner.resume # "none" \/ LabelGone(r))
UnparkClose == IF rec.pr /\ pr.st = "closed" THEN pr.at ELSE 0

(* The step's own event: its result; while it runs, its timeout or its slot's
   loss; for a queued record the lease. *)
StepEvents ==
    CASE rec.state = "queued" -> {Ev("ok")}
      [] step.st = "done" /\ ~Stalled -> {step.ev}
      [] step.st = "running" -> {[Ev("unknown") EXCEPT !.flag = f] : f \in BOOLEAN}
      [] OTHER -> {}

(* The events after the early ones; a wait's conditions hold at the outside's pleasure. *)
LaterEvents(r) ==
    IF rec.state \in {"parked", "waiting"}
    THEN {e \in {Ev("unpark"), Ev("cleared")} :
            \/ e.kind = "unpark" /\ Unpark(r)
            \/ e.kind = "cleared" /\ rec.state = "waiting" /\ outside < MaxOutside}
    ELSE StepEvents

-----------------------------------------------------------------------------
(* A pass reads the issue (always when its read is due) and plans. *)
ReadNow == [open |-> issue.open, parked |-> rec.state = "parked" /\ issue.label = "parked", due |-> FALSE,
            afterLabel |-> rec.state = "parked" /\ ledger.label = "done", afterClose |-> pr.st = "closed"]
Reads == IF read.due THEN {ReadNow} ELSE {read, ReadNow}

Pass(r, todo, move) ==
    /\ plan' = [todo |-> todo, move |-> move, checked |-> FALSE]
    /\ read' = r
    /\ owner' = [owner EXCEPT !.resume = IF @ = "new" THEN "op" ELSE @]
    /\ UNCHANGED <<rec, prSeen, ledger, step, old, unseen, pr, issue, hist>>

(* take: the transition by the event's row, once the seq's own event is logged. *)
Take(r, e, trigger, close) ==
    IF Logged THEN \E x \in Hits(rec, e) :
                       Pass(r, Append(EntryItems, "move"),
                            [row |-> x, ev |-> e, trigger |-> trigger, close |-> close, seen |-> pr.at])
    ELSE EntryItems # <<>> /\ Pass(r, EntryItems, NoMove)

PlanEarly(r, k) ==
    /\ IF Waits(k, r) THEN Pass([r EXCEPT !.due = TRUE], EntryItems, NoMove)
       ELSE Take(r, EarlyEv[k], "fact", IF k = "pr-closed" THEN pr.at ELSE 0)
    /\ UNCHANGED outside

PlanLater(r) ==
    \E e \in LaterEvents(r) :
       /\ Take(r, e, IF rec.step \in {"none", "lease"} THEN "fact" ELSE step.st,
               IF e.kind = "unpark" THEN UnparkClose ELSE 0)
       /\ outside' = outside + (IF e.kind = "cleared" THEN 1 ELSE 0)

(* No event takes the record: its entry actions, else its step's start. *)
PlanWork(r) ==
    /\ LaterEvents(r) = {} \/ step.st = "running" \/ rec.state \in {"queued", "waiting"}
    /\ IF EntryDone /\ step.st = "none" /\ rec.step \notin {"none", "lease"}
       THEN Pass(r, <<"start">>, NoMove)
       ELSE EntryItems # <<>> /\ Pass(r, EntryItems, NoMove)
    /\ UNCHANGED outside

Plan ==
    /\ plan.todo = <<>>
    /\ IF rec.state = "closed" THEN EntryItems # <<>> /\ Pass(read, EntryItems, NoMove) /\ UNCHANGED outside
       ELSE \E r \in Reads : \E early \in {Early(r)} :
               \/ \E i \in early : (\A j \in early : i <= j) /\ PlanEarly(r, EarlyKinds[i])
               \/ early = {} /\ (PlanLater(r) \/ PlanWork(r))

-----------------------------------------------------------------------------
(* The actions of the pass, in their order. *)
Next1(a) == plan.todo # <<>> /\ Head(plan.todo) = a
Done == plan' = IF Len(plan.todo) = 1 THEN NoPlan ELSE [plan EXCEPT !.todo = Tail(@)]

(* event: the seq's transition event, with the row its entry carries. *)
ExecLog ==
    /\ Next1("log") /\ Done
    /\ \/ ledger' = [ledger EXCEPT !.log = "done"] /\ UNCHANGED outside
       \/ Outside /\ \E s \in {"todo", "out"} : ledger' = [ledger EXCEPT !.log = s]
    /\ UNCHANGED <<rec, prSeen, step, old, unseen, pr, issue, read, owner, hist>>

(* stop-agent: best effort; one that failed has ended too. *)
ExecStop ==
    /\ Next1("stop") /\ Done
    /\ \/ ledger' = [ledger EXCEPT !.stop = "done"] /\ old' = FALSE /\ UNCHANGED outside
       \/ Outside /\ ledger' = [ledger EXCEPT !.stop = "failed"] /\ UNCHANGED old
    /\ UNCHANGED <<rec, prSeen, step, unseen, pr, issue, read, owner, hist>>

(* label: the state's on and the others off; a failed call may have taken. *)
ExecLabel ==
    /\ Next1("label") /\ Done
    /\ \/ /\ ledger' = [ledger EXCEPT !.label = "done"]
          /\ issue' = [issue EXCEPT !.label = LabelOf(rec.state)] /\ UNCHANGED outside
       \/ /\ Outside /\ \E s \in {"todo", "out"} : ledger' = [ledger EXCEPT !.label = s]
          /\ \E l \in {issue.label, LabelOf(rec.state)} : issue' = [issue EXCEPT !.label = l]
    /\ UNCHANGED <<rec, prSeen, step, old, unseen, pr, read, owner, hist>>

(* The step's work starts: its entry is saved running, with no agent yet, and
   the spawn is awaited; the review ensures its PR (open, or reopened), the queue
   reopens a closed one. *)
ExecStart ==
    /\ Next1("start") /\ step.st = "none"
    /\ step' = [st |-> "running", ev |-> Ev("ok")]
    /\ pr' = IF rec.step = "review" /\ pr.st \in {"none", "open", "closed"}
             THEN [pr EXCEPT !.st = "open", !.known = TRUE]
             ELSE IF rec.step = "queue" /\ pr.st = "closed" THEN [pr EXCEPT !.st = "open"] ELSE pr
    /\ UNCHANGED <<rec, prSeen, ledger, old, unseen, plan, issue, read, owner, outside, hist>>

Starting == Next1("start") /\ step.st = "running"

(* The spawn answers, and the agent's id is recorded. *)
Started ==
    /\ Starting /\ Done
    /\ UNCHANGED <<rec, prSeen, ledger, step, old, unseen, pr, issue, read, owner, outside, hist>>

(* No id comes: the attempt ends as an unknown.  The agent may work all the same:
   the engine may have started it, or may yet, after the answer was given up. *)
GivenUp ==
    /\ \E f \in BOOLEAN : step' = [st |-> "done", ev |-> [Ev("unknown") EXCEPT !.flag = f]]
    /\ unseen' \in {unseen, unseen \/ rec.step # "queue"}

(* The spawn throws, is denied or times out; or it is held, which undoes the start. *)
SpawnFails ==
    /\ Starting /\ Done /\ Outside
    /\ GivenUp \/ (step' = NoStep /\ UNCHANGED unseen)
    /\ UNCHANGED <<rec, prSeen, ledger, old, pr, issue, read, owner, hist>>

(* transition: its trigger is compared with the live ledger (a fact is not),
   then the record is written. *)
TriggerStale == plan.move.trigger # "fact" /\ step.st # plan.move.trigger
CheckMove ==
    /\ Next1("move") /\ ~plan.checked
    /\ plan' = IF TriggerStale THEN NoPlan ELSE [plan EXCEPT !.checked = TRUE]
    /\ UNCHANGED <<rec, prSeen, ledger, step, old, unseen, pr, issue, read, owner, outside, hist>>

LabelDueByStep(to) == IF to.step = rec.step THEN "done" ELSE "todo"   \* mutant: the steps are compared
LabelDue(to) == IF to.state = rec.state THEN "done" ELSE "todo"
Moved(to) ==
    /\ rec' = to
    /\ prSeen' = IF plan.move.close > prSeen THEN plan.move.close ELSE prSeen
    /\ ledger' = [log |-> "todo", stop |-> "no", label |-> LabelDue(to)]
    /\ step' = NoStep
    /\ old' = (old \/ step.st = "running")
    /\ read' = [read EXCEPT !.afterLabel = FALSE, !.parked = FALSE]
    /\ owner' = IF to.state = rec.state THEN owner
                ELSE [owner EXCEPT !.resume = IF @ = "new" THEN @ ELSE "none"]
    /\ hist' = [hist EXCEPT !.late = FALSE, !.asked = (@ /\ to.state = rec.state) \/ owner.resume = "new",
                            !.due = IF plan.move.row = "P1" THEN plan.move.seen ELSE @]

WriteMove ==
    /\ Next1("move") /\ plan.checked /\ plan' = NoPlan
    /\ \/ UNCHANGED outside /\ \E to \in {NextRecord(rec, plan.move.row, plan.move.ev)} : Moved(to)
       \/ Outside /\ hist' = [hist EXCEPT !.late = FALSE]
          /\ UNCHANGED <<rec, prSeen, ledger, step, old, read, owner>>
    /\ UNCHANGED <<unseen, pr, issue>>

-----------------------------------------------------------------------------
(* What the step's work ends with: an unknown, or one of the step's outcomes. *)
StepResults ==
    Outcomes \cap
    ([kind : {"unknown"}, tag : {"none"}, flag : BOOLEAN] \cup
     IF OnTriage(rec) THEN [kind : {"triage"}, tag : Choices, flag : BOOLEAN]
     ELSE [kind : {"ok"}, tag : {"none"}, flag : {FALSE, rec.state = "fixing"}]
          \cup [kind : {"not-ok"}, tag : Reasons[rec.state], flag : {FALSE, rec.state = "fixing"}])

(* The step ends; an approved patch goes stale only by somebody's push, and the
   queue's ok is the loop's own merge. *)
StepEnds ==
    /\ step.st = "running" /\ ~Starting
    /\ \E e \in StepResults :
          /\ step' = [st |-> "done", ev |-> e]
          /\ IF e.tag = "patch" THEN Outside ELSE UNCHANGED outside
          /\ pr' = IF e.kind = "ok" /\ rec.step = "queue" THEN [pr EXCEPT !.st = "landed"] ELSE pr
    /\ hist' = [hist EXCEPT !.late = plan.checked]
    /\ UNCHANGED <<rec, prSeen, ledger, old, unseen, plan, issue, read, owner>>

UnseenEnds == unseen /\ unseen' = FALSE
              /\ UNCHANGED <<rec, prSeen, ledger, step, old, plan, pr, issue, read, owner, outside, hist>>

OldEnds == old /\ old' = FALSE
           /\ UNCHANGED <<rec, prSeen, ledger, step, unseen, plan, pr, issue, read, owner, outside, hist>>

(* A reload or a crash: the pass in hand is gone, and a start that was awaited is
   lost (ledger.ts onLoad). *)
Reload == /\ plan # NoPlan /\ Outside /\ plan' = NoPlan /\ hist' = [hist EXCEPT !.late = FALSE]
          /\ IF Starting THEN GivenUp ELSE UNCHANGED <<step, unseen>>
          /\ UNCHANGED <<rec, prSeen, ledger, old, pr, issue, read, owner>>

(* The owner: /factory drop, /factory resume, the parked label taken off,
   /factory retry. *)
OwnerDrops == /\ Outside /\ ~owner.drop /\ owner' = [owner EXCEPT !.drop = TRUE]
              /\ UNCHANGED <<rec, prSeen, ledger, step, old, unseen, plan, pr, issue, read, hist>>
OwnerResumes == /\ Outside /\ rec.state # "closed" /\ owner' = [owner EXCEPT !.resume = "new"]
                /\ hist' = [hist EXCEPT !.asked = TRUE]
                /\ UNCHANGED <<rec, prSeen, ledger, step, old, unseen, plan, pr, issue, read>>
OwnerUnlabels == /\ Outside /\ rec.state = "parked" /\ issue.label = "parked"
                 /\ issue' = [issue EXCEPT !.label = "none"] /\ hist' = [hist EXCEPT !.asked = TRUE]
                 /\ UNCHANGED <<rec, prSeen, ledger, step, old, unseen, plan, pr, read, owner>>
OwnerRetries == /\ Outside /\ Stalled
                /\ ledger' = [ledger EXCEPT !.log = IF @ = "out" THEN "todo" ELSE @,
                                            !.label = IF @ = "out" THEN "todo" ELSE @]
                /\ UNCHANGED <<rec, prSeen, step, old, unseen, plan, pr, issue, read, owner, hist>>

(* GitHub, by hand: the PR closed or merged, the issue closed. *)
PrByHand(st) == /\ Outside /\ pr.st = "open"
                /\ pr' = [pr EXCEPT !.st = st, !.at = IF st = "closed" THEN @ + 1 ELSE @, !.issueFirst = ~issue.open]
                /\ read' = [read EXCEPT !.afterClose = FALSE]
                /\ UNCHANGED <<rec, prSeen, ledger, step, old, unseen, plan, issue, owner, hist>>
IssueByHand == /\ Outside /\ issue.open /\ issue' = [issue EXCEPT !.open = FALSE]
               /\ UNCHANGED <<rec, prSeen, ledger, step, old, unseen, plan, pr, read, owner, hist>>

Exec == ExecLog \/ ExecStop \/ ExecLabel \/ ExecStart \/ Started \/ CheckMove \/ WriteMove
Elsewhere == \/ SpawnFails \/ Reload \/ OwnerDrops \/ OwnerResumes \/ OwnerUnlabels \/ OwnerRetries
             \/ PrByHand("closed") \/ PrByHand("merged") \/ IssueByHand
Next == Plan \/ Exec \/ StepEnds \/ OldEnds \/ UnseenEnds \/ Elsewhere

(* The driver passes again, a pass's actions run out, and a step's agent ends. *)
Loop == Plan \/ Exec \/ StepEnds
Spec == Init /\ [][Next]_vars /\ WF_vars(Loop)

-----------------------------------------------------------------------------
(* Every row but a refill leaves the life less to do: attempts, states, fix
   rounds and triages cannot feed each other (a fixer that a resume leads to
   counts as a round, a triage's redesign costs the triage), so no life cycles
   on its own answers (v2/table.ts, v2/table-fix.ts). *)
WindsDown == [][plan.move.row \in Refills \/ Less(rec', rec)]_rec

(* Once the seq's entry actions are done the issue carries the state's label, or
   none where the owner took the parked one off: the label follows through
   failed, cut-off and repeated calls, and a row that keeps the state writes none
   and needs none (v2/rules-entry.ts entryItems, entryDone). *)
LabelFollows ==
    EntryDone => \/ issue.label = LabelOf(rec.state)
                 \/ rec.state = "parked" /\ issue.label = "none"

(* Of the agents that the ledger's entries name, two work at once only where the
   old one's stop failed (property 6; v2/rules-entry.ts stops, v2/rules-state.ts
   hold).  An agent whose spawn was given up has no id in the ledger, so nothing
   stops it and nothing waits for it: it is excepted, and MC_Records_unseen.cfg
   shows the next agent beside it. *)
OneAgent == old /\ step.st = "running" => ledger.stop = "failed"

(* A row is applied only on what happened: a park is resumed by the owner alone,
   never by a read of the labels older than the park's own; a PR closed with or
   after its issue closes the record and does not park it; and an answer in the
   ledger when the transition is checked is never overridden by its step's
   timeout (v2/rules-state.ts unparkOf, earlyEvents; v2/act-state.ts
   triggerStale). *)
ResumedByOwner == plan.move.row = "P1" => hist.asked
IssueBeforePr == plan.move.row = "E4" => ~pr.issueFirst
AnswerWins == plan.move.trigger = "running" /\ step.st = "done" => hist.late
RowsAreDue == [][ResumedByOwner /\ IssueBeforePr /\ AnswerWins]_rec

(* A resume answers the PR's close it was given for: the record is not parked
   again on a close that its last resume saw (SPEC 4.3 P1; v2/rules-state.ts
   unparkOf, v2/table.ts E4, P1). *)
ResumeHolds == [][plan.move.row = "E4" => plan.move.close > hist.due]_rec

(* Left alone, every record comes to rest: closed, parked or waiting with its
   entry actions done, or stalled on an effect that used up its attempts. *)
AtRest == Stalled \/ (rec.state \in {"closed", "parked", "waiting"} /\ EntryDone)
Settles == <>[]AtRest
=============================================================================
