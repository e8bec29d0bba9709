-------------------------------- MODULE Wakes --------------------------------
(***************************************************************************)
(* A wake asks the owner's session something (a task) or tells it something *)
(* (a tell): wake.ts, act-between.ts, driver-between.ts.  A pass submits it *)
(* as a prompt; the engine queues it, starts its turn once the session is  *)
(* idle, or drops it.  The turn's start and end, and a drop after the      *)
(* grace, reach the ledger through the hook queue, an answer by the tool   *)
(* at once.  Each step takes its save with it (Ledger and ActLock have the *)
(* saves that fail); the prune and the owner's retry are left out, and so  *)
(* are judges, which no rule plans.                                        *)
(***************************************************************************)
EXTENDS Naturals, Sequences, FiniteSets, SequencesExt

CONSTANTS
  Keys,        \* idempotency keys of wakes
  Tasks,       \* the keys that want an answer; the others are tells
  Sort,        \* the kind and name of a key's first line, which keys may share
  Limit,       \* wakeTimeoutMs, by key
  None,        \* no entry, no key, no turn
  StartUntil,  \* bound: no wake starts later
  MaxNow,      \* bound: the clock stops here
  MaxIds,      \* bound: prompts submitted, reminders left out
  MaxTurns,    \* bound: turns of the session
  MaxUpsets    \* bound: reloads, restarts and hooks that find the loop off, together

ASSUME KeysAssumption == IsFiniteSet(Keys) /\ Tasks \subseteq Keys /\ Limit \in [Keys -> Nat]
ASSUME BoundsAssumption ==
  /\ StartUntil \in Nat /\ MaxNow \in Nat /\ MaxIds \in Nat
  /\ MaxTurns \in Nat /\ MaxUpsets \in Nat

VARIABLES
  now,      \* the clock
  ledger,   \* the wakes' entries, by key
  todo,     \* the wake the pass planned, or None
  exec,     \* the submit the pass is in
  queue,    \* the engine's queue of prompts
  turn,     \* the main loop's turn, or None
  hooks,    \* the hook queue
  lastId,   \* S.lastWakeAt: the last wake id given
  turns,    \* turns begun
  shown,    \* history: first prompts of a key whose turn began, and reminders sent, in this session
  heard,    \* history, by wake id: its turn's start was heard, then an end with something said
  asked,    \* history, by wake id: the key it was taken for
  misled,   \* history: keys whose entry took the turn of another prompt for its own
  upsets    \* reloads, restarts and hooks that found the loop off

vars == <<now, ledger, todo, exec, queue, turn, hooks, lastId, turns, shown, heard, asked, misled, upsets>>

Ids == 1..MaxIds
Ended == {"done", "timed-out", "lost"}
\* mine: the id its executor took (history); by: the id of the turn or answer that ended it (history)
Entry == [status : Ended \cup {"running"}, attempts : Nat, at : Nat, id : Nat, turn : Nat,
          reminded : BOOLEAN, mine : Nat, by : Nat]

Idle == [phase |-> "idle"]
\* watched: the module that submitted it still waits for what becomes of it
Prompt == [key : Keys, id : Nat \ {0}, reminder : BOOLEAN, watched : BOOLEAN]
Execs == {Idle} \cup [phase : {"saved", "grace", "dropped", "settled"}, key : Keys, prev : Entry \cup {None}, id : Nat]
Shown == [asks : Nat, reminders : Nat]
Turn == [n : Nat \ {0}, key : Keys \cup {None}, id : Nat]
ASSUME NoneAssumption == None \notin Entry \cup Keys \cup Turn
Hook == [on : {"start"}, n : Nat \ {0}, key : Keys, id : Nat \ {0}]
  \cup [on : {"end"}, n : Nat \ {0}, id : Nat, said : BOOLEAN, answer : Nat]
  \cup [on : {"drop"}, id : Nat \ {0}]

TypeOK ==
  /\ now \in Nat /\ lastId \in Nat /\ turns \in Nat /\ upsets \in Nat
  /\ ledger \in [Keys -> Entry \cup {None}]
  /\ todo \in Keys \cup {None} /\ exec \in Execs
  /\ queue \in Seq(Prompt) /\ turn \in Turn \cup {None} /\ hooks \in Seq(Hook)
  /\ shown \in [Keys -> Shown]
  /\ heard \in [Ids -> {"no", "started", "said"}]
  /\ asked \in [Ids -> Keys \cup {None}] /\ misled \subseteq Keys

Init ==
  /\ now = 0 /\ lastId = 0 /\ turns = 0 /\ upsets = 0
  /\ ledger = [k \in Keys |-> None] /\ todo = None /\ exec = Idle
  /\ queue = <<>> /\ turn = None /\ hooks = <<>>
  /\ shown = [k \in Keys |-> [asks |-> 0, reminders |-> 0]]
  /\ heard = [i \in Ids |-> "no"] /\ asked = [i \in Ids |-> None] /\ misled = {}

Runs(l, k) == l[k] # None /\ l[k].status = "running"
Open(l) == \E k \in Keys : Runs(l, k)

\* gate: a wake has one attempt; a lost one had it given back
Go(l, k) == l[k] = None \/ (l[k].status = "lost" /\ l[k].attempts = 0)

\* mutant: only a wake whose turn started times out
ExpiredTurns(l) ==
  [k \in Keys |-> IF Runs(l, k) /\ now >= l[k].at + Limit[k] /\ l[k].turn # 0
                  THEN [l[k] EXCEPT !.status = "timed-out"] ELSE l[k]]

\* fallback: what a timeout makes of an open wake
Expired(l) ==
  [k \in Keys |-> IF Runs(l, k) /\ now >= l[k].at + Limit[k]
                  THEN [l[k] EXCEPT !.status = "timed-out"] ELSE l[k]]

\* mutant: a wake goes out while another is open
OneWakeNot(l, k) == Go(l, k)

\* oneWake: the wake that goes out, none while one is open
OneWake(l, k) == Go(l, k) /\ ~Open(l)

\* actPass, and the notices after it: open wakes past their timeout end, then at most one is planned
Plan ==
  /\ todo = None /\ exec = Idle
  /\ ledger' = Expired(ledger)
  /\ todo' \in {None} \cup {k \in Keys : OneWake(ledger', k)}
  /\ UNCHANGED <<now, exec, queue, turn, hooks, lastId, turns, shown, heard, asked, misled, upsets>>

\* actOne: the entry, running and saved
Start ==
  /\ todo # None /\ now <= StartUntil /\ lastId < MaxIds
  /\ ledger' = [ledger EXCEPT ![todo] =
       [status |-> "running", attempts |-> IF ledger[todo] = None THEN 1 ELSE ledger[todo].attempts + 1,
        at |-> now, id |-> 0, turn |-> 0, reminded |-> FALSE, mine |-> 0, by |-> 0]]
  /\ exec' = [phase |-> "saved", key |-> todo, prev |-> ledger[todo], id |-> 0]
  /\ todo' = None
  /\ UNCHANGED <<now, queue, turn, hooks, lastId, turns, shown, heard, asked, misled, upsets>>

\* runActions: the lock, the kill switch or the pre-check holds the wake
Hold ==
  /\ todo # None /\ todo' = None
  /\ UNCHANGED <<now, ledger, exec, queue, turn, hooks, lastId, turns, shown, heard, asked, misled, upsets>>

\* the wake executor takes an id and submits
Submit ==
  /\ exec.phase = "saved"
  /\ lastId' = lastId + 1
  /\ exec' = [exec EXCEPT !.phase = "grace", !.id = lastId']
  /\ ledger' = [ledger EXCEPT ![exec.key].mine = lastId']
  /\ asked' = [asked EXCEPT ![lastId'] = exec.key]
  /\ queue' = Append(queue, [key |-> exec.key, id |-> lastId', reminder |-> FALSE, watched |-> TRUE])
  /\ UNCHANGED <<now, todo, turn, hooks, turns, shown, heard, misled, upsets>>

\* the grace ends: the prompt is taken as queued
Queued ==
  /\ exec.phase = "grace"
  /\ exec' = [exec EXCEPT !.phase = "settled"]
  /\ UNCHANGED <<now, ledger, todo, queue, turn, hooks, lastId, turns, shown, heard, asked, misled, upsets>>

\* mutant: the executor's result makes the entry run again
RecordedAgain(k) == [ledger EXCEPT ![k].status = "running", ![k].id = exec.id]

\* finish with the executor's running result: a wake a hook ended stays ended
Recorded(k) == IF Runs(ledger, k) THEN [ledger EXCEPT ![k].id = exec.id] ELSE ledger

\* record: the id goes on the entry, or a prompt dropped within the grace undoes its start
Record ==
  /\ exec.phase \in {"settled", "dropped"}
  /\ ledger' = IF exec.phase = "settled" THEN Recorded(exec.key)
               ELSE [ledger EXCEPT ![exec.key] = exec.prev]
  /\ exec' = Idle
  /\ UNCHANGED <<now, todo, queue, turn, hooks, lastId, turns, shown, heard, asked, misled, upsets>>

InGrace(p) == exec.phase = "grace" /\ exec.id = p.id /\ ~p.reminder

\* the engine drops a queued prompt: the submit that waits hears it, within the grace itself,
\* after it through the hook queue, and a module loaded since does not
Drop(i) ==
  LET p == queue[i] IN
  /\ queue' = RemoveAt(queue, i)
  /\ exec' = IF InGrace(p) THEN [exec EXCEPT !.phase = "dropped"] ELSE exec
  /\ hooks' = IF p.watched /\ ~InGrace(p) THEN Append(hooks, [on |-> "drop", id |-> p.id]) ELSE hooks
  /\ UNCHANGED <<now, ledger, todo, turn, lastId, turns, shown, heard, asked, misled, upsets>>

\* the session is idle: the first prompt's turn starts, and its submit resolves
TurnStart ==
  LET p == Head(queue) IN
  /\ turn = None /\ queue # <<>> /\ turns < MaxTurns
  /\ turns' = turns + 1
  /\ turn' = [n |-> turns', key |-> p.key, id |-> p.id]
  /\ queue' = Tail(queue)
  /\ hooks' = Append(hooks, [on |-> "start", n |-> turns', key |-> p.key, id |-> p.id])
  /\ exec' = IF InGrace(p) THEN [exec EXCEPT !.phase = "settled"] ELSE exec
  /\ shown' = IF p.reminder THEN shown ELSE [shown EXCEPT ![p.key].asks = @ + 1]
  /\ UNCHANGED <<now, ledger, todo, lastId, heard, asked, misled, upsets>>

\* the owner types: a turn of no wake
Chat ==
  /\ turn = None /\ turns < MaxTurns
  /\ turns' = turns + 1
  /\ turn' = [n |-> turns', key |-> None, id |-> 0]
  /\ UNCHANGED <<now, ledger, todo, exec, queue, hooks, lastId, shown, heard, asked, misled, upsets>>

\* the ids the model may have read, and 0: no answer
Readable == {0} \cup {i \in 1..lastId : \A j \in DOMAIN queue : queue[j].id # i}

\* the turn ends, said: by itself and with some text; an answer block to some wake, or none
TurnEnd(said, answer) ==
  /\ turn # None /\ answer \in Readable
  /\ hooks' = Append(hooks, [on |-> "end", n |-> turn.n, id |-> turn.id, said |-> said, answer |-> answer])
  /\ turn' = None
  /\ UNCHANGED <<now, ledger, todo, exec, queue, lastId, turns, shown, heard, asked, misled, upsets>>

\* checkAnswer: an open task with that id is done
Answered(l, a) ==
  [k \in Keys |-> IF k \in Tasks /\ Runs(l, k) /\ a # 0 /\ l[k].id = a
                  THEN [l[k] EXCEPT !.status = "done", !.by = a] ELSE l[k]]

\* wakeAnswered: the answer tool, between any two steps
Tool(answer) ==
  /\ turn # None /\ answer \in Readable
  /\ ledger' = Answered(ledger, answer)
  /\ UNCHANGED <<now, todo, exec, queue, turn, hooks, lastId, turns, shown, heard, asked, misled, upsets>>

\* onTurnStart: the open wake with the turn's id, or else the one of its kind and name with none
Pending(h) == {k \in Keys : Runs(ledger, k) /\ Sort[k] = Sort[h.key] /\ ledger[k].id = 0}
Begun(h) ==
  {k \in Keys : /\ Runs(ledger, k) /\ Sort[k] = Sort[h.key]
                /\ \/ ledger[k].id = h.id
                   \/ Pending(h) = {k} /\ \A j \in Keys : Runs(ledger, j) /\ Sort[j] = Sort[h.key] => ledger[j].id # h.id}

HookStart ==
  LET h == Head(hooks) IN
  /\ hooks # <<>> /\ h.on = "start"
  /\ ledger' = [k \in Keys |-> IF k \in Begun(h) THEN [ledger[k] EXCEPT !.id = h.id, !.turn = h.n] ELSE ledger[k]]
  /\ misled' = misled \cup {k \in Begun(h) : ledger[k].mine # h.id}
  /\ heard' = [heard EXCEPT ![h.id] = IF @ = "no" THEN "started" ELSE @]
  /\ hooks' = Tail(hooks)
  /\ UNCHANGED <<now, todo, exec, queue, turn, lastId, turns, shown, asked, upsets>>

\* mutant: any turn's end is every open wake's
InAnyTurn(l, h) == {k \in Keys : Runs(l, k)}

\* the open wakes whose turn this was
InTurn(l, h) == {k \in Keys : Runs(l, k) /\ l[k].turn = h.n}

\* onTurnComplete: the answer, then the wakes whose turn it was: a tell is delivered once something
\* was said, an unanswered task gets its one reminder, sent while the loop acts
HookEnd(sent) ==
  LET h == Head(hooks)
      l == Answered(ledger, h.answer)
      own == InTurn(l, h)
      due == {k \in own \cap Tasks : ~l[k].reminded}
      told == IF h.said THEN own \ Tasks ELSE {}
  IN
  /\ hooks # <<>> /\ h.on = "end"
  /\ ledger' = [k \in Keys |-> IF k \in told THEN [l[k] EXCEPT !.status = "done", !.by = h.id]
                               ELSE IF k \in due THEN [l[k] EXCEPT !.reminded = TRUE] ELSE l[k]]
  /\ queue' = IF sent THEN queue \o SetToSeq({[key |-> k, id |-> l[k].id, reminder |-> TRUE, watched |-> TRUE] : k \in due})
              ELSE queue
  /\ heard' = [i \in Ids |-> IF i = h.id /\ h.said /\ heard[i] = "started" THEN "said" ELSE heard[i]]
  /\ hooks' = Tail(hooks)
  /\ shown' = [k \in Keys |-> IF sent /\ k \in due THEN [shown[k] EXCEPT !.reminders = @ + 1] ELSE shown[k]]
  /\ UNCHANGED <<now, todo, exec, turn, lastId, turns, asked, misled, upsets>>

\* mutant: a drop is matched by the id alone
DroppedAny(h) == {k \in Keys : Runs(ledger, k) /\ ledger[k].id = h.id}

\* lateDrop: the open wake with that id whose turn has not started
Dropped(h) == {k \in Keys : Runs(ledger, k) /\ ledger[k].id = h.id /\ ledger[k].turn = 0}

\* lost, with the attempt given back
Lost(e) == [e EXCEPT !.status = "lost", !.attempts = @ - 1]

HookDrop ==
  LET h == Head(hooks) IN
  /\ hooks # <<>> /\ h.on = "drop"
  /\ ledger' = [k \in Keys |-> IF k \in Dropped(h) THEN Lost(ledger[k]) ELSE ledger[k]]
  /\ hooks' = Tail(hooks)
  /\ UNCHANGED <<now, todo, exec, queue, turn, lastId, turns, shown, heard, asked, misled, upsets>>

Upset == upsets < MaxUpsets /\ upsets' = upsets + 1

\* ledgerFor: the kill switch is set, the mode changed, or the ledger cannot be loaded
HookOff ==
  /\ hooks # <<>> /\ Upset
  /\ hooks' = Tail(hooks)
  /\ UNCHANGED <<now, ledger, todo, exec, queue, turn, lastId, turns, shown, heard, asked, misled>>

\* the module goes with its pass and its hooks; the session's prompts and its turn stay
Reload ==
  /\ Upset
  /\ todo' = None /\ exec' = Idle /\ hooks' = <<>>
  /\ queue' = [i \in DOMAIN queue |-> [queue[i] EXCEPT !.watched = FALSE]]
  /\ UNCHANGED <<now, ledger, turn, lastId, turns, shown, heard, asked, misled>>

\* orphanedWakes: the wakes the old session left open are lost
Orphaned(l) == [k \in Keys |-> IF Runs(l, k) THEN Lost(l[k]) ELSE l[k]]

\* the session goes with its prompts, and a new one loads the ledger
Restart ==
  /\ Upset
  /\ ledger' = Orphaned(ledger)
  /\ todo' = None /\ exec' = Idle /\ hooks' = <<>> /\ queue' = <<>> /\ turn' = None
  /\ shown' = [k \in Keys |-> [asks |-> 0, reminders |-> 0]]
  /\ UNCHANGED <<now, lastId, turns, heard, asked, misled>>

\* the clock, in steps of a wake's timeout: neither a submit's grace nor a hook takes that long
Tick ==
  /\ now < MaxNow /\ now' = now + 1
  /\ exec = Idle /\ hooks = <<>>
  /\ UNCHANGED <<ledger, todo, exec, queue, turn, hooks, lastId, turns, shown, heard, asked, misled, upsets>>

Next ==
  \/ Plan \/ Start \/ Hold \/ Submit \/ Queued \/ Record
  \/ TurnStart \/ Chat \/ HookStart \/ HookDrop \/ HookOff \/ Reload \/ Restart \/ Tick
  \/ \E i \in DOMAIN queue : Drop(i)
  \/ \E said \in BOOLEAN, answer \in 0..lastId : TurnEnd(said, answer)
  \/ \E answer \in 1..lastId : Tool(answer)
  \/ \E sent \in BOOLEAN : HookEnd(sent)

\* a pass comes again, its submit settles by the grace, hooks run, and time passes; that the
\* session ever takes a prompt is not assumed
Fairness ==
  /\ WF_vars(Plan) /\ WF_vars(Start \/ Hold \/ Submit \/ Queued \/ Record) /\ WF_vars(Tick)
  /\ WF_vars(HookStart \/ HookDrop \/ \E sent \in BOOLEAN : HookEnd(sent))

Spec == Init /\ [][Next]_vars
FairSpec == Spec /\ Fairness

----------------------------------------------------------------------------
(* Properties *)

\* One wake is open at a time (rule O2), though the pass acts on it after its plan, and hooks,
\* drops, reloads and undone starts come in between.
OneOpen == \A j, k \in Keys : Runs(ledger, j) /\ Runs(ledger, k) => j = k

\* prompt i was submitted for a wake of k's kind and name
Kin(k, i) == i \in Ids /\ asked[i] \in Keys /\ Sort[asked[i]] = Sort[k]

\* A tell is delivered by the end of its own turn, and a task answered by its own id.  Only where its
\* entry, while it had no id, took the turn of another prompt for its own (onTurnStart matches by kind
\* and name) can another end it, and then none but a prompt of that kind and name.
OwnTurn ==
  \A k \in Keys : ledger[k] # None /\ ledger[k].status = "done" =>
    ledger[k].by = ledger[k].mine \/ (k \in misled /\ Kin(k, ledger[k].by))

\* The session sees a wake once, and one reminder of it, whatever is dropped, queued or reloaded;
\* only a restart, which takes its prompts away, asks again.  A wake that took another's turn for its
\* own may be reminded of that turn's end, undone as its own prompt falls, and reminded again.
AskedOnce == \A k \in Keys : shown[k].asks <= 1 /\ (k \notin misled => shown[k].reminders <= 1)

\* A tell whose turn was heard to start and then to end with something said is never open again:
\* the executor that returns after it does not reopen it.  One that took another's turn for its own
\* while it waited in submit does not hear its own start, and stays open to its timeout.
Told ==
  \A k \in Keys \ (Tasks \cup misled) : Runs(ledger, k) /\ ledger[k].mine # 0 => heard[ledger[k].mine] # "said"

\* The same as the comment of onTurnStart has it: the one open entry of that kind and name is the
\* turn's.  It is not, where the prompt of a timed-out wake starts while the next has no id.
OwnTurnOnly == \A k \in Keys : ledger[k] # None /\ ledger[k].status = "done" => ledger[k].by = ledger[k].mine

\* The open wake ends, whether or not the session takes it, and the next may go out.
WakeEnds == Open(ledger) ~> ~Open(ledger)
=============================================================================
