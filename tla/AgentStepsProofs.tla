--------------------------- MODULE AgentStepsProofs ---------------------------
(***************************************************************************)
(* AgentSteps for any keys, roles, steps, reloads and restarts: an end is  *)
(* final, a repair goes out once, a gated answer waits for its own turn    *)
(* (IInv, with no race excluded); and, where no module loads while a       *)
(* resumed agent is listed as ended, the list loses no agent at work and   *)
(* no answer that may still be taken (JudgeInv).                           *)
(*                                                                         *)
(* A pass judges a list it read when it began, against hooks, repairs and  *)
(* agents that went on. What makes that right: an agent at work is in the  *)
(* list, or its repair is being answered, or was within the grace, which   *)
(* starts again what was seen of its turn's end (ListInv); an answer whose *)
(* hold was over when the pass began is on its way to its entry (OverInv), *)
(* so none is held again and found lost; and an entry that comes to look   *)
(* lost after it was read had nothing to read (LossInv).                   *)
(***************************************************************************)
EXTENDS AgentSteps, TLAPS

Turn == [key : Keys, reason : {"answer", "error"}]
Statuses == Ended \cup {"none", "running"}
Holds == {"no", "held", "over"}
HookPhases == {"reading", "read", "sending", "taken"}
Looking == {"listed", "losing", "answers"}

-----------------------------------------------------------------------------
(* Types. *)

LEMMA HookIs ==
  ASSUME hook \in Hooks
  PROVE  /\ hook.phase \in HookPhases \cup {"idle"}
         /\ hook = Idle <=> hook.phase = "idle"
         /\ hook # Idle => /\ hook.key \in Keys /\ hook.reason \in {"answer", "error"} /\ hook.verdict \in Verdicts
                           /\ hook = [phase |-> hook.phase, key |-> hook.key, reason |-> hook.reason, verdict |-> hook.verdict]
BY DEF Hooks, Idle, HookPhases

LEMMA PassIs ==
  ASSUME pass \in Passes
  PROVE  /\ pass.phase \in Looking \cup {"idle", "spawn", "spawned"}
         /\ pass = Idle <=> pass.phase = "idle"
         /\ pass.phase \in Looking =>
              /\ pass.list \in [Keys -> Views] /\ pass.over \subseteq Keys /\ pass.todo \subseteq Keys
              /\ pass.verdict \in [Keys -> Verdicts]
              /\ pass = [phase |-> pass.phase, list |-> pass.list, over |-> pass.over, todo |-> pass.todo, verdict |-> pass.verdict]
         /\ pass.phase \in {"spawn", "spawned"} => pass.key \in Keys /\ pass = [phase |-> pass.phase, key |-> pass.key]
<1>1. CASE pass = Idle
  BY <1>1 DEF Idle, Looking
<1>2. CASE pass \in [phase : Looking, list : [Keys -> Views], over : SUBSET Keys, todo : SUBSET Keys, verdict : [Keys -> Verdicts]]
  BY <1>2 DEF Idle, Looking
<1>3. CASE pass \in [phase : {"spawn", "spawned"}, key : Keys]
  BY <1>3 DEF Idle, Looking
<1> QED BY <1>1, <1>2, <1>3 DEF Passes, Looking

\* What a reader makes of an answer.
LEMMA TakeIs ==
  ASSUME TypeOK, NEW k \in Keys, NEW atEnd \in BOOLEAN
  PROVE  /\ Take(k, atEnd).verdict \in {"none", "answered", "overdue"} /\ Take(k, atEnd).hold \in Holds
         /\ k \notin Gated => Take(k, atEnd).hold = "no" /\ Take(k, atEnd).verdict # "overdue"
         /\ k \notin Gated /\ atEnd => Take(k, atEnd).verdict = "answered"
         /\ k \in Gated /\ Take(k, atEnd).verdict = "answered" => gate[k] \in Settling
         /\ k \in Gated /\ Take(k, atEnd).verdict = "none" => gate[k] = "rerun-fail" \/ (hold[k] # "over" /\ Take(k, atEnd).hold = "held")
         /\ k \in Gated /\ hold[k] = "over" => gate[k] = "rerun-fail" \/ Take(k, atEnd).verdict # "none"
BY DEF Take, TypeOK, Holds, Settling

LEMMA RecordedIs ==
  ASSUME TypeOK, NEW k \in Keys, NEW atEnd \in BOOLEAN
  PROVE  /\ Recorded(k, atEnd).verdict \in {"none", "answered", "overdue"} /\ Recorded(k, atEnd).hold \in Holds
         /\ k \notin Gated => Recorded(k, atEnd).hold = "no"
BY TakeIs DEF Recorded, TypeOK, Holds

LEMMA GivenIs ==
  ASSUME TypeOK, NEW k \in Keys, NEW reason \in {"answer", "error"}
  PROVE  /\ Given(k, reason).verdict \in Verdicts /\ Given(k, reason).hold \in Holds
         /\ k \notin Gated => Given(k, reason).hold = "no"
         /\ Given(k, reason).verdict = "repair" => file[k] = "no"
<1>1. Take(k, TRUE).verdict \in {"none", "answered", "overdue"} /\ Take(k, TRUE).hold \in Holds /\ (k \notin Gated => Take(k, TRUE).hold = "no")
  BY TakeIs
<1>2. hold[k] \in Holds /\ (k \notin Gated => hold[k] = "no")
  BY DEF TypeOK, Holds
<1>3. CASE reason = "error"
  BY <1>2, <1>3 DEF Given, Verdicts
<1>4. CASE reason = "answer" /\ file[k] # "no"
  BY <1>1, <1>4 DEF Given, Verdicts
<1>5. CASE reason = "answer" /\ file[k] = "no"
  BY <1>2, <1>5 DEF Given, Verdicts
<1> QED BY <1>3, <1>4, <1>5

LEMMA SeenIs == ASSUME TypeOK PROVE Seen \in [Keys -> {"no", "now", "before"}]
BY DEF Seen, TypeOK

LEMMA ReconciledIs == ASSUME TypeOK, NEW k \in Keys PROVE Reconciled(k) \in Statuses
BY DEF Reconciled, TypeOK, Entry, Statuses, Ended

Verdict == {"none", "answered", "overdue"}
\* what was read is a verdict: the pass never asks for a repair, and a hook that read one has it
Reads ==
  /\ pass.phase \in Looking => pass.verdict \in [Keys -> Verdict]
  /\ hook.phase = "read" => hook.verdict # "none"
Types == TypeOK /\ Reads

LEMMA EntryIs ==
  ASSUME entry \in [Keys -> Entry], NEW k \in Keys
  PROVE  /\ entry[k].status \in Statuses /\ entry[k].id \in BOOLEAN /\ entry[k].reminded \in BOOLEAN
         /\ \A s \in Statuses : /\ [entry[k] EXCEPT !.status = s] \in Entry
                                /\ [entry[k] EXCEPT !.status = s].status = s
                                /\ [entry[k] EXCEPT !.status = s].id = entry[k].id
                                /\ [entry[k] EXCEPT !.status = s].reminded = entry[k].reminded
BY DEF Entry, Statuses

\* The one step of a reader: some entries that ran end.
LEMMA AppliedIs ==
  ASSUME Types, pass.phase \in Looking, NEW ks
  PROVE  /\ Applied(ks) \in [Keys -> Entry]
         /\ \A k \in Keys : Applied(ks)[k] = IF k \in ks /\ Runs(k) /\ pass.verdict[k] # "none"
                                               THEN [entry[k] EXCEPT !.status = pass.verdict[k]] ELSE entry[k]
<1>1. pass.verdict \in [Keys -> Verdict] /\ entry \in [Keys -> Entry]
  BY DEF Types, Reads, TypeOK
<1>2. \A k \in Keys : pass.verdict[k] \in Statuses \cup {"none"}
  BY <1>1 DEF Verdict, Statuses, Ended
<1>3. \A k \in Keys : pass.verdict[k] # "none" => pass.verdict[k] \in Statuses
  BY <1>2
<1>4. \A k \in Keys : entry[k] \in Entry
  BY <1>1
<1>5. \A k \in Keys : pass.verdict[k] # "none" => [entry[k] EXCEPT !.status = pass.verdict[k]] \in Entry
  BY <1>1, <1>3, EntryIs
<1> QED BY <1>4, <1>5 DEF Applied

LEMMA EntryEnds ==
  ASSUME entry \in [Keys -> Entry], NEW k \in Keys, NEW s \in Statuses
  PROVE  /\ Ends(k, s) \in [Keys -> Entry]
         /\ Ends(k, s)[k] = [entry[k] EXCEPT !.status = s]
         /\ \A j \in Keys : j # k => Ends(k, s)[j] = entry[j]
BY EntryIs DEF Ends

LEMMA InitTypes == Init => Types
BY DEF Init, Types, Reads, TypeOK, Entry, Ended, Hooks, Passes, Idle, Views, Looking

-----------------------------------------------------------------------------
(* Types are kept. *)

LEMMA EngineTypes ==
  ASSUME Types, NEW k \in Keys, Answer(k) \/ Stop(k) \/ StopGate(k) \/ LateLine(k) \/ Die(k) \/ List(k) \/ Recover(k)
  PROVE  Types'
<1>1. UNCHANGED <<entry, hook, pass, between, repairs, upsets>>
  BY DEF Answer, Stop, StopGate, LateLine, Die, List, Recover
<1>2. agent' \in [Keys -> {"none", "working", "gate", "cut", "over", "dead"}]
  <2>1. UNCHANGED agent \/ \E a \in {"working", "gate", "over", "dead"} : agent' = [agent EXCEPT ![k] = a]
    BY DEF Answer, Stop, StopGate, LateLine, Die, List, Recover, Does
  <2> QED BY <2>1 DEF Types, TypeOK
<1>3. file' \in [Keys -> {"no", "ok", "not-ok"}]
  BY DEF Types, TypeOK, Answer, Stop, StopGate, LateLine, Die, List, Recover
<1>4. gate' \in [Keys -> Settling \cup {"no", "fail", "rerun-fail"}]
  BY DEF Types, TypeOK, Answer, Stop, StopGate, LateLine, Die, List, Recover, Settling
<1>5. listed' \in [Keys -> Views]
  BY DEF Types, TypeOK, Answer, Stop, StopGate, LateLine, Die, List, Recover, Shows, Views
<1>6. hooks' \in Seq(Turn)
  <2>1. hooks \in Seq(Turn) /\ \A r \in {"answer", "error"} : [key |-> k, reason |-> r] \in Turn
    BY DEF Types, TypeOK, Turn
  <2>2. \A r \in {"answer", "error"} : Append(hooks, [key |-> k, reason |-> r]) \in Seq(Turn)
    BY <2>1
  <2>3. UNCHANGED hooks \/ \E r \in {"answer", "error"} : TurnEnds(k, r)
    BY DEF Answer, Stop, StopGate, LateLine, Die, List, Recover
  <2> QED BY <2>1, <2>2, <2>3 DEF TurnEnds
<1> QED BY <1>1, <1>2, <1>3, <1>4, <1>5, <1>6 DEF Types, Reads, TypeOK, Turn, between, Runs

LEMMA HookTypes ==
  ASSUME Types, Hook \/ Resume \/ HookOff PROVE Types'
<1> USE DEF Types
<1>1. /\ hook.phase \in HookPhases \cup {"idle"} /\ hook \in Hooks /\ entry \in [Keys -> Entry]
      /\ hook.phase # "idle" =>
         /\ hook.key \in Keys /\ hook.reason \in {"answer", "error"} /\ hook.verdict \in Verdicts
         /\ hook = [phase |-> hook.phase, key |-> hook.key, reason |-> hook.reason, verdict |-> hook.verdict]
  BY HookIs DEF TypeOK
<1>2. Idle \in Hooks /\ Idle.phase = "idle" /\ \A p \in HookPhases, v \in Verdicts, t \in Turn : [phase |-> p, key |-> t.key, reason |-> t.reason, verdict |-> v] \in Hooks
  BY DEF Idle, Hooks, HookPhases, Turn
<1>3. \A p \in HookPhases, v \in Verdicts : hook.phase # "idle" =>
         /\ [hook EXCEPT !.phase = p, !.verdict = v] \in Hooks /\ [hook EXCEPT !.phase = p, !.verdict = v].verdict = v
  BY <1>1 DEF Hooks, HookPhases
<1>4. \A p \in HookPhases : hook.phase # "idle" => [hook EXCEPT !.phase = p] \in Hooks /\ [hook EXCEPT !.phase = p].phase = p
  BY <1>1 DEF Hooks, HookPhases
<1>5. hooks \in Seq(Turn)
  BY DEF TypeOK, Turn
<1>6. hooks # <<>> => Head(hooks) \in Turn /\ Tail(hooks) \in Seq(Turn)
  BY <1>5
<1>7. CASE HookStart
  <2>1. hook' \in Hooks /\ (hook' = hook \/ hook'.phase = "reading")
    BY <1>1, <1>2, <1>6, <1>5, <1>7 DEF HookStart, HookPhases, Verdicts
  <2>2. hooks' \in Seq(Turn) /\ repairing' \in [Keys -> BOOLEAN]
    BY <1>6, <1>5, <1>7 DEF HookStart, TypeOK
  <2> QED BY <1>7, <2>1, <2>2 DEF HookStart, TypeOK, Reads, engine, Turn, Runs
<1>8. CASE HookRead
  <2>1. hook.phase # "idle" /\ hook.key \in Keys /\ hook.reason \in {"answer", "error"}
    BY <1>1, <1>8 DEF HookRead
  <2> DEFINE g == Given(hook.key, hook.reason)
  <2>2. g.verdict \in Verdicts /\ g.hold \in Holds /\ (hook.key \notin Gated => g.hold = "no")
    BY <2>1, GivenIs
  <2>3. hook' = (IF g.verdict = "none" THEN Idle ELSE [hook EXCEPT !.phase = "read", !.verdict = g.verdict])
        /\ hold' = [hold EXCEPT ![hook.key] = g.hold]
    BY <1>8 DEF HookRead
  <2> HIDE DEF g
  <2>4. hook' \in Hooks /\ (hook'.phase = "read" => hook'.verdict # "none")
    BY <1>2, <1>3, <2>1, <2>2, <2>3 DEF HookPhases
  <2>5. hold' \in [Keys -> Holds] /\ \A k \in Keys \ Gated : hold'[k] = "no"
    BY <2>1, <2>2, <2>3 DEF TypeOK, Holds
  <2> QED BY <1>8, <2>4, <2>5 DEF HookRead, TypeOK, Reads, engine, Holds
<1>9. CASE HookApply
  <2>1. hook.phase = "read" /\ hook.key \in Keys /\ hook.verdict # "none"
    BY <1>1, <1>9 DEF HookApply, Reads
  <2>2. hook' \in Hooks /\ hook'.phase # "read"
    BY <1>2, <1>4, <1>9, <2>1 DEF HookApply, HookPhases
  <2>3. entry' \in [Keys -> Entry]
    <3>1. Marked(hook.key) \in [Keys -> Entry]
      BY <1>1, <2>1 DEF Marked, Entry
    <3>2. (IF hook.verdict = "repair" THEN "unknown" ELSE hook.verdict) \in Statuses
      BY <1>1, <2>1 DEF Verdicts, Statuses, Ended
    <3>3. Ends(hook.key, IF hook.verdict = "repair" THEN "unknown" ELSE hook.verdict) \in [Keys -> Entry]
      BY <1>1, <2>1, <3>2, EntryEnds
    <3> QED BY <1>1, <1>9, <3>1, <3>3 DEF HookApply
  <2> QED BY <1>9, <2>2, <2>3 DEF HookApply, TypeOK, Reads, engine, between
<1>10. CASE Resume
  <2>1. hook' \in Hooks /\ hook'.phase # "read" /\ hook.key \in Keys
    BY <1>1, <1>4, <1>10 DEF Resume, HookPhases
  <2>2. agent' \in [Keys -> {"none", "working", "gate", "cut", "over", "dead"}] /\ repairs' \in [Keys -> Nat]
    BY <1>10, <2>1 DEF Resume, Does, TypeOK
  <2> QED BY <1>10, <2>1, <2>2 DEF Resume, TypeOK, Reads, between
<1>11. CASE Delivered
  <2>1. seen' \in [Keys -> {"no", "now", "before"}] /\ repairing' \in [Keys -> BOOLEAN]
    BY <1>11 DEF Delivered, TypeOK
  <2> QED BY <1>2, <1>11, <2>1 DEF Delivered, TypeOK, Reads, engine
<1>12. CASE Undelivered
  <2>1. hook.key \in Keys
    BY <1>1, <1>12 DEF Undelivered
  <2>2. entry' \in [Keys -> Entry]
    BY <1>1, <1>12, <2>1, EntryEnds DEF Undelivered, Statuses, Ended
  <2> QED BY <1>2, <1>12, <2>2 DEF Undelivered, TypeOK, Reads, engine, between
<1>13. CASE HookOff
  <2>1. hooks' \in Seq(Turn) /\ upsets' \in Nat
    BY <1>6, <1>5, <1>13 DEF HookOff, Upset, TypeOK
  <2> QED BY <1>13, <2>1 DEF HookOff, TypeOK, Reads, engine, between, Turn
<1> QED BY <1>7, <1>8, <1>9, <1>10, <1>11, <1>12, <1>13 DEF Hook

LEMMA PassTypes ==
  ASSUME Types, Pass PROVE Types'
<1> USE DEF Types
<1> DEFINE Shape(p) == p \in [phase : Looking, list : [Keys -> Views], over : SUBSET Keys, todo : SUBSET Keys, verdict : [Keys -> Verdict]]
<1>1. \A p : Shape(p) => p \in Passes /\ (p.phase \in Looking => p.verdict \in [Keys -> Verdict])
  <2> SUFFICES ASSUME NEW p, Shape(p) PROVE p \in Passes /\ p.verdict \in [Keys -> Verdict]
    OBVIOUS
  <2>1. [Keys -> Verdict] \subseteq [Keys -> Verdicts]
    BY DEF Verdict, Verdicts
  <2>2. p.verdict \in [Keys -> Verdicts]
    BY <2>1
  <2> QED BY <2>2 DEF Passes, Looking
<1>2. pass.phase \in Looking => Shape(pass)
  BY PassIs DEF TypeOK, Reads
<1>3. Idle \in Passes /\ Idle.phase \notin Looking
  BY DEF Idle, Passes, Looking
<1>4. \A p \in {"spawn", "spawned"}, k \in Keys : [phase |-> p, key |-> k] \in Passes /\ [phase |-> p, key |-> k].phase \notin Looking
  BY DEF Passes, Looking
<1>5. Nothing \in [Keys -> Verdict]
  BY DEF Nothing, Verdict
<1>6. ASSUME pass.phase \in Looking, NEW p \in Looking, NEW t \in SUBSET Keys PROVE Shape(Begin(p, t))
  BY <1>2, <1>5, <1>6 DEF Begin
<1>7. hook \in Hooks /\ entry \in [Keys -> Entry] /\ (hook.phase = "read" => hook.verdict # "none")
  BY DEF TypeOK, Reads
<1>8. CASE PassList
  <2> DEFINE p == [phase |-> "listed", list |-> listed, over |-> {k \in Keys : hold[k] = "over"}, todo |-> {}, verdict |-> Nothing]
  <2>1. Shape(p) /\ pass' = p
    BY <1>5, <1>8 DEF PassList, TypeOK, Looking
  <2> HIDE DEF p
  <2>2. seen' \in [Keys -> {"no", "now", "before"}]
    BY <1>8 DEF PassList, TypeOK
  <2> QED BY <1>1, <1>8, <2>1, <2>2 DEF PassList, TypeOK, Reads, engine
<1>9. ASSUME NEW ok \in BOOLEAN, PassJudge(ok) PROVE Types'
  <2>1. Shape(pass')
    BY <1>6, <1>9 DEF PassJudge, Looking
  <2>2. seen' \in [Keys -> {"no", "now", "before"}]
    BY <1>9, SeenIs DEF PassJudge, TypeOK
  <2> QED BY <1>1, <1>9, <2>1, <2>2 DEF PassJudge, TypeOK, Reads, engine
<1>10. ASSUME NEW k \in Keys, PassRead(k) PROVE Types'
  <2>1. pass.phase \in Looking
    BY <1>10 DEF PassRead, Looking
  <2> DEFINE r == Recorded(k, pass.phase = "losing")
  <2>2. r.verdict \in Verdict /\ r.hold \in Holds /\ (k \notin Gated => r.hold = "no")
    <3>1. CASE pass.phase = "losing"
      <4>1. (pass.phase = "losing") = TRUE
        BY <3>1
      <4> QED BY <4>1, RecordedIs DEF Verdict
    <3>2. CASE pass.phase # "losing"
      <4>1. (pass.phase = "losing") = FALSE
        BY <3>2
      <4> QED BY <4>1, RecordedIs DEF Verdict
    <3> QED BY <3>1, <3>2
  <2>3. pass' = [pass EXCEPT !.todo = @ \ {k}, !.verdict[k] = r.verdict] /\ hold' = [hold EXCEPT ![k] = r.hold]
    BY <1>10 DEF PassRead
  <2> HIDE DEF r
  <2>4. Shape(pass')
    BY <1>2, <2>1, <2>2, <2>3
  <2>5. hold' \in [Keys -> Holds] /\ \A j \in Keys \ Gated : hold'[j] = "no"
    BY <2>2, <2>3 DEF TypeOK, Holds
  <2> QED BY <1>1, <1>10, <2>4, <2>5 DEF PassRead, TypeOK, Reads, engine, Holds
<1>11. ASSUME NEW k \in Keys, PassKeep(k) PROVE Types'
  <2>1. pass.phase \in Looking
    BY <1>11 DEF PassKeep, Looking
  <2>2. Shape(pass')
    BY <1>2, <1>11, <2>1 DEF PassKeep, Verdict
  <2>3. entry' \in [Keys -> Entry]
    BY <1>11, <2>1, AppliedIs DEF PassKeep
  <2> QED BY <1>1, <1>11, <2>2, <2>3 DEF PassKeep, TypeOK, Reads, engine, between
<1>12. CASE PassLose
  <2>1. pass.phase \in Looking
    BY <1>12 DEF PassLose, Looking
  <2>2. Shape(pass')
    <3>1. {k \in Keys : Runs(k)'} \subseteq Keys
      OBVIOUS
    <3> QED BY <1>6, <1>12, <2>1, <3>1 DEF PassLose, Looking
  <2>3. entry' \in [Keys -> Entry]
    <3>1. \A k \in Keys : [entry[k] EXCEPT !.status = Reconciled(k)] \in Entry
      BY <1>7, EntryIs, ReconciledIs
    <3> QED BY <1>12, <3>1 DEF PassLose
  <2>4. seen' \in [Keys -> {"no", "now", "before"}] /\ hold' \in [Keys -> Holds] /\ \A j \in Keys \ Gated : hold'[j] = "no"
    BY <1>12, SeenIs DEF PassLose, TypeOK, Holds
  <2> QED BY <1>1, <1>12, <2>2, <2>3, <2>4 DEF PassLose, TypeOK, Reads, engine, Holds
<1>13. ASSUME NEW next \in SUBSET Keys, PassAnswers(next) PROVE Types'
  <2>1. pass.phase \in Looking
    BY <1>13 DEF PassAnswers, Looking
  <2>2. pass' \in Passes /\ pass'.phase \notin Looking
    BY <1>3, <1>4, <1>13 DEF PassAnswers
  <2>3. entry' \in [Keys -> Entry]
    <3>1. \A k \in Keys : [entry[k] EXCEPT !.status = "running"] \in Entry
      BY <1>7, EntryIs DEF Statuses
    <3> QED BY <1>13, <2>1, <3>1, AppliedIs DEF PassAnswers
  <2> QED BY <1>13, <2>2, <2>3 DEF PassAnswers, TypeOK, Reads, engine, between
<1>14. CASE Spawn
  <2>1. pass.key \in Keys /\ pass = [phase |-> "spawn", key |-> pass.key]
    BY <1>14, PassIs DEF Spawn, TypeOK
  <2>2. pass' \in Passes /\ pass'.phase \notin Looking
    BY <1>3, <1>4, <1>14, <2>1 DEF Spawn
  <2>3. entry' \in [Keys -> Entry]
    <3>1. \A s \in {"failed", "none"} : Ends(pass.key, s) \in [Keys -> Entry]
      BY <1>7, <2>1, EntryEnds DEF Statuses, Ended
    <3> QED BY <1>7, <1>14, <3>1 DEF Spawn
  <2>4. agent' \in [Keys -> {"none", "working", "gate", "cut", "over", "dead"}] /\ listed' \in [Keys -> Views]
    BY <1>14, <2>1 DEF Spawn, Does, TypeOK, Views
  <2> QED BY <1>14, <2>2, <2>3, <2>4 DEF Spawn, TypeOK, Reads, between
<1>15. CASE Spawned
  <2>1. pass.key \in Keys
    BY <1>15, PassIs DEF Spawned, TypeOK
  <2>2. entry' \in [Keys -> Entry]
    BY <1>7, <1>15, <2>1 DEF Spawned, Entry
  <2> QED BY <1>3, <1>15, <2>2 DEF Spawned, TypeOK, Reads, engine, between
<1> QED BY <1>8, <1>9, <1>10, <1>11, <1>12, <1>13, <1>14, <1>15 DEF Pass

LEMMA OtherTypes ==
  ASSUME Types, Time \/ Reload \/ Restart PROVE Types'
<1> USE DEF Types
<1>1. ASSUME NEW k \in Keys, HoldOver(k) PROVE Types'
  <2>1. k \in Gated
    BY <1>1 DEF HoldOver, TypeOK
  <2>2. hold' \in [Keys -> Holds] /\ \A j \in Keys \ Gated : hold'[j] = "no"
    BY <1>1, <2>1 DEF HoldOver, TypeOK, Holds
  <2> QED BY <1>1, <2>2 DEF HoldOver, TypeOK, Reads, engine, Holds
<1>2. ASSUME NEW k \in Keys, RepairOver(k) PROVE Types'
  BY <1>2 DEF RepairOver, TypeOK, Reads, engine
<1>3. CASE Reload \/ Restart
  <2>1. Loaded
    BY <1>3 DEF Reload, Restart
  <2>2. entry' \in [Keys -> Entry]
    <3>1. \A k \in Keys : [entry[k] EXCEPT !.status = "lost"] \in Entry /\ entry[k] \in Entry
      BY EntryIs DEF TypeOK, Statuses, Ended
    <3> QED BY <2>1, <3>1 DEF Loaded
  <2>3. hook' \in Hooks /\ pass' \in Passes /\ hook'.phase = "idle" /\ pass'.phase \notin Looking
    BY <2>1 DEF Loaded, Idle, Hooks, Passes, Looking
  <2>4. agent' \in [Keys -> {"none", "working", "gate", "cut", "over", "dead"}] /\ listed' \in [Keys -> Views]
    BY <1>3 DEF Reload, Restart, TypeOK, Views
  <2>5. UNCHANGED <<file, gate, repairs>> /\ upsets' \in Nat /\ hooks' = <<>>
    BY <1>3, <2>1 DEF Reload, Restart, Loaded, Upset, TypeOK
  <2>6. /\ seen' \in [Keys -> {"no", "now", "before"}] /\ repairing' \in [Keys -> BOOLEAN] /\ hold' \in [Keys -> Holds]
        /\ \A k \in Keys \ Gated : hold'[k] = "no"
    BY <2>1 DEF Loaded, Holds
  <2>7. hooks' \in Seq(Turn)
    BY <2>5
  <2> QED BY <2>2, <2>3, <2>4, <2>5, <2>6, <2>7 DEF TypeOK, Reads, Holds, Turn
<1> QED BY <1>1, <1>2, <1>3 DEF Time

LEMMA TypesKept == Types /\ [Next]_vars => Types'
<1> SUFFICES ASSUME Types, [Next]_vars PROVE Types'
  OBVIOUS
<1>1. CASE UNCHANGED vars
  BY <1>1 DEF vars, between, Types, TypeOK, Reads
<1> QED BY <1>1, EngineTypes, HookTypes, PassTypes, OtherTypes DEF Next, Engine

-----------------------------------------------------------------------------
(* The invariant. *)

\* the loop's bookkeeping of a step: what starts runs with no agent yet, what has no entry has none
StartInv ==
  /\ pass.phase \in {"spawn", "spawned"} => Runs(pass.key) /\ ~entry[pass.key].id
  /\ pass.phase = "spawn" => agent[pass.key] = "none"
  /\ \A k \in Keys : entry[k].status = "none" => agent[k] = "none" /\ ~entry[k].id

\* what an agent's state says of its gate and of the list
AgentInv ==
  \A k \in Keys :
    /\ agent[k] \in {"gate", "cut"} \/ gate[k] # "no" => k \in Gated
    /\ agent[k] = "none" => gate[k] = "no"
    /\ gate[k] = "rerun-fail" => agent[k] = "dead"
    /\ listed[k] = "no" => ~AtWork(k)
    /\ listed[k] = "failed" => agent[k] = "dead"

Queued(k) == \E i \in DOMAIN hooks : hooks[i].key = k
\* an agent's turn end is heard once, while no other turn of it can begin; a repair is on the entry
\* before it goes out, and its agent stays listed until the send is answered
HookInv ==
  /\ \A i, j \in DOMAIN hooks : hooks[i].key = hooks[j].key => i = j
  /\ \A k \in Keys : Queued(k) => agent[k] \in {"over", "dead"}
  /\ hook.phase \in {"reading", "read", "sending"} => agent[hook.key] \in {"over", "dead"} /\ ~Queued(hook.key)
  /\ hook # Idle => entry[hook.key].id
  /\ hook.phase \in {"sending", "taken"} => entry[hook.key].reminded
  /\ hook.phase = "taken" => agent[hook.key] \notin {"none", "cut"} /\ listed[hook.key] # "no"

\* in an agent's first turn no gate of it has settled, so no reader takes a gated answer
TurnInv ==
  \A k \in Keys : AtWork(k) /\ ~entry[k].reminded =>
    /\ gate[k] \in {"no", "fail"}
    /\ k \in Gated => /\ entry[k].status # "answered"
                      /\ pass.phase \in Looking => pass.verdict[k] # "answered"

Judging == pass.phase \in {"listed", "losing"}
\* an agent at work is listed as such, unless its repair is being answered or was within the grace
ListInv ==
  \A k \in Keys :
    /\ Judging /\ pass.list[k] = "failed" => agent[k] = "dead"
    /\ Judging /\ pass.list[k] = "no" => listed[k] = "no"
    /\ repairing[k] => seen[k] = "no"
    /\ AtWork(k) /\ Runs(k) => \/ hook.phase = "taken" /\ hook.key = k
                               \/ repairing[k]
                               \/ listed[k] = "running" /\ (Judging => pass.list[k] = "running")

\* the entries the judged list proves lost now
Lost(k) ==
  /\ Runs(k) /\ entry[k].id /\ ~Answering(k) /\ ~Holding(k)
  /\ \/ pass.list[k] = "no"
     \/ pass.list[k] = "ended" /\ ~repairing[k] /\ seen[k] = "before"
NothingLeft(k) == file[k] = "no" \/ gate[k] = "rerun-fail"
\* an answer whose hold was over when the pass began is not held again: it is on its way to its entry
OverInv ==
  Judging => \A k \in pass.over : Runs(k) =>
    \/ hold[k] = "over"
    \/ hook.phase = "read" /\ hook.key = k /\ hook.verdict # "repair"
    \/ pass.phase = "losing" /\ pass.verdict[k] # "none"
    \/ gate[k] = "rerun-fail"
\* an entry that would be lost, and was read, had no answer to take
LossInv ==
  pass.phase = "losing" => \A k \in Keys :
    Lost(k) /\ k \notin pass.todo /\ pass.verdict[k] = "none" => NothingLeft(k)

\* a repair was sent only by an entry that says so
RepairInv ==
  \A k \in Keys : repairs[k] # 0 =>
    repairs[k] = 1 /\ entry[k].reminded /\ ~(hook.phase = "sending" /\ hook.key = k)

IInv == Types /\ StartInv /\ AgentInv /\ HookInv /\ TurnInv /\ RepairInv
\* what the judging of a list rests on
JudgeInv == ListInv /\ OverInv /\ LossInv

-----------------------------------------------------------------------------
(* What each action does to the entries and to the agents. *)

Started(k) == pass.phase \in {"spawn", "spawned"} /\ pass.key = k
\* an entry keeps what it says of its agent
Kept(k) == entry'[k].id = entry[k].id /\ entry'[k].reminded = entry[k].reminded

\* How an entry may change: from running to an end, or an attempt that starts; what else is kept.
LEMMA EntryMoves ==
  ASSUME IInv, [Next]_vars, NEW k \in Keys
  PROVE  \/ entry'[k] = entry[k]
         \/ Runs(k) /\ entry'[k].status \in Ended /\ Kept(k)
         \/ entry[k].status = "none" /\ entry'[k].status = "running" /\ Kept(k) /\ pass.phase = "answers"
            /\ pass'.phase = "spawn" /\ pass'.key = k
         \/ Runs(k) /\ entry'[k].status = "none" /\ Kept(k) /\ pass.phase = "spawn" /\ pass.key = k /\ UNCHANGED agent
         \/ Runs(k) /\ Runs(k)' /\ entry'[k].id = entry[k].id /\ entry'[k].reminded
            /\ hook.phase = "read" /\ hook.key = k /\ ~entry[k].reminded
         \/ Runs(k) /\ Runs(k)' /\ entry'[k].id /\ entry'[k].reminded = entry[k].reminded
            /\ pass.phase = "spawned" /\ pass.key = k /\ pass' = Idle
<1>1. entry \in [Keys -> Entry] /\ Types /\ hook \in Hooks /\ pass \in Passes
  BY DEF IInv, Types, TypeOK
<1>2. \A s \in Statuses : /\ [entry[k] EXCEPT !.status = s].status = s
                          /\ [entry[k] EXCEPT !.status = s].id = entry[k].id
                          /\ [entry[k] EXCEPT !.status = s].reminded = entry[k].reminded
  BY <1>1, EntryIs
<1>3. ASSUME NEW j \in Keys, NEW s \in Ended, Runs(j), entry' = Ends(j, s)
      PROVE  entry'[k] = entry[k] \/ (Runs(k) /\ entry'[k].status \in Ended /\ Kept(k))
  <2>1. s \in Statuses
    BY DEF Statuses
  <2>2. entry'[j] = [entry[j] EXCEPT !.status = s] /\ (k # j => entry'[k] = entry[k])
    BY <1>1, <1>3, <2>1, EntryEnds
  <2>3. CASE k = j
    BY <1>2, <1>3, <2>1, <2>2, <2>3 DEF Kept
  <2> QED BY <2>2, <2>3
<1>4. hook # Idle => hook.key \in Keys /\ hook.verdict \in Verdicts
  BY <1>1, HookIs
<1>5. CASE HookApply
  <2>1. hook.phase = "read" /\ hook.key \in Keys /\ hook.verdict \in Verdicts /\ hook.verdict # "none"
    BY <1>1, <1>4, <1>5, HookIs DEF HookApply, Types, Reads
  <2>2. CASE Runs(hook.key) /\ hook.verdict = "repair" /\ ~entry[hook.key].reminded
    BY <1>1, <1>5, <2>1, <2>2 DEF HookApply, Marked, Runs, Entry
  <2>3. CASE ~(Runs(hook.key) /\ hook.verdict = "repair" /\ ~entry[hook.key].reminded)
    <3>1. (IF hook.verdict = "repair" THEN "unknown" ELSE hook.verdict) \in Ended
      BY <2>1 DEF Verdicts, Ended
    <3>2. entry' = IF Runs(hook.key) THEN Ends(hook.key, IF hook.verdict = "repair" THEN "unknown" ELSE hook.verdict) ELSE entry
      BY <1>5, <2>3 DEF HookApply
    <3>3. PICK s \in Ended : entry' = IF Runs(hook.key) THEN Ends(hook.key, s) ELSE entry
      BY <3>1, <3>2
    <3> QED BY <1>3, <2>1, <3>3
  <2> QED BY <2>2, <2>3
<1>6. CASE Undelivered
  <2>1. "unknown" \in Ended /\ hook.key \in Keys
    BY <1>1, <1>4, <1>6, HookIs DEF Undelivered, Ended
  <2> QED BY <1>3, <1>6, <2>1 DEF Undelivered
<1>7. pass.phase \in Looking => \A ks : /\ Applied(ks)[k] = entry[k] \/ (Runs(k) /\ Applied(ks)[k].status \in Ended
                                             /\ Applied(ks)[k].id = entry[k].id /\ Applied(ks)[k].reminded = entry[k].reminded)
                                        /\ ~Runs(k) => Applied(ks)[k] = entry[k]
  <2> SUFFICES ASSUME pass.phase \in Looking, NEW ks
               PROVE  /\ Applied(ks)[k] = entry[k] \/ (Runs(k) /\ Applied(ks)[k].status \in Ended
                                             /\ Applied(ks)[k].id = entry[k].id /\ Applied(ks)[k].reminded = entry[k].reminded)
                      /\ ~Runs(k) => Applied(ks)[k] = entry[k]
    OBVIOUS
  <2>1. Applied(ks)[k] = IF k \in ks /\ Runs(k) /\ pass.verdict[k] # "none" THEN [entry[k] EXCEPT !.status = pass.verdict[k]] ELSE entry[k]
    BY <1>1, AppliedIs
  <2>2. pass.verdict[k] # "none" => pass.verdict[k] \in Ended
    BY <1>1 DEF Types, Reads, Verdict, Ended
  <2> QED BY <1>2, <2>1, <2>2 DEF Statuses
<1>8. ASSUME NEW j \in Keys, PassKeep(j) PROVE entry'[k] = entry[k] \/ (Runs(k) /\ entry'[k].status \in Ended /\ Kept(k))
  BY <1>7, <1>8 DEF PassKeep, Looking, Kept
<1>9. CASE PassLose
  <2>1. entry'[k] = [entry[k] EXCEPT !.status = Reconciled(k)]
    BY <1>9 DEF PassLose
  <2>2. Reconciled(k) \in {"failed", "lost"} \cup {entry[k].status} /\ (~Runs(k) => Reconciled(k) = entry[k].status)
    BY DEF Reconciled, Runs
  <2>3. Reconciled(k) = entry[k].status => entry'[k] = entry[k]
    BY <1>1, <2>1 DEF Entry
  <2> QED BY <1>2, <2>1, <2>2, <2>3 DEF Statuses, Ended, Kept
<1>10. ASSUME NEW next \in SUBSET Keys, PassAnswers(next)
       PROVE  \/ entry'[k] = entry[k] \/ (Runs(k) /\ entry'[k].status \in Ended /\ Kept(k))
              \/ entry[k].status = "none" /\ entry'[k].status = "running" /\ Kept(k) /\ pass.phase = "answers"
                 /\ pass'.phase = "spawn" /\ pass'.key = k
  <2>1. pass.phase = "answers" /\ pass.phase \in Looking
    BY <1>10 DEF PassAnswers, Looking
  <2>2. entry'[k] = IF k \in next THEN [entry[k] EXCEPT !.status = "running"] ELSE Applied(Keys)[k]
    BY <1>10 DEF PassAnswers
  <2>3. CASE k \in next
    <3>1. entry[k].status = "none" /\ pass' = [phase |-> "spawn", key |-> k]
      BY <1>10, <2>3 DEF PassAnswers
    <3> QED BY <1>2, <2>1, <2>2, <2>3, <3>1 DEF Statuses, Kept
  <2>4. CASE k \notin next
    BY <1>7, <2>1, <2>2, <2>4 DEF Kept
  <2> QED BY <2>3, <2>4
<1>11. pass.phase \in {"spawn", "spawned"} => pass.key \in Keys /\ Runs(pass.key)
  BY <1>1, PassIs DEF IInv, StartInv
<1>12. CASE Spawn
  <2>1. pass.phase = "spawn" /\ pass.key \in Keys /\ Runs(pass.key)
    BY <1>11, <1>12 DEF Spawn
  <2>2. \/ UNCHANGED entry
        \/ \E s \in {"failed", "none"} : entry' = Ends(pass.key, s) /\ UNCHANGED agent
    BY <1>12 DEF Spawn
  <2>3. CASE UNCHANGED entry
    BY <2>3
  <2>4. ASSUME NEW s \in {"failed", "none"}, entry' = Ends(pass.key, s), UNCHANGED agent
        PROVE  \/ entry'[k] = entry[k] \/ (Runs(k) /\ entry'[k].status \in Ended /\ Kept(k))
               \/ Runs(k) /\ entry'[k].status = "none" /\ Kept(k) /\ pass.phase = "spawn" /\ pass.key = k /\ UNCHANGED agent
    <3>1. s \in Statuses /\ (s = "failed" => s \in Ended)
      BY DEF Statuses, Ended
    <3>2. entry'[pass.key] = [entry[pass.key] EXCEPT !.status = s] /\ (k # pass.key => entry'[k] = entry[k])
      BY <1>1, <2>1, <2>4, <3>1, EntryEnds
    <3>3. CASE k = pass.key
      <4>1. entry'[k].status = s /\ Kept(k) /\ Runs(k)
        BY <1>2, <2>1, <3>1, <3>2, <3>3 DEF Kept
      <4> QED BY <2>1, <2>4, <3>1, <3>3, <4>1
    <3> QED BY <3>2, <3>3
  <2> QED BY <2>2, <2>3, <2>4
<1>13. CASE Spawned
  BY <1>1, <1>11, <1>13 DEF Spawned, Runs, Entry
<1>14. CASE Reload \/ Restart
  <2>1. entry'[k] = IF Runs(k) /\ ~entry[k].id THEN [entry[k] EXCEPT !.status = "lost"] ELSE entry[k]
    BY <1>14 DEF Reload, Restart, Loaded
  <2> QED BY <1>2, <2>1 DEF Statuses, Ended, Kept
<1>15. CASE UNCHANGED entry
  BY <1>15
<1>16. ASSUME NEW j \in Keys, Answer(j) \/ Stop(j) \/ StopGate(j) \/ LateLine(j) \/ Die(j) \/ List(j) \/ Recover(j) \/ PassRead(j)
                              \/ HoldOver(j) \/ RepairOver(j)
       PROVE  UNCHANGED entry
  BY <1>16 DEF Answer, Stop, StopGate, LateLine, Die, List, Recover, PassRead, HoldOver, RepairOver
<1>17. Resume \/ HookStart \/ HookRead \/ Delivered \/ HookOff \/ PassList \/ (\E ok \in BOOLEAN : PassJudge(ok)) \/ UNCHANGED vars => UNCHANGED entry
  BY DEF Resume, HookStart, HookRead, Delivered, HookOff, PassList, PassJudge, vars
<1> QED BY <1>5, <1>6, <1>8, <1>9, <1>10, <1>12, <1>13, <1>14, <1>15, <1>16, <1>17 DEF Next, Pass, Hook, Engine, Time

\* What an entry says of its agent, it says on.
LEMMA EntryKeeps ==
  ASSUME IInv, [Next]_vars, NEW k \in Keys
  PROVE  /\ entry[k].id => entry'[k].id
         /\ entry[k].reminded => entry'[k].reminded
         /\ Runs(k)' => Runs(k) \/ (entry[k].status = "none" /\ ~entry[k].id /\ agent[k] = "none")
         /\ entry'[k].status = "none" => entry[k].status = "none" \/ (agent'[k] = "none" /\ ~entry'[k].id)
<1>1. Runs(k)' => entry'[k].status \notin Ended /\ entry'[k].status # "none"
  BY DEF Runs, Ended
<1>2. "none" \notin Ended
  BY DEF Ended
<1>3. entry[k].status = "none" => agent[k] = "none" /\ ~entry[k].id
  BY DEF IInv, StartInv
<1>4. pass.phase = "spawn" => agent[pass.key] = "none" /\ ~entry[pass.key].id
  BY DEF IInv, StartInv
<1> QED BY <1>1, <1>2, <1>3, <1>4, EntryMoves DEF Kept, Runs

\* The key and the phase of the hook and of the pass.
LEMMA Phases ==
  ASSUME IInv
  PROVE  /\ hook.phase \in HookPhases \cup {"idle"} /\ pass.phase \in Looking \cup {"idle", "spawn", "spawned"}
         /\ hook = Idle <=> hook.phase = "idle"
         /\ hook # Idle => hook.key \in Keys /\ hook.reason \in {"answer", "error"} /\ hook.verdict \in Verdicts
         /\ pass.phase \in {"spawn", "spawned"} => pass.key \in Keys
         /\ hooks \in Seq(Turn)
BY HookIs, PassIs DEF IInv, Types, TypeOK, Turn

LEMMA Frames ==
  ASSUME NEW k, Answer(k) \/ Stop(k) \/ StopGate(k) \/ LateLine(k) \/ Die(k) \/ List(k) \/ Recover(k)
  PROVE  UNCHANGED <<entry, hook, pass, seen, repairing, hold, repairs, upsets>>
BY DEF Answer, Stop, StopGate, LateLine, Die, List, Recover, between

\* a turn of its agent ends
Over(k) == agent'[k] \in {"over", "dead"} /\ \E r \in {"answer", "error"} : hooks' = Append(hooks, [key |-> k, reason |-> r])

\* The agents, the turn ends, the gates and the list: one agent's moves.
LEMMA AgentMoves ==
  ASSUME IInv, NEW k \in Keys, Answer(k) \/ Stop(k) \/ StopGate(k) \/ LateLine(k) \/ Die(k) \/ List(k) \/ Recover(k)
  PROVE  /\ \A j \in Keys : j # k => agent'[j] = agent[j] /\ gate'[j] = gate[j] /\ listed'[j] = listed[j] /\ file'[j] = file[j]
         /\ \/ UNCHANGED <<agent, hooks>>
            \/ AtWork(k) /\ Over(k)
            \/ AtWork(k) /\ agent'[k] \in {"working", "gate"} /\ (agent'[k] = "gate" => k \in Gated) /\ UNCHANGED hooks
            \/ agent[k] = "cut" /\ agent'[k] = "dead" /\ UNCHANGED hooks
         /\ \/ gate'[k] = gate[k]
            \/ agent[k] = "gate" /\ gate'[k] = "fail"
            \/ agent[k] = "gate" /\ gate'[k] \in Settling /\ agent'[k] = "over"
            \/ gate[k] = "unknown" /\ gate'[k] \in {"pass", "fail"} /\ UNCHANGED agent
            \/ agent[k] = "cut" /\ agent'[k] = "dead" /\ gate'[k] \in Settling \cup {"rerun-fail"}
         /\ listed'[k] = listed[k] \/ (listed[k] # "no" /\ listed'[k] \in Shows(k) /\ UNCHANGED agent)
         /\ file'[k] = file[k] \/ (agent[k] = "working" /\ UNCHANGED agent)
<1>1. /\ agent \in [Keys -> {"none", "working", "gate", "cut", "over", "dead"}] /\ gate \in [Keys -> Settling \cup {"no", "fail", "rerun-fail"}]
      /\ listed \in [Keys -> Views] /\ file \in [Keys -> {"no", "ok", "not-ok"}]
  BY DEF IInv, Types, TypeOK
<1>2. CASE Answer(k)
  BY <1>1, <1>2 DEF Answer
<1>3. CASE Stop(k)
  BY <1>1, <1>3 DEF Stop, Does, TurnEnds, AtWork, Over
<1>4. CASE StopGate(k)
  BY <1>1, <1>4 DEF StopGate, Does, TurnEnds, AtWork, Over
<1>5. CASE LateLine(k)
  BY <1>1, <1>5 DEF LateLine
<1>6. CASE Die(k)
  BY <1>1, <1>6 DEF Die, Does, TurnEnds, AtWork, Over
<1>7. CASE List(k)
  BY <1>1, <1>7 DEF List
<1>8. CASE Recover(k)
  BY <1>1, <1>8 DEF Recover, Does
<1> QED BY <1>2, <1>3, <1>4, <1>5, <1>6, <1>7, <1>8

\* An agent's moves in any step.
LEMMA AgentNext ==
  ASSUME IInv, [Next]_vars, NEW k \in Keys
  PROVE  \/ agent'[k] = agent[k]
         \/ agent[k] = "none" /\ agent'[k] = "working" /\ Spawn /\ pass.key = k
         \/ AtWork(k) /\ agent'[k] \in {"working", "gate", "over", "dead"}
         \/ agent[k] = "cut" /\ agent'[k] = "dead"
         \/ agent[k] = "over" /\ agent'[k] = "working" /\ Resume /\ hook.key = k
         \/ Restart /\ agent'[k] = IF agent[k] \in {"gate", "cut"} THEN "cut" ELSE IF agent[k] = "none" THEN "none" ELSE "dead"
<1>1. /\ agent \in [Keys -> {"none", "working", "gate", "cut", "over", "dead"}]
      /\ pass.phase = "spawn" => pass.key \in Keys /\ agent[pass.key] = "none"
      /\ hook # Idle => hook.key \in Keys
      /\ hook = Idle <=> hook.phase = "idle"
  BY Phases DEF IInv, StartInv, Types, TypeOK
<1>2. CASE UNCHANGED agent
  BY <1>2
<1>3. CASE Spawn
  BY <1>1, <1>3 DEF Spawn, Does
<1>4. CASE Resume
  BY <1>1, <1>4 DEF Resume, Does
<1>5. CASE Restart
  BY <1>5 DEF Restart
<1>6. ASSUME NEW j \in Keys, Answer(j) \/ Stop(j) \/ StopGate(j) \/ LateLine(j) \/ Die(j) \/ List(j) \/ Recover(j)
      PROVE  \/ agent'[k] = agent[k]
             \/ AtWork(k) /\ agent'[k] \in {"working", "gate", "over", "dead"}
             \/ agent[k] = "cut" /\ agent'[k] = "dead"
  BY <1>6, AgentMoves DEF Over
<1>7. ASSUME NEW j \in Keys, PassRead(j) \/ PassKeep(j) \/ HoldOver(j) \/ RepairOver(j) PROVE UNCHANGED agent
  BY <1>7 DEF PassRead, PassKeep, HoldOver, RepairOver, engine
<1>8. Hook \/ HookOff \/ PassList \/ PassLose \/ Spawned \/ (\E ok \in BOOLEAN : PassJudge(ok)) \/ Reload \/ UNCHANGED vars => UNCHANGED agent
  BY DEF Hook, HookStart, HookRead, HookApply, Delivered, Undelivered, HookOff, PassList, PassLose, Spawned, PassJudge, Reload,
         vars, engine
<1>9. ASSUME NEW next, PassAnswers(next) PROVE UNCHANGED agent
  BY <1>9 DEF PassAnswers, engine
<1> QED BY <1>2, <1>3, <1>4, <1>5, <1>6, <1>7, <1>8, <1>9 DEF Next, Pass, Engine, Time

\* The fields of the pass as each of its steps leaves them.
LEMMA BeginIs ==
  ASSUME IInv, pass.phase \in Looking, NEW p, NEW t
  PROVE  /\ Begin(p, t).phase = p /\ Begin(p, t).list = pass.list /\ Begin(p, t).over = pass.over
         /\ Begin(p, t).todo = t /\ Begin(p, t).verdict = Nothing
<1>1. pass \in [phase : Looking, list : [Keys -> Views], over : SUBSET Keys, todo : SUBSET Keys, verdict : [Keys -> Verdicts]]
  BY PassIs DEF IInv, Types, TypeOK
<1> QED BY <1>1 DEF Begin

LEMMA ReadIs ==
  ASSUME IInv, NEW k \in Keys, PassRead(k)
  PROVE  /\ pass.phase \in {"losing", "answers"} /\ pass'.phase = pass.phase /\ pass'.list = pass.list /\ pass'.over = pass.over
         /\ pass'.todo = pass.todo \ {k} /\ k \in pass.todo
         /\ pass'.verdict = [pass.verdict EXCEPT ![k] = Recorded(k, pass.phase = "losing").verdict]
         /\ hold' = [hold EXCEPT ![k] = Recorded(k, pass.phase = "losing").hold]
<1>1. pass.phase \in {"losing", "answers"} /\ pass.phase \in Looking
  BY DEF PassRead, Looking
<1>2. pass \in [phase : Looking, list : [Keys -> Views], over : SUBSET Keys, todo : SUBSET Keys, verdict : [Keys -> Verdicts]]
  BY <1>1, PassIs DEF IInv, Types, TypeOK
<1> QED BY <1>1, <1>2 DEF PassRead

LEMMA KeepIs ==
  ASSUME IInv, NEW k \in Keys, PassKeep(k)
  PROVE  /\ pass.phase = "losing" /\ pass'.phase = pass.phase /\ pass'.list = pass.list /\ pass'.over = pass.over
         /\ pass'.todo = pass.todo /\ pass.verdict[k] # "none"
         /\ pass'.verdict = [pass.verdict EXCEPT ![k] = "none"] /\ entry' = Applied({k})
<1>1. pass.phase = "losing" /\ pass.phase \in Looking
  BY DEF PassKeep, Looking
<1>2. pass \in [phase : Looking, list : [Keys -> Views], over : SUBSET Keys, todo : SUBSET Keys, verdict : [Keys -> Verdicts]]
  BY <1>1, PassIs DEF IInv, Types, TypeOK
<1> QED BY <1>1, <1>2 DEF PassKeep

LEMMA StartKept == ASSUME IInv, Types', [Next]_vars PROVE StartInv'
<1>1. ASSUME NEW k \in Keys, entry'[k].status = "none" PROVE agent'[k] = "none" /\ ~entry'[k].id
  <2>1. CASE entry[k].status = "none"
    <3>1. agent[k] = "none" /\ ~entry[k].id /\ ~Runs(k)
      BY <2>1 DEF IInv, StartInv, Runs
    <3>2. ~(Spawn /\ pass.key = k)
      BY <3>1 DEF IInv, StartInv, Spawn
    <3>3. agent'[k] = "none"
      BY <3>1, <3>2, AgentNext DEF AtWork
    <3>4. entry'[k] = entry[k]
      BY <1>1, <3>1, EntryMoves
    <3> QED BY <3>1, <3>3, <3>4
  <2>2. CASE entry[k].status # "none"
    BY <1>1, <2>2, EntryKeeps
  <2> QED BY <2>1, <2>2
<1> SUFFICES ASSUME pass'.phase \in {"spawn", "spawned"}
             PROVE  Runs(pass.key)' /\ ~entry'[pass'.key].id /\ (pass'.phase = "spawn" => agent'[pass'.key] = "none")
  BY <1>1 DEF StartInv
<1> DEFINE Held == pass.phase \in {"spawn", "spawned"} /\ pass' = pass
<1>2. Held => /\ pass.key \in Keys /\ Runs(pass.key) /\ ~entry[pass.key].id
              /\ pass.phase = "spawn" => agent[pass.key] = "none"
  BY Phases DEF IInv, StartInv
<1>3. hook = Idle <=> hook.phase = "idle"
  BY Phases
<1>4. entry \in [Keys -> Entry]
  BY DEF IInv, Types, TypeOK
<1>5. CASE Held /\ entry'[pass.key] = entry[pass.key]
  <2>1. Spawn => pass'.phase # "spawn"
    <3>1. pass.phase = "spawn" => pass = [phase |-> "spawn", key |-> pass.key]
      BY PassIs DEF IInv, Types, TypeOK
    <3> QED BY <3>1 DEF Spawn, Idle
  <2>2. ~Spawn
    BY <1>5, <2>1 DEF Spawn
  <2>3. pass.phase = "spawn" => agent'[pass.key] = "none"
    BY <1>2, <1>5, <2>2, AgentNext DEF AtWork
  <2> QED BY <1>2, <1>5, <2>3 DEF Runs
<1>6. hook # Idle => hook.key \in Keys /\ entry[hook.key].id /\ (Held => hook.key # pass.key)
  BY <1>2, Phases DEF IInv, HookInv
<1>7. ASSUME NEW k \in Keys, Answer(k) \/ Stop(k) \/ StopGate(k) \/ LateLine(k) \/ Die(k) \/ List(k) \/ Recover(k) \/ HoldOver(k) \/ RepairOver(k)
      PROVE  UNCHANGED <<pass, entry>>
  BY <1>7, Frames DEF HoldOver, RepairOver
<1>8. HookStart \/ HookRead \/ Resume \/ Delivered \/ HookOff \/ UNCHANGED vars => UNCHANGED <<pass, entry>>
  BY DEF HookStart, HookRead, Resume, Delivered, HookOff, vars
<1>9. CASE HookApply \/ Undelivered
  <2>1. UNCHANGED pass /\ hook # Idle
    BY <1>3, <1>9 DEF HookApply, Undelivered
  <2>2. \A k \in Keys : k # hook.key => entry'[k] = entry[k]
    <3>1. entry' = entry \/ entry' = Marked(hook.key) \/ \E s : entry' = Ends(hook.key, s)
      BY <1>9 DEF HookApply, Undelivered
    <3> QED BY <1>4, <3>1 DEF Marked, Ends
  <2> QED BY <1>2, <1>5, <1>6, <2>1, <2>2
<1>10. PassList \/ PassLose \/ Spawned \/ (\E ok \in BOOLEAN : PassJudge(ok)) \/ (\E k \in Keys : PassRead(k) \/ PassKeep(k))
       \/ Reload \/ Restart => pass'.phase \notin {"spawn", "spawned"}
  <2>1. \A k \in Keys : PassRead(k) \/ PassKeep(k) => pass'.phase \notin {"spawn", "spawned"}
    BY ReadIs, KeepIs
  <2>2. PassLose \/ (\E ok \in BOOLEAN : PassJudge(ok)) => pass'.phase \notin {"spawn", "spawned"}
    <3>1. \A ok : PassLose \/ PassJudge(ok) => pass.phase \in Looking /\ \E p \in {"losing", "answers"} : \E t : pass' = Begin(p, t)
      BY DEF PassLose, PassJudge, Looking
    <3> QED BY <3>1, BeginIs
  <2>3. PassList \/ Spawned \/ Reload \/ Restart => pass'.phase \notin {"spawn", "spawned"}
    BY DEF PassList, Spawned, Reload, Restart, Loaded, Idle
  <2> QED BY <2>1, <2>2, <2>3
<1>11. CASE Spawn
  <2>1. pass.key \in Keys /\ pass = [phase |-> "spawn", key |-> pass.key] /\ Runs(pass.key) /\ ~entry[pass.key].id
    BY <1>11, PassIs DEF Spawn, IInv, StartInv, Types, TypeOK
  <2>2. pass' = [phase |-> "spawned", key |-> pass.key] /\ UNCHANGED entry
    BY <1>11, <2>1 DEF Spawn, Idle
  <2> QED BY <2>1, <2>2 DEF Runs
<1>12. ASSUME NEW next \in SUBSET Keys, PassAnswers(next) PROVE Runs(pass.key)' /\ ~entry'[pass'.key].id /\ agent'[pass'.key] = "none"
  <2>1. PICK k \in next : pass' = [phase |-> "spawn", key |-> k] /\ entry[k].status = "none" /\ k \in Keys
    BY <1>12 DEF PassAnswers, Idle
  <2>2. entry'[k] = [entry[k] EXCEPT !.status = "running"] /\ UNCHANGED agent
    BY <1>12, <2>1 DEF PassAnswers, engine
  <2>3. Runs(k)' /\ ~entry'[k].id
    BY <1>4, <2>1, <2>2 DEF Runs, Entry, IInv, StartInv
  <2> QED BY <2>1, <2>2, <2>3 DEF IInv, StartInv, Runs
<1>13. UNCHANGED <<pass, entry>> => Held /\ entry'[pass.key] = entry[pass.key]
  OBVIOUS
<1> QED BY <1>2, <1>5, <1>7, <1>8, <1>9, <1>10, <1>11, <1>12, <1>13 DEF Next, Pass, Hook, Engine, Time

\* The steps that leave the agents, their gates, the list and the answers alone.
LEMMA EngineRests ==
  ASSUME [Next]_vars
  PROVE  \/ UNCHANGED engine
         \/ \E k \in Keys : Answer(k) \/ Stop(k) \/ StopGate(k) \/ LateLine(k) \/ Die(k) \/ List(k) \/ Recover(k)
         \/ Resume \/ Spawn \/ Restart
<1>1. ASSUME NEW k \in Keys, PassRead(k) \/ PassKeep(k) \/ HoldOver(k) \/ RepairOver(k) PROVE UNCHANGED engine
  BY <1>1 DEF PassRead, PassKeep, HoldOver, RepairOver, engine
<1>2. Hook \/ HookOff \/ PassList \/ PassLose \/ Spawned \/ (\E ok \in BOOLEAN : PassJudge(ok)) \/ UNCHANGED vars => UNCHANGED engine
  BY DEF Hook, HookStart, HookRead, HookApply, Delivered, Undelivered, HookOff, PassList, PassLose, Spawned, PassJudge, vars, engine
<1>3. ASSUME NEW next, PassAnswers(next) PROVE UNCHANGED engine
  BY <1>3 DEF PassAnswers, engine
<1>4. Reload => UNCHANGED engine
  BY DEF Reload, Loaded, engine
<1> QED BY <1>1, <1>2, <1>3, <1>4 DEF Next, Pass, Engine, Time

LEMMA AgentKept == ASSUME IInv, [Next]_vars PROVE AgentInv'
<1>1. /\ agent \in [Keys -> {"none", "working", "gate", "cut", "over", "dead"}] /\ gate \in [Keys -> Settling \cup {"no", "fail", "rerun-fail"}]
      /\ listed \in [Keys -> Views]
  BY DEF IInv, Types, TypeOK
<1> SUFFICES ASSUME NEW k \in Keys
             PROVE  /\ agent'[k] \in {"gate", "cut"} \/ gate'[k] # "no" => k \in Gated
                    /\ agent'[k] = "none" => gate'[k] = "no"
                    /\ gate'[k] = "rerun-fail" => agent'[k] = "dead"
                    /\ listed'[k] = "no" => ~AtWork(k)'
                    /\ listed'[k] = "failed" => agent'[k] = "dead"
  BY DEF AgentInv
<1>2. /\ agent[k] \in {"gate", "cut"} \/ gate[k] # "no" => k \in Gated
      /\ agent[k] = "none" => gate[k] = "no"
      /\ gate[k] = "rerun-fail" => agent[k] = "dead"
      /\ listed[k] = "no" => ~AtWork(k)
      /\ listed[k] = "failed" => agent[k] = "dead"
  BY DEF IInv, AgentInv
<1>3. CASE UNCHANGED engine
  BY <1>2, <1>3 DEF engine, AtWork
<1>4. ASSUME NEW j \in Keys, Answer(j) \/ Stop(j) \/ StopGate(j) \/ LateLine(j) \/ Die(j) \/ List(j) \/ Recover(j)
      PROVE  /\ agent'[k] \in {"gate", "cut"} \/ gate'[k] # "no" => k \in Gated
             /\ agent'[k] = "none" => gate'[k] = "no"
             /\ gate'[k] = "rerun-fail" => agent'[k] = "dead"
             /\ listed'[k] = "no" => ~AtWork(k)'
             /\ listed'[k] = "failed" => agent'[k] = "dead"
  <2>1. CASE j # k
    <3>1. agent'[k] = agent[k] /\ gate'[k] = gate[k] /\ listed'[k] = listed[k]
      BY <1>4, <2>1, AgentMoves
    <3> QED BY <1>2, <3>1 DEF AtWork
  <2>2. CASE j = k
    <3>1. /\ \/ agent'[k] = agent[k]
             \/ AtWork(k) /\ agent'[k] \in {"over", "dead"}
             \/ AtWork(k) /\ agent'[k] \in {"working", "gate"} /\ (agent'[k] = "gate" => k \in Gated)
             \/ agent[k] = "cut" /\ agent'[k] = "dead"
          /\ \/ gate'[k] = gate[k]
             \/ agent[k] = "gate" /\ gate'[k] = "fail"
             \/ agent[k] = "gate" /\ gate'[k] \in Settling /\ agent'[k] = "over"
             \/ gate[k] = "unknown" /\ gate'[k] \in {"pass", "fail"} /\ agent'[k] = agent[k]
             \/ agent[k] = "cut" /\ agent'[k] = "dead" /\ gate'[k] \in Settling \cup {"rerun-fail"}
          /\ listed'[k] = listed[k] \/ (listed[k] # "no" /\ listed'[k] \in Shows(k) /\ agent'[k] = agent[k])
      BY <1>4, <2>2, AgentMoves DEF Over
    <3>2. "no" \in Shows(k) => ~AtWork(k)
      BY DEF Shows, AtWork
    <3>3. "failed" \in Shows(k) => agent[k] = "dead"
      BY DEF Shows, AtWork
    <3>4. agent'[k] \in {"gate", "cut"} \/ gate'[k] # "no" => k \in Gated
      BY <1>2, <3>1
    <3>5. agent'[k] = "none" => gate'[k] = "no"
      BY <1>2, <3>1 DEF AtWork
    <3>6. gate'[k] = "rerun-fail" => agent'[k] = "dead"
      BY <1>2, <3>1 DEF AtWork, Settling
    <3>7. listed'[k] = "no" => ~AtWork(k)'
      BY <1>2, <3>1, <3>2 DEF AtWork
    <3>8. listed'[k] = "failed" => agent'[k] = "dead"
      BY <1>2, <3>1, <3>3 DEF AtWork
    <3> QED BY <3>4, <3>5, <3>6, <3>7, <3>8
  <2> QED BY <2>1, <2>2
<1>5. CASE Resume
  <2>1. UNCHANGED <<gate, listed>> /\ (agent'[k] = agent[k] \/ (agent[k] = "over" /\ agent'[k] = "working" /\ listed[k] # "no"))
    BY <1>1, <1>5, Phases DEF Resume, Does, Idle
  <2> QED BY <1>2, <2>1 DEF AtWork
<1>6. CASE Spawn
  <2>1. UNCHANGED gate /\ \/ agent'[k] = agent[k] /\ listed'[k] = listed[k]
                          \/ agent[k] = "none" /\ agent'[k] = "working" /\ listed'[k] = "running"
    BY <1>1, <1>6, Phases DEF Spawn, Does, IInv, StartInv
  <2> QED BY <1>2, <2>1 DEF AtWork
<1>7. CASE Restart
  <2>1. UNCHANGED gate /\ listed'[k] = "no"
        /\ agent'[k] = IF agent[k] \in {"gate", "cut"} THEN "cut" ELSE IF agent[k] = "none" THEN "none" ELSE "dead"
    BY <1>7 DEF Restart
  <2> QED BY <1>2, <2>1 DEF AtWork
<1> QED BY <1>3, <1>4, <1>5, <1>6, <1>7, EngineRests

\* the hook: which step moves it, and how
LEMMA HookRests ==
  ASSUME [Next]_vars
  PROVE  UNCHANGED <<hook, repairs>> \/ Hook \/ Resume \/ Reload \/ Restart
<1>1. ASSUME NEW k \in Keys, PassRead(k) \/ PassKeep(k) \/ HoldOver(k) \/ RepairOver(k) PROVE UNCHANGED <<hook, repairs>>
  BY <1>1 DEF PassRead, PassKeep, HoldOver, RepairOver
<1>2. HookOff \/ PassList \/ PassLose \/ Spawn \/ Spawned \/ (\E ok \in BOOLEAN : PassJudge(ok)) \/ UNCHANGED vars => UNCHANGED <<hook, repairs>>
  BY DEF HookOff, PassList, PassLose, Spawn, Spawned, PassJudge, vars
<1>3. ASSUME NEW next, PassAnswers(next) PROVE UNCHANGED <<hook, repairs>>
  BY <1>3 DEF PassAnswers
<1>4. ASSUME NEW k \in Keys, Answer(k) \/ Stop(k) \/ StopGate(k) \/ LateLine(k) \/ Die(k) \/ List(k) \/ Recover(k)
      PROVE  UNCHANGED <<hook, repairs>>
  BY <1>4, Frames
<1> QED BY <1>1, <1>2, <1>3, <1>4 DEF Next, Pass, Engine, Time

\* How the hook moves, and on which key it stays.
LEMMA HookMoves ==
  ASSUME IInv, [Next]_vars
  PROVE  \/ UNCHANGED <<hook, repairs>>
         \/ hook' = Idle /\ UNCHANGED repairs
         \/ HookStart /\ hook = Idle /\ hooks # <<>> /\ hook'.phase = "reading" /\ hook'.key = Head(hooks).key /\ hook'.verdict = "none"
            /\ Runs(hook'.key) /\ entry[hook'.key].id /\ UNCHANGED <<repairs, entry, agent>>
         \/ HookRead /\ hook # Idle /\ hook.phase = "reading" /\ hook'.phase = "read" /\ hook'.key = hook.key
            /\ hook'.verdict = Given(hook.key, hook.reason).verdict /\ UNCHANGED repairs
         \/ HookApply /\ hook # Idle /\ hook.phase = "read" /\ hook'.phase = "sending" /\ hook'.key = hook.key /\ Runs(hook.key)
            /\ hook.verdict = "repair" /\ ~entry[hook.key].reminded /\ entry' = Marked(hook.key) /\ UNCHANGED repairs
         \/ Resume /\ hook # Idle /\ hook.phase = "sending" /\ hook'.phase = "taken" /\ hook'.key = hook.key
            /\ repairs' = [repairs EXCEPT ![hook.key] = @ + 1]
<1>1. /\ hook = Idle <=> hook.phase = "idle"
      /\ hook # Idle => hook = [phase |-> hook.phase, key |-> hook.key, reason |-> hook.reason, verdict |-> hook.verdict]
  BY HookIs DEF IInv, Types, TypeOK
<1>2. CASE HookStart
  BY <1>2 DEF HookStart, engine
<1>3. CASE HookRead
  BY <1>1, <1>3 DEF HookRead
<1>4. CASE HookApply
  BY <1>1, <1>4 DEF HookApply
<1>5. CASE Resume
  BY <1>1, <1>5 DEF Resume
<1>6. CASE Delivered \/ Undelivered
  BY <1>6 DEF Delivered, Undelivered
<1>7. CASE Reload \/ Restart
  BY <1>7 DEF Reload, Restart, Loaded
<1> QED BY <1>2, <1>3, <1>4, <1>5, <1>6, <1>7, HookRests DEF Hook

LEMMA RepairKept == ASSUME IInv, [Next]_vars PROVE RepairInv'
<1>1. /\ hook # Idle => hook.key \in Keys
      /\ hook = Idle <=> hook.phase = "idle"
      /\ repairs \in [Keys -> Nat]
  BY Phases DEF IInv, Types, TypeOK
<1> SUFFICES ASSUME NEW k \in Keys, repairs'[k] # 0
             PROVE  repairs'[k] = 1 /\ entry'[k].reminded /\ ~(hook'.phase = "sending" /\ hook'.key = k)
  BY DEF RepairInv
<1>2. repairs[k] # 0 => repairs[k] = 1 /\ entry[k].reminded /\ entry'[k].reminded /\ ~(hook.phase = "sending" /\ hook.key = k)
  BY EntryKeeps DEF IInv, RepairInv
<1>3. CASE Resume /\ hook # Idle /\ hook.phase = "sending" /\ hook'.phase = "taken" /\ hook'.key = hook.key
           /\ repairs' = [repairs EXCEPT ![hook.key] = @ + 1]
  <2>1. entry[hook.key].reminded /\ entry'[hook.key].reminded
    BY <1>1, <1>3, EntryKeeps DEF IInv, HookInv
  <2> QED BY <1>1, <1>2, <1>3, <2>1
<1>4. CASE UNCHANGED <<hook, repairs>> \/ (hook' = Idle /\ UNCHANGED repairs)
  BY <1>2, <1>4 DEF Idle
<1>5. CASE UNCHANGED repairs /\ hook'.phase \in {"reading", "read"}
  BY <1>2, <1>5
<1>6. CASE UNCHANGED repairs /\ hook'.phase = "sending" /\ hook'.key = hook.key /\ ~entry[hook.key].reminded
  BY <1>2, <1>6
<1> QED BY <1>3, <1>4, <1>5, <1>6, HookMoves

-----------------------------------------------------------------------------
(* The queue of turn ends and the hook. *)

QueueOK == /\ \A i, j \in DOMAIN hooks : hooks[i].key = hooks[j].key => i = j
           /\ \A k \in Keys : Queued(k) => agent[k] \in {"over", "dead"}

LEMMA QueueKept ==
  ASSUME IInv, [Next]_vars
  PROVE  /\ QueueOK'
         /\ \A k \in Keys : Queued(k)' => Queued(k) \/ AtWork(k)
<1>1. hooks \in Seq(Turn) /\ QueueOK
  BY Phases DEF IInv, HookInv, QueueOK
<1>2. \A k \in Keys : Queued(k) => agent'[k] \in {"over", "dead"} \/ Restart
  <2> SUFFICES ASSUME NEW k \in Keys, Queued(k), ~Restart PROVE agent'[k] \in {"over", "dead"}
    OBVIOUS
  <2>1. agent[k] \in {"over", "dead"}
    BY <1>1 DEF QueueOK
  <2>2. ~(Resume /\ hook.key = k)
    BY DEF Resume, IInv, HookInv
  <2> QED BY <2>1, <2>2, AgentNext DEF AtWork
<1>3. CASE UNCHANGED hooks /\ ~Restart
  BY <1>1, <1>2, <1>3 DEF QueueOK, Queued
<1>4. CASE hooks # <<>> /\ hooks' = Tail(hooks) /\ ~Restart
  <2>1. /\ DOMAIN hooks' = 1..(Len(hooks) - 1) /\ DOMAIN hooks = 1..Len(hooks) /\ Len(hooks) \in Nat
        /\ \A i \in DOMAIN hooks' : i + 1 \in DOMAIN hooks /\ hooks'[i] = hooks[i + 1]
    BY <1>1, <1>4
  <2>2. \A k : Queued(k)' => Queued(k)
    BY <2>1 DEF Queued
  <2>3. \A i, j \in DOMAIN hooks' : hooks'[i].key = hooks'[j].key => i = j
    <3> SUFFICES ASSUME NEW i \in DOMAIN hooks', NEW j \in DOMAIN hooks', hooks'[i].key = hooks'[j].key PROVE i = j
      OBVIOUS
    <3>1. i + 1 = j + 1 /\ i \in Nat /\ j \in Nat
      BY <1>1, <2>1 DEF QueueOK
    <3> QED BY <3>1
  <2> QED BY <1>2, <1>4, <2>2, <2>3 DEF QueueOK
<1>5. CASE hooks' = <<>>
  BY <1>5 DEF QueueOK, Queued
<1>6. ASSUME NEW j \in Keys, AtWork(j), Over(j), ~Restart PROVE QueueOK' /\ \A k \in Keys : Queued(k)' => Queued(k) \/ AtWork(k)
  <2>1. PICK r \in {"answer", "error"} : hooks' = Append(hooks, [key |-> j, reason |-> r])
    BY <1>6 DEF Over
  <2>2. /\ DOMAIN hooks' = 1..(Len(hooks) + 1) /\ DOMAIN hooks = 1..Len(hooks) /\ Len(hooks) \in Nat
        /\ \A i \in DOMAIN hooks : hooks'[i] = hooks[i]
        /\ hooks'[Len(hooks) + 1].key = j
    BY <1>1, <2>1 DEF Turn
  <2>3. \A i \in DOMAIN hooks' : i \in DOMAIN hooks \/ i = Len(hooks) + 1
    BY <2>2
  <2>4. \A k : Queued(k)' => Queued(k) \/ k = j
    BY <2>2, <2>3 DEF Queued
  <2>5. ~Queued(j)
    BY <1>1, <1>6 DEF QueueOK, AtWork
  <2>6. \A i1, i2 \in DOMAIN hooks' : hooks'[i1].key = hooks'[i2].key => i1 = i2
    <3> SUFFICES ASSUME NEW i1 \in DOMAIN hooks', NEW i2 \in DOMAIN hooks', hooks'[i1].key = hooks'[i2].key PROVE i1 = i2
      OBVIOUS
    <3>1. CASE i1 \in DOMAIN hooks /\ i2 \in DOMAIN hooks
      BY <1>1, <2>2, <3>1 DEF QueueOK
    <3>2. CASE i1 = Len(hooks) + 1 /\ i2 \in DOMAIN hooks
      BY <2>2, <2>5, <3>2 DEF Queued
    <3>3. CASE i2 = Len(hooks) + 1 /\ i1 \in DOMAIN hooks
      BY <2>2, <2>5, <3>3 DEF Queued
    <3> QED BY <2>3, <3>1, <3>2, <3>3
  <2> QED BY <1>2, <1>6, <2>4, <2>6 DEF QueueOK, Over
<1>7. ASSUME NEW k \in Keys, Answer(k) \/ Stop(k) \/ StopGate(k) \/ LateLine(k) \/ Die(k) \/ List(k) \/ Recover(k)
      PROVE  (UNCHANGED hooks \/ (AtWork(k) /\ Over(k))) /\ ~Restart
  <2>1. UNCHANGED hooks \/ (AtWork(k) /\ Over(k))
    BY <1>7, AgentMoves
  <2>2. UNCHANGED upsets
    BY <1>7, Frames
  <2>3. Restart => upsets' # upsets
    BY DEF Restart, Loaded, Upset, IInv, Types, TypeOK
  <2> QED BY <2>1, <2>2, <2>3
<1>8. ASSUME NEW k \in Keys, PassRead(k) \/ PassKeep(k) \/ HoldOver(k) \/ RepairOver(k) PROVE UNCHANGED hooks
  BY <1>8 DEF PassRead, PassKeep, HoldOver, RepairOver
<1>9. Resume \/ HookRead \/ HookApply \/ Delivered \/ Undelivered \/ PassList \/ PassLose \/ Spawn \/ Spawned
      \/ (\E ok \in BOOLEAN : PassJudge(ok)) \/ UNCHANGED vars => UNCHANGED hooks
  BY DEF Resume, HookRead, HookApply, Delivered, Undelivered, PassList, PassLose, Spawn, Spawned, PassJudge, vars
<1>10. ASSUME NEW next, PassAnswers(next) PROVE UNCHANGED hooks
  BY <1>10 DEF PassAnswers
<1>11. HookStart \/ HookOff => hooks # <<>> /\ hooks' = Tail(hooks)
  BY DEF HookStart, HookOff
<1>12. Reload \/ Restart => hooks' = <<>>
  BY DEF Reload, Restart, Loaded
<1>13. CASE Restart
  BY <1>5, <1>12, <1>13
<1> QED BY <1>3, <1>4, <1>5, <1>6, <1>7, <1>8, <1>9, <1>10, <1>11, <1>12, <1>13 DEF Next, Pass, Hook, Engine, Time

\* The hook that has not sent anything is about an agent whose turn is over.
Early(k) == hook.phase \in {"reading", "read", "sending"} /\ hook.key = k

LEMMA HookKept == ASSUME IInv, [Next]_vars PROVE HookInv'
<1>1. /\ hook.phase \in HookPhases \cup {"idle"} /\ (hook = Idle <=> hook.phase = "idle")
      /\ hook # Idle => hook.key \in Keys /\ entry[hook.key].id /\ entry'[hook.key].id
      /\ hook.phase \in {"sending", "taken"} => entry[hook.key].reminded /\ entry'[hook.key].reminded
      /\ hook.phase = "taken" => agent[hook.key] \notin {"none", "cut"} /\ listed[hook.key] # "no"
      /\ hook.phase \in {"reading", "read", "sending"} => agent[hook.key] \in {"over", "dead"} /\ ~Queued(hook.key)
  BY Phases, EntryKeeps DEF IInv, HookInv
<1>2. QueueOK' /\ \A k \in Keys : Queued(k)' => Queued(k) \/ AtWork(k)
  BY QueueKept
<1>3. ASSUME hook'.phase \in {"reading", "read", "sending"} PROVE hook' # Idle
  BY <1>3 DEF Idle
<1>4. CASE Restart \/ hook' = Idle
  BY <1>2, <1>4 DEF Restart, Loaded, HookInv, QueueOK, Idle
<1>5. CASE HookStart /\ hook # hook' /\ ~Restart
  <2>1. /\ hooks # <<>> /\ hooks \in Seq(Turn) /\ hooks' = Tail(hooks) /\ hook'.key = Head(hooks).key /\ hook'.phase = "reading"
        /\ entry[hook'.key].id /\ UNCHANGED <<entry, agent>>
    BY <1>5, HookMoves, Phases DEF HookStart, engine, Idle
  <2>2. hook'.key \in Keys /\ 1 \in DOMAIN hooks /\ hooks[1].key = hook'.key
    <3>1. hooks[1] = Head(hooks) /\ 1 \in DOMAIN hooks /\ hooks[1] \in Turn
      BY <2>1
    <3> QED BY <2>1, <3>1 DEF Turn
  <2>3. agent'[hook'.key] \in {"over", "dead"}
    BY <2>1, <2>2 DEF IInv, HookInv, Queued
  <2>4. ~(\E i \in DOMAIN hooks' : hooks'[i].key = hook'.key)
    <3> SUFFICES ASSUME NEW i \in DOMAIN hooks', hooks'[i].key = hook'.key PROVE FALSE
      OBVIOUS
    <3>1. i + 1 \in DOMAIN hooks /\ hooks[i + 1].key = hook'.key /\ i \in Nat \ {0}
      BY <2>1
    <3>2. i + 1 = 1
      BY <2>2, <3>1 DEF IInv, HookInv
    <3> QED BY <3>1, <3>2
  <2> QED BY <1>2, <2>1, <2>3, <2>4 DEF HookInv, QueueOK, Queued
<1>6. CASE Resume
  <2>1. hook.phase = "sending" /\ hook'.phase = "taken" /\ hook'.key = hook.key /\ UNCHANGED entry /\ listed'[hook.key] # "no"
        /\ agent'[hook.key] = "working"
    <3>1. hook = [phase |-> hook.phase, key |-> hook.key, reason |-> hook.reason, verdict |-> hook.verdict] /\ hook.key \in Keys
      BY <1>6, HookIs DEF Resume, IInv, Types, TypeOK, Idle
    <3> QED BY <1>6, <3>1 DEF Resume, Does, IInv, Types, TypeOK
  <2> QED BY <1>1, <1>2, <2>1 DEF HookInv, QueueOK, Idle
<1>7. CASE ~Restart /\ ~Resume /\ hook # Idle /\ hook'.key = hook.key /\ hook' # Idle
           /\ (hook'.phase \in {"reading", "read", "sending"} => hook.phase \in {"reading", "read", "sending"})
           /\ (hook'.phase = "taken" => hook.phase = "taken")
           /\ (hook'.phase \in {"sending", "taken"} => entry'[hook.key].reminded)
  <2>1. hook.phase \in {"reading", "read", "sending"} => agent'[hook.key] \in {"over", "dead"} /\ ~Queued(hook.key)'
    BY <1>1, <1>2, <1>7, AgentNext DEF AtWork
  <2>2. hook.phase = "taken" => agent'[hook.key] \notin {"none", "cut"}
    BY <1>1, <1>7, AgentNext
  <2>3. hook.phase = "taken" => listed'[hook.key] # "no"
    <3> SUFFICES ASSUME hook.phase = "taken" PROVE listed'[hook.key] # "no"
      OBVIOUS
    <3>1. "no" \notin Shows(hook.key)
      <4>1. Sent(hook.key) /\ agent[hook.key] \in {"working", "gate", "over", "dead"}
        BY <1>1 DEF Sent, IInv, Types, TypeOK
      <4> QED BY <4>1 DEF Shows, AtWork
    <3>2. ASSUME NEW j \in Keys, Answer(j) \/ Stop(j) \/ StopGate(j) \/ LateLine(j) \/ Die(j) \/ List(j) \/ Recover(j)
          PROVE  listed'[hook.key] = listed[hook.key] \/ listed'[hook.key] \in Shows(hook.key)
      BY <1>1, <3>2, AgentMoves
    <3>3. Spawn => listed'[hook.key] \in {listed[hook.key], "running"}
      BY <1>1, Phases DEF Spawn, IInv, Types, TypeOK
    <3> QED BY <1>1, <1>7, <3>1, <3>2, <3>3, EngineRests DEF engine
  <2> QED BY <1>1, <1>2, <1>7, <2>1, <2>2, <2>3 DEF HookInv, QueueOK
<1>8. CASE UNCHANGED hook /\ hook # Idle /\ ~Restart /\ ~Resume
  BY <1>1, <1>7, <1>8
<1>9. CASE HookRead /\ hook.phase = "reading" /\ hook'.phase = "read" /\ hook'.key = hook.key /\ ~Restart /\ ~Resume
  BY <1>1, <1>3, <1>7, <1>9
<1>10. CASE HookApply /\ hook.phase = "read" /\ hook'.phase = "sending" /\ hook'.key = hook.key /\ entry' = Marked(hook.key) /\ ~Restart /\ ~Resume
  <2>1. entry'[hook.key].reminded
    BY <1>1, <1>10 DEF Marked, IInv, Types, TypeOK, Entry
  <2> QED BY <1>1, <1>3, <1>7, <1>10, <2>1
<1> QED BY <1>4, <1>5, <1>6, <1>8, <1>9, <1>10, HookMoves

-----------------------------------------------------------------------------
(* What the pass has read, and an agent's first turn. *)

LEMMA PassRests ==
  ASSUME IInv, [Next]_vars
  PROVE  \/ UNCHANGED pass
         \/ pass'.phase \notin Looking
         \/ PassList \/ PassLose
         \/ \E ok \in BOOLEAN : PassJudge(ok)
         \/ \E k \in Keys : PassRead(k) \/ PassKeep(k)
<1>1. Spawned \/ Reload \/ Restart => pass'.phase \notin Looking
  BY DEF Spawned, Reload, Restart, Loaded, Idle, Looking
<1>2. ASSUME NEW next, PassAnswers(next) PROVE pass'.phase \notin Looking
  BY <1>2 DEF PassAnswers, Idle, Looking
<1>3. Spawn => pass'.phase \notin Looking
  <2>1. pass.phase = "spawn" => pass = [phase |-> "spawn", key |-> pass.key]
    BY PassIs DEF IInv, Types, TypeOK
  <2> QED BY <2>1 DEF Spawn, Idle, Looking
<1>4. ASSUME NEW k \in Keys, HoldOver(k) \/ RepairOver(k) \/
                 Answer(k) \/ Stop(k) \/ StopGate(k) \/ LateLine(k) \/ Die(k) \/ List(k) \/ Recover(k)
      PROVE  UNCHANGED pass
  BY <1>4, Frames DEF HoldOver, RepairOver
<1>5. Hook \/ Resume \/ HookOff \/ UNCHANGED vars => UNCHANGED pass
  BY DEF Hook, HookStart, HookRead, HookApply, Delivered, Undelivered, Resume, HookOff, vars
<1> QED BY <1>1, <1>2, <1>3, <1>4, <1>5 DEF Next, Pass, Engine, Time

\* what the pass has read of an entry, from step to step
LEMMA VerdictNext ==
  ASSUME IInv, [Next]_vars, NEW k \in Keys, pass'.phase \in Looking
  PROVE  \/ pass'.verdict[k] = "none"
         \/ pass.phase \in Looking /\ pass'.verdict[k] = pass.verdict[k]
         \/ PassRead(k) /\ pass'.verdict[k] = Recorded(k, pass.phase = "losing").verdict
<1>1. Nothing[k] = "none"
  BY DEF Nothing
<1>2. pass.phase \in Looking => pass.verdict \in [Keys -> Verdict]
  BY DEF IInv, Types, Reads
<1>3. CASE UNCHANGED pass
  BY <1>3
<1>4. CASE PassList
  BY <1>1, <1>4 DEF PassList
<1>5. CASE PassLose \/ \E ok \in BOOLEAN : PassJudge(ok)
  <2>1. pass.phase \in Looking /\ \E p, t : pass' = Begin(p, t)
    BY <1>5 DEF PassLose, PassJudge, Looking
  <2> QED BY <1>1, <2>1, BeginIs
<1>6. ASSUME NEW j \in Keys, PassRead(j)
      PROVE  \/ pass.phase \in Looking /\ pass'.verdict[k] = pass.verdict[k]
             \/ PassRead(k) /\ pass'.verdict[k] = Recorded(k, pass.phase = "losing").verdict
  <2>1. pass.phase \in Looking /\ pass'.verdict = [pass.verdict EXCEPT ![j] = Recorded(j, pass.phase = "losing").verdict]
    BY <1>6, ReadIs DEF Looking
  <2>2. CASE j = k
    BY <1>2, <1>6, <2>1, <2>2
  <2>3. CASE j # k
    BY <1>2, <2>1, <2>3
  <2> QED BY <2>2, <2>3
<1>7. ASSUME NEW j \in Keys, PassKeep(j)
      PROVE  pass'.verdict[k] = "none" \/ (pass.phase \in Looking /\ pass'.verdict[k] = pass.verdict[k])
  BY <1>2, <1>7, KeepIs DEF Looking
<1> QED BY <1>3, <1>4, <1>5, <1>6, <1>7, PassRests

\* An entry is answered by a hook that read its agent's answer, or by a pass that did.
LEMMA AnsweredBy ==
  ASSUME IInv, [Next]_vars, NEW k \in Keys, entry'[k].status = "answered", entry[k].status # "answered"
  PROVE  \/ hook.phase = "read" /\ hook.key = k
         \/ pass.phase \in Looking /\ pass.verdict[k] = "answered"
<1>1. entry \in [Keys -> Entry] /\ Types /\ entry[k].status \in Statuses
  BY EntryIs DEF IInv, Types, TypeOK
<1>2. CASE HookApply
  <2>1. hook # Idle /\ hook.key \in Keys /\ hook.phase = "read"
    BY <1>2, Phases DEF HookApply
  <2>2. hook.key # k => entry'[k] = entry[k]
    <3>1. entry' = entry \/ entry' = Marked(hook.key) \/ \E s : entry' = Ends(hook.key, s)
      BY <1>2 DEF HookApply
    <3> QED BY <1>1, <2>1, <3>1 DEF Marked, Ends
  <2> QED BY <2>1, <2>2
<1>3. ASSUME NEW ks, pass.phase \in Looking, entry'[k] = Applied(ks)[k] PROVE pass.verdict[k] = "answered"
  <2>1. Applied(ks)[k] = IF k \in ks /\ Runs(k) /\ pass.verdict[k] # "none" THEN [entry[k] EXCEPT !.status = pass.verdict[k]] ELSE entry[k]
    BY <1>1, <1>3, AppliedIs
  <2>2. [entry[k] EXCEPT !.status = pass.verdict[k]].status = pass.verdict[k]
    BY <1>1 DEF Entry
  <2> QED BY <1>3, <2>1, <2>2
<1>4. ASSUME NEW j \in Keys, PassKeep(j) PROVE pass.phase \in Looking /\ pass.verdict[k] = "answered"
  <2>1. entry' = Applied({j}) /\ pass.phase \in Looking
    BY <1>4, KeepIs DEF Looking
  <2>2. entry'[k] = Applied({j})[k]
    BY <2>1
  <2> QED BY <1>3, <2>1, <2>2
<1>5. ASSUME NEW next \in SUBSET Keys, PassAnswers(next) PROVE pass.phase \in Looking /\ pass.verdict[k] = "answered"
  <2>1. pass.phase \in Looking /\ entry'[k] = IF k \in next THEN [entry[k] EXCEPT !.status = "running"] ELSE Applied(Keys)[k]
    BY <1>5 DEF PassAnswers, Looking
  <2>2. [entry[k] EXCEPT !.status = "running"].status = "running"
    BY <1>1 DEF Entry
  <2> QED BY <1>3, <2>1, <2>2
<1>6. CASE PassLose
  <2>1. entry'[k] = [entry[k] EXCEPT !.status = Reconciled(k)] /\ Reconciled(k) \in {"failed", "lost", "running", entry[k].status}
    BY <1>6 DEF PassLose, Reconciled
  <2>2. entry'[k].status = Reconciled(k)
    BY <1>1, <2>1 DEF Entry
  <2> QED BY <2>1, <2>2
<1>7. \A s : entry' = Ends(pass.key, s) \/ entry' = Ends(hook.key, s) => entry'[k] = entry[k] \/ entry'[k].status = s
  <2> SUFFICES ASSUME NEW s, NEW j, entry' = Ends(j, s) PROVE entry'[k] = entry[k] \/ entry'[k].status = s
    OBVIOUS
  <2>1. entry'[k] = IF j = k THEN [entry[k] EXCEPT !.status = s] ELSE entry[k]
    BY <1>1 DEF Ends
  <2> QED BY <1>1, <2>1 DEF Entry
<1>8. CASE Undelivered
  BY <1>7, <1>8 DEF Undelivered
<1>9. CASE Spawn
  BY <1>7, <1>9 DEF Spawn
<1>10. CASE Spawned
  <2>1. entry'[k] = entry[k] \/ entry'[k] = [entry[k] EXCEPT !.id = TRUE]
    BY <1>1, <1>10 DEF Spawned
  <2> QED BY <1>1, <2>1 DEF Entry
<1>11. CASE Reload \/ Restart
  <2>1. entry'[k] = entry[k] \/ entry'[k] = [entry[k] EXCEPT !.status = "lost"]
    BY <1>11 DEF Reload, Restart, Loaded
  <2> QED BY <1>1, <2>1 DEF Entry
<1>12. ASSUME NEW j \in Keys, Answer(j) \/ Stop(j) \/ StopGate(j) \/ LateLine(j) \/ Die(j) \/ List(j) \/ Recover(j) \/ PassRead(j)
                              \/ HoldOver(j) \/ RepairOver(j)
       PROVE  UNCHANGED entry
  BY <1>12, Frames DEF PassRead, HoldOver, RepairOver
<1>13. Resume \/ HookStart \/ HookRead \/ Delivered \/ HookOff \/ PassList \/ (\E ok \in BOOLEAN : PassJudge(ok)) \/ UNCHANGED vars => UNCHANGED entry
  BY DEF Resume, HookStart, HookRead, Delivered, HookOff, PassList, PassJudge, vars
<1> QED BY <1>2, <1>4, <1>5, <1>6, <1>8, <1>9, <1>10, <1>11, <1>12, <1>13 DEF Next, Pass, Hook, Engine, Time

LEMMA TurnKept == ASSUME IInv, [Next]_vars PROVE TurnInv'
<1> SUFFICES ASSUME NEW k \in Keys, AtWork(k)', ~entry'[k].reminded
             PROVE  /\ gate'[k] \in {"no", "fail"}
                    /\ k \in Gated => /\ entry'[k].status # "answered"
                                      /\ pass'.phase \in Looking => pass'.verdict[k] # "answered"
  BY DEF TurnInv
<1>1. ~entry[k].reminded
  BY EntryKeeps
<1>2. ~Restart
  BY DEF Restart, AtWork
<1>3. CASE Spawn /\ pass.key = k /\ agent[k] = "none" /\ agent'[k] = "working"
  <2>1. /\ pass = [phase |-> "spawn", key |-> k] /\ gate[k] = "no" /\ Runs(k) /\ UNCHANGED gate
    BY <1>3, PassIs DEF Spawn, IInv, Types, TypeOK, StartInv, AgentInv
  <2>2. UNCHANGED entry /\ pass'.phase = "spawned"
    BY <1>3, <2>1 DEF Spawn
  <2> QED BY <2>1, <2>2 DEF Looking, Runs
<1>4. CASE AtWork(k)
  <2>1. /\ gate[k] \in {"no", "fail"}
        /\ k \in Gated => /\ entry[k].status # "answered"
                          /\ pass.phase \in Looking => pass.verdict[k] # "answered"
    BY <1>1, <1>4 DEF IInv, TurnInv
  <2>2. gate'[k] \in {"no", "fail"}
    <3>1. ASSUME NEW j \in Keys, Answer(j) \/ Stop(j) \/ StopGate(j) \/ LateLine(j) \/ Die(j) \/ List(j) \/ Recover(j)
          PROVE  gate'[k] \in {"no", "fail"}
      <4>1. \/ gate'[k] = gate[k]
            \/ agent[k] = "gate" /\ gate'[k] = "fail"
            \/ agent[k] = "gate" /\ gate'[k] \in Settling /\ agent'[k] = "over"
            \/ gate[k] = "unknown" /\ gate'[k] \in {"pass", "fail"}
            \/ agent[k] = "cut" /\ agent'[k] = "dead" /\ gate'[k] \in Settling \cup {"rerun-fail"}
        BY <3>1, AgentMoves
      <4> QED BY <1>4, <2>1, <4>1 DEF AtWork
    <3> QED BY <1>2, <2>1, <3>1, EngineRests DEF Resume, Spawn, engine
  <2>3. k \in Gated => entry'[k].status # "answered"
    <3>1. ~(hook.phase = "read" /\ hook.key = k)
      BY <1>4 DEF AtWork, IInv, HookInv
    <3> QED BY <2>1, <3>1, AnsweredBy
  <2>4. k \in Gated /\ pass'.phase \in Looking => pass'.verdict[k] # "answered"
    <3>1. k \in Gated => \A e \in BOOLEAN : Recorded(k, e).verdict # "answered"
      <4>1. k \in Gated => \A e \in BOOLEAN : Take(k, e).verdict = "answered" => gate[k] \in Settling
        BY TakeIs DEF IInv, Types
      <4> QED BY <2>1, <4>1 DEF Recorded, Settling
    <3>2. (pass.phase = "losing") \in BOOLEAN
      OBVIOUS
    <3> QED BY <2>1, <3>1, <3>2, VerdictNext
  <2> QED BY <2>2, <2>3, <2>4
<1>5. CASE Resume /\ hook.key = k
  BY <1>1, <1>5 DEF Resume, IInv, HookInv
<1> QED BY <1>2, <1>3, <1>4, <1>5, AgentNext DEF AtWork

-----------------------------------------------------------------------------
(* What the list says of an agent at work. *)

\* the list that is judged is the one read when the pass began
LEMMA ListNext ==
  ASSUME IInv, [Next]_vars, Judging'
  PROVE  \/ PassList /\ pass'.phase = "listed" /\ pass'.list = listed /\ pass'.over = {k \in Keys : hold[k] = "over"} /\ pass'.verdict = Nothing
         \/ Judging /\ pass'.list = pass.list /\ pass'.over = pass.over
<1>1. pass'.phase \in Looking
  BY DEF Judging, Looking
<1>2. CASE UNCHANGED pass
  BY <1>2 DEF Judging
<1>3. CASE PassList
  BY <1>3 DEF PassList
<1>4. CASE PassLose
  <2>1. pass.phase \in Looking /\ \E t : pass' = Begin("answers", t)
    BY <1>4 DEF PassLose, Looking
  <2>2. pass'.phase = "answers"
    BY <2>1, BeginIs
  <2> QED BY <2>2 DEF Judging
<1>5. ASSUME NEW ok \in BOOLEAN, PassJudge(ok) PROVE Judging /\ pass'.list = pass.list /\ pass'.over = pass.over
  <2>1. pass.phase = "listed" /\ pass.phase \in Looking /\ \E p, t : pass' = Begin(p, t)
    BY <1>5 DEF PassJudge, Looking
  <2> QED BY <2>1, BeginIs DEF Judging
<1>6. ASSUME NEW k \in Keys, PassRead(k) \/ PassKeep(k) PROVE Judging /\ pass'.list = pass.list /\ pass'.over = pass.over
  <2>1. pass'.phase = pass.phase /\ pass'.list = pass.list /\ pass'.over = pass.over
    BY <1>6, ReadIs, KeepIs
  <2> QED BY <2>1 DEF Judging
<1> QED BY <1>1, <1>2, <1>3, <1>4, <1>5, <1>6, PassRests

\* who touches the grace of a repair, and what was seen of a turn's end
LEMMA SeenRests ==
  ASSUME [Next]_vars
  PROVE  \/ UNCHANGED <<repairing, seen>>
         \/ HookStart \/ Delivered \/ Reload \/ Restart \/ PassList \/ PassLose
         \/ \E ok \in BOOLEAN : PassJudge(ok)
         \/ \E k \in Keys : RepairOver(k)
<1>1. ASSUME NEW k \in Keys, HoldOver(k) \/ PassRead(k) \/ PassKeep(k) \/
                 Answer(k) \/ Stop(k) \/ StopGate(k) \/ LateLine(k) \/ Die(k) \/ List(k) \/ Recover(k)
      PROVE  UNCHANGED <<repairing, seen>>
  BY <1>1 DEF HoldOver, PassRead, PassKeep, Answer, Stop, StopGate, LateLine, Die, List, Recover, between
<1>2. HookRead \/ HookApply \/ Undelivered \/ Resume \/ HookOff \/ Spawn \/ Spawned \/ UNCHANGED vars => UNCHANGED <<repairing, seen>>
  BY DEF HookRead, HookApply, Undelivered, Resume, HookOff, Spawn, Spawned, vars, between
<1>3. ASSUME NEW next, PassAnswers(next) PROVE UNCHANGED <<repairing, seen>>
  BY <1>3 DEF PassAnswers, between
<1> QED BY <1>1, <1>2, <1>3 DEF Next, Pass, Hook, Engine, Time

LEMMA SeenNext ==
  ASSUME IInv, ListInv, [Next]_vars, NEW k \in Keys
  PROVE  /\ repairing'[k] => seen'[k] = "no"
         /\ seen'[k] = "before" => seen[k] = "before" \/ PassList
         /\ repairing[k] /\ ~repairing'[k] => seen'[k] = "no"
<1>1. (repairing[k] => seen[k] = "no") /\ repairing \in [Keys -> BOOLEAN] /\ seen \in [Keys -> {"no", "now", "before"}]
  BY DEF IInv, Types, TypeOK, ListInv
<1>2. CASE UNCHANGED <<repairing, seen>>
  BY <1>1, <1>2
<1>3. CASE HookStart
  BY <1>1, <1>3 DEF HookStart
<1>4. CASE Delivered
  BY <1>1, <1>4 DEF Delivered
<1>5. CASE Reload \/ Restart
  BY <1>5 DEF Reload, Restart, Loaded
<1>6. CASE PassList
  BY <1>1, <1>6 DEF PassList
<1>7. /\ repairing[k] => Seen[k] = "no"
      /\ Seen[k] = "before" => seen[k] = "before"
  BY <1>1 DEF Seen
<1>8. CASE PassLose \/ \E ok \in BOOLEAN : PassJudge(ok)
  <2>1. UNCHANGED repairing /\ seen' \in {seen, Seen}
    BY <1>8 DEF PassLose, PassJudge
  <2> QED BY <1>1, <1>7, <2>1
<1>9. ASSUME NEW j \in Keys, RepairOver(j)
      PROVE  UNCHANGED seen /\ (repairing'[k] => repairing[k])
  BY <1>1, <1>9 DEF RepairOver
<1> QED BY <1>1, <1>2, <1>3, <1>4, <1>5, <1>6, <1>8, <1>9, SeenRests

LEMMA ListKept == ASSUME "late-list" \notin Races, IInv, ListInv, [Next]_vars PROVE ListInv'
<1>1. Restart \/ Reload => ~Judging'
  BY DEF Restart, Reload, Loaded, Idle, Judging
<1>2. Spawn => ~Judging'
  <2>1. pass.phase = "spawn" => pass = [phase |-> "spawn", key |-> pass.key]
    BY PassIs DEF IInv, Types, TypeOK
  <2> QED BY <2>1 DEF Spawn, Idle, Judging
<1> SUFFICES ASSUME NEW k \in Keys
             PROVE  /\ Judging' /\ pass'.list[k] = "failed" => agent'[k] = "dead"
                    /\ Judging' /\ pass'.list[k] = "no" => listed'[k] = "no"
                    /\ AtWork(k)' /\ Runs(k)' => \/ hook'.phase = "taken" /\ hook'.key = k
                                                 \/ repairing'[k]
                                                 \/ listed'[k] = "running" /\ (Judging' => pass'.list[k] = "running")
  BY SeenNext DEF ListInv, Judging
<1>3. listed'[k] = listed[k] \/ (listed[k] # "no" /\ listed'[k] \in Shows(k)) \/ (Spawn /\ listed'[k] = "running") \/ Restart
  <2>1. ASSUME NEW j \in Keys, Answer(j) \/ Stop(j) \/ StopGate(j) \/ LateLine(j) \/ Die(j) \/ List(j) \/ Recover(j)
        PROVE  listed'[k] = listed[k] \/ (listed[k] # "no" /\ listed'[k] \in Shows(k))
    BY <2>1, AgentMoves
  <2>2. Spawn => listed'[k] = listed[k] \/ listed'[k] = "running"
    BY Phases DEF Spawn, IInv, Types, TypeOK
  <2> QED BY <2>1, <2>2, EngineRests DEF engine, Resume
<1>4. ASSUME Judging', pass'.list[k] = "failed" PROVE agent'[k] = "dead"
  <2>1. agent[k] = "dead"
    BY <1>4, ListNext DEF IInv, ListInv, AgentInv
  <2> QED BY <1>1, <1>4, <2>1, AgentNext DEF AtWork
<1>5. ASSUME Judging', pass'.list[k] = "no" PROVE listed'[k] = "no"
  <2>1. listed[k] = "no"
    BY <1>5, ListNext DEF IInv, ListInv
  <2> QED BY <1>1, <1>2, <1>3, <1>5, <2>1
<1> DEFINE Good == \/ hook'.phase = "taken" /\ hook'.key = k
                   \/ repairing'[k]
                   \/ listed'[k] = "running" /\ (Judging' => pass'.list[k] = "running")
<1>6. ASSUME AtWork(k)', Runs(k)' PROVE Good
  <2>1. ~Restart
    BY <1>6 DEF Restart, AtWork
  <2>2. CASE Spawn /\ pass.key = k
    <3>1. listed'[k] = "running" \/ UNCHANGED agent
      BY <2>2, Phases DEF Spawn, IInv, Types, TypeOK
    <3>2. agent[k] = "none"
      BY <2>2 DEF Spawn, IInv, StartInv
    <3> QED BY <1>2, <1>6, <2>2, <3>1, <3>2 DEF AtWork
  <2>3. CASE Resume /\ hook.key = k
    BY <2>3, HookIs DEF Resume, IInv, Types, TypeOK, Idle
  <2>4. CASE AtWork(k) /\ ~(Spawn /\ pass.key = k)
    <3>1. Runs(k)
      BY <1>6, <2>4, EntryKeeps DEF AtWork
    <3>2. Shows(k) = {"running"}
      BY <2>4 DEF Shows, AtWork
    <3>3. CASE Reload
      <4>1. listed[k] = "running" /\ UNCHANGED listed
        BY <2>4, <3>3 DEF Reload, Late
      <4> QED BY <1>1, <3>3, <4>1
    <3>4. CASE listed[k] = "running" /\ (Judging => pass.list[k] = "running")
      <4>1. listed'[k] = "running"
        BY <1>3, <2>1, <3>2, <3>4
      <4>2. Judging' => pass'.list[k] = "running"
        BY <3>4, ListNext
      <4> QED BY <4>1, <4>2
    <3>5. CASE repairing[k] /\ ~Reload
      <4>1. CASE HookStart
        <5>1. Head(hooks).key # k
          <6>1. hooks \in Seq(Turn) /\ hooks # <<>> /\ ~Queued(k)
            BY <2>4, <4>1, Phases DEF HookStart, AtWork, IInv, HookInv
          <6>2. 1 \in DOMAIN hooks /\ hooks[1] = Head(hooks)
            BY <6>1
          <6> QED BY <6>1, <6>2 DEF Queued
        <5>2. repairing'[k] = repairing[k]
          BY <4>1, <5>1 DEF HookStart, IInv, Types, TypeOK
        <5> QED BY <3>5, <5>2
      <4>2. ASSUME NEW j \in Keys, RepairOver(j) PROVE Good
        <5>1. CASE j = k
          <6>1. listed[k] = "running" /\ (Judging => pass.list[k] = "running")
            BY <2>4, <4>2, <5>1 DEF RepairOver, Caught, Judging
          <6> QED BY <3>4, <6>1
        <5>2. CASE j # k
          BY <3>5, <4>2, <5>2 DEF RepairOver
        <5> QED BY <5>1, <5>2
      <4>3. CASE Delivered
        BY <3>5, <4>3 DEF Delivered, IInv, Types, TypeOK
      <4>4. PassList \/ PassLose \/ (\E ok \in BOOLEAN : PassJudge(ok)) => UNCHANGED repairing
        BY DEF PassList, PassLose, PassJudge
      <4> QED BY <2>1, <3>5, <4>1, <4>2, <4>3, <4>4, SeenRests
    <3>6. CASE hook.phase = "taken" /\ hook.key = k /\ ~Reload
      <4>1. hook # Idle
        BY <3>6 DEF Idle
      <4>2. CASE UNCHANGED hook
        BY <3>6, <4>2
      <4>3. CASE Delivered
        BY <3>6, <4>3 DEF Delivered, IInv, Types, TypeOK
      <4>4. CASE Undelivered
        <5>1. entry' = Ends(k, "unknown")
          BY <3>1, <3>6, <4>4 DEF Undelivered
        <5>2. entry'[k].status = "unknown"
          BY <5>1 DEF Ends, IInv, Types, TypeOK, Entry
        <5> QED BY <1>6, <5>2 DEF Runs
      <4>5. HookStart \/ HookRead \/ HookApply \/ Resume => UNCHANGED hook
        BY <3>6, <4>1 DEF HookStart, HookRead, HookApply, Resume
      <4> QED BY <2>1, <3>6, <4>2, <4>3, <4>4, <4>5, HookRests DEF Hook
    <3> QED BY <2>4, <3>1, <3>3, <3>4, <3>5, <3>6 DEF IInv, ListInv
  <2> QED BY <1>6, <2>1, <2>2, <2>3, <2>4, AgentNext DEF AtWork
<1> QED BY <1>4, <1>5, <1>6

-----------------------------------------------------------------------------
(* Answers that wait, and entries that would be lost. *)

LEMMA HoldNext ==
  ASSUME IInv, [Next]_vars, NEW k \in Keys
  PROVE  \/ hold'[k] = hold[k]
         \/ HookRead /\ hook.phase = "reading" /\ hook.key = k
         \/ PassRead(k) \/ HoldOver(k) \/ PassLose \/ Reload \/ Restart
<1>1. hold \in [Keys -> Holds] /\ (hook # Idle => hook.key \in Keys) /\ (hook = Idle <=> hook.phase = "idle")
  BY Phases DEF IInv, Types, TypeOK, Holds
<1>2. CASE HookRead
  BY <1>1, <1>2 DEF HookRead
<1>3. ASSUME NEW j \in Keys, PassRead(j) \/ HoldOver(j) PROVE hold'[k] = hold[k] \/ j = k
  BY <1>1, <1>3 DEF PassRead, HoldOver
<1>4. ASSUME NEW j \in Keys, PassKeep(j) \/ RepairOver(j) \/
                 Answer(j) \/ Stop(j) \/ StopGate(j) \/ LateLine(j) \/ Die(j) \/ List(j) \/ Recover(j)
      PROVE  UNCHANGED hold
  BY <1>4, Frames DEF PassKeep, RepairOver, between
<1>5. HookStart \/ HookApply \/ Delivered \/ Undelivered \/ Resume \/ HookOff \/ PassList \/ Spawn \/ Spawned
      \/ (\E ok \in BOOLEAN : PassJudge(ok)) \/ UNCHANGED vars => UNCHANGED hold
  BY DEF HookStart, HookApply, Delivered, Undelivered, Resume, HookOff, PassList, Spawn, Spawned, PassJudge, vars, between
<1>6. ASSUME NEW next, PassAnswers(next) PROVE UNCHANGED hold
  BY <1>6 DEF PassAnswers, between
<1> QED BY <1>2, <1>3, <1>4, <1>5, <1>6 DEF Next, Pass, Hook, Engine, Time

\* a gate that failed with no agent to refuse stays so
LEMMA StuckGate ==
  ASSUME IInv, [Next]_vars, NEW k \in Keys, gate[k] = "rerun-fail"
  PROVE  gate'[k] = "rerun-fail"
<1>1. agent[k] = "dead"
  BY DEF IInv, AgentInv
<1>2. ASSUME NEW j \in Keys, Answer(j) \/ Stop(j) \/ StopGate(j) \/ LateLine(j) \/ Die(j) \/ List(j) \/ Recover(j)
      PROVE  gate'[k] = "rerun-fail"
  BY <1>1, <1>2, AgentMoves
<1>3. Resume \/ Spawn \/ Restart => UNCHANGED gate
  BY DEF Resume, Spawn, Restart
<1> QED BY <1>2, <1>3, EngineRests DEF engine

\* A reading of an answer that was held, at its turn's end or by the pass that would lose it.
LEMMA HeldRead ==
  ASSUME IInv, NEW k \in Keys
  PROVE  /\ HookRead /\ hook.key = k =>
              \/ gate[k] = "rerun-fail"
              \/ hook' = Idle /\ hold'[k] = "held" /\ hold[k] # "over"
              \/ hook'.phase = "read" /\ hook'.key = k /\ hook' # Idle /\ (hook'.verdict # "repair" \/ hold'[k] = hold[k])
         /\ PassRead(k) /\ pass.phase = "losing" =>
              \/ file[k] = "no" /\ hold'[k] = hold[k]
              \/ gate[k] = "rerun-fail"
              \/ hold'[k] = "held" /\ hold[k] # "over"
              \/ pass'.verdict[k] # "none"
<1>1. TypeOK /\ hold \in [Keys -> Holds]
  BY DEF IInv, Types, TypeOK, Holds
<1> DEFINE T == Take(k, TRUE)
<1>2. /\ T.verdict \in {"none", "answered", "overdue"}
      /\ T.verdict = "none" => gate[k] = "rerun-fail" \/ (hold[k] # "over" /\ T.hold = "held")
  BY <1>1, TakeIs
<1> HIDE DEF T
<1>3. ASSUME HookRead, hook.key = k
      PROVE  \/ gate[k] = "rerun-fail"
             \/ hook' = Idle /\ hold'[k] = "held" /\ hold[k] # "over"
             \/ hook'.phase = "read" /\ hook'.key = k /\ hook' # Idle /\ (hook'.verdict # "repair" \/ hold'[k] = hold[k])
  <2> DEFINE g == Given(k, hook.reason)
  <2>1. /\ hook.phase = "reading" /\ hook # Idle /\ hook.reason \in {"answer", "error"}
        /\ hook' = IF g.verdict = "none" THEN Idle ELSE [hook EXCEPT !.phase = "read", !.verdict = g.verdict]
        /\ hold'[k] = g.hold
    BY <1>1, <1>3, Phases DEF HookRead
  <2>2. hook = [phase |-> hook.phase, key |-> hook.key, reason |-> hook.reason, verdict |-> hook.verdict]
    BY <1>1, <2>1, HookIs DEF TypeOK
  <2>3. \/ g.verdict # "none" /\ g.hold = hold[k]
        \/ g = T
    BY <1>1, <2>1 DEF Given, T
  <2> HIDE DEF g
  <2>4. g.verdict # "none" => hook'.phase = "read" /\ hook'.key = k /\ hook' # Idle /\ hook'.verdict = g.verdict
    BY <1>3, <2>1, <2>2 DEF Idle
  <2> QED BY <1>2, <2>1, <2>3, <2>4
<1>4. ASSUME PassRead(k), pass.phase = "losing"
      PROVE  \/ file[k] = "no" /\ hold'[k] = hold[k]
             \/ gate[k] = "rerun-fail"
             \/ hold'[k] = "held" /\ hold[k] # "over"
             \/ pass'.verdict[k] # "none"
  <2>1. (pass.phase = "losing") = TRUE /\ pass.verdict \in [Keys -> Verdict]
    BY <1>4 DEF IInv, Types, Reads, Looking
  <2>2. pass'.verdict[k] = Recorded(k, TRUE).verdict /\ hold'[k] = Recorded(k, TRUE).hold
    BY <1>1, <1>4, <2>1, ReadIs
  <2>3. Recorded(k, TRUE) = IF file[k] = "no" THEN [verdict |-> "none", hold |-> hold[k]] ELSE T
    BY DEF Recorded, T
  <2>4. CASE file[k] = "no"
    <3>1. Recorded(k, TRUE).hold = hold[k]
      BY <2>4 DEF Recorded
    <3>2. hold'[k] = hold[k]
      BY <2>2, <3>1
    <3> QED BY <2>4, <3>2
  <2>5. CASE file[k] # "no"
    <3>1. Recorded(k, TRUE) = T
      BY <2>3, <2>5
    <3>2. pass'.verdict[k] = T.verdict /\ hold'[k] = T.hold
      BY <2>2, <3>1
    <3> QED BY <1>2, <3>2
  <2> QED BY <2>4, <2>5
<1> QED BY <1>3, <1>4

\* An ending entry runs no more.
LEMMA AppliedEnds ==
  ASSUME IInv, NEW k \in Keys, PassKeep(k) PROVE ~Runs(k)'
<1>1. pass.phase \in Looking /\ pass.verdict[k] # "none" /\ entry' = Applied({k})
  BY KeepIs DEF Looking
<1>2. pass.verdict[k] \in Verdict /\ entry[k] \in Entry
  BY <1>1 DEF IInv, Types, TypeOK, Reads
<1>3. entry'[k] = IF Runs(k) THEN [entry[k] EXCEPT !.status = pass.verdict[k]] ELSE entry[k]
  BY <1>1, AppliedIs DEF IInv
<1>4. [entry[k] EXCEPT !.status = pass.verdict[k]].status = pass.verdict[k]
  BY <1>2 DEF Entry
<1> QED BY <1>1, <1>2, <1>3, <1>4 DEF Runs, Verdict

\* What the pass that reads before it loses does of one entry.
LEMMA LosingNext ==
  ASSUME IInv, [Next]_vars, pass.phase = "losing", pass'.phase = "losing", NEW k \in Keys
  PROVE  \/ PassRead(k) /\ pass.verdict[k] = "none"
         \/ PassKeep(k)
         \/ (k \in pass'.todo <=> k \in pass.todo) /\ pass'.verdict[k] = pass.verdict[k]
<1>1. pass.verdict \in [Keys -> Verdict] /\ pass.phase \in Looking /\ pass'.phase \in Looking
  BY DEF IInv, Types, Reads, Looking
<1>2. CASE UNCHANGED pass
  BY <1>2
<1>3. ASSUME NEW j \in Keys, PassRead(j)
      PROVE  \/ PassRead(k) /\ pass.verdict[k] = "none"
             \/ (k \in pass'.todo <=> k \in pass.todo) /\ pass'.verdict[k] = pass.verdict[k]
  <2>1. pass.verdict[k] = "none"
    BY <1>3 DEF PassRead, Nothing
  <2>2. pass'.todo = pass.todo \ {j} /\ pass'.verdict = [pass.verdict EXCEPT ![j] = Recorded(j, pass.phase = "losing").verdict]
    BY <1>3, ReadIs
  <2>3. j # k => (k \in pass'.todo <=> k \in pass.todo) /\ pass'.verdict[k] = pass.verdict[k]
    BY <1>1, <2>2
  <2> QED BY <1>3, <2>1, <2>3
<1>4. ASSUME NEW j \in Keys, PassKeep(j)
      PROVE  PassKeep(k) \/ ((k \in pass'.todo <=> k \in pass.todo) /\ pass'.verdict[k] = pass.verdict[k])
  BY <1>1, <1>4, KeepIs
<1>5. ~PassList /\ ~(\E ok \in BOOLEAN : PassJudge(ok)) /\ ~PassLose
  <2>1. PassLose => \E t : pass' = Begin("answers", t)
    BY DEF PassLose
  <2> QED BY <1>1, <2>1, BeginIs DEF PassList, PassJudge, Idle
<1> QED BY <1>1, <1>2, <1>3, <1>4, <1>5, PassRests

\* A hook about an entry that goes on running leaves it only without its answer, or with its repair out.
LEMMA HookLeaves ==
  ASSUME IInv, [Next]_vars, NEW k \in Keys, Runs(k)', Answering(k), ~Answering(k)'
  PROVE  \/ HookRead /\ hook' = Idle
         \/ Delivered /\ hook.phase = "taken"
         \/ Reload \/ Restart
<1>1. hook.key = k /\ hook # Idle /\ hook.phase \in HookPhases /\ hook' # hook
  BY Phases DEF Answering
<1>2. ASSUME NEW s, s \notin {"running"}, entry' = Ends(k, s) PROVE FALSE
  BY <1>2 DEF Ends, IInv, Types, TypeOK, Entry, Runs
<1>3. CASE HookApply
  <2>1. hook' = Idle
    BY <1>1, <1>3, HookMoves DEF HookApply, Answering, Idle, HookStart, HookRead
  <2>2. ~(Runs(k) /\ hook.verdict = "repair" /\ ~entry[k].reminded)
    <3> SUFFICES ASSUME Runs(k), hook.verdict = "repair", ~entry[k].reminded PROVE FALSE
      OBVIOUS
    <3>1. hook' = [hook EXCEPT !.phase = "sending"]
      BY <1>1, <1>3 DEF HookApply
    <3>2. hook = [phase |-> hook.phase, key |-> hook.key, reason |-> hook.reason, verdict |-> hook.verdict]
      BY <1>1, HookIs DEF IInv, Types, TypeOK
    <3> QED BY <2>1, <3>1, <3>2 DEF Idle
  <2>3. Runs(k) => FALSE
    <3>1. hook.verdict \in Verdicts /\ hook.verdict # "none"
      BY <1>1, <1>3, Phases DEF HookApply, IInv, Types, Reads
    <3>2. Runs(k) => entry' = Ends(k, IF hook.verdict = "repair" THEN "unknown" ELSE hook.verdict)
      BY <1>1, <1>3, <2>2 DEF HookApply
    <3>3. (IF hook.verdict = "repair" THEN "unknown" ELSE hook.verdict) \notin {"running"}
      BY <3>1 DEF Verdicts
    <3> QED BY <1>2, <3>2, <3>3
  <2>4. ~Runs(k) => entry' = entry
    BY <1>1, <1>3 DEF HookApply
  <2> QED BY <2>3, <2>4 DEF Runs
<1>4. CASE Undelivered
  BY <1>1, <1>2, <1>4 DEF Undelivered, Runs
<1>5. CASE HookStart \/ Resume
  <2>1. hook'.key = k /\ hook' # Idle
    BY <1>1, <1>5, HookIs DEF HookStart, Resume, Idle, IInv, Types, TypeOK
  <2> QED BY <2>1 DEF Answering
<1>6. CASE HookRead
  BY <1>1, <1>6, HeldRead DEF Answering, HookRead, Idle
<1> QED BY <1>1, <1>3, <1>4, <1>5, <1>6, HookRests DEF Hook, Delivered

LEMMA OverKept == ASSUME IInv, OverInv, [Next]_vars PROVE OverInv'
<1> SUFFICES ASSUME Judging', NEW k \in pass'.over, k \in Keys, Runs(k)'
             PROVE  \/ hold'[k] = "over"
                    \/ hook'.phase = "read" /\ hook'.key = k /\ hook'.verdict # "repair"
                    \/ pass'.phase = "losing" /\ pass'.verdict[k] # "none"
                    \/ gate'[k] = "rerun-fail"
  <2>1. ASSUME Judging' PROVE pass'.over \subseteq Keys
    <3>1. PassList /\ pass'.over = {j \in Keys : hold[j] = "over"} => pass'.over \subseteq Keys
      OBVIOUS
    <3>2. Judging => pass.over \subseteq Keys
      BY PassIs DEF IInv, Types, TypeOK, Judging, Looking
    <3> QED BY <2>1, <3>1, <3>2, ListNext
  <2> QED BY <2>1 DEF OverInv
<1>1. ~Reload /\ ~Restart /\ ~PassLose
  <2>1. PassLose => pass.phase \in Looking /\ \E t : pass' = Begin("answers", t)
    BY DEF PassLose, Looking
  <2> QED BY <2>1, BeginIs DEF Reload, Restart, Loaded, Idle, Judging
<1>2. CASE PassList
  BY <1>2, ListNext DEF PassList
<1>3. CASE ~PassList
  <2>1. Judging /\ k \in pass.over /\ pass'.list = pass.list
    BY <1>3, ListNext
  <2>2. Runs(k)
    BY <2>1, EntryMoves DEF Judging, Runs, Ended
  <2>3. CASE gate[k] = "rerun-fail"
    BY <2>3, StuckGate
  <2>4. CASE hold[k] = "over"
    <3>1. CASE HookRead /\ hook.key = k
      BY <2>3, <2>4, <3>1, HeldRead
    <3>2. CASE PassRead(k)
      <4>1. pass.phase = "losing" /\ pass'.phase = "losing"
        BY <2>1, <3>2, ReadIs DEF Judging
      <4> QED BY <2>3, <2>4, <3>2, <4>1, HeldRead
    <3>3. CASE HoldOver(k)
      BY <2>4, <3>3 DEF HoldOver
    <3> QED BY <1>1, <2>4, <3>1, <3>2, <3>3, HoldNext
  <2>5. CASE hook.phase = "read" /\ hook.key = k /\ hook.verdict # "repair"
    <3>1. Answering(k)
      BY <2>5 DEF Answering, Idle
    <3>2. Answering(k)'
      BY <1>1, <2>5, <3>1, HookLeaves DEF HookRead
    <3>3. hook' # Idle
      BY <3>2 DEF Answering
    <3> QED BY <2>5, <3>1, <3>3, HookMoves DEF Answering
  <2>6. CASE pass.phase = "losing" /\ pass.verdict[k] # "none"
    <3>1. pass'.phase = "losing"
      <4>1. ~(\E ok \in BOOLEAN : PassJudge(ok))
        BY <2>6 DEF PassJudge
      <4> QED BY <1>1, <1>3, <2>6, <4>1, PassRests, ReadIs, KeepIs DEF Judging, Looking
    <3> QED BY <2>6, <3>1, LosingNext, AppliedEnds
  <2> QED BY <2>1, <2>2, <2>3, <2>4, <2>5, <2>6 DEF IInv, OverInv
<1> QED BY <1>2, <1>3

\* The entries the judged list proves lost are those that Lost says.
LEMMA LostIs ==
  ASSUME IInv, Judging, NEW k \in Keys, Runs(k)
  PROVE  Reconciled(k) = "lost" <=> Lost(k)
<1>1. pass.list[k] \in Views
  BY PassIs DEF IInv, Types, TypeOK, Judging, Looking
<1> QED BY <1>1 DEF Reconciled, Judged, Lost, Runs, Views

\* An entry that would be lost has no agent at work, and so its answer stands.
LEMMA LostGone ==
  ASSUME IInv, ListInv, Judging, NEW k \in Keys, Lost(k)
  PROVE  ~AtWork(k)
<1>1. hook.phase = "taken" /\ hook.key = k => Answering(k)
  BY DEF Answering, Idle
<1> QED BY <1>1 DEF IInv, ListInv, AgentInv, Lost, Answering

LEMMA LossKept == ASSUME IInv, ListInv, OverInv, LossInv, [Next]_vars PROVE LossInv'
<1> SUFFICES ASSUME pass'.phase = "losing", NEW k \in Keys, Lost(k)', k \notin pass'.todo, pass'.verdict[k] = "none"
             PROVE  NothingLeft(k)'
  BY DEF LossInv
<1>1. ~Reload /\ ~Restart /\ ~PassLose /\ ~PassList
  <2>1. PassLose => pass.phase \in Looking /\ \E t : pass' = Begin("answers", t)
    BY DEF PassLose, Looking
  <2> QED BY <2>1, BeginIs DEF Reload, Restart, Loaded, Idle, PassList
<1>2. Judging /\ pass'.list = pass.list /\ pass'.over = pass.over
  BY <1>1, ListNext DEF Judging
<1>3. Runs(k)' /\ ~Answering(k)' /\ entry'[k].id
      /\ (pass'.list[k] = "no" \/ (pass'.list[k] = "ended" /\ ~repairing'[k] /\ seen'[k] = "before"))
  BY DEF Lost
<1>4. ~(hold'[k] = "held") /\ ~(hold'[k] = "over" /\ k \notin pass.over)
  BY <1>2 DEF Lost, Holding
<1>5. Runs(k) /\ entry[k].id
  BY <1>2, <1>3, EntryMoves DEF Judging, Runs, Ended, Kept
<1>6. pass.list[k] = "no" \/ (pass.list[k] = "ended" /\ ~repairing[k] /\ seen[k] = "before")
  BY <1>1, <1>2, <1>3, SeenNext
<1>7. Lost(k) /\ NothingLeft(k) => NothingLeft(k)'
  <2> SUFFICES ASSUME Lost(k), file[k] = "no" PROVE file'[k] = "no"
    BY StuckGate DEF NothingLeft
  <2>1. ~AtWork(k)
    BY <1>2, LostGone
  <2>2. ASSUME NEW j \in Keys, Answer(j) \/ Stop(j) \/ StopGate(j) \/ LateLine(j) \/ Die(j) \/ List(j) \/ Recover(j)
        PROVE  file'[k] = file[k]
    BY <2>1, <2>2, AgentMoves DEF AtWork
  <2>3. Resume \/ Spawn => UNCHANGED file
    BY DEF Resume, Spawn
  <2> QED BY <1>1, <2>2, <2>3, EngineRests DEF engine
<1>8. CASE pass.phase = "losing"
  <2>1. CASE PassRead(k)
    <3>1. file[k] = "no" \/ gate[k] = "rerun-fail"
      BY <1>4, <1>8, <2>1, HeldRead
    <3>2. UNCHANGED <<file, gate>>
      BY <2>1 DEF PassRead, engine
    <3> QED BY <3>1, <3>2 DEF NothingLeft
  <2>2. CASE HookRead /\ hook.key = k
    <3>1. gate[k] = "rerun-fail"
      BY <1>3, <1>4, <2>2, HeldRead DEF Answering
    <3> QED BY <3>1, StuckGate DEF NothingLeft
  <2>3. CASE HoldOver(k) /\ k \in pass.over
    <3>1. hold[k] = "held" /\ UNCHANGED <<hook, pass>>
      BY <2>3 DEF HoldOver
    <3>2. ~(hook.phase = "read" /\ hook.key = k)
      BY <1>3, <3>1 DEF Answering, Idle
    <3>3. gate[k] = "rerun-fail"
      BY <1>2, <1>5, <2>3, <3>1, <3>2 DEF IInv, OverInv
    <3> QED BY <3>3, StuckGate DEF NothingLeft
  <2>4. CASE hold'[k] = hold[k] /\ ~(HookRead /\ hook.key = k) /\ ~PassRead(k)
    <3>1. ~Answering(k)
      <4>1. ~(Delivered /\ hook.phase = "taken" /\ hook.key = k)
        <5> SUFFICES ASSUME Delivered, hook.phase = "taken", hook.key = k PROVE FALSE
          OBVIOUS
        <5>1. seen'[k] = "no"
          BY DEF Delivered, IInv, Types, TypeOK
        <5>2. listed[k] # "no"
          BY DEF IInv, HookInv
        <5> QED BY <1>2, <1>3, <5>1, <5>2 DEF IInv, ListInv
      <4> QED BY <1>1, <1>3, <2>4, <4>1, HookLeaves DEF Answering
    <3>2. Lost(k)
      BY <1>4, <1>5, <1>6, <2>4, <3>1 DEF Lost, Holding
    <3>3. k \notin pass.todo /\ pass.verdict[k] = "none"
      BY <1>3, <1>8, <2>4, LosingNext, AppliedEnds
    <3>4. NothingLeft(k)
      BY <1>8, <3>2, <3>3 DEF IInv, LossInv
    <3> QED BY <1>7, <3>2, <3>4
  <2>5. HoldOver(k) => hold'[k] = "over"
    BY DEF HoldOver, IInv, Types, TypeOK
  <2> QED BY <1>1, <1>4, <2>1, <2>2, <2>3, <2>4, <2>5, HoldNext
<1>9. CASE pass.phase # "losing"
  <2>1. PICK ok \in BOOLEAN : PassJudge(ok)
    BY <1>1, <1>9, PassRests, ReadIs, KeepIs DEF Looking
  <2>2. pass.phase = "listed" /\ pass.phase \in Looking /\ UNCHANGED <<entry, hook, repairing, hold>>
    BY <2>1 DEF PassJudge, Looking
  <2>3. pass' = Begin("losing", {j \in Keys : Runs(j) /\ Reconciled(j) = "lost"})
    BY <2>1, <2>2, BeginIs DEF PassJudge
  <2>4. Lost(k)
    BY <1>3, <1>4, <1>5, <1>6, <2>2 DEF Lost, Holding, Answering
  <2>5. k \in pass'.todo
    BY <1>2, <1>5, <2>2, <2>3, <2>4, LostIs, BeginIs
  <2> QED BY <2>5
<1> QED BY <1>8, <1>9

\* An entry with an agent is made lost or failed by the judged list alone.
LEMMA LostBy ==
  ASSUME IInv, [Next]_vars, NEW k \in Keys, Runs(k), entry[k].id, entry'[k].status \in {"lost", "failed"}
  PROVE  PassLose
<1>1. entry \in [Keys -> Entry] /\ Types /\ entry[k] \in Entry
  BY DEF IInv, Types, TypeOK
<1>2. entry'[k] # entry[k] /\ entry'[k].status \notin {"answered", "overdue", "unknown", "running"}
  BY DEF Runs
<1>3. \A s : [entry[k] EXCEPT !.status = s].status = s
  BY <1>1 DEF Entry
<1>4. ASSUME NEW j, NEW s, entry' = Ends(j, s) PROVE j = k /\ s \in {"lost", "failed"}
  <2>1. entry'[k] = IF j = k THEN [entry[k] EXCEPT !.status = s] ELSE entry[k]
    BY <1>1, <1>4 DEF Ends
  <2> QED BY <1>2, <1>3, <2>1
<1>5. ~HookApply
  <2> SUFFICES ASSUME HookApply PROVE FALSE
    OBVIOUS
  <2>1. hook # Idle /\ hook.key \in Keys /\ hook.verdict \in Verdicts
    BY Phases DEF HookApply
  <2>2. entry' # entry /\ ~(entry' = Marked(hook.key))
    BY <1>1, <1>2 DEF Marked, Runs, Entry
  <2>3. entry' = Ends(hook.key, IF hook.verdict = "repair" THEN "unknown" ELSE hook.verdict)
    BY <2>2 DEF HookApply
  <2>4. (IF hook.verdict = "repair" THEN "unknown" ELSE hook.verdict) \notin {"lost", "failed"}
    BY <2>1 DEF Verdicts
  <2> QED BY <1>4, <2>3, <2>4
<1>6. ~Undelivered
  BY <1>2, <1>4 DEF Undelivered
<1>7. ~Spawn
  <2>1. pass.phase = "spawn" => ~entry[pass.key].id
    BY DEF IInv, StartInv
  <2> QED BY <1>2, <1>4, <2>1 DEF Spawn
<1>8. ~Spawned
  <2> SUFFICES ASSUME Spawned PROVE FALSE
    OBVIOUS
  <2>1. entry'[k] = entry[k] \/ entry'[k] = [entry[k] EXCEPT !.id = TRUE]
    BY <1>1 DEF Spawned
  <2> QED BY <1>1, <1>2, <2>1 DEF Entry, Runs
<1>9. ~Reload /\ ~Restart
  <2>1. Loaded => entry'[k] = entry[k]
    BY DEF Loaded
  <2> QED BY <1>2, <2>1 DEF Reload, Restart
<1>10. ASSUME NEW ks, pass.phase \in Looking PROVE entry'[k] # Applied(ks)[k]
  <2>1. Applied(ks)[k] = IF k \in ks /\ Runs(k) /\ pass.verdict[k] # "none" THEN [entry[k] EXCEPT !.status = pass.verdict[k]] ELSE entry[k]
    BY <1>1, <1>10, AppliedIs
  <2>2. pass.verdict[k] \in Verdict
    BY <1>1, <1>10 DEF Types, Reads
  <2> QED BY <1>2, <1>3, <2>1, <2>2 DEF Verdict
<1>11. ASSUME NEW j \in Keys, PassKeep(j) PROVE FALSE
  <2>1. entry' = Applied({j}) /\ pass.phase \in Looking
    BY <1>11, KeepIs DEF Looking
  <2> QED BY <1>10, <2>1
<1>12. ASSUME NEW next \in SUBSET Keys, PassAnswers(next) PROVE FALSE
  <2>1. pass.phase \in Looking /\ entry'[k] = IF k \in next THEN [entry[k] EXCEPT !.status = "running"] ELSE Applied(Keys)[k]
    BY <1>12 DEF PassAnswers, Looking
  <2> QED BY <1>2, <1>3, <1>10, <2>1
<1>13. ASSUME NEW j \in Keys, Answer(j) \/ Stop(j) \/ StopGate(j) \/ LateLine(j) \/ Die(j) \/ List(j) \/ Recover(j) \/ PassRead(j)
                              \/ HoldOver(j) \/ RepairOver(j)
       PROVE  FALSE
  BY <1>2, <1>13, Frames DEF PassRead, HoldOver, RepairOver
<1>14. Resume \/ HookStart \/ HookRead \/ Delivered \/ HookOff \/ PassList \/ (\E ok \in BOOLEAN : PassJudge(ok)) \/ UNCHANGED vars => UNCHANGED entry
  BY DEF Resume, HookStart, HookRead, Delivered, HookOff, PassList, PassJudge, vars
<1> QED BY <1>2, <1>5, <1>6, <1>7, <1>8, <1>9, <1>11, <1>12, <1>13, <1>14 DEF Next, Pass, Hook, Engine, Time

-----------------------------------------------------------------------------
(* The theorems. *)

LEMMA InitInv == Init => IInv /\ JudgeInv
<1> SUFFICES ASSUME Init PROVE IInv /\ JudgeInv
  OBVIOUS
<1>1. Types
  BY InitTypes
<1>2. StartInv /\ AgentInv /\ TurnInv /\ ListInv /\ RepairInv
  BY DEF Init, StartInv, AgentInv, TurnInv, ListInv, RepairInv, Idle, Judging, AtWork, Looking
<1>3. HookInv /\ OverInv /\ LossInv
  BY DEF Init, HookInv, Queued, OverInv, LossInv, Idle, Judging
<1> QED BY <1>1, <1>2, <1>3 DEF IInv, JudgeInv

LEMMA NextInv == IInv /\ [Next]_vars => IInv'
<1> SUFFICES ASSUME IInv, [Next]_vars PROVE IInv'
  OBVIOUS
<1>1. Types'
  BY TypesKept DEF IInv
<1> QED BY <1>1, StartKept, AgentKept, HookKept, TurnKept, RepairKept DEF IInv

LEMMA NextJudge == ASSUME "late-list" \notin Races PROVE IInv /\ JudgeInv /\ [Next]_vars => JudgeInv'
BY ListKept, OverKept, LossKept DEF JudgeInv

LEMMA Invariance == Spec => []IInv
BY InitInv, NextInv, PTL DEF Spec

LEMMA JudgeInvariance == ASSUME "late-list" \notin Races PROVE Spec => [](IInv /\ JudgeInv)
<1>1. IInv /\ JudgeInv /\ [Next]_vars => JudgeInv'
  BY NextJudge
<1> QED BY <1>1, InitInv, NextInv, PTL DEF Spec

\* Every variable keeps to the values the code gives it.
THEOREM TypeCorrect == Spec => []TypeOK
<1>1. Types => TypeOK
  BY DEF Types
<1> QED BY <1>1, InitTypes, TypesKept, PTL DEF Spec

\* A gated writer's step taken on its gate line has left its agent at work no more: of the hook
\* and the pass, neither takes an answer before the first turn it was given in is over.
THEOREM GateFirstHolds == Spec => []GateFirst
<1>1. IInv => GateFirst
  BY KeysAssumption DEF IInv, TurnInv, GateFirst
<1> QED BY <1>1, Invariance, PTL

\* One repair message per attempt: the mark on the entry is saved before the message goes out.
THEOREM RepairedOnce == Spec => []OneRepair
<1>1. IInv => OneRepair
  <2> SUFFICES ASSUME IInv, NEW k \in Keys PROVE repairs[k] <= 1
    BY DEF OneRepair
  <2>1. repairs[k] \in Nat /\ (repairs[k] # 0 => repairs[k] = 1)
    BY DEF IInv, Types, TypeOK, RepairInv
  <2> QED BY <2>1
<1> QED BY <1>1, Invariance, PTL

\* An attempt that ended stays as it ended, whichever of the three readers comes later.
THEOREM EndsOnceHolds == Spec => EndsOnce
<1>1. ASSUME IInv, [Next]_vars PROVE [\A k \in Keys : entry[k].status \in Ended => entry'[k] = entry[k]]_vars
  <2> SUFFICES ASSUME NEW k \in Keys, entry[k].status \in Ended PROVE entry'[k] = entry[k]
    OBVIOUS
  <2>1. ~Runs(k) /\ entry[k].status # "none"
    BY DEF Runs, Ended
  <2> QED BY <1>1, <2>1, EntryMoves
<1> QED BY <1>1, Invariance, PTL DEF EndsOnce, Spec

\* A list read when the pass began makes an entry lost or failed only when its agent is gone, and
\* lost only with no answer left to take, whatever hooks, reads and repairs came between.
THEOREM LostOverHolds == ASSUME "late-list" \notin Races PROVE Spec => LostOver
<1> DEFINE Fair == \A k \in Keys : Runs(k) /\ entry[k].id =>
       /\ entry'[k].status \in {"lost", "failed"} => ~AtWork(k)
       /\ entry'[k].status = "lost" => file[k] = "no" \/ (k \in Gated /\ gate[k] = "rerun-fail")
<1>1. ASSUME IInv, JudgeInv, [Next]_vars PROVE Fair
  <2> SUFFICES ASSUME NEW k \in Keys, Runs(k), entry[k].id, entry'[k].status \in {"lost", "failed"}
               PROVE  ~AtWork(k) /\ (entry'[k].status = "lost" => file[k] = "no" \/ (k \in Gated /\ gate[k] = "rerun-fail"))
    OBVIOUS
  <2>1. PassLose
    BY <1>1, LostBy
  <2>2. pass.phase = "losing" /\ Judging /\ pass.todo = {} /\ pass.verdict[k] = "none"
    BY <2>1 DEF PassLose, Judging, Nothing
  <2>3. entry'[k].status = Reconciled(k)
    <3>1. entry[k] \in Entry /\ entry'[k] = [entry[k] EXCEPT !.status = Reconciled(k)]
      BY <1>1, <2>1 DEF PassLose, IInv, Types, TypeOK
    <3> QED BY <3>1 DEF Entry
  <2>4. CASE Reconciled(k) = "lost"
    <3>1. Lost(k)
      BY <1>1, <2>2, <2>4, LostIs
    <3>2. ~AtWork(k)
      BY <1>1, <2>2, <3>1, LostGone DEF JudgeInv
    <3>3. NothingLeft(k)
      BY <1>1, <2>2, <3>1 DEF JudgeInv, LossInv
    <3>4. gate[k] = "rerun-fail" => k \in Gated
      BY <1>1 DEF IInv, AgentInv
    <3> QED BY <3>2, <3>3, <3>4 DEF NothingLeft
  <2>5. CASE Reconciled(k) = "failed"
    <3>1. pass.list[k] = "failed"
      BY <2>5 DEF Reconciled, Judged, Runs
    <3>2. agent[k] = "dead"
      BY <1>1, <2>2, <3>1 DEF JudgeInv, ListInv
    <3> QED BY <2>3, <2>5, <3>2 DEF AtWork
  <2> QED BY <2>3, <2>4, <2>5
<1> QED BY <1>1, JudgeInvariance, PTL DEF LostOver, Spec
=============================================================================
