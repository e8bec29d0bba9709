------------------------------- MODULE Slots --------------------------------
(***************************************************************************)
(* The worktree slots of the pool and the lives that work in them: the     *)
(* plan's use of the leases (v2/rules-slots.ts, v2/rules-agent.ts), the    *)
(* tool that takes, prepares and gives back a slot (bin/factory-slot under *)
(* v2/act-slots.ts), the spawn of an agent in one (v2/steps.ts), and what  *)
(* happens meanwhile: agents write and end, the module reloads, a call     *)
(* fails or its answer is lost or late, a person returns or takes a slot,  *)
(* the owner drops or resumes an issue.                                    *)
(*                                                                         *)
(* A lease's id that nothing names any more may be used again. Left out:   *)
(* time (a backoff may be over at once), the tier, branches, scratch       *)
(* folders, processes other than agents, and leases that a plan sees being *)
(* freed: slot actions run within their pass, and passes do not overlap.   *)
(***************************************************************************)
EXTENDS SlotState, Integers, FiniteSets, SequencesExt

LEASE_ATTEMPTS == 3
FREE_ATTEMPTS == 2

vars == <<slot, rec, entry, agents, unseen, todo, op, late, outside, hist>>

Lives == 1..NLives
Slots == 1..NSlots
Nobody == 0
Person == NLives + 1
NoSlot == 0
NoLease == 0

Act(what, l, p, id) == [do |-> what, life |-> l, slot |-> p, id |-> id]
Run(a, at) == [do |-> a.do, life |-> a.life, slot |-> a.slot, id |-> a.id, at |-> at]
NoOp == Run(Act("none", Nobody, NoSlot, NoLease), "idle")

Kinds == {"none", "stop", "take", "resume", "drop", "lost", "lost-running", "timeout", "ended", "unprepared",
          "prepare", "spawn", "claim", "free", "lease"}
Acts == [do : Kinds, life : {Nobody} \cup Lives, slot : {NoSlot} \cup Slots, id : {NoLease} \cup LeaseIds]
Stages == {"idle", "check", "get", "save", "reset", "mark", "return", "answer", "spawn"}

TypeOK ==
  /\ slot \in [Slots -> [id : {NoLease} \cup LeaseIds, holder : 0..Person, work : {"clean", "new", "old", "stray", "saved"},
                         marker : {Nobody} \cup Lives, frees : 0..FREE_ATTEMPTS]]
  /\ rec \in [Lives -> [st : {"none", "queued", "slot", "parked", "closed"}, resumed : BOOLEAN,
                        left : 0..MaxSteps, asked : {"no", "drop", "resume", "timeout"}]]
  /\ entry \in [Lives -> [lease : {"none", "failed", "done"}, tries : 0..LEASE_ATTEMPTS, leased : {NoLease} \cup LeaseIds,
                          stop : {"no", "done", "failed"}, prep : {"none", "failed", "done"},
                          named : {NoLease} \cup LeaseIds, step : {"none", "running", "ended"}]]
  /\ agents \subseteq [life : Lives, slot : Slots, id : LeaseIds, cur : BOOLEAN,
                      unstopped : BOOLEAN, loose : BOOLEAN]
  /\ unseen \subseteq [life : Lives, slot : Slots, works : BOOLEAN]
  /\ \A l \in Lives : entry[l].step = "running" <=> \E a \in agents : a.life = l /\ a.cur
  /\ todo \in Seq(Acts) /\ op \in {Run(a, at) : a \in Acts, at \in Stages}
  /\ late \subseteq Lives /\ outside \in 0..MaxOutside
  /\ hist \in [lost : BOOLEAN, taken : SUBSET Lives, wrong : BOOLEAN]

Init ==
  /\ slot = [p \in Slots |-> [id |-> NoLease, holder |-> Nobody, work |-> "clean", marker |-> Nobody, frees |-> 0]]
  /\ rec = [l \in Lives |-> [st |-> "none", resumed |-> FALSE, left |-> MaxSteps, asked |-> "no"]]
  /\ entry = [l \in Lives |-> [lease |-> "none", tries |-> 0, leased |-> NoLease, stop |-> "no",
                               prep |-> "none", named |-> NoLease, step |-> "none"]]
  /\ agents = {} /\ unseen = {} /\ todo = <<>> /\ op = NoOp /\ late = {} /\ outside = 0
  /\ hist = [lost |-> FALSE, taken |-> {}, wrong |-> FALSE]

Happens == outside < MaxOutside /\ outside' = outside + 1

-----------------------------------------------------------------------------
(* The life's lease, and what runs in it *)

Mine(l) == {p \in Slots : slot[p].holder = l}
On(l, id) == {p \in Mine(l) : slot[p].id = id}

\* mutant: always the first by path
LeaseFirst(l, seen) == IF seen /\ Mine(l) # {} THEN Min(Mine(l)) ELSE NoSlot

\* the newest done prepare's, else the newest done lease's, else the first by path; an older entry's
\* lease is gone when a newer one names another. seen: the pass read the pool
LeaseOf(l, seen) ==
  LET best == CASE On(l, entry[l].named) # {} -> On(l, entry[l].named)
                [] On(l, entry[l].named) = {} /\ On(l, entry[l].leased) # {} -> On(l, entry[l].leased)
                [] OTHER -> Mine(l)
  IN IF seen /\ best # {} THEN Min(best) ELSE NoSlot

OldAgents(l) == {a \in agents : a.life = l /\ ~a.cur}
RunningIn(l) == \E a \in agents : a.life = l
Stalled(l) == entry[l].lease = "failed" /\ entry[l].tries = LEASE_ATTEMPTS

SlotLost(l, seen) ==
  /\ seen
  /\ LeaseOf(l, seen) = NoSlot \/ (entry[l].prep = "done" /\ slot[LeaseOf(l, seen)].id # entry[l].named)

-----------------------------------------------------------------------------
(* The plan: each record's rule, the claims, then W2 and W1 *)

\* entry actions: the agents an earlier seq started are stopped, best effort
StopDue(l) == OldAgents(l) # {} /\ entry[l].stop = "no"
EntryDone(l) == ~StopDue(l)

\* agentStep in a slot state, and a running step's timeout
StepRule(l, seen) ==
  LET p == LeaseOf(l, seen)
      e == entry[l]
  IN CASE e.step = "running" /\ SlotLost(l, seen) /\ ~Stalled(l) -> {"lost-running"}
       [] e.step = "running" /\ ~SlotLost(l, seen) /\ rec[l].asked = "timeout" -> {"timeout"}
       [] e.step = "ended" /\ ~Stalled(l) -> {"ended"}
       [] e.step = "none" /\ e.prep = "failed" /\ ~Stalled(l) -> {"unprepared"}
       [] e.step = "none" /\ e.prep = "done" /\ SlotLost(l, seen) /\ ~Stalled(l) -> {"lost"}
       [] e.step = "none" /\ p # NoSlot /\ ~Stalled(l) /\ EntryDone(l) /\ e.prep = "none" -> {"prepare"}
       [] e.step = "none" /\ p # NoSlot /\ ~Stalled(l) /\ EntryDone(l) /\ e.prep = "done" /\ ~SlotLost(l, seen) -> {"spawn"}
       [] OTHER -> {}

\* the one event that takes the record this pass, or its step's next action
RecordRule(l, seen) ==
  CASE rec[l].st \in {"none", "closed"} -> {}
    [] rec[l].st \notin {"none", "closed"} /\ rec[l].asked = "drop" -> {"drop"}
    [] rec[l].asked # "drop" /\ rec[l].st = "queued" -> IF LeaseOf(l, seen) # NoSlot /\ ~Stalled(l) THEN {"take"} ELSE {}
    [] rec[l].asked # "drop" /\ rec[l].st = "parked" -> {rec[l].asked} \cap {"resume"}
    [] OTHER -> StepRule(l, seen)

\* the stop goes first
RecordActs(seen) ==
  UNION {LET p == LeaseOf(l, seen)
             does == (IF StopDue(l) THEN {"stop"} ELSE {}) \cup RecordRule(l, seen)
         IN {Act(what, l, p, IF p = NoSlot THEN NoLease ELSE slot[p].id) : what \in does} : l \in Lives}
ByIssue(a, b) == a.life < b.life \/ (a.life = b.life /\ a.do = "stop")

InFactory == {l \in Lives : rec[l].st \in {"queued", "slot"}}

\* S1 and S0: the next issue's claim and its record
ClaimActs ==
  {Act("claim", l, NoSlot, NoLease) : l \in {m \in Lives :
     /\ \A k \in 1..m : rec[k].st = "none" <=> k = m
     /\ Cardinality(InFactory) < Cap}}

\* a live life holds one lease; any other of it is a second one
Held(l, p) == l \in InFactory /\ LeaseOf(l, TRUE) = p

\* mutant: what still runs in the slot is not asked
FreeAnyway(p) == slot[p].holder \in Lives /\ ~Held(slot[p].holder, p) /\ slot[p].frees < FREE_ATTEMPTS
\* mutant: the slot of a closed life is forgotten
FreeOpen(p) ==
  LET l == slot[p].holder
  IN l \in Lives /\ rec[l].st # "closed" /\ ~Held(l, p) /\ ~RunningIn(l) /\ slot[p].frees < FREE_ATTEMPTS

\* W2
FreeDue(p) ==
  LET l == slot[p].holder
  IN l \in Lives /\ ~Held(l, p) /\ ~RunningIn(l) /\ slot[p].frees < FREE_ATTEMPTS
FreeActs == {Act("free", slot[p].holder, p, slot[p].id) : p \in {q \in Slots : FreeDue(q)}}

\* W1: the vanished first, then the resumed (in any order: by the time they parked), then the claims
Unleased(st) == {l \in Lives : rec[l].st = st /\ Mine(l) = {} /\ ~Stalled(l)}
ByTurn(l, m) == rec[l].resumed \/ (~rec[m].resumed /\ l < m)
\* mutant: a parked record keeps its place
InFlightParked == {l \in Lives : rec[l].st \in {"slot", "parked"} \/ (rec[l].st = "queued" /\ Mine(l) # {})}
InFlight == {l \in Lives : rec[l].st = "slot" \/ (rec[l].st = "queued" /\ Mine(l) # {})}
Spare == {p \in Slots : slot[p].holder = Nobody}

UpTo(s, n) == SubSeq(s, 1, IF n < Len(s) THEN n ELSE Len(s))
LeasePlan(vanished, queued) ==
  LET free == Cardinality(Spare)
      first == UpTo(vanished, free)
      next == UpTo(queued, LET room == Cap - Cardinality(InFlight)
                               left == free - Len(first) - Reserve
                           IN IF room < left THEN room ELSE left)
      order == first \o next
  IN [i \in DOMAIN order |-> Act("lease", order[i], NoSlot, NoLease)]

\* S in an order
Sorted(S, Before(_, _)) == {s \in SetToSeqs(S) : \A i, j \in DOMAIN s : i < j => Before(s[i], s[j])}

Plan(seen) ==
  /\ todo = <<>> /\ op = NoOp
  /\ \E records \in Sorted(RecordActs(seen), ByIssue), claim \in SetToSeqs(ClaimActs),
       frees \in Sorted(FreeActs, LAMBDA a, b : a.slot < b.slot),
       vanished \in Sorted({l \in Unleased("slot") : ~RunningIn(l)}, <), queued \in Sorted(Unleased("queued"), ByTurn) :
       todo' = records \o claim \o IF seen THEN frees \o LeasePlan(vanished, queued) ELSE <<>>
  /\ UNCHANGED <<slot, rec, entry, agents, unseen, op, late, hist>>

-----------------------------------------------------------------------------
(* The pass carries out its plan *)

Doing(what) == todo # <<>> /\ op = NoOp /\ Head(todo).do \in what /\ todo' = Tail(todo)

Exec_Claim ==
  /\ Doing({"claim"}) /\ rec' = [rec EXCEPT ![Head(todo).life].st = "queued"]
  /\ UNCHANGED <<slot, entry, agents, unseen, op, late, outside, hist>>

\* a transition: the record's next seq, unless the step is not as the plan saw it any more
Targets(what, l) ==
  CASE what = "take" -> {"slot"}
    [] what = "resume" -> {"queued"}
    [] what = "drop" -> {"closed"}
    [] what \in {"lost", "lost-running"} -> {"slot", "parked"}
    [] OTHER -> {"parked"} \cup (IF rec[l].left > 0 THEN {"slot"} ELSE {}) \cup (IF what = "ended" THEN {"closed"} ELSE {})
Moves == {"take", "resume", "drop", "lost", "lost-running", "timeout", "ended", "unprepared"}

Exec_Move ==
  /\ Doing(Moves)
  /\ LET a == Head(todo)
         l == a.life
     IN IF a.do \in {"lost-running", "timeout"} /\ entry[l].step # "running"
        THEN UNCHANGED <<slot, rec, entry, agents, unseen, hist>>
        ELSE \E to \in Targets(a.do, l) :
          /\ rec' = [rec EXCEPT ![l] = [st |-> to, resumed |-> @.resumed \/ a.do = "resume",
                       left |-> IF a.do \in {"timeout", "ended", "unprepared"} /\ to = "slot" THEN @.left - 1 ELSE @.left,
                       asked |-> IF @.asked = "drop" /\ a.do # "drop" THEN "drop" ELSE "no"]]
          /\ entry' = [entry EXCEPT ![l].stop = "no", ![l].prep = "none", ![l].step = "none"]
          /\ agents' = {[b EXCEPT !.cur = @ /\ b.life # l] : b \in agents}
          /\ slot' = [p \in Slots |-> [slot[p] EXCEPT !.marker = IF @ = l THEN Nobody ELSE @]]
          /\ unseen' = {u \in unseen : u.works \/ u.life # l}
          /\ hist' = [hist EXCEPT !.taken = @ \ {l}, !.wrong = @ \/ (a.do \in {"lost", "lost-running"} /\ l \notin hist.taken)]
  /\ UNCHANGED <<op, late, outside>>

Exec_Stop(works) ==
  /\ Doing({"stop"})
  /\ LET l == Head(todo).life IN
       /\ entry' = [entry EXCEPT ![l].stop = IF works THEN "done" ELSE "failed"]
       /\ agents' = IF works THEN agents \ OldAgents(l)
                    ELSE {IF b \in OldAgents(l) THEN [b EXCEPT !.unstopped = TRUE] ELSE b : b \in agents}
  /\ UNCHANGED <<slot, rec, unseen, op, late, hist>>

\* the spawn is awaited; until its answer the entry has no agent, and reads as ended, which is what
\* a reload or a timeout makes of it
Exec_Spawn ==
  /\ Doing({"spawn"})
  /\ op' = Run(Head(todo), "spawn") /\ entry' = [entry EXCEPT ![Head(todo).life].step = "ended"]
  /\ UNCHANGED <<slot, rec, agents, unseen, late, outside, hist>>

\* an attempt counts from its start; until its answer it reads as a failed one, which is what a reload makes of it
Exec_Tool ==
  /\ Doing({"lease", "prepare", "free"})
  /\ LET a == Head(todo) IN
       /\ op' = Run(a, "check")
       /\ entry' = CASE a.do = "lease" -> [entry EXCEPT ![a.life].lease = "failed",
                                             ![a.life].tries = IF entry[a.life].lease = "done" THEN 1 ELSE @ + 1]
                     [] a.do = "prepare" -> [entry EXCEPT ![a.life].prep = "failed"]
                     [] OTHER -> entry
       /\ slot' = IF a.do = "free" /\ slot[a.slot].id = a.id THEN [slot EXCEPT ![a.slot].frees = @ + 1] ELSE slot
  /\ UNCHANGED <<rec, agents, unseen, late, outside, hist>>

-----------------------------------------------------------------------------
(* The slot tool *)

Tool(at) == op.at = at /\ UNCHANGED <<rec, agents, unseen, todo, late, outside>>
Goes(at) == op' = [op EXCEPT !.at = at]
\* an id that nothing names; which one is no matter
Used == {slot[p].id : p \in Slots} \cup {entry[l].named : l \in Lives} \cup {entry[l].leased : l \in Lives}
        \cup {a.id : a \in agents} \cup {todo[i].id : i \in DOMAIN todo} \cup {op.id}
Fresh == {id \in LeaseIds \ Used : \A other \in LeaseIds \ Used : id <= other}
Leased(p, l, id) == slot' = [slot EXCEPT ![p].id = id, ![p].holder = l, ![p].frees = 0]
Returned(p) == [slot[p] EXCEPT !.id = NoLease, !.holder = Nobody, !.frees = 0]

\* the pool is read first: a lease keeps the slot its holder has; prepare refuses another lease's
\* slot or another's, free finds it gone
Check ==
  /\ Tool("check")
  /\ CASE op.do = "lease" -> IF Mine(op.life) # {} THEN \E p \in Mine(op.life) : op' = [op EXCEPT !.at = "answer", !.slot = p, !.id = slot[p].id]
                             ELSE IF Spare # {} THEN Goes("get") ELSE op' = NoOp
       [] OTHER -> IF slot[op.slot].id = op.id THEN Goes("save") ELSE op' = NoOp
  /\ UNCHANGED <<slot, entry, hist>>

Get ==
  /\ Tool("get") /\ UNCHANGED <<entry, hist>>
  /\ IF Spare = {} THEN op' = NoOp /\ UNCHANGED slot
     ELSE \E p \in Spare, id \in Fresh : Leased(p, op.life, id) /\ op' = [op EXCEPT !.at = "answer", !.slot = p, !.id = id]

\* clear: what a reset would lose is saved, then the tree is reset; work that cannot be saved fails the op
Save ==
  /\ Tool("save") /\ Goes("reset")
  /\ slot' = [slot EXCEPT ![op.slot].work = IF @ = "clean" THEN @ ELSE "saved"]
  /\ UNCHANGED <<entry, hist>>
Reset ==
  /\ Tool("reset") /\ Goes(IF op.do = "prepare" THEN "mark" ELSE "return")
  /\ slot' = [slot EXCEPT ![op.slot].work = "clean"]
  /\ hist' = [hist EXCEPT !.lost = @ \/ slot[op.slot].work \in {"new"} \cup (IF op.do = "free" THEN {"old"} ELSE {})]
  /\ UNCHANGED entry

Mark ==
  /\ Tool("mark") /\ Goes("answer") /\ slot' = [slot EXCEPT ![op.slot].marker = op.life]
  /\ UNCHANGED <<entry, hist>>
Return ==
  /\ Tool("return") /\ Goes("answer")
  /\ slot' = IF slot[op.slot].id = op.id THEN [slot EXCEPT ![op.slot] = Returned(op.slot)] ELSE slot
  /\ UNCHANGED <<entry, hist>>

Answer ==
  /\ Tool("answer") /\ op' = NoOp
  /\ entry' = CASE op.do = "lease" -> [entry EXCEPT ![op.life].lease = "done", ![op.life].leased = op.id]
                [] op.do = "prepare" -> [entry EXCEPT ![op.life].prep = "done", ![op.life].named = op.id]
                [] OTHER -> entry
  /\ UNCHANGED <<slot, hist>>

\* the companion starts an agent only where the slot's marker is the attempt's
Starts(l, p) == slot[p].marker = l

\* the spawn's answer: the agent's id, or that it was denied
Spawned ==
  /\ op.at = "spawn" /\ op' = NoOp
  /\ LET starts == Starts(op.life, op.slot) IN
       /\ entry' = [entry EXCEPT ![op.life].step = IF starts THEN "running" ELSE "ended"]
       /\ agents' = agents \cup IF starts
            THEN {[life |-> op.life, slot |-> op.slot, id |-> entry[op.life].named, cur |-> TRUE,
                   unstopped |-> FALSE, loose |-> op.life \in hist.taken]}
            ELSE {}
  /\ UNCHANGED <<slot, rec, unseen, todo, late, outside, hist>>

-----------------------------------------------------------------------------
(* Outside *)

Write(a) ==
  /\ ~a.loose /\ slot' = [slot EXCEPT ![a.slot].work = IF a.unstopped /\ @ # "new" THEN "old" ELSE "new"]
  /\ UNCHANGED <<rec, entry, agents, unseen, todo, op, late, outside, hist>>
Ends(a) ==
  /\ agents' = agents \ {a}
  /\ entry' = IF a.cur THEN [entry EXCEPT ![a.life].step = "ended"] ELSE entry
  /\ UNCHANGED <<slot, rec, unseen, todo, op, late, outside, hist>>

\* an awaited call fails, or is given up: its answer may be lost after it did its work, a spawn's agent come late
Awaits == IF op.at = "spawn" THEN {[life |-> op.life, slot |-> op.slot, works |-> FALSE]} ELSE {}
ToolFails ==
  /\ op # NoOp /\ op' = NoOp /\ Happens /\ unseen' = unseen \cup Awaits
  /\ UNCHANGED <<slot, rec, entry, agents, todo, late, hist>>
\* the pass and its tool die with the module; a treehouse get and a spawn may go on
Reload ==
  /\ todo # <<>> \/ op # NoOp
  /\ Happens /\ todo' = <<>> /\ op' = NoOp /\ unseen' = unseen \cup Awaits
  /\ late' = late \cup (IF op.at = "get" THEN {op.life} ELSE {})
  /\ UNCHANGED <<slot, rec, entry, agents, hist>>
LateGet(l) ==
  /\ l \in late /\ late' = late \ {l}
  /\ IF Spare = {} THEN UNCHANGED slot ELSE \E p \in Spare, id \in Fresh : Leased(p, l, id)
  /\ UNCHANGED <<rec, entry, agents, unseen, todo, op, outside, hist>>

\* a spawn that nobody waits for any more starts its agent, or the companion denies it; the agent
\* writes, and ends unheard
LateSpawn(u) ==
  /\ ~u.works
  /\ unseen' = (unseen \ {u}) \cup IF Starts(u.life, u.slot) THEN {[u EXCEPT !.works = TRUE]} ELSE {}
  /\ UNCHANGED <<slot, rec, entry, agents, todo, op, late, outside, hist>>
WriteUnseen(u) ==
  /\ u.works /\ slot' = [slot EXCEPT ![u.slot].work = IF @ \in {"new", "old"} THEN @ ELSE "stray"]
  /\ UNCHANGED <<rec, entry, agents, unseen, todo, op, late, outside, hist>>
EndsUnseen(u) ==
  /\ u.works /\ unseen' = unseen \ {u}
  /\ UNCHANGED <<slot, rec, entry, agents, todo, op, late, outside, hist>>

\* a person returns a loop's slot, having seen to what is in it
HandReturn(p) ==
  /\ slot[p].holder \in Lives /\ Happens
  /\ LET l == slot[p].holder
         prepared == \/ entry[l].prep = "done" /\ entry[l].named = slot[p].id
                     \/ op.do = "prepare" /\ op.slot = p
     IN hist' = IF prepared THEN [hist EXCEPT !.taken = @ \cup {l}] ELSE hist
  /\ slot' = [slot EXCEPT ![p] = [Returned(p) EXCEPT !.work = "clean"]]
  /\ agents' = {[a EXCEPT !.loose = @ \/ a.slot = p] : a \in agents}
  /\ UNCHANGED <<rec, entry, unseen, todo, op, late>>
HandTake(p) ==
  /\ p \in Spare /\ Happens /\ slot' = [slot EXCEPT ![p].holder = Person]
  /\ UNCHANGED <<rec, entry, agents, unseen, todo, op, late, hist>>
HandGive(p) ==
  /\ slot[p].holder = Person /\ slot' = [slot EXCEPT ![p].holder = Nobody]
  /\ UNCHANGED <<rec, entry, agents, unseen, todo, op, late, outside, hist>>

\* the owner drops or resumes the issue, or its step runs past its timeout
Asked(l, what) ==
  /\ CASE what = "drop" -> rec[l].st \notin {"none", "closed"} /\ rec[l].asked # "drop"
       [] what = "resume" -> rec[l].st = "parked" /\ rec[l].asked = "no"
       [] OTHER -> entry[l].step = "running" /\ rec[l].asked = "no"
  /\ Happens /\ rec' = [rec EXCEPT ![l].asked = what]
  /\ UNCHANGED <<slot, entry, agents, unseen, todo, op, late, hist>>

-----------------------------------------------------------------------------
Loop ==
  \/ Plan(TRUE) /\ UNCHANGED outside
  \/ Exec_Claim \/ Exec_Move \/ Exec_Tool \/ Exec_Spawn \/ Spawned
  \/ Exec_Stop(TRUE) /\ UNCHANGED outside
  \/ Check \/ Get \/ Save \/ Reset \/ Mark \/ Return \/ Answer

Outside ==
  \/ Plan(FALSE) /\ Happens
  \/ Exec_Stop(FALSE) /\ Happens
  \/ ToolFails \/ Reload
  \/ \E l \in Lives : LateGet(l) \/ \E what \in {"drop", "resume", "timeout"} : Asked(l, what)
  \/ \E p \in Slots : HandReturn(p) \/ HandTake(p) \/ HandGive(p)

Agents ==
  \/ \E a \in agents : Write(a) \/ Ends(a)
  \/ \E u \in unseen : LateSpawn(u) \/ WriteUnseen(u) \/ EndsUnseen(u)

Next == Loop \/ Agents \/ Outside
Spec == Init /\ [][Next]_vars
FairSpec == Spec /\ WF_vars(Loop) /\ WF_vars(\E a \in agents : Ends(a))

-----------------------------------------------------------------------------
\* No more records are in slot states than the cap allows (docs/factory-loop/v2/SPEC.md:4556, property 5).
AtMostCap == Cardinality({l \in Lives : rec[l].st = "slot"}) <= Cap

\* A slot that is the loop's ends up with a life that holds it, or free, unless its free used up its
\* attempts, of which the owner is told: no lost answer, late get, drop or reload leaves it leased to
\* nobody (W2, and the holder's name as the only record of a lease).
GivenBack(p) == slot[p].holder \in Lives => Held(slot[p].holder, p) \/ slot[p].frees = FREE_ATTEMPTS
ComesBack == <>[](\A p \in Slots : GivenBack(p))

\* A queued record gets a slot or leaves the queue, unless a lease or a free used up its attempts or
\* a person keeps a slot: lives ahead of it, their retries and resumes, all give way in the end (W1).
NoRoom == (\E l \in Lives : Stalled(l)) \/ (\E p \in Slots : slot[p].frees = FREE_ATTEMPTS \/ slot[p].holder = Person)
Served == \A l \in Lives : rec[l].st = "queued" ~> rec[l].st # "queued" \/ NoRoom
=============================================================================
