------------------------------- MODULE Ledger -------------------------------
(***************************************************************************)
(* The ledger's attempts at commands (ledger.ts, act.ts, act-off.ts): a    *)
(* pass plans keys, starts each one's attempt in memory, saves it, and     *)
(* runs its command, inline or off the pass.  What the command reports, a  *)
(* timeout, or a reload of the module ends the attempt; a completion may   *)
(* come after its attempt was given up and retried.  Each save is one      *)
(* step here (ActLock has its parts), and it may fail.  Agents and wakes,  *)
(* and heartbeat and sweep, which no count stops, are left out.            *)
(***************************************************************************)
EXTENDS Naturals

CONSTANTS
  Keys,         \* idempotency keys
  OffPass,      \* the keys whose commands run off the pass (queue-merge)
  MaxAttempts,  \* maxAttemptsOf
  Backoff,      \* retryBackoffMs
  KeepMs,       \* KEEP_MS
  Bound,        \* a command's own timeout
  Margin,       \* OFF_PASS_MARGIN_MS
  Linger,       \* how long the pre-check and the save before a command may take
  None,         \* no entry under the key
  StartUntil,   \* bound: no action starts later
  MaxNow,       \* bound: the clock stops here
  MaxUpsets     \* bound: reloads, saves that fail and owner's retries, together

ASSUME KeysAssumption == OffPass \subseteq Keys
ASSUME NumbersAssumption ==
  /\ MaxAttempts \in Nat \ {0} /\ Backoff \in Nat /\ KeepMs \in Nat
  /\ Bound \in Nat /\ Margin \in Nat /\ Linger \in Nat
  /\ StartUntil \in Nat /\ MaxNow \in Nat /\ MaxUpsets \in Nat
\* the margin covers what comes before the launch: the entry's clock starts first
ASSUME MarginAssumption == Linger <= Margin

VARIABLES
  now,      \* the clock
  ledger,   \* live.ledger, by key
  stored,   \* the store's copy
  todo,     \* the keys the pass planned and has not handled yet
  act,      \* the action the pass is in: its key, the entry before it, and when it launched
  offs,     \* commands off the pass, running or waiting for the hook queue
  ran,      \* history: commands begun under a key since its count was cleared
  begun,    \* history: commands begun under a key in all, the undone ones left out
  upsets    \* reloads, failed saves and owner's retries so far

vars == <<now, ledger, stored, todo, act, offs, ran, begun, upsets>>

Ended == {"done", "failed", "timed-out", "lost"}
\* at: startedAt while it runs, endedAt afterwards; result: which command of the key its end
\* came from (history; 0: none)
Entry == [status : Ended \cup {"running"}, attempts : Nat, at : Nat, result : Nat]
Entries == [Keys -> Entry \cup {None}]
ASSUME NoneAssumption == None \notin Entry

Idle == [phase |-> "idle"]
Acts == {Idle}
  \cup [phase : {"starting"}, key : Keys, prev : Entry \cup {None}]
  \cup [phase : {"exec"}, key : Keys, prev : Entry \cup {None}, launched : Nat]
\* at: when it was launched while it runs, when it ended afterwards
Off == [key : Keys, startedAt : Nat, attempts : Nat, at : Nat, runs : BOOLEAN, nth : Nat]

TypeOK ==
  /\ now \in Nat /\ upsets \in Nat
  /\ ledger \in Entries /\ stored \in Entries
  /\ todo \in SUBSET Keys /\ act \in Acts /\ offs \in SUBSET Off
  /\ ran \in [Keys -> Nat] /\ begun \in [Keys -> Nat]

Init ==
  /\ now = 0 /\ upsets = 0
  /\ ledger = [k \in Keys |-> None] /\ stored = ledger
  /\ todo = {} /\ act = Idle /\ offs = {}
  /\ ran = [k \in Keys |-> 0] /\ begun = [k \in Keys |-> 0]

Has(l, k) == l[k] # None
Runs(l, k) == Has(l, k) /\ l[k].status = "running"
Exhausted(l, k) ==
  Has(l, k) /\ l[k].status \in Ended \ {"done"} /\ l[k].attempts >= MaxAttempts

\* ended: the end of an entry's attempt, with the command it came from
EndedBy(e, status, at, nth) == [e EXCEPT !.status = status, !.at = at, !.result = nth]

AtLeast(m, n) == IF n >= m THEN n ELSE m

\* gate = "go": new, or ended short of done, attempts left, and past its backoff
Go(l, k) ==
  \/ ~Has(l, k)
  \/ /\ l[k].status \in Ended \ {"done"} /\ ~Exhausted(l, k)
     /\ \/ l[k].status = "lost"
        \/ now >= l[k].at + Backoff * 2 ^ (AtLeast(1, l[k].attempts) - 1)

\* prune: an entry that ended longer than KeepMs ago goes
Kept(l) ==
  [k \in Keys |-> IF Has(l, k) /\ ~Runs(l, k) /\ now > l[k].at + KeepMs THEN None ELSE l[k]]

Upset(n) == upsets + n <= MaxUpsets /\ upsets' = upsets + n

\* persist and save: the store and the memory take the pruned ledger, and a key that goes has
\* its count cleared; r: the commands counted before
Saves(l, r) ==
  /\ ledger' = Kept(l) /\ stored' = Kept(l)
  /\ ran' = [k \in Keys |-> IF Has(l, k) /\ ~Has(Kept(l), k) THEN 0 ELSE r[k]]

\* the same, or the write fails, in an action that is n upsets itself
Persist(l, r, n) ==
  \/ Saves(l, r) /\ Upset(n)
  \/ ledger' = l /\ stored' = stored /\ ran' = r /\ Upset(n + 1)

\* offPassExpired: timed out once its command's timeout and the margin have passed
Expired(l) ==
  [k \in Keys |->
    IF k \in OffPass /\ Runs(l, k) /\ now > l[k].at + Bound + Margin
    THEN EndedBy(l[k], "timed-out", now, 0) ELSE l[k]]

\* actPass, up to its actions: what outlived its bound ends, saved if anything moved, and a plan
Plan ==
  /\ act = Idle /\ todo = {}
  /\ IF Expired(ledger) = ledger
     THEN UNCHANGED <<ledger, stored, ran, upsets>>
     ELSE Persist(Expired(ledger), ran, 0)
  /\ todo' = {k \in Keys : Go(ledger', k)}
  /\ UNCHANGED <<now, act, offs, begun>>

\* start: the attempt, in memory
Started(k) ==
  [status |-> "running",
   attempts |-> IF ~Has(ledger, k) \/ ledger[k].status = "done" THEN 1 ELSE ledger[k].attempts + 1,
   at |-> now, result |-> 0]

Start(k) ==
  /\ act = Idle /\ k \in todo /\ now <= StartUntil
  /\ todo' = todo \ {k}
  /\ ledger' = [ledger EXCEPT ![k] = Started(k)]
  /\ act' = [phase |-> "starting", key |-> k, prev |-> ledger[k]]
  /\ UNCHANGED <<now, stored, offs, ran, begun, upsets>>

\* the rules want no more of the keys that may go, or runActions holds what is left of the plan
\* (the kill switch, the lock, a rate limit)
Hold ==
  /\ act = Idle /\ todo # {}
  /\ todo' = {}
  /\ UNCHANGED <<now, ledger, stored, act, offs, ran, begun, upsets>>

\* mutant: a refused start drops the entry with its count
UnstartDrops(k, prev) == [ledger EXCEPT ![k] = None]

\* unstart: the entry as it stood
Unstart(k, prev) == [ledger EXCEPT ![k] = prev]

\* actOne: the pre-check refuses, and the entry put back is saved; or the running one is not saved
Refused ==
  /\ act.phase = "starting"
  /\ Persist(Unstart(act.key, act.prev), ran, 0)
  /\ act' = Idle
  /\ UNCHANGED <<now, todo, offs, begun>>

\* actOne: the running entry is saved, and its command begins, inline or off the pass
Launch ==
  LET k == act.key IN
  /\ act.phase = "starting"
  /\ Saves(ledger, [ran EXCEPT ![k] = @ + 1])
  /\ begun' = [begun EXCEPT ![k] = @ + 1]
  /\ IF k \in OffPass
     THEN /\ act' = Idle
          /\ offs' = offs \cup {[key |-> k, startedAt |-> ledger[k].at, attempts |-> ledger[k].attempts,
                                 at |-> now, runs |-> TRUE, nth |-> begun[k] + 1]}
     ELSE /\ act' = [phase |-> "exec", key |-> k, prev |-> act.prev, launched |-> now]
          /\ offs' = offs
  /\ UNCHANGED <<now, todo, upsets>>

\* finish, for a command that ended: failed with noRetry uses the attempts up
Finished(k, status, noRetry, at, nth) ==
  LET e == EndedBy(ledger[k], status, at, nth) IN
  [ledger EXCEPT ![k] = IF noRetry THEN [e EXCEPT !.attempts = AtLeast(MaxAttempts, @)] ELSE e]

\* record: an inline command's result
Record(status, noRetry) ==
  /\ act.phase = "exec"
  /\ noRetry => status = "failed"
  /\ Persist(Finished(act.key, status, noRetry, now, begun[act.key]), ran, 0)
  /\ act' = Idle
  /\ UNCHANGED <<now, todo, offs, begun>>

\* record, of a command that found nothing to do (skipped): its start is undone
RecordSkipped ==
  /\ act.phase = "exec"
  /\ Persist(Unstart(act.key, act.prev), [ran EXCEPT ![act.key] = @ - 1], 0)
  /\ begun' = [begun EXCEPT ![act.key] = @ - 1]
  /\ act' = Idle
  /\ UNCHANGED <<now, todo, offs>>

\* launchOff's run: the command ends, and its completion waits for the hook queue,
\* dated at the command's end
OffEnds(o) ==
  /\ o.runs
  /\ offs' = (offs \ {o}) \cup {[o EXCEPT !.runs = FALSE, !.at = now]}
  /\ UNCHANGED <<now, ledger, stored, todo, act, ran, begun, upsets>>

\* mutant: a completion is matched by its key alone
SameKey(o) == Runs(ledger, o.key)

\* sameAttempt, and still running: what a completion must find
SameAttempt(o) ==
  Runs(ledger, o.key) /\ ledger[o.key].at = o.startedAt /\ ledger[o.key].attempts = o.attempts

\* completeOff: the completion, applied while its attempt is still the entry's
OffLands(o, status, noRetry) ==
  /\ ~o.runs
  /\ noRetry => status = "failed"
  /\ offs' = offs \ {o}
  /\ IF SameAttempt(o)
     THEN Persist(Finished(o.key, status, noRetry, o.at, o.nth), ran, 0)
     ELSE UNCHANGED <<ledger, stored, ran, upsets>>
  /\ UNCHANGED <<now, todo, act, begun>>

\* mutant: a reload leaves what ran as it was
OnLoadKeeps(l) == l

\* onLoad: every command running is lost
OnLoad(l) == [k \in Keys |-> IF Runs(l, k) THEN EndedBy(l[k], "lost", now, 0) ELSE l[k]]

\* the module goes, and its commands; a new one loads the store's ledger
Reload ==
  /\ Persist(OnLoad(stored), ran, 1)
  /\ todo' = {} /\ act' = Idle /\ offs' = {}
  /\ UNCHANGED <<now, begun>>

\* retryIssue: an exhausted entry's attempts are cleared
Retry(k) ==
  /\ Exhausted(ledger, k)
  /\ Persist([ledger EXCEPT ![k].attempts = 0], [ran EXCEPT ![k] = 0], 1)
  /\ UNCHANGED <<now, todo, act, offs, begun>>

\* the clock: a command ends by its timeout, and a start does not linger
Tick ==
  /\ now < MaxNow
  /\ act.phase = "starting" => now < ledger[act.key].at + Linger
  /\ act.phase = "exec" => now < act.launched + Bound
  /\ \A o \in offs : o.runs => now < o.at + Bound
  /\ now' = now + 1
  /\ UNCHANGED <<ledger, stored, todo, act, offs, ran, begun, upsets>>

Next ==
  \/ Plan \/ Hold \/ Refused \/ Launch \/ RecordSkipped \/ Reload \/ Tick
  \/ \E k \in Keys : Start(k) \/ Retry(k)
  \/ \E status \in {"done", "failed"}, noRetry \in BOOLEAN : Record(status, noRetry)
  \/ \E o \in offs :
       \/ OffEnds(o)
       \/ \E status \in {"done", "failed"}, noRetry \in BOOLEAN : OffLands(o, status, noRetry)

\* a pass comes again, a command ends, and time passes; that a completion lands is not assumed
Fairness ==
  /\ WF_vars(Plan) /\ WF_vars(Refused \/ Launch) /\ WF_vars(Tick)
  /\ WF_vars(Hold \/ \E k \in Keys : Start(k))
  /\ WF_vars(\E status \in {"done", "failed"}, noRetry \in BOOLEAN : Record(status, noRetry) \/ RecordSkipped)
  /\ WF_vars(\E o \in offs : OffEnds(o))

Spec == Init /\ [][Next]_vars
FairSpec == Spec /\ Fairness

----------------------------------------------------------------------------
(* Properties *)

Doing(k) ==
  \/ act.phase = "exec" /\ act.key = k
  \/ \E o \in offs : o.key = k /\ o.runs

\* Of one key's commands one runs at a time, and no more than its attempts run before
\* the owner or the week clears them: through reloads, saves that fail, refused starts,
\* timeouts given by a pass that does not see the command, and late completions.
R == INSTANCE Retries WITH runs <- ran, doing <- [k \in Keys |-> Doing(k)]
ImplementsRetries == R!Spec

\* An entry's end comes from its own attempt's command: a completion that lands after its
\* attempt was given up and retried ends nothing (completeOff, sameAttempt).
OwnResult ==
  \A k \in Keys, l \in {ledger, stored} : Has(l, k) => l[k].result \in {0, begun[k]}

\* A command that may still act is found by whoever reads the store, with its attempt counted:
\* nothing a crash loses lets it run once more than allowed.
CommandInStore ==
  \A k \in Keys : Doing(k) => Runs(stored, k) /\ stored[k].attempts >= ran[k]

\* No entry runs for ever, though its completion may never come: a pass times it out.
EntryEnds == \A k \in Keys : Runs(ledger, k) ~> ~Runs(ledger, k)
=============================================================================
