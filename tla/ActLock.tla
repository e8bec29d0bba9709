------------------------------ MODULE ActLock ------------------------------
(***************************************************************************)
(* The act lock of the factory loop and the ledger it guards.              *)
(*                                                                         *)
(* Several interactive sessions of one device load the plugin.  Each runs  *)
(* passes; a pass acts only while its session holds the lease in act.lock. *)
(* The lease is taken, renewed (before every action and on a timer) and    *)
(* released by a read, a compare-and-set under flock and a read back       *)
(* (rails.ts), each a step of its own here, and the ledger lives in the    *)
(* store all sessions share (driver-store.ts), read and written in steps   *)
(* that other sessions interleave.  Time is the device's clock.            *)
(***************************************************************************)
EXTENDS Naturals

CONSTANTS
  Sessions,     \* session ids; an id comes back when its session resumes
  NoLease,      \* a missing, empty or malformed lock file
  LeaseMs,      \* how long a lease lasts
  StepMs,       \* the longest a renewal and its step take, from the renewal's clock read
  MaxNow,       \* bound: the clock stops here
  MaxEntries,   \* bound: ledger entries started in all
  Races         \* the races that this instance admits, of those the code leaves open:
    \* "lapsed-save": a session saves on its own lease after it ran out
    \* "stray-load":  a session without a lease of its own loads the ledger
    \* "busy-end":    session.end finds a pass, a load or a save in progress
    \* "lock-fault":  the lock's command fails (flock, the disk, its timeout)
    \* "blind-save":  a session saves after its takeover is in the lock file and
    \*                before it has seen that it took the lease over

ASSUME NoLeaseAssumption == NoLease \notin [session : Sessions, expiresAt : Nat]
ASSUME LeaseAssumption == LeaseMs \in Nat /\ StepMs \in Nat /\ StepMs < LeaseMs
ASSUME BoundAssumption == MaxNow \in Nat /\ MaxEntries \in Nat
ASSUME RacesAssumption ==
  Races \subseteq {"lapsed-save", "stray-load", "busy-end", "lock-fault", "blind-save"}

VARIABLES
  now,      \* the clock
  lock,     \* the lease in act.lock
  store,    \* the ledger entries in $.store
  issued,   \* entries started so far; each new one is issued + 1
  life,     \* each session: up (perhaps doing nothing), ending (session.end), ended
  live,     \* its module memory: the ledger, whether it is loaded, its basis
  loading,  \* a load in flight: the lease its mayLoad read
  save,     \* persist: a save asked for, and the snapshot on its way
  pass,     \* the pass: where it is, holding, the step's clock and entry
  op,       \* lock operations in flight: the rails' own, and lockOp's one
  raced     \* history: the races that took place so far

vars == <<now, lock, store, issued, life, live, loading, save, pass, op, raced>>

Lease == [session : Sessions, expiresAt : Nat]
LockText == Lease \cup {NoLease}
Slots == {"rails", "lockOp"}
Fors == {"rails", "action", "timer", "release"}

Idle == [at |-> "idle", holding |-> FALSE, since |-> 0, entry |-> 0, new |-> FALSE]
Unloaded == [ledger |-> {}, loaded |-> FALSE, basis |-> NoLease]
Quiet == [asked |-> FALSE, busy |-> FALSE, snap |-> {}]
NoLoad == [busy |-> FALSE, basis |-> NoLease]
NoOp == [stage |-> "none", for |-> "rails", now |-> 0, read |-> NoLease, wrote |-> "no"]

LiveType == [ledger : SUBSET Nat, loaded : BOOLEAN, basis : LockText]
LoadType == [busy : BOOLEAN, basis : LockText]
SaveType == [asked : BOOLEAN, busy : BOOLEAN, snap : SUBSET Nat]
Places == {"idle", "rails", "load", "plan", "renew", "renewing", "entry", "saving",
           "landing", "exec"}
PassType == [at : Places, holding : BOOLEAN, since : Nat, entry : Nat, new : BOOLEAN]
Results == {"no", "written", "changed", "failed"}
OpType == [stage : {"none", "read", "write", "back"}, for : Fors, now : Nat,
           read : LockText, wrote : Results]

TypeOK ==
  /\ now \in Nat /\ issued \in Nat
  /\ lock \in LockText
  /\ store \in SUBSET Nat
  /\ life \in [Sessions -> {"up", "ending", "ended"}]
  /\ live \in [Sessions -> LiveType]
  /\ loading \in [Sessions -> LoadType]
  /\ save \in [Sessions -> SaveType]
  /\ pass \in [Sessions -> PassType]
  /\ op \in [Sessions -> [Slots -> OpType]]
  /\ raced \subseteq Races

Init ==
  /\ now = 0 /\ issued = 0
  /\ lock = NoLease
  /\ store = {}
  /\ life = [s \in Sessions |-> "up"]
  /\ live = [s \in Sessions |-> Unloaded]
  /\ loading = [s \in Sessions |-> NoLoad]
  /\ save = [s \in Sessions |-> Quiet]
  /\ pass = [s \in Sessions |-> Idle]
  /\ op = [s \in Sessions |-> [k \in Slots |-> NoOp]]
  /\ raced = {}

\* a step that runs the races R, which this instance admits
Run(R) == R \subseteq Races /\ raced' = raced \cup R
If(race, c) == IF c THEN {race} ELSE {}

----------------------------------------------------------------------------
(* The lock's decisions *)

Others(text, s) == text # NoLease /\ text.session # s
Own(text, s) == text # NoLease /\ text.session = s

\* mutant: another's lease is not refused in its last millisecond
RefusesShort(text, s, t) == Others(text, s) /\ t + 1 < text.expiresAt

\* decideLock refuses while another session's lease is live.
Refuses(text, s, t) == Others(text, s) /\ t < text.expiresAt

\* the lease decideLock writes
Renewed(s, t) == [session |-> s, expiresAt |-> t + LeaseMs]

\* releasedLease: the own lease, expired now
Released(text, t) ==
  [text EXCEPT !.expiresAt = IF t < text.expiresAt THEN t ELSE text.expiresAt]

\* mutant: what is in memory is kept
LetGoKeeps(s) == UNCHANGED live

\* live.loaded = false: what is in memory is not read again before a load replaces it
LetGo(s) == live' = [live EXCEPT ![s] = Unloaded]

\* the sessions running a step, or about to on a renewal that succeeded
Stepping(s) == pass[s].at \in {"entry", "saving", "landing", "exec"}
Locking(s) == op[s]["lockOp"].stage # "none"

----------------------------------------------------------------------------
(* Lock operations: read and decide, compare and set, read back *)

Begin(s, k, for) ==
  op' = [op EXCEPT ![s][k] = [NoOp EXCEPT !.stage = "read", !.for = for, !.now = now]]

\* what a lock operation that is over does for whoever asked for it
Finish(s, k, held, took) ==
  LET for == op[s][k].for IN
  /\ op' = [op EXCEPT ![s][k] = NoOp]
  /\ \/ /\ for = "rails"
        /\ IF held /\ took THEN LetGo(s) ELSE UNCHANGED live
        /\ pass' = [pass EXCEPT ![s] = IF held THEN [Idle EXCEPT !.at = "load"] ELSE Idle]
     \/ /\ for = "action" /\ held /\ ~took
        /\ pass' = [pass EXCEPT ![s] = [@ EXCEPT !.at = "entry", !.since = op[s][k].now]]
        /\ UNCHANGED live
     \/ /\ for = "action" /\ ~(held /\ ~took)
        /\ pass' = [pass EXCEPT ![s] = Idle]
        /\ LetGo(s)
     \/ /\ for = "timer" /\ ~(held /\ ~took)
        /\ pass' = [pass EXCEPT ![s].holding = FALSE]
        /\ LetGo(s)
     \/ /\ for = "timer" /\ held /\ ~took
        /\ UNCHANGED <<pass, live>>
     \/ /\ for = "release"
        /\ life' = [life EXCEPT ![s] = "ended"]
        /\ UNCHANGED <<pass, live>>
  /\ for # "release" => UNCHANGED life

\* the first read: refuse, or go on to write (a release only over an own lease)
OpRead(s, k) ==
  /\ op[s][k].stage = "read"
  /\ IF \/ op[s][k].for = "release" /\ ~Own(lock, s)
        \/ op[s][k].for # "release" /\ Refuses(lock, s, op[s][k].now)
     THEN Finish(s, k, FALSE, FALSE)
     ELSE /\ op' = [op EXCEPT ![s][k] = [@ EXCEPT !.stage = "write", !.read = lock]]
          /\ UNCHANGED <<live, pass, life>>
  /\ UNCHANGED <<now, lock, store, issued, loading, save>>

NewText(s, o) == IF o.for = "release" THEN Released(o.read, o.now) ELSE Renewed(s, o.now)

\* the compare-and-set: written, changed, or a command that failed (flock timed
\* out, the file unwritable, or killed at its timeout after it had written)
OpWrite(s, k) ==
  /\ op[s][k].stage = "write"
  /\ \E r \in {"written", "changed", "failed"} :
       /\ r = "written" => lock = op[s][k].read
       /\ r = "changed" => lock # op[s][k].read
       /\ Run(If("lock-fault", r = "failed"))
       /\ op' = [op EXCEPT ![s][k] = [@ EXCEPT !.stage = "back", !.wrote = r]]
       /\ \/ r # "changed" /\ lock = op[s][k].read /\ lock' = NewText(s, op[s][k])
          \/ r # "written" /\ UNCHANGED lock
  /\ UNCHANGED <<now, store, issued, life, live, loading, save, pass>>

\* the lease it writes over is another session's, run out
Took(s, o) == Others(o.read, s)

\* the read back decides: a write that landed is held while the file is its own,
\* one that found the file changed only while the lease there is its own and live
Held(s, o) ==
  /\ Own(lock, s)
  /\ \/ o.wrote = "written"
     \/ o.wrote = "changed" /\ o.now < lock.expiresAt
OpBack(s, k) ==
  /\ op[s][k].stage = "back"
  /\ LET o == op[s][k] IN Finish(s, k, Held(s, o), Took(s, o) /\ o.wrote = "written")
  /\ UNCHANGED <<now, lock, store, issued, loading, save>>

----------------------------------------------------------------------------
(* The ledger in memory and in the store *)

\* mutant: nobody asks whose ledger the store holds
MayWriteAlways(s) == TRUE

\* mayWrite: the file holds an own lease, run out or not, or stands as at the load
MayWrite(s) == Own(lock, s) \/ lock = live[s].basis

\* loadLedger's start: mayLoad lets it read the store unless another session's
\* lease is live.  The pass that asked for a load refused acts no more.
LoadStart(s) ==
  /\ life[s] = "up"
  /\ ~live[s].loaded /\ ~loading[s].busy
  /\ pass[s].at \in {"load", "idle"}
  /\ Run(If("stray-load", pass[s].at = "idle" \/ ~(Own(lock, s) \/ Refuses(lock, s, now))))
  /\ IF Refuses(lock, s, now)
     THEN /\ pass' = [pass EXCEPT ![s] = Idle]
          /\ UNCHANGED loading
     ELSE /\ loading' = [loading EXCEPT ![s] = [busy |-> TRUE, basis |-> lock]]
          /\ UNCHANGED pass
  /\ UNCHANGED <<now, lock, store, issued, life, live, save, op>>

\* the store's ledger becomes the memory's, and is saved as onLoad left it
LoadDone(s) ==
  /\ loading[s].busy
  /\ live' = [live EXCEPT ![s] = [ledger |-> store, loaded |-> TRUE, basis |-> loading[s].basis]]
  /\ loading' = [loading EXCEPT ![s] = NoLoad]
  /\ save' = [save EXCEPT ![s].asked = TRUE]
  /\ UNCHANGED <<now, lock, store, issued, life, pass, op>>

\* a store that cannot be read leaves it unloaded, and the pass does not act
LoadFail(s) ==
  /\ loading[s].busy
  /\ loading' = [loading EXCEPT ![s] = NoLoad]
  /\ pass' = [pass EXCEPT ![s] = IF @.at = "load" THEN Idle ELSE @]
  /\ UNCHANGED <<now, lock, store, issued, life, live, save, op>>

\* a hook between passes (an agent's answer, a wake's turn) records something new
HookMoves(s) ==
  /\ life[s] = "up" /\ live[s].loaded /\ issued < MaxEntries
  /\ issued' = issued + 1
  /\ live' = [live EXCEPT ![s].ledger = @ \cup {issued + 1}]
  /\ save' = [save EXCEPT ![s].asked = TRUE]
  /\ UNCHANGED <<now, lock, store, life, loading, pass, op>>

\* a step whose entry was not saved is taken back (ledger.ts unstart): a new entry
\* goes, one started again stands as it stood, and nothing starts
Unstart(s) ==
  /\ pass' = [pass EXCEPT ![s] = [@ EXCEPT !.at = "plan", !.since = 0, !.entry = 0, !.new = FALSE]]
  /\ live' = [live EXCEPT ![s].ledger = IF pass[s].new THEN @ \ {pass[s].entry} ELSE @]

\* the races a save runs: its lease ran out, or its takeover is not seen yet
SaveRaces(s) ==
  If("lapsed-save", Own(lock, s) /\ lock.expiresAt <= now)
  \cup If("blind-save", \E k \in Slots : Took(s, op[s][k]) /\ op[s][k].stage = "back")

\* persist, first half: refused when not loaded or not allowed, else the snapshot
SaveCheck(s) ==
  /\ save[s].asked /\ ~save[s].busy /\ Run(SaveRaces(s))
  /\ live[s].loaded /\ MayWrite(s)
  /\ save' = [save EXCEPT ![s] = [asked |-> FALSE, busy |-> TRUE, snap |-> live[s].ledger]]
  /\ pass' = [pass EXCEPT ![s].at = IF @ = "saving" THEN "landing" ELSE @]
  /\ UNCHANGED <<now, lock, store, issued, life, live, loading, op>>

SaveRefused(s) ==
  /\ save[s].asked /\ ~save[s].busy
  /\ ~(live[s].loaded /\ MayWrite(s))
  /\ save' = [save EXCEPT ![s].asked = FALSE]
  /\ LetGo(s)
  /\ pass' = [pass EXCEPT ![s] = IF @.at = "saving" THEN [Idle EXCEPT !.at = "plan"] ELSE @]
  /\ UNCHANGED <<now, lock, store, issued, life, loading, op>>

\* persist, second half: the snapshot lands, and the step waiting for it may run
SaveLand(s) ==
  /\ save[s].busy
  /\ store' = save[s].snap
  /\ save' = [save EXCEPT ![s] = [@ EXCEPT !.busy = FALSE, !.snap = {}]]
  /\ pass' = [pass EXCEPT ![s].at = IF @ = "landing" THEN "exec" ELSE @]
  /\ UNCHANGED <<now, lock, issued, life, live, loading, op>>

\* or the store refuses it
SaveFail(s) ==
  /\ save[s].busy
  /\ save' = [save EXCEPT ![s] = [@ EXCEPT !.busy = FALSE, !.snap = {}]]
  /\ IF pass[s].at = "landing" THEN Unstart(s) ELSE UNCHANGED <<pass, live>>
  /\ UNCHANGED <<now, lock, store, issued, life, loading, op>>

----------------------------------------------------------------------------
(* The pass *)

PassStart(s) ==
  /\ life[s] = "up" /\ pass[s].at = "idle" /\ op[s]["rails"].stage = "none"
  /\ pass' = [pass EXCEPT ![s].at = "rails"]
  /\ Begin(s, "rails", "rails")
  /\ UNCHANGED <<now, lock, store, issued, life, live, loading, save>>

\* ensureLedger answered: the pass plans, holding the lease as far as it knows
Loaded(s) ==
  /\ pass[s].at = "load" /\ live[s].loaded
  /\ pass' = [pass EXCEPT ![s] = [Idle EXCEPT !.at = "plan", !.holding = TRUE]]
  /\ UNCHANGED <<now, lock, store, issued, life, live, loading, save, op>>

\* holds(), asked before an action: renew, unless the ledger was let go meanwhile
AskRenew(s) ==
  /\ pass[s].at = "plan"
  /\ IF pass[s].holding /\ live[s].loaded
     THEN pass' = [pass EXCEPT ![s].at = "renew"] /\ UNCHANGED live
     ELSE pass' = [pass EXCEPT ![s] = Idle] /\ LetGo(s)
  /\ UNCHANGED <<now, lock, store, issued, life, loading, save, op>>

\* lockOp runs one operation at a time; the renewal asked for waits its turn
RenewStart(s) ==
  /\ pass[s].at = "renew" /\ op[s]["lockOp"].stage = "none"
  /\ pass' = [pass EXCEPT ![s].at = "renewing"]
  /\ Begin(s, "lockOp", "action")
  /\ UNCHANGED <<now, lock, store, issued, life, live, loading, save>>

\* the pass's renewal timer fires
TimerRenew(s) ==
  /\ pass[s].at \in {"plan", "renew", "entry", "saving", "landing", "exec"}
  /\ pass[s].holding /\ op[s]["lockOp"].stage = "none"
  /\ lock # Renewed(s, now)   \* it fires once in an instant
  /\ IF live[s].loaded
     THEN Begin(s, "lockOp", "timer") /\ UNCHANGED <<pass, live>>
     ELSE pass' = [pass EXCEPT ![s].holding = FALSE] /\ UNCHANGED <<op, live>>
  /\ UNCHANGED <<now, lock, store, issued, life, loading, save>>

\* actOne: an entry is started, new or again, and its save asked for; a pass that
\* holds no longer saves nothing, so nothing starts
Start(s) ==
  /\ pass[s].at = "entry"
  /\ IF pass[s].holding /\ live[s].loaded
     THEN \E e \in live[s].ledger \cup (IF issued < MaxEntries THEN {issued + 1} ELSE {}),
             new \in BOOLEAN :
            /\ new <=> e > issued
            /\ issued' = IF new THEN e ELSE issued
            /\ pass' = [pass EXCEPT ![s] = [@ EXCEPT !.at = "saving", !.entry = e, !.new = new]]
            /\ live' = [live EXCEPT ![s].ledger = @ \cup {e}]
            /\ save' = [save EXCEPT ![s].asked = TRUE]
     ELSE /\ pass' = [pass EXCEPT ![s] = [@ EXCEPT !.at = "plan", !.since = 0]]
          /\ UNCHANGED <<issued, live, save>>
  /\ UNCHANGED <<now, lock, store, life, loading, op>>

\* the executor returned: its entry is finished and saved again while held
StepDone(s) ==
  /\ pass[s].at = "exec"
  /\ pass' = [pass EXCEPT ![s] = [@ EXCEPT !.at = "plan", !.since = 0, !.entry = 0, !.new = FALSE]]
  /\ save' = [save EXCEPT ![s].asked = @ \/ pass[s].holding]
  /\ UNCHANGED <<now, lock, store, issued, life, live, loading, op>>

PassEnd(s) ==
  /\ pass[s].at = "plan"
  /\ pass' = [pass EXCEPT ![s] = Idle]
  /\ UNCHANGED <<now, lock, store, issued, life, live, loading, save, op>>

----------------------------------------------------------------------------
(* Sessions come and go, and the clock runs *)

\* session.end: the lease is released in lockOp's queue
End(s) ==
  /\ life[s] = "up"
  /\ Run(If("busy-end", pass[s].at # "idle" \/ save[s].asked \/ save[s].busy \/ loading[s].busy))
  /\ op[s]["lockOp"].stage = "none"
  /\ life' = [life EXCEPT ![s] = "ending"]
  /\ Begin(s, "lockOp", "release")
  /\ UNCHANGED <<now, lock, store, issued, live, loading, save, pass>>

\* the process dies and comes back, or the module is reloaded: its memory goes,
\* with all it awaited
Crash(s) ==
  /\ life' = [life EXCEPT ![s] = "up"]
  /\ live' = [live EXCEPT ![s] = Unloaded]
  /\ loading' = [loading EXCEPT ![s] = NoLoad]
  /\ save' = [save EXCEPT ![s] = Quiet]
  /\ pass' = [pass EXCEPT ![s] = Idle]
  /\ op' = [op EXCEPT ![s] = [k \in Slots |-> NoOp]]
  /\ UNCHANGED <<now, lock, store, issued>>

\* a lock operation, and a step with its renewal, end within their commands' timeouts; that the lease runs out
\* under a save before it lands is a race
Tick ==
  /\ now < MaxNow
  /\ \A s \in Sessions :
       /\ Stepping(s) => now < pass[s].since + StepMs
       /\ Locking(s) => now < op[s]["lockOp"].now + StepMs
  /\ Run(If("lapsed-save", \E s \in Sessions : save[s].busy /\ Own(lock, s) /\ lock.expiresAt <= now + 1))
  /\ now' = now + 1
  /\ UNCHANGED <<lock, store, issued, life, live, loading, save, pass, op>>

\* the steps that may run a race, and those that cannot
MayRace(s) == (\E k \in Slots : OpWrite(s, k)) \/ LoadStart(s) \/ SaveCheck(s) \/ End(s)
SessionStep(s) ==
  \/ \E k \in Slots : OpRead(s, k) \/ OpBack(s, k)
  \/ LoadDone(s) \/ LoadFail(s) \/ HookMoves(s) \/ SaveRefused(s) \/ SaveLand(s) \/ SaveFail(s)
  \/ PassStart(s) \/ Loaded(s) \/ AskRenew(s) \/ RenewStart(s) \/ TimerRenew(s)
  \/ Start(s) \/ StepDone(s) \/ PassEnd(s) \/ Crash(s)

Next == Tick \/ \E s \in Sessions : MayRace(s) \/ (SessionStep(s) /\ UNCHANGED raced)

Spec == Init /\ [][Next]_vars

----------------------------------------------------------------------------
(* Properties *)

\* A step, from the renewal that admits it to its executor's return, is taken only
\* under its session's own live lease: the lock file names the session and the lease
\* has not run out (rails.ts LEASE_MIN_MS: a step can never outlive it).
LeaseOutlivesStep ==
  \A s \in Sessions : Stepping(s) => Own(lock, s) /\ now < lock.expiresAt

\* No two sessions take a step at once, whatever the order of their reads,
\* compare-and-sets, renewals, crashes and restarts (the act lock's purpose).
OneActor ==
  \A s, t \in Sessions : Stepping(s) /\ Stepping(t) => s = t

\* The strengthening under which both hold by induction, until session.end finds a
\* pass in progress: what a lock operation in flight knows, and what a step stands on.
OpKnows(s, k) ==
  LET o == op[s][k] IN
    /\ o.now <= now
    /\ (o.for = "rails") = (k = "rails")
    /\ o.for = "rails" => pass[s].at = "rails"
    /\ o.for = "action" => pass[s].at = "renewing"
    /\ o.for = "release" => life[s] = "ending"
    /\ k = "lockOp" => now <= o.now + StepMs
    /\ o.stage = "write" =>
         IF o.for = "release" THEN Own(o.read, s) ELSE ~Refuses(o.read, s, o.now)
OpsKnow == \A s \in Sessions, k \in Slots : op[s][k].stage # "none" => OpKnows(s, k)
OpsOfRenewal ==
  \A s \in Sessions : LET o == op[s]["lockOp"] IN
    (o.stage # "none" /\ o.for = "action" /\ Own(lock, s)) =>
      /\ o.stage = "write" => lock = o.read
      /\ o.stage = "back" => o.wrote # "changed"
      /\ (o.stage = "back" /\ o.wrote = "written") => o.now + LeaseMs <= lock.expiresAt
EndedIdle == \A s \in Sessions : life[s] # "up" => pass[s].at = "idle"
StepsCovered ==
  \A s \in Sessions : Stepping(s) =>
    /\ Own(lock, s) /\ pass[s].since + LeaseMs <= lock.expiresAt
    /\ pass[s].since <= now /\ now <= pass[s].since + StepMs
    /\ op[s]["lockOp"].stage # "none" =>
         op[s]["lockOp"].for = "timer" /\ pass[s].since <= op[s]["lockOp"].now
LockInv == TypeOK /\ OpsKnow /\ OpsOfRenewal /\ EndedIdle /\ StepsCovered

\* A step's entry is in the store while the step runs, so whoever loads the
\* ledger after a crash finds it (act.ts actOne).
SavedBeforeRun ==
  \A s \in Sessions : pass[s].at = "exec" => pass[s].entry \in store

\* A session that takes a step, from its renewal on, has in memory every entry any
\* session saved, so it starts nothing on a ledger another session has moved past
\* (driver-store.ts, driver-pass.ts: a lease taken over reloads the store); until one
\* of the named races took place, each of which breaks it.
WholeLedgerHeld ==
  \A s \in Sessions : Stepping(s) /\ live[s].loaded => store \subseteq live[s].ledger
ActsOnWholeLedger == raced = {} => WholeLedgerHeld

\* A ledger entry once in the store is never written over by another session's
\* save (driver-io.ts mayWrite: this one never writes over it), until one of the named
\* races took place, each of which breaks it.
NothingLost == [][raced' = {} => store \subseteq store']_vars

\* The strengthening under which both hold, until the first of the named races.  A
\* takeover is in the lock file and its session has not seen it yet:
TakingOver(s) ==
  \E k \in Slots : op[s][k].stage = "back" /\ op[s][k].wrote = "written" /\ Took(s, op[s][k])
\* a release has read an own lease, and while a step runs so has the timer's renewal
OpsOwn(s) ==
  /\ \A k \in Slots :
       /\ op[s][k].stage = "back" => op[s][k].wrote \in {"written", "changed"}
       /\ op[s][k].stage \in {"write", "back"} /\ op[s][k].for = "release" => Own(op[s][k].read, s)
  /\ Stepping(s) /\ op[s]["lockOp"].stage \in {"write", "back"} => ~Took(s, op[s]["lockOp"])
\* a lease the rails find their own is not newer than the clock they read
RailsNewest(s) ==
  op[s]["rails"].stage # "none" =>
    /\ Locking(s) => op[s]["lockOp"].for = "timer" /\ op[s]["lockOp"].now <= op[s]["rails"].now
    /\ op[s]["rails"].stage # "back" /\ Own(lock, s) =>
         lock.expiresAt <= op[s]["rails"].now + LeaseMs
\* a ledger is loaded under an own lease, for a pass that waits for it
LoadsOwn(s) ==
  /\ loading[s].busy =>
       pass[s].at = "load" /\ ~live[s].loaded /\ Own(loading[s].basis, s) /\ lock # NoLease
  /\ live[s].loaded => Own(live[s].basis, s) /\ lock # NoLease
  /\ live[s].loaded /\ pass[s].at \notin {"idle", "rails", "load"} => pass[s].holding
EndedQuiet(s) == life[s] # "up" => ~save[s].asked /\ ~save[s].busy /\ ~loading[s].busy
\* a new entry is nowhere in the store before the save its step waits for
EntryOnce(s) ==
  /\ live[s].ledger \subseteq 1..issued /\ save[s].snap \subseteq 1..issued
  /\ pass[s].at = "saving" /\ live[s].loaded => pass[s].entry \in live[s].ledger
  /\ pass[s].at \in {"saving", "landing"} /\ pass[s].new =>
       pass[s].entry \in 1..issued /\ pass[s].entry \notin store
  /\ pass[s].at = "saving" /\ pass[s].new /\ save[s].busy => pass[s].entry \notin save[s].snap
  /\ pass[s].at = "landing" => save[s].busy /\ pass[s].entry \in save[s].snap
  /\ pass[s].at = "exec" => pass[s].entry \in store
\* who may save has the whole store in memory, and so has the snapshot on its way
WholeLedger(s) ==
  /\ live[s].loaded /\ Own(lock, s) /\ ~TakingOver(s) => store \subseteq live[s].ledger
  /\ save[s].busy =>
       /\ live[s].loaded /\ Own(lock, s) /\ now < lock.expiresAt /\ ~TakingOver(s)
       /\ store \subseteq save[s].snap /\ save[s].snap \subseteq live[s].ledger
LedgerOf(s) ==
  OpsOwn(s) /\ RailsNewest(s) /\ LoadsOwn(s) /\ EndedQuiet(s) /\ EntryOnce(s) /\ WholeLedger(s)
LedgerInv ==
  /\ lock # NoLease => lock.expiresAt <= now + LeaseMs
  /\ store \subseteq 1..issued
  /\ \A s \in Sessions : LedgerOf(s)
============================================================================
