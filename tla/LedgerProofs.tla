--------------------------- MODULE LedgerProofs ---------------------------
(***************************************************************************)
(* The ledger keeps its promise to the world, for any keys, attempts,      *)
(* timeouts and number of reloads and failed saves: Ledger implements      *)
(* Retries, given that what comes before a launch fits the margin.         *)
(*                                                                         *)
(* Books says that memory and store both count what ran.  Acting and OffOK *)
(* say what the pass's action and each command off the pass know of their  *)
(* entry: a running command's entry still runs, for it is timed out only   *)
(* once its own timeout has passed, and a late completion's attempt is     *)
(* older than the one its key may have now.                                *)
(***************************************************************************)
EXTENDS Ledger, TLAPS

Att(e) == IF e = None THEN 0 ELSE e.attempts

\* what ran is counted, and an end is the latest command's or none's
Good(l, r, b) ==
  \A k \in Keys : r[k] <= Att(l[k]) /\ (Has(l, k) => l[k].result \in {0, b[k]})

Books == Good(ledger, ran, begun) /\ Good(stored, ran, begun)

Retriable(e) == e # None => e.status \in Ended \ {"done"} /\ e.attempts < MaxAttempts

Planned == \A k \in todo : Retriable(ledger[k])

\* a running entry's attempt, and the entry before it
Attempt(e, prev) ==
  /\ e # None /\ e.status = "running" /\ e.result = 0 /\ e.at <= now
  /\ e.attempts = Att(prev) + 1 /\ Retriable(prev)

Starting ==
  act.phase = "starting" =>
    /\ Attempt(ledger[act.key], act.prev)
    /\ now <= ledger[act.key].at + Linger
    /\ ran[act.key] <= Att(act.prev)
    /\ act.prev # None => act.prev.result \in {0, begun[act.key]}

Executing ==
  act.phase = "exec" =>
    /\ act.key \notin OffPass
    /\ Attempt(ledger[act.key], act.prev)
    /\ Runs(stored, act.key) /\ stored[act.key].result = 0
    /\ ran[act.key] >= 1 /\ ran[act.key] <= Att(act.prev) + 1
    /\ begun[act.key] >= 1
    /\ act.prev # None => act.prev.result \in {0, begun[act.key] - 1}

\* a command whose attempt is its key's, and one whose attempt is over
Current(o) ==
  /\ SameAttempt(o) /\ Runs(stored, o.key) /\ o.nth = begun[o.key]
  /\ ~(act.phase = "starting" /\ act.key = o.key)
Stale(o) ==
  /\ ~o.runs /\ now > o.startedAt
  /\ Runs(ledger, o.key) => ledger[o.key].at > o.startedAt

Timely(o) ==
  /\ o.key \in OffPass
  /\ o.startedAt <= now
  /\ o.runs => o.at <= o.startedAt + Linger /\ now <= o.at + Bound
  /\ o.nth <= begun[o.key]

OffOK == \A o \in offs : Timely(o) /\ (Current(o) \/ Stale(o))
Distinct == \A o, p \in offs : o.key = p.key /\ o.nth = p.nth => o = p

LedgerInv == TypeOK /\ Books /\ Planned /\ Starting /\ Executing /\ OffOK /\ Distinct

----------------------------------------------------------------------------
(* The records *)

LEMMA EntryFields ==
  ASSUME NEW e \in Entry
  PROVE  /\ e.status \in Ended \cup {"running"} /\ e.attempts \in Nat /\ e.at \in Nat
         /\ e.result \in Nat /\ e # None
  BY NoneAssumption DEF Entry

LEMMA EndedByFields ==
  ASSUME NEW e \in Entry, NEW status \in Ended, NEW at \in Nat, NEW nth \in Nat
  PROVE  /\ EndedBy(e, status, at, nth) \in Entry
         /\ EndedBy(e, status, at, nth).status = status /\ EndedBy(e, status, at, nth).result = nth
         /\ EndedBy(e, status, at, nth).at = at /\ EndedBy(e, status, at, nth).attempts = e.attempts
  BY DEF Entry, EndedBy

LEMMA ActFields ==
  ASSUME TypeOK
  PROVE  /\ act.phase \in {"idle", "starting", "exec"}
         /\ act.phase = "idle" <=> act = Idle
         /\ act.phase # "idle" => act.key \in Keys /\ act.prev \in Entry \cup {None}
         /\ act.phase = "exec" => act.launched \in Nat
  BY DEF TypeOK, Acts, Idle

LEMMA OffFields ==
  ASSUME TypeOK, NEW o \in offs
  PROVE  /\ o.key \in Keys /\ o.startedAt \in Nat /\ o.attempts \in Nat /\ o.at \in Nat
         /\ o.runs \in BOOLEAN /\ o.nth \in Nat
  BY DEF TypeOK, Off

LEMMA LedgerFields ==
  ASSUME NEW l \in Entries, NEW k \in Keys
  PROVE  /\ l[k] \in Entry \cup {None}
         /\ Has(l, k) => l[k] \in Entry
         /\ Att(l[k]) \in Nat
  BY EntryFields DEF Entries, Has, Att

\* finish changes one entry, ends it, and takes no attempt back.
LEMMA FinishedFields ==
  ASSUME TypeOK, NEW k \in Keys, Has(ledger, k), NEW status \in Ended, NEW noRetry \in BOOLEAN,
         NEW at \in Nat, NEW nth \in Nat
  PROVE  LET l == Finished(k, status, noRetry, at, nth) IN
         /\ l \in Entries
         /\ \A j \in Keys : j # k => l[j] = ledger[j]
         /\ l[k] \in Entry /\ l[k].status = status /\ l[k].result = nth /\ l[k].attempts >= ledger[k].attempts
<1> DEFINE e == EndedBy(ledger[k], status, at, nth)
           f == [e EXCEPT !.attempts = AtLeast(MaxAttempts, e.attempts)]
           g == IF noRetry THEN f ELSE e
<1>1. ledger[k] \in Entry /\ now \in Nat /\ ledger[k].attempts \in Nat
  BY LedgerFields, EntryFields DEF TypeOK
<1>2. /\ e \in Entry /\ e.status = status /\ e.result = nth /\ e.attempts = ledger[k].attempts
  <2>1. ledger[k] \in Entry /\ status \in Ended /\ at \in Nat /\ nth \in Nat
    BY <1>1
  <2> QED BY <2>1, EndedByFields
<1>3. AtLeast(MaxAttempts, e.attempts) \in Nat /\ AtLeast(MaxAttempts, e.attempts) >= e.attempts
  BY <1>1, <1>2, NumbersAssumption DEF AtLeast
<1> HIDE DEF e
<1>4. f \in Entry /\ f.status = status /\ f.result = nth /\ f.attempts >= e.attempts
  BY <1>2, <1>3 DEF Entry
<1>5. g \in Entry /\ g.status = status /\ g.result = nth /\ g.attempts >= ledger[k].attempts
  BY <1>1, <1>2, <1>4
<1>6. Finished(k, status, noRetry, at, nth) = [ledger EXCEPT ![k] = g]
  BY DEF Finished, e
<1> HIDE DEF g
<1> QED BY <1>5, <1>6 DEF TypeOK, Entries

\* Entries l and counts r saved, or kept in memory only, as a pass's step leaves them.
Written(l, r, b) ==
  /\ l \in Entries /\ r \in [Keys -> Nat] /\ Good(l, r, b)
  /\ \/ Saves(l, r)
     \/ ledger' = l /\ stored' = stored /\ ran' = r /\ Good(stored, r, b)

\* What a save leaves: nothing but ended entries and their counts goes, and the store is the
\* memory's or what it was.
LEMMA WrittenEffect ==
  ASSUME now \in Nat, stored \in Entries, NEW l, NEW r, NEW b, Written(l, r, b)
  PROVE  /\ ledger' \in Entries /\ stored' \in Entries /\ ran' \in [Keys -> Nat]
         /\ Good(ledger', ran', b) /\ Good(stored', ran', b)
         /\ \A k \in Keys :
              /\ ledger'[k] \in {l[k], None}
              /\ Runs(l, k) => ledger'[k] = l[k] /\ stored'[k] \in {l[k], stored[k]} /\ ran'[k] = r[k]
              /\ ran'[k] \in {r[k], 0}
<1>1. /\ l \in Entries /\ r \in [Keys -> Nat] /\ Good(l, r, b)
      /\ Kept(l) \in Entries
      /\ \A k \in Keys : Kept(l)[k] \in {l[k], None} /\ (Runs(l, k) => Kept(l)[k] = l[k] /\ Has(Kept(l), k))
  BY DEF Kept, Entries, Runs, Has, Written
<1>2. CASE Saves(l, r)
  <2>1. ran' \in [Keys -> Nat]
    BY <1>1, <1>2 DEF Saves
  <2>2. \A k \in Keys : ran'[k] \in {r[k], 0} /\ (Runs(l, k) => ran'[k] = r[k])
    BY <1>1, <1>2 DEF Saves
  <2>3. Good(Kept(l), ran', b)
    <3> SUFFICES ASSUME NEW k \in Keys
                 PROVE  ran'[k] <= Att(Kept(l)[k]) /\ (Has(Kept(l), k) => Kept(l)[k].result \in {0, b[k]})
      BY DEF Good
    <3>1. CASE Kept(l)[k] = l[k] /\ (Has(l, k) => Has(Kept(l), k))
      BY <1>1, <1>2, <3>1 DEF Saves, Good, Has
    <3>2. CASE Kept(l)[k] = None /\ Has(l, k)
      BY <1>2, <3>2 DEF Saves, Has, Att
    <3> QED BY <1>1, <3>1, <3>2 DEF Has
  <2> QED BY <1>1, <1>2, <2>1, <2>2, <2>3 DEF Saves
<1>3. CASE ledger' = l /\ stored' = stored /\ ran' = r /\ Good(stored, r, b)
  BY <1>1, <1>3 DEF Runs
<1> QED BY <1>2, <1>3 DEF Written

\* persist is a save, or the memory alone; either way the count of upsets is a number.
LEMMA PersistWritten ==
  ASSUME upsets \in Nat, NEW l \in Entries, NEW r \in [Keys -> Nat], NEW b, NEW n \in Nat,
         Persist(l, r, n), Good(l, r, b), Good(stored, r, b)
  PROVE  Written(l, r, b) /\ upsets' \in Nat
  BY NumbersAssumption DEF Persist, Upset, Written

\* A step that leaves the memory, the store and the counts alone writes them as they are.
LEMMA NothingWritten ==
  ASSUME LedgerInv, UNCHANGED <<ledger, stored, ran>>
  PROVE  Written(ledger, ran, begun)
  BY DEF LedgerInv, Books, TypeOK, Written

----------------------------------------------------------------------------
(* What the invariant says of a command that runs *)

LEMMA RunningIsCurrent ==
  ASSUME LedgerInv, NEW o \in offs, o.runs
  PROVE  Current(o)
  BY DEF LedgerInv, OffOK, Stale

\* The bound a pass gives a command outlasts the command.
LEMMA RunningNotExpired ==
  ASSUME LedgerInv, NEW o \in offs, o.runs
  PROVE  ~(now > ledger[o.key].at + Bound + Margin)
<1>1. o.startedAt \in Nat /\ o.at \in Nat /\ now \in Nat
  BY OffFields DEF LedgerInv, TypeOK
<1>2. ledger[o.key].at = o.startedAt
  BY RunningIsCurrent DEF Current, SameAttempt
<1>3. o.at <= o.startedAt + Linger /\ now <= o.at + Bound
  BY DEF LedgerInv, OffOK, Timely
<1> QED BY <1>1, <1>2, <1>3, NumbersAssumption, MarginAssumption

LEMMA DoingRuns ==
  ASSUME LedgerInv, NEW k \in Keys, Doing(k)
  PROVE  Runs(ledger, k) /\ Runs(stored, k)
<1>1. CASE act.phase = "exec" /\ act.key = k
  BY <1>1 DEF LedgerInv, Executing, Attempt, Runs, Has
<1>2. ASSUME NEW o \in offs, o.key = k, o.runs
      PROVE  Runs(ledger, k) /\ Runs(stored, k)
  BY <1>2, RunningIsCurrent DEF Current, SameAttempt
<1> QED BY <1>1, <1>2 DEF Doing

----------------------------------------------------------------------------
(* What a step that writes keeps *)

\* An action in progress whose entry is written as it stands.
LEMMA WrittenAct ==
  ASSUME LedgerInv, NEW l, NEW r, Written(l, r, begun), UNCHANGED <<now, act, begun>>,
         act.phase # "idle" => l[act.key] = ledger[act.key] /\ r[act.key] = ran[act.key]
  PROVE  Starting' /\ Executing'
<1>1. TypeOK /\ Starting /\ Executing
  BY DEF LedgerInv
<1>2. CASE act.phase = "starting"
  <2>1. act.key \in Keys /\ Runs(ledger, act.key)
    BY <1>1, <1>2, ActFields DEF Starting, Attempt, Runs, Has
  <2>2. ledger'[act.key] = ledger[act.key] /\ ran'[act.key] = ran[act.key]
    BY <1>1, <1>2, <2>1, WrittenEffect DEF TypeOK, Runs, Has
  <2> QED BY <1>1, <1>2, <2>2 DEF Starting, Executing, Attempt
<1>3. CASE act.phase = "exec"
  <2>1. act.key \in Keys /\ Runs(ledger, act.key) /\ ledger[act.key].result = 0
    BY <1>1, <1>3, ActFields DEF Executing, Attempt, Runs, Has
  <2>2. /\ ledger'[act.key] = ledger[act.key] /\ ran'[act.key] = ran[act.key]
        /\ stored'[act.key] \in {ledger[act.key], stored[act.key]}
    BY <1>1, <1>3, <2>1, WrittenEffect DEF TypeOK, Runs, Has
  <2> QED BY <1>1, <1>3, <2>1, <2>2 DEF Starting, Executing, Attempt, Runs, Has
<1> QED BY <1>2, <1>3 DEF Starting, Executing

\* Keys still to do whose entries are written as they stand, or for a retry.
LEMMA WrittenPlan ==
  ASSUME LedgerInv, NEW l, NEW r, NEW b, Written(l, r, b), todo' \subseteq todo,
         \A k \in todo' : l[k] = ledger[k] \/ Retriable(l[k])
  PROVE  Planned'
<1>1. \A k \in todo' : ledger'[k] \in {l[k], None}
  BY WrittenEffect DEF LedgerInv, TypeOK
<1> QED BY <1>1 DEF LedgerInv, Planned, Retriable

\* A command off the pass whose key's entry is written as it stands.
LEMMA WrittenOff ==
  ASSUME LedgerInv, NEW l, NEW r, NEW b, Written(l, r, b), now' = now, NEW o \in offs,
         l[o.key] = ledger[o.key], begun'[o.key] = begun[o.key],
         act'.phase = "starting" /\ act'.key = o.key => act.phase = "starting" /\ act.key = o.key
  PROVE  Timely(o)' /\ (Current(o)' \/ Stale(o)')
<1>1. o.key \in Keys
  BY OffFields DEF LedgerInv
<1>2. /\ ledger'[o.key] \in {ledger[o.key], None}
      /\ Runs(ledger, o.key) => /\ ledger'[o.key] = ledger[o.key]
                                /\ stored'[o.key] \in {ledger[o.key], stored[o.key]}
  BY <1>1, WrittenEffect DEF LedgerInv, TypeOK, Runs, Has
<1>3. Timely(o)'
  BY DEF LedgerInv, OffOK, Timely
<1>4. CASE Current(o)
  <2>1. SameAttempt(o)' /\ Runs(stored, o.key)'
    BY <1>2, <1>4 DEF Current, SameAttempt, Runs, Has
  <2>2. ~(act'.phase = "starting" /\ act'.key = o.key) /\ o.nth = begun'[o.key]
    BY <1>4 DEF Current
  <2> QED BY <1>3, <2>1, <2>2 DEF Current
<1>5. CASE Stale(o)
  BY <1>2, <1>3, <1>5 DEF Stale, Runs, Has
<1> QED BY <1>3, <1>4, <1>5 DEF LedgerInv, OffOK

\* A command whose attempt is over stays so while its key's entry is not started again.
LEMMA WrittenStale ==
  ASSUME LedgerInv, NEW l, NEW r, NEW b, Written(l, r, b), now' = now, NEW o \in offs,
         Stale(o), begun'[o.key] >= begun[o.key], begun'[o.key] \in Nat,
         Runs(l, o.key) => l[o.key] = ledger[o.key]
  PROVE  Timely(o)' /\ Stale(o)'
<1>1. o.key \in Keys /\ o.nth \in Nat /\ begun[o.key] \in Nat
  BY OffFields DEF LedgerInv, TypeOK
<1>2. ledger'[o.key] \in {l[o.key], None}
  BY <1>1, WrittenEffect DEF LedgerInv, TypeOK
<1>3. Timely(o)'
  BY <1>1 DEF LedgerInv, OffOK, Timely
<1> QED BY <1>2, <1>3 DEF Stale, Runs, Has

\* Memory, store and counts, whatever the step does to the rest.
LEMMA WrittenBooks ==
  ASSUME LedgerInv, NEW l, NEW r, NEW b, Written(l, r, b), begun' = b,
         now' \in Nat, upsets' \in Nat, todo' \subseteq Keys, act' \in Acts, offs' \subseteq Off, b \in [Keys -> Nat]
  PROVE  TypeOK' /\ Books'
<1>1. /\ ledger' \in Entries /\ stored' \in Entries /\ ran' \in [Keys -> Nat]
      /\ Good(ledger', ran', b) /\ Good(stored', ran', b)
  BY WrittenEffect DEF LedgerInv, TypeOK
<1>2. TypeOK'
  BY <1>1 DEF TypeOK
<1>3. Books'
  BY <1>1 DEF Books, Good, Has
<1> QED BY <1>2, <1>3

\* What the invariant says of the types, and of an entry that runs.
LEMMA InvTypes ==
  ASSUME LedgerInv
  PROVE  /\ TypeOK /\ now \in Nat /\ upsets \in Nat /\ ledger \in Entries /\ stored \in Entries
         /\ todo \subseteq Keys /\ act \in Acts /\ offs \subseteq Off
         /\ ran \in [Keys -> Nat] /\ begun \in [Keys -> Nat]
         /\ Good(ledger, ran, begun) /\ Good(stored, ran, begun)
         /\ \A k \in todo : ~Runs(ledger, k)
  BY DEF LedgerInv, TypeOK, Books, Planned, Retriable, Ended, Runs, Has

----------------------------------------------------------------------------
(* Each action keeps the invariant *)

\* offPassExpired: what it ends is off the pass, and its command has ended before.
LEMMA ExpiredEffect ==
  ASSUME LedgerInv
  PROVE  /\ Written(Expired(ledger), ran, begun) <=>
              \/ Saves(Expired(ledger), ran)
              \/ ledger' = Expired(ledger) /\ stored' = stored /\ ran' = ran
         /\ Expired(ledger) \in Entries /\ Good(Expired(ledger), ran, begun)
         /\ \A k \in Keys :
              \/ Expired(ledger)[k] = ledger[k]
              \/ /\ ~Runs(Expired(ledger), k) /\ k \in OffPass
                 /\ now > ledger[k].at + Bound + Margin
<1> DEFINE l == Expired(ledger)
<1>1. \A k \in Keys :
        \/ l[k] = ledger[k]
        \/ /\ Runs(ledger, k) /\ l[k] = EndedBy(ledger[k], "timed-out", now, 0)
           /\ k \in OffPass /\ now > ledger[k].at + Bound + Margin
  BY DEF Expired
<1>2. \A k \in Keys : Runs(ledger, k) =>
        LET e == EndedBy(ledger[k], "timed-out", now, 0) IN
        e \in Entry /\ e.status = "timed-out" /\ e.result = 0 /\ Att(e) = Att(ledger[k])
  <2> SUFFICES ASSUME NEW k \in Keys, Runs(ledger, k), NEW e, e = EndedBy(ledger[k], "timed-out", now, 0)
               PROVE  e \in Entry /\ e.status = "timed-out" /\ e.result = 0 /\ Att(e) = Att(ledger[k])
    OBVIOUS
  <2>1. ledger[k] \in Entry
    BY InvTypes, LedgerFields DEF Runs
  <2>2. e \in Entry /\ e.status = "timed-out" /\ e.result = 0 /\ e.attempts = ledger[k].attempts
    <3>1. "timed-out" \in Ended /\ 0 \in Nat /\ now \in Nat
      BY InvTypes DEF Ended
    <3> QED BY <2>1, <3>1, EndedByFields
  <2> QED BY <2>1, <2>2, NoneAssumption DEF Att
<1>3. l \in Entries
  <2>1. \A k \in Keys : l[k] \in Entry \cup {None}
    BY <1>1, <1>2, InvTypes, LedgerFields
  <2> QED BY <2>1 DEF Expired, Entries
<1> HIDE DEF l
<1>4. \A k \in Keys : l[k] = ledger[k] \/ (~Runs(l, k) /\ k \in OffPass /\ now > ledger[k].at + Bound + Margin)
  <2>1. \A k \in Keys : l[k] # ledger[k] => l[k].status = "timed-out"
    BY <1>1, <1>2
  <2>2. \A k \in Keys : l[k] # ledger[k] => ~Runs(l, k)
    BY <2>1 DEF Runs
  <2> QED BY <1>1, <2>2
<1>5. Good(l, ran, begun)
  <2> SUFFICES ASSUME NEW k \in Keys
               PROVE  ran[k] <= Att(l[k]) /\ (Has(l, k) => l[k].result \in {0, begun[k]})
    BY DEF Good
  <2>1. CASE l[k] = ledger[k]
    BY <2>1, InvTypes DEF Good, Has
  <2>2. CASE Runs(ledger, k) /\ l[k] = EndedBy(ledger[k], "timed-out", now, 0)
    <3>1. l[k].result = 0 /\ Att(l[k]) = Att(ledger[k])
      BY <2>2, <1>2
    <3> QED BY <3>1, InvTypes DEF Good
  <2> QED BY <1>1, <2>1, <2>2
<1> QED BY <1>3, <1>4, <1>5, InvTypes DEF Written, l

LEMMA PlanWrites ==
  ASSUME LedgerInv, Plan
  PROVE  Written(Expired(ledger), ran, begun) /\ upsets' \in Nat
<1>1. CASE Expired(ledger) = ledger
  BY <1>1, ExpiredEffect, InvTypes DEF Plan
<1>2. CASE Persist(Expired(ledger), ran, 0)
  BY <1>2, ExpiredEffect, InvTypes, PersistWritten
<1> QED BY <1>1, <1>2 DEF Plan

LEMMA PlanKeeps ==
  ASSUME LedgerInv, Plan
  PROVE  LedgerInv'
<1>1. Written(Expired(ledger), ran, begun) /\ upsets' \in Nat
  BY PlanWrites
<1>2. TypeOK' /\ Books'
  BY <1>1, InvTypes, WrittenBooks DEF Plan
<1>3. Planned'
  <2> SUFFICES ASSUME NEW k \in Keys, Go(ledger', k) PROVE Retriable(ledger'[k])
    BY DEF Planned, Plan
  <2>1. CASE ~Has(ledger', k)
    BY <2>1 DEF Has, Retriable
  <2>2. CASE Has(ledger', k)
    <3>1. ledger'[k].status \in Ended \ {"done"} /\ ~Exhausted(ledger', k)
      BY <2>2 DEF Go
    <3>2. ledger'[k].attempts \in Nat
      BY <1>2, <2>2, LedgerFields, EntryFields DEF TypeOK
    <3> QED BY <2>2, <3>1, <3>2, NumbersAssumption DEF Exhausted, Retriable
  <2> QED BY <2>1, <2>2
<1>4. Starting' /\ Executing'
  BY DEF Plan, Starting, Executing, Idle
<1>5. OffOK'
  <2> SUFFICES ASSUME NEW o \in offs PROVE Timely(o)' /\ (Current(o)' \/ Stale(o)')
    BY DEF OffOK, Plan
  <2>1. o.key \in Keys /\ now' = now /\ act' = act /\ begun' = begun /\ act.phase # "starting"
    BY OffFields, InvTypes DEF Plan, Idle
  <2>2. CASE Expired(ledger)[o.key] = ledger[o.key]
    BY <1>1, <2>1, <2>2, WrittenOff
  <2>3. CASE ~Runs(Expired(ledger), o.key) /\ now > ledger[o.key].at + Bound + Margin
    <3>1. ~o.runs
      BY <2>3, RunningNotExpired
    <3>2. Timely(o)'
      BY <2>1 DEF LedgerInv, OffOK, Timely, Plan
    <3>3. now > o.startedAt
      <4>1. CASE Current(o)
        <5>1. ledger[o.key].at = o.startedAt /\ o.startedAt \in Nat
          BY <4>1, OffFields, InvTypes DEF Current, SameAttempt
        <5> QED BY <2>3, <5>1, InvTypes, NumbersAssumption
      <4> QED BY <4>1 DEF LedgerInv, OffOK, Stale
    <3>4. ~Runs(ledger', o.key)
      BY <1>1, <2>1, <2>3, WrittenEffect, InvTypes DEF Runs, Has
    <3> QED BY <2>1, <3>1, <3>2, <3>3, <3>4 DEF Stale, Runs, Has
  <2> QED BY <2>1, <2>2, <2>3, ExpiredEffect
<1>6. Distinct'
  BY DEF LedgerInv, Distinct, Plan
<1> QED BY <1>2, <1>3, <1>4, <1>5, <1>6 DEF LedgerInv

LEMMA StartWrites ==
  ASSUME LedgerInv, NEW k \in Keys, Start(k)
  PROVE  /\ Written([ledger EXCEPT ![k] = Started(k)], ran, begun)
         /\ Attempt(ledger'[k], ledger[k]) /\ ledger'[k].at = now
         /\ \A j \in Keys : j # k => ledger'[j] = ledger[j]
<1> DEFINE e == Started(k)
<1>1. /\ Retriable(ledger[k]) /\ ledger[k] \in Entry \cup {None} /\ now \in Nat
      /\ Att(ledger[k]) \in Nat
  BY InvTypes, LedgerFields DEF LedgerInv, Planned, Start
<1>2. e.attempts = Att(ledger[k]) + 1
  BY <1>1 DEF Started, Retriable, Att, Has, Ended
<1>3. e \in Entry /\ e.status = "running" /\ e.result = 0 /\ e.at = now
  <2>1. [status |-> "running", attempts |-> Att(ledger[k]) + 1, at |-> now, result |-> 0] \in Entry
    BY <1>1 DEF Entry
  <2>2. Started(k) = [status |-> "running", attempts |-> Att(ledger[k]) + 1, at |-> now, result |-> 0]
    BY <1>1 DEF Started, Retriable, Att, Has, Ended
  <2> QED BY <2>1, <2>2
<1> HIDE DEF e
<1> DEFINE l == [ledger EXCEPT ![k] = e]
<1>4. l \in Entries /\ l[k] = e /\ \A j \in Keys : j # k => l[j] = ledger[j]
  BY <1>3, InvTypes DEF Entries
<1>5. e # None /\ Att(e) = Att(ledger[k]) + 1
  BY <1>2, <1>3, NoneAssumption DEF Att
<1>6. ledger' = l
  BY DEF Start, e
<1> HIDE DEF l
<1>7. Good(l, ran, begun)
  <2>1. ran[k] <= Att(ledger[k]) /\ ran[k] \in Nat
    BY InvTypes DEF Good
  <2> SUFFICES ASSUME NEW j \in Keys
               PROVE  ran[j] <= Att(l[j]) /\ (Has(l, j) => l[j].result \in {0, begun[j]})
    BY DEF Good
  <2>2. CASE j = k
    BY <2>1, <2>2, <1>1, <1>3, <1>4, <1>5
  <2>3. CASE j # k
    BY <2>3, <1>4, InvTypes DEF Good, Has
  <2> QED BY <2>2, <2>3
<1>8. Written(l, ran, begun)
  BY <1>4, <1>6, <1>7, InvTypes DEF Written, Start
<1>9. Attempt(ledger'[k], ledger[k])
  BY <1>1, <1>2, <1>3, <1>4, <1>5, <1>6 DEF Attempt
<1> QED BY <1>3, <1>4, <1>6, <1>8, <1>9 DEF l, e

LEMMA StartKeeps ==
  ASSUME LedgerInv, NEW k \in Keys, Start(k)
  PROVE  LedgerInv'
<1> DEFINE l == [ledger EXCEPT ![k] = Started(k)]
<1>1. /\ Written(l, ran, begun) /\ ledger' = l
      /\ Attempt(ledger'[k], ledger[k]) /\ ledger'[k].at = now
      /\ \A j \in Keys : j # k => l[j] = ledger[j]
  BY StartWrites DEF Start
<1> HIDE DEF l
<1>2. act'.phase = "starting" /\ act'.key = k /\ act'.prev = ledger[k] /\ act' \in Acts
  BY InvTypes, LedgerFields DEF Start, Acts
<1>3. TypeOK' /\ Books'
  BY <1>1, <1>2, InvTypes, WrittenBooks DEF Start
<1>4. Planned'
  <2>1. todo' = todo \ {k}
    BY DEF Start
  <2> QED BY <1>1, <2>1, InvTypes, WrittenPlan
<1>5. Starting'
  <2>1. now' = now /\ ran' = ran /\ begun' = begun /\ now \in Nat
    BY InvTypes DEF Start
  <2>2. ran[k] <= Att(ledger[k]) /\ (Has(ledger, k) => ledger[k].result \in {0, begun[k]})
    BY InvTypes DEF Good
  <2> QED BY <1>1, <1>2, <2>1, <2>2, NumbersAssumption DEF Starting, Attempt, Has
<1>6. Executing'
  BY <1>2 DEF Executing
<1>7. OffOK'
  <2> SUFFICES ASSUME NEW o \in offs PROVE Timely(o)' /\ (Current(o)' \/ Stale(o)')
    BY DEF OffOK, Start
  <2>1. o.key \in Keys /\ now' = now /\ begun' = begun
    BY OffFields, InvTypes DEF Start
  <2>2. CASE o.key # k
    BY <1>1, <1>2, <2>1, <2>2, WrittenOff
  <2>3. CASE o.key = k
    <3>1. Stale(o)
      BY <2>3, InvTypes DEF LedgerInv, OffOK, Current, SameAttempt, Start
    <3>2. Timely(o)'
      BY <2>1 DEF LedgerInv, OffOK, Timely
    <3> QED BY <1>1, <2>1, <2>3, <3>1, <3>2 DEF Stale
  <2> QED BY <2>2, <2>3
<1>8. Distinct'
  BY DEF LedgerInv, Distinct, Start
<1> QED BY <1>3, <1>4, <1>5, <1>6, <1>7, <1>8 DEF LedgerInv

\* A step that changes no attempt, no action and no command keeps the invariant, if what it
\* leaves to do is less.
LEMMA HoldKeeps ==
  ASSUME LedgerInv, Hold
  PROVE  LedgerInv'
<1>1. Written(ledger, ran, begun)
  BY NothingWritten DEF Hold
<1>2. TypeOK' /\ Books'
  BY <1>1, InvTypes, WrittenBooks DEF Hold
<1>3. Planned'
  BY DEF Hold, Planned
<1>4. Starting' /\ Executing'
  BY <1>1, WrittenAct DEF Hold
<1>5. OffOK'
  BY <1>1, WrittenOff DEF Hold, OffOK
<1>6. Distinct'
  BY DEF LedgerInv, Distinct, Hold
<1> QED BY <1>2, <1>3, <1>4, <1>5, <1>6 DEF LedgerInv

\* unstart puts back what stood before, one attempt less.
LEMMA UnstartEffect ==
  ASSUME LedgerInv, act.phase # "idle", NEW r, r \in [Keys -> Nat], NEW b, b \in [Keys -> Nat],
         r[act.key] <= Att(act.prev), act.prev # None => act.prev.result \in {0, b[act.key]},
         \A j \in Keys : j # act.key => r[j] = ran[j] /\ b[j] = begun[j]
  PROVE  LET l == Unstart(act.key, act.prev) IN
         /\ l \in Entries /\ Good(l, r, b) /\ l[act.key] = act.prev /\ ~Runs(l, act.key)
         /\ \A j \in Keys : j # act.key => l[j] = ledger[j]
<1> DEFINE l == Unstart(act.key, act.prev)
<1>1. act.key \in Keys /\ act.prev \in Entry \cup {None} /\ act.phase \in {"starting", "exec"}
  BY InvTypes, ActFields
<1>2. l \in Entries /\ l[act.key] = act.prev /\ \A j \in Keys : j # act.key => l[j] = ledger[j]
  BY <1>1, InvTypes DEF Unstart, Entries
<1>3. Retriable(act.prev)
  BY <1>1 DEF LedgerInv, Starting, Executing, Attempt
<1> HIDE DEF l
<1>4. ~Runs(l, act.key)
  BY <1>2, <1>3 DEF Runs, Has, Retriable, Ended
<1>5. Good(l, r, b)
  <2> SUFFICES ASSUME NEW j \in Keys
               PROVE  r[j] <= Att(l[j]) /\ (Has(l, j) => l[j].result \in {0, b[j]})
    BY DEF Good
  <2>1. CASE j = act.key
    BY <2>1, <1>2 DEF Has
  <2>2. CASE j # act.key
    BY <2>2, <1>2, InvTypes DEF Good, Has
  <2> QED BY <2>1, <2>2
<1> QED BY <1>2, <1>4, <1>5 DEF l

LEMMA RefusedWrites ==
  ASSUME LedgerInv, Refused
  PROVE  Written(Unstart(act.key, act.prev), ran, begun) /\ upsets' \in Nat
<1>1. ran[act.key] <= Att(act.prev) /\ (act.prev # None => act.prev.result \in {0, begun[act.key]})
  BY DEF LedgerInv, Starting, Refused
<1>2. Unstart(act.key, act.prev) \in Entries /\ Good(Unstart(act.key, act.prev), ran, begun)
  BY <1>1, UnstartEffect, InvTypes DEF Refused
<1> QED BY <1>2, InvTypes, PersistWritten DEF Refused

LEMMA RefusedKeeps ==
  ASSUME LedgerInv, Refused
  PROVE  LedgerInv'
<1> DEFINE l == Unstart(act.key, act.prev)
<1>1. Written(l, ran, begun) /\ upsets' \in Nat
  BY RefusedWrites
<1>2. /\ act.key \in Keys /\ l[act.key] = act.prev /\ ~Runs(l, act.key)
      /\ \A j \in Keys : j # act.key => l[j] = ledger[j]
  <2>1. ran[act.key] <= Att(act.prev) /\ (act.prev # None => act.prev.result \in {0, begun[act.key]})
    BY DEF LedgerInv, Starting, Refused
  <2> QED BY <2>1, UnstartEffect, InvTypes, ActFields DEF Refused
<1>3. act' = Idle /\ act'.phase = "idle" /\ act' \in Acts
  BY DEF Refused, Idle, Acts
<1> HIDE DEF l
<1>4. TypeOK' /\ Books'
  BY <1>1, <1>3, InvTypes, WrittenBooks DEF Refused
<1>5. Planned'
  <2>1. Retriable(act.prev)
    BY DEF LedgerInv, Starting, Attempt, Refused
  <2>2. \A k \in todo : l[k] = ledger[k] \/ Retriable(l[k])
    BY <1>2, <2>1, InvTypes
  <2>3. todo' = todo
    BY DEF Refused
  <2> QED BY <1>1, <2>2, <2>3, WrittenPlan
<1>6. Starting' /\ Executing'
  BY <1>3 DEF Starting, Executing
<1>7. OffOK'
  <2> SUFFICES ASSUME NEW o \in offs PROVE Timely(o)' /\ (Current(o)' \/ Stale(o)')
    BY DEF OffOK, Refused
  <2>1. o.key \in Keys /\ now' = now /\ begun' = begun /\ act.phase = "starting"
    BY OffFields, InvTypes DEF Refused
  <2>2. CASE o.key # act.key
    BY <1>1, <1>2, <1>3, <2>1, <2>2, WrittenOff
  <2>3. CASE o.key = act.key
    <3>1. Stale(o)
      BY <2>1, <2>3 DEF LedgerInv, OffOK, Current
    <3>2. begun'[o.key] \in Nat /\ begun'[o.key] >= begun[o.key]
      BY <2>1, InvTypes
    <3> QED BY <1>1, <1>2, <2>1, <2>3, <3>1, <3>2, WrittenStale
  <2> QED BY <2>2, <2>3
<1>8. Distinct'
  BY DEF LedgerInv, Distinct, Refused
<1> QED BY <1>4, <1>5, <1>6, <1>7, <1>8 DEF LedgerInv

\* The attempt in memory is of a command not yet counted.
LEMMA LaunchWrites ==
  ASSUME LedgerInv, Launch
  PROVE  /\ Written(ledger, [ran EXCEPT ![act.key] = @ + 1], [begun EXCEPT ![act.key] = @ + 1])
         /\ act.key \in Keys /\ Runs(ledger, act.key)
         /\ ledger'[act.key] = ledger[act.key] /\ stored'[act.key] = ledger[act.key]
         /\ ran'[act.key] = ran[act.key] + 1
<1> DEFINE r == [ran EXCEPT ![act.key] = @ + 1]
           b == [begun EXCEPT ![act.key] = @ + 1]
<1>1. /\ act.phase = "starting" /\ act.key \in Keys /\ Runs(ledger, act.key)
      /\ ran[act.key] <= Att(act.prev) /\ Att(ledger[act.key]) = Att(act.prev) + 1
      /\ ledger[act.key].result = 0 /\ Att(act.prev) \in Nat
  <2>1. act.phase = "starting" /\ act.key \in Keys /\ act.prev \in Entry \cup {None}
    BY InvTypes, ActFields DEF Launch
  <2>2. Att(act.prev) \in Nat
    BY <2>1, EntryFields DEF Att
  <2> QED BY <2>1, <2>2 DEF LedgerInv, Starting, Attempt, Runs, Has, Att
<1>2. /\ r \in [Keys -> Nat] /\ b \in [Keys -> Nat] /\ r[act.key] = ran[act.key] + 1
      /\ ran[act.key] \in Nat
      /\ \A j \in Keys : j # act.key => r[j] = ran[j] /\ b[j] = begun[j]
  BY <1>1, InvTypes
<1> HIDE DEF r, b
<1>3. Good(ledger, r, b)
  <2> SUFFICES ASSUME NEW j \in Keys
               PROVE  r[j] <= Att(ledger[j]) /\ (Has(ledger, j) => ledger[j].result \in {0, b[j]})
    BY DEF Good
  <2>1. CASE j = act.key
    BY <2>1, <1>1, <1>2
  <2>2. CASE j # act.key
    BY <2>2, <1>2, InvTypes DEF Good
  <2> QED BY <2>1, <2>2
<1>4. Saves(ledger, r)
  BY DEF Launch, r
<1>5. Written(ledger, r, b)
  BY <1>2, <1>3, <1>4, InvTypes DEF Written
<1>6. Kept(ledger)[act.key] = ledger[act.key] /\ Has(Kept(ledger), act.key)
  BY <1>1 DEF Kept, Runs, Has
<1>7. ledger'[act.key] = ledger[act.key] /\ stored'[act.key] = ledger[act.key] /\ ran'[act.key] = r[act.key]
  BY <1>1, <1>4, <1>6 DEF Saves
<1> QED BY <1>1, <1>2, <1>5, <1>7 DEF r, b

LEMMA LaunchKeeps ==
  ASSUME LedgerInv, Launch
  PROVE  LedgerInv'
<1> DEFINE k == act.key
           r == [ran EXCEPT ![k] = @ + 1]
           b == [begun EXCEPT ![k] = @ + 1]
           new == [key |-> k, startedAt |-> ledger[k].at, attempts |-> ledger[k].attempts,
                   at |-> now, runs |-> TRUE, nth |-> begun[k] + 1]
           exec == [phase |-> "exec", key |-> k, prev |-> act.prev, launched |-> now]
<1>1. /\ Written(ledger, r, b) /\ begun' = b /\ k \in Keys /\ Runs(ledger, k)
      /\ ledger'[k] = ledger[k] /\ stored'[k] = ledger[k] /\ ran'[k] = ran[k] + 1
  BY LaunchWrites DEF Launch
<1>2. /\ act.phase = "starting" /\ now' = now /\ todo' = todo /\ upsets' = upsets
      /\ act.prev \in Entry \cup {None} /\ ledger[k] \in Entry
      /\ ledger[k].at \in Nat /\ ledger[k].attempts \in Nat /\ now \in Nat
      /\ begun[k] \in Nat /\ ran[k] \in Nat
  BY <1>1, InvTypes, ActFields, LedgerFields, EntryFields DEF Launch, Runs
<1>3. /\ b \in [Keys -> Nat] /\ b[k] = begun[k] + 1
      /\ \A j \in Keys : j # k => b[j] = begun[j] /\ r[j] = ran[j]
  BY <1>1, <1>2, InvTypes
<1>4. \/ k \in OffPass /\ act' = Idle /\ offs' = offs \cup {new}
      \/ k \notin OffPass /\ act' = exec /\ offs' = offs
  BY DEF Launch
<1>5. new \in Off /\ exec \in Acts /\ Idle \in Acts /\ act' \in Acts /\ act'.phase # "starting"
  BY <1>1, <1>2, <1>4 DEF Off, Acts, Idle
<1>6. /\ new.key = k /\ new.startedAt = ledger[k].at /\ new.attempts = ledger[k].attempts
      /\ new.at = now /\ new.runs /\ new.nth = begun[k] + 1
  OBVIOUS
<1>7. exec.phase = "exec" /\ exec.key = k /\ exec.prev = act.prev /\ Idle.phase = "idle"
  BY DEF Idle
<1>8. /\ Attempt(ledger[k], act.prev) /\ now <= ledger[k].at + Linger /\ ran[k] <= Att(act.prev)
      /\ act.prev # None => act.prev.result \in {0, begun[k]}
  BY <1>2 DEF LedgerInv, Starting
<1> HIDE DEF k, r, b, new, exec
<1>9. TypeOK' /\ Books'
  BY <1>1, <1>2, <1>3, <1>4, <1>5, InvTypes, WrittenBooks
<1>10. Planned'
  BY <1>1, <1>2, WrittenPlan
<1>11. Starting'
  BY <1>5 DEF Starting
<1>12. Executing'
  <2>1. CASE act' = Idle
    BY <2>1, <1>7 DEF Executing
  <2>2. CASE k \notin OffPass /\ act' = exec
    <3>1. /\ act'.key = k /\ act'.prev = act.prev /\ act'.phase = "exec"
          /\ Attempt(ledger[act.key], act.prev)'
      <4>1. act'.key = k /\ act'.prev = act.prev /\ act'.phase = "exec"
        BY <2>2, <1>7
      <4> QED BY <4>1, <1>1, <1>2, <1>8 DEF Attempt
    <3>2. Runs(stored, act.key)' /\ stored'[k].result = 0
      BY <3>1, <1>1, <1>8 DEF Runs, Has, Attempt
    <3>3. Att(act.prev) \in Nat
      BY <1>2, EntryFields DEF Att
    <3>4. ran'[k] >= 1 /\ ran'[k] <= Att(act.prev) + 1
      BY <1>1, <1>2, <1>8, <3>3
    <3>5. begun'[k] >= 1 /\ (act.prev # None => act.prev.result \in {0, begun'[k] - 1})
      BY <1>1, <1>2, <1>3, <1>8
    <3> QED BY <2>2, <3>1, <3>2, <3>4, <3>5 DEF Executing
  <2> QED BY <1>4, <2>1, <2>2
<1>13. ASSUME NEW o \in offs
       PROVE  Timely(o)' /\ (Current(o)' \/ Stale(o)') /\ o.nth <= begun[o.key]
  <2>1. o.key \in Keys /\ o.nth <= begun[o.key]
    BY OffFields, InvTypes DEF LedgerInv, OffOK, Timely
  <2>2. CASE o.key # k
    BY <1>1, <1>2, <1>3, <1>5, <2>1, <2>2, WrittenOff
  <2>3. CASE o.key = k
    <3>1. Stale(o)
      BY <1>2, <2>3 DEF LedgerInv, OffOK, Current, k
    <3> QED BY <1>1, <1>2, <1>3, <2>1, <2>3, <3>1, WrittenStale
  <2> QED BY <2>1, <2>2, <2>3
<1>14. CASE k \in OffPass /\ offs' = offs \cup {new}
  <2> PICK n : n = new
    OBVIOUS
  <2>0. /\ n.key = k /\ n.startedAt = ledger[k].at /\ n.attempts = ledger[k].attempts
        /\ n.at = now /\ n.runs /\ n.nth = begun[k] + 1 /\ offs' = offs \cup {n}
    BY <1>6, <1>14
  <2>1. Timely(n)'
    BY <1>1, <1>2, <1>3, <2>0, <1>8, <1>14, NumbersAssumption DEF Timely, Attempt
  <2>2. Current(n)'
    <3>1. SameAttempt(n)' /\ Runs(stored, n.key)'
      BY <1>1, <2>0 DEF SameAttempt, Runs, Has
    <3> QED BY <3>1, <1>1, <1>3, <1>5, <2>0 DEF Current
  <2>3. OffOK'
    BY <1>13, <2>0, <2>1, <2>2 DEF OffOK
  <2>4. \A o \in offs : o.key = n.key => o.nth # n.nth
    <3> SUFFICES ASSUME NEW o \in offs, o.key = n.key PROVE o.nth # n.nth
      OBVIOUS
    <3>1. o.nth \in Nat
      BY OffFields, InvTypes
    <3> QED BY <1>2, <2>0, <1>13, <3>1
  <2>5. Distinct'
    BY <2>0, <2>4 DEF LedgerInv, Distinct
  <2> QED BY <1>9, <1>10, <1>11, <1>12, <2>3, <2>5 DEF LedgerInv
<1>15. CASE offs' = offs
  <2>1. OffOK'
    BY <1>13, <1>15 DEF OffOK
  <2>2. Distinct'
    BY <1>15 DEF LedgerInv, Distinct
  <2> QED BY <1>9, <1>10, <1>11, <1>12, <2>1, <2>2 DEF LedgerInv
<1> QED BY <1>4, <1>14, <1>15

\* finish, written: the end of a running entry, from the latest command of its key.
LEMMA FinishedWrites ==
  ASSUME LedgerInv, NEW k \in Keys, Runs(ledger, k), NEW status \in Ended, NEW noRetry \in BOOLEAN,
         NEW at \in Nat, Persist(Finished(k, status, noRetry, at, begun[k]), ran, 0)
  PROVE  LET l == Finished(k, status, noRetry, at, begun[k]) IN
         /\ Written(l, ran, begun) /\ upsets' \in Nat /\ ~Runs(l, k)
         /\ \A j \in Keys : j # k => l[j] = ledger[j]
<1> DEFINE l == Finished(k, status, noRetry, at, begun[k])
<1>1. begun[k] \in Nat /\ ledger[k] \in Entry /\ ledger[k].attempts \in Nat /\ ran[k] \in Nat
  BY InvTypes, LedgerFields, EntryFields DEF Runs
<1>2. /\ l \in Entries /\ \A j \in Keys : j # k => l[j] = ledger[j]
      /\ l[k] \in Entry /\ l[k].status = status /\ l[k].result = begun[k]
      /\ l[k].attempts >= ledger[k].attempts
  BY <1>1, InvTypes, FinishedFields DEF Runs
<1> HIDE DEF l
<1>3. ~Runs(l, k)
  BY <1>2 DEF Runs, Ended
<1>4. Good(l, ran, begun)
  <2> SUFFICES ASSUME NEW j \in Keys
               PROVE  ran[j] <= Att(l[j]) /\ (Has(l, j) => l[j].result \in {0, begun[j]})
    BY DEF Good
  <2>1. CASE j = k
    <3>1. ran[k] <= ledger[k].attempts
      BY <1>1, InvTypes, NoneAssumption DEF Good, Att
    <3>2. Att(l[k]) = l[k].attempts /\ l[k].attempts \in Nat
      BY <1>2, EntryFields DEF Att
    <3> QED BY <1>1, <1>2, <2>1, <3>1, <3>2
  <2>2. CASE j # k
    BY <2>2, <1>2, InvTypes DEF Good, Has
  <2> QED BY <2>1, <2>2
<1>5. Written(l, ran, begun) /\ upsets' \in Nat
  <2>1. Persist(l, ran, 0)
    BY DEF l
  <2> QED BY <2>1, <1>2, <1>4, InvTypes, PersistWritten
<1> QED BY <1>2, <1>3, <1>5 DEF l

\* An inline action that ends: its entry no longer runs, or is what it was before, and no
\* command off the pass has its key.
LEMMA ActEnds ==
  ASSUME LedgerInv, act.phase = "exec", NEW l, NEW r, NEW b, Written(l, r, b), begun' = b,
         b \in [Keys -> Nat], \A j \in Keys : j # act.key => l[j] = ledger[j] /\ b[j] = begun[j],
         upsets' \in Nat, act' = Idle, UNCHANGED <<now, todo, offs>>
  PROVE  LedgerInv'
<1>1. /\ act.key \in Keys \ OffPass /\ Runs(ledger, act.key)
      /\ act'.phase = "idle" /\ act' \in Acts
  BY InvTypes, ActFields DEF LedgerInv, Executing, Attempt, Runs, Has, Idle, Acts
<1>2. TypeOK' /\ Books'
  BY <1>1, InvTypes, WrittenBooks
<1>3. Planned'
  <2>1. \A k \in todo' : l[k] = ledger[k]
    BY <1>1, InvTypes
  <2> QED BY <2>1, WrittenPlan
<1>4. Starting' /\ Executing'
  BY <1>1 DEF Starting, Executing
<1>5. OffOK'
  <2> SUFFICES ASSUME NEW o \in offs PROVE Timely(o)' /\ (Current(o)' \/ Stale(o)')
    BY DEF OffOK
  <2>1. o.key \in Keys /\ o.key # act.key
    BY <1>1, OffFields, InvTypes DEF LedgerInv, OffOK, Timely
  <2> QED BY <1>1, <2>1, WrittenOff
<1>6. Distinct'
  BY DEF LedgerInv, Distinct
<1> QED BY <1>2, <1>3, <1>4, <1>5, <1>6 DEF LedgerInv

LEMMA RecordWrites ==
  ASSUME LedgerInv, NEW status \in {"done", "failed"}, NEW noRetry \in BOOLEAN, Record(status, noRetry)
  PROVE  LET l == Finished(act.key, status, noRetry, now, begun[act.key]) IN
         /\ Written(l, ran, begun) /\ upsets' \in Nat /\ ~Runs(l, act.key)
         /\ \A j \in Keys : j # act.key => l[j] = ledger[j]
<1>1. act.key \in Keys /\ Runs(ledger, act.key)
  BY InvTypes, ActFields DEF LedgerInv, Executing, Attempt, Runs, Has, Record
<1>2. status \in Ended
  BY DEF Ended
<1>3. now \in Nat
  BY InvTypes
<1> QED BY <1>1, <1>2, <1>3, FinishedWrites DEF Record

LEMMA RecordKeeps ==
  ASSUME LedgerInv, NEW status \in {"done", "failed"}, NEW noRetry \in BOOLEAN, Record(status, noRetry)
  PROVE  LedgerInv'
<1> DEFINE l == Finished(act.key, status, noRetry, now, begun[act.key])
<1>1. /\ Written(l, ran, begun) /\ upsets' \in Nat
      /\ \A j \in Keys : j # act.key => l[j] = ledger[j]
  BY RecordWrites
<1> HIDE DEF l
<1>2. /\ act.phase = "exec" /\ act' = Idle /\ UNCHANGED <<now, todo, offs>>
      /\ begun' = begun /\ begun \in [Keys -> Nat]
  BY InvTypes DEF Record
<1> QED BY <1>1, <1>2, ActEnds

LEMMA SkippedWrites ==
  ASSUME LedgerInv, RecordSkipped
  PROVE  LET l == Unstart(act.key, act.prev)
             r == [ran EXCEPT ![act.key] = @ - 1]
             b == [begun EXCEPT ![act.key] = @ - 1] IN
         /\ Written(l, r, b) /\ upsets' \in Nat /\ begun' = b /\ b \in [Keys -> Nat]
         /\ act.key \in Keys /\ r[act.key] = ran[act.key] - 1
         /\ \A j \in Keys : j # act.key => l[j] = ledger[j] /\ b[j] = begun[j] /\ r[j] = ran[j]
<1> DEFINE l == Unstart(act.key, act.prev)
           r == [ran EXCEPT ![act.key] = @ - 1]
           b == [begun EXCEPT ![act.key] = @ - 1]
<1>1. /\ act.phase = "exec" /\ act.key \in Keys /\ act.prev \in Entry \cup {None}
      /\ Runs(stored, act.key) /\ stored[act.key].result = 0
      /\ ran[act.key] >= 1 /\ ran[act.key] <= Att(act.prev) + 1 /\ begun[act.key] >= 1
      /\ act.prev # None => act.prev.result \in {0, begun[act.key] - 1}
      /\ ran[act.key] \in Nat /\ begun[act.key] \in Nat
  BY InvTypes, ActFields DEF LedgerInv, Executing, RecordSkipped
<1>2. Att(act.prev) \in Nat
  BY <1>1, EntryFields DEF Att
<1>3. /\ r \in [Keys -> Nat] /\ b \in [Keys -> Nat]
      /\ r[act.key] = ran[act.key] - 1 /\ b[act.key] = begun[act.key] - 1
      /\ \A j \in Keys : j # act.key => r[j] = ran[j] /\ b[j] = begun[j]
  BY <1>1, InvTypes
<1>4. Persist(l, r, 0) /\ begun' = b
  BY DEF RecordSkipped
<1> HIDE DEF r, b
<1>5. l \in Entries /\ Good(l, r, b) /\ \A j \in Keys : j # act.key => l[j] = ledger[j]
  <2>1. r[act.key] <= Att(act.prev) /\ (act.prev # None => act.prev.result \in {0, b[act.key]})
    BY <1>1, <1>2, <1>3
  <2> QED BY <1>1, <1>3, <2>1, UnstartEffect
<1> HIDE DEF l
<1>6. Good(stored, r, b)
  <2> SUFFICES ASSUME NEW j \in Keys
               PROVE  r[j] <= Att(stored[j]) /\ (Has(stored, j) => stored[j].result \in {0, b[j]})
    BY DEF Good
  <2>1. CASE j = act.key
    <3>1. ran[j] <= Att(stored[j]) /\ Att(stored[j]) \in Nat
      BY InvTypes, LedgerFields DEF Good
    <3> QED BY <2>1, <3>1, <1>1, <1>3
  <2>2. CASE j # act.key
    BY <2>2, <1>3, InvTypes DEF Good
  <2> QED BY <2>1, <2>2
<1>7. Written(l, r, b) /\ upsets' \in Nat
  BY <1>3, <1>4, <1>5, <1>6, InvTypes, PersistWritten
<1> QED BY <1>1, <1>3, <1>4, <1>5, <1>7 DEF l, r, b

LEMMA SkippedKeeps ==
  ASSUME LedgerInv, RecordSkipped
  PROVE  LedgerInv'
<1> DEFINE l == Unstart(act.key, act.prev)
           r == [ran EXCEPT ![act.key] = @ - 1]
           b == [begun EXCEPT ![act.key] = @ - 1]
<1>1. /\ Written(l, r, b) /\ upsets' \in Nat /\ begun' = b /\ b \in [Keys -> Nat]
      /\ \A j \in Keys : j # act.key => l[j] = ledger[j] /\ b[j] = begun[j]
  BY SkippedWrites
<1> HIDE DEF l, r, b
<1>2. act.phase = "exec" /\ act' = Idle /\ UNCHANGED <<now, todo, offs>>
  BY DEF RecordSkipped
<1> QED BY <1>1, <1>2, ActEnds

LEMMA OffEndsKeeps ==
  ASSUME LedgerInv, NEW o \in offs, OffEnds(o)
  PROVE  LedgerInv'
<1>1. PICK p : p = [o EXCEPT !.runs = FALSE, !.at = now]
  OBVIOUS
<1>2. /\ o \in Off /\ p \in Off /\ ~p.runs /\ p.key = o.key /\ p.startedAt = o.startedAt
      /\ p.attempts = o.attempts /\ p.nth = o.nth
  BY <1>1, InvTypes DEF Off
<1>3. o.runs /\ offs' = (offs \ {o}) \cup {p} /\ UNCHANGED <<now, ledger, stored, todo, act, ran, begun, upsets>>
  BY <1>1 DEF OffEnds
<1>4. Written(ledger, ran, begun)
  BY <1>3, NothingWritten
<1>5. offs' \subseteq Off
  BY <1>2, <1>3, InvTypes
<1>6. TypeOK' /\ Books'
  BY <1>3, <1>4, <1>5, InvTypes, WrittenBooks
<1>7. Planned'
  BY <1>3 DEF LedgerInv, Planned
<1>8. Starting' /\ Executing'
  BY <1>3, <1>4, WrittenAct
<1>9. OffOK'
  <2>1. \A q \in offs : Timely(q)' /\ (Current(q)' \/ Stale(q)')
    BY <1>3, <1>4, WrittenOff
  <2>2. Timely(p)'
    BY <1>2, <1>3, <2>1 DEF Timely
  <2>3. Current(o)'
    BY <1>3, <2>1 DEF Stale
  <2>4. Current(p)'
    BY <1>2, <2>3 DEF Current, SameAttempt
  <2> QED BY <1>3, <2>1, <2>2, <2>4 DEF OffOK
<1>10. Distinct'
  <2>1. \A q \in offs : q.key = p.key /\ q.nth = p.nth => q = o
    BY <1>2 DEF LedgerInv, Distinct
  <2> QED BY <1>3, <2>1 DEF LedgerInv, Distinct
<1> QED BY <1>6, <1>7, <1>8, <1>9, <1>10 DEF LedgerInv

\* A completion finds its attempt only if it is its key's latest command.
LEMMA SameAttemptIsCurrent ==
  ASSUME LedgerInv, NEW o \in offs, SameAttempt(o)
  PROVE  Current(o) /\ Runs(ledger, o.key) /\ o.key \in Keys /\ o.key \in OffPass /\ o.nth = begun[o.key]
<1>1. o.startedAt \in Nat /\ o.key \in Keys
  BY OffFields, InvTypes
<1>2. ~Stale(o)
  BY <1>1 DEF Stale, SameAttempt
<1> QED BY <1>1, <1>2 DEF LedgerInv, OffOK, Timely, Current, SameAttempt

LEMMA OffLandsWrites ==
  ASSUME LedgerInv, NEW o \in offs, NEW status \in {"done", "failed"}, NEW noRetry \in BOOLEAN,
         OffLands(o, status, noRetry)
  PROVE  \E l : /\ Written(l, ran, begun) /\ upsets' \in Nat
                /\ \A j \in Keys : l[j] # ledger[j] => j = o.key /\ Current(o) /\ ~Runs(l, j)
<1>1. CASE ~SameAttempt(o)
  <2>1. Written(ledger, ran, begun) /\ upsets' \in Nat
    BY <1>1, NothingWritten, InvTypes DEF OffLands
  <2> QED BY <2>1
<1>2. CASE SameAttempt(o)
  <2> DEFINE l == Finished(o.key, status, noRetry, o.at, begun[o.key])
  <2>1. Current(o) /\ Runs(ledger, o.key) /\ o.key \in Keys /\ o.nth = begun[o.key]
    BY <1>2, SameAttemptIsCurrent
  <2>2. Persist(l, ran, 0) /\ status \in Ended
    BY <1>2, <2>1 DEF OffLands, Ended
  <2>3. /\ Written(l, ran, begun) /\ upsets' \in Nat /\ ~Runs(l, o.key)
        /\ \A j \in Keys : j # o.key => l[j] = ledger[j]
    <3>1. o.at \in Nat
      BY OffFields, InvTypes
    <3> QED BY <2>1, <2>2, <3>1, FinishedWrites
  <2> HIDE DEF l
  <2> QED BY <2>1, <2>3
<1> QED BY <1>1, <1>2

LEMMA OffLandsKeeps ==
  ASSUME LedgerInv, NEW o \in offs, NEW status \in {"done", "failed"}, NEW noRetry \in BOOLEAN,
         OffLands(o, status, noRetry)
  PROVE  LedgerInv'
<1>1. PICK l : /\ Written(l, ran, begun) /\ upsets' \in Nat
               /\ \A j \in Keys : l[j] # ledger[j] => j = o.key /\ Current(o) /\ ~Runs(l, j)
  BY OffLandsWrites
<1>2. ~o.runs /\ offs' = offs \ {o} /\ UNCHANGED <<now, todo, act, begun>>
  BY DEF OffLands
<1>3. TypeOK' /\ Books'
  BY <1>1, <1>2, InvTypes, WrittenBooks
<1>4. Current(o) => Runs(ledger, o.key)
  BY DEF Current, SameAttempt
<1>5. Planned'
  <2>1. \A k \in todo' : l[k] = ledger[k]
    BY <1>1, <1>2, <1>4, InvTypes
  <2> QED BY <1>1, <1>2, <2>1, WrittenPlan
<1>6. Starting' /\ Executing'
  <2>1. act.phase # "idle" => act.key \in Keys /\ act.phase \in {"starting", "exec"}
    BY InvTypes, ActFields
  <2>2. Current(o) => o.key \in OffPass /\ ~(act.phase = "starting" /\ act.key = o.key)
    BY DEF LedgerInv, OffOK, Timely, Current
  <2>3. act.phase = "exec" => act.key \notin OffPass
    BY DEF LedgerInv, Executing
  <2>4. act.phase # "idle" => l[act.key] = ledger[act.key]
    BY <1>1, <2>1, <2>2, <2>3
  <2> QED BY <1>1, <1>2, <2>4, WrittenAct
<1>7. OffOK'
  <2> SUFFICES ASSUME NEW p \in offs, p # o PROVE Timely(p)' /\ (Current(p)' \/ Stale(p)')
    BY <1>2 DEF OffOK
  <2>1. p.key \in Keys
    BY OffFields, InvTypes
  <2>2. CASE l[p.key] = ledger[p.key]
    BY <1>1, <1>2, <2>2, WrittenOff
  <2>3. CASE l[p.key] # ledger[p.key]
    <3>1. p.key = o.key /\ Current(o) /\ ~Runs(l, p.key)
      BY <1>1, <2>1, <2>3
    <3>2. Stale(p)
      BY <3>1 DEF LedgerInv, OffOK, Distinct, Current
    <3>3. begun'[p.key] >= begun[p.key] /\ begun'[p.key] \in Nat
      BY <1>2, <2>1, InvTypes
    <3> QED BY <1>1, <1>2, <3>1, <3>2, <3>3, WrittenStale
  <2> QED BY <2>2, <2>3
<1>8. Distinct'
  BY <1>2 DEF LedgerInv, Distinct
<1> QED BY <1>3, <1>5, <1>6, <1>7, <1>8 DEF LedgerInv

LEMMA ReloadWrites ==
  ASSUME LedgerInv, Reload
  PROVE  Written(OnLoad(stored), ran, begun) /\ upsets' \in Nat
<1> DEFINE l == OnLoad(stored)
<1>1. \A k \in Keys : l[k] = stored[k] \/ (Runs(stored, k) /\ l[k] = EndedBy(stored[k], "lost", now, 0))
  BY DEF OnLoad
<1>2. \A k \in Keys : Runs(stored, k) =>
        /\ EndedBy(stored[k], "lost", now, 0) \in Entry
        /\ EndedBy(stored[k], "lost", now, 0).result = 0
        /\ Att(EndedBy(stored[k], "lost", now, 0)) = Att(stored[k])
  <2> SUFFICES ASSUME NEW k \in Keys, Runs(stored, k), NEW e, e = EndedBy(stored[k], "lost", now, 0)
               PROVE  e \in Entry /\ e.result = 0 /\ Att(e) = Att(stored[k])
    OBVIOUS
  <2>1. stored[k] \in Entry /\ "lost" \in Ended /\ now \in Nat
    BY InvTypes, LedgerFields DEF Runs, Ended
  <2>2. e \in Entry /\ e.result = 0 /\ e.attempts = stored[k].attempts
    BY <2>1, EndedByFields
  <2> QED BY <2>1, <2>2, NoneAssumption DEF Att
<1>3. l \in Entries
  <2>1. \A k \in Keys : l[k] \in Entry \cup {None}
    BY <1>1, <1>2, InvTypes, LedgerFields
  <2> QED BY <2>1 DEF OnLoad, Entries
<1> HIDE DEF l
<1>4. Good(l, ran, begun)
  <2> SUFFICES ASSUME NEW k \in Keys
               PROVE  ran[k] <= Att(l[k]) /\ (Has(l, k) => l[k].result \in {0, begun[k]})
    BY DEF Good
  <2>1. CASE l[k] = stored[k]
    BY <2>1, InvTypes DEF Good, Has
  <2>2. CASE Runs(stored, k) /\ l[k] = EndedBy(stored[k], "lost", now, 0)
    <3>1. l[k].result = 0 /\ Att(l[k]) = Att(stored[k])
      BY <2>2, <1>2
    <3> QED BY <3>1, InvTypes DEF Good
  <2> QED BY <1>1, <2>1, <2>2
<1>5. Persist(l, ran, 1)
  BY DEF Reload, l
<1>6. Written(l, ran, begun) /\ upsets' \in Nat
  BY <1>3, <1>4, <1>5, InvTypes, PersistWritten
<1> QED BY <1>6 DEF l

LEMMA ReloadKeeps ==
  ASSUME LedgerInv, Reload
  PROVE  LedgerInv'
<1>1. /\ Written(OnLoad(stored), ran, begun) /\ upsets' \in Nat
      /\ todo' = {} /\ act' = Idle /\ offs' = {} /\ now' = now /\ begun' = begun
  BY ReloadWrites DEF Reload
<1>2. act'.phase = "idle" /\ act' \in Acts
  BY <1>1 DEF Idle, Acts
<1>3. TypeOK' /\ Books'
  BY <1>1, <1>2, InvTypes, WrittenBooks
<1>4. Planned' /\ Starting' /\ Executing' /\ OffOK' /\ Distinct'
  BY <1>1, <1>2 DEF Planned, Starting, Executing, OffOK, Distinct
<1> QED BY <1>3, <1>4 DEF LedgerInv

LEMMA RetryWrites ==
  ASSUME LedgerInv, NEW k \in Keys, Retry(k)
  PROVE  LET l == [ledger EXCEPT ![k].attempts = 0]
             r == [ran EXCEPT ![k] = 0] IN
         /\ Written(l, r, begun) /\ upsets' \in Nat /\ ~Runs(l, k) /\ ~Runs(ledger, k) /\ r[k] = 0
         /\ Retriable(l[k]) /\ \A j \in Keys : j # k => l[j] = ledger[j] /\ r[j] = ran[j]
<1> DEFINE e == [ledger[k] EXCEPT !.attempts = 0]
           l == [ledger EXCEPT ![k].attempts = 0]
           r == [ran EXCEPT ![k] = 0]
<1>1. ledger[k] \in Entry /\ ledger[k].status \in Ended \ {"done"}
  BY InvTypes, LedgerFields DEF Retry, Exhausted
<1>2. /\ e \in Entry /\ e.status = ledger[k].status /\ e.attempts = 0
      /\ e.result = ledger[k].result
  BY <1>1 DEF Entry
<1> HIDE DEF e
<1>3. l \in Entries /\ l[k] = e /\ \A j \in Keys : j # k => l[j] = ledger[j]
  <2>1. l = [ledger EXCEPT ![k] = e]
    BY DEF e
  <2> QED BY <1>2, <2>1, InvTypes DEF Entries
<1>4. r \in [Keys -> Nat] /\ r[k] = 0 /\ \A j \in Keys : j # k => r[j] = ran[j]
  BY InvTypes
<1>5. Persist(l, r, 1)
  BY DEF Retry
<1> HIDE DEF l, r
<1>6. Good(l, r, begun)
  <2> SUFFICES ASSUME NEW j \in Keys
               PROVE  r[j] <= Att(l[j]) /\ (Has(l, j) => l[j].result \in {0, begun[j]})
    BY DEF Good
  <2>1. CASE j = k
    <3>1. Att(l[j]) \in Nat
      BY <1>3, LedgerFields
    <3>2. ledger[k].result \in {0, begun[k]}
      BY <1>1, InvTypes, EntryFields DEF Good, Has
    <3> QED BY <2>1, <3>1, <3>2, <1>2, <1>3, <1>4
  <2>2. CASE j # k
    BY <2>2, <1>3, <1>4, InvTypes DEF Good, Has
  <2> QED BY <2>1, <2>2
<1>7. Good(stored, r, begun)
  <2> SUFFICES ASSUME NEW j \in Keys
               PROVE  r[j] <= Att(stored[j]) /\ (Has(stored, j) => stored[j].result \in {0, begun[j]})
    BY DEF Good
  <2>1. Att(stored[j]) \in Nat /\ ran[j] <= Att(stored[j])
    BY InvTypes, LedgerFields DEF Good
  <2> QED BY <2>1, <1>4, InvTypes DEF Good
<1>8. Written(l, r, begun) /\ upsets' \in Nat
  BY <1>3, <1>4, <1>5, <1>6, <1>7, InvTypes, PersistWritten
<1>9. ~Runs(l, k) /\ ~Runs(ledger, k)
  BY <1>1, <1>2, <1>3 DEF Runs, Ended
<1>10. Retriable(l[k])
  BY <1>1, <1>2, <1>3, NumbersAssumption DEF Retriable
<1> QED BY <1>3, <1>4, <1>8, <1>9, <1>10 DEF l, r

LEMMA RetryKeeps ==
  ASSUME LedgerInv, NEW k \in Keys, Retry(k)
  PROVE  LedgerInv'
<1> DEFINE l == [ledger EXCEPT ![k].attempts = 0]
           r == [ran EXCEPT ![k] = 0]
<1>1. /\ Written(l, r, begun) /\ upsets' \in Nat /\ ~Runs(l, k) /\ ~Runs(ledger, k)
      /\ Retriable(l[k]) /\ \A j \in Keys : j # k => l[j] = ledger[j] /\ r[j] = ran[j]
  BY RetryWrites
<1> HIDE DEF l, r
<1>2. UNCHANGED <<now, todo, act, offs, begun>>
  BY DEF Retry
<1>3. TypeOK' /\ Books'
  BY <1>1, <1>2, InvTypes, WrittenBooks
<1>4. Planned'
  <2>1. \A j \in todo' : l[j] = ledger[j] \/ Retriable(l[j])
    BY <1>1, <1>2, InvTypes
  <2> QED BY <1>1, <1>2, <2>1, WrittenPlan
<1>5. Starting' /\ Executing'
  <2>1. act.phase # "idle" => act.key \in Keys /\ Runs(ledger, act.key)
    BY InvTypes, ActFields DEF LedgerInv, Starting, Executing, Attempt, Runs, Has
  <2>2. act.phase # "idle" => l[act.key] = ledger[act.key] /\ r[act.key] = ran[act.key]
    BY <1>1, <2>1
  <2> QED BY <1>1, <1>2, <2>2, WrittenAct
<1>6. OffOK'
  <2> SUFFICES ASSUME NEW o \in offs PROVE Timely(o)' /\ (Current(o)' \/ Stale(o)')
    BY <1>2 DEF OffOK
  <2>1. o.key \in Keys
    BY OffFields, InvTypes
  <2>2. CASE o.key # k
    BY <1>1, <1>2, <2>1, <2>2, WrittenOff
  <2>3. CASE o.key = k
    <3>1. Stale(o)
      BY <1>1, <2>3 DEF LedgerInv, OffOK, Current, SameAttempt
    <3>2. begun'[o.key] >= begun[o.key] /\ begun'[o.key] \in Nat
      BY <1>2, <2>1, InvTypes
    <3> QED BY <1>1, <1>2, <2>3, <3>1, <3>2, WrittenStale
  <2> QED BY <2>2, <2>3
<1>7. Distinct'
  BY <1>2 DEF LedgerInv, Distinct
<1> QED BY <1>3, <1>4, <1>5, <1>6, <1>7 DEF LedgerInv

LEMMA TickKeeps ==
  ASSUME LedgerInv, Tick
  PROVE  LedgerInv'
<1>1. /\ now' = now + 1 /\ now \in Nat /\ now' \in Nat
      /\ UNCHANGED <<ledger, stored, todo, act, offs, ran, begun, upsets>>
  BY InvTypes DEF Tick
<1>2. TypeOK' /\ Books'
  BY <1>1, NothingWritten, InvTypes, WrittenBooks
<1>3. Planned'
  BY <1>1 DEF LedgerInv, Planned
<1>4. act.phase # "idle" => ledger[act.key].at \in Nat
  BY InvTypes, ActFields, LedgerFields, EntryFields DEF LedgerInv, Starting, Executing, Attempt, Has
<1>5. Starting'
  <2> SUFFICES ASSUME act.phase = "starting"
               PROVE  Starting'
    BY <1>1 DEF Starting
  <2>1. now' <= ledger[act.key].at + Linger
    BY <1>1, <1>4, NumbersAssumption DEF Tick
  <2>2. Attempt(ledger[act.key], act.prev)'
    BY <1>1, <1>4 DEF LedgerInv, Starting, Attempt
  <2> QED BY <1>1, <2>1, <2>2 DEF LedgerInv, Starting
<1>6. Executing'
  <2> SUFFICES ASSUME act.phase = "exec"
               PROVE  Executing'
    BY <1>1 DEF Executing
  <2>1. Attempt(ledger[act.key], act.prev)'
    BY <1>1, <1>4 DEF LedgerInv, Executing, Attempt
  <2>2. Runs(stored, act.key)'
    BY <1>1 DEF LedgerInv, Executing, Runs, Has
  <2> QED BY <1>1, <2>1, <2>2 DEF LedgerInv, Executing
<1>7. OffOK'
  <2> SUFFICES ASSUME NEW o \in offs PROVE Timely(o)' /\ (Current(o)' \/ Stale(o)')
    BY <1>1 DEF OffOK
  <2>1. o.at \in Nat /\ o.startedAt \in Nat
    BY OffFields, InvTypes
  <2>2. o.runs => now' <= o.at + Bound
    BY <1>1, <2>1, NumbersAssumption DEF Tick
  <2>3. Timely(o)'
    BY <1>1, <2>1, <2>2 DEF LedgerInv, OffOK, Timely
  <2>4. CASE Current(o)
    BY <1>1, <2>3, <2>4 DEF Current, SameAttempt, Runs, Has
  <2>5. CASE Stale(o)
    BY <1>1, <2>1, <2>3, <2>5 DEF Stale, Runs, Has
  <2> QED BY <2>4, <2>5 DEF LedgerInv, OffOK
<1>8. Distinct'
  BY <1>1 DEF LedgerInv, Distinct
<1> QED BY <1>2, <1>3, <1>5, <1>6, <1>7, <1>8 DEF LedgerInv

----------------------------------------------------------------------------
(* The theorems *)

LEMMA InvInit ==
  ASSUME Init
  PROVE  LedgerInv
<1>1. TypeOK
  BY DEF Init, TypeOK, Entries, Acts
<1>2. Books
  BY DEF Init, Books, Good, Has, Att
<1>3. act.phase = "idle"
  BY DEF Init, Idle
<1>4. Planned /\ Starting /\ Executing /\ OffOK /\ Distinct
  BY <1>3 DEF Init, Planned, Starting, Executing, OffOK, Distinct
<1> QED BY <1>1, <1>2, <1>4 DEF LedgerInv

LEMMA StutterKeeps ==
  ASSUME LedgerInv, UNCHANGED vars
  PROVE  LedgerInv'
<1>1. UNCHANGED <<now, ledger, stored, todo, act, offs, ran, begun, upsets>>
  BY DEF vars
<1>2. TypeOK' /\ Books'
  BY <1>1, NothingWritten, InvTypes, WrittenBooks
<1>3. Planned'
  BY <1>1 DEF LedgerInv, Planned
<1>4. Starting' /\ Executing'
  BY <1>1, NothingWritten, WrittenAct
<1>5. OffOK'
  BY <1>1, NothingWritten, WrittenOff DEF OffOK
<1>6. Distinct'
  BY <1>1 DEF LedgerInv, Distinct
<1> QED BY <1>2, <1>3, <1>4, <1>5, <1>6 DEF LedgerInv

\* One step per action of Next.
LEMMA NextKeeps ==
  ASSUME LedgerInv, [Next]_vars
  PROVE  LedgerInv'
<1>1. CASE Plan
  BY <1>1, PlanKeeps
<1>2. CASE Hold
  BY <1>2, HoldKeeps
<1>3. CASE Refused
  BY <1>3, RefusedKeeps
<1>4. CASE Launch
  BY <1>4, LaunchKeeps
<1>5. CASE RecordSkipped
  BY <1>5, SkippedKeeps
<1>6. CASE Reload
  BY <1>6, ReloadKeeps
<1>7. CASE Tick
  BY <1>7, TickKeeps
<1>8. CASE \E k \in Keys : Start(k) \/ Retry(k)
  BY <1>8, StartKeeps, RetryKeeps
<1>9. CASE \E status \in {"done", "failed"}, noRetry \in BOOLEAN : Record(status, noRetry)
  BY <1>9, RecordKeeps
<1>10. ASSUME NEW o \in offs,
              \/ OffEnds(o)
              \/ \E status \in {"done", "failed"}, noRetry \in BOOLEAN : OffLands(o, status, noRetry)
       PROVE  LedgerInv'
  BY <1>10, OffEndsKeeps, OffLandsKeeps
<1>11. CASE UNCHANGED vars
  BY <1>11, StutterKeeps
<1> QED BY <1>1, <1>2, <1>3, <1>4, <1>5, <1>6, <1>7, <1>8, <1>9, <1>10, <1>11 DEF Next

THEOREM Invariance == Spec => []LedgerInv
<1>1. Init => LedgerInv
  BY InvInit
<1>2. LedgerInv /\ [Next]_vars => LedgerInv'
  BY NextKeeps
<1> QED BY <1>1, <1>2, PTL DEF Spec

----------------------------------------------------------------------------
(* Every step is a step of Retries, key by key *)

\* What Retries allows of one key, in this module's terms.
KeyStep(k) ==
  \/ ~Doing(k) /\ Doing(k)' /\ ran[k] < MaxAttempts /\ ran'[k] = ran[k] + 1
  \/ Doing(k) /\ ~Doing(k)' /\ (ran'[k] = ran[k] \/ ran'[k] + 1 = ran[k] \/ ran'[k] = 0)
  \/ ~Doing(k) /\ ~Doing(k)' /\ ran'[k] = 0
  \/ (Doing(k) <=> Doing(k)') /\ ran'[k] = ran[k]

LEMMA KeySteps ==
  ASSUME LedgerInv', \A k \in Keys : KeyStep(k)
  PROVE  R!Next
<1>1. ran' \in [Keys -> Nat]
  BY DEF LedgerInv, TypeOK
<1>2. [k \in Keys |-> Doing(k)]' \in [Keys -> BOOLEAN]
  BY DEF Doing
<1>3. ASSUME NEW k \in Keys
      PROVE  R!Begins(k) \/ R!Ends(k) \/ R!Cleared(k) \/ R!Same(k)
  <2> DEFINE D == Doing(k)
             F == Doing(k)'
  <2>1. D \in BOOLEAN /\ F \in BOOLEAN
    BY DEF Doing
  <2>2. [j \in Keys |-> Doing(j)][k] = D /\ [j \in Keys |-> Doing(j)]'[k] = F
    OBVIOUS
  <2>3. \/ ~D /\ F /\ ran[k] < MaxAttempts /\ ran'[k] = ran[k] + 1
        \/ D /\ ~F /\ (ran'[k] = ran[k] \/ ran'[k] + 1 = ran[k] \/ ran'[k] = 0)
        \/ ~D /\ ~F /\ ran'[k] = 0
        \/ (D <=> F) /\ ran'[k] = ran[k]
    BY DEF KeyStep
  <2> HIDE DEF D, F
  <2> QED BY <2>1, <2>2, <2>3 DEF R!Begins, R!Ends, R!Cleared, R!Same
<1> QED BY <1>1, <1>2, <1>3 DEF R!Next

\* A key that no step of its command touches: its count stays, or goes with an entry at rest.
LEMMA WrittenQuiet ==
  ASSUME LedgerInv, NEW l, NEW r, NEW b, Written(l, r, b), NEW k \in Keys, Doing(k)' <=> Doing(k),
         r[k] \in {ran[k], 0}, Doing(k) => l[k] = ledger[k] /\ r[k] = ran[k]
  PROVE  KeyStep(k)
<1>1. ran'[k] \in {r[k], 0} /\ (Runs(l, k) => ran'[k] = r[k])
  BY WrittenEffect, InvTypes
<1>2. CASE Doing(k)
  <2>1. Runs(l, k)
    BY <1>2, DoingRuns DEF Runs, Has
  <2> QED BY <1>1, <1>2, <2>1 DEF KeyStep
<1>3. CASE ~Doing(k)
  BY <1>1, <1>3 DEF KeyStep
<1> QED BY <1>2, <1>3

\* A command that ends, and the rest as it was.
LEMMA WrittenEnds ==
  ASSUME LedgerInv, NEW l, NEW r, NEW b, Written(l, r, b), NEW k \in Keys, Doing(k), ~Doing(k)',
         r[k] = ran[k] \/ r[k] = ran[k] - 1
  PROVE  KeyStep(k)
<1>1. ran'[k] \in {r[k], 0} /\ ran[k] \in Nat
  BY WrittenEffect, InvTypes
<1> QED BY <1>1 DEF KeyStep

LEMMA NothingOfPlan ==
  ASSUME LedgerInv, Plan, NEW k \in Keys
  PROVE  KeyStep(k)
<1>1. Doing(k)' <=> Doing(k)
  BY DEF Plan, Doing
<1>2. Doing(k) => Expired(ledger)[k] = ledger[k]
  <2>1. ASSUME NEW o \in offs, o.key = k, o.runs PROVE Expired(ledger)[k] = ledger[k]
    BY <2>1, RunningNotExpired, ExpiredEffect
  <2> QED BY <2>1 DEF Doing, Plan, Idle
<1> QED BY <1>1, <1>2, PlanWrites, WrittenQuiet

LEMMA NothingOfStart ==
  ASSUME LedgerInv, NEW j \in Keys, Start(j), NEW k \in Keys
  PROVE  KeyStep(k)
<1>1. Doing(k)' <=> Doing(k)
  BY DEF Start, Doing, Idle
<1>2. Doing(k) => k # j
  BY DoingRuns, InvTypes DEF Start
<1>3. k # j => [ledger EXCEPT ![j] = Started(j)][k] = ledger[k]
  BY InvTypes DEF Entries
<1> QED BY <1>1, <1>2, <1>3, StartWrites, WrittenQuiet

LEMMA NothingOfRefused ==
  ASSUME LedgerInv, Refused, NEW k \in Keys
  PROVE  KeyStep(k)
<1>1. Doing(k)' <=> Doing(k)
  BY DEF Refused, Doing, Idle
<1>2. Doing(k) => k # act.key
  <2>1. ASSUME NEW o \in offs, o.key = k, o.runs PROVE k # act.key
    BY <2>1, RunningIsCurrent DEF Current, Refused
  <2> QED BY <2>1 DEF Doing, Refused
<1>3. k # act.key => Unstart(act.key, act.prev)[k] = ledger[k]
  BY InvTypes DEF Unstart, Entries
<1> QED BY <1>1, <1>2, <1>3, RefusedWrites, WrittenQuiet

LEMMA LaunchBegins ==
  ASSUME LedgerInv, Launch, NEW k \in Keys
  PROVE  KeyStep(k)
<1> DEFINE a == act.key
           r == [ran EXCEPT ![a] = @ + 1]
           b == [begun EXCEPT ![a] = @ + 1]
<1>1. /\ Written(ledger, r, b) /\ a \in Keys /\ Runs(ledger, a) /\ ran'[a] = ran[a] + 1
      /\ k # a => r[k] = ran[k]
  BY LaunchWrites, InvTypes
<1>2. act.phase = "starting"
  BY DEF Launch
<1>3. \/ act' = Idle /\ \E n : n.key = a /\ n.runs /\ offs' = offs \cup {n}
      \/ act'.phase = "exec" /\ act'.key = a /\ offs' = offs
  <2> DEFINE new == [key |-> a, startedAt |-> ledger[a].at, attempts |-> ledger[a].attempts,
                     at |-> now, runs |-> TRUE, nth |-> begun[a] + 1]
             exec == [phase |-> "exec", key |-> a, prev |-> act.prev, launched |-> now]
  <2>1. (act' = Idle /\ offs' = offs \cup {new}) \/ (act' = exec /\ offs' = offs)
    BY DEF Launch
  <2>2. new.key = a /\ new.runs /\ exec.phase = "exec" /\ exec.key = a
    OBVIOUS
  <2> HIDE DEF new, exec
  <2> QED BY <2>1, <2>2
<1>4. \A o \in offs : o.runs => o.key # a
  BY <1>2, RunningIsCurrent DEF Current
<1>5. CASE k = a
  <2>1. ~Doing(k)
    BY <1>2, <1>4, <1>5 DEF Doing
  <2>2. Doing(k)'
    BY <1>5, <1>3 DEF Doing
  <2>3. ran[k] < MaxAttempts
    <3>1. ran[k] <= Att(act.prev) /\ Retriable(act.prev) /\ ran[k] \in Nat /\ act.prev \in Entry \cup {None}
      BY <1>2, <1>5, InvTypes, ActFields DEF LedgerInv, Starting, Attempt
    <3>2. CASE act.prev = None
      BY <3>1, <3>2, NumbersAssumption DEF Att
    <3>3. CASE act.prev \in Entry
      BY <3>1, <3>3, EntryFields, NumbersAssumption DEF Att, Retriable
    <3> QED BY <3>1, <3>2, <3>3
  <2> QED BY <1>1, <1>5, <2>1, <2>2, <2>3 DEF KeyStep
<1>6. CASE k # a
  <2>1. Doing(k)' <=> Doing(k)
    <3>1. CASE offs' = offs /\ act'.key = a
      BY <1>2, <1>6, <3>1 DEF Doing
    <3>2. CASE /\ act' = Idle
               /\ \E n : n.key = a /\ offs' = offs \cup {n}
      BY <1>2, <1>6, <3>2 DEF Doing, Idle
    <3> QED BY <1>3, <3>1, <3>2
  <2> HIDE DEF r, b
  <2> QED BY <1>1, <1>6, <2>1, WrittenQuiet
<1> QED BY <1>5, <1>6

\* An inline command that ends.
LEMMA ActEndsOne ==
  ASSUME LedgerInv, act.phase = "exec", NEW l, NEW r, NEW b, Written(l, r, b), act' = Idle, offs' = offs,
         \A j \in Keys : j # act.key => l[j] = ledger[j] /\ r[j] = ran[j],
         r[act.key] \in {ran[act.key], ran[act.key] - 1}, NEW k \in Keys
  PROVE  KeyStep(k)
<1>1. act.key \notin OffPass /\ \A o \in offs : o.key \in OffPass
  BY DEF LedgerInv, Executing, OffOK, Timely
<1>2. CASE k = act.key
  <2>1. Doing(k)
    BY <1>2 DEF Doing
  <2>2. ~Doing(k)'
    BY <1>1, <1>2 DEF Doing, Idle
  <2> QED BY <1>2, <2>1, <2>2, WrittenEnds
<1>3. CASE k # act.key
  <2>1. Doing(k)' <=> Doing(k)
    BY <1>3 DEF Doing, Idle
  <2> QED BY <1>3, <2>1, WrittenQuiet
<1> QED BY <1>2, <1>3

LEMMA RecordEnds ==
  ASSUME LedgerInv, NEW status \in {"done", "failed"}, NEW noRetry \in BOOLEAN,
         Record(status, noRetry), NEW k \in Keys
  PROVE  KeyStep(k)
<1> DEFINE l == Finished(act.key, status, noRetry, now, begun[act.key])
<1>1. Written(l, ran, begun) /\ \A j \in Keys : j # act.key => l[j] = ledger[j]
  BY RecordWrites
<1> HIDE DEF l
<1>2. act.phase = "exec" /\ act' = Idle /\ offs' = offs
  BY DEF Record
<1> QED BY <1>1, <1>2, ActEndsOne

LEMMA SkippedEnds ==
  ASSUME LedgerInv, RecordSkipped, NEW k \in Keys
  PROVE  KeyStep(k)
<1> DEFINE l == Unstart(act.key, act.prev)
           r == [ran EXCEPT ![act.key] = @ - 1]
           b == [begun EXCEPT ![act.key] = @ - 1]
<1>1. /\ Written(l, r, b) /\ r[act.key] = ran[act.key] - 1
      /\ \A j \in Keys : j # act.key => l[j] = ledger[j] /\ r[j] = ran[j]
  BY SkippedWrites
<1> HIDE DEF l, r, b
<1>2. act.phase = "exec" /\ act' = Idle /\ offs' = offs
  BY DEF RecordSkipped
<1> QED BY <1>1, <1>2, ActEndsOne

\* No other command of the key runs, so its key has none left.
LEMMA OffEndsOne ==
  ASSUME LedgerInv, NEW o \in offs, OffEnds(o), NEW k \in Keys
  PROVE  KeyStep(k)
<1>1. PICK p : p = [o EXCEPT !.runs = FALSE, !.at = now]
  OBVIOUS
<1>2. ~p.runs
  BY <1>1, InvTypes DEF Off
<1>3. o.runs /\ offs' = (offs \ {o}) \cup {p} /\ act' = act /\ UNCHANGED <<ledger, stored, ran>>
  BY <1>1 DEF OffEnds
<1>4. Written(ledger, ran, begun)
  BY <1>3, NothingWritten
<1>5. \A q \in offs : q.runs /\ q.key = o.key => q = o
  BY <1>3, RunningIsCurrent DEF LedgerInv, Distinct, Current
<1>6. CASE k = o.key
  <2>1. Doing(k)
    BY <1>3, <1>6 DEF Doing
  <2>2. ~(act.phase = "exec" /\ act.key = k)
    BY <1>6 DEF LedgerInv, Executing, OffOK, Timely
  <2>3. ~Doing(k)'
    BY <1>2, <1>3, <1>5, <1>6, <2>2 DEF Doing
  <2> QED BY <1>4, <2>1, <2>3, WrittenEnds
<1>7. CASE k # o.key
  <2>1. Doing(k)' <=> Doing(k)
    BY <1>2, <1>3, <1>7 DEF Doing
  <2> QED BY <1>4, <2>1, WrittenQuiet
<1> QED BY <1>6, <1>7

LEMMA NothingOfOffLands ==
  ASSUME LedgerInv, NEW o \in offs, NEW status \in {"done", "failed"}, NEW noRetry \in BOOLEAN,
         OffLands(o, status, noRetry), NEW k \in Keys
  PROVE  KeyStep(k)
<1>1. PICK l : /\ Written(l, ran, begun)
               /\ \A j \in Keys : l[j] # ledger[j] => j = o.key /\ Current(o) /\ ~Runs(l, j)
  BY OffLandsWrites
<1>2. ~o.runs /\ offs' = offs \ {o} /\ act' = act
  BY DEF OffLands
<1>3. Doing(k)' <=> Doing(k)
  BY <1>2 DEF Doing
<1>4. Doing(k) => l[k] = ledger[k]
  <2>1. Current(o) => ~(act.phase = "exec" /\ act.key = o.key)
    BY DEF LedgerInv, Executing, OffOK, Timely
  <2>2. Current(o) => \A q \in offs : q.runs => q.key # o.key
    BY <1>2, RunningIsCurrent DEF LedgerInv, Distinct, Current
  <2> QED BY <1>1, <2>1, <2>2 DEF Doing
<1> QED BY <1>1, <1>3, <1>4, WrittenQuiet

LEMMA ReloadEnds ==
  ASSUME LedgerInv, Reload, NEW k \in Keys
  PROVE  KeyStep(k)
<1>1. ~Doing(k)'
  BY DEF Reload, Doing, Idle
<1>2. Written(OnLoad(stored), ran, begun)
  BY ReloadWrites
<1>3. CASE Doing(k)
  BY <1>1, <1>2, <1>3, WrittenEnds
<1>4. CASE ~Doing(k)
  BY <1>1, <1>2, <1>4, WrittenQuiet
<1> QED BY <1>3, <1>4

LEMMA RetryClears ==
  ASSUME LedgerInv, NEW j \in Keys, Retry(j), NEW k \in Keys
  PROVE  KeyStep(k)
<1> DEFINE l == [ledger EXCEPT ![j].attempts = 0]
           r == [ran EXCEPT ![j] = 0]
<1>1. /\ Written(l, r, begun) /\ ~Runs(ledger, j) /\ r[j] = 0
      /\ k # j => l[k] = ledger[k] /\ r[k] = ran[k]
  BY RetryWrites
<1> HIDE DEF l, r
<1>2. Doing(k)' <=> Doing(k)
  BY DEF Retry, Doing
<1>3. Doing(k) => k # j
  BY <1>1, DoingRuns
<1> QED BY <1>1, <1>2, <1>3, WrittenQuiet

LEMMA NothingElse ==
  ASSUME LedgerInv, UNCHANGED <<ledger, stored, act, offs, ran>>, NEW k \in Keys
  PROVE  KeyStep(k)
  BY NothingWritten, WrittenQuiet DEF Doing

LEMMA NextKeySteps ==
  ASSUME LedgerInv, Next, NEW k \in Keys
  PROVE  KeyStep(k)
<1>1. CASE Plan
  BY <1>1, NothingOfPlan
<1>2. CASE Hold \/ Tick
  BY <1>2, NothingElse DEF Hold, Tick
<1>3. CASE Refused
  BY <1>3, NothingOfRefused
<1>4. CASE Launch
  BY <1>4, LaunchBegins
<1>5. CASE RecordSkipped
  BY <1>5, SkippedEnds
<1>6. CASE Reload
  BY <1>6, ReloadEnds
<1>7. CASE \E j \in Keys : Start(j) \/ Retry(j)
  BY <1>7, NothingOfStart, RetryClears
<1>8. CASE \E status \in {"done", "failed"}, noRetry \in BOOLEAN : Record(status, noRetry)
  BY <1>8, RecordEnds
<1>9. ASSUME NEW o \in offs,
             \/ OffEnds(o)
             \/ \E status \in {"done", "failed"}, noRetry \in BOOLEAN : OffLands(o, status, noRetry)
      PROVE  KeyStep(k)
  BY <1>9, OffEndsOne, NothingOfOffLands
<1> QED BY <1>1, <1>2, <1>3, <1>4, <1>5, <1>6, <1>7, <1>8, <1>9 DEF Next

----------------------------------------------------------------------------
(* What the runs check, for every value of the constants *)

\* Memory and store hold entries, the pass one action at a time, and counts are numbers,
\* through every reload and failed save.
THEOREM TypeCorrect == Spec => []TypeOK
<1>1. LedgerInv => TypeOK
  BY DEF LedgerInv
<1> QED BY <1>1, Invariance, PTL

\* An entry's end is the latest attempt's or no command's: a completion that lands late
\* (act-off.ts, completeOff) ends nothing it did not begin.
THEOREM OwnResults == Spec => []OwnResult
<1>1. LedgerInv => OwnResult
  BY DEF LedgerInv, Books, Good, OwnResult
<1> QED BY <1>1, Invariance, PTL

\* A command that runs is in the store with its attempt counted (act.ts, actOne saves first),
\* so what loads the store after a crash counts it.
THEOREM CommandsInStore == Spec => []CommandInStore
<1>1. ASSUME LedgerInv, NEW k \in Keys, Doing(k)
      PROVE  Runs(stored, k) /\ stored[k].attempts >= ran[k]
  <2>1. Runs(stored, k)
    BY <1>1, DoingRuns
  <2>2. stored[k] \in Entry /\ ran[k] <= Att(stored[k])
    BY <1>1, <2>1, InvTypes, LedgerFields DEF Runs, Good
  <2>3. Att(stored[k]) = stored[k].attempts /\ stored[k].attempts \in Nat /\ ran[k] \in Nat
    BY <1>1, <2>2, EntryFields, InvTypes DEF Att
  <2> QED BY <2>1, <2>2, <2>3
<1>2. LedgerInv => CommandInStore
  BY <1>1 DEF CommandInStore
<1> QED BY <1>2, Invariance, PTL

\* One command of a key at a time, and no more than its attempts before they are cleared, for
\* any keys, attempts, backoff and timeouts, and any number of reloads and failed saves, while
\* what comes before a command fits the margin: Ledger implements Retries.
THEOREM Implementation == Spec => ImplementsRetries
<1>1. Init => R!Init
  BY DEF Init, Idle, Doing, R!Init
<1>2. LedgerInv /\ LedgerInv' /\ Next => R!Next
  BY NextKeySteps, KeySteps
<1>3. UNCHANGED vars => UNCHANGED <<ran, [k \in Keys |-> Doing(k)]>>
  BY DEF vars, Doing
<1>4. LedgerInv /\ LedgerInv' /\ [Next]_vars => [R!Next]_<<ran, [k \in Keys |-> Doing(k)]>>
  BY <1>2, <1>3
<1> QED BY <1>1, <1>4, Invariance, PTL DEF Spec, ImplementsRetries, R!Spec
============================================================================
