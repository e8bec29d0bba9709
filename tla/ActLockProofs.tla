--------------------------- MODULE ActLockProofs ---------------------------
(* Proofs about ActLock: the type invariant; that the act lock lets one      *)
(* session run a step at a time, for any number of sessions and any lease    *)
(* longer than a step, while session.end finds no pass in progress; and that *)
(* the session that acts has the whole ledger and no entry is written over,  *)
(* when none of the races the module names happens.                          *)
EXTENDS ActLock, TLAPS

----------------------------------------------------------------------------
(* The records the variables hold, and what an update of a field keeps *)

LEMMA LiveFields ==
  /\ Unloaded \in LiveType
  /\ \A d \in SUBSET Nat, b \in LockText :
       [ledger |-> d, loaded |-> TRUE, basis |-> b] \in LiveType
  /\ \A r \in LiveType : /\ r.ledger \in SUBSET Nat /\ r.loaded \in BOOLEAN /\ r.basis \in LockText
                         /\ \A d \in SUBSET Nat : [r EXCEPT !.ledger = d] \in LiveType
  BY DEF Unloaded, LiveType, LockText

LEMMA LoadFields ==
  /\ NoLoad \in LoadType
  /\ \A r \in LoadType : r.basis \in LockText
  /\ \A b \in LockText : [busy |-> TRUE, basis |-> b] \in LoadType
  BY DEF NoLoad, LoadType, LockText

LEMMA SaveFields ==
  /\ Quiet \in SaveType
  /\ \A d \in SUBSET Nat : [asked |-> FALSE, busy |-> TRUE, snap |-> d] \in SaveType
  /\ \A r \in SaveType :
       /\ r.snap \in SUBSET Nat /\ r.asked \in BOOLEAN
       /\ \A a \in BOOLEAN : [r EXCEPT !.asked = a] \in SaveType
       /\ [r EXCEPT !.busy = FALSE, !.snap = {}] \in SaveType
  BY DEF Quiet, SaveType

LEMMA PassFields ==
  /\ Idle \in PassType
  /\ \A r \in PassType :
       /\ r.at \in Places /\ r.since \in Nat /\ r.entry \in Nat
       /\ r.holding \in BOOLEAN /\ r.new \in BOOLEAN
       /\ \A a \in Places : [r EXCEPT !.at = a] \in PassType
       /\ \A b \in BOOLEAN : [r EXCEPT !.holding = b] \in PassType
       /\ \A a \in Places, n \in Nat : [r EXCEPT !.at = a, !.since = n] \in PassType
       /\ \A a \in Places, n \in Nat, b \in BOOLEAN :
            [r EXCEPT !.at = a, !.entry = n, !.new = b] \in PassType
       /\ \A a \in Places, n, m \in Nat, b \in BOOLEAN :
            [r EXCEPT !.at = a, !.since = n, !.entry = m, !.new = b] \in PassType
  /\ \A a \in Places, b \in BOOLEAN :
       /\ [Idle EXCEPT !.at = a] \in PassType
       /\ [Idle EXCEPT !.at = a, !.holding = b] \in PassType
  BY DEF Idle, PassType, Places

\* What the updates of a pass leave in the fields the invariant reads.
LEMMA PassValues ==
  /\ Idle.at = "idle" /\ Idle.since = 0
  /\ \A a \in Places : [Idle EXCEPT !.at = a].at = a
  /\ \A a \in Places, b \in BOOLEAN : [Idle EXCEPT !.at = a, !.holding = b].at = a
  /\ \A r \in PassType :
       /\ \A a \in Places : [r EXCEPT !.at = a].at = a /\ [r EXCEPT !.at = a].since = r.since
       /\ \A b \in BOOLEAN : /\ [r EXCEPT !.holding = b].at = r.at
                            /\ [r EXCEPT !.holding = b].since = r.since
       /\ \A a \in Places, n \in Nat : LET q == [r EXCEPT !.at = a, !.since = n] IN
            q.at = a /\ q.since = n
       /\ \A a \in Places, n \in Nat, b \in BOOLEAN :
            LET q == [r EXCEPT !.at = a, !.entry = n, !.new = b] IN q.at = a /\ q.since = r.since
       /\ \A a \in Places, n, m \in Nat, b \in BOOLEAN :
            [r EXCEPT !.at = a, !.since = n, !.entry = m, !.new = b].at = a
  BY DEF Idle, PassType, Places

LEMMA OpFields ==
  /\ NoOp \in OpType
  /\ \A r \in OpType :
       /\ r.now \in Nat /\ r.read \in LockText /\ r.for \in Fors
       /\ \A l \in LockText : [r EXCEPT !.stage = "write", !.read = l] \in OpType
       /\ \A w \in Results : [r EXCEPT !.stage = "back", !.wrote = w] \in OpType
  /\ \A f \in Fors, n \in Nat :
       [NoOp EXCEPT !.stage = "read", !.for = f, !.now = n] \in OpType
  BY DEF NoOp, OpType, Fors, Results, LockText

\* What the updates of a lock operation leave in its fields.
LEMMA OpValues ==
  /\ NoOp.stage = "none"
  /\ \A f \in Fors, n \in Nat : LET q == [NoOp EXCEPT !.stage = "read", !.for = f, !.now = n] IN
       q.stage = "read" /\ q.for = f /\ q.now = n
  /\ \A r \in OpType, l \in LockText : LET q == [r EXCEPT !.stage = "write", !.read = l] IN
       q.stage = "write" /\ q.for = r.for /\ q.now = r.now /\ q.read = l
  /\ \A r \in OpType, w \in Results : LET q == [r EXCEPT !.stage = "back", !.wrote = w] IN
       q.stage = "back" /\ q.for = r.for /\ q.now = r.now /\ q.wrote = w /\ q.read = r.read
  BY DEF NoOp, OpType

\* One session's one lock operation changes, and no other.
LEMMA OneOp ==
  ASSUME TypeOK, NEW s \in Sessions, NEW k \in Slots, NEW x,
         op' = [op EXCEPT ![s][k] = x]
  PROVE  /\ op[s][k] \in OpType
         /\ op'[s][k] = x
         /\ \A t \in Sessions, j \in Slots : t # s \/ j # k => op'[t][j] = op[t][j]
  BY DEF TypeOK

LEMMA LeaseFields ==
  /\ \A s \in Sessions, t \in Nat : Renewed(s, t) \in Lease
  /\ \A l \in Lease : l.session \in Sessions /\ l.expiresAt \in Nat
  /\ \A l \in Lease, t \in Nat : Released(l, t) \in Lease
  /\ NoLease \notin Lease
  /\ LockText = Lease \cup {NoLease}
  BY NoLeaseAssumption, LeaseAssumption DEF Lease, LockText, Renewed, Released

----------------------------------------------------------------------------
(* Types *)

\* What a lock operation that ends leaves behind is well typed.
LEMMA FinishType ==
  ASSUME TypeOK, NEW s \in Sessions, NEW k \in Slots, NEW held, NEW took,
         Finish(s, k, held, took),
         UNCHANGED <<now, lock, store, issued, loading, save>>, raced' \subseteq Races
  PROVE  TypeOK'
<1>1. op' \in [Sessions -> [Slots -> OpType]]
  BY OpFields DEF Finish, TypeOK
<1>2. op[s][k].now \in Nat
  <2>1. op[s][k] \in OpType
    BY DEF TypeOK
  <2>2. QED
    BY <2>1, OpFields
<1>3. live' \in [Sessions -> LiveType]
  BY LiveFields DEF Finish, LetGo, TypeOK
<1>4. {"load", "entry", "idle"} \subseteq Places
  BY DEF Places
<1>5. pass' \in [Sessions -> PassType]
  <2>1. \/ pass' = pass
        \/ \E a \in Places : pass' = [pass EXCEPT ![s] = [Idle EXCEPT !.at = a]]
        \/ pass' = [pass EXCEPT ![s] = Idle]
        \/ pass' = [pass EXCEPT ![s] = [@ EXCEPT !.at = "entry", !.since = op[s][k].now]]
        \/ pass' = [pass EXCEPT ![s].holding = FALSE]
    BY <1>4 DEF Finish
  <2>2. pass[s] \in PassType
    BY DEF TypeOK
  <2>3. CASE pass' = pass
    BY <2>3 DEF TypeOK
  <2>4. CASE \E a \in Places : pass' = [pass EXCEPT ![s] = [Idle EXCEPT !.at = a]]
    BY <2>4, PassFields DEF TypeOK
  <2>5. CASE pass' = [pass EXCEPT ![s] = Idle]
    BY <2>5, PassFields DEF TypeOK
  <2>6. CASE pass' = [pass EXCEPT ![s] = [@ EXCEPT !.at = "entry", !.since = op[s][k].now]]
    BY <1>2, <1>4, <2>2, <2>6, PassFields DEF TypeOK
  <2>7. CASE pass' = [pass EXCEPT ![s].holding = FALSE]
    BY <2>2, <2>7, PassFields DEF TypeOK
  <2>8. QED
    BY <2>1, <2>3, <2>4, <2>5, <2>6, <2>7
<1>6. life' \in [Sessions -> {"up", "ending", "ended"}]
  BY DEF Finish, TypeOK
<1>7. QED
  BY <1>1, <1>3, <1>5, <1>6 DEF TypeOK

\* A lock operation that begins is well typed.
LEMMA BeginType ==
  ASSUME TypeOK, NEW s \in Sessions, NEW k \in Slots, NEW for \in Fors, Begin(s, k, for)
  PROVE  op' \in [Sessions -> [Slots -> OpType]]
  BY OpFields DEF Begin, TypeOK

\* What a session does in a step.
Acts(s) == MayRace(s) \/ SessionStep(s)

LEMMA NextActs ==
  ASSUME [Next]_vars PROVE Tick \/ (\E s \in Sessions : Acts(s)) \/ UNCHANGED vars
BY DEF Next, Acts

\* A race that took place stays in the history, and only those admitted take place.
LEMMA RacesStay ==
  ASSUME TypeOK, [Next]_vars PROVE raced \subseteq raced' /\ raced' \subseteq Races
<1>1. ASSUME NEW R, Run(R) PROVE raced \subseteq raced' /\ raced' \subseteq Races
  BY <1>1 DEF Run, TypeOK
<1>2. CASE Tick
  BY <1>1, <1>2 DEF Tick
<1>3. ASSUME NEW s \in Sessions, MayRace(s) PROVE raced \subseteq raced' /\ raced' \subseteq Races
  BY <1>1, <1>3 DEF MayRace, OpWrite, LoadStart, SaveCheck, End
<1>4. CASE UNCHANGED raced
  BY <1>4 DEF TypeOK
<1>5. QED
  BY <1>2, <1>3, <1>4 DEF Next, vars

\* A release about to write read a lease, so what it writes is one.
ReleasesALease ==
  \A s \in Sessions, k \in Slots :
    op[s][k].stage = "write" /\ op[s][k].for = "release" => op[s][k].read \in Lease

LEMMA ReleasesStep == TypeOK /\ ReleasesALease /\ [Next]_vars => ReleasesALease'
<1> SUFFICES ASSUME TypeOK, ReleasesALease, [Next]_vars PROVE ReleasesALease'
  OBVIOUS
<1>1. CASE op' = op
  BY <1>1 DEF ReleasesALease
<1>2. ASSUME NEW s \in Sessions, NEW k \in Slots, NEW x,
             op' = [op EXCEPT ![s][k] = x],
             x.stage = "write" /\ x.for = "release" => x.read \in Lease
      PROVE  ReleasesALease'
  BY <1>2, OneOp DEF ReleasesALease
<1>a. ASSUME NEW s \in Sessions, NEW k \in Slots, NEW f \in Fors, Begin(s, k, f)
      PROVE  ReleasesALease'
  <2> DEFINE x == [NoOp EXCEPT !.stage = "read", !.for = f, !.now = now]
  <2>1. op' = [op EXCEPT ![s][k] = x]
    BY <1>a DEF Begin
  <2>2. x.stage = "read"
    BY OpValues DEF TypeOK
  <2> HIDE DEF x
  <2>3. QED
    BY <1>2, <2>1, <2>2
<1>3. ASSUME NEW s \in Sessions, NEW k \in Slots, OpRead(s, k) PROVE ReleasesALease'
  <2>1. CASE op' = [op EXCEPT ![s][k] = NoOp]
    BY <1>2, <2>1, OpValues
  <2>2. CASE op' = [op EXCEPT ![s][k] = [@ EXCEPT !.stage = "write", !.read = lock]]
             /\ (op[s][k].for = "release" => Own(lock, s))
    <3>1. op[s][k].for = "release" => lock \in Lease
      BY <2>2, LeaseFields DEF Own, TypeOK
    <3>2. lock \in LockText /\ op[s][k] \in OpType
      BY DEF TypeOK
    <3> DEFINE x == [op[s][k] EXCEPT !.stage = "write", !.read = lock]
    <3>3. op' = [op EXCEPT ![s][k] = x]
      BY <2>2
    <3>4. x.for = op[s][k].for /\ x.read = lock
      BY <3>2, OpValues
    <3> HIDE DEF x
    <3>5. QED
      BY <1>2, <3>1, <3>3, <3>4
  <2>3. QED
    BY <1>3, <2>1, <2>2 DEF OpRead, Finish
<1>b. ASSUME NEW s \in Sessions, NEW k \in Slots, OpWrite(s, k) PROVE ReleasesALease'
  <2>1. PICK w \in Results : op' = [op EXCEPT ![s][k] = [@ EXCEPT !.stage = "back", !.wrote = w]]
    BY <1>b DEF OpWrite, Results
  <2> DEFINE x == [op[s][k] EXCEPT !.stage = "back", !.wrote = w]
  <2>2. op' = [op EXCEPT ![s][k] = x]
    BY <2>1
  <2>3. op[s][k] \in OpType
    BY DEF TypeOK
  <2>4. x.stage = "back"
    BY <2>3, OpValues
  <2> HIDE DEF x
  <2>5. QED
    BY <1>2, <2>2, <2>4
<1>4. ASSUME NEW s \in Sessions, Crash(s) PROVE ReleasesALease'
  BY <1>4 DEF Crash, ReleasesALease, TypeOK, NoOp
<1>5. ASSUME NEW s \in Sessions, Acts(s) PROVE ReleasesALease'
  <2>1. CASE \E k \in Slots : OpRead(s, k)
    BY <2>1, <1>3
  <2>2. CASE \E k \in Slots : OpWrite(s, k)
    BY <2>2, <1>b
  <2>3. CASE \E k \in Slots : OpBack(s, k)
    <3>1. PICK k \in Slots : op' = [op EXCEPT ![s][k] = NoOp]
      BY <2>3 DEF OpBack, Finish
    <3>2. QED
      BY <1>2, <3>1, OpValues
  <2>4. CASE PassStart(s) \/ RenewStart(s) \/ End(s)
    BY <2>4, <1>a DEF PassStart, RenewStart, End, Slots, Fors
  <2>5. CASE TimerRenew(s)
    BY <2>5, <1>1, <1>a DEF TimerRenew, Slots, Fors
  <2>6. CASE \/ LoadStart(s) \/ LoadDone(s) \/ LoadFail(s) \/ HookMoves(s)
             \/ SaveCheck(s) \/ SaveRefused(s) \/ SaveLand(s) \/ SaveFail(s)
             \/ Loaded(s) \/ AskRenew(s) \/ Start(s) \/ StepDone(s) \/ PassEnd(s)
    BY <2>6, <1>1 DEF LoadStart, LoadDone, LoadFail, HookMoves, SaveCheck, SaveRefused,
       SaveLand, SaveFail, Loaded, AskRenew, Start, StepDone, PassEnd
  <2>7. QED
    BY <1>4, <1>5, <2>1, <2>2, <2>3, <2>4, <2>5, <2>6 DEF Acts, MayRace, SessionStep
<1>6. QED
  BY <1>1, <1>5, NextActs DEF Tick, vars

\* Every step keeps the types.
LEMMA TypeStep == TypeOK /\ ReleasesALease /\ [Next]_vars => TypeOK'
<1> SUFFICES ASSUME TypeOK, ReleasesALease, [Next]_vars PROVE TypeOK'
  OBVIOUS
<1> USE RacesStay DEF TypeOK
<1>P. Places = {"idle", "rails", "load", "plan", "renew", "renewing", "entry", "saving",
                "landing", "exec"}
  BY DEF Places
<1>1. CASE Tick
  BY <1>1 DEF Tick
<1>2. ASSUME NEW s \in Sessions, Acts(s) PROVE TypeOK'
  <2>1. ASSUME NEW k \in Slots, OpRead(s, k) PROVE TypeOK'
    <3>1. CASE Finish(s, k, FALSE, FALSE)
      BY <2>1, <3>1, FinishType DEF OpRead
    <3>2. CASE /\ op' = [op EXCEPT ![s][k] = [@ EXCEPT !.stage = "write", !.read = lock]]
               /\ UNCHANGED <<live, pass, life>>
      <4>1. op' \in [Sessions -> [Slots -> OpType]]
        BY <3>2, OpFields, k \in Slots
      <4>2. QED
        BY <2>1, <3>2, <4>1 DEF OpRead
    <3>3. QED
      BY <2>1, <3>1, <3>2 DEF OpRead
  <2>2. ASSUME NEW k \in Slots, OpWrite(s, k) PROVE TypeOK'
    <3>1. PICK r \in {"written", "changed", "failed"} :
            /\ op' = [op EXCEPT ![s][k] = [@ EXCEPT !.stage = "back", !.wrote = r]]
            /\ \/ lock' = NewText(s, op[s][k])
               \/ lock' = lock
      BY <2>2 DEF OpWrite
    <3>a. op[s][k].for = "release" => op[s][k].read \in Lease
      BY <2>2 DEF OpWrite, ReleasesALease
    <3>2. op' \in [Sessions -> [Slots -> OpType]]
      BY <3>1, OpFields DEF Results
    <3>3. op[s][k] \in OpType
      OBVIOUS
    <3>4. lock' \in LockText
      <4>1. CASE lock' = lock
        BY <4>1
      <4>2. CASE lock' = Released(op[s][k].read, op[s][k].now) /\ op[s][k].read \in Lease
        BY <3>3, <4>2, OpFields, LeaseFields
      <4>3. CASE lock' = Renewed(s, op[s][k].now)
        BY <3>3, <4>3, OpFields, LeaseFields
      <4>4. QED
        BY <3>1, <3>a, <4>1, <4>2, <4>3 DEF NewText
    <3>5. QED
      BY <2>2, <3>2, <3>4 DEF OpWrite
  <2>3. ASSUME NEW k \in Slots, OpBack(s, k) PROVE TypeOK'
    BY <2>3, FinishType DEF OpBack
  <2>4. CASE LoadStart(s)
    BY <2>4, PassFields, LoadFields DEF LoadStart
  <2>5. CASE LoadDone(s)
    BY <2>5, LiveFields, LoadFields, SaveFields DEF LoadDone
  <2>6. CASE LoadFail(s)
    BY <2>6, PassFields, LoadFields DEF LoadFail
  <2>7. CASE HookMoves(s)
    <3>1. live[s].ledger \cup {issued + 1} \in SUBSET Nat
      BY LiveFields
    <3>2. QED
      BY <2>7, <3>1, LiveFields, SaveFields DEF HookMoves
  <2>8. CASE SaveCheck(s)
    BY <2>8, <1>P, LiveFields, SaveFields, PassFields DEF SaveCheck
  <2>9. CASE SaveRefused(s)
    BY <2>9, <1>P, LiveFields, SaveFields, PassFields DEF SaveRefused, LetGo
  <2>10. CASE SaveLand(s)
    BY <2>10, <1>P, SaveFields, PassFields DEF SaveLand
  <2>11. CASE SaveFail(s)
    <3>1. live[s].ledger \ {pass[s].entry} \in SUBSET Nat
      BY LiveFields
    <3>2. live' \in [Sessions -> LiveType]
      <4>1. PICK d \in SUBSET Nat : live' = [live EXCEPT ![s].ledger = d] \/ live' = live
        BY <2>11, <3>1, LiveFields DEF SaveFail, Unstart
      <4>2. CASE live' = live
        BY <4>2
      <4>3. CASE live' = [live EXCEPT ![s].ledger = d]
        BY <4>3, LiveFields
      <4>4. QED
        BY <4>1, <4>2, <4>3
    <3>3. pass' \in [Sessions -> PassType]
      <4>1. CASE pass' = pass
        BY <4>1
      <4>2. CASE pass' = [pass EXCEPT ![s] = [@ EXCEPT !.at = "plan", !.since = 0, !.entry = 0,
                                                         !.new = FALSE]]
        BY <4>2, <1>P, PassFields
      <4>3. QED
        BY <2>11, <4>1, <4>2 DEF SaveFail, Unstart
    <3>4. save' \in [Sessions -> SaveType]
      BY <2>11, SaveFields DEF SaveFail
    <3>5. QED
      BY <2>11, <3>2, <3>3, <3>4 DEF SaveFail
  <2>12. CASE PassStart(s)
    BY <2>12, <1>P, BeginType, PassFields DEF PassStart, Slots, Fors
  <2>13. CASE Loaded(s)
    BY <2>13, <1>P, PassFields DEF Loaded
  <2>14. CASE AskRenew(s)
    <3>1. pass' \in [Sessions -> PassType]
      <4>1. CASE pass' = [pass EXCEPT ![s].at = "renew"]
        BY <4>1, <1>P, PassFields
      <4>2. CASE pass' = [pass EXCEPT ![s] = Idle]
        BY <4>2, PassFields
      <4>3. QED
        BY <2>14, <4>1, <4>2 DEF AskRenew
    <3>2. live' \in [Sessions -> LiveType]
      BY <2>14, LiveFields DEF AskRenew, LetGo
    <3>3. QED
      BY <2>14, <3>1, <3>2 DEF AskRenew
  <2>15. CASE RenewStart(s)
    BY <2>15, <1>P, BeginType, PassFields DEF RenewStart, Slots, Fors
  <2>16. CASE TimerRenew(s)
    <3>1. pass' \in [Sessions -> PassType]
      BY <2>16, PassFields DEF TimerRenew
    <3>2. op' \in [Sessions -> [Slots -> OpType]]
      BY <2>16, BeginType DEF TimerRenew, Slots, Fors
    <3>3. live' = live
      BY <2>16 DEF TimerRenew
    <3>4. QED
      BY <2>16, <3>1, <3>2, <3>3 DEF TimerRenew
  <2>17. CASE Start(s)
    <3>1. CASE ~(pass[s].holding /\ live[s].loaded)
      <4>1. pass' = [pass EXCEPT ![s] = [@ EXCEPT !.at = "plan", !.since = 0]]
            /\ UNCHANGED <<issued, live, save>>
        BY <2>17, <3>1 DEF Start
      <4>2. pass' \in [Sessions -> PassType]
        BY <4>1, <1>P, PassFields
      <4>3. QED
        BY <2>17, <4>1, <4>2 DEF Start
    <3>2. CASE pass[s].holding /\ live[s].loaded
      <4>1. PICK e \in live[s].ledger \cup (IF issued < MaxEntries THEN {issued + 1} ELSE {}),
                 new \in BOOLEAN :
              /\ issued' = IF new THEN e ELSE issued
              /\ pass' = [pass EXCEPT ![s] = [@ EXCEPT !.at = "saving", !.entry = e, !.new = new]]
              /\ live' = [live EXCEPT ![s].ledger = @ \cup {e}]
              /\ save' = [save EXCEPT ![s].asked = TRUE]
        BY <2>17, <3>2 DEF Start
      <4>2. e \in Nat /\ live[s].ledger \cup {e} \in SUBSET Nat
        BY LiveFields
      <4>3. pass' \in [Sessions -> PassType]
        BY <4>1, <4>2, <1>P, PassFields
      <4>4. live' \in [Sessions -> LiveType] /\ save' \in [Sessions -> SaveType]
        BY <4>1, <4>2, LiveFields, SaveFields
      <4>5. issued' \in Nat
        BY <4>1, <4>2
      <4>6. QED
        BY <2>17, <4>3, <4>4, <4>5 DEF Start
    <3>3. QED
      BY <3>1, <3>2
  <2>18. CASE StepDone(s)
    BY <2>18, <1>P, PassFields, SaveFields DEF StepDone
  <2>19. CASE PassEnd(s)
    BY <2>19, PassFields DEF PassEnd
  <2>20. CASE End(s)
    BY <2>20, BeginType DEF End, Slots, Fors
  <2>21. CASE Crash(s)
    BY <2>21, LiveFields, LoadFields, SaveFields, PassFields, OpFields DEF Crash
  <2>22. QED
    BY <1>2, <2>1, <2>2, <2>3, <2>4, <2>5, <2>6, <2>7, <2>8, <2>9, <2>10, <2>11, <2>12,
       <2>13, <2>14, <2>15, <2>16, <2>17, <2>18, <2>19, <2>20, <2>21 DEF Acts, MayRace, SessionStep
<1>3. CASE UNCHANGED vars
  BY <1>3 DEF vars
<1>4. QED
  BY <1>1, <1>2, <1>3, NextActs

\* Every variable of the lock and the ledger keeps its type.
THEOREM TypeCorrect == Spec => []TypeOK
<1>1. Init => TypeOK
  <2> SUFFICES ASSUME Init PROVE TypeOK
    OBVIOUS
  <2>1. live \in [Sessions -> LiveType] /\ loading \in [Sessions -> LoadType]
    BY LiveFields, LoadFields DEF Init
  <2>2. save \in [Sessions -> SaveType] /\ pass \in [Sessions -> PassType]
    BY SaveFields, PassFields DEF Init
  <2>3. op \in [Sessions -> [Slots -> OpType]]
    BY OpFields DEF Init
  <2>4. QED
    BY <2>1, <2>2, <2>3, LeaseFields DEF Init, TypeOK
<1>2. Init => ReleasesALease
  BY DEF Init, ReleasesALease, NoOp
<1>3. QED
  BY <1>1, <1>2, TypeStep, ReleasesStep, PTL DEF Spec

----------------------------------------------------------------------------
(* One actor *)

Core == OpsKnow /\ OpsOfRenewal /\ EndedIdle /\ StepsCovered

\* A pass that moves without a lock operation keeps the invariant: it leaves no
\* operation of its own behind, and steps only on the renewal it stepped on.
LEMMA PassMoves ==
  ASSUME TypeOK, Core, NEW s \in Sessions, NEW x, pass' = [pass EXCEPT ![s] = x],
         UNCHANGED <<now, lock, life, op>>,
         x.at = pass[s].at \/ pass[s].at \notin {"rails", "renewing"},
         x.at \in {"entry", "saving", "landing", "exec"} =>
           Stepping(s) /\ x.since = pass[s].since,
         pass[s].at = "idle" => x.at = "idle"
  PROVE  Core'
<1>1. pass'[s] = x /\ \A t \in Sessions : t # s => pass'[t] = pass[t]
  BY DEF TypeOK
<1>2. OpsKnow'
  BY <1>1 DEF Core, OpsKnow, OpKnows, Own, Refuses, Others
<1>3. OpsOfRenewal'
  BY DEF Core, OpsOfRenewal, Own
<1>4. EndedIdle'
  BY <1>1 DEF Core, EndedIdle
<1>5. StepsCovered'
  BY <1>1 DEF Core, StepsCovered, Stepping, Own
<1>6. QED
  BY <1>2, <1>3, <1>4, <1>5 DEF Core

\* A lock operation that begins.
LEMMA OpBegins ==
  ASSUME TypeOK, Core, NEW s \in Sessions, NEW k \in Slots, NEW f \in Fors, Begin(s, k, f),
         UNCHANGED <<now, lock>>,
         op[s][k].stage = "none",
         NEW p, p.at = pass[s].at \/ pass[s].at \notin {"rails", "renewing"},
         p.since = pass[s].since,
         pass' = [pass EXCEPT ![s] = p],
         p.at \in {"entry", "saving", "landing", "exec"} => Stepping(s) /\ f = "timer",
         (f = "rails") = (k = "rails"),
         f = "rails" => p.at = "rails",
         f = "action" => p.at = "renewing",
         f = "release" => life[s] = "up" /\ life' = [life EXCEPT ![s] = "ending"] /\ p.at = "idle",
         f # "release" => life' = life,
         life[s] # "up" => p.at = "idle"
  PROVE  Core'
<1> DEFINE x == [NoOp EXCEPT !.stage = "read", !.for = f, !.now = now]
<1>1. op' = [op EXCEPT ![s][k] = x]
  BY DEF Begin
<1>2. x.stage = "read" /\ x.for = f /\ x.now = now
  BY OpValues DEF TypeOK
<1>3. now \in Nat /\ StepMs \in Nat
  BY LeaseAssumption DEF TypeOK
<1> HIDE DEF x
<1>4. op'[s][k] = x /\ \A t \in Sessions, j \in Slots : t # s \/ j # k => op'[t][j] = op[t][j]
  BY <1>1 DEF TypeOK
<1>5. pass'[s] = p /\ \A t \in Sessions : t # s => pass'[t] = pass[t]
  BY DEF TypeOK
<1>6. \A t \in Sessions : t # s => life'[t] = life[t]
  BY DEF TypeOK
<1>7. OpsKnow'
  <2> SUFFICES ASSUME NEW t \in Sessions, NEW j \in Slots, op'[t][j].stage # "none"
               PROVE  OpKnows(t, j)'
    BY DEF OpsKnow
  <2>1. CASE t = s /\ j = k
    <3>1. life[s] \in {"up", "ending", "ended"} /\ (f = "release" => life'[s] = "ending")
      BY DEF TypeOK
    <3>2. QED
      BY <2>1, <3>1, <1>2, <1>3, <1>4, <1>5 DEF OpKnows
  <2>2. CASE t # s
    BY <2>2, <1>4, <1>5, <1>6 DEF Core, OpsKnow, OpKnows, Own, Refuses, Others
  <2>3. CASE t = s /\ j # k
    <3>1. op'[t][j] = op[t][j] /\ op[t][j].stage # "none" /\ OpKnows(t, j)
      BY <2>3, <1>4 DEF Core, OpsKnow
    <3>2. op[t][j].for = "release" => life[s] = "ending" /\ f # "release"
      BY <2>3, <3>1 DEF OpKnows
    <3>3. op[t][j].for = "rails" => pass[s].at = "rails" /\ p.at = "rails"
      BY <2>3, <3>1 DEF OpKnows
    <3>4. op[t][j].for = "action" => pass[s].at = "renewing" /\ p.at = "renewing"
      BY <2>3, <3>1 DEF OpKnows
    <3>5. QED
      BY <2>3, <3>1, <3>2, <3>3, <3>4, <1>5 DEF OpKnows, Own, Refuses, Others
  <2>4. QED
    BY <2>1, <2>2, <2>3
<1>8. OpsOfRenewal'
  BY <1>2, <1>4 DEF Core, OpsOfRenewal, Own, Slots
<1>9. EndedIdle'
  BY <1>5, <1>6 DEF Core, EndedIdle, TypeOK
<1>10. StepsCovered'
  BY <1>2, <1>4, <1>5 DEF Core, StepsCovered, Stepping, Own, Slots
<1>11. QED
  BY <1>7, <1>8, <1>9, <1>10 DEF Core

\* An operation that read the lock and goes on to write.
LEMMA OpReads ==
  ASSUME TypeOK, Core, NEW s \in Sessions, NEW k \in Slots, op[s][k].stage = "read",
         op[s][k].for = "release" => Own(lock, s),
         op[s][k].for # "release" => ~Refuses(lock, s, op[s][k].now),
         NEW x, op' = [op EXCEPT ![s][k] = x],
         x.stage = "write", x.for = op[s][k].for, x.now = op[s][k].now, x.read = lock,
         UNCHANGED <<now, lock, life, pass>>
  PROVE  Core'
<1>1. op'[s][k] = x /\ \A t \in Sessions, j \in Slots : t # s \/ j # k => op'[t][j] = op[t][j]
  BY DEF TypeOK
<1>2. OpsKnow'
  BY <1>1 DEF Core, OpsKnow, OpKnows, Own, Refuses, Others
<1>3. OpsOfRenewal'
  BY <1>1 DEF Core, OpsOfRenewal, Own, Slots
<1>4. EndedIdle'
  BY DEF Core, EndedIdle
<1>5. StepsCovered'
  BY <1>1 DEF Core, StepsCovered, Stepping, Own, Slots
<1>6. QED
  BY <1>2, <1>3, <1>4, <1>5 DEF Core

\* The lease of a session that steps is not written over by another's operation:
\* what that one read had run out, and the step's lease outlives its clock.
LEMMA NoTheft ==
  ASSUME TypeOK, Core, NEW s \in Sessions, NEW k \in Slots, op[s][k].stage = "write",
         lock = op[s][k].read, NEW t \in Sessions, t # s
  PROVE  ~Stepping(t)
<1> SUFFICES ASSUME Stepping(t) PROVE FALSE
  OBVIOUS
<1>1. Own(lock, t) /\ pass[t].since + LeaseMs <= lock.expiresAt /\ now <= pass[t].since + StepMs
  BY DEF Core, StepsCovered
<1>2. op[s][k].now <= now
      /\ IF op[s][k].for = "release" THEN Own(lock, s) ELSE ~Refuses(lock, s, op[s][k].now)
  BY DEF Core, OpsKnow, OpKnows
<1>3. now \in Nat /\ op[s][k].now \in Nat /\ pass[t].since \in Nat /\ lock.expiresAt \in Nat
  <2>1. op[s][k] \in OpType /\ pass[t] \in PassType /\ lock \in Lease
    BY <1>1, LeaseFields DEF TypeOK, Own
  <2>2. QED
    BY <2>1, OpFields, PassFields, LeaseFields DEF TypeOK
<1>4. QED
  BY <1>1, <1>2, <1>3, LeaseAssumption DEF Own, Refuses, Others

\* The compare-and-set, landed or not.
LEMMA OpWrites ==
  ASSUME TypeOK, ReleasesALease, Core, NEW s \in Sessions, NEW k \in Slots, OpWrite(s, k)
  PROVE  Core'
<1>1. PICK w \in Results :
        /\ w # "no"
        /\ w = "written" => lock = op[s][k].read /\ lock' = NewText(s, op[s][k])
        /\ w = "changed" => lock # op[s][k].read /\ lock' = lock
        /\ op' = [op EXCEPT ![s][k] = [@ EXCEPT !.stage = "back", !.wrote = w]]
        /\ \/ lock = op[s][k].read /\ lock' = NewText(s, op[s][k])
           \/ lock' = lock
  BY DEF OpWrite, Results
<1> DEFINE x == [op[s][k] EXCEPT !.stage = "back", !.wrote = w]
<1>2. op' = [op EXCEPT ![s][k] = x]
  BY <1>1
<1>3. x.stage = "back" /\ x.for = op[s][k].for /\ x.now = op[s][k].now /\ x.wrote = w
  BY OpValues DEF TypeOK
<1> HIDE DEF x
<1>4. op'[s][k] = x /\ \A t \in Sessions, j \in Slots : t # s \/ j # k => op'[t][j] = op[t][j]
  BY <1>2 DEF TypeOK
<1>5. op[s][k].stage = "write" /\ UNCHANGED <<now, life, pass>>
  BY DEF OpWrite
<1>6. OpKnows(s, k)
  BY <1>5 DEF Core, OpsKnow
<1>7. lock' # lock => lock' = NewText(s, op[s][k]) /\ lock = op[s][k].read /\ Own(lock', s)
  <2>1. op[s][k] \in OpType
    BY DEF TypeOK
  <2>2. op[s][k].now \in Nat
    BY <2>1, OpFields
  <2>3. Own(Renewed(s, op[s][k].now), s)
    BY <2>2, LeaseFields DEF Own, Renewed
  <2>4. op[s][k].for = "release" => Own(Released(op[s][k].read, op[s][k].now), s)
    <3> SUFFICES ASSUME op[s][k].for = "release"
                 PROVE  Own(Released(op[s][k].read, op[s][k].now), s)
      OBVIOUS
    <3>1. op[s][k].read \in Lease /\ Own(op[s][k].read, s)
      BY <1>5, <1>6 DEF ReleasesALease, OpKnows
    <3>2. Released(op[s][k].read, op[s][k].now).session = op[s][k].read.session
      BY <3>1 DEF Released, Lease
    <3>3. QED
      BY <2>2, <3>1, <3>2, LeaseFields DEF Own
  <2>5. QED
    BY <1>1, <2>3, <2>4 DEF NewText
<1>8. OpsKnow'
  BY <1>3, <1>4, <1>5 DEF Core, OpsKnow, OpKnows, Own, Refuses, Others
<1>9. ASSUME NEW t \in Sessions, t # s PROVE Own(lock', t) => lock' = lock
  BY <1>7, <1>9 DEF Own
<1>10. OpsOfRenewal'
  <2> SUFFICES ASSUME NEW t \in Sessions, op'[t]["lockOp"].stage # "none",
                      op'[t]["lockOp"].for = "action", Own(lock', t)
               PROVE  LET o == op'[t]["lockOp"] IN
                      /\ o.stage = "write" => lock' = o.read
                      /\ o.stage = "back" => o.wrote # "changed"
                      /\ (o.stage = "back" /\ o.wrote = "written") =>
                           o.now + LeaseMs <= lock'.expiresAt
    BY DEF OpsOfRenewal
  <2>1. CASE t # s
    BY <2>1, <1>4, <1>9 DEF Core, OpsOfRenewal, Slots
  <2>2. CASE t = s /\ k = "rails"
    <3>1. op'[t]["lockOp"] = op[t]["lockOp"]
      BY <2>2, <1>4 DEF Slots
    <3>2. pass[s].at = "renewing" /\ pass[s].at = "rails"
      BY <2>2, <3>1, <1>5, <1>6 DEF Core, OpsKnow, OpKnows, Slots
    <3>3. QED
      BY <3>2
  <2>3. CASE t = s /\ k = "lockOp"
    <3>1. op'[t]["lockOp"] = x /\ op[s][k].for = "action"
      BY <2>3, <1>3, <1>4
    <3>2. w # "changed"
      BY <2>3, <3>1, <1>1, <1>5 DEF Core, OpsOfRenewal
    <3>3. w = "written" => x.now + LeaseMs <= lock'.expiresAt
      <4>1. op[s][k].now \in Nat
        <5>1. op[s][k] \in OpType
          BY DEF TypeOK
        <5>2. QED
          BY <5>1, OpFields
      <4>2. QED
        BY <3>1, <1>1, <1>3, <4>1, LeaseAssumption DEF NewText, Renewed
    <3>4. QED
      BY <3>1, <3>2, <3>3, <1>3
  <2>4. QED
    BY <2>1, <2>2, <2>3 DEF Slots
<1>11. EndedIdle'
  BY <1>5 DEF Core, EndedIdle
<1>12. StepsCovered'
  <2> SUFFICES ASSUME NEW t \in Sessions, Stepping(t)
               PROVE  /\ Own(lock', t) /\ pass[t].since + LeaseMs <= lock'.expiresAt
                      /\ op'[t]["lockOp"].stage # "none" =>
                           op'[t]["lockOp"].for = "timer" /\ pass[t].since <= op'[t]["lockOp"].now
    BY <1>5 DEF Core, StepsCovered, Stepping
  <2>1. /\ Own(lock, t) /\ pass[t].since + LeaseMs <= lock.expiresAt
        /\ op[t]["lockOp"].stage # "none" =>
             op[t]["lockOp"].for = "timer" /\ pass[t].since <= op[t]["lockOp"].now
    BY DEF Core, StepsCovered
  <2>2. op'[t]["lockOp"].stage # "none" =>
             op'[t]["lockOp"].for = "timer" /\ pass[t].since <= op'[t]["lockOp"].now
    BY <2>1, <1>3, <1>4, <1>5 DEF Slots
  <2>3. CASE lock' = lock
    BY <2>1, <2>2, <2>3
  <2>4. CASE lock' # lock
    <3>1. t = s
      BY <2>4, <1>5, <1>7, NoTheft
    <3>2. k = "lockOp" /\ op[s][k].for = "timer"
      BY <2>1, <3>1, <1>5, <1>6 DEF OpKnows, Slots, Stepping
    <3>3. lock' = Renewed(s, op[s][k].now) /\ Own(lock', s)
      BY <2>4, <3>2, <1>7 DEF NewText
    <3>4. pass[s].since <= op[s][k].now
      BY <2>1, <3>1, <3>2, <1>5
    <3>5. pass[s].since \in Nat /\ op[s][k].now \in Nat
      <4>1. op[s][k] \in OpType /\ pass[s] \in PassType
        BY DEF TypeOK
      <4>2. QED
        BY <4>1, OpFields, PassFields
    <3>6. lock'.expiresAt = op[s][k].now + LeaseMs
      BY <3>3 DEF Renewed
    <3>7. QED
      BY <2>2, <3>1, <3>3, <3>4, <3>5, <3>6, LeaseAssumption
  <2>5. QED
    BY <2>3, <2>4
<1>13. QED
  BY <1>8, <1>10, <1>11, <1>12 DEF Core

\* A lock operation that is over.
LEMMA Finishes ==
  ASSUME TypeOK, Core, NEW s \in Sessions, NEW k \in Slots, NEW held, NEW took,
         Finish(s, k, held, took), op[s][k].stage # "none",
         UNCHANGED <<now, lock>>,
         held /\ op[s][k].for = "action" => op[s][k].stage = "back" /\ Held(s, op[s][k])
  PROVE  Core'
<1>1. op' = [op EXCEPT ![s][k] = NoOp]
  BY DEF Finish
<1>2. op'[s][k].stage = "none" /\ \A t \in Sessions, j \in Slots : t # s \/ j # k => op'[t][j] = op[t][j]
  BY <1>1, OpValues DEF TypeOK
<1>3. OpKnows(s, k) /\ op[s][k] \in OpType /\ op[s][k].now \in Nat
  BY OpFields DEF Core, OpsKnow, TypeOK
<1>4. \A t \in Sessions : t # s => pass'[t] = pass[t] /\ life'[t] = life[t]
  BY DEF Finish, TypeOK
<1>5. OpsOfRenewal'
  BY <1>2 DEF Core, OpsOfRenewal, Slots
<1>6. CASE op[s][k].for = "release"
  <2>1. pass' = pass /\ life'[s] = "ended" /\ life[s] = "ending" /\ k = "lockOp"
    BY <1>3, <1>6 DEF Finish, TypeOK, OpKnows, Slots
  <2>2. OpsKnow'
    BY <2>1, <1>2, <1>4 DEF Core, OpsKnow, OpKnows, Own, Refuses, Others, Slots
  <2>3. EndedIdle'
    BY <2>1, <1>4 DEF Core, EndedIdle
  <2>4. StepsCovered'
    BY <2>1, <1>2 DEF Core, StepsCovered, Stepping, Own, Slots
  <2>5. QED
    BY <2>2, <2>3, <2>4, <1>5 DEF Core
<1>7. CASE op[s][k].for \in {"rails", "action", "timer"}
  <2>1. life' = life
    BY <1>7 DEF Finish
  <2>2. \/ pass'[s].at = pass[s].at /\ pass'[s].since = pass[s].since
           /\ op[s][k].for = "timer"
        \/ pass'[s].at \in {"load", "idle"} /\ op[s][k].for \in {"rails", "action"}
        \/ pass'[s].at = "entry" /\ pass'[s].since = op[s][k].now
           /\ op[s][k].for = "action" /\ held
    <3>1. pass[s] \in PassType
      BY DEF TypeOK
    <3>2. CASE op[s][k].for = "rails"
      BY <3>2 DEF Finish, TypeOK, Idle
    <3>3. CASE op[s][k].for = "action"
      <4>1. CASE pass' = [pass EXCEPT ![s] = Idle]
        BY <3>3, <4>1, PassValues DEF TypeOK
      <4>2. CASE held /\ pass' = [pass EXCEPT ![s] = [@ EXCEPT !.at = "entry", !.since = op[s][k].now]]
        <5> DEFINE q == [pass[s] EXCEPT !.at = "entry", !.since = op[s][k].now]
        <5>1. q.at = "entry" /\ q.since = op[s][k].now
          BY <3>1, <1>3, PassValues DEF Places
        <5>2. pass' = [pass EXCEPT ![s] = q]
          BY <4>2
        <5> HIDE DEF q
        <5>3. QED
          BY <3>3, <4>2, <5>1, <5>2 DEF TypeOK
      <4>3. QED
        BY <3>3, <4>1, <4>2 DEF Finish
    <3>4. CASE op[s][k].for = "timer"
      BY <3>1, <3>4 DEF Finish, TypeOK, PassType
    <3>5. QED
      BY <1>7, <3>2, <3>3, <3>4
  <2>3. op[s][k].for \in {"rails", "action"} => pass[s].at \in {"rails", "renewing"}
    BY <1>3 DEF OpKnows
  <2>4. OpsKnow'
    <3> SUFFICES ASSUME NEW t \in Sessions, NEW j \in Slots, op'[t][j].stage # "none"
                 PROVE  OpKnows(t, j)'
      BY DEF OpsKnow
    <3>1. op'[t][j] = op[t][j] /\ OpKnows(t, j) /\ (t # s \/ j # k)
      BY <1>2 DEF Core, OpsKnow
    <3>2. CASE t # s
      BY <3>1, <3>2, <2>1, <1>4 DEF OpKnows, Own, Refuses, Others
    <3>3. CASE t = s
      <4>1. /\ op[t][j].for = "rails" => pass'[s].at = "rails"
            /\ op[t][j].for = "action" => pass'[s].at = "renewing"
        BY <3>1, <3>3, <2>2, <1>3 DEF OpKnows, Slots
      <4>2. QED
        BY <3>1, <3>3, <4>1, <2>1 DEF OpKnows, Own, Refuses, Others
    <3>4. QED
      BY <3>2, <3>3
  <2>5. EndedIdle'
    <3>1. pass'[s].at = "entry" => life[s] = "up"
      BY <2>2, <1>3 DEF Core, EndedIdle, OpKnows
    <3>2. life[s] # "up" => pass'[s].at = "idle"
      BY <2>2, <2>3, <3>1 DEF Core, EndedIdle
    <3>3. QED
      BY <2>1, <3>2, <1>4 DEF Core, EndedIdle
  <2>6. StepsCovered'
    <3> SUFFICES ASSUME NEW t \in Sessions, Stepping(t)'
                 PROVE  /\ Own(lock, t) /\ pass'[t].since + LeaseMs <= lock.expiresAt
                        /\ pass'[t].since <= now /\ now <= pass'[t].since + StepMs
                        /\ op'[t]["lockOp"].stage # "none" =>
                             op'[t]["lockOp"].for = "timer" /\ pass'[t].since <= op'[t]["lockOp"].now
      BY DEF StepsCovered
    <3>1. CASE t # s
      BY <3>1, <1>2, <1>4 DEF Core, StepsCovered, Stepping, Slots
    <3>2. CASE t = s /\ op[s][k].for = "timer"
      <4>1. pass'[s].at = pass[s].at /\ pass'[s].since = pass[s].since
        BY <3>2, <2>2
      <4>2. op'[s]["lockOp"].stage # "none" => op'[s]["lockOp"] = op[s]["lockOp"]
        BY <1>2 DEF Slots
      <4>3. QED
        BY <3>2, <4>1, <4>2 DEF Core, StepsCovered, Stepping
    <3>3. CASE t = s /\ op[s][k].for = "action"
      <4>1. pass'[s].since = op[s][k].now /\ held
        BY <3>3, <2>2 DEF Stepping
      <4>2. k = "lockOp"
        BY <3>3, <1>3 DEF OpKnows, Slots
      <4>3. op[s][k].stage = "back" /\ Own(lock, s) /\ op[s][k].wrote \in {"written", "changed"}
        BY <3>3, <4>1 DEF Held
      <4>4. op[s][k].now + LeaseMs <= lock.expiresAt
        BY <3>3, <4>2, <4>3 DEF Core, OpsOfRenewal
      <4>5. op'[s]["lockOp"].stage = "none"
        BY <4>2, <1>2
      <4>6. QED
        BY <3>3, <4>1, <4>2, <4>3, <4>4, <4>5, <1>3 DEF OpKnows
    <3>4. CASE t = s /\ op[s][k].for = "rails"
      BY <3>4, <2>2 DEF Stepping
    <3>5. QED
      BY <1>7, <3>1, <3>2, <3>3, <3>4
  <2>7. QED
    BY <2>4, <2>5, <2>6, <1>5 DEF Core
<1>8. op[s][k].for \in Fors
  BY <1>3, OpFields
<1>9. QED
  BY <1>6, <1>7, <1>8 DEF Fors

\* A session that loses its memory.
LEMMA Crashes == ASSUME TypeOK, Core, NEW s \in Sessions, Crash(s) PROVE Core'
<1>1. pass'[s] = Idle /\ life'[s] = "up" /\ \A j \in Slots : op'[s][j] = NoOp
  BY DEF Crash, TypeOK
<1>2. \A t \in Sessions : t # s => pass'[t] = pass[t] /\ life'[t] = life[t] /\ op'[t] = op[t]
  BY DEF Crash, TypeOK
<1>3. UNCHANGED <<now, lock>>
  BY DEF Crash
<1>4. NoOp.stage = "none" /\ Idle.at = "idle"
  BY OpValues, PassValues
<1>5. OpsKnow'
  BY <1>1, <1>2, <1>3, <1>4 DEF Core, OpsKnow, OpKnows, Own, Refuses, Others
<1>6. OpsOfRenewal'
  BY <1>1, <1>2, <1>3, <1>4 DEF Core, OpsOfRenewal, Own, Slots
<1>7. EndedIdle'
  BY <1>1, <1>2 DEF Core, EndedIdle
<1>8. StepsCovered'
  BY <1>1, <1>2, <1>3, <1>4 DEF Core, StepsCovered, Stepping, Own
<1>9. QED
  BY <1>5, <1>6, <1>7, <1>8 DEF Core

\* The clock: no step and no operation of lockOp outruns its commands' timeouts.
LEMMA Ticks == ASSUME TypeOK, Core, Tick PROVE Core'
<1>1. /\ now' = now + 1 /\ UNCHANGED <<lock, life, pass, op>>
      /\ \A s \in Sessions : /\ Stepping(s) => now < pass[s].since + StepMs
                             /\ Locking(s) => now < op[s]["lockOp"].now + StepMs
  BY DEF Tick
<1>2. now \in Nat /\ StepMs \in Nat
  BY LeaseAssumption DEF TypeOK
<1>3. \A s \in Sessions, k \in Slots : op[s][k].now \in Nat /\ pass[s].since \in Nat
  <2> SUFFICES ASSUME NEW s \in Sessions, NEW k \in Slots
               PROVE  op[s][k].now \in Nat /\ pass[s].since \in Nat
    OBVIOUS
  <2>1. op[s][k] \in OpType /\ pass[s] \in PassType
    BY DEF TypeOK
  <2>2. QED
    BY <2>1, OpFields, PassFields
<1>4. OpsKnow'
  <2> SUFFICES ASSUME NEW s \in Sessions, NEW k \in Slots, op[s][k].stage # "none"
               PROVE  OpKnows(s, k)'
    BY <1>1 DEF OpsKnow
  <2>1. OpKnows(s, k)
    BY DEF Core, OpsKnow
  <2>2. op[s][k].now <= now + 1 /\ (k = "lockOp" => now + 1 <= op[s][k].now + StepMs)
    <3>1. op[s][k].now \in Nat /\ op[s][k].now <= now
      BY <2>1, <1>3 DEF OpKnows
    <3>2. k = "lockOp" => now < op[s][k].now + StepMs
      BY <1>1 DEF Locking
    <3>3. QED
      BY <3>1, <3>2, <1>2
  <2>3. QED
    BY <2>1, <2>2, <1>1 DEF OpKnows, Own, Refuses, Others
<1>5. OpsOfRenewal' /\ EndedIdle'
  BY <1>1 DEF Core, OpsOfRenewal, EndedIdle, Own
<1>6. StepsCovered'
  <2> SUFFICES ASSUME NEW s \in Sessions, Stepping(s)
               PROVE  /\ pass[s].since <= now + 1 /\ now + 1 <= pass[s].since + StepMs
                      /\ StepsCovered
    BY <1>1 DEF StepsCovered, Stepping, Own
  <2>1. pass[s].since <= now /\ StepsCovered
    BY DEF Core, StepsCovered
  <2>2. now < pass[s].since + StepMs
    BY <1>1
  <2>3. pass[s].since \in Nat
    BY <1>3 DEF Slots
  <2>4. QED
    BY <2>1, <2>2, <2>3, <1>2
<1>7. QED
  BY <1>4, <1>5, <1>6 DEF Core

\* Every step keeps it, as session.end finds no pass in progress.
LEMMA CoreStep ==
  ASSUME "busy-end" \notin raced', TypeOK, ReleasesALease, Core, [Next]_vars
  PROVE  Core'
<1>P. Places = {"idle", "rails", "load", "plan", "renew", "renewing", "entry", "saving",
                "landing", "exec"}
  BY DEF Places
<1>1. CASE Tick
  BY <1>1, Ticks
<1>2. ASSUME NEW s \in Sessions, Acts(s) PROVE Core'
  <2>T. pass[s] \in PassType /\ live[s] \in LiveType
    BY DEF TypeOK
  <2>1. CASE \E k \in Slots : OpRead(s, k)
    <3>1. PICK k \in Slots : OpRead(s, k)
      BY <2>1
    <3>2. CASE Finish(s, k, FALSE, FALSE)
      BY <3>1, <3>2, Finishes DEF OpRead
    <3>3. CASE ~Finish(s, k, FALSE, FALSE)
      <4> DEFINE x == [op[s][k] EXCEPT !.stage = "write", !.read = lock]
      <4>1. op' = [op EXCEPT ![s][k] = x] /\ op[s][k].stage = "read"
            /\ (op[s][k].for = "release" => Own(lock, s))
            /\ (op[s][k].for # "release" => ~Refuses(lock, s, op[s][k].now))
            /\ UNCHANGED <<now, lock, life, pass>>
        BY <3>1, <3>3 DEF OpRead
      <4>2. x.stage = "write" /\ x.for = op[s][k].for /\ x.now = op[s][k].now /\ x.read = lock
        BY OpValues DEF TypeOK
      <4> HIDE DEF x
      <4>3. QED
        BY <4>1, <4>2, OpReads
    <3>4. QED
      BY <3>2, <3>3
  <2>2. CASE \E k \in Slots : OpWrite(s, k)
    BY <2>2, OpWrites
  <2>3. CASE \E k \in Slots : OpBack(s, k)
    <3>1. PICK k \in Slots : OpBack(s, k)
      BY <2>3
    <3>2. Finish(s, k, Held(s, op[s][k]), Took(s, op[s][k]) /\ op[s][k].wrote = "written")
          /\ op[s][k].stage = "back" /\ UNCHANGED <<now, lock>>
      BY <3>1 DEF OpBack
    <3>3. QED
      BY <3>2, Finishes
  <2>4. CASE \E x : /\ pass' = [pass EXCEPT ![s] = x] /\ UNCHANGED <<now, lock, life, op>>
                    /\ x.at = pass[s].at \/ pass[s].at \notin {"rails", "renewing"}
                    /\ x.at \in {"entry", "saving", "landing", "exec"} =>
                         Stepping(s) /\ x.since = pass[s].since
                    /\ pass[s].at = "idle" => x.at = "idle"
    BY <2>4, PassMoves
  <2>5. CASE UNCHANGED <<now, lock, life, op, pass>>
    BY <2>5 DEF Core, OpsKnow, OpKnows, OpsOfRenewal, EndedIdle, StepsCovered, Stepping,
       Own, Refuses, Others
  <2>6. CASE LoadDone(s) \/ HookMoves(s)
    BY <2>5, <2>6 DEF LoadDone, HookMoves
  <2>7. CASE LoadStart(s) \/ PassEnd(s)
    <3>1. pass' = [pass EXCEPT ![s] = Idle] \/ pass' = pass
      BY <2>7 DEF LoadStart, PassEnd
    <3>2. UNCHANGED <<now, lock, life, op>> /\ pass[s].at \in {"load", "idle", "plan"}
      BY <2>7 DEF LoadStart, PassEnd
    <3>3. QED
      BY <3>1, <3>2, <2>4, <2>5, PassValues
  <2>8. CASE LoadFail(s)
    <3>1. UNCHANGED <<now, lock, life, op>>
      BY <2>8 DEF LoadFail
    <3>2. CASE pass[s].at = "load"
      <4>1. pass' = [pass EXCEPT ![s] = Idle]
        BY <2>8, <3>2 DEF LoadFail, TypeOK
      <4>2. QED
        BY <3>1, <3>2, <4>1, <2>4, PassValues
    <3>3. CASE pass[s].at # "load"
      <4>1. pass' = [pass EXCEPT ![s] = pass[s]]
        BY <2>8, <3>3 DEF LoadFail
      <4>2. pass' = pass
        BY <4>1 DEF TypeOK
      <4>3. QED
        BY <3>1, <4>2, <2>5
    <3>4. QED
      BY <3>2, <3>3
  <2>9. CASE SaveCheck(s) \/ SaveLand(s)
    <3>1. UNCHANGED <<now, lock, life, op>>
      BY <2>9 DEF SaveCheck, SaveLand
    <3>2. PICK b \in Places :
            /\ pass' = [pass EXCEPT ![s] = [pass[s] EXCEPT !.at = b]]
            /\ \/ b = pass[s].at
               \/ pass[s].at \in {"saving", "landing"} /\ b \in {"landing", "exec"}
      <4>1. pass[s].at \in Places
        BY <2>T, PassFields
      <4>2. CASE SaveCheck(s)
        BY <4>1, <4>2, <1>P DEF SaveCheck
      <4>3. CASE SaveLand(s)
        BY <4>1, <4>3, <1>P DEF SaveLand
      <4>4. QED
        BY <2>9, <4>2, <4>3
    <3> DEFINE x == [pass[s] EXCEPT !.at = b]
    <3>3. x.at = b /\ x.since = pass[s].since
      BY <2>T, PassValues
    <3>4. pass' = [pass EXCEPT ![s] = x]
      BY <3>2
    <3> HIDE DEF x
    <3>5. QED
      BY <3>1, <3>2, <3>3, <3>4, <2>4 DEF Stepping
  <2>10. CASE SaveRefused(s)
    <3>1. UNCHANGED <<now, lock, life, op>>
      BY <2>10 DEF SaveRefused
    <3>2. CASE pass[s].at = "saving"
      <4> DEFINE x == [Idle EXCEPT !.at = "plan"]
      <4>1. pass' = [pass EXCEPT ![s] = x]
        BY <2>10, <3>2 DEF SaveRefused
      <4>2. x.at = "plan"
        BY PassValues DEF Places
      <4> HIDE DEF x
      <4>3. QED
        BY <3>1, <3>2, <4>1, <4>2, <2>4
    <3>3. CASE pass[s].at # "saving"
      <4>1. pass' = [pass EXCEPT ![s] = pass[s]]
        BY <2>10, <3>3 DEF SaveRefused
      <4>2. pass' = pass
        BY <4>1 DEF TypeOK
      <4>3. QED
        BY <3>1, <4>2, <2>5
    <3>4. QED
      BY <3>2, <3>3
  <2>11. CASE SaveFail(s) \/ StepDone(s)
    <3>1. UNCHANGED <<now, lock, life, op>>
      BY <2>11 DEF SaveFail, StepDone
    <3>2. CASE pass' = pass
      BY <3>1, <3>2, <2>5
    <3>3. CASE pass' # pass
      <4> DEFINE x == [pass[s] EXCEPT !.at = "plan", !.since = 0, !.entry = 0, !.new = FALSE]
      <4>1. pass' = [pass EXCEPT ![s] = x] /\ pass[s].at \in {"landing", "exec"}
        BY <2>11, <3>3 DEF SaveFail, StepDone, Unstart
      <4>2. x.at = "plan"
        BY <2>T, PassValues DEF Places
      <4> HIDE DEF x
      <4>3. QED
        BY <3>1, <4>1, <4>2, <2>4
    <3>4. QED
      BY <3>2, <3>3
  <2>12. CASE Loaded(s)
    <3> DEFINE x == [Idle EXCEPT !.at = "plan", !.holding = TRUE]
    <3>1. pass' = [pass EXCEPT ![s] = x] /\ pass[s].at = "load" /\ UNCHANGED <<now, lock, life, op>>
      BY <2>12 DEF Loaded
    <3>2. x.at = "plan"
      BY PassValues DEF Places
    <3> HIDE DEF x
    <3>3. QED
      BY <3>1, <3>2, <2>4
  <2>13. CASE AskRenew(s)
    <3> DEFINE x == [pass[s] EXCEPT !.at = "renew"]
    <3>1. pass' = [pass EXCEPT ![s] = x] \/ pass' = [pass EXCEPT ![s] = Idle]
      BY <2>13 DEF AskRenew
    <3>2. pass[s].at = "plan" /\ UNCHANGED <<now, lock, life, op>>
      BY <2>13 DEF AskRenew
    <3>3. x.at = "renew" /\ Idle.at = "idle"
      BY <2>T, PassValues DEF Places
    <3> HIDE DEF x
    <3>4. QED
      BY <3>1, <3>2, <3>3, <2>4
  <2>14. CASE Start(s)
    <3>1. pass[s].at = "entry" /\ UNCHANGED <<now, lock, life, op>>
      BY <2>14 DEF Start
    <3>2. CASE ~(pass[s].holding /\ live[s].loaded)
      <4> DEFINE x == [pass[s] EXCEPT !.at = "plan", !.since = 0]
      <4>1. pass' = [pass EXCEPT ![s] = x]
        BY <2>14, <3>2 DEF Start
      <4>2. x.at = "plan"
        BY <2>T, PassValues DEF Places
      <4> HIDE DEF x
      <4>3. QED
        BY <3>1, <4>1, <4>2, <2>4
    <3>3. CASE pass[s].holding /\ live[s].loaded
      <4>1. PICK e \in live[s].ledger \cup (IF issued < MaxEntries THEN {issued + 1} ELSE {}),
                 new \in BOOLEAN :
              pass' = [pass EXCEPT ![s] = [@ EXCEPT !.at = "saving", !.entry = e, !.new = new]]
        BY <2>14, <3>3 DEF Start
      <4> DEFINE x == [pass[s] EXCEPT !.at = "saving", !.entry = e, !.new = new]
      <4>2. e \in Nat
        BY <2>T, LiveFields DEF TypeOK
      <4>3. pass' = [pass EXCEPT ![s] = x]
        BY <4>1
      <4>4. x.at = "saving" /\ x.since = pass[s].since
        BY <2>T, <4>2, PassValues DEF Places
      <4> HIDE DEF x
      <4>5. QED
        BY <3>1, <4>3, <4>4, <2>4 DEF Stepping
    <3>4. QED
      BY <3>2, <3>3
  <2>15. CASE PassStart(s)
    <3> DEFINE x == [pass[s] EXCEPT !.at = "rails"]
    <3>1. pass' = [pass EXCEPT ![s] = x] /\ pass[s].at = "idle" /\ life[s] = "up"
          /\ op[s]["rails"].stage = "none" /\ Begin(s, "rails", "rails")
          /\ UNCHANGED <<now, lock, life>>
      BY <2>15 DEF PassStart
    <3>2. x.at = "rails" /\ x.since = pass[s].since
      BY <2>T, PassValues DEF Places
    <3> HIDE DEF x
    <3>3. QED
      BY <3>1, <3>2, OpBegins DEF Slots, Fors
  <2>16. CASE RenewStart(s)
    <3> DEFINE x == [pass[s] EXCEPT !.at = "renewing"]
    <3>1. pass' = [pass EXCEPT ![s] = x] /\ pass[s].at = "renew"
          /\ op[s]["lockOp"].stage = "none" /\ Begin(s, "lockOp", "action")
          /\ UNCHANGED <<now, lock, life>>
      BY <2>16 DEF RenewStart
    <3>2. x.at = "renewing" /\ x.since = pass[s].since
      BY <2>T, PassValues DEF Places
    <3>3. life[s] = "up"
      BY <3>1 DEF Core, EndedIdle
    <3> HIDE DEF x
    <3>4. QED
      BY <3>1, <3>2, <3>3, OpBegins DEF Slots, Fors
  <2>17. CASE TimerRenew(s)
    <3>1. UNCHANGED <<now, lock, life>> /\ op[s]["lockOp"].stage = "none"
          /\ pass[s].at \notin {"rails", "renewing", "idle"}
      BY <2>17 DEF TimerRenew
    <3>2. CASE live[s].loaded
      <4>1. Begin(s, "lockOp", "timer") /\ pass' = [pass EXCEPT ![s] = pass[s]]
        BY <2>17, <3>2 DEF TimerRenew, TypeOK
      <4>2. life[s] = "up"
        BY <3>1 DEF Core, EndedIdle
      <4>3. QED
        BY <3>1, <4>1, <4>2, OpBegins DEF Slots, Fors, Stepping
    <3>3. CASE ~live[s].loaded
      <4> DEFINE x == [pass[s] EXCEPT !.holding = FALSE]
      <4>1. pass' = [pass EXCEPT ![s] = x] /\ op' = op
        BY <2>17, <3>3 DEF TimerRenew
      <4>2. x.at = pass[s].at /\ x.since = pass[s].since
        BY <2>T, PassValues
      <4> HIDE DEF x
      <4>3. QED
        BY <3>1, <4>1, <4>2, <2>4 DEF Stepping
    <3>4. QED
      BY <3>2, <3>3
  <2>18. CASE End(s)
    <3>1. life[s] = "up" /\ pass[s].at = "idle" /\ op[s]["lockOp"].stage = "none"
          /\ life' = [life EXCEPT ![s] = "ending"] /\ Begin(s, "lockOp", "release")
          /\ UNCHANGED <<now, lock>> /\ pass' = [pass EXCEPT ![s] = pass[s]]
      BY <2>18 DEF End, Run, If, TypeOK
    <3>2. QED
      BY <3>1, OpBegins DEF Slots, Fors
  <2>19. CASE Crash(s)
    BY <2>19, Crashes
  <2>20. QED
    BY <1>2, <2>1, <2>2, <2>3, <2>6, <2>7, <2>8, <2>9, <2>10, <2>11, <2>12, <2>13, <2>14,
       <2>15, <2>16, <2>17, <2>18, <2>19 DEF Acts, MayRace, SessionStep
<1>3. CASE UNCHANGED vars
  BY <1>3 DEF vars, Core, OpsKnow, OpKnows, OpsOfRenewal, EndedIdle, StepsCovered, Stepping,
     Own, Refuses, Others
<1>4. QED
  BY <1>1, <1>2, <1>3, NextActs

\* Until a session.end finds a pass in progress, what the lock's operations in flight
\* know and what a step stands on stay true (rails.ts, driver-pass.ts), whatever
\* other sessions, their crashes, the other races and the lock's own faults do.
THEOREM LockInvariant == Spec => []("busy-end" \notin raced => LockInv)
<1>1. Init => Core
  BY DEF Init, Core, OpsKnow, OpsOfRenewal, EndedIdle, StepsCovered, Stepping, NoOp, Idle, Slots
<1>2. Init => ReleasesALease
  BY DEF Init, ReleasesALease, NoOp
<1>3. Spec => []("busy-end" \notin raced => Core)
  <2>1. TypeOK /\ ReleasesALease /\ ("busy-end" \notin raced => Core) /\ [Next]_vars
          => ("busy-end" \notin raced => Core)'
    BY CoreStep, RacesStay
  <2>2. QED
    BY <1>1, <1>2, <2>1, TypeCorrect, ReleasesStep, PTL DEF Spec
<1>4. TypeOK /\ Core => LockInv
  BY DEF Core, LockInv
<1>5. QED
  BY <1>3, <1>4, TypeCorrect, PTL

\* Until a session.end finds a pass in progress, a step is taken only under its own
\* session's live lease, for every LeaseMs longer than a renewal and its step (rails.ts
\* LEASE_MIN_MS).
THEOREM LeaseHeld == Spec => []("busy-end" \notin raced => LeaseOutlivesStep)
<1>1. LockInv => LeaseOutlivesStep
  <2> SUFFICES ASSUME LockInv, NEW s \in Sessions, Stepping(s)
               PROVE  Own(lock, s) /\ now < lock.expiresAt
    BY DEF LeaseOutlivesStep
  <2>1. /\ Own(lock, s) /\ pass[s].since + LeaseMs <= lock.expiresAt
        /\ now <= pass[s].since + StepMs
    BY DEF LockInv, StepsCovered
  <2>2. pass[s] \in PassType /\ lock \in Lease /\ now \in Nat
    BY <2>1, LeaseFields DEF LockInv, TypeOK, Own
  <2>3. pass[s].since \in Nat /\ lock.expiresAt \in Nat
    BY <2>2, PassFields, LeaseFields
  <2>4. QED
    BY <2>1, <2>2, <2>3, LeaseAssumption
<1>2. QED
  BY <1>1, LockInvariant, PTL

\* Until a session.end finds a pass in progress, never two sessions take a step at once
\* (the act lock's purpose), the lock's faults and the other races included.
THEOREM MutualExclusion == Spec => []("busy-end" \notin raced => OneActor)
<1>1. LeaseOutlivesStep => OneActor
  BY DEF LeaseOutlivesStep, OneActor, Own
<1>2. QED
  BY <1>1, LeaseHeld, PTL

----------------------------------------------------------------------------
(* The whole ledger *)

\* A step starts an entry, of memory or new, or nothing.
StartsOn(s, e) ==
  /\ e \in live[s].ledger \cup (IF issued < MaxEntries THEN {issued + 1} ELSE {})
  /\ pass[s].holding /\ live[s].loaded
  /\ live' = [live EXCEPT ![s].ledger = @ \cup {e}]
  /\ save' = [save EXCEPT ![s].asked = TRUE]
StartsAgain(s, e) ==
  /\ StartsOn(s, e) /\ ~(e > issued) /\ issued' = issued
  /\ pass' = [pass EXCEPT ![s] = [@ EXCEPT !.at = "saving", !.entry = e, !.new = FALSE]]
StartsNew(s, e) ==
  /\ StartsOn(s, e) /\ e > issued /\ issued' = e
  /\ pass' = [pass EXCEPT ![s] = [@ EXCEPT !.at = "saving", !.entry = e, !.new = TRUE]]
StartsNothing(s) ==
  /\ ~(pass[s].holding /\ live[s].loaded) /\ UNCHANGED <<issued, live, save>>
  /\ pass' = [pass EXCEPT ![s] = [@ EXCEPT !.at = "plan", !.since = 0]]

LEMMA Starts ==
  ASSUME NEW s \in Sessions, Start(s)
  PROVE  /\ pass[s].at = "entry" /\ UNCHANGED <<now, lock, store, life, loading, op>>
         /\ StartsNothing(s) \/ \E e : StartsAgain(s, e) \/ StartsNew(s, e)
<1>1. CASE pass[s].holding /\ live[s].loaded
  <2>1. PICK e \in live[s].ledger \cup (IF issued < MaxEntries THEN {issued + 1} ELSE {}),
             new \in BOOLEAN :
            /\ new <=> e > issued
            /\ issued' = IF new THEN e ELSE issued
            /\ pass' = [pass EXCEPT ![s] = [@ EXCEPT !.at = "saving", !.entry = e, !.new = new]]
            /\ live' = [live EXCEPT ![s].ledger = @ \cup {e}]
            /\ save' = [save EXCEPT ![s].asked = TRUE]
    BY <1>1, Zenon DEF Start
  <2>2. StartsOn(s, e)
    BY <1>1, <2>1, Zenon DEF StartsOn
  <2>3. CASE new = TRUE
    BY <2>1, <2>2, <2>3, Zenon DEF Start, StartsNew
  <2>4. CASE new = FALSE
    BY <2>1, <2>2, <2>4, Zenon DEF Start, StartsAgain
  <2>5. QED
    BY <2>3, <2>4, Zenon
<1>2. CASE ~(pass[s].holding /\ live[s].loaded)
  BY <1>2, Zenon DEF Start, StartsNothing
<1>3. QED
  BY <1>1, <1>2, Zenon

\* What is a session's own stays when another one steps.
LEMMA OthersStay ==
  ASSUME TypeOK, NEW s \in Sessions, Acts(s), NEW t \in Sessions, t # s
  PROVE  /\ life'[t] = life[t] /\ live'[t] = live[t] /\ loading'[t] = loading[t]
         /\ save'[t] = save[t] /\ pass'[t] = pass[t] /\ op'[t] = op[t]
<1> USE DEF TypeOK
<1>1. ASSUME NEW k \in Slots, NEW f, Begin(s, k, f) PROVE op'[t] = op[t]
  BY <1>1 DEF Begin
<1>2. ASSUME NEW k \in Slots, NEW h, NEW w, Finish(s, k, h, w)
      PROVE  life'[t] = life[t] /\ live'[t] = live[t] /\ pass'[t] = pass[t] /\ op'[t] = op[t]
  BY <1>2 DEF Finish, LetGo
<1>3. CASE \E k \in Slots : OpRead(s, k) \/ OpWrite(s, k) \/ OpBack(s, k)
  BY <1>2, <1>3 DEF OpRead, OpWrite, OpBack
<1>4. CASE PassStart(s) \/ RenewStart(s) \/ TimerRenew(s) \/ End(s)
  BY <1>1, <1>4 DEF PassStart, RenewStart, TimerRenew, End, Slots
<1>5. CASE LoadStart(s) \/ LoadDone(s) \/ LoadFail(s) \/ HookMoves(s)
  BY <1>5 DEF LoadStart, LoadDone, LoadFail, HookMoves
<1>6. CASE SaveCheck(s) \/ SaveRefused(s) \/ SaveLand(s) \/ SaveFail(s)
  BY <1>6 DEF SaveCheck, SaveRefused, SaveLand, SaveFail, Unstart, LetGo
<1>7. CASE Loaded(s) \/ AskRenew(s) \/ StepDone(s) \/ PassEnd(s)
  BY <1>7 DEF Loaded, AskRenew, StepDone, PassEnd, LetGo
<1>s. CASE Start(s)
  <2>0. UNCHANGED <<life, loading, op>>
    BY <1>s, Starts
  <2>1. CASE StartsNothing(s)
    BY <2>0, <2>1 DEF StartsNothing
  <2>2. ASSUME NEW e, StartsAgain(s, e)
        PROVE  live'[t] = live[t] /\ save'[t] = save[t] /\ pass'[t] = pass[t]
    BY <2>2 DEF StartsAgain, StartsOn
  <2>3. ASSUME NEW e, StartsNew(s, e)
        PROVE  live'[t] = live[t] /\ save'[t] = save[t] /\ pass'[t] = pass[t]
    BY <2>3 DEF StartsNew, StartsOn
  <2>4. QED
    BY <1>s, <2>0, <2>1, <2>2, <2>3, Starts
<1>8. CASE Crash(s)
  BY <1>8 DEF Crash
<1>9. QED
  BY <1>3, <1>4, <1>5, <1>6, <1>7, <1>8, <1>s DEF Acts, MayRace, SessionStep

\* What the sessions share moves by a compare-and-set that lands, by a save that
\* lands and by an entry that starts.
LEMMA SharedMoves ==
  ASSUME TypeOK, NEW s \in Sessions, Acts(s)
  PROVE  /\ now' = now
         /\ \/ lock' = lock
            \/ \E k \in Slots : /\ op[s][k].stage = "write" /\ lock = op[s][k].read
                                /\ lock' = NewText(s, op[s][k])
         /\ store' = store \/ (save[s].busy /\ store' = save[s].snap)
         /\ issued' \in Nat /\ issued <= issued'
<1>0. CASE \E k \in Slots : OpRead(s, k) \/ OpBack(s, k)
  <2>1. UNCHANGED <<now, lock, store, issued>>
    BY <1>0 DEF OpRead, OpBack
  <2>2. QED
    BY <2>1 DEF TypeOK
<1>1. CASE \E k \in Slots : OpWrite(s, k)
  <2>1. PICK k \in Slots : OpWrite(s, k)
    BY <1>1
  <2>2. PICK r \in {"written", "changed", "failed"} :
          \/ r # "changed" /\ lock = op[s][k].read /\ lock' = NewText(s, op[s][k])
          \/ r # "written" /\ UNCHANGED lock
    BY <2>1 DEF OpWrite
  <2>3. QED
    BY <2>1, <2>2 DEF OpWrite, TypeOK
<1>2. CASE PassStart(s) \/ RenewStart(s) \/ TimerRenew(s) \/ End(s)
  BY <1>2 DEF PassStart, RenewStart, TimerRenew, End, TypeOK
<1>3. CASE LoadStart(s) \/ LoadDone(s) \/ LoadFail(s) \/ HookMoves(s)
  BY <1>3 DEF LoadStart, LoadDone, LoadFail, HookMoves, TypeOK
<1>4. CASE SaveCheck(s) \/ SaveRefused(s) \/ SaveLand(s) \/ SaveFail(s)
  BY <1>4 DEF SaveCheck, SaveRefused, SaveLand, SaveFail, TypeOK
<1>5. CASE Loaded(s) \/ AskRenew(s) \/ StepDone(s) \/ PassEnd(s) \/ Crash(s)
  BY <1>5 DEF Loaded, AskRenew, StepDone, PassEnd, Crash, TypeOK
<1>6. CASE Start(s)
  <2>1. CASE issued' = issued
    BY <1>6, <2>1, Starts DEF TypeOK
  <2>2. CASE issued' # issued
    <3>1. PICK e \in live[s].ledger \cup (IF issued < MaxEntries THEN {issued + 1} ELSE {}) :
            issued' = e /\ e > issued
      BY <1>6, <2>2, Starts, Zenon DEF StartsOn, StartsNew, StartsAgain, StartsNothing
    <3>2. e \in Nat /\ issued \in Nat
      BY LiveFields DEF TypeOK
    <3>3. QED
      BY <1>6, <3>1, <3>2, Starts
  <2>3. QED
    BY <2>1, <2>2
<1>7. QED
  BY <1>0, <1>1, <1>2, <1>3, <1>4, <1>5, <1>6 DEF Acts, MayRace, SessionStep


\* A compare-and-set puts an own lease in the file, and never over another's that is live.
LEMMA LockMoves ==
  ASSUME TypeOK, OpsKnow, NEW s \in Sessions, NEW k \in Slots, op[s][k].stage = "write",
         lock = op[s][k].read
  PROVE  /\ Own(NewText(s, op[s][k]), s) /\ NewText(s, op[s][k]) \in Lease
         /\ op[s][k].for # "release" => NewText(s, op[s][k]).expiresAt = op[s][k].now + LeaseMs
         /\ op[s][k].for = "release" => Own(lock, s) /\ NewText(s, op[s][k]).expiresAt <= lock.expiresAt
         /\ op[s][k].now \in Nat /\ op[s][k].now <= now
         /\ \A u \in Sessions : u # s => ~(Own(lock, u) /\ now < lock.expiresAt)
<1> DEFINE o == op[s][k]
<1>1. o \in OpType /\ lock \in LockText /\ now \in Nat
  BY DEF TypeOK
<1>k. OpKnows(s, k)
  BY DEF OpsKnow
<1>n. o.now <= now
  BY <1>k DEF OpKnows
<1>m. o.now \in Nat
  BY <1>1 DEF OpType
<1>2. o.now \in Nat /\ o.now <= now /\ OpKnows(s, k)
  BY <1>k, <1>n, <1>m
<1>3. CASE o.for = "release"
  <2>1. Own(lock, s) /\ lock \in Lease
    BY <1>1, <1>2, <1>3, LeaseFields DEF OpKnows, Own
  <2>2. NewText(s, o) = Released(lock, o.now)
    BY <1>3 DEF NewText
  <2>3. Released(lock, o.now).session = lock.session
        /\ Released(lock, o.now).expiresAt = (IF o.now < lock.expiresAt THEN o.now ELSE lock.expiresAt)
    BY <2>1, <1>2 DEF Released, Lease
  <2>4. Released(lock, o.now) \in Lease /\ lock.expiresAt \in Nat
    BY <2>1, <1>2, LeaseFields
  <2>5. QED
    BY <1>2, <1>3, <2>1, <2>2, <2>3, <2>4, LeaseFields DEF Own
<1>4. CASE o.for # "release"
  <2>1. NewText(s, o) = Renewed(s, o.now) /\ Renewed(s, o.now) \in Lease
    BY <1>2, <1>4, LeaseFields DEF NewText
  <2>2. ~Refuses(lock, s, o.now)
    BY <1>2, <1>4 DEF OpKnows
  <2>3. Renewed(s, o.now).session = s /\ Renewed(s, o.now).expiresAt = o.now + LeaseMs
    BY DEF Renewed
  <2>4. \A u \in Sessions : u # s => ~(Own(lock, u) /\ now < lock.expiresAt)
    <3> SUFFICES ASSUME NEW u \in Sessions, u # s, Own(lock, u), now < lock.expiresAt PROVE FALSE
      OBVIOUS
    <3>1. Others(lock, s) /\ lock \in Lease
      BY <1>1, LeaseFields DEF Own, Others
    <3>2. o.now < lock.expiresAt
      <4>1. lock.expiresAt \in Nat
        BY <3>1, LeaseFields
      <4> HIDE DEF o
      <4>2. QED
        BY <4>1, <1>1, <1>2
    <3>3. QED
      BY <2>2, <3>1, <3>2 DEF Refuses
  <2>5. QED
    BY <1>2, <1>4, <2>1, <2>3, <2>4, LeaseFields DEF Own
<1>5. QED
  BY <1>3, <1>4

\* What one session's step leaves true of another's ledger.
LEMMA OthersKeep ==
  ASSUME TypeOK, LockInv, LedgerInv, NEW s \in Sessions, Acts(s),
         NEW t \in Sessions, t # s
  PROVE  LedgerOf(t)'
<1>1. /\ life'[t] = life[t] /\ live'[t] = live[t] /\ loading'[t] = loading[t]
      /\ save'[t] = save[t] /\ pass'[t] = pass[t] /\ op'[t] = op[t]
  BY OthersStay
<1>2. LedgerOf(t) /\ LedgerOf(s) /\ store \subseteq 1..issued
  BY DEF LedgerInv
<1>3. /\ now' = now /\ issued' \in Nat /\ issued \in Nat /\ issued <= issued'
      /\ store' = store \/ (save[s].busy /\ store' = save[s].snap)
  BY SharedMoves DEF TypeOK
<1>4. \/ lock' = lock
      \/ /\ Own(lock', s) /\ lock' \in Lease
         /\ \A u \in Sessions : u # s => ~(Own(lock, u) /\ now < lock.expiresAt)
  BY SharedMoves, LockMoves DEF LockInv
<1>5. Own(lock', t) => lock' = lock
  BY <1>4 DEF Own
<1>6. lock # NoLease => lock' # NoLease
  BY <1>4, LeaseFields
<1>7. Own(lock, t) => store' = store
  BY <1>2, <1>3 DEF LedgerOf, WholeLedger, Own
<1>8. save[t].busy => lock' = lock /\ Own(lock, t)
  BY <1>2, <1>4 DEF LedgerOf, WholeLedger
<1>9. Stepping(t) => Own(lock, t)
  BY DEF LockInv, StepsCovered
<1>10. (OpsOwn(t) /\ EndedQuiet(t))'
  BY <1>1, <1>2 DEF LedgerOf, OpsOwn, EndedQuiet, Stepping, Own, Took, Others
<1>11. RailsNewest(t)'
  BY <1>1, <1>2, <1>5 DEF LedgerOf, RailsNewest, Locking
<1>12. LoadsOwn(t)'
  BY <1>1, <1>2, <1>6 DEF LedgerOf, LoadsOwn, Own
<1>13. EntryOnce(t)'
  <2>1. Stepping(t) => store' = store
    BY <1>7, <1>9
  <2>2. 1..issued \subseteq 1..issued'
    BY <1>3
  <2>3. QED
    BY <1>1, <1>2, <2>1, <2>2 DEF LedgerOf, EntryOnce, Stepping
<1>14. WholeLedger(t)'
  <2>1. TakingOver(t)' = TakingOver(t)
    BY <1>1 DEF TakingOver, Took, Others
  <2>2. Own(lock', t) => Own(lock, t) /\ store' = store
    BY <1>5, <1>7
  <2>3. save[t].busy => lock' = lock /\ store' = store
    BY <1>7, <1>8
  <2>4. QED
    BY <1>1, <1>2, <1>3, <2>1, <2>2, <2>3 DEF LedgerOf, WholeLedger
<1>15. QED
  BY <1>10, <1>11, <1>12, <1>13, <1>14 DEF LedgerOf


\* What the updates of the memory, a load, a save and a pass leave in their fields.
LEMMA LedgerValues ==
  /\ Unloaded.ledger = {} /\ ~Unloaded.loaded /\ ~NoLoad.busy
  /\ ~Quiet.asked /\ ~Quiet.busy /\ Quiet.snap = {}
  /\ \A r \in LiveType, d \in SUBSET Nat : LET q == [r EXCEPT !.ledger = d] IN
       q.ledger = d /\ (q.loaded <=> r.loaded) /\ q.basis = r.basis
  /\ \A r \in SaveType : LET q == [r EXCEPT !.asked = TRUE] IN
       q.asked /\ (q.busy <=> r.busy) /\ q.snap = r.snap
  /\ \A r \in SaveType : LET q == [r EXCEPT !.asked = FALSE] IN
       ~q.asked /\ (q.busy <=> r.busy) /\ q.snap = r.snap
  /\ \A r \in SaveType, b \in BOOLEAN : LET q == [r EXCEPT !.asked = b] IN
       (q.busy <=> r.busy) /\ q.snap = r.snap
  /\ \A r \in SaveType : LET q == [r EXCEPT !.busy = FALSE, !.snap = {}] IN
       (q.asked <=> r.asked) /\ ~q.busy /\ q.snap = {}
  BY Zenon DEF Unloaded, NoLoad, Quiet, LiveType, SaveType

LEMMA EntryValues ==
  /\ Idle.at = "idle" /\ Idle.entry = 0 /\ ~Idle.new /\ ~Idle.holding
  /\ \A r \in PassType, a \in Places : LET q == [r EXCEPT !.at = a] IN
       q.at = a /\ (q.holding <=> r.holding) /\ q.entry = r.entry /\ (q.new <=> r.new)
  /\ \A r \in PassType : LET q == [r EXCEPT !.holding = FALSE] IN
       q.at = r.at /\ q.entry = r.entry /\ (q.new <=> r.new)
  /\ \A r \in PassType, n \in Nat, a \in Places : LET q == [r EXCEPT !.at = a, !.since = n] IN
       q.at = a /\ (q.holding <=> r.holding) /\ q.entry = r.entry /\ (q.new <=> r.new)
  /\ \A r \in PassType, n \in Nat, a \in Places :
       LET q == [r EXCEPT !.at = a, !.entry = n, !.new = TRUE] IN
       q.at = a /\ (q.holding <=> r.holding) /\ q.entry = n /\ q.new
  /\ \A r \in PassType, n \in Nat, a \in Places :
       LET q == [r EXCEPT !.at = a, !.entry = n, !.new = FALSE] IN
       q.at = a /\ (q.holding <=> r.holding) /\ q.entry = n /\ ~q.new
  /\ \A r \in PassType, a \in Places :
       LET q == [r EXCEPT !.at = a, !.since = 0, !.entry = 0, !.new = FALSE] IN
       q.at = a /\ (q.holding <=> r.holding)
  BY Zenon DEF Idle, PassType, Places

LEMMA LedgerFields ==
  ASSUME TypeOK, NEW s \in Sessions
  PROVE  /\ live[s] \in LiveType /\ loading[s] \in LoadType /\ save[s] \in SaveType
         /\ pass[s] \in PassType /\ pass[s].at \in Places
         /\ live[s].ledger \in SUBSET Nat /\ save[s].snap \in SUBSET Nat
  BY DEF TypeOK, LiveType, SaveType, PassType

\* A step that leaves the session's lock operations and the lock alone.
LEMMA OpsStay ==
  ASSUME NEW s \in Sessions, op'[s] = op[s], lock' = lock, now' = now, Stepping(s)' => Stepping(s),
         OpsOwn(s), RailsNewest(s)
  PROVE  /\ OpsOwn(s)' /\ RailsNewest(s)'
         /\ TakingOver(s)' <=> TakingOver(s)
<1>1. OpsOwn(s)'
  BY DEF OpsOwn, Own, Took, Others
<1>2. RailsNewest(s)'
  BY DEF RailsNewest, Locking, Own
<1>3. TakingOver(s)' <=> TakingOver(s)
  BY DEF TakingOver, Took, Others
<1>4. QED
  BY <1>1, <1>2, <1>3


\* A session's loads.
LEMMA LoadsKeep ==
  ASSUME raced' = {}, TypeOK, LockInv, LedgerInv, NEW s \in Sessions,
         LoadStart(s) \/ LoadDone(s) \/ LoadFail(s)
  PROVE  LedgerOf(s)'
<1>1. LedgerOf(s) /\ store \subseteq 1..issued /\ store \in SUBSET Nat
  BY DEF LedgerInv, TypeOK
<1>2. op' = op /\ lock' = lock /\ now' = now /\ store' = store /\ issued' = issued /\ life' = life
  BY DEF LoadStart, LoadDone, LoadFail
<1>3. CASE LoadStart(s)
  <2>1. pass[s].at = "load" /\ ~live[s].loaded /\ ~loading[s].busy /\ live' = live /\ save' = save
    BY <1>3 DEF LoadStart, Run, If
  <2>2. \/ pass'[s] = Idle /\ loading' = loading
        \/ /\ pass' = pass /\ Own(lock, s)
           /\ loading'[s].busy /\ loading'[s].basis = lock /\ life[s] = "up"
    <3>1. Own(lock, s) \/ Refuses(lock, s, now)
      BY <1>3 DEF LoadStart, Run, If
    <3>2. QED
      BY <1>3, <2>1, <3>1 DEF LoadStart, TypeOK
  <2>3. ~Stepping(s)' /\ ~Stepping(s)
    BY <2>1, <2>2, EntryValues DEF Stepping
  <2>4. OpsOwn(s)' /\ RailsNewest(s)' /\ (TakingOver(s)' <=> TakingOver(s))
    BY <1>1, <1>2, <2>3, OpsStay DEF LedgerOf
  <2>5. LoadsOwn(s)'
    BY <1>1, <1>2, <2>1, <2>2 DEF LedgerOf, LoadsOwn, Own
  <2>6. EndedQuiet(s)'
    BY <1>1, <1>2, <2>1, <2>2 DEF LedgerOf, EndedQuiet
  <2>7. EntryOnce(s)'
    BY <1>1, <1>2, <2>1, <2>3 DEF LedgerOf, EntryOnce, Stepping
  <2>8. WholeLedger(s)'
    BY <1>1, <1>2, <2>1, <2>4 DEF LedgerOf, WholeLedger, Own
  <2>9. QED
    BY <2>4, <2>5, <2>6, <2>7, <2>8 DEF LedgerOf
<1>4. CASE LoadDone(s)
  <2>1. /\ loading[s].busy /\ ~loading'[s].busy /\ pass' = pass
        /\ live'[s].ledger = store /\ live'[s].loaded /\ live'[s].basis = loading[s].basis
    BY <1>4, LedgerValues DEF LoadDone, TypeOK
  <2>2. save'[s].busy = save[s].busy /\ save'[s].snap = save[s].snap
    BY <1>4, LedgerValues, LedgerFields DEF LoadDone, TypeOK
  <2>3. Stepping(s)' = Stepping(s)
    BY <2>1 DEF Stepping
  <2>4. OpsOwn(s)' /\ RailsNewest(s)' /\ (TakingOver(s)' <=> TakingOver(s))
    BY <1>1, <1>2, <2>3, OpsStay DEF LedgerOf
  <2>5. LoadsOwn(s)'
    BY <1>1, <1>2, <2>1 DEF LedgerOf, LoadsOwn, Own
  <2>6. EndedQuiet(s)'
    BY <1>1, <1>2, <2>1 DEF LedgerOf, EndedQuiet
  <2>7. EntryOnce(s)'
    BY <1>1, <1>2, <2>1, <2>2 DEF LedgerOf, LoadsOwn, EntryOnce
  <2>8. WholeLedger(s)'
    BY <1>1, <1>2, <2>1, <2>2, <2>4 DEF LedgerOf, LoadsOwn, WholeLedger, Own
  <2>9. QED
    BY <2>4, <2>5, <2>6, <2>7, <2>8 DEF LedgerOf
<1>5. CASE LoadFail(s)
  <2>1. /\ loading[s].busy /\ ~loading'[s].busy /\ live' = live /\ save' = save
        /\ pass[s].at = "load" /\ pass'[s] = Idle
    BY <1>1, <1>5, LedgerValues DEF LoadFail, TypeOK, LedgerOf, LoadsOwn
  <2>3. ~Stepping(s)' /\ ~Stepping(s)
    BY <2>1, EntryValues DEF Stepping
  <2>4. OpsOwn(s)' /\ RailsNewest(s)' /\ (TakingOver(s)' <=> TakingOver(s))
    BY <1>1, <1>2, <2>3, OpsStay DEF LedgerOf
  <2>5. LoadsOwn(s)'
    BY <1>1, <1>2, <2>1 DEF LedgerOf, LoadsOwn, Own
  <2>6. EndedQuiet(s)'
    BY <1>1, <1>2, <2>1 DEF LedgerOf, EndedQuiet
  <2>7. EntryOnce(s)'
    BY <1>1, <1>2, <2>1, <2>3 DEF LedgerOf, EntryOnce, Stepping
  <2>8. WholeLedger(s)'
    BY <1>1, <1>2, <2>1, <2>4 DEF LedgerOf, WholeLedger, Own
  <2>9. QED
    BY <2>4, <2>5, <2>6, <2>7, <2>8 DEF LedgerOf
<1>6. QED
  BY <1>3, <1>4, <1>5

\* Its saves.
LEMMA SavesKeep ==
  ASSUME raced' = {}, TypeOK, LockInv, LedgerInv, NEW s \in Sessions,
         SaveCheck(s) \/ SaveRefused(s) \/ SaveLand(s) \/ SaveFail(s)
  PROVE  LedgerOf(s)'
<1>1. LedgerOf(s) /\ store \subseteq 1..issued /\ store \in SUBSET Nat
  BY DEF LedgerInv, TypeOK
<1>2. op' = op /\ lock' = lock /\ now' = now /\ issued' = issued /\ life' = life /\ loading' = loading
  BY DEF SaveCheck, SaveRefused, SaveLand, SaveFail
<1>3. CASE SaveCheck(s)
  <2>1. /\ save[s].asked /\ ~save[s].busy /\ live' = live /\ store' = store
        /\ live[s].loaded /\ MayWrite(s)
        /\ ~save'[s].asked /\ save'[s].busy /\ save'[s].snap = live[s].ledger
    BY <1>3 DEF SaveCheck, TypeOK
  <2>2. /\ pass'[s].at = (IF pass[s].at = "saving" THEN "landing" ELSE pass[s].at)
        /\ pass'[s].entry = pass[s].entry
        /\ (pass'[s].new <=> pass[s].new) /\ (pass'[s].holding <=> pass[s].holding)
    <3> DEFINE a == IF pass[s].at = "saving" THEN "landing" ELSE pass[s].at
    <3>1. pass'[s] = [pass[s] EXCEPT !.at = a] /\ a \in Places
      BY <1>3, LedgerFields DEF SaveCheck, TypeOK, Places
    <3> HIDE DEF a
    <3>2. QED
      BY <3>1, LedgerFields, EntryValues DEF a
  <2>3. Own(lock, s) /\ now < lock.expiresAt /\ ~TakingOver(s)
    <3>1. Own(lock, s)
      BY <1>1, <2>1 DEF MayWrite, LedgerOf, LoadsOwn
    <3>2. SaveRaces(s) = {}
      BY <1>3 DEF SaveCheck, Run
    <3>3. ~(lock.expiresAt <= now)
      BY <3>1, <3>2 DEF SaveRaces, If
    <3>4. now < lock.expiresAt
      BY <3>1, <3>3, LeaseFields DEF Own, TypeOK
    <3>5. ~TakingOver(s)
      BY <3>2 DEF SaveRaces, If, TakingOver
    <3>6. QED
      BY <3>1, <3>4, <3>5
  <2>4. Stepping(s)' = Stepping(s)
    BY <2>2 DEF Stepping
  <2>5. OpsOwn(s)' /\ RailsNewest(s)' /\ (TakingOver(s)' <=> TakingOver(s))
    BY <1>1, <1>2, <2>4, OpsStay DEF LedgerOf
  <2>6. LoadsOwn(s)'
    BY <1>1, <1>2, <2>1, <2>2 DEF LedgerOf, LoadsOwn, Own
  <2>7. EndedQuiet(s)'
    BY <1>1, <1>2, <2>1 DEF LedgerOf, EndedQuiet
  <2>8. EntryOnce(s)'
    BY <1>1, <1>2, <2>1, <2>2 DEF LedgerOf, EntryOnce
  <2>9. WholeLedger(s)'
    BY <1>1, <1>2, <2>1, <2>3, <2>5 DEF LedgerOf, WholeLedger, Own
  <2>10. QED
    BY <2>5, <2>6, <2>7, <2>8, <2>9 DEF LedgerOf
<1>4. CASE SaveRefused(s)
  <2>1. /\ save[s].asked /\ ~save[s].busy /\ store' = store
        /\ ~save'[s].asked /\ ~save'[s].busy /\ save'[s].snap = save[s].snap
        /\ ~live'[s].loaded /\ live'[s].ledger = {}
        /\ ~live[s].loaded \/ ~MayWrite(s)
    BY <1>4, LedgerFields, LedgerValues DEF SaveRefused, LetGo, TypeOK
  <2>2. \/ pass'[s] = pass[s] /\ pass[s].at # "saving"
        \/ pass'[s].at = "plan" /\ pass[s].at = "saving"
    BY <1>4, PassValues DEF SaveRefused, TypeOK, Places
  <2>4. Stepping(s)' => Stepping(s)
    BY <2>2 DEF Stepping
  <2>5. OpsOwn(s)' /\ RailsNewest(s)' /\ (TakingOver(s)' <=> TakingOver(s))
    BY <1>1, <1>2, <2>4, OpsStay DEF LedgerOf
  <2>6. LoadsOwn(s)'
    BY <1>1, <1>2, <2>1, <2>2 DEF LedgerOf, LoadsOwn, Own
  <2>7. EndedQuiet(s)'
    BY <1>1, <1>2, <2>1 DEF LedgerOf, EndedQuiet
  <2>8. EntryOnce(s)'
    BY <1>1, <1>2, <2>1, <2>2 DEF LedgerOf, EntryOnce
  <2>9. WholeLedger(s)'
    BY <2>1 DEF WholeLedger
  <2>10. QED
    BY <2>5, <2>6, <2>7, <2>8, <2>9 DEF LedgerOf
<1>5. CASE SaveLand(s)
  <2>1. /\ save[s].busy /\ live' = live /\ store' = save[s].snap
        /\ save'[s].asked = save[s].asked /\ ~save'[s].busy /\ save'[s].snap = {}
    BY <1>5, LedgerFields, LedgerValues DEF SaveLand, TypeOK
  <2>2. /\ pass'[s].at = (IF pass[s].at = "landing" THEN "exec" ELSE pass[s].at)
        /\ pass'[s].entry = pass[s].entry
        /\ (pass'[s].new <=> pass[s].new) /\ (pass'[s].holding <=> pass[s].holding)
    <3> DEFINE a == IF pass[s].at = "landing" THEN "exec" ELSE pass[s].at
    <3>1. pass'[s] = [pass[s] EXCEPT !.at = a] /\ a \in Places
      BY <1>5, LedgerFields DEF SaveLand, TypeOK, Places
    <3> HIDE DEF a
    <3>2. QED
      BY <3>1, LedgerFields, EntryValues DEF a
  <2>4. Stepping(s)' = Stepping(s)
    BY <2>2 DEF Stepping
  <2>5. OpsOwn(s)' /\ RailsNewest(s)' /\ (TakingOver(s)' <=> TakingOver(s))
    BY <1>1, <1>2, <2>4, OpsStay DEF LedgerOf
  <2>6. LoadsOwn(s)'
    BY <1>1, <1>2, <2>1, <2>2 DEF LedgerOf, LoadsOwn, Own
  <2>7. EndedQuiet(s)'
    BY <1>1, <1>2, <2>1 DEF LedgerOf, EndedQuiet
  <2>8. EntryOnce(s)'
    BY <1>1, <1>2, <2>1, <2>2 DEF LedgerOf, EntryOnce, WholeLedger
  <2>9. WholeLedger(s)'
    BY <1>1, <1>2, <2>1, <2>5 DEF LedgerOf, WholeLedger, Own
  <2>10. QED
    BY <2>5, <2>6, <2>7, <2>8, <2>9 DEF LedgerOf
<1>6. CASE SaveFail(s)
  <2>1. /\ save[s].busy /\ store' = store
        /\ save'[s].asked = save[s].asked /\ ~save'[s].busy /\ save'[s].snap = {}
    BY <1>6, LedgerFields, LedgerValues DEF SaveFail, TypeOK
  <2>2. \/ pass' = pass /\ live' = live /\ pass[s].at # "landing"
        \/ /\ pass[s].at = "landing" /\ pass'[s].at = "plan"
           /\ (pass'[s].holding <=> pass[s].holding)
           /\ (live'[s].loaded <=> live[s].loaded) /\ live'[s].basis = live[s].basis
           /\ live'[s].ledger = (IF pass[s].new THEN live[s].ledger \ {pass[s].entry} ELSE live[s].ledger)
    <3>1. CASE pass[s].at = "landing"
      <4> DEFINE d == IF pass[s].new THEN live[s].ledger \ {pass[s].entry} ELSE live[s].ledger
      <4>1. /\ pass'[s] = [pass[s] EXCEPT !.at = "plan", !.since = 0, !.entry = 0, !.new = FALSE]
            /\ live'[s] = [live[s] EXCEPT !.ledger = d]
        BY <1>6, <3>1 DEF SaveFail, Unstart, TypeOK
      <4>2. d \in SUBSET Nat
        BY LedgerFields
      <4> HIDE DEF d
      <4>3. live'[s].ledger = d /\ (live'[s].loaded <=> live[s].loaded) /\ live'[s].basis = live[s].basis
        BY <4>1, <4>2, LedgerFields, LedgerValues
      <4>4. pass'[s].at = "plan" /\ (pass'[s].holding <=> pass[s].holding)
        BY <4>1, LedgerFields, EntryValues DEF Places
      <4>5. QED
        BY <3>1, <4>3, <4>4 DEF d
    <3>2. CASE pass[s].at # "landing"
      BY <1>6, <3>2 DEF SaveFail
    <3>3. QED
      BY <3>1, <3>2
  <2>4. Stepping(s)' => Stepping(s)
    BY <2>2 DEF Stepping
  <2>5. OpsOwn(s)' /\ RailsNewest(s)' /\ (TakingOver(s)' <=> TakingOver(s))
    BY <1>1, <1>2, <2>4, OpsStay DEF LedgerOf
  <2>6. LoadsOwn(s)'
    BY <1>1, <1>2, <2>1, <2>2 DEF LedgerOf, LoadsOwn, Own
  <2>7. EndedQuiet(s)'
    BY <1>1, <1>2, <2>1 DEF LedgerOf, EndedQuiet
  <2>8. EntryOnce(s)'
    BY <1>1, <1>2, <2>1, <2>2 DEF LedgerOf, EntryOnce
  <2>9. WholeLedger(s)'
    BY <1>1, <1>2, <2>1, <2>2, <2>5 DEF LedgerOf, WholeLedger, EntryOnce, Own
  <2>10. QED
    BY <2>5, <2>6, <2>7, <2>8, <2>9 DEF LedgerOf
<1>7. QED
  BY <1>3, <1>4, <1>5, <1>6


\* Its pass, between lock operations.
LEMMA PassKeeps ==
  ASSUME raced' = {}, TypeOK, LockInv, LedgerInv, NEW s \in Sessions,
         \/ HookMoves(s) \/ Loaded(s) \/ AskRenew(s) \/ StepDone(s) \/ PassEnd(s) \/ Start(s)
         \/ TimerRenew(s) /\ op' = op
  PROVE  LedgerOf(s)'
<1>1. LedgerOf(s) /\ store \subseteq 1..issued /\ store \in SUBSET Nat /\ issued \in Nat
  BY DEF LedgerInv, TypeOK
<1>2. op' = op /\ lock' = lock /\ now' = now /\ store' = store /\ life' = life /\ loading' = loading
  <2>1. CASE Start(s)
    BY <2>1, Starts
  <2>2. CASE ~Start(s)
    BY <2>2 DEF HookMoves, Loaded, AskRenew, StepDone, PassEnd, TimerRenew
  <2>3. QED
    BY <2>1, <2>2
<1>3. CASE HookMoves(s)
  <2>1. /\ life[s] = "up" /\ live[s].loaded /\ issued' = issued + 1 /\ pass' = pass
        /\ live'[s].ledger = live[s].ledger \cup {issued + 1}
        /\ (live'[s].loaded <=> live[s].loaded) /\ live'[s].basis = live[s].basis
    <3>1. live[s].ledger \cup {issued + 1} \in SUBSET Nat
      BY <1>1, LedgerFields
    <3>2. QED
      BY <1>3, <3>1, LedgerFields, LedgerValues DEF HookMoves, TypeOK
  <2>2. (save'[s].busy <=> save[s].busy) /\ save'[s].snap = save[s].snap
    BY <1>3, LedgerFields, LedgerValues DEF HookMoves, TypeOK
  <2>3. Stepping(s)' = Stepping(s)
    BY <2>1 DEF Stepping
  <2>4. OpsOwn(s)' /\ RailsNewest(s)' /\ (TakingOver(s)' <=> TakingOver(s))
    BY <1>1, <1>2, <2>3, OpsStay DEF LedgerOf
  <2>5. LoadsOwn(s)'
    BY <1>1, <1>2, <2>1 DEF LedgerOf, LoadsOwn, Own
  <2>6. EndedQuiet(s)'
    BY <1>2, <2>1 DEF EndedQuiet
  <2>7. EntryOnce(s)'
    BY <1>1, <1>2, <2>1, <2>2 DEF LedgerOf, EntryOnce
  <2>8. WholeLedger(s)'
    BY <1>1, <1>2, <2>1, <2>2, <2>4 DEF LedgerOf, WholeLedger, Own
  <2>9. QED
    BY <2>4, <2>5, <2>6, <2>7, <2>8 DEF LedgerOf
<1>4. CASE Loaded(s) \/ PassEnd(s)
  <2>1. /\ live' = live /\ save' = save /\ issued' = issued
        /\ \/ pass'[s].at = "plan" /\ pass'[s].holding /\ pass[s].at = "load" /\ live[s].loaded
           \/ pass'[s].at = "idle" /\ pass[s].at = "plan"
    <3>1. CASE Loaded(s)
      BY <1>4, <3>1, Zenon DEF Loaded, TypeOK, Idle
    <3>2. CASE PassEnd(s)
      BY <1>4, <3>2, EntryValues DEF PassEnd, TypeOK
    <3>3. QED
      BY <1>4, <3>1, <3>2
  <2>3. ~Stepping(s)' /\ ~Stepping(s)
    BY <2>1 DEF Stepping
  <2>4. OpsOwn(s)' /\ RailsNewest(s)' /\ (TakingOver(s)' <=> TakingOver(s))
    BY <1>1, <1>2, <2>3, OpsStay DEF LedgerOf
  <2>5. LoadsOwn(s)'
    BY <1>1, <1>2, <2>1 DEF LedgerOf, LoadsOwn, Own
  <2>6. EndedQuiet(s)'
    BY <1>1, <1>2, <2>1 DEF LedgerOf, EndedQuiet
  <2>7. EntryOnce(s)'
    BY <1>1, <1>2, <2>1, <2>3 DEF LedgerOf, EntryOnce, Stepping
  <2>8. WholeLedger(s)'
    BY <1>1, <1>2, <2>1, <2>4 DEF LedgerOf, WholeLedger, Own
  <2>9. QED
    BY <2>4, <2>5, <2>6, <2>7, <2>8 DEF LedgerOf
<1>5. CASE AskRenew(s)
  <2>1. /\ pass[s].at = "plan" /\ save' = save /\ issued' = issued
        /\ \/ /\ live[s].loaded /\ pass[s].holding /\ live' = live
              /\ pass'[s].at = "renew" /\ pass'[s].holding
           \/ /\ ~(live[s].loaded /\ pass[s].holding) /\ pass'[s] = Idle
              /\ ~live'[s].loaded /\ live'[s].ledger = {}
    <3>1. CASE pass[s].holding /\ live[s].loaded
      <4>1. pass'[s] = [pass[s] EXCEPT !.at = "renew"] /\ live' = live
        BY <1>5, <3>1 DEF AskRenew, TypeOK
      <4>2. pass'[s].at = "renew" /\ pass'[s].holding
        BY <3>1, <4>1, LedgerFields, EntryValues DEF Places
      <4>3. QED
        BY <1>5, <3>1, <4>1, <4>2 DEF AskRenew
    <3>2. CASE ~(pass[s].holding /\ live[s].loaded)
      BY <1>5, <3>2, LedgerValues DEF AskRenew, LetGo, TypeOK
    <3>3. QED
      BY <3>1, <3>2
  <2>3. ~Stepping(s)' /\ ~Stepping(s)
    BY <2>1, EntryValues DEF Stepping
  <2>4. OpsOwn(s)' /\ RailsNewest(s)' /\ (TakingOver(s)' <=> TakingOver(s))
    BY <1>1, <1>2, <2>3, OpsStay DEF LedgerOf
  <2>a. live'[s].loaded => live' = live
    BY <2>1
  <2>b. save[s].busy => live' = live
    BY <1>1, <2>1 DEF LedgerOf, WholeLedger, LoadsOwn
  <2>5. LoadsOwn(s)'
    BY <1>1, <1>2, <2>1, <2>a DEF LedgerOf, LoadsOwn, Own
  <2>6. EndedQuiet(s)'
    BY <1>1, <1>2, <2>1 DEF LedgerOf, EndedQuiet
  <2>7. EntryOnce(s)'
    BY <1>1, <1>2, <2>1, <2>3 DEF LedgerOf, EntryOnce, Stepping
  <2>8. WholeLedger(s)'
    BY <1>1, <1>2, <2>1, <2>4, <2>a, <2>b DEF LedgerOf, WholeLedger, Own
  <2>9. QED
    BY <2>4, <2>5, <2>6, <2>7, <2>8 DEF LedgerOf
<1>6. CASE StepDone(s)
  <2>1. /\ pass[s].at = "exec" /\ live' = live /\ issued' = issued
        /\ pass'[s].at = "plan" /\ (pass'[s].holding <=> pass[s].holding)
    BY <1>6, LedgerFields, EntryValues DEF StepDone, TypeOK, Places
  <2>2. (save'[s].busy <=> save[s].busy) /\ save'[s].snap = save[s].snap
    BY <1>6, Zenon, LedgerFields DEF StepDone, TypeOK, SaveType
  <2>3. ~Stepping(s)'
    BY <2>1 DEF Stepping
  <2>4. OpsOwn(s)' /\ RailsNewest(s)' /\ (TakingOver(s)' <=> TakingOver(s))
    BY <1>1, <1>2, <2>3, OpsStay DEF LedgerOf
  <2>5. LoadsOwn(s)'
    BY <1>1, <1>2, <2>1 DEF LedgerOf, LoadsOwn, Own
  <2>6. EndedQuiet(s)'
    <3>1. life[s] = "up"
      BY <2>1 DEF LockInv, EndedIdle
    <3>2. QED
      BY <1>2, <3>1 DEF EndedQuiet
  <2>7. EntryOnce(s)'
    BY <1>1, <1>2, <2>1, <2>2 DEF LedgerOf, EntryOnce
  <2>8. WholeLedger(s)'
    BY <1>1, <1>2, <2>1, <2>2, <2>4 DEF LedgerOf, WholeLedger, Own
  <2>9. QED
    BY <2>4, <2>5, <2>6, <2>7, <2>8 DEF LedgerOf
<1>7. CASE TimerRenew(s) /\ op' = op
  <2>1. /\ live' = live /\ save' = save /\ issued' = issued /\ pass'[s].at = pass[s].at
        /\ pass'[s].entry = pass[s].entry /\ (pass'[s].new <=> pass[s].new)
        /\ pass'[s] = pass[s] \/ ~live[s].loaded
    <3>1. CASE live[s].loaded
      BY <1>7, <3>1 DEF TimerRenew
    <3>2. CASE ~live[s].loaded
      <4>1. pass'[s] = [pass[s] EXCEPT !.holding = FALSE]
        BY <1>7, <3>2 DEF TimerRenew, TypeOK
      <4>2. QED
        BY <1>7, <3>2, <4>1, LedgerFields, EntryValues DEF TimerRenew
    <3>3. QED
      BY <3>1, <3>2
  <2>3. Stepping(s)' = Stepping(s)
    BY <2>1 DEF Stepping
  <2>4. OpsOwn(s)' /\ RailsNewest(s)' /\ (TakingOver(s)' <=> TakingOver(s))
    BY <1>1, <1>2, <2>3, OpsStay DEF LedgerOf
  <2>5. LoadsOwn(s)'
    BY <1>1, <1>2, <2>1 DEF LedgerOf, LoadsOwn, Own
  <2>6. EndedQuiet(s)'
    BY <1>1, <1>2, <2>1 DEF LedgerOf, EndedQuiet
  <2>7. EntryOnce(s)'
    BY <1>1, <1>2, <2>1 DEF LedgerOf, EntryOnce
  <2>8. WholeLedger(s)'
    BY <1>1, <1>2, <2>1, <2>4 DEF LedgerOf, WholeLedger, Own
  <2>9. QED
    BY <2>4, <2>5, <2>6, <2>7, <2>8 DEF LedgerOf
<1>8. CASE Start(s)
  <2>1. pass[s].at = "entry"
    BY <1>8, Starts
  <2>2. CASE StartsNothing(s)
    <3>1. /\ live' = live /\ save' = save /\ issued' = issued
          /\ pass'[s].at = "plan" /\ (pass'[s].holding <=> pass[s].holding)
      BY <2>2, LedgerFields, EntryValues DEF StartsNothing, TypeOK, Places
    <3>3. ~Stepping(s)'
      BY <3>1 DEF Stepping
    <3>4. OpsOwn(s)' /\ RailsNewest(s)' /\ (TakingOver(s)' <=> TakingOver(s))
      BY <1>1, <1>2, <3>3, OpsStay DEF LedgerOf
    <3>5. LoadsOwn(s)'
      BY <1>1, <1>2, <2>1, <3>1 DEF LedgerOf, LoadsOwn, Own
    <3>6. EndedQuiet(s)'
      BY <1>1, <1>2, <3>1 DEF LedgerOf, EndedQuiet
    <3>7. EntryOnce(s)'
      BY <1>1, <1>2, <3>1 DEF LedgerOf, EntryOnce
    <3>8. WholeLedger(s)'
      BY <1>1, <1>2, <3>1, <3>4 DEF LedgerOf, WholeLedger, Own
    <3>9. QED
      BY <3>4, <3>5, <3>6, <3>7, <3>8 DEF LedgerOf
  <2>3. ASSUME NEW e, StartsAgain(s, e) \/ StartsNew(s, e) PROVE LedgerOf(s)'
    <3>1. StartsOn(s, e) /\ e \in Nat /\ live[s].ledger \cup {e} \in SUBSET Nat
      <4>1. StartsOn(s, e)
        BY <2>3 DEF StartsAgain, StartsNew
      <4>2. e \in live[s].ledger \/ e = issued + 1
        BY <4>1 DEF StartsOn
      <4>3. QED
        BY <1>1, <4>1, <4>2, LedgerFields
    <3>2. /\ live[s].loaded /\ live'[s].loaded /\ live'[s].ledger = live[s].ledger \cup {e}
          /\ live'[s].basis = live[s].basis
      BY <3>1, LedgerFields, LedgerValues DEF StartsOn, TypeOK
    <3>3. (save'[s].busy <=> save[s].busy) /\ save'[s].snap = save[s].snap
      BY <3>1, LedgerFields, LedgerValues DEF StartsOn, TypeOK
    <3>4. /\ pass'[s].at = "saving" /\ (pass'[s].holding <=> pass[s].holding)
          /\ pass'[s].entry = e
          /\ (pass'[s].new /\ issued' = e /\ e > issued) \/ (~pass'[s].new /\ issued' = issued)
      <4>1. CASE StartsAgain(s, e)
        BY <3>1, <4>1, LedgerFields, EntryValues DEF StartsAgain, TypeOK, Places
      <4>2. CASE StartsNew(s, e)
        BY <3>1, <4>2, LedgerFields, EntryValues DEF StartsNew, TypeOK, Places
      <4>3. QED
        BY <2>3, <4>1, <4>2
    <3>5. live[s].ledger \subseteq 1..issued /\ save[s].snap \subseteq 1..issued
      BY <1>1 DEF LedgerOf, EntryOnce
    <3>6. Stepping(s)' = Stepping(s)
      BY <2>1, <3>4 DEF Stepping
    <3>7. OpsOwn(s)' /\ RailsNewest(s)' /\ (TakingOver(s)' <=> TakingOver(s))
      BY <1>1, <1>2, <3>6, OpsStay DEF LedgerOf
    <3>8. LoadsOwn(s)'
      BY <1>1, <1>2, <2>1, <3>2, <3>4 DEF LedgerOf, LoadsOwn, Own
    <3>9. EndedQuiet(s)'
      <4>1. life[s] = "up"
        BY <2>1 DEF LockInv, EndedIdle
      <4>2. QED
        BY <1>2, <4>1 DEF EndedQuiet
    <3>10. EntryOnce(s)'
      <4>1. CASE pass'[s].new /\ issued' = e /\ e > issued
        <5>1. e \in 1..e /\ 1..issued \subseteq 1..e /\ e \notin 1..issued
          BY <1>1, <3>1, <4>1
        <5>2. QED
          BY <1>1, <1>2, <3>2, <3>3, <3>4, <3>5, <4>1, <5>1 DEF EntryOnce
      <4>2. CASE ~pass'[s].new /\ issued' = issued
        <5>1. e \in live[s].ledger
          BY <1>1, <2>3, <3>1, <4>2, <3>4, <3>2 DEF StartsOn, StartsAgain, StartsNew
        <5>2. QED
          BY <1>1, <1>2, <3>2, <3>3, <3>4, <3>5, <4>2, <5>1 DEF EntryOnce
      <4>3. QED
        BY <3>4, <4>1, <4>2
    <3>11. WholeLedger(s)'
      BY <1>1, <1>2, <3>2, <3>3, <3>7 DEF LedgerOf, WholeLedger, Own
    <3>12. QED
      BY <3>7, <3>8, <3>9, <3>10, <3>11 DEF LedgerOf
  <2>4. QED
    BY <1>8, <2>2, <2>3, Starts
<1>9. QED
  BY <1>3, <1>4, <1>5, <1>6, <1>7, <1>8


\* A lock operation that begins.
LEMMA BeginsKeep ==
  ASSUME raced' = {}, TypeOK, LockInv, LedgerInv, NEW s \in Sessions,
         PassStart(s) \/ RenewStart(s) \/ End(s) \/ (TimerRenew(s) /\ live[s].loaded)
  PROVE  LedgerOf(s)'
<1>1. LedgerOf(s) /\ OpsKnow /\ EndedIdle /\ now \in Nat
      /\ (lock # NoLease => lock.expiresAt <= now + LeaseMs)
  BY DEF LedgerInv, TypeOK, LockInv
<1>2. /\ lock' = lock /\ now' = now /\ store' = store /\ issued' = issued /\ loading' = loading
      /\ live' = live /\ save' = save
  BY DEF PassStart, RenewStart, End, TimerRenew
<1>3. PICK k \in Slots, f \in Fors :
        /\ Begin(s, k, f) /\ op[s][k].stage = "none" /\ (f = "rails") = (k = "rails")
        /\ pass'[s].entry = pass[s].entry /\ (pass'[s].new <=> pass[s].new)
        /\ (pass'[s].holding <=> pass[s].holding)
        /\ \/ f = "rails" /\ pass[s].at = "idle" /\ pass'[s].at = "rails" /\ life' = life
           \/ f = "action" /\ pass[s].at = "renew" /\ pass'[s].at = "renewing" /\ life' = life
           \/ f = "timer" /\ pass' = pass /\ life' = life /\ pass[s].at \notin {"idle", "rails", "load"}
           \/ /\ f = "release" /\ pass' = pass /\ life'[s] = "ending" /\ pass[s].at = "idle"
              /\ ~save[s].asked /\ ~save[s].busy /\ ~loading[s].busy
  <2>1. CASE PassStart(s)
    <3>1. pass'[s] = [pass[s] EXCEPT !.at = "rails"] /\ pass[s].at = "idle"
          /\ Begin(s, "rails", "rails") /\ op[s]["rails"].stage = "none" /\ life' = life
      BY <2>1 DEF PassStart, TypeOK
    <3>2. QED
      BY <3>1, LedgerFields, EntryValues DEF Slots, Fors, Places
  <2>2. CASE RenewStart(s)
    <3>1. pass'[s] = [pass[s] EXCEPT !.at = "renewing"] /\ pass[s].at = "renew"
          /\ Begin(s, "lockOp", "action") /\ op[s]["lockOp"].stage = "none" /\ life' = life
      BY <2>2 DEF RenewStart, TypeOK
    <3>2. QED
      BY <3>1, LedgerFields, EntryValues DEF Slots, Fors, Places
  <2>3. CASE TimerRenew(s) /\ live[s].loaded
    BY <2>3 DEF TimerRenew, Slots, Fors
  <2>4. CASE End(s)
    <3>1. pass' = pass /\ life'[s] = "ending" /\ Begin(s, "lockOp", "release")
          /\ op[s]["lockOp"].stage = "none"
          /\ pass[s].at = "idle" /\ ~save[s].asked /\ ~save[s].busy /\ ~loading[s].busy
      BY <2>4 DEF End, Run, If, TypeOK
    <3>2. QED
      BY <3>1 DEF Slots, Fors
  <2>5. QED
    BY <2>1, <2>2, <2>3, <2>4
<1> DEFINE x == [NoOp EXCEPT !.stage = "read", !.for = f, !.now = now]
<1>4. op' = [op EXCEPT ![s][k] = x]
  BY <1>3 DEF Begin
<1>5. x.stage = "read" /\ x.for = f /\ x.now = now
  BY <1>1, OpValues
<1> HIDE DEF x
<1>6. op'[s][k] = x /\ \A j \in Slots : j # k => op'[s][j] = op[s][j]
  BY <1>4 DEF TypeOK
<1>7. TakingOver(s)' => TakingOver(s)
  BY <1>5, <1>6 DEF TakingOver, Took, Others
<1>a. TakingOver(s) => TakingOver(s)'
  BY <1>3, <1>5, <1>6 DEF TakingOver, Took, Others
<1>8. Stepping(s)' => Stepping(s)
  BY <1>3 DEF Stepping
<1>9. OpsOwn(s)'
  <2>1. OpsOwn(s) /\ x.stage = "read" /\ \A j \in Slots : op'[s][j] = op[s][j] \/ op'[s][j] = x
    BY <1>1, <1>5, <1>6 DEF LedgerOf
  <2>2. QED
    BY <2>1, <1>8 DEF OpsOwn, Own, Took, Others, Slots
<1>10. RailsNewest(s)'
  <2>1. CASE f = "rails"
    <3>1. k = "rails" /\ op'[s]["rails"] = x /\ op'[s]["lockOp"] = op[s]["lockOp"]
      BY <1>3, <1>6, <2>1 DEF Slots
    <3>2. OpKnows(s, "lockOp") \/ op[s]["lockOp"].stage = "none"
      BY <1>1 DEF OpsKnow, Slots
    <3>3. Locking(s)' => op[s]["lockOp"].for = "timer" /\ op[s]["lockOp"].now <= now
      <4>0. op[s]["lockOp"] \in OpType
        BY DEF TypeOK, Slots
      <4>f. op[s]["lockOp"].for \in Fors
        BY <4>0 DEF OpType
      <4>i. pass[s].at = "idle"
        BY <1>3, <2>1
      <4>1. pass[s].at = "idle" /\ op[s]["lockOp"].for \in Fors
        BY <4>f, <4>i
      <4>2. life[s] = "up"
        BY <2>1, <1>3, <1>4 DEF PassStart, RenewStart, TimerRenew, End
      <4>3. QED
        BY <3>1, <3>2, <4>1, <4>2 DEF OpKnows, Locking, Fors
    <3>4. QED
      BY <1>1, <1>2, <1>5, <3>1, <3>3 DEF RailsNewest, Own
  <2>2. CASE f # "rails"
    <3>1. k = "lockOp" /\ op'[s]["rails"] = op[s]["rails"]
      BY <1>3, <1>6, <2>2 DEF Slots
    <3>2. op[s]["rails"].stage # "none" => pass[s].at = "rails"
      BY <1>1 DEF OpsKnow, OpKnows, Slots
    <3>3. op[s]["rails"].stage = "none"
      BY <1>3, <2>2, <3>2
    <3>4. QED
      BY <3>1, <3>3 DEF RailsNewest
  <2>3. QED
    BY <2>1, <2>2
<1>11. LoadsOwn(s)'
  BY <1>1, <1>2, <1>3 DEF LedgerOf, LoadsOwn, Own
<1>12. EndedQuiet(s)'
  <2>1. life' = life \/ f = "release"
    BY <1>3
  <2>2. QED
    BY <1>1, <1>2, <1>3, <2>1 DEF LedgerOf, EndedQuiet
<1>13. EntryOnce(s)'
  BY <1>1, <1>2, <1>3 DEF LedgerOf, EntryOnce
<1>14. WholeLedger(s)'
  BY <1>1, <1>2, <1>7, <1>a DEF LedgerOf, WholeLedger, Own
<1>15. QED
  BY <1>9, <1>10, <1>11, <1>12, <1>13, <1>14 DEF LedgerOf

\* A session that loses its memory.
LEMMA CrashKeeps ==
  ASSUME TypeOK, LedgerInv, NEW s \in Sessions, Crash(s)
  PROVE  LedgerOf(s)'
<1>1. /\ pass'[s] = Idle /\ life'[s] = "up" /\ live'[s] = Unloaded /\ loading'[s] = NoLoad
      /\ save'[s] = Quiet /\ \A j \in Slots : op'[s][j] = NoOp
  BY DEF Crash, TypeOK
<1>2. NoOp.stage = "none"
  BY OpValues
<1>3. Idle.at = "idle" /\ ~Unloaded.loaded /\ Unloaded.ledger = {} /\ ~NoLoad.busy
      /\ ~Quiet.asked /\ ~Quiet.busy /\ Quiet.snap = {}
  BY LedgerValues, EntryValues
<1>4. OpsOwn(s)' /\ RailsNewest(s)'
  BY <1>1, <1>2, <1>3 DEF OpsOwn, RailsNewest, Stepping, Slots
<1>5. LoadsOwn(s)' /\ EndedQuiet(s)' /\ EntryOnce(s)' /\ WholeLedger(s)'
  BY <1>1, <1>3 DEF LoadsOwn, EndedQuiet, EntryOnce, WholeLedger
<1>6. QED
  BY <1>4, <1>5 DEF LedgerOf

\* The clock.
LEMMA TickKeeps == ASSUME raced' = {}, TypeOK, LedgerInv, Tick PROVE LedgerInv'
<1>1. /\ now' = now + 1 /\ UNCHANGED <<lock, store, issued, life, live, loading, save, pass, op>>
      /\ \A s \in Sessions : save[s].busy /\ Own(lock, s) => now + 1 < lock.expiresAt
  <2>1. ~(\E s \in Sessions : save[s].busy /\ Own(lock, s) /\ lock.expiresAt <= now + 1)
    BY DEF Tick, Run, If
  <2>2. lock # NoLease => lock.expiresAt \in Nat
    BY LeaseFields DEF TypeOK
  <2>3. ASSUME NEW s \in Sessions, save[s].busy, Own(lock, s) PROVE now + 1 < lock.expiresAt
    BY <2>1, <2>2, <2>3 DEF Own, TypeOK
  <2>4. QED
    BY <2>3 DEF Tick
<1>2. lock # NoLease => lock.expiresAt <= now' + LeaseMs
  <2>1. lock # NoLease => lock.expiresAt \in Nat
    BY LeaseFields DEF TypeOK
  <2>2. QED
    BY <1>1, <2>1, LeaseAssumption DEF LedgerInv, TypeOK
<1>3. ASSUME NEW s \in Sessions PROVE LedgerOf(s)'
  <2>1. LedgerOf(s)
    BY DEF LedgerInv
  <2>2. TakingOver(s)' = TakingOver(s)
    BY <1>1 DEF TakingOver, Took, Others
  <2>3. OpsOwn(s)' /\ RailsNewest(s)' /\ LoadsOwn(s)' /\ EndedQuiet(s)' /\ EntryOnce(s)'
    BY <1>1, <2>1 DEF LedgerOf, OpsOwn, RailsNewest, LoadsOwn, EndedQuiet, EntryOnce, Stepping,
       Locking, Own, Took, Others
  <2>4. WholeLedger(s)'
    BY <1>1, <2>1, <2>2 DEF LedgerOf, WholeLedger, Own
  <2>5. QED
    BY <2>3, <2>4 DEF LedgerOf
<1>4. QED
  BY <1>1, <1>2, <1>3 DEF LedgerInv


\* A lock operation that reads and goes on to write.
ReadsOn(s, k) ==
  /\ op[s][k].stage = "read" /\ (op[s][k].for = "release" => Own(lock, s))
  /\ op' = [op EXCEPT ![s][k] = [@ EXCEPT !.stage = "write", !.read = lock]]
  /\ UNCHANGED <<now, lock, store, issued, life, live, loading, save, pass>>

LEMMA ReadKeeps ==
  ASSUME TypeOK, LockInv, LedgerInv, NEW s \in Sessions, NEW k \in Slots,
         ReadsOn(s, k)
  PROVE  LedgerOf(s)'
<1>1. LedgerOf(s) /\ op[s][k] \in OpType /\ lock \in LockText
  BY DEF LedgerInv, TypeOK
<1>0. /\ op[s][k].stage = "read" /\ (op[s][k].for = "release" => Own(lock, s))
      /\ UNCHANGED <<now, lock, store, issued, life, live, loading, save, pass>>
  BY DEF ReadsOn
<1> DEFINE x == [op[s][k] EXCEPT !.stage = "write", !.read = lock]
<1>2. x.stage = "write" /\ x.for = op[s][k].for /\ x.now = op[s][k].now /\ x.read = lock
  BY <1>1, OpValues
<1>4. op'[s][k] = x /\ \A j \in Slots : j # k => op'[s][j] = op[s][j]
  BY DEF ReadsOn, TypeOK
<1> HIDE DEF x
<1>5. Stepping(s) => Own(lock, s)
  BY DEF LockInv, StepsCovered
<1>6. OpsOwn(s)'
  BY <1>0, <1>1, <1>2, <1>4, <1>5 DEF LedgerOf, OpsOwn, Own, Took, Others, Stepping, Slots
<1>7. RailsNewest(s)'
  BY <1>0, <1>1, <1>2, <1>4 DEF LedgerOf, RailsNewest, Locking, Own, Slots
<1>8. TakingOver(s)' <=> TakingOver(s)
  BY <1>0, <1>2, <1>4 DEF TakingOver, Took, Others
<1>9. (LoadsOwn(s) /\ EndedQuiet(s) /\ EntryOnce(s) /\ WholeLedger(s))'
  BY <1>0, <1>1, <1>8 DEF LedgerOf, LoadsOwn, EndedQuiet, EntryOnce, WholeLedger, Own
<1>10. QED
  BY <1>6, <1>7, <1>9 DEF LedgerOf

\* A compare-and-set: what lands extends an own lease, or takes one over.
LEMMA WriteKeeps ==
  ASSUME raced' = {}, TypeOK, LockInv, LedgerInv, NEW s \in Sessions, NEW k \in Slots, OpWrite(s, k)
  PROVE  LedgerOf(s)' /\ (lock' # NoLease => lock'.expiresAt <= now + LeaseMs)
<1>1. /\ LedgerOf(s) /\ op[s][k] \in OpType /\ lock \in LockText /\ op[s][k].stage = "write"
      /\ OpKnows(s, k) /\ now \in Nat /\ (lock # NoLease => lock.expiresAt <= now + LeaseMs)
  BY DEF LedgerInv, TypeOK, OpWrite, LockInv, OpsKnow
<1>2. PICK r \in {"written", "changed"} :
        /\ op' = [op EXCEPT ![s][k] = [@ EXCEPT !.stage = "back", !.wrote = r]]
        /\ \/ r = "written" /\ lock = op[s][k].read /\ lock' = NewText(s, op[s][k])
           \/ r = "changed" /\ lock' = lock
  BY DEF OpWrite, Run, If
<1>3. UNCHANGED <<now, store, issued, life, live, loading, save, pass>>
  BY DEF OpWrite
<1> DEFINE x == [op[s][k] EXCEPT !.stage = "back", !.wrote = r]
<1>4. x.stage = "back" /\ x.for = op[s][k].for /\ x.now = op[s][k].now /\ x.wrote = r
      /\ x.read = op[s][k].read
  BY <1>1, OpValues DEF Results
<1>5. op' = [op EXCEPT ![s][k] = x]
  BY <1>2
<1> HIDE DEF x
<1>6. op'[s][k] = x /\ \A j \in Slots : j # k => op'[s][j] = op[s][j]
  BY <1>5 DEF TypeOK
<1>7. /\ Stepping(s) => Own(lock, s)
      /\ op[s][k].for = "release" => Own(op[s][k].read, s) /\ life[s] = "ending"
      /\ Stepping(s) /\ k = "lockOp" => ~Took(s, op[s][k])
  BY <1>1 DEF LockInv, StepsCovered, OpKnows, LedgerOf, OpsOwn
<1>8. OpsOwn(s)'
  BY <1>1, <1>2, <1>3, <1>4, <1>6, <1>7 DEF LedgerOf, OpsOwn, Own, Took, Others, Stepping, Slots
<1>9. CASE r = "changed"
  <2>1. lock' = lock
    BY <1>2, <1>9
  <2>2. TakingOver(s)' <=> TakingOver(s)
    BY <1>1, <1>4, <1>6, <1>9 DEF TakingOver, Took, Others
  <2>3. RailsNewest(s)'
    BY <1>1, <1>3, <1>4, <1>6, <2>1 DEF LedgerOf, RailsNewest, Locking, Own, Slots
  <2>4. (LoadsOwn(s) /\ EndedQuiet(s) /\ EntryOnce(s) /\ WholeLedger(s))'
    BY <1>1, <1>3, <2>1, <2>2 DEF LedgerOf, LoadsOwn, EndedQuiet, EntryOnce, WholeLedger, Own
  <2>5. QED
    BY <1>1, <1>8, <2>1, <2>3, <2>4 DEF LedgerOf
<1>10. CASE r = "written"
  <2> DEFINE o == op[s][k]
  <2>1. lock = o.read /\ lock' = NewText(s, o)
    BY <1>2, <1>10
  <2>2. /\ Own(lock', s) /\ lock' \in Lease /\ o.now \in Nat /\ o.now <= now
        /\ o.for # "release" => lock'.expiresAt = o.now + LeaseMs
        /\ o.for = "release" => Own(lock, s) /\ lock'.expiresAt <= lock.expiresAt
    BY <1>1, <2>1, LockMoves DEF LockInv
  <2>3. lock # NoLease => lock.expiresAt \in Nat
    BY <1>1, LeaseFields
  <2>4. LeaseMs \in Nat /\ StepMs \in Nat /\ StepMs < LeaseMs /\ lock'.expiresAt \in Nat
    BY <2>2, LeaseAssumption, LeaseFields
  <2>5. lock'.expiresAt <= now + LeaseMs
    BY <1>1, <2>2, <2>3, <2>4 DEF Own
  <2>6. RailsNewest(s)'
    <3>1. CASE k = "rails"
      BY <1>1, <1>3, <1>4, <1>6, <3>1 DEF LedgerOf, RailsNewest, Locking, Slots
    <3>2. CASE k = "lockOp"
      <4>1. ASSUME op[s]["rails"].stage # "none" PROVE o.for = "timer" /\ o.now <= op[s]["rails"].now
        BY <1>1, <3>2, <4>1 DEF LedgerOf, RailsNewest, Locking
      <4>0. op[s]["rails"] \in OpType
        BY DEF TypeOK, Slots
      <4>2. op[s]["rails"].now \in Nat
        BY <4>0 DEF OpType
      <4>3. op'[s]["rails"] = op[s]["rails"] /\ op'[s]["lockOp"].for = o.for
            /\ op'[s]["lockOp"].now = o.now
        BY <1>4, <1>6, <3>2 DEF Slots
      <4>4. op[s]["rails"].stage # "none" => lock'.expiresAt <= op[s]["rails"].now + LeaseMs
        BY <2>2, <2>4, <4>1, <4>2
      <4>5. QED
        BY <4>1, <4>3, <4>4 DEF RailsNewest, Locking
    <3>3. QED
      BY <3>1, <3>2 DEF Slots
  <2>7. LoadsOwn(s)' /\ EndedQuiet(s)' /\ EntryOnce(s)'
    BY <1>1, <1>3, <2>2, LeaseFields DEF LedgerOf, LoadsOwn, EndedQuiet, EntryOnce, Own
  <2>8. Own(lock, s) => (TakingOver(s)' <=> TakingOver(s))
    BY <1>1, <1>4, <1>6, <2>1 DEF TakingOver, Took, Others, Own
  <2>9. live[s].loaded /\ ~TakingOver(s)' => Own(lock, s)
    <3>1. live[s].loaded => lock # NoLease
      BY <1>1 DEF LedgerOf, LoadsOwn
    <3>2. ~Own(lock, s) /\ lock # NoLease => TakingOver(s)'
      BY <1>4, <1>6, <1>10, <2>1 DEF TakingOver, Took, Others, Own
    <3>3. QED
      BY <3>1, <3>2
  <2>10. save[s].busy => now < lock'.expiresAt
    <3> SUFFICES ASSUME save[s].busy PROVE now < lock'.expiresAt
      OBVIOUS
    <3>1. Own(lock, s) /\ now < lock.expiresAt
      BY <1>1 DEF LedgerOf, WholeLedger
    <3>2. o.for # "release"
      BY <1>1, <1>7 DEF LedgerOf, EndedQuiet
    <3>3. CASE k = "rails"
      <4>1. lock.expiresAt <= o.now + LeaseMs
        BY <1>1, <3>1, <3>3 DEF LedgerOf, RailsNewest
      <4>2. QED
        BY <1>1, <2>2, <2>3, <2>4, <3>1, <3>2, <4>1 DEF Own
    <3>4. CASE k = "lockOp"
      <4>1. now <= o.now + StepMs
        BY <1>1, <3>4 DEF OpKnows
      <4>2. QED
        BY <1>1, <2>2, <2>4, <3>2, <4>1
    <3>5. QED
      BY <3>3, <3>4 DEF Slots
  <2>11. WholeLedger(s)'
    BY <1>1, <1>3, <2>2, <2>8, <2>9, <2>10 DEF LedgerOf, WholeLedger
  <2>12. QED
    BY <1>8, <2>5, <2>6, <2>7, <2>11 DEF LedgerOf
<1>11. QED
  BY <1>2, <1>9, <1>10


\* A lock operation that ends: a takeover lets the memory go, and under a save on its
\* way no operation of the session does.
LEMMA FinishKeeps ==
  ASSUME TypeOK, LockInv, LedgerInv, NEW s \in Sessions, NEW k \in Slots, NEW held, NEW took,
         op[s][k].stage # "none", Finish(s, k, held, took),
         UNCHANGED <<now, lock, store, issued, loading, save>>,
         save[s].busy => held /\ ~took,
         op[s][k].stage = "back" /\ op[s][k].wrote = "written" /\ Took(s, op[s][k]) /\ Own(lock, s)
           => held /\ took
  PROVE  LedgerOf(s)'
<1>1. LedgerOf(s) /\ OpKnows(s, k) /\ op[s][k].for \in Fors
  <2>1. LedgerOf(s) /\ OpKnows(s, k)
    BY DEF LedgerInv, LockInv, OpsKnow
  <2>2. op[s][k] \in OpType
    BY DEF TypeOK
  <2>3. QED
    BY <2>1, <2>2 DEF OpType
<1>2. /\ (op[s][k].for = "rails") = (k = "rails")
      /\ op[s][k].for = "rails" => pass[s].at = "rails"
      /\ op[s][k].for = "action" => pass[s].at = "renewing"
      /\ op[s][k].for = "release" => life[s] = "ending"
  BY <1>1 DEF OpKnows
<1>3. op'[s][k] = NoOp /\ \A j \in Slots : j # k => op'[s][j] = op[s][j]
  BY DEF Finish, TypeOK
<1>4. NoOp.stage = "none"
  BY OpValues
<1>5. \/ live'[s] = live[s]
      \/ ~live'[s].loaded /\ live'[s].ledger = {}
  BY LedgerValues DEF Finish, LetGo, TypeOK
<1>6. save[s].busy => live'[s] = live[s]
  BY DEF Finish, LetGo
<1>7. \/ pass'[s] = pass[s]
      \/ pass[s].at \in {"rails", "renewing"} /\ pass'[s].at \in {"idle", "load"}
      \/ /\ op[s][k].for = "action" /\ pass'[s].at = "entry" /\ live'[s] = live[s]
         /\ (pass'[s].holding <=> pass[s].holding)
      \/ /\ pass'[s].at = pass[s].at /\ pass'[s].entry = pass[s].entry
         /\ (pass'[s].new <=> pass[s].new) /\ ~live'[s].loaded
  <2>1. CASE op[s][k].for = "rails"
    <3>1. pass'[s] = [Idle EXCEPT !.at = "load"] \/ pass'[s] = Idle
      BY <2>1 DEF Finish, TypeOK
    <3>2. pass'[s].at \in {"idle", "load"}
      BY <3>1 DEF Idle
    <3>3. QED
      BY <1>2, <2>1, <3>2
  <2>2. CASE op[s][k].for = "action" /\ held /\ ~took
    <3>1. pass'[s] = [pass[s] EXCEPT !.at = "entry", !.since = op[s][k].now] /\ live' = live
      BY <2>2 DEF Finish, TypeOK
    <3>2. op[s][k] \in OpType
      BY DEF TypeOK
    <3>3. op[s][k].now \in Nat
      BY <3>2 DEF OpType
    <3>4. pass'[s].at = "entry" /\ (pass'[s].holding <=> pass[s].holding)
      BY <3>1, <3>3, LedgerFields, EntryValues DEF Places
    <3>5. QED
      BY <2>2, <3>1, <3>4
  <2>3. CASE op[s][k].for = "action" /\ ~(held /\ ~took)
    BY <1>2, <2>3, EntryValues DEF Finish, TypeOK
  <2>4. CASE op[s][k].for = "timer" /\ ~(held /\ ~took)
    <3>1. pass'[s] = [pass[s] EXCEPT !.holding = FALSE] /\ live'[s] = Unloaded
      BY <2>4 DEF Finish, LetGo, TypeOK
    <3>2. QED
      BY <3>1, LedgerFields, EntryValues, LedgerValues
  <2>5. CASE op[s][k].for = "timer" /\ held /\ ~took
    BY <2>5 DEF Finish
  <2>6. CASE op[s][k].for = "release"
    BY <2>6 DEF Finish
  <2>7. QED
    BY <1>1, <2>1, <2>2, <2>3, <2>4, <2>5, <2>6 DEF Fors
<1>8. TakingOver(s)' => TakingOver(s)
  BY <1>3, <1>4 DEF TakingOver, Took, Others
<1>9. TakingOver(s) /\ Own(lock, s) /\ live'[s].loaded => TakingOver(s)'
  <2> SUFFICES ASSUME TakingOver(s), Own(lock, s), ~TakingOver(s)' PROVE ~live'[s].loaded
    OBVIOUS
  <2>1. op[s][k].stage = "back" /\ op[s][k].wrote = "written" /\ Took(s, op[s][k])
    BY <1>3 DEF TakingOver, Took, Others
  <2>2. held /\ took
    BY <2>1
  <2>3. op[s][k].for # "release"
    BY <1>1, <2>1 DEF LedgerOf, OpsOwn, Took, Others, Own
  <2>4. live'[s] = Unloaded
    BY <1>1, <2>2, <2>3 DEF Finish, LetGo, TypeOK, Fors
  <2>5. QED
    BY <2>4, LedgerValues
<1>10. OpsOwn(s)'
  <2>1. Stepping(s)' /\ ~Stepping(s) => k = "lockOp"
    BY <1>2, <1>7 DEF Stepping, Slots
  <2>2. QED
    BY <1>1, <1>3, <1>4, <2>1 DEF LedgerOf, OpsOwn, Own, Took, Others, Slots
<1>11. RailsNewest(s)'
  BY <1>1, <1>3, <1>4 DEF LedgerOf, RailsNewest, Locking, Own, Slots
<1>12. LoadsOwn(s)'
  BY <1>1, <1>2, <1>5, <1>7 DEF LedgerOf, LoadsOwn, Own
<1>13. EndedQuiet(s)'
  BY <1>1, <1>2 DEF LedgerOf, EndedQuiet, Finish
<1>14. EntryOnce(s)'
  BY <1>1, <1>5, <1>7 DEF LedgerOf, EntryOnce
<1>15. WholeLedger(s)'
  BY <1>1, <1>5, <1>6, <1>8, <1>9 DEF LedgerOf, WholeLedger, Own
<1>16. QED
  BY <1>10, <1>11, <1>12, <1>13, <1>14, <1>15 DEF LedgerOf

\* Every step keeps a ledger whole, while none of the named races took place.
LEMMA LedgerStep ==
  ASSUME raced' = {}, TypeOK, LockInv, LedgerInv, [Next]_vars
  PROVE  LedgerInv'
<1>1. CASE Tick
  BY <1>1, TickKeeps
<1>2. ASSUME NEW s \in Sessions, Acts(s) PROVE LedgerInv'
  <2>1. LedgerOf(s)' /\ (lock' # NoLease => lock'.expiresAt <= now + LeaseMs)
    <3>a. lock # NoLease => lock.expiresAt <= now + LeaseMs
      BY DEF LedgerInv
    <3>1. CASE \E k \in Slots : OpRead(s, k)
      <4>1. PICK k \in Slots : OpRead(s, k)
        BY <3>1
      <4>2. lock' = lock
        BY <4>1 DEF OpRead
      <4>3. CASE /\ Finish(s, k, FALSE, FALSE)
                 /\ \/ op[s][k].for = "release" /\ ~Own(lock, s)
                    \/ op[s][k].for # "release" /\ Refuses(lock, s, op[s][k].now)
        <5>1. ~Own(lock, s) /\ op[s][k].stage = "read"
              /\ UNCHANGED <<now, lock, store, issued, loading, save>>
          BY <4>1, <4>3 DEF OpRead, Refuses, Others, Own
        <5>2. ~save[s].busy
          BY <5>1 DEF LedgerInv, LedgerOf, WholeLedger
        <5>3. QED
          BY <4>2, <4>3, <5>1, <5>2, <3>a, FinishKeeps
      <4>4. CASE /\ op' = [op EXCEPT ![s][k] = [@ EXCEPT !.stage = "write", !.read = lock]]
                 /\ ~(op[s][k].for = "release" /\ ~Own(lock, s)) /\ UNCHANGED <<live, pass, life>>
        <5>1. ReadsOn(s, k)
          BY <4>1, <4>4 DEF OpRead, ReadsOn
        <5>2. LedgerOf(s)'
          BY <5>1, ReadKeeps
        <5>3. QED
          BY <4>2, <5>2, <3>a
      <4>5. QED
        BY <4>1, <4>3, <4>4 DEF OpRead
    <3>2. CASE \E k \in Slots : OpWrite(s, k)
      BY <3>2, WriteKeeps
    <3>3. CASE \E k \in Slots : OpBack(s, k)
      <4>1. PICK k \in Slots : OpBack(s, k)
        BY <3>3
      <4> DEFINE o == op[s][k]
      <4>2. /\ o.stage = "back" /\ UNCHANGED <<now, lock, store, issued, loading, save>>
            /\ Finish(s, k, Held(s, o), Took(s, o) /\ o.wrote = "written")
        BY <4>1 DEF OpBack
      <4>3. o.wrote \in {"written", "changed"} /\ o.now <= now
        BY <4>2 DEF LedgerInv, LedgerOf, OpsOwn, LockInv, OpsKnow, OpKnows
      <4>4. save[s].busy => Held(s, o) /\ ~(Took(s, o) /\ o.wrote = "written")
        <5> SUFFICES ASSUME save[s].busy PROVE Held(s, o) /\ ~(Took(s, o) /\ o.wrote = "written")
          OBVIOUS
        <5>1. Own(lock, s) /\ now < lock.expiresAt /\ ~TakingOver(s)
          BY DEF LedgerInv, LedgerOf, WholeLedger
        <5>2. o \in OpType /\ lock \in Lease /\ now \in Nat
          BY <5>1 DEF TypeOK, Own, LockText, Lease
        <5>3. o.now \in Nat /\ lock.expiresAt \in Nat
          BY <5>2 DEF OpType, Lease
        <5>4. o.now < lock.expiresAt
          BY <4>3, <5>1, <5>2, <5>3
        <5>5. QED
          BY <4>2, <4>3, <5>1, <5>4 DEF Held, TakingOver
      <4>5. o.wrote = "written" /\ Took(s, o) /\ Own(lock, s) => Held(s, o)
        BY DEF Held
      <4>6. QED
        BY <4>2, <4>4, <4>5, <3>a, FinishKeeps
    <3>4. CASE LoadStart(s) \/ LoadDone(s) \/ LoadFail(s)
      BY <3>4, <3>a, LoadsKeep DEF LoadStart, LoadDone, LoadFail
    <3>5. CASE SaveCheck(s) \/ SaveRefused(s) \/ SaveLand(s) \/ SaveFail(s)
      <4>1. lock' = lock
        BY <3>5 DEF SaveCheck, SaveRefused, SaveLand, SaveFail
      <4>2. QED
        BY <3>5, <3>a, <4>1, SavesKeep
    <3>6. CASE HookMoves(s) \/ Loaded(s) \/ AskRenew(s) \/ StepDone(s) \/ PassEnd(s)
      <4>1. lock' = lock
        BY <3>6 DEF HookMoves, Loaded, AskRenew, StepDone, PassEnd
      <4>2. QED
        BY <3>6, <3>a, <4>1, PassKeeps
    <3>7. CASE Start(s)
      BY <3>7, <3>a, Starts, PassKeeps
    <3>8. CASE PassStart(s) \/ RenewStart(s) \/ End(s)
      BY <3>8, <3>a, BeginsKeep DEF PassStart, RenewStart, End
    <3>9. CASE TimerRenew(s)
      <4>1. lock' = lock /\ (live[s].loaded \/ op' = op)
        BY <3>9 DEF TimerRenew
      <4>2. QED
        BY <3>9, <3>a, <4>1, PassKeeps, BeginsKeep
    <3>10. CASE Crash(s)
      BY <3>10, <3>a, CrashKeeps DEF Crash
    <3>11. QED
      BY <1>2, <3>1, <3>2, <3>3, <3>4, <3>5, <3>6, <3>7, <3>8, <3>9, <3>10 DEF Acts, MayRace, SessionStep
  <2>2. \A t \in Sessions : t # s => LedgerOf(t)'
    BY <1>2, OthersKeep
  <2>3. now' = now /\ store' \subseteq 1..issued'
    <3>1. LedgerOf(s) /\ store \subseteq 1..issued
      BY DEF LedgerInv
    <3>2. /\ now' = now /\ issued \in Nat /\ issued' \in Nat /\ issued <= issued'
          /\ store' = store \/ (save[s].busy /\ store' = save[s].snap)
      BY <1>2, SharedMoves DEF TypeOK
    <3>3. save[s].snap \subseteq 1..issued
      BY <3>1 DEF LedgerOf, EntryOnce
    <3>4. 1..issued \subseteq 1..issued'
      BY <3>2
    <3>5. QED
      BY <3>1, <3>2, <3>3, <3>4
  <2>4. QED
    BY <2>1, <2>2, <2>3 DEF LedgerInv
<1>3. CASE UNCHANGED vars
  BY <1>3 DEF vars, LedgerInv, LedgerOf, OpsOwn, RailsNewest, LoadsOwn, EndedQuiet, EntryOnce,
     WholeLedger, TakingOver, Stepping, Locking, Own, Took, Others
<1>4. QED
  BY <1>1, <1>2, <1>3, NextActs

\* Until the first of the named races takes place (a save on a lapsed lease or before its
\* takeover is seen, a load without an own lease, a failed lock command, a session.end
\* under a pass), a session that may save has the whole store in memory, no save on its
\* way lacks an entry of it, and no other session's lease or clock runs into one
\* (driver-store.ts persist, rails.ts holdActLock), for any number of sessions, entries
\* and any lease longer than a step.
THEOREM LedgerInvariant == Spec => [](raced = {} => LedgerInv)
<1>1. Init => LedgerInv
  <2> SUFFICES ASSUME Init PROVE LedgerInv
    OBVIOUS
  <2>1. ASSUME NEW s \in Sessions PROVE LedgerOf(s)
    <3>1. /\ life[s] = "up" /\ live[s] = Unloaded /\ loading[s] = NoLoad /\ save[s] = Quiet
          /\ pass[s] = Idle /\ \A k \in Slots : op[s][k] = NoOp
      BY DEF Init
    <3>2. NoOp.stage = "none" /\ Idle.at = "idle"
      BY OpValues, EntryValues
    <3>3. OpsOwn(s) /\ RailsNewest(s)
      BY <3>1, <3>2 DEF OpsOwn, RailsNewest, Stepping, Slots
    <3>4. LoadsOwn(s) /\ EndedQuiet(s) /\ EntryOnce(s) /\ WholeLedger(s)
      BY <3>1, <3>2, LedgerValues DEF LoadsOwn, EndedQuiet, EntryOnce, WholeLedger
    <3>5. QED
      BY <3>3, <3>4 DEF LedgerOf
  <2>2. QED
    BY <2>1 DEF Init, LedgerInv
<1>2. Spec => []("busy-end" \notin raced => LockInv)
  BY LockInvariant
<1>3. TypeOK /\ ("busy-end" \notin raced => LockInv) /\ (raced = {} => LedgerInv) /\ [Next]_vars
        => (raced = {} => LedgerInv)'
  BY LedgerStep, RacesStay
<1>4. QED
  BY <1>1, <1>2, <1>3, TypeCorrect, PTL DEF Spec

\* Until the first of the named races, each of which breaks it, a session that takes a
\* step has in memory every entry any session saved.
THEOREM WholeLedgerActs == Spec => []ActsOnWholeLedger
<1>1. LockInv /\ LedgerInv => WholeLedgerHeld
  <2> SUFFICES ASSUME LockInv, LedgerInv, NEW s \in Sessions, Stepping(s), live[s].loaded
               PROVE  store \subseteq live[s].ledger
    BY DEF WholeLedgerHeld
  <2>1. Own(lock, s)
    BY DEF LockInv, StepsCovered
  <2>2. op[s]["rails"].stage = "none"
    BY DEF LockInv, OpsKnow, OpKnows, Stepping, Slots
  <2>3. ~TakingOver(s)
    BY <2>2 DEF LedgerInv, LedgerOf, OpsOwn, TakingOver, Slots
  <2>4. QED
    BY <2>1, <2>3 DEF LedgerInv, LedgerOf, WholeLedger
<1>2. ("busy-end" \notin raced => LockInv) /\ (raced = {} => LedgerInv) => ActsOnWholeLedger
  BY <1>1 DEF ActsOnWholeLedger
<1>3. QED
  BY <1>2, LockInvariant, LedgerInvariant, PTL

\* Until the first of the named races, a step's entry is in the store while the step runs.
THEOREM SavedFirst == Spec => [](raced = {} => SavedBeforeRun)
<1>1. LedgerInv => SavedBeforeRun
  BY DEF LedgerInv, LedgerOf, EntryOnce, SavedBeforeRun
<1>2. QED
  BY <1>1, LedgerInvariant, PTL

\* Until the first of the named races, each of which breaks it, no save writes over an
\* entry that is in the store.
THEOREM NothingOverwritten == Spec => NothingLost
<1>1. TypeOK /\ (raced = {} => LedgerInv) /\ [Next]_vars => [raced' = {} => store \subseteq store']_vars
  <2> SUFFICES ASSUME TypeOK, raced = {} => LedgerInv, Next, raced' = {} PROVE store \subseteq store'
    BY DEF vars
  <2>0. LedgerInv
    BY RacesStay
  <2>1. CASE Tick
    BY <2>1 DEF Tick
  <2>2. ASSUME NEW s \in Sessions, Acts(s) PROVE store \subseteq store'
    <3>1. store' = store \/ (save[s].busy /\ store' = save[s].snap)
      BY <2>2, SharedMoves
    <3>2. QED
      BY <2>0, <3>1 DEF LedgerInv, LedgerOf, WholeLedger
  <2>3. QED
    BY <2>1, <2>2 DEF Next, Acts
<1>2. QED
  BY <1>1, LedgerInvariant, TypeCorrect, PTL DEF Spec, NothingLost
============================================================================
