----------------------------- MODULE WakesProofs -----------------------------
(***************************************************************************)
(* Wakes for any keys and number of prompts, turns, reloads and restarts:  *)
(* one is open at a time, and each ends by its own turn or answer, or, where *)
(* it took another prompt's turn, by one of its kind and name.             *)
(*                                                                         *)
(* The thread from a prompt to the entry it ends is a turn's number: every *)
(* place that names a turn (the main loop, the hook queue, an open entry   *)
(* that took no other's) names it with the same wake id (OneId), an open   *)
(* entry's id is none or the one its own executor took (Entries), and an   *)
(* id stands for the key it was taken for (KinInv).                        *)
(*                                                                         *)
(* The thread from an entry back to its prompts is that id: a prompt queued *)
(* with it is the wake's own (Owned), there is one first prompt of a key    *)
(* (QueuedOnce), and what may go out again was never shown (Unasked).       *)
(***************************************************************************)
EXTENDS Wakes, SequenceTheorems, FiniteSetTheorems, TLAPS

\* an entry's ids: where it took no other prompt's turn (m), a done one's end is its own, and an open
\* one's is its own or not there yet
EntryOK(m, k, e) ==
  /\ e.status = "done" /\ k \notin m => e.by = e.mine
  /\ e.status = "running" => e.attempts >= 1 /\ (e.turn # 0 => e.id # 0) /\ (k \notin m => e.id \in {0, e.mine})

Entries == \A k \in Keys : ledger[k] # None => EntryOK(misled, k, ledger[k])

\* what the pass is about to start, or has started, and what it goes back to
Unstarted(e) == e = None \/ (e.status = "lost" /\ e.attempts = 0)
Planned == todo # None => exec = Idle /\ OneWake(ledger, todo)
Executing ==
  exec # Idle =>
    /\ Unstarted(exec.prev)
    /\ ledger[exec.key] # None
    /\ exec.phase = "saved" => /\ ledger[exec.key].mine = 0
                               /\ exec.key \notin misled => Runs(ledger, exec.key) /\ ledger[exec.key].id = 0
    /\ exec.phase # "saved" => exec.id # 0 /\ ledger[exec.key].mine = exec.id

\* where turn n stands with wake id i: in the main loop, the hook queue, an open entry
Names(n, i) ==
  \/ turn # None /\ turn.n = n /\ turn.id = i
  \/ \E j \in DOMAIN hooks : hooks[j].on # "drop" /\ hooks[j].n = n /\ hooks[j].id = i
  \/ \E k \in Keys \ misled : Runs(ledger, k) /\ ledger[k].turn # 0 /\ ledger[k].turn = n /\ ledger[k].id = i
OneId ==
  /\ \A n, i \in Nat : Names(n, i) => n <= turns
  /\ \A n, i, j \in Nat : Names(n, i) /\ Names(n, j) => i = j

WakesInv == TypeOK /\ Entries /\ OneOpen /\ Planned /\ Executing /\ OneId

----------------------------------------------------------------------------
(* The records and the sequences *)

LEMMA EntryFields ==
  ASSUME NEW e \in Entry
  PROVE  /\ e.status \in Ended \cup {"running"} /\ e.attempts \in Nat /\ e.at \in Nat /\ e.id \in Nat
         /\ e.turn \in Nat /\ e.reminded \in BOOLEAN /\ e.mine \in Nat /\ e.by \in Nat /\ e # None
  BY NoneAssumption DEF Entry

LEMMA EntryEnded ==
  ASSUME NEW e \in Entry, NEW i \in Nat
  PROVE  LET f == [e EXCEPT !.status = "done", !.by = i] IN
         f \in Entry /\ f.status = "done" /\ f.by = i /\ f.mine = e.mine
  BY DEF Entry, Ended

LEMMA EntryReminded ==
  ASSUME NEW e \in Entry
  PROVE  LET f == [e EXCEPT !.reminded = TRUE] IN
         /\ f \in Entry /\ f.status = e.status /\ f.attempts = e.attempts /\ f.id = e.id
         /\ f.turn = e.turn /\ f.mine = e.mine
  BY DEF Entry

LEMMA LedgerFields ==
  ASSUME TypeOK, NEW k \in Keys
  PROVE  /\ ledger[k] \in Entry \cup {None}
         /\ ledger[k] # None => ledger[k] \in Entry
         /\ Runs(ledger, k) => ledger[k] \in Entry
  BY DEF TypeOK, Runs

LEMMA ExecFields ==
  ASSUME TypeOK
  PROVE  /\ exec.phase \in {"idle", "saved", "grace", "dropped", "settled"}
         /\ exec.phase = "idle" <=> exec = Idle
         /\ exec # Idle => exec.key \in Keys /\ exec.prev \in Entry \cup {None} /\ exec.id \in Nat
  BY DEF TypeOK, Execs, Idle

LEMMA PhaseKept ==
  ASSUME TypeOK, exec # Idle, NEW ph \in {"saved", "grace", "dropped", "settled"}
  PROVE  LET e == [exec EXCEPT !.phase = ph] IN
         /\ e \in Execs /\ e # Idle /\ e.phase = ph
         /\ e.key = exec.key /\ e.prev = exec.prev /\ e.id = exec.id
  BY DEF TypeOK, Execs, Idle

LEMMA TurnFields ==
  ASSUME TypeOK, turn # None
  PROVE  turn.n \in Nat \ {0} /\ turn.id \in Nat
  BY DEF TypeOK, Turn

LEMMA HookFields ==
  ASSUME NEW h \in Hook
  PROVE  /\ h.on \in {"start", "end", "drop"}
         /\ h.on = "start" => h.n \in Nat \ {0} /\ h.key \in Keys /\ h.id \in Nat \ {0}
         /\ h.on = "end" => h.n \in Nat \ {0} /\ h.id \in Nat /\ h.said \in BOOLEAN /\ h.answer \in Nat
         /\ h.on = "drop" => h.id \in Nat \ {0}
  BY DEF Hook

LEMMA PromptFields ==
  ASSUME NEW p \in Prompt
  PROVE  p.key \in Keys /\ p.id \in Nat \ {0} /\ p.reminder \in BOOLEAN /\ p.watched \in BOOLEAN
  BY DEF Prompt

LEMMA RemoveAtType ==
  ASSUME NEW S, NEW s \in Seq(S), NEW i \in DOMAIN s
  PROVE  RemoveAt(s, i) \in Seq(S)
<1>1. i \in 1..Len(s) /\ Len(s) \in Nat /\ \A j \in 1..Len(s) : s[j] \in S
  OBVIOUS
<1>2. SubSeq(s, 1, i - 1) \in Seq(S)
  <2>1. 1 \in Int /\ i - 1 \in Int /\ \A j \in 1..(i - 1) : s[j] \in S
    BY <1>1
  <2> QED BY <2>1, SubSeqProperties
<1>3. SubSeq(s, i + 1, Len(s)) \in Seq(S)
  <2>1. i + 1 \in Int /\ Len(s) \in Int /\ \A j \in (i + 1)..Len(s) : s[j] \in S
    BY <1>1
  <2> QED BY <2>1, SubSeqProperties
<1> QED BY <1>2, <1>3, ConcatProperties DEF RemoveAt

LEMMA SetToSeqType ==
  ASSUME NEW S, IsFiniteSet(S)
  PROVE  SetToSeq(S) \in Seq(S)
<1>1. Cardinality(S) \in Nat /\ ExistsBijection(1..Cardinality(S), S)
  BY FS_CardinalityType
<1>2. \E f \in [1..Cardinality(S) -> S] : IsInjective(f)
  BY <1>1 DEF ExistsBijection, Bijection, Injection
<1>3. SetToSeq(S) \in [1..Cardinality(S) -> S]
  BY <1>2 DEF SetToSeq
<1> QED BY <1>1, <1>3

----------------------------------------------------------------------------
(* What the hooks, the passes and the tool do to an open entry *)

\* an open entry e becomes f: its own id stays, and only a wake already submitted is touched
\* while a pass stays in its submit
Changed(k, e, f) ==
  /\ e # None /\ e.status = "running" /\ (exec' = Idle \/ e.mine # 0 \/ k \in misled')
  /\ f \in Entry /\ f.mine = e.mine /\ EntryOK(misled', k, f)

Touched ==
  /\ ledger' \in [Keys -> Entry \cup {None}]
  /\ \A k \in Keys : ledger'[k] = ledger[k] \/ Changed(k, ledger[k], ledger'[k])

\* Whatever touches only open entries this way keeps what is known of them.
LEMMA Touch ==
  ASSUME WakesInv, Touched, misled \subseteq misled', exec' \in {exec, Idle}
  PROVE  Entries' /\ OneOpen' /\ (todo' \in {todo, None} => Planned') /\ Executing'
<1> USE DEF WakesInv
<1>1. \A k \in Keys : Runs(ledger', k) => Runs(ledger, k)
  BY DEF Touched, Changed, Runs
<1>2. Entries'
  BY EntryFields DEF Entries, Touched, Changed, EntryOK
<1>3. OneOpen'
  BY <1>1 DEF OneOpen
<1>4. ASSUME todo' \in {todo, None} PROVE Planned'
  <2>1. ASSUME todo # None PROVE exec' = Idle /\ OneWake(ledger', todo)
    <3>1. exec = Idle /\ OneWake(ledger, todo) /\ todo \in Keys
      BY <2>1 DEF Planned, TypeOK
    <3>2. ledger'[todo] = ledger[todo]
      BY <3>1 DEF Touched, Changed, OneWake, Open, Runs
    <3> QED BY <1>1, <3>1, <3>2 DEF OneWake, Go, Open
  <2> QED BY <1>4, <2>1 DEF Planned
<1>5. Executing'
  <2>1. SUFFICES ASSUME exec # Idle, exec' = exec
                 PROVE  /\ Unstarted(exec.prev)'
                        /\ ledger'[exec.key] # None
                        /\ exec.phase = "saved" =>
                             /\ ledger'[exec.key].mine = 0
                             /\ exec.key \notin misled' => Runs(ledger', exec.key) /\ ledger'[exec.key].id = 0
                        /\ exec.phase # "saved" => exec.id # 0 /\ ledger'[exec.key].mine = exec.id
    BY DEF Executing, Idle
  <2>2. exec.key \in Keys
    BY <2>1, ExecFields
  <2>3. Unstarted(exec.prev)'
    BY <2>1 DEF Executing, Unstarted, EntryOK
  <2>4. ledger'[exec.key] # None /\ ledger'[exec.key].mine = ledger[exec.key].mine
    BY <2>1, <2>2, EntryFields DEF Touched, Changed, Executing
  <2>5. ASSUME exec.phase = "saved", exec.key \notin misled' PROVE ledger'[exec.key] = ledger[exec.key]
    BY <2>1, <2>2, <2>5 DEF Touched, Changed, Executing
  <2>6. exec.phase = "saved" => /\ ledger'[exec.key].mine = 0
                                /\ exec.key \notin misled' => Runs(ledger', exec.key) /\ ledger'[exec.key].id = 0
    BY <2>1, <2>4, <2>5 DEF Executing, Runs
  <2>7. exec.phase # "saved" => exec.id # 0 /\ ledger'[exec.key].mine = exec.id
    BY <2>1, <2>4 DEF Executing
  <2> QED BY <2>3, <2>4, <2>6, <2>7
<1> QED BY <1>2, <1>3, <1>4, <1>5

\* Where every place that names a turn after the step names it as some place did before it, a
\* turn has one wake id.
LEMMA NamesKept ==
  ASSUME OneId, turns' = turns,
         turn' # None => Names(turn'.n, turn'.id),
         \A j \in DOMAIN hooks' : hooks'[j].on # "drop" => Names(hooks'[j].n, hooks'[j].id),
         \A k \in Keys \ misled' : Runs(ledger', k) /\ ledger'[k].turn # 0 => Names(ledger'[k].turn, ledger'[k].id)
  PROVE  OneId'
<1>1. \A n, i \in Nat : Names(n, i)' => Names(n, i)
  <2>1. TAKE n, i \in Nat
  <2>2. HAVE Names(n, i)'
  <2>3. CASE turn' # None /\ turn'.n = n /\ turn'.id = i
    BY <2>3
  <2>4. CASE \E j \in DOMAIN hooks' : hooks'[j].on # "drop" /\ hooks'[j].n = n /\ hooks'[j].id = i
    BY <2>4
  <2>5. CASE \E k \in Keys \ misled' : Runs(ledger', k) /\ ledger'[k].turn # 0 /\ ledger'[k].turn = n /\ ledger'[k].id = i
    BY <2>5
  <2> QED BY <2>2, <2>3, <2>4, <2>5 DEF Names
<1> QED BY <1>1 DEF OneId

\* the places of a turn, one by one
LEMMA NamesOf ==
  /\ turn # None => Names(turn.n, turn.id)
  /\ \A j \in DOMAIN hooks : hooks[j].on # "drop" => Names(hooks[j].n, hooks[j].id)
  /\ \A k \in Keys \ misled : Runs(ledger, k) /\ ledger[k].turn # 0 => Names(ledger[k].turn, ledger[k].id)
  BY DEF Names

\* A hook run leaves the others as they were.
LEMMA HookRun ==
  ASSUME TypeOK, hooks # <<>>, hooks' = Tail(hooks)
  PROVE  /\ Head(hooks) \in Hook /\ hooks' \in Seq(Hook)
         /\ Head(hooks).on # "drop" => Names(Head(hooks).n, Head(hooks).id)
         /\ \A j \in DOMAIN hooks' : hooks'[j].on # "drop" => Names(hooks'[j].n, hooks'[j].id)
<1>1. hooks \in Seq(Hook) /\ Len(hooks) \in Nat \ {0} /\ Head(hooks) = hooks[1] /\ 1 \in DOMAIN hooks
  BY DEF TypeOK
<1>2. Head(hooks) \in Hook /\ hooks' \in Seq(Hook)
  BY <1>1, HeadTailProperties
<1>3. \A j \in DOMAIN hooks' : j + 1 \in DOMAIN hooks /\ hooks'[j] = hooks[j + 1]
  BY <1>1, HeadTailProperties
<1> QED BY <1>1, <1>2, <1>3, NamesOf

----------------------------------------------------------------------------
(* The actions *)

\* What most actions leave to show: the entries they touch, and the turns' names.
LEMMA Keeps ==
  ASSUME WakesInv, TypeOK', Touched, misled \subseteq misled', turns' = turns, exec' \in {exec, Idle}, todo' \in {todo, None},
         turn' # None => Names(turn'.n, turn'.id),
         \A j \in DOMAIN hooks' : hooks'[j].on # "drop" => Names(hooks'[j].n, hooks'[j].id),
         \A k \in Keys \ misled' : Runs(ledger', k) /\ ledger'[k].turn # 0 => Names(ledger'[k].turn, ledger'[k].id)
  PROVE  WakesInv'
<1>1. OneId'
  BY NamesKept DEF WakesInv
<1> QED BY <1>1, Touch DEF WakesInv

\* a step that leaves the ledger alone
LEMMA LedgerKept ==
  ASSUME TypeOK, ledger' = ledger, misled \subseteq misled'
  PROVE  /\ Touched
         /\ \A k \in Keys \ misled' : Runs(ledger', k) /\ ledger'[k].turn # 0 => Names(ledger'[k].turn, ledger'[k].id)
  BY NamesOf DEF TypeOK, Touched

\* a step that only ends open entries
LEMMA EndsKeep ==
  ASSUME WakesInv, misled \subseteq misled', ledger' \in [Keys -> Entry \cup {None}],
         \A k \in Keys : \/ ledger'[k] = ledger[k]
                         \/ /\ Runs(ledger, k) /\ (exec' = Idle \/ ledger[k].mine # 0 \/ k \in misled')
                            /\ ledger'[k] \in Entry /\ ledger'[k].status # "running"
                            /\ ledger'[k].mine = ledger[k].mine /\ ledger'[k].turn = ledger[k].turn
                            /\ ledger'[k].status = "done" /\ k \notin misled' => ledger'[k].by = ledger'[k].mine
  PROVE  /\ Touched
         /\ \A k \in Keys \ misled' : Runs(ledger', k) /\ ledger'[k].turn # 0 => Names(ledger'[k].turn, ledger'[k].id)
<1>1. Touched
  BY DEF WakesInv, Entries, Touched, Changed, Runs, EntryOK
<1>2. \A k \in Keys : Runs(ledger', k) => ledger'[k] = ledger[k] /\ Runs(ledger, k)
  BY DEF Runs
<1> QED BY <1>1, <1>2, NamesOf

LEMMA PlanStep ==
  ASSUME WakesInv, Plan
  PROVE  WakesInv'
<1>1. \A k \in Keys : \/ ledger'[k] = ledger[k]
                      \/ /\ Runs(ledger, k) /\ ledger'[k] \in Entry /\ ledger'[k].status = "timed-out"
                         /\ ledger'[k].mine = ledger[k].mine /\ ledger'[k].turn = ledger[k].turn
  <2>1. TAKE k \in Keys
  <2>2. CASE ledger'[k] # ledger[k]
    <3>1. Runs(ledger, k) /\ ledger'[k] = [ledger[k] EXCEPT !.status = "timed-out"]
      BY <2>2 DEF Plan, Expired
    <3>2. ledger[k] \in Entry
      BY <3>1, LedgerFields DEF WakesInv
    <3> QED BY <3>1, <3>2 DEF Entry, Ended
  <2> QED BY <2>2
<1>2. ledger' \in [Keys -> Entry \cup {None}]
  BY <1>1, LedgerFields DEF WakesInv, Plan, Expired
<1>3. Touched /\ \A k \in Keys \ misled' : Runs(ledger', k) /\ ledger'[k].turn # 0 => Names(ledger'[k].turn, ledger'[k].id)
  BY <1>1, <1>2, EndsKeep DEF Plan
<1>4. TypeOK'
  BY <1>2 DEF WakesInv, TypeOK, Plan
<1>5. OneId'
  BY <1>3, NamesKept, NamesOf DEF WakesInv, Plan
<1>6. Planned'
  BY DEF Plan, Planned
<1> QED BY <1>3, <1>4, <1>5, <1>6, Touch DEF WakesInv, Plan

LEMMA StartStep ==
  ASSUME WakesInv, Start
  PROVE  WakesInv'
<1> DEFINE e == [status |-> "running", attempts |-> IF ledger[todo] = None THEN 1 ELSE ledger[todo].attempts + 1,
                 at |-> now, id |-> 0, turn |-> 0, reminded |-> FALSE, mine |-> 0, by |-> 0]
<1>1. todo \in Keys /\ exec = Idle /\ OneWake(ledger, todo)
  BY DEF WakesInv, TypeOK, Planned, Start
<1>2. ledger' = [ledger EXCEPT ![todo] = e]
  BY DEF Start
<1>3. ledger[todo] = None \/ (ledger[todo] \in Entry /\ ledger[todo].status = "lost" /\ ledger[todo].attempts = 0)
  <2>1. ledger[todo] \in Entry \cup {None}
    BY <1>1, LedgerFields DEF WakesInv
  <2> QED BY <1>1, <2>1 DEF OneWake, Go
<1>4. e \in Entry /\ e.status = "running" /\ e.attempts >= 1 /\ e.id = 0 /\ e.turn = 0 /\ e.mine = 0
  BY <1>3 DEF Entry, WakesInv, TypeOK
<1> HIDE DEF e
<1>5. ledger \in [Keys -> Entry \cup {None}] /\ turns \in Nat
  BY DEF WakesInv, TypeOK
<1>6. exec' = [phase |-> "saved", key |-> todo, prev |-> ledger[todo], id |-> 0]
  BY DEF Start
<1>7. TypeOK'
  <2>1. exec' \in Execs
    BY <1>1, <1>5, <1>6 DEF Execs
  <2>2. ledger' \in [Keys -> Entry \cup {None}]
    BY <1>2, <1>4, <1>5
  <2> QED BY <2>1, <2>2 DEF WakesInv, TypeOK, Start
<1>8. \A k \in Keys : k # todo => ledger'[k] = ledger[k] /\ ~Runs(ledger, k)
  BY <1>1, <1>2, <1>5 DEF OneWake, Open
<1>9. ledger'[todo] = e /\ e # None
  BY <1>1, <1>2, <1>4, <1>5, EntryFields
<1>10. Entries'
  BY <1>4, <1>5, <1>8, <1>9 DEF WakesInv, Entries, EntryOK, Start
<1>11. OneOpen'
  BY <1>8 DEF OneOpen, Runs
<1>12. Planned'
  BY DEF Planned, Start
<1>13. Executing'
  <2>1. PICK p : p = ledger[todo]
    OBVIOUS
  <2>2. exec'.prev = p /\ exec'.key = todo /\ exec'.phase = "saved"
    BY <1>6, <2>1
  <2>3. Unstarted(exec.prev)'
    <3>1. p = None \/ (p.status = "lost" /\ p.attempts = 0)
      BY <1>1, <1>3, <2>1 DEF WakesInv, Entries
    <3>2. turns' = turns
      BY DEF Start
    <3> QED BY <2>2, <3>1, <3>2 DEF Unstarted, EntryOK
  <2> QED BY <1>4, <1>9, <2>2, <2>3 DEF Executing, Runs
<1>14. OneId'
  <2>1. \A k \in Keys \ misled' : Runs(ledger', k) /\ ledger'[k].turn # 0 => Names(ledger'[k].turn, ledger'[k].id)
    BY <1>4, <1>8, <1>9 DEF Runs
  <2> QED BY <2>1, NamesKept, NamesOf DEF WakesInv, Start
<1> QED BY <1>7, <1>10, <1>11, <1>12, <1>13, <1>14 DEF WakesInv

LEMMA HoldStep ==
  ASSUME WakesInv, Hold
  PROVE  WakesInv'
<1>1. TypeOK'
  BY DEF WakesInv, TypeOK, Hold
<1> QED BY <1>1, Keeps, LedgerKept, NamesOf DEF WakesInv, Hold

LEMMA SubmitStep ==
  ASSUME WakesInv, Submit
  PROVE  WakesInv'
<1> DEFINE key == exec.key
           new == [ledger[key] EXCEPT !.mine = lastId']
           p == [key |-> key, id |-> lastId', reminder |-> FALSE, watched |-> TRUE]
<1>1. exec # Idle /\ key \in Keys /\ exec.prev \in Entry \cup {None} /\ lastId \in Nat
  BY ExecFields DEF WakesInv, TypeOK, Submit, Idle
<1>2. lastId' = lastId + 1 /\ lastId' \in Nat \ {0}
  BY <1>1 DEF Submit
<1>3. /\ ledger[key].mine = 0 /\ ledger[key] # None /\ ledger[key] \in Entry /\ misled' = misled
      /\ key \notin misled => Runs(ledger, key) /\ ledger[key].id = 0
  BY <1>1, LedgerFields DEF WakesInv, Executing, Submit
<1>4. key \notin misled => ledger[key].turn = 0
  BY <1>1, <1>3, EntryFields DEF WakesInv, Entries, EntryOK, Runs
<1>5. /\ new \in Entry /\ new.status = ledger[key].status /\ new.attempts = ledger[key].attempts
      /\ new.id = ledger[key].id /\ new.turn = ledger[key].turn /\ new.mine = lastId' /\ new.by = ledger[key].by
  BY <1>2, <1>3 DEF Entry
<1>6. ledger' = [ledger EXCEPT ![key] = new] /\ ledger \in [Keys -> Entry \cup {None}]
  BY DEF Submit, WakesInv, TypeOK
<1>7. /\ exec' \in Execs /\ exec' # Idle /\ exec'.phase = "grace" /\ exec'.key = key
      /\ exec'.prev = exec.prev /\ exec'.id = lastId'
  <2>1. exec' = [exec EXCEPT !.phase = "grace", !.id = lastId']
    BY DEF Submit
  <2>2. exec \in Execs
    BY DEF WakesInv, TypeOK
  <2> QED BY <1>1, <1>2, <2>1, <2>2 DEF Execs, Idle
<1> HIDE DEF new
<1>8. ledger'[key] = new /\ new # None /\ \A k \in Keys : k # key => ledger'[k] = ledger[k]
  BY <1>1, <1>5, <1>6, EntryFields
<1>9. TypeOK'
  <2>1. p \in Prompt
    BY <1>1, <1>2 DEF Prompt
  <2>2. queue' \in Seq(Prompt) /\ asked' \in [Ids -> Keys \cup {None}]
    <3>1. queue' = Append(queue, p) /\ queue \in Seq(Prompt)
      BY DEF Submit, WakesInv, TypeOK
    <3>2. asked' = [asked EXCEPT ![lastId'] = key] /\ asked \in [Ids -> Keys \cup {None}]
      BY DEF Submit, WakesInv, TypeOK
    <3>3. asked' \in [Ids -> Keys \cup {None}]
      BY <1>1, <3>2
    <3> QED BY <2>1, <3>1, <3>3, AppendProperties
  <2>3. ledger' \in [Keys -> Entry \cup {None}]
    BY <1>5, <1>6
  <2> QED BY <1>2, <1>7, <2>2, <2>3 DEF WakesInv, TypeOK, Submit
<1>10. \A k \in Keys : Runs(ledger', k) <=> Runs(ledger, k)
  BY <1>3, <1>5, <1>8 DEF Runs
<1>11. Entries'
  <2>1. EntryOK(misled, key, new)
    <3>1. EntryOK(misled, key, ledger[key])
      BY <1>1, <1>3 DEF WakesInv, Entries
    <3>2. key \notin misled => ledger[key].status = "running"
      BY <1>3 DEF Runs
    <3> QED BY <1>3, <1>5, <3>1, <3>2 DEF EntryOK
  <2>2. \A k \in Keys : k # key /\ ledger[k] # None => EntryOK(misled, k, ledger[k])
    BY DEF WakesInv, Entries
  <2> QED BY <1>3, <1>8, <2>1, <2>2 DEF Entries
<1>12. OneOpen'
  BY <1>10 DEF WakesInv, OneOpen
<1>13. Planned'
  BY <1>1 DEF WakesInv, Planned, Submit
<1>14. Executing'
  <2>1. Unstarted(exec.prev)'
    <3>1. Unstarted(exec.prev) /\ turns' = turns
      BY <1>1 DEF WakesInv, Executing, Submit
    <3> QED BY <1>7, <3>1 DEF Unstarted, EntryOK
  <2> QED BY <1>2, <1>5, <1>7, <1>8, <2>1 DEF Executing
<1>15. OneId'
  <2>1. \A k \in Keys \ misled' : Runs(ledger', k) /\ ledger'[k].turn # 0 => Names(ledger'[k].turn, ledger'[k].id)
    BY <1>3, <1>4, <1>5, <1>8, <1>10, NamesOf
  <2> QED BY <2>1, NamesKept, NamesOf DEF WakesInv, Submit
<1> QED BY <1>9, <1>11, <1>12, <1>13, <1>14, <1>15 DEF WakesInv

\* The submit moves from one phase to another past its start.
LEMMA PhaseStep ==
  ASSUME WakesInv, exec.phase = "grace", NEW ph \in {"settled", "dropped"},
         exec' = [exec EXCEPT !.phase = ph], todo' = todo, ledger' = ledger, misled' = misled
  PROVE  exec' \in Execs /\ Entries' /\ OneOpen' /\ Planned' /\ Executing'
<1>1. exec # Idle
  BY DEF Idle
<1>2. /\ exec' \in Execs /\ exec' # Idle /\ exec'.phase = ph
      /\ exec'.key = exec.key /\ exec'.prev = exec.prev /\ exec'.id = exec.id
  BY <1>1, PhaseKept DEF WakesInv
<1>3. Entries' /\ OneOpen' /\ Planned'
  BY <1>1 DEF WakesInv, Entries, EntryOK, OneOpen, Planned
<1>4. Executing'
  <2>1. Unstarted(exec.prev) /\ ledger[exec.key] # None /\ exec.id # 0 /\ ledger[exec.key].mine = exec.id
    BY <1>1 DEF WakesInv, Executing
  <2> QED BY <1>2, <2>1 DEF Executing, Unstarted, EntryOK
<1> QED BY <1>2, <1>3, <1>4

LEMMA QueuedStep ==
  ASSUME WakesInv, Queued
  PROVE  WakesInv'
<1>1. exec' \in Execs /\ Entries' /\ OneOpen' /\ Planned' /\ Executing'
  BY PhaseStep DEF Queued
<1>2. TypeOK'
  BY <1>1 DEF WakesInv, TypeOK, Queued
<1>3. OneId'
  BY LedgerKept, NamesKept, NamesOf DEF WakesInv, Queued
<1> QED BY <1>1, <1>2, <1>3 DEF WakesInv

LEMMA RecordStep ==
  ASSUME WakesInv, Record
  PROVE  WakesInv'
<1> DEFINE key == exec.key
<1>1. exec # Idle /\ key \in Keys /\ exec.prev \in Entry \cup {None} /\ exec.id \in Nat /\ exec' = Idle
  BY ExecFields DEF WakesInv, Record, Idle
<1>2. ledger[key] # None /\ Unstarted(exec.prev) /\ exec.id # 0 /\ ledger[key].mine = exec.id
  BY <1>1 DEF WakesInv, Executing, Record
<1>3. ledger \in [Keys -> Entry \cup {None}] /\ ledger[key] \in Entry /\ todo = None /\ misled' = misled
  BY <1>1, <1>2, LedgerFields DEF WakesInv, TypeOK, Planned, Record
<1>4. CASE exec.phase = "settled" /\ Runs(ledger, key)
  <2> DEFINE f == [ledger[key] EXCEPT !.id = exec.id]
  <2>1. ledger' = [ledger EXCEPT ![key] = f]
    BY <1>4 DEF Record, Recorded
  <2>2. /\ f \in Entry /\ f.status = "running" /\ f.id = exec.id /\ f.attempts = ledger[key].attempts
        /\ f.mine = exec.id /\ f.turn = ledger[key].turn
    BY <1>1, <1>2, <1>3, <1>4 DEF Entry, Runs
  <2>3. EntryOK(misled, key, ledger[key])
    BY <1>1, <1>2 DEF WakesInv, Entries
  <2> HIDE DEF f
  <2>4. ledger'[key] = f /\ \A k \in Keys : k # key => ledger'[k] = ledger[k]
    BY <1>1, <1>3, <2>1
  <2>5. ledger' \in [Keys -> Entry \cup {None}]
    BY <1>3, <2>1, <2>2
  <2>6. Changed(key, ledger[key], f)
    BY <1>1, <1>2, <1>3, <1>4, <2>2, <2>3 DEF Changed, EntryOK, Runs
  <2>7. Touched
    BY <2>4, <2>5, <2>6 DEF Touched
  <2>8. \A k \in Keys \ misled' : Runs(ledger', k) /\ ledger'[k].turn # 0 => Names(ledger'[k].turn, ledger'[k].id)
    <3>1. f.turn # 0 /\ key \notin misled => Names(f.turn, f.id)
      BY <1>1, <1>2, <1>4, <2>2, <2>3, NamesOf DEF EntryOK, Runs
    <3>2. \A k \in Keys : k # key /\ Runs(ledger', k) => Runs(ledger, k) /\ ledger'[k] = ledger[k]
      BY <2>4 DEF Runs
    <3> QED BY <1>3, <2>4, <3>1, <3>2, NamesOf
  <2>9. TypeOK'
    BY <1>1, <2>5 DEF WakesInv, TypeOK, Record, Execs
  <2> QED BY <1>1, <1>3, <2>7, <2>8, <2>9, Keeps, NamesOf DEF WakesInv, Record
<1>5. CASE exec.phase = "settled" /\ ~Runs(ledger, key)
  <2>1. ledger' = ledger
    BY <1>5 DEF Record, Recorded
  <2>2. TypeOK'
    BY <1>1, <2>1 DEF WakesInv, TypeOK, Record, Execs
  <2> QED BY <1>1, <1>3, <2>1, <2>2, LedgerKept, Keeps, NamesOf DEF WakesInv, Record
<1>6. CASE exec.phase = "dropped"
  <2>1. ledger' = [ledger EXCEPT ![key] = exec.prev]
    BY <1>6 DEF Record
  <2>2. ledger' \in [Keys -> Entry \cup {None}]
    BY <1>1, <1>3, <2>1
  <2>3. ledger'[key] = exec.prev /\ \A k \in Keys : k # key => ledger'[k] = ledger[k]
    BY <1>1, <1>3, <2>1
  <2>4. \A k \in Keys : Runs(ledger', k) => Runs(ledger, k) /\ ledger'[k] = ledger[k]
    BY <1>2, <2>3 DEF Runs, Unstarted
  <2>5. Entries'
    <3>1. ledger'[key] # None => EntryOK(misled, key, ledger'[key])
      BY <1>2, <2>3 DEF Unstarted, EntryOK
    <3> QED BY <1>3, <2>3, <3>1 DEF WakesInv, Entries
  <2>6. OneOpen'
    BY <2>4 DEF WakesInv, OneOpen
  <2>7. OneId'
    BY <2>4, NamesKept, NamesOf DEF WakesInv, Record
  <2>8. TypeOK'
    BY <1>1, <2>2 DEF WakesInv, TypeOK, Record, Execs
  <2>9. Planned' /\ Executing'
    BY <1>1, <1>3 DEF Planned, Executing, Record
  <2> QED BY <2>5, <2>6, <2>7, <2>8, <2>9 DEF WakesInv
<1> QED BY <1>4, <1>5, <1>6 DEF Record

\* What an item put at the end of the hook queue names.
LEMMA HookAdded ==
  ASSUME TypeOK, NEW h \in Hook, hooks' = Append(hooks, h)
  PROVE  /\ hooks' \in Seq(Hook)
         /\ \A j \in DOMAIN hooks' : (j \in DOMAIN hooks /\ hooks'[j] = hooks[j]) \/ hooks'[j] = h
  BY DEF TypeOK

LEMMA DropStep ==
  ASSUME WakesInv, NEW i \in DOMAIN queue, Drop(i)
  PROVE  WakesInv'
<1> DEFINE p == queue[i]
           h == [on |-> "drop", id |-> p.id]
<1>1. p \in Prompt /\ h \in Hook /\ queue' \in Seq(Prompt)
  <2>1. queue \in Seq(Prompt)
    BY DEF WakesInv, TypeOK
  <2>2. p \in Prompt
    BY <2>1
  <2>3. queue' = RemoveAt(queue, i)
    BY DEF Drop
  <2> QED BY <2>1, <2>2, <2>3, RemoveAtType, PromptFields DEF Hook
<1>2. hooks' = Append(hooks, h) \/ hooks' = hooks
  BY DEF Drop
<1>3. hooks' \in Seq(Hook) /\ \A j \in DOMAIN hooks' : hooks'[j].on # "drop" => Names(hooks'[j].n, hooks'[j].id)
  <2>1. CASE hooks' = hooks
    BY <2>1, NamesOf DEF WakesInv, TypeOK
  <2>2. CASE hooks' = Append(hooks, h)
    <3>1. h.on = "drop"
      OBVIOUS
    <3> HIDE DEF h
    <3>2. /\ hooks' \in Seq(Hook)
          /\ \A j \in DOMAIN hooks' : (j \in DOMAIN hooks /\ hooks'[j] = hooks[j]) \/ hooks'[j] = h
      BY <1>1, <2>2, HookAdded DEF WakesInv
    <3> QED BY <3>1, <3>2, NamesOf
  <2> QED BY <1>2, <2>1, <2>2
<1>4. exec' \in Execs /\ Entries' /\ OneOpen' /\ Planned' /\ Executing'
  <2>1. CASE exec' = exec
    BY <2>1, LedgerKept, Touch DEF WakesInv, TypeOK, Drop
  <2>2. CASE InGrace(p) /\ exec' = [exec EXCEPT !.phase = "dropped"]
    BY <2>2, PhaseStep DEF Drop, InGrace
  <2> QED BY <2>1, <2>2 DEF Drop
<1>5. TypeOK'
  BY <1>1, <1>3, <1>4 DEF WakesInv, TypeOK, Drop
<1>6. OneId'
  BY <1>3, LedgerKept, NamesKept, NamesOf DEF WakesInv, Drop
<1> QED BY <1>4, <1>5, <1>6 DEF WakesInv

\* A turn that begins takes a number no place has yet.
LEMMA NewTurn ==
  ASSUME WakesInv, turns' = turns + 1, ledger' = ledger, misled' = misled, NEW i \in Nat,
         turn' # None /\ turn'.n = turns + 1 /\ turn'.id = i,
         \A j \in DOMAIN hooks' : hooks'[j].on # "drop" =>
           Names(hooks'[j].n, hooks'[j].id) \/ (hooks'[j].n = turns + 1 /\ hooks'[j].id = i)
  PROVE  OneId'
<1>1. turns \in Nat /\ OneId
  BY DEF WakesInv, TypeOK
<1>2. \A n, j \in Nat : Names(n, j)' => Names(n, j) \/ (n = turns + 1 /\ j = i)
  <2>1. TAKE n, j \in Nat
  <2>2. HAVE Names(n, j)'
  <2>3. CASE turn' # None /\ turn'.n = n /\ turn'.id = j
    BY <2>3
  <2>4. CASE \E m \in DOMAIN hooks' : hooks'[m].on # "drop" /\ hooks'[m].n = n /\ hooks'[m].id = j
    BY <2>4
  <2>5. CASE \E k \in Keys \ misled' : Runs(ledger', k) /\ ledger'[k].turn # 0 /\ ledger'[k].turn = n /\ ledger'[k].id = j
    BY <2>5, NamesOf
  <2> QED BY <2>2, <2>3, <2>4, <2>5 DEF Names
<1>3. \A n, j \in Nat : Names(n, j) => n <= turns
  BY <1>1 DEF OneId
<1>4. \A n, j \in Nat : Names(n, j)' => n <= turns + 1
  BY <1>1, <1>2, <1>3
<1>5. \A n, j, m \in Nat : Names(n, j)' /\ Names(n, m)' => j = m
  BY <1>1, <1>2, <1>3 DEF OneId
<1> QED BY <1>4, <1>5 DEF OneId

LEMMA ChatStep ==
  ASSUME WakesInv, Chat
  PROVE  WakesInv'
<1>1. /\ turns \in Nat /\ turns' = turns + 1 /\ ledger' = ledger /\ hooks' = hooks
      /\ turn' = [n |-> turns + 1, key |-> None, id |-> 0] /\ misled' = misled
  BY DEF WakesInv, TypeOK, Chat
<1>2. turn' \in Turn /\ turn'.n = turns + 1 /\ turn'.id = 0 /\ turn' # None
  BY <1>1, NoneAssumption DEF Turn
<1>3. TypeOK'
  BY <1>1, <1>2 DEF WakesInv, TypeOK, Chat
<1>4. OneId'
  BY <1>1, <1>2, NewTurn, NamesOf
<1> QED BY <1>3, <1>4, Touch, LedgerKept DEF WakesInv, Chat

LEMMA TurnStartStep ==
  ASSUME WakesInv, TurnStart
  PROVE  WakesInv'
<1> DEFINE p == Head(queue)
           h == [on |-> "start", n |-> turns', key |-> p.key, id |-> p.id]
<1>1. p \in Prompt /\ queue' \in Seq(Prompt)
  BY HeadTailProperties DEF WakesInv, TypeOK, TurnStart
<1>2. p.key \in Keys /\ p.id \in Nat \ {0}
  BY <1>1, PromptFields
<1>3. /\ turns \in Nat /\ turns' = turns + 1 /\ ledger' = ledger /\ todo' = todo
      /\ hooks' = Append(hooks, h) /\ asked' = asked /\ misled' = misled
      /\ turn' = [n |-> turns', key |-> p.key, id |-> p.id]
  BY DEF WakesInv, TypeOK, TurnStart
<1> HIDE DEF p
<1>4. h \in Hook /\ h.n = turns + 1 /\ h.id = p.id
  BY <1>2, <1>3 DEF Hook
<1> HIDE DEF h
<1>5. turn' \in Turn /\ turn'.n = turns + 1 /\ turn'.id = p.id /\ turn' # None
  BY <1>2, <1>3, NoneAssumption DEF Turn
<1>6. /\ hooks' \in Seq(Hook)
      /\ \A j \in DOMAIN hooks' : (j \in DOMAIN hooks /\ hooks'[j] = hooks[j]) \/ hooks'[j] = h
  BY <1>3, <1>4, HookAdded DEF WakesInv
<1>7. OneId'
  <2>1. \A j \in DOMAIN hooks' : hooks'[j].on # "drop" =>
          Names(hooks'[j].n, hooks'[j].id) \/ (hooks'[j].n = turns + 1 /\ hooks'[j].id = p.id)
    BY <1>4, <1>6, NamesOf
  <2> QED BY <1>2, <1>3, <1>5, <2>1, NewTurn
<1>8. exec' \in Execs /\ Entries' /\ OneOpen' /\ Planned' /\ Executing'
  <2>1. CASE exec' = exec
    BY <1>3, <2>1, LedgerKept, Touch DEF WakesInv, TypeOK
  <2>2. CASE exec.phase = "grace" /\ exec' = [exec EXCEPT !.phase = "settled"]
    BY <1>3, <2>2, PhaseStep
  <2> QED BY <2>1, <2>2 DEF TurnStart, InGrace
<1>9. TypeOK'
  <2>1. shown' \in [Keys -> Shown]
    <3>1. shown \in [Keys -> Shown] /\ shown[p.key] \in Shown
      BY <1>2 DEF WakesInv, TypeOK
    <3>2. \/ shown' = shown
          \/ shown' = [shown EXCEPT ![p.key] = [shown[p.key] EXCEPT !.asks = shown[p.key].asks + 1]]
      BY DEF TurnStart, p
    <3>3. [shown[p.key] EXCEPT !.asks = shown[p.key].asks + 1] \in Shown
      BY <3>1 DEF Shown
    <3> QED BY <3>1, <3>2, <3>3
  <2>2. /\ now' = now /\ lastId' = lastId /\ heard' = heard /\ upsets' = upsets
    BY DEF TurnStart
  <2> QED BY <1>1, <1>3, <1>5, <1>6, <1>8, <2>1, <2>2 DEF WakesInv, TypeOK
<1> QED BY <1>7, <1>8, <1>9 DEF WakesInv

LEMMA TurnEndStep ==
  ASSUME WakesInv, NEW said \in BOOLEAN, NEW answer \in 0..lastId, TurnEnd(said, answer)
  PROVE  WakesInv'
<1> DEFINE h == [on |-> "end", n |-> turn.n, id |-> turn.id, said |-> said, answer |-> answer]
<1>1. turn.n \in Nat \ {0} /\ turn.id \in Nat /\ answer \in Nat /\ Names(turn.n, turn.id)
  BY TurnFields, NamesOf DEF WakesInv, TypeOK, TurnEnd
<1>2. h \in Hook /\ h.n = turn.n /\ h.id = turn.id /\ hooks' = Append(hooks, h)
  BY <1>1 DEF Hook, TurnEnd
<1> HIDE DEF h
<1>3. /\ hooks' \in Seq(Hook)
      /\ \A j \in DOMAIN hooks' : (j \in DOMAIN hooks /\ hooks'[j] = hooks[j]) \/ hooks'[j] = h
  BY <1>2, HookAdded DEF WakesInv
<1>4. \A j \in DOMAIN hooks' : hooks'[j].on # "drop" => Names(hooks'[j].n, hooks'[j].id)
  BY <1>1, <1>2, <1>3, NamesOf
<1>5. TypeOK'
  BY <1>3 DEF WakesInv, TypeOK, TurnEnd
<1>6. /\ ledger' = ledger /\ turns' = turns /\ exec' = exec /\ todo' = todo /\ turn' = None /\ misled' = misled
  BY DEF TurnEnd
<1> QED BY <1>4, <1>5, <1>6, Keeps, LedgerKept DEF WakesInv

\* An answer ends an open task by its own id.
LEMMA AnsweredFields ==
  ASSUME WakesInv, NEW a \in Nat, NEW k \in Keys
  PROVE  LET f == Answered(ledger, a)[k] IN
         \/ f = ledger[k]
         \/ /\ k \in Tasks /\ Runs(ledger, k) /\ ledger[k] \in Entry /\ (ledger[k].mine # 0 \/ k \in misled)
            /\ f \in Entry /\ f.status = "done" /\ f.mine = ledger[k].mine /\ f.turn = ledger[k].turn
            /\ f.by = f.mine \/ k \in misled
<1> DEFINE f == [ledger[k] EXCEPT !.status = "done", !.by = a]
<1>1. Answered(ledger, a)[k] = ledger[k]
      \/ (k \in Tasks /\ Runs(ledger, k) /\ a # 0 /\ ledger[k].id = a /\ Answered(ledger, a)[k] = f)
  BY DEF Answered
<1>2. CASE k \in Tasks /\ Runs(ledger, k) /\ a # 0 /\ ledger[k].id = a /\ Answered(ledger, a)[k] = f
  <2>1. ledger[k] \in Entry /\ (ledger[k].mine = a \/ k \in misled)
    BY <1>2, LedgerFields DEF WakesInv, Entries, EntryOK, Runs
  <2>2. f \in Entry /\ f.status = "done" /\ f.mine = ledger[k].mine /\ f.turn = ledger[k].turn /\ f.by = a
    BY <2>1 DEF Entry, Ended
  <2> QED BY <1>2, <2>1, <2>2
<1> QED BY <1>1, <1>2

LEMMA ToolStep ==
  ASSUME WakesInv, NEW answer \in 1..lastId, Tool(answer)
  PROVE  WakesInv'
<1>1. answer \in Nat /\ ledger' = Answered(ledger, answer)
  BY DEF WakesInv, TypeOK, Tool
<1>2. \A k \in Keys : \/ ledger'[k] = ledger[k]
                      \/ /\ Runs(ledger, k) /\ (ledger[k].mine # 0 \/ k \in misled) /\ ledger'[k] \in Entry
                         /\ ledger'[k].status = "done" /\ (ledger'[k].by = ledger'[k].mine \/ k \in misled)
                         /\ ledger'[k].mine = ledger[k].mine /\ ledger'[k].turn = ledger[k].turn
  BY <1>1, AnsweredFields
<1>3. ledger' \in [Keys -> Entry \cup {None}]
  <2>1. \A k \in Keys : ledger'[k] \in Entry \cup {None}
    BY <1>2, LedgerFields DEF WakesInv
  <2> QED BY <1>1, <2>1 DEF Answered
<1>4. Touched /\ \A k \in Keys \ misled' : Runs(ledger', k) /\ ledger'[k].turn # 0 => Names(ledger'[k].turn, ledger'[k].id)
  <2>1. misled' = misled
    BY DEF Tool
  <2> QED BY <1>2, <1>3, <2>1, EndsKeep
<1>5. TypeOK'
  BY <1>3 DEF WakesInv, TypeOK, Tool
<1> QED BY <1>4, <1>5, Keeps, NamesOf DEF WakesInv, Tool

\* What a turn's start makes of an entry: the one that took its id, or one that takes it for its own.
LEMMA BegunFields ==
  ASSUME WakesInv, HookStart, NEW k \in Keys
  PROVE  LET h == Head(hooks) IN
         /\ k \notin Begun(h) => ledger'[k] = ledger[k]
         /\ k \in Begun(h) =>
              /\ Runs(ledger, k) /\ (ledger[k].mine = h.id \/ k \in misled') /\ ledger'[k] \in Entry
              /\ ledger'[k].mine = ledger[k].mine /\ ledger'[k].status = "running"
              /\ ledger'[k].attempts = ledger[k].attempts /\ ledger'[k].id = h.id /\ ledger'[k].turn = h.n
              /\ ledger'[k].reminded = ledger[k].reminded
<1> DEFINE h == Head(hooks)
<1>1. h \in Hook /\ h.on = "start"
  BY HookRun DEF WakesInv, HookStart
<1>2. h.n \in Nat \ {0} /\ h.id \in Nat \ {0}
  BY <1>1, HookFields
<1>3. ledger'[k] = IF k \in Begun(h) THEN [ledger[k] EXCEPT !.id = h.id, !.turn = h.n] ELSE ledger[k]
  BY DEF HookStart
<1>4. k \in Begun(h) => ledger[k].mine = h.id \/ k \in misled'
  BY DEF HookStart
<1> HIDE DEF h
<1>5. CASE k \in Begun(h)
  <2> DEFINE f == [ledger[k] EXCEPT !.id = h.id, !.turn = h.n]
  <2>1. Runs(ledger, k) /\ ledger[k] \in Entry
    BY <1>5, LedgerFields DEF Begun, WakesInv
  <2>2. /\ f \in Entry /\ f.mine = ledger[k].mine /\ f.status = "running" /\ f.attempts = ledger[k].attempts
        /\ f.id = h.id /\ f.turn = h.n /\ f.reminded = ledger[k].reminded
    BY <1>2, <2>1 DEF Entry, Runs
  <2> QED BY <1>3, <1>4, <1>5, <2>1, <2>2 DEF h
<1> QED BY <1>3, <1>5 DEF h

LEMMA HookStartStep ==
  ASSUME WakesInv, HookStart
  PROVE  WakesInv'
<1> DEFINE h == Head(hooks)
<1>1. /\ h \in Hook /\ hooks' \in Seq(Hook) /\ h.on = "start" /\ Names(h.n, h.id)
      /\ \A j \in DOMAIN hooks' : hooks'[j].on # "drop" => Names(hooks'[j].n, hooks'[j].id)
  BY HookRun DEF WakesInv, HookStart
<1>2. h.n \in Nat \ {0} /\ h.id \in Nat \ {0}
  BY <1>1, HookFields
<1>3. \A k \in Keys : k \notin Begun(h) => ledger'[k] = ledger[k]
  BY BegunFields
<1>4. ASSUME NEW k \in Keys, k \in Begun(h)
      PROVE  /\ Runs(ledger, k) /\ (ledger[k].mine = h.id \/ k \in misled') /\ ledger'[k] \in Entry
             /\ ledger'[k].mine = ledger[k].mine /\ ledger'[k].status = "running"
             /\ ledger'[k].attempts = ledger[k].attempts /\ ledger'[k].id = h.id /\ ledger'[k].turn = h.n
  BY <1>4, BegunFields
<1> HIDE DEF h
<1>5. ledger' \in [Keys -> Entry \cup {None}]
  <2>1. \A k \in Keys : ledger'[k] \in Entry \cup {None}
    BY <1>3, <1>4, LedgerFields DEF WakesInv
  <2>2. ledger' = [k \in Keys |-> ledger'[k]]
    BY DEF HookStart
  <2> QED BY <2>1, <2>2
<1>6. Touched
  <2>1. \A k \in Keys : k \in Begun(h) => Changed(k, ledger[k], ledger'[k])
    <3>1. TAKE k \in Keys
    <3>2. HAVE k \in Begun(h)
    <3>3. ledger[k].attempts >= 1
      BY <1>4, <3>2 DEF WakesInv, Entries, EntryOK, Runs
    <3> QED BY <1>2, <1>4, <3>2, <3>3, EntryFields DEF Changed, EntryOK, Runs
  <2> QED BY <1>3, <1>5, <2>1 DEF Touched
<1>9. misled \subseteq misled'
  BY DEF HookStart
<1>7. \A k \in Keys \ misled' : Runs(ledger', k) /\ ledger'[k].turn # 0 => Names(ledger'[k].turn, ledger'[k].id)
  <2>1. \A k \in Keys : k \notin Begun(h) /\ Runs(ledger', k) => Runs(ledger, k) /\ ledger'[k] = ledger[k]
    BY <1>3 DEF Runs
  <2> QED BY <1>1, <1>4, <1>9, <2>1, NamesOf
<1>8. TypeOK'
  <2>1. heard' \in [Ids -> {"no", "started", "said"}] /\ misled' \subseteq Keys
    BY DEF WakesInv, TypeOK, HookStart, Begun
  <2> QED BY <1>1, <1>5, <2>1 DEF WakesInv, TypeOK, HookStart
<1> QED BY <1>1, <1>9, <1>6, <1>7, <1>8, Keeps, NamesOf DEF WakesInv, HookStart

\* the wakes the end of a turn finds: after the answer, its own, those due a reminder and those told
EndAnswered == Answered(ledger, Head(hooks).answer)
EndOwn == InTurn(EndAnswered, Head(hooks))
EndDue == {k \in EndOwn \cap Tasks : ~EndAnswered[k].reminded}
EndTold == IF Head(hooks).said THEN EndOwn \ Tasks ELSE {}
Reminders == {[key |-> k, id |-> EndAnswered[k].id, reminder |-> TRUE, watched |-> TRUE] : k \in EndDue}

LEMMA EndHook ==
  ASSUME WakesInv, NEW sent \in BOOLEAN, HookEnd(sent)
  PROVE  LET h == Head(hooks) IN
         /\ h \in Hook /\ h.on = "end" /\ Names(h.n, h.id)
         /\ h.n \in Nat \ {0} /\ h.id \in Nat /\ h.said \in BOOLEAN /\ h.answer \in Nat
         /\ ledger' = [k \in Keys |-> IF k \in EndTold THEN [EndAnswered[k] EXCEPT !.status = "done", !.by = h.id]
                                      ELSE IF k \in EndDue THEN [EndAnswered[k] EXCEPT !.reminded = TRUE]
                                      ELSE EndAnswered[k]]
         /\ queue' = (IF sent THEN queue \o SetToSeq(Reminders) ELSE queue)
         /\ shown' = [k \in Keys |-> IF sent /\ k \in EndDue THEN [shown[k] EXCEPT !.reminders = @ + 1] ELSE shown[k]]
         /\ heard' = [i \in Ids |-> IF i = h.id /\ h.said /\ heard[i] = "started" THEN "said" ELSE heard[i]]
<1> DEFINE h == Head(hooks)
<1>1. h \in Hook /\ h.on = "end" /\ Names(h.n, h.id)
  BY HookRun DEF WakesInv, HookEnd
<1>2. h.n \in Nat \ {0} /\ h.id \in Nat /\ h.said \in BOOLEAN /\ h.answer \in Nat
  BY <1>1, HookFields
<1> QED BY <1>1, <1>2 DEF HookEnd, EndAnswered, EndOwn, EndDue, EndTold, Reminders

\* Those whose turn it was carry its id.
LEMMA EndOwnFields ==
  ASSUME WakesInv, NEW sent \in BOOLEAN, HookEnd(sent), NEW k \in EndOwn
  PROVE  LET h == Head(hooks) IN
         /\ k \in Keys /\ EndAnswered[k] = ledger[k] /\ Runs(ledger, k) /\ ledger[k] \in Entry /\ EntryOK(misled, k, ledger[k])
         /\ ledger[k].turn = h.n /\ ledger[k].id # 0 /\ misled' = misled
         /\ k \notin misled => ledger[k].id = h.id /\ ledger[k].mine = h.id
<1> DEFINE h == Head(hooks)
<1>1. h.n \in Nat \ {0} /\ h.id \in Nat /\ h.answer \in Nat /\ Names(h.n, h.id)
  BY EndHook
<1>2. k \in Keys /\ Runs(EndAnswered, k) /\ EndAnswered[k].turn = h.n
  BY DEF EndOwn, InTurn
<1> HIDE DEF h
<1>3. EndAnswered[k] = ledger[k] /\ Runs(ledger, k)
  BY <1>1, <1>2, AnsweredFields DEF EndAnswered, Runs, h
<1>4. ledger[k] \in Entry /\ EntryOK(misled, k, ledger[k])
  BY <1>2, <1>3, LedgerFields DEF WakesInv, Entries, Runs
<1>5. k \notin misled => Names(ledger[k].turn, ledger[k].id) /\ ledger[k].id \in Nat
  BY <1>1, <1>2, <1>3, <1>4, NamesOf, EntryFields
<1>6. k \notin misled => ledger[k].id = h.id
  BY <1>1, <1>2, <1>3, <1>5 DEF WakesInv, OneId
<1>7. misled' = misled
  BY DEF HookEnd
<1> QED BY <1>1, <1>2, <1>3, <1>4, <1>6, <1>7 DEF EntryOK, Runs, h

\* What the end makes of each entry.
LEMMA EndEntries ==
  ASSUME WakesInv, NEW sent \in BOOLEAN, HookEnd(sent), NEW k \in Keys
  PROVE  /\ ledger'[k] = ledger[k] \/ Changed(k, ledger[k], ledger'[k])
         /\ ledger'[k] \in Entry \cup {None}
         /\ Runs(ledger', k) => /\ Runs(ledger, k) /\ ledger'[k].turn = ledger[k].turn
                                /\ ledger'[k].id = ledger[k].id /\ k \notin EndTold
         /\ k \in EndDue => ledger'[k].status = "running" /\ ledger'[k].reminded /\ ~ledger[k].reminded
         /\ ledger[k] # None /\ ledger[k].reminded => ledger'[k].reminded
         /\ ledger'[k] # ledger[k] => ledger'[k].status \in {"running", "done"}
<1> DEFINE h == Head(hooks)
           e == ledger'[k]
<1>1. /\ h.id \in Nat /\ h.answer \in Nat /\ exec' = exec /\ misled' = misled
      /\ e = (IF k \in EndTold THEN [EndAnswered[k] EXCEPT !.status = "done", !.by = h.id]
              ELSE IF k \in EndDue THEN [EndAnswered[k] EXCEPT !.reminded = TRUE] ELSE EndAnswered[k])
  BY EndHook DEF HookEnd
<1>2. /\ k \in EndTold => k \in EndOwn /\ k \notin EndDue
      /\ k \in EndDue => k \in EndOwn /\ ~EndAnswered[k].reminded
  BY DEF EndTold, EndDue
<1>3. k \in EndOwn => /\ EndAnswered[k] = ledger[k] /\ Runs(ledger, k) /\ ledger[k] \in Entry /\ EntryOK(misled, k, ledger[k])
                      /\ (ledger[k].mine = h.id \/ k \in misled) /\ misled' = misled
                      /\ ledger[k].id # 0 /\ ledger[k].status = "running" /\ ledger[k] # None
  BY EndOwnFields DEF Runs
<1> HIDE DEF h, e
<1>4. CASE k \in EndTold
  <2> DEFINE f == [ledger[k] EXCEPT !.status = "done", !.by = h.id]
  <2>1. e = f /\ ledger[k] \in Entry
    BY <1>1, <1>2, <1>3, <1>4
  <2>2. f \in Entry /\ f.status = "done" /\ f.by = h.id /\ f.mine = ledger[k].mine
    BY <1>1, <2>1, EntryEnded
  <2>3. f.reminded = ledger[k].reminded
    BY <2>1 DEF Entry
  <2> HIDE DEF f
  <2>4. Changed(k, ledger[k], f)
    BY <1>1, <1>2, <1>3, <1>4, <2>2, EntryFields DEF Changed, EntryOK
  <2> QED BY <1>2, <1>4, <2>1, <2>2, <2>3, <2>4 DEF Runs, e
<1>5. CASE k \in EndDue
  <2> DEFINE f == [ledger[k] EXCEPT !.reminded = TRUE]
  <2>1. e = f /\ ledger[k] \in Entry /\ ~ledger[k].reminded
    BY <1>1, <1>2, <1>3, <1>5
  <2>2. /\ f \in Entry /\ f.status = ledger[k].status /\ f.attempts = ledger[k].attempts
        /\ f.id = ledger[k].id /\ f.turn = ledger[k].turn /\ f.mine = ledger[k].mine
    BY <2>1, EntryReminded
  <2>3. f.reminded
    BY <2>1 DEF Entry
  <2> HIDE DEF f
  <2>4. Changed(k, ledger[k], f)
    BY <1>1, <1>2, <1>3, <1>5, <2>2, EntryFields DEF Changed, EntryOK
  <2> QED BY <1>2, <1>3, <1>5, <2>1, <2>2, <2>3, <2>4 DEF Runs, e
<1>6. CASE k \notin EndTold /\ k \notin EndDue
  <2>1. e = Answered(ledger, h.answer)[k]
    BY <1>1, <1>6 DEF EndAnswered, h
  <2>2. CASE e = ledger[k]
    <3>1. Runs(ledger, k) => ledger[k] \in Entry
      BY LedgerFields DEF WakesInv
    <3> QED BY <1>6, <2>2, LedgerFields DEF WakesInv, Runs, e
  <2>3. CASE e # ledger[k]
    <3>1. /\ Runs(ledger, k) /\ ledger[k] \in Entry /\ (ledger[k].mine # 0 \/ k \in misled) /\ e \in Entry
          /\ e.status = "done" /\ e.mine = ledger[k].mine /\ (e.by = e.mine \/ k \in misled)
      BY <1>1, <2>1, <2>3, AnsweredFields
    <3>2. e = [ledger[k] EXCEPT !.status = "done", !.by = h.answer]
      BY <2>1, <2>3 DEF Answered
    <3>3. e.reminded = ledger[k].reminded
      BY <3>1, <3>2 DEF Entry
    <3> QED BY <1>1, <1>6, <3>1, <3>3 DEF Changed, EntryOK, Runs, e
  <2> QED BY <2>2, <2>3
<1> QED BY <1>4, <1>5, <1>6

LEMMA RemindersType ==
  ASSUME WakesInv, NEW sent \in BOOLEAN, HookEnd(sent)
  PROVE  SetToSeq(Reminders) \in Seq(Reminders) /\ Reminders \subseteq Prompt
<1> DEFINE reminder == [k \in EndDue |-> [key |-> k, id |-> EndAnswered[k].id, reminder |-> TRUE, watched |-> TRUE]]
<1>1. EndDue \subseteq Keys
  BY DEF EndDue, EndOwn, InTurn
<1>2. \A k \in EndDue : k \in Keys /\ EndAnswered[k].id \in Nat \ {0}
  <2>1. TAKE k \in EndDue
  <2>2. k \in EndOwn
    BY DEF EndDue
  <2>3. ledger[k] \in Entry /\ ledger[k].id # 0 /\ k \in Keys /\ EndAnswered[k] = ledger[k]
    BY <2>2, EndOwnFields
  <2> QED BY <2>3, EntryFields
<1>3. Reminders \subseteq Prompt
  <2>1. \A k \in EndDue : [key |-> k, id |-> EndAnswered[k].id, reminder |-> TRUE, watched |-> TRUE] \in Prompt
    BY <1>2 DEF Prompt
  <2> QED BY <2>1 DEF Reminders
<1>4. IsFiniteSet(EndDue)
  BY <1>1, KeysAssumption, FS_Subset
<1>5. reminder \in Surjection(EndDue, Reminders)
  BY DEF Surjection, Reminders
<1>6. IsFiniteSet(Reminders)
  BY <1>4, <1>5, FS_Surjection
<1> QED BY <1>3, <1>6, SetToSeqType

LEMMA HookEndStep ==
  ASSUME WakesInv, NEW sent \in BOOLEAN, HookEnd(sent)
  PROVE  WakesInv'
<1>1. /\ hooks' \in Seq(Hook)
      /\ \A j \in DOMAIN hooks' : hooks'[j].on # "drop" => Names(hooks'[j].n, hooks'[j].id)
  BY HookRun DEF WakesInv, HookEnd
<1>2. turns' = turns /\ exec' = exec /\ todo' = todo /\ turn' = turn /\ now' = now /\ lastId' = lastId /\ upsets' = upsets
      /\ asked' = asked /\ misled' = misled
  BY DEF HookEnd
<1>3. Touched
  <2>1. \A k \in Keys : ledger'[k] \in Entry \cup {None} /\ (ledger'[k] = ledger[k] \/ Changed(k, ledger[k], ledger'[k]))
    BY EndEntries
  <2>2. ledger' = [k \in Keys |-> ledger'[k]]
    BY EndHook
  <2>3. ledger' \in [Keys -> Entry \cup {None}]
    BY <2>1, <2>2
  <2> QED BY <2>1, <2>3 DEF Touched
<1>4. \A k \in Keys \ misled' : Runs(ledger', k) /\ ledger'[k].turn # 0 => Names(ledger'[k].turn, ledger'[k].id)
  BY <1>2, EndEntries, NamesOf
<1>5. TypeOK'
  <2>1. queue' \in Seq(Prompt)
    <3>1. queue \in Seq(Prompt)
      BY DEF WakesInv, TypeOK
    <3>2. SetToSeq(Reminders) \in Seq(Prompt)
      BY RemindersType
    <3>3. queue' = queue \o SetToSeq(Reminders) \/ queue' = queue
      BY EndHook
    <3> QED BY <3>1, <3>2, <3>3, ConcatProperties
  <2>2. shown' \in [Keys -> Shown]
    <3>1. \A k \in Keys : shown[k] \in Shown
      BY DEF WakesInv, TypeOK
    <3>2. \A s \in Shown : [s EXCEPT !.reminders = @ + 1] \in Shown
      BY DEF Shown
    <3>3. \A k \in Keys : [shown[k] EXCEPT !.reminders = @ + 1] \in Shown
      BY <3>1, <3>2
    <3> QED BY <3>1, <3>3, EndHook
  <2>3. heard' \in [Ids -> {"no", "started", "said"}]
    BY EndHook DEF WakesInv, TypeOK
  <2>4. ledger' \in [Keys -> Entry \cup {None}]
    BY <1>3 DEF Touched
  <2> QED BY <1>1, <1>2, <2>1, <2>2, <2>3, <2>4 DEF WakesInv, TypeOK
<1> QED BY <1>1, <1>2, <1>3, <1>4, <1>5, Keeps, NamesOf DEF WakesInv

\* What is lost gives its attempt back.
LEMMA LostFields ==
  ASSUME WakesInv, NEW k \in Keys, Runs(ledger, k)
  PROVE  LET f == Lost(ledger[k]) IN
         f \in Entry /\ f.status = "lost" /\ f.mine = ledger[k].mine /\ f.turn = ledger[k].turn
<1>1. ledger[k] \in Entry /\ ledger[k].attempts >= 1
  BY LedgerFields DEF WakesInv, Entries, EntryOK, Runs
<1>2. ledger[k].attempts - 1 \in Nat
  BY <1>1, EntryFields
<1> QED BY <1>1, <1>2 DEF Lost, Entry, Ended

LEMMA HookDropStep ==
  ASSUME WakesInv, HookDrop
  PROVE  WakesInv'
<1> DEFINE h == Head(hooks)
<1>1. /\ h \in Hook /\ hooks' \in Seq(Hook) /\ h.on = "drop"
      /\ \A j \in DOMAIN hooks' : hooks'[j].on # "drop" => Names(hooks'[j].n, hooks'[j].id)
  BY HookRun DEF WakesInv, HookDrop
<1>2. h.id \in Nat \ {0}
  BY <1>1, HookFields
<1>3. ledger' = [k \in Keys |-> IF k \in Dropped(h) THEN Lost(ledger[k]) ELSE ledger[k]]
  BY DEF HookDrop
<1> HIDE DEF h
<1>4. \A k \in Keys : \/ ledger'[k] = ledger[k]
                      \/ /\ Runs(ledger, k) /\ (ledger[k].mine # 0 \/ k \in misled)
                         /\ ledger'[k] \in Entry /\ ledger'[k].status = "lost"
                         /\ ledger'[k].mine = ledger[k].mine /\ ledger'[k].turn = ledger[k].turn
  <2>1. TAKE k \in Keys
  <2>2. CASE k \in Dropped(h)
    <3>1. Runs(ledger, k) /\ ledger[k].id = h.id
      BY <2>2 DEF Dropped
    <3>2. ledger[k].mine # 0 \/ k \in misled
      BY <1>2, <3>1 DEF WakesInv, Entries, EntryOK, Runs
    <3> QED BY <1>3, <2>2, <3>1, <3>2, LostFields
  <2> QED BY <1>3, <2>2
<1>5. ledger' \in [Keys -> Entry \cup {None}]
  BY <1>3, <1>4, LedgerFields DEF WakesInv
<1>6. Touched /\ \A k \in Keys \ misled' : Runs(ledger', k) /\ ledger'[k].turn # 0 => Names(ledger'[k].turn, ledger'[k].id)
  <2>1. misled' = misled
    BY DEF HookDrop
  <2> QED BY <1>4, <1>5, <2>1, EndsKeep
<1>7. TypeOK'
  BY <1>1, <1>5 DEF WakesInv, TypeOK, HookDrop
<1> QED BY <1>1, <1>6, <1>7, Keeps, NamesOf DEF WakesInv, HookDrop

LEMMA HookOffStep ==
  ASSUME WakesInv, HookOff
  PROVE  WakesInv'
<1>1. /\ hooks' \in Seq(Hook)
      /\ \A j \in DOMAIN hooks' : hooks'[j].on # "drop" => Names(hooks'[j].n, hooks'[j].id)
  BY HookRun DEF WakesInv, HookOff
<1>2. TypeOK'
  BY <1>1 DEF WakesInv, TypeOK, HookOff, Upset
<1> QED BY <1>1, <1>2, Keeps, LedgerKept, NamesOf DEF WakesInv, HookOff

LEMMA ReloadStep ==
  ASSUME WakesInv, Reload
  PROVE  WakesInv'
<1>1. queue' \in Seq(Prompt)
  <2>1. queue \in Seq(Prompt) /\ queue' = [i \in DOMAIN queue |-> [queue[i] EXCEPT !.watched = FALSE]]
    BY DEF WakesInv, TypeOK, Reload
  <2>2. \A i \in DOMAIN queue : queue[i] \in Prompt
    BY <2>1
  <2>3. \A i \in DOMAIN queue : queue'[i] \in Prompt
    BY <2>1, <2>2 DEF Prompt
  <2>4. DOMAIN queue = 1..Len(queue) /\ Len(queue) \in Nat
    BY <2>1
  <2>5. queue' \in [1..Len(queue) -> Prompt]
    BY <2>1, <2>3, <2>4
  <2> QED BY <2>4, <2>5
<1>2. TypeOK'
  BY <1>1 DEF WakesInv, TypeOK, Reload, Upset, Execs
<1>3. \A j \in DOMAIN hooks' : hooks'[j].on # "drop" => Names(hooks'[j].n, hooks'[j].id)
  BY DEF Reload
<1> QED BY <1>2, <1>3, Keeps, LedgerKept, NamesOf DEF WakesInv, Reload

LEMMA RestartStep ==
  ASSUME WakesInv, Restart
  PROVE  WakesInv'
<1>1. ledger' = [k \in Keys |-> IF Runs(ledger, k) THEN Lost(ledger[k]) ELSE ledger[k]] /\ exec' = Idle
  BY DEF Restart, Orphaned
<1>2. \A k \in Keys : \/ ledger'[k] = ledger[k]
                      \/ /\ Runs(ledger, k) /\ ledger'[k] \in Entry /\ ledger'[k].status = "lost"
                         /\ ledger'[k].mine = ledger[k].mine /\ ledger'[k].turn = ledger[k].turn
  BY <1>1, LostFields
<1>3. ledger' \in [Keys -> Entry \cup {None}]
  BY <1>1, <1>2, LedgerFields DEF WakesInv
<1>4. Touched /\ \A k \in Keys \ misled' : Runs(ledger', k) /\ ledger'[k].turn # 0 => Names(ledger'[k].turn, ledger'[k].id)
  <2>1. misled' = misled
    BY DEF Restart
  <2> QED BY <1>1, <1>2, <1>3, <2>1, EndsKeep
<1>5. TypeOK'
  BY <1>3 DEF WakesInv, TypeOK, Restart, Upset, Execs, Shown
<1>6. \A j \in DOMAIN hooks' : hooks'[j].on # "drop" => Names(hooks'[j].n, hooks'[j].id)
  BY DEF Restart
<1> QED BY <1>4, <1>5, <1>6, Keeps, NamesOf DEF WakesInv, Restart

LEMMA TickStep ==
  ASSUME WakesInv, Tick
  PROVE  WakesInv'
<1>1. TypeOK'
  BY DEF WakesInv, TypeOK, Tick
<1> QED BY <1>1, Keeps, LedgerKept, NamesOf DEF WakesInv, Tick

\* An entry that took another's turn is remembered.
LEMMA MisledGrows ==
  ASSUME [Next]_vars
  PROVE  misled \subseteq misled'
<1>1. CASE HookStart
  BY <1>1 DEF HookStart
<1>2. CASE ~HookStart
  BY <1>2 DEF Next, vars, Plan, Start, Hold, Submit, Queued, Record, TurnStart, Chat, HookDrop, HookOff, Reload, Restart,
          Tick, Drop, TurnEnd, Tool, HookEnd
<1> QED BY <1>1, <1>2

----------------------------------------------------------------------------
(* The theorems *)

\* The invariant behind the theorems below, for any prompts, turns, drops, reloads and restarts.
THEOREM Invariance ==
  Spec => []WakesInv
<1>1. Init => WakesInv
  <2>1. SUFFICES ASSUME Init PROVE WakesInv
    OBVIOUS
  <2>2. /\ \A k \in Keys : ledger[k] = None
        /\ hooks = <<>> /\ queue = <<>> /\ turn = None /\ todo = None /\ exec = Idle
    BY <2>1 DEF Init
  <2>3. TypeOK
    <3>1. shown \in [Keys -> Shown]
      BY <2>1 DEF Init, Shown
    <3>2. ledger \in [Keys -> Entry \cup {None}] /\ heard \in [Ids -> {"no", "started", "said"}]
      BY <2>1 DEF Init
    <3>3. queue \in Seq(Prompt) /\ hooks \in Seq(Hook)
      BY <2>2
    <3> QED BY <2>1, <3>1, <3>2, <3>3 DEF Init, TypeOK, Execs
  <2>4. Entries /\ OneOpen /\ Planned /\ Executing
    BY <2>2 DEF Entries, OneOpen, Runs, Planned, Executing
  <2>5. OneId
    <3>1. \A n, i \in Nat : ~Names(n, i)
      BY <2>2 DEF Names, Runs
    <3> QED BY <3>1 DEF OneId
  <2> QED BY <2>3, <2>4, <2>5 DEF WakesInv
<1>2. WakesInv /\ [Next]_vars => WakesInv'
  <2>1. SUFFICES ASSUME WakesInv, [Next]_vars PROVE WakesInv'
    OBVIOUS
  <2>2. CASE Plan \/ Start \/ Hold
    BY <2>1, <2>2, PlanStep, StartStep, HoldStep
  <2>3. CASE Submit \/ Queued \/ Record
    BY <2>1, <2>3, SubmitStep, QueuedStep, RecordStep
  <2>4. CASE TurnStart \/ Chat \/ HookStart
    BY <2>1, <2>4, TurnStartStep, ChatStep, HookStartStep
  <2>5. CASE HookDrop \/ HookOff \/ Reload
    BY <2>1, <2>5, HookDropStep, HookOffStep, ReloadStep
  <2>6. CASE Restart \/ Tick
    BY <2>1, <2>6, RestartStep, TickStep
  <2>7. CASE \E i \in DOMAIN queue : Drop(i)
    BY <2>1, <2>7, DropStep
  <2>8. CASE \E said \in BOOLEAN, answer \in 0..lastId : TurnEnd(said, answer)
    BY <2>1, <2>8, TurnEndStep
  <2>9. CASE \E answer \in 1..lastId : Tool(answer)
    BY <2>1, <2>9, ToolStep
  <2>10. CASE \E sent \in BOOLEAN : HookEnd(sent)
    BY <2>1, <2>10, HookEndStep
  <2>11. CASE UNCHANGED vars
    <3>1. TypeOK'
      BY <2>1, <2>11 DEF WakesInv, TypeOK, vars
    <3> QED BY <2>1, <2>11, <3>1, Keeps, LedgerKept, NamesOf DEF WakesInv, vars
  <2> QED BY <2>1, <2>2, <2>3, <2>4, <2>5, <2>6, <2>7, <2>8, <2>9, <2>10, <2>11 DEF Next
<1> QED BY <1>1, <1>2, PTL DEF Spec

\* Every variable keeps its type: no wake gives back an attempt it did not take.
THEOREM TypeCorrect ==
  Spec => []TypeOK
<1>1. WakesInv => TypeOK
  BY DEF WakesInv
<1> QED BY <1>1, Invariance, PTL

\* One wake is open at a time (foundation.ts oneWake), though drops, reloads and undone starts
\* come between the plan and the submit.
THEOREM OneWakeOpen ==
  Spec => []OneOpen
<1>1. WakesInv => OneOpen
  BY DEF WakesInv
<1> QED BY <1>1, Invariance, PTL

----------------------------------------------------------------------------
(* The prompts: what was asked, and what of a tell was heard *)

\* a prompt that shows its wake for the first time, and a wake of which the session has and had none
First(p) == ~p.reminder
NoAsk(k) == shown[k].asks = 0 /\ \A i \in DOMAIN queue : queue[i].key = k => ~First(queue[i])

\* a wake's first prompt and its reminder were each shown once at most, the reminder after the prompt
Counted ==
  \A k \in Keys :
    /\ shown[k].asks <= 1 /\ shown[k].reminders <= 1
    /\ shown[k].reminders >= 1 => shown[k].asks >= 1 /\ ledger[k] # None /\ ledger[k].reminded
\* the queue holds no second first prompt of a key, and no other prompt with a first prompt's id
QueuedOnce ==
  /\ \A i \in DOMAIN queue : First(queue[i]) => shown[queue[i].key].asks = 0
  /\ \A i, j \in DOMAIN queue :
       First(queue[i]) /\ (queue[i].id = queue[j].id \/ (First(queue[j]) /\ queue[i].key = queue[j].key)) => i = j
\* what may go out, or out again, was not asked: a start undone, a wake given up when its prompt fell
Unasked ==
  /\ \A k \in Keys : Go(ledger, k) => NoAsk(k)
  /\ exec.phase \in {"saved", "dropped"} => NoAsk(exec.key)
  /\ \A j \in DOMAIN hooks, k \in Keys :
       hooks[j].on = "drop" /\ Runs(ledger, k) /\ ledger[k].mine = hooks[j].id /\ ledger[k].turn = 0 => NoAsk(k)
\* what has its turn, or a turn's start on the way, was asked
Asked ==
  /\ \A k \in Keys : Runs(ledger, k) /\ ledger[k].turn # 0 => shown[k].asks >= 1
  /\ \A j \in DOMAIN hooks, k \in Keys :
       hooks[j].on = "start" /\ Runs(ledger, k) /\ ledger[k].mine = hooks[j].id => shown[k].asks >= 1 /\ hooks[j].key = k
\* a prompt with the open wake's id, or the submit's, is of that wake, and a reminder is of a begun task
Owned ==
  /\ \A i \in DOMAIN queue, k \in Keys :
       Runs(ledger, k) /\ ledger[k].mine = queue[i].id =>
         queue[i].key = k /\ (First(queue[i]) \/ (k \in Tasks /\ ledger[k].turn # 0))
  /\ exec.phase \in {"grace", "settled", "dropped"} =>
       \A i \in DOMAIN queue : First(queue[i]) /\ queue[i].id = exec.id => queue[i].key = exec.key
\* every id in use was given out
IdsGiven ==
  /\ lastId <= MaxIds /\ (exec.phase = "saved" => lastId < MaxIds)
  /\ exec # Idle => exec.id <= lastId
  /\ \A i \in DOMAIN queue : queue[i].id <= lastId
  /\ \A j \in DOMAIN hooks : hooks[j].id <= lastId
  /\ turn # None => turn.id <= lastId
  /\ \A k \in Keys : Runs(ledger, k) => ledger[k].mine <= lastId /\ ledger[k].id <= lastId
  /\ \A i \in Ids : heard[i] # "no" => i <= lastId
AskInv == Counted /\ QueuedOnce /\ Unasked /\ Asked /\ Owned /\ IdsGiven

\* an open tell that was submitted; no turn has the id of a prompt still queued, a tell's id is one
\* turn's alone, and the turn whose start was heard is on its entry
Tell(k) == k \in Keys \ Tasks /\ Runs(ledger, k) /\ ledger[k].mine # 0
Unheard == \A i \in DOMAIN queue : First(queue[i]) => \A n \in Nat : ~Names(n, queue[i].id)
OneTurn == \A k \in Keys : Tell(k) => \A n, m \in Nat : Names(n, ledger[k].mine) /\ Names(m, ledger[k].mine) => n = m
HeardStart == \A k \in Keys : Tell(k) /\ heard[ledger[k].mine] = "started" => ledger[k].turn # 0
TellInv == Unheard /\ OneTurn /\ HeardStart /\ Told
PromptInv == AskInv /\ TellInv

----------------------------------------------------------------------------
(* What a step keeps of them *)

Alike(p, q) == p.key = q.key /\ p.id = q.id /\ (First(p) <=> First(q))

\* the prompts after the step were there before it
Fewer ==
  \A i, j \in DOMAIN queue' : \E a, b \in DOMAIN queue :
    Alike(queue'[i], queue[a]) /\ Alike(queue'[j], queue[b]) /\ (a = b => i = j)

\* so were the hooks, but for a turn's end
StartsFrom ==
  \A j \in DOMAIN hooks' :
    /\ hooks'[j].id <= lastId
    /\ hooks'[j].on = "start" => \E i \in DOMAIN hooks : hooks'[j] = hooks[i]
HooksFrom ==
  /\ StartsFrom
  /\ \A j \in DOMAIN hooks' : hooks'[j].on = "drop" => \E i \in DOMAIN hooks : hooks'[j] = hooks[i]

\* an open entry was open before the step, and only one not shown may be asked again
EntriesFrom ==
  \A k \in Keys :
    /\ Runs(ledger', k) =>
         /\ Runs(ledger, k) /\ ledger'[k].mine = ledger[k].mine /\ ledger'[k].id <= lastId
         /\ ledger[k].turn # 0 => ledger'[k].turn # 0
         /\ ledger'[k].turn # 0 => ledger[k].turn # 0 \/ shown[k].asks >= 1
    /\ Go(ledger', k) => NoAsk(k)
    /\ ledger[k] # None /\ ledger[k].reminded => ledger'[k] # None /\ ledger'[k].reminded

\* the submit stays the one it was
SameSubmit ==
  /\ exec'.phase = "saved" => exec' = exec
  /\ exec'.phase \in {"grace", "settled", "dropped"} =>
       exec.phase \in {"grace", "settled", "dropped"} /\ exec'.id = exec.id /\ exec'.key = exec.key
  /\ exec' # Idle => exec # Idle /\ exec'.id = exec.id
ExecFrom == exec' \in {exec, Idle} \/ (exec.phase = "grace" /\ exec' = [exec EXCEPT !.phase = "settled"])

LEMMA ExecFromFields ==
  ASSUME TypeOK, ExecFrom
  PROVE  SameSubmit /\ (exec'.phase \in {"saved", "dropped"} => exec' = exec)
<1> USE DEF SameSubmit
<1>1. Idle.phase = "idle"
  BY DEF Idle
<1>2. CASE exec' = exec
  BY <1>2
<1>3. CASE exec' = Idle
  BY <1>1, <1>3
<1>4. CASE exec.phase = "grace" /\ exec' = [exec EXCEPT !.phase = "settled"]
  <2>1. exec # Idle
    BY <1>1, <1>4
  <2>2. exec'.phase = "settled" /\ exec'.id = exec.id /\ exec'.key = exec.key
    BY <1>4, <2>1, PhaseKept
  <2> QED BY <1>4, <2>1, <2>2
<1> QED BY <1>2, <1>3, <1>4 DEF ExecFrom

LEMMA NoAskKept ==
  ASSUME Fewer, shown' = shown, NEW k, NoAsk(k)
  PROVE  NoAsk(k)'
  BY DEF Fewer, Alike, NoAsk

LEMMA QueuedKept ==
  ASSUME QueuedOnce, Fewer, shown' = shown
  PROVE  QueuedOnce'
<1>1. \A i \in DOMAIN queue' : First(queue'[i]) => shown'[queue'[i].key].asks = 0
  BY DEF QueuedOnce, Fewer, Alike
<1>2. \A i, j \in DOMAIN queue' :
        First(queue'[i]) /\ (queue'[i].id = queue'[j].id \/ (First(queue'[j]) /\ queue'[i].key = queue'[j].key)) => i = j
  BY DEF QueuedOnce, Fewer, Alike
<1> QED BY <1>1, <1>2 DEF QueuedOnce

LEMMA OthersKept ==
  ASSUME TypeOK, AskInv, Fewer, StartsFrom, EntriesFrom, SameSubmit, shown' = shown, lastId' = lastId,
         turn' # None => turn'.id <= lastId, \A i \in Ids : heard'[i] # "no" => i <= lastId
  PROVE  Counted' /\ QueuedOnce' /\ Asked' /\ Owned' /\ IdsGiven'
<1> USE DEF AskInv
<1>1. Counted'
  BY DEF Counted, EntriesFrom
<1>2. QueuedOnce'
  BY QueuedKept
<1>3. Asked'
  <2>1. \A k \in Keys : Runs(ledger', k) /\ ledger'[k].turn # 0 => shown'[k].asks >= 1
    BY DEF Asked, EntriesFrom
  <2>2. ASSUME NEW j \in DOMAIN hooks', NEW k \in Keys, hooks'[j].on = "start", Runs(ledger', k),
               ledger'[k].mine = hooks'[j].id
        PROVE  shown'[k].asks >= 1 /\ hooks'[j].key = k
    <3>1. PICK i \in DOMAIN hooks : hooks'[j] = hooks[i]
      BY <2>2 DEF StartsFrom
    <3> QED BY <2>2, <3>1 DEF EntriesFrom, Asked
  <2> QED BY <2>1, <2>2 DEF Asked
<1>4. Owned'
  <2>1. ASSUME NEW i \in DOMAIN queue', NEW k \in Keys, Runs(ledger', k), ledger'[k].mine = queue'[i].id
        PROVE  queue'[i].key = k /\ (First(queue'[i]) \/ (k \in Tasks /\ ledger'[k].turn # 0))
    <3>1. PICK a \in DOMAIN queue : Alike(queue'[i], queue[a])
      BY DEF Fewer
    <3> QED BY <2>1, <3>1 DEF EntriesFrom, Owned, Alike
  <2>2. ASSUME exec'.phase \in {"grace", "settled", "dropped"},
               NEW i \in DOMAIN queue', First(queue'[i]), queue'[i].id = exec'.id
        PROVE  queue'[i].key = exec'.key
    <3>1. PICK a \in DOMAIN queue : Alike(queue'[i], queue[a])
      BY DEF Fewer
    <3> QED BY <2>2, <3>1 DEF SameSubmit, Owned, Alike
  <2> QED BY <2>1, <2>2 DEF Owned
<1>5. IdsGiven'
  <2>1. exec'.phase = "saved" => lastId < MaxIds
    BY DEF SameSubmit, IdsGiven
  <2>2. exec' # Idle => exec'.id <= lastId
    BY DEF SameSubmit, IdsGiven
  <2>3. \A i \in DOMAIN queue' : queue'[i].id <= lastId
    BY DEF Fewer, Alike, IdsGiven
  <2>4. \A k \in Keys : Runs(ledger', k) => ledger'[k].mine <= lastId /\ ledger'[k].id <= lastId
    BY DEF EntriesFrom, IdsGiven
  <2> QED BY <2>1, <2>2, <2>3, <2>4 DEF IdsGiven, StartsFrom
<1> QED BY <1>1, <1>2, <1>3, <1>4, <1>5


LEMMA AskKept ==
  ASSUME TypeOK, AskInv, Fewer, HooksFrom, EntriesFrom, ExecFrom, shown' = shown, lastId' = lastId,
         turn' # None => turn'.id <= lastId, \A i \in Ids : heard'[i] # "no" => i <= lastId
  PROVE  AskInv'
<1>1. Counted' /\ QueuedOnce' /\ Asked' /\ Owned' /\ IdsGiven'
  BY OthersKept, ExecFromFields DEF HooksFrom
<1>2. Unasked'
  <2>1. \A k \in Keys : Go(ledger', k) => NoAsk(k)'
    BY NoAskKept DEF EntriesFrom
  <2>2. exec'.phase \in {"saved", "dropped"} => NoAsk(exec.key)'
    BY NoAskKept, ExecFromFields DEF AskInv, Unasked
  <2>3. ASSUME NEW j \in DOMAIN hooks', NEW k \in Keys, hooks'[j].on = "drop", Runs(ledger', k),
               ledger'[k].mine = hooks'[j].id, ledger'[k].turn = 0
        PROVE  NoAsk(k)'
    <3>1. PICK i \in DOMAIN hooks : hooks'[j] = hooks[i]
      BY <2>3 DEF HooksFrom
    <3>2. Runs(ledger, k) /\ ledger[k].mine = hooks[i].id /\ ledger[k].turn = 0
      BY <2>3, <3>1 DEF EntriesFrom
    <3> QED BY <2>3, <3>1, <3>2, NoAskKept DEF AskInv, Unasked
  <2>4. exec'.phase \in {"saved", "dropped"} => exec'.key = exec.key
    BY ExecFromFields
  <2> QED BY <2>1, <2>2, <2>3, <2>4 DEF Unasked, NoAsk
<1> QED BY <1>1, <1>2 DEF AskInv

\* what keeps the tells: no turn is named that was not, and the open tells were open
TellsFrom ==
  \A k \in Keys : Tell(k)' => Tell(k) /\ ledger'[k].mine = ledger[k].mine /\ (ledger[k].turn # 0 => ledger'[k].turn # 0)

LEMMA TurnsKept ==
  ASSUME TypeOK, TypeOK', TellInv, Fewer, TellsFrom,
         \A n \in Nat, i \in Nat \ {0} : Names(n, i)' => Names(n, i)
  PROVE  Unheard' /\ OneTurn'
<1> USE DEF TellInv
<1>1. Unheard'
  <2>1. ASSUME NEW i \in DOMAIN queue', First(queue'[i]), NEW n \in Nat, NEW x \in Nat \ {0}, x = queue'[i].id
        PROVE  ~Names(n, x)'
    <3>1. PICK a \in DOMAIN queue : Alike(queue'[i], queue[a])
      BY DEF Fewer
    <3> QED BY <2>1, <3>1 DEF Alike, Unheard
  <2>2. \A i \in DOMAIN queue' : queue'[i].id \in Nat \ {0}
    BY PromptFields DEF TypeOK
  <2> QED BY <2>1, <2>2 DEF Unheard, Names
<1>2. OneTurn'
  <2>1. ASSUME NEW k \in Keys, Tell(k)', NEW n \in Nat, NEW m \in Nat, NEW x \in Nat \ {0}, x = ledger'[k].mine,
               Names(n, x)', Names(m, x)'
        PROVE  n = m
    <3>1. Names(n, x) /\ Names(m, x) /\ Tell(k) /\ ledger[k].mine = x
      BY <2>1 DEF TellsFrom
    <3> QED BY <3>1 DEF OneTurn
  <2>2. \A k \in Keys : Tell(k)' => ledger'[k].mine \in Nat \ {0}
    BY EntryFields DEF TypeOK, Tell, Runs
  <2> QED BY <2>1, <2>2 DEF OneTurn, Names
<1> QED BY <1>1, <1>2

LEMMA TellKept ==
  ASSUME TypeOK, TypeOK', TellInv, Fewer, TellsFrom, heard' = heard, misled \subseteq misled',
         \A n \in Nat, i \in Nat \ {0} : Names(n, i)' => Names(n, i)
  PROVE  TellInv'
<1>1. HeardStart'
  BY DEF TellInv, HeardStart, TellsFrom
<1>2. Told'
  BY DEF TellInv, Told, TellsFrom, Tell
<1> QED BY <1>1, <1>2, TurnsKept DEF TellInv

LEMMA NamesBefore ==
  ASSUME turn' # None => turn'.id = 0 \/ Names(turn'.n, turn'.id),
         \A j \in DOMAIN hooks' : hooks'[j].on # "drop" => Names(hooks'[j].n, hooks'[j].id),
         \A k \in Keys \ misled' : Runs(ledger', k) /\ ledger'[k].turn # 0 => Names(ledger'[k].turn, ledger'[k].id)
  PROVE  \A n \in Nat, i \in Nat \ {0} : Names(n, i)' => Names(n, i)
<1>1. TAKE n \in Nat, i \in Nat \ {0}
<1>2. HAVE Names(n, i)'
<1>3. CASE turn' # None /\ turn'.n = n /\ turn'.id = i
  BY <1>3
<1>4. CASE \E j \in DOMAIN hooks' : hooks'[j].on # "drop" /\ hooks'[j].n = n /\ hooks'[j].id = i
  BY <1>4
<1>5. CASE \E k \in Keys \ misled' : Runs(ledger', k) /\ ledger'[k].turn # 0 /\ ledger'[k].turn = n /\ ledger'[k].id = i
  BY <1>5
<1> QED BY <1>2, <1>3, <1>4, <1>5 DEF Names

\* The queue as it is, or cut short by one prompt.
LEMMA QueueSame ==
  ASSUME queue' = queue
  PROVE  Fewer
  BY DEF Fewer, Alike

LEMMA QueueLess ==
  ASSUME TypeOK, NEW r \in DOMAIN queue, queue' = RemoveAt(queue, r) \/ (r = 1 /\ queue' = Tail(queue))
  PROVE  /\ Fewer
         /\ \A i \in DOMAIN queue' : \E a \in DOMAIN queue : a # r /\ queue'[i] = queue[a]
<1>1. queue \in Seq(Prompt) /\ Len(queue) \in Nat /\ DOMAIN queue = 1..Len(queue) /\ r \in 1..Len(queue)
  BY DEF TypeOK
<1>2. /\ DOMAIN queue' = 1..(Len(queue) - 1)
      /\ \A i \in 1..(Len(queue) - 1) : queue'[i] = IF i < r THEN queue[i] ELSE queue[i + 1]
  <2>1. CASE queue' = RemoveAt(queue, r)
    <3> DEFINE s == SubSeq(queue, 1, r - 1)
               t == SubSeq(queue, r + 1, Len(queue))
    <3>1. /\ s \in Seq(Prompt) /\ Len(s) = r - 1 /\ \A i \in 1..(r - 1) : s[i] = queue[i]
      <4>1. \A i \in 1..(r - 1) : queue[i] \in Prompt
        BY <1>1
      <4> QED BY <1>1, <4>1, SubSeqProperties
    <3>2. /\ t \in Seq(Prompt) /\ Len(t) = Len(queue) - r
          /\ \A i \in 1..(Len(queue) - r) : t[i] = queue[r + i]
      <4>1. \A i \in (r + 1)..Len(queue) : queue[i] \in Prompt
        BY <1>1
      <4> QED BY <1>1, <4>1, SubSeqProperties
    <3>3. queue' = s \o t
      BY <2>1 DEF RemoveAt
    <3> HIDE DEF s, t
    <3>4. /\ Len(queue') = Len(queue) - 1 /\ DOMAIN queue' = 1..Len(queue')
          /\ \A i \in 1..Len(queue') : queue'[i] = IF i <= Len(s) THEN s[i] ELSE t[i - Len(s)]
      <4>1. /\ s \o t \in Seq(Prompt) /\ Len(s \o t) = Len(s) + Len(t)
            /\ \A i \in 1..(Len(s) + Len(t)) : (s \o t)[i] = IF i <= Len(s) THEN s[i] ELSE t[i - Len(s)]
        BY <3>1, <3>2, ConcatProperties
      <4>2. Len(s) + Len(t) = Len(queue) - 1
        BY <1>1, <3>1, <3>2
      <4> QED BY <3>3, <4>1, <4>2
    <3>5. \A i \in 1..(Len(queue) - 1) : i < r => queue'[i] = queue[i]
      BY <1>1, <3>1, <3>4
    <3>6. \A i \in 1..(Len(queue) - 1) : ~(i < r) => queue'[i] = queue[i + 1]
      <4>1. TAKE i \in 1..(Len(queue) - 1)
      <4>2. HAVE ~(i < r)
      <4>3. queue'[i] = t[i - (r - 1)] /\ i - (r - 1) \in 1..(Len(queue) - r) /\ r + (i - (r - 1)) = i + 1
        BY <1>1, <3>1, <3>4, <4>1, <4>2
      <4> QED BY <3>2, <4>3
    <3> QED BY <1>1, <3>4, <3>5, <3>6
  <2>2. CASE r = 1 /\ queue' = Tail(queue)
    <3>1. queue # <<>>
      BY <1>1
    <3> QED BY <1>1, <2>2, <3>1, HeadTailProperties
  <2> QED BY <2>1, <2>2
<1>3. \A i, j \in DOMAIN queue' : \E a, b \in DOMAIN queue :
        a # r /\ queue'[i] = queue[a] /\ queue'[j] = queue[b] /\ (a = b => i = j)
  <2>1. TAKE i, j \in DOMAIN queue'
  <2> DEFINE from(x) == IF x < r THEN x ELSE x + 1
  <2>2. from(i) \in DOMAIN queue /\ from(j) \in DOMAIN queue /\ from(i) # r
    BY <1>1, <1>2, <2>1
  <2>3. queue'[i] = queue[from(i)] /\ queue'[j] = queue[from(j)]
    BY <1>2, <2>1
  <2>4. from(i) = from(j) => i = j
    BY <1>1, <1>2, <2>1
  <2> QED BY <2>2, <2>3, <2>4
<1> QED BY <1>3 DEF Fewer, Alike

LEMMA HooksSame ==
  ASSUME AskInv, hooks' = hooks
  PROVE  HooksFrom
  BY DEF AskInv, IdsGiven, HooksFrom, StartsFrom

LEMMA HooksRun ==
  ASSUME TypeOK, AskInv, hooks # <<>>, hooks' = Tail(hooks)
  PROVE  HooksFrom
<1>1. hooks \in Seq(Hook) /\ Len(hooks) \in Nat \ {0}
  BY DEF TypeOK
<1>2. \A j \in DOMAIN hooks' : j + 1 \in DOMAIN hooks /\ hooks'[j] = hooks[j + 1]
  BY <1>1, HeadTailProperties
<1> QED BY <1>2 DEF AskInv, IdsGiven, HooksFrom, StartsFrom

LEMMA LedgerSame ==
  ASSUME WakesInv, AskInv, ledger' = ledger
  PROVE  EntriesFrom
  BY DEF EntriesFrom, AskInv, Unasked, IdsGiven

\* What most steps leave to show.
LEMMA PromptKept ==
  ASSUME WakesInv, TypeOK', PromptInv, misled = {}, misled' = {}, Fewer, HooksFrom, EntriesFrom, ExecFrom,
         shown' = shown, lastId' = lastId, heard' = heard,
         turn' # None => turn'.id = 0 \/ turn' = turn,
         \A j \in DOMAIN hooks' : hooks'[j].on # "drop" => Names(hooks'[j].n, hooks'[j].id),
         \A k \in Keys \ misled' : Runs(ledger', k) /\ ledger'[k].turn # 0 => Names(ledger'[k].turn, ledger'[k].id)
  PROVE  PromptInv'
<1>1. turn' # None => turn'.id <= lastId
  BY DEF PromptInv, AskInv, IdsGiven, WakesInv, TypeOK
<1>2. AskInv'
  BY <1>1, AskKept DEF PromptInv, WakesInv, AskInv, IdsGiven
<1>3. TellsFrom
  BY DEF TellsFrom, EntriesFrom, Tell
<1>4. TellInv'
  BY <1>3, TellKept, NamesBefore, NamesOf DEF PromptInv, WakesInv
<1> QED BY <1>2, <1>4 DEF PromptInv

\* a step that only ends open entries, and lets none be asked again but one not shown
EndsFrom ==
  \A k \in Keys :
    \/ ledger'[k] = ledger[k]
    \/ /\ Runs(ledger, k) /\ ledger'[k] # None /\ ledger'[k].status \in Ended
       /\ ledger[k].reminded => ledger'[k].reminded
       /\ ledger'[k].status = "lost" => NoAsk(k)

LEMMA EndsFromFields ==
  ASSUME WakesInv, AskInv, EndsFrom, misled \subseteq misled'
  PROVE  /\ EntriesFrom
         /\ \A k \in Keys \ misled' : Runs(ledger', k) /\ ledger'[k].turn # 0 => Names(ledger'[k].turn, ledger'[k].id)
<1>1. \A k \in Keys : Runs(ledger', k) => ledger'[k] = ledger[k] /\ Runs(ledger, k)
  BY DEF EndsFrom, Runs, Ended
<1>2. \A k \in Keys : Go(ledger', k) => NoAsk(k)
  BY DEF EndsFrom, Go, AskInv, Unasked
<1>3. \A k \in Keys : ledger[k] # None /\ ledger[k].reminded => ledger'[k] # None /\ ledger'[k].reminded
  BY DEF EndsFrom
<1>4. EntriesFrom
  BY <1>1, <1>2, <1>3 DEF EntriesFrom, AskInv, IdsGiven
<1> QED BY <1>1, <1>4, NamesOf

LEMMA PlanAsks ==
  ASSUME WakesInv, TypeOK', PromptInv, misled = {}, misled' = {}, Plan
  PROVE  PromptInv'
<1>1. EndsFrom
  <2>1. SUFFICES ASSUME NEW k \in Keys, ledger'[k] # ledger[k]
                 PROVE  /\ Runs(ledger, k) /\ ledger'[k] # None /\ ledger'[k].status = "timed-out"
                        /\ ledger'[k].reminded = ledger[k].reminded
    BY DEF EndsFrom, Ended
  <2>2. Runs(ledger, k) /\ ledger'[k] = [ledger[k] EXCEPT !.status = "timed-out"]
    BY <2>1 DEF Plan, Expired
  <2>3. ledger[k] \in Entry
    BY <2>2, LedgerFields DEF WakesInv
  <2>4. ledger'[k] \in Entry /\ ledger'[k].status = "timed-out" /\ ledger'[k].reminded = ledger[k].reminded
    BY <2>2, <2>3 DEF Entry, Ended
  <2> QED BY <2>2, <2>4, EntryFields
<1>2. /\ queue' = queue /\ hooks' = hooks /\ exec' = exec /\ shown' = shown /\ lastId' = lastId
      /\ heard' = heard /\ turn' = turn
  BY DEF Plan
<1>3. EntriesFrom /\ \A k \in Keys \ misled' : Runs(ledger', k) /\ ledger'[k].turn # 0 => Names(ledger'[k].turn, ledger'[k].id)
  BY <1>1, EndsFromFields DEF PromptInv
<1> QED BY <1>2, <1>3, PromptKept, QueueSame, HooksSame, NamesOf DEF ExecFrom, PromptInv

LEMMA ToolAsks ==
  ASSUME WakesInv, TypeOK', PromptInv, misled = {}, misled' = {}, NEW answer \in 1..lastId, Tool(answer)
  PROVE  PromptInv'
<1>1. EndsFrom
  <2>1. answer \in Nat /\ ledger' = Answered(ledger, answer)
    BY DEF WakesInv, TypeOK, Tool
  <2>2. SUFFICES ASSUME NEW k \in Keys, ledger'[k] # ledger[k]
                 PROVE  /\ Runs(ledger, k) /\ ledger'[k] # None /\ ledger'[k].status = "done"
                        /\ ledger'[k].reminded = ledger[k].reminded
    BY DEF EndsFrom, Ended
  <2>3. Runs(ledger, k) /\ ledger'[k] = [ledger[k] EXCEPT !.status = "done", !.by = answer]
    BY <2>1, <2>2 DEF Answered
  <2>4. ledger[k] \in Entry
    BY <2>3, LedgerFields DEF WakesInv
  <2>5. ledger'[k] \in Entry /\ ledger'[k].status = "done" /\ ledger'[k].reminded = ledger[k].reminded
    BY <2>1, <2>3, <2>4 DEF Entry, Ended
  <2> QED BY <2>3, <2>5, EntryFields
<1>2. /\ queue' = queue /\ hooks' = hooks /\ exec' = exec /\ shown' = shown /\ lastId' = lastId
      /\ heard' = heard /\ turn' = turn
  BY DEF Tool
<1>3. EntriesFrom /\ \A k \in Keys \ misled' : Runs(ledger', k) /\ ledger'[k].turn # 0 => Names(ledger'[k].turn, ledger'[k].id)
  BY <1>1, EndsFromFields DEF PromptInv
<1> QED BY <1>2, <1>3, PromptKept, QueueSame, HooksSame, NamesOf DEF ExecFrom, PromptInv

LEMMA HookDropAsks ==
  ASSUME WakesInv, TypeOK', PromptInv, misled = {}, misled' = {}, HookDrop
  PROVE  PromptInv'
<1> DEFINE h == Head(hooks)
<1>1. /\ h \in Hook /\ h.on = "drop" /\ hooks # <<>> /\ hooks' = Tail(hooks)
      /\ \A j \in DOMAIN hooks' : hooks'[j].on # "drop" => Names(hooks'[j].n, hooks'[j].id)
  BY HookRun DEF WakesInv, HookDrop
<1>2. h.id \in Nat \ {0} /\ 1 \in DOMAIN hooks /\ h = hooks[1]
  BY <1>1, HookFields DEF WakesInv, TypeOK
<1>3. EndsFrom
  <2>1. SUFFICES ASSUME NEW k \in Keys, ledger'[k] # ledger[k]
                 PROVE  /\ Runs(ledger, k) /\ ledger'[k] # None /\ ledger'[k].status = "lost"
                        /\ ledger'[k].reminded = ledger[k].reminded /\ NoAsk(k)
    BY DEF EndsFrom, Ended
  <2>2. k \in Dropped(h) /\ ledger'[k] = Lost(ledger[k])
    BY <2>1 DEF HookDrop
  <2>3. Runs(ledger, k) /\ ledger[k] \in Entry /\ ledger[k].id = h.id /\ ledger[k].turn = 0
    BY <2>2, LedgerFields DEF WakesInv, Dropped
  <2>4. ledger'[k] \in Entry /\ ledger'[k].status = "lost"
    BY <2>2, <2>3, LostFields
  <2>5. ledger'[k].reminded = ledger[k].reminded
    BY <2>2, <2>3 DEF Lost, Entry
  <2>6. ledger[k].mine = h.id
    BY <1>2, <2>3 DEF WakesInv, Entries, EntryOK, Runs
  <2>7. NoAsk(k)
    BY <1>1, <1>2, <2>3, <2>6 DEF PromptInv, AskInv, Unasked
  <2> QED BY <2>3, <2>4, <2>5, <2>7, EntryFields
<1>4. queue' = queue /\ exec' = exec /\ shown' = shown /\ lastId' = lastId /\ heard' = heard /\ turn' = turn
  BY DEF HookDrop
<1>5. EntriesFrom /\ \A k \in Keys \ misled' : Runs(ledger', k) /\ ledger'[k].turn # 0 => Names(ledger'[k].turn, ledger'[k].id)
  BY <1>3, EndsFromFields DEF PromptInv
<1> QED BY <1>1, <1>4, <1>5, PromptKept, QueueSame, HooksRun DEF ExecFrom, PromptInv, WakesInv

LEMMA QueuedAsks ==
  ASSUME WakesInv, TypeOK', PromptInv, misled = {}, misled' = {}, Queued
  PROVE  PromptInv'
<1>1. /\ queue' = queue /\ hooks' = hooks /\ shown' = shown /\ lastId' = lastId
      /\ heard' = heard /\ turn' = turn /\ ledger' = ledger
  BY DEF Queued
<1>2. ExecFrom
  BY DEF Queued, ExecFrom
<1> QED BY <1>1, <1>2, PromptKept, QueueSame, HooksSame, LedgerSame, NamesOf DEF PromptInv

\* a step that leaves the prompts, the hooks and the ledger alone
LEMMA QuietAsks ==
  ASSUME WakesInv, TypeOK', PromptInv, misled = {}, misled' = {}, Hold \/ Tick \/ Chat \/ UNCHANGED vars
  PROVE  PromptInv'
<1>1. /\ queue' = queue /\ hooks' = hooks /\ shown' = shown /\ lastId' = lastId /\ exec' = exec
      /\ heard' = heard /\ ledger' = ledger
  BY DEF Hold, Tick, Chat, vars
<1>2. turn' = turn \/ (turn' # None => turn'.id = 0)
  BY DEF Hold, Tick, Chat, vars
<1> QED BY <1>1, <1>2, PromptKept, QueueSame, HooksSame, LedgerSame, NamesOf DEF ExecFrom, PromptInv

LEMMA TurnEndAsks ==
  ASSUME WakesInv, TypeOK', PromptInv, misled = {}, misled' = {}, NEW said \in BOOLEAN, NEW answer \in 0..lastId, TurnEnd(said, answer)
  PROVE  PromptInv'
<1> DEFINE h == [on |-> "end", n |-> turn.n, id |-> turn.id, said |-> said, answer |-> answer]
<1>1. turn.n \in Nat \ {0} /\ turn.id \in Nat /\ answer \in Nat /\ Names(turn.n, turn.id) /\ turn.id <= lastId
  BY TurnFields, NamesOf DEF WakesInv, TypeOK, TurnEnd, PromptInv, AskInv, IdsGiven
<1>2. h \in Hook /\ h.n = turn.n /\ h.id = turn.id /\ h.on = "end" /\ hooks' = Append(hooks, h)
  BY <1>1 DEF Hook, TurnEnd
<1> HIDE DEF h
<1>3. \A j \in DOMAIN hooks' : (j \in DOMAIN hooks /\ hooks'[j] = hooks[j]) \/ hooks'[j] = h
  BY <1>2, HookAdded DEF WakesInv
<1>4. \A j \in DOMAIN hooks' : hooks'[j].on # "drop" => Names(hooks'[j].n, hooks'[j].id)
  BY <1>1, <1>2, <1>3, NamesOf
<1>5. HooksFrom
  BY <1>1, <1>2, <1>3 DEF HooksFrom, StartsFrom, PromptInv, AskInv, IdsGiven
<1>6. /\ queue' = queue /\ shown' = shown /\ lastId' = lastId /\ exec' = exec
      /\ heard' = heard /\ ledger' = ledger /\ turn' = None
  BY DEF TurnEnd
<1> QED BY <1>4, <1>5, <1>6, PromptKept, QueueSame, LedgerSame, NamesOf DEF ExecFrom, PromptInv

LEMMA HookOffAsks ==
  ASSUME WakesInv, TypeOK', PromptInv, misled = {}, misled' = {}, HookOff
  PROVE  PromptInv'
<1>1. /\ hooks # <<>> /\ hooks' = Tail(hooks)
      /\ \A j \in DOMAIN hooks' : hooks'[j].on # "drop" => Names(hooks'[j].n, hooks'[j].id)
  BY HookRun DEF WakesInv, HookOff
<1>2. /\ queue' = queue /\ shown' = shown /\ lastId' = lastId /\ exec' = exec
      /\ heard' = heard /\ ledger' = ledger /\ turn' = turn
  BY DEF HookOff
<1> QED BY <1>1, <1>2, PromptKept, QueueSame, HooksRun, LedgerSame, NamesOf DEF ExecFrom, PromptInv, WakesInv

LEMMA ReloadAsks ==
  ASSUME WakesInv, TypeOK', PromptInv, misled = {}, misled' = {}, Reload
  PROVE  PromptInv'
<1>1. \A i \in DOMAIN queue : Alike([queue[i] EXCEPT !.watched = FALSE], queue[i])
  <2>1. TAKE i \in DOMAIN queue
  <2>2. queue[i] \in Prompt
    BY DEF WakesInv, TypeOK
  <2> QED BY <2>2 DEF Prompt, Alike, First
<1>2. DOMAIN queue' = DOMAIN queue /\ \A i \in DOMAIN queue : queue'[i] = [queue[i] EXCEPT !.watched = FALSE]
  BY DEF Reload
<1>3. Fewer
  <2>1. \A i \in DOMAIN queue' : i \in DOMAIN queue /\ Alike(queue'[i], queue[i])
    BY <1>1, <1>2
  <2> QED BY <2>1 DEF Fewer
<1>4. /\ hooks' = <<>> /\ shown' = shown /\ lastId' = lastId /\ exec' = Idle
      /\ heard' = heard /\ ledger' = ledger /\ turn' = turn
  BY DEF Reload
<1>5. HooksFrom
  BY <1>4 DEF HooksFrom, StartsFrom
<1> QED BY <1>3, <1>4, <1>5, PromptKept, LedgerSame, NamesOf DEF ExecFrom, PromptInv

LEMMA StartAsks ==
  ASSUME WakesInv, TypeOK', PromptInv, misled = {}, misled' = {}, Start
  PROVE  PromptInv'
<1> DEFINE e == [status |-> "running", attempts |-> IF ledger[todo] = None THEN 1 ELSE ledger[todo].attempts + 1,
                 at |-> now, id |-> 0, turn |-> 0, reminded |-> FALSE, mine |-> 0, by |-> 0]
<1>1. todo \in Keys /\ exec = Idle /\ OneWake(ledger, todo) /\ ledger' = [ledger EXCEPT ![todo] = e]
  BY DEF WakesInv, TypeOK, Planned, Start
<1>2. e.status = "running" /\ e.id = 0 /\ e.turn = 0 /\ e.mine = 0
  OBVIOUS
<1> HIDE DEF e
<1>3. ledger'[todo] = e /\ \A k \in Keys : k # todo => ledger'[k] = ledger[k] /\ ~Runs(ledger, k)
  BY <1>1 DEF WakesInv, TypeOK, OneWake, Open
<1>4. e # None /\ ~Go(ledger', todo)
  <2>1. ledger[todo] = None \/ ledger[todo].attempts \in Nat
    BY <1>1, LedgerFields, EntryFields DEF WakesInv
  <2>2. e \in Entry
    BY <2>1 DEF WakesInv, TypeOK, Entry, e
  <2>3. e # None
    BY <2>2, EntryFields
  <2> QED BY <1>2, <1>3, <2>3 DEF Go
<1>5. NoAsk(todo)
  BY <1>1 DEF PromptInv, AskInv, Unasked, OneWake
<1>6. /\ queue' = queue /\ hooks' = hooks /\ shown' = shown /\ lastId' = lastId /\ heard' = heard /\ turn' = turn
      /\ exec' = [phase |-> "saved", key |-> todo, prev |-> ledger[todo], id |-> 0] /\ lastId < MaxIds
  BY DEF Start
<1>7. \A i \in DOMAIN queue : queue[i].id # 0
  BY PromptFields DEF WakesInv, TypeOK
<1>8. \A j \in DOMAIN hooks : hooks[j].on # "end" => hooks[j].id # 0
  <2>1. \A j \in DOMAIN hooks : hooks[j] \in Hook
    BY DEF WakesInv, TypeOK
  <2> QED BY <2>1, HookFields
<1>9. lastId \in Nat /\ shown[todo].reminders \in Nat
  BY <1>1 DEF WakesInv, TypeOK, Shown
<1>10. \A k \in Keys : Runs(ledger', k) => k = todo
  BY <1>3 DEF Runs
<1>11. AskInv'
  <2> USE DEF PromptInv, AskInv
  <2>1. Counted'
    <3>1. shown[todo].reminders = 0
      BY <1>1, <1>5, <1>9 DEF Counted, NoAsk
    <3>2. \A k \in Keys : k # todo => ledger'[k] = ledger[k]
      BY <1>3
    <3> QED BY <1>1, <1>5, <1>6, <3>1, <3>2 DEF Counted, NoAsk
  <2>2. QueuedOnce'
    BY <1>6, QueueSame, QueuedKept
  <2>3. Unasked'
    <3>1. \A k : NoAsk(k) => NoAsk(k)'
      BY <1>6 DEF NoAsk
    <3>2. \A k \in Keys : Go(ledger', k) => NoAsk(k)'
      BY <1>3, <1>4, <3>1 DEF Unasked, Go
    <3>3. exec'.key = todo
      BY <1>6
    <3>4. NoAsk(exec.key)'
      BY <1>5, <1>6, <3>3 DEF NoAsk
    <3>5. \A j \in DOMAIN hooks', k \in Keys : hooks'[j].on = "drop" => ~(Runs(ledger', k) /\ ledger'[k].mine = hooks'[j].id)
      BY <1>2, <1>3, <1>6, <1>8, <1>10
    <3> QED BY <3>2, <3>4, <3>5 DEF Unasked
  <2>4. Asked'
    <3>1. \A j \in DOMAIN hooks', k \in Keys : hooks'[j].on = "start" => ~(Runs(ledger', k) /\ ledger'[k].mine = hooks'[j].id)
      BY <1>2, <1>3, <1>6, <1>8, <1>10
    <3> QED BY <1>2, <1>3, <1>10, <3>1 DEF Asked
  <2>5. Owned'
    <3>1. exec'.phase = "saved"
      BY <1>6
    <3> QED BY <1>2, <1>3, <1>6, <1>7, <1>10, <3>1 DEF Owned
  <2>6. IdsGiven'
    <3>1. exec'.id = 0
      BY <1>6
    <3>2. \A k \in Keys : Runs(ledger', k) => ledger'[k].mine <= lastId /\ ledger'[k].id <= lastId
      BY <1>2, <1>3, <1>9, <1>10
    <3> QED BY <1>6, <1>9, <3>1, <3>2 DEF IdsGiven
  <2> QED BY <2>1, <2>2, <2>3, <2>4, <2>5, <2>6
<1>12. TellInv'
  <2>1. TellsFrom
    BY <1>2, <1>3, <1>10 DEF TellsFrom, Tell
  <2>2. \A k \in Keys \ misled' : Runs(ledger', k) /\ ledger'[k].turn # 0 => Names(ledger'[k].turn, ledger'[k].id)
    BY <1>2, <1>3, <1>10
  <2> QED BY <1>6, <2>1, <2>2, TellKept, NamesBefore, NamesOf, QueueSame DEF PromptInv, WakesInv
<1> QED BY <1>11, <1>12 DEF PromptInv

LEMMA RestartAsks ==
  ASSUME WakesInv, TypeOK', PromptInv, misled = {}, misled' = {}, Restart
  PROVE  PromptInv'
<1>1. /\ queue' = <<>> /\ hooks' = <<>> /\ exec' = Idle /\ turn' = None /\ lastId' = lastId /\ heard' = heard
      /\ \A k \in Keys : shown'[k] = [asks |-> 0, reminders |-> 0]
  BY DEF Restart
<1>2. \A k \in Keys : ~Runs(ledger', k)
  <2>1. \A k \in Keys : ledger'[k] = IF Runs(ledger, k) THEN Lost(ledger[k]) ELSE ledger[k]
    BY DEF Restart, Orphaned
  <2> QED BY <2>1, LostFields DEF Runs
<1>3. exec'.phase = "idle"
  BY <1>1 DEF Idle
<1>4. Counted' /\ QueuedOnce' /\ Asked' /\ Owned'
  BY <1>1, <1>2, <1>3 DEF Counted, QueuedOnce, Asked, Owned
<1>5. Unasked'
  BY <1>1, <1>2, <1>3 DEF Unasked, NoAsk
<1>6. IdsGiven'
  BY <1>1, <1>2, <1>3 DEF IdsGiven, PromptInv, AskInv
<1>7. TellInv'
  <2>1. \A k : ~Tell(k)'
    BY <1>2 DEF Tell
  <2>2. \A k \in Keys \ Tasks : ~Runs(ledger', k)
    BY <1>2
  <2> QED BY <1>1, <2>1, <2>2 DEF TellInv, Unheard, OneTurn, HeardStart, Told
<1> QED BY <1>4, <1>5, <1>6, <1>7 DEF PromptInv, AskInv

\* A prompt dropped within the grace undoes its start; else the id goes on the entry.
LEMMA RecordAsks ==
  ASSUME WakesInv, TypeOK', PromptInv, misled = {}, misled' = {}, Record
  PROVE  PromptInv'
<1> DEFINE key == exec.key
<1>1. exec # Idle /\ key \in Keys /\ exec.id \in Nat /\ exec.prev \in Entry \cup {None}
  BY ExecFields DEF WakesInv, Record, Idle
<1>2. ledger[key] # None /\ Unstarted(exec.prev) /\ exec.id # 0 /\ ledger[key].mine = exec.id /\ exec.id <= lastId
  BY <1>1 DEF WakesInv, Executing, Record, PromptInv, AskInv, IdsGiven
<1>3. ledger \in [Keys -> Entry \cup {None}] /\ ledger[key] \in Entry
  BY <1>1, <1>2, LedgerFields DEF WakesInv, TypeOK
<1>4. /\ queue' = queue /\ hooks' = hooks /\ exec' = Idle /\ shown' = shown /\ lastId' = lastId
      /\ heard' = heard /\ turn' = turn
  BY DEF Record
<1>5. CASE exec.phase = "settled" /\ Runs(ledger, key)
  <2> DEFINE f == [ledger[key] EXCEPT !.id = exec.id]
  <2>1. ledger' = [ledger EXCEPT ![key] = f]
    BY <1>5 DEF Record, Recorded
  <2>2. /\ f \in Entry /\ f.status = "running" /\ f.id = exec.id /\ f.mine = exec.id
        /\ f.turn = ledger[key].turn /\ f.reminded = ledger[key].reminded
    BY <1>1, <1>2, <1>3, <1>5 DEF Entry, Runs
  <2> HIDE DEF f
  <2>3. ledger'[key] = f /\ f # None /\ \A k \in Keys : k # key => ledger'[k] = ledger[k]
    BY <1>1, <1>3, <2>1, <2>2, EntryFields
  <2>4. EntriesFrom
    <3>1. ASSUME NEW k \in Keys, k # key
          PROVE  /\ Runs(ledger', k) => /\ Runs(ledger, k) /\ ledger'[k].mine = ledger[k].mine
                                        /\ ledger'[k].id <= lastId /\ ledger'[k].turn = ledger[k].turn
                 /\ Go(ledger', k) => NoAsk(k)
                 /\ ledger[k] # None /\ ledger[k].reminded => ledger'[k] # None /\ ledger'[k].reminded
      BY <2>3, <3>1 DEF Runs, Go, PromptInv, AskInv, Unasked, IdsGiven
    <3>2. /\ Runs(ledger, key) /\ ledger'[key].mine = ledger[key].mine
          /\ ledger'[key].id <= lastId /\ ledger'[key].turn = ledger[key].turn
      BY <1>2, <1>5, <2>2, <2>3
    <3>3. ~Go(ledger', key)
      BY <2>2, <2>3 DEF Go
    <3>4. ledger'[key] # None /\ ledger'[key].reminded = ledger[key].reminded
      BY <2>2, <2>3
    <3> QED BY <3>1, <3>2, <3>3, <3>4 DEF EntriesFrom
  <2>5. \A k \in Keys \ misled' : Runs(ledger', k) /\ ledger'[k].turn # 0 => Names(ledger'[k].turn, ledger'[k].id)
    <3>1. EntryOK(misled, key, ledger[key])
      BY <1>1, <1>2 DEF WakesInv, Entries
    <3>2. f.turn # 0 => Names(f.turn, f.id)
      BY <1>1, <1>2, <1>5, <2>2, <3>1, NamesOf DEF EntryOK, Runs
    <3>3. \A k \in Keys : k # key /\ Runs(ledger', k) => Runs(ledger, k) /\ ledger'[k] = ledger[k]
      BY <2>3 DEF Runs
    <3> QED BY <2>3, <3>2, <3>3, NamesOf
  <2> QED BY <1>4, <2>4, <2>5, PromptKept, QueueSame, HooksSame, NamesOf DEF ExecFrom, PromptInv
<1>6. CASE exec.phase = "settled" /\ ~Runs(ledger, key)
  <2>1. ledger' = ledger
    BY <1>6 DEF Record, Recorded
  <2> QED BY <1>4, <2>1, PromptKept, QueueSame, HooksSame, LedgerSame, NamesOf DEF ExecFrom, PromptInv
<1>7. CASE exec.phase = "dropped"
  <2>1. ledger'[key] = exec.prev /\ \A k \in Keys : k # key => ledger'[k] = ledger[k]
    BY <1>1, <1>3, <1>7 DEF Record
  <2>2. \A k \in Keys : Runs(ledger', k) => Runs(ledger, k) /\ ledger'[k] = ledger[k]
    BY <1>2, <2>1 DEF Runs, Unstarted
  <2>3. \A k \in Keys \ misled' : Runs(ledger', k) /\ ledger'[k].turn # 0 => Names(ledger'[k].turn, ledger'[k].id)
    BY <2>2, NamesOf
  <2>4. NoAsk(key)
    BY <1>7 DEF PromptInv, AskInv, Unasked
  <2>5. exec'.phase = "idle" /\ turn' = turn
    BY <1>4 DEF Idle
  <2>6. Counted'
    <3>1. shown[key].reminders \in Nat /\ shown[key].asks = 0
      BY <1>1, <2>4 DEF WakesInv, TypeOK, Shown, NoAsk
    <3> QED BY <1>1, <1>4, <2>1, <3>1 DEF PromptInv, AskInv, Counted
  <2>7. QueuedOnce'
    BY <1>4, QueueSame, QueuedKept DEF PromptInv, AskInv
  <2>8. Unasked'
    <3>1. \A k \in Keys : Go(ledger', k) => NoAsk(k)
      BY <2>1, <2>4 DEF PromptInv, AskInv, Unasked, Go
    <3>2. \A k \in Keys : Go(ledger', k) => NoAsk(k)'
      BY <1>4, <3>1 DEF NoAsk
    <3>3. ASSUME NEW j \in DOMAIN hooks', NEW k \in Keys, hooks'[j].on = "drop", Runs(ledger', k),
                 ledger'[k].mine = hooks'[j].id, ledger'[k].turn = 0
          PROVE  NoAsk(k)'
      <4>1. NoAsk(k)
        BY <1>4, <2>2, <3>3 DEF PromptInv, AskInv, Unasked
      <4> QED BY <1>4, <4>1 DEF NoAsk
    <3> QED BY <2>5, <3>2, <3>3 DEF Unasked
  <2>9. Asked' /\ Owned'
    BY <1>4, <2>2, <2>5 DEF PromptInv, AskInv, Asked, Owned
  <2>10. IdsGiven'
    BY <1>4, <2>2, <2>5 DEF PromptInv, AskInv, IdsGiven
  <2>11. TellInv'
    <3>1. TellsFrom
      BY <2>2 DEF TellsFrom, Tell
    <3> QED BY <1>4, <2>3, <3>1, TellKept, NamesBefore, NamesOf, QueueSame DEF PromptInv, WakesInv
  <2> QED BY <2>6, <2>7, <2>8, <2>9, <2>10, <2>11 DEF PromptInv, AskInv
<1> QED BY <1>5, <1>6, <1>7 DEF Record

LEMMA SubmitAsks ==
  ASSUME WakesInv, TypeOK', PromptInv, misled = {}, misled' = {}, Submit
  PROVE  PromptInv'
<1> DEFINE key == exec.key
           p == [key |-> key, id |-> lastId', reminder |-> FALSE, watched |-> TRUE]
<1>1. exec.phase = "saved" /\ exec # Idle /\ key \in Keys /\ exec.prev \in Entry \cup {None} /\ lastId \in Nat
  BY ExecFields DEF WakesInv, TypeOK, Submit, Idle
<1>2. lastId' = lastId + 1 /\ lastId' <= MaxIds /\ lastId < lastId'
  BY <1>1, BoundsAssumption DEF Submit, PromptInv, AskInv, IdsGiven
<1>3. Runs(ledger, key) /\ ledger[key].id = 0 /\ ledger[key].mine = 0 /\ ledger[key] \in Entry
  BY <1>1, LedgerFields DEF WakesInv, Executing, Submit
<1>4. ledger[key].turn = 0
  BY <1>1, <1>3, EntryFields DEF WakesInv, Entries, EntryOK, Runs
<1>5. /\ ledger'[key].status = "running" /\ ledger'[key].id = 0 /\ ledger'[key].turn = 0
      /\ ledger'[key].mine = lastId' /\ ledger'[key].reminded = ledger[key].reminded /\ ledger'[key] \in Entry
      /\ \A k \in Keys : k # key => ledger'[k] = ledger[k]
  <2>1. ledger' = [ledger EXCEPT ![key] = [ledger[key] EXCEPT !.mine = lastId']] /\ ledger \in [Keys -> Entry \cup {None}]
    BY DEF Submit, WakesInv, TypeOK
  <2> QED BY <1>1, <1>2, <1>3, <1>4, <2>1 DEF Entry, Runs
<1>6. \A k \in Keys : Runs(ledger', k) <=> k = key
  <2>1. \A k \in Keys : Runs(ledger, k) <=> k = key
    BY <1>1, <1>3 DEF WakesInv, OneOpen
  <2>2. Runs(ledger', key)
    BY <1>5, EntryFields DEF Runs
  <2> QED BY <1>5, <2>1, <2>2 DEF Runs
<1>7. exec'.phase = "grace" /\ exec'.key = key /\ exec'.id = lastId'
  <2>1. exec' = [exec EXCEPT !.phase = "grace", !.id = lastId'] /\ exec \in Execs
    BY DEF Submit, WakesInv, TypeOK
  <2> QED BY <1>1, <2>1 DEF Execs, Idle
<1>8. /\ hooks' = hooks /\ shown' = shown /\ heard' = heard /\ turn' = turn /\ queue' = Append(queue, p)
  BY DEF Submit
<1>9. NoAsk(key)
  BY <1>1 DEF PromptInv, AskInv, Unasked
<1>10. First(p) /\ p.id = lastId' /\ p.key = key
  BY DEF First
<1> HIDE DEF p
<1>11. \A i \in DOMAIN queue' : (i \in DOMAIN queue /\ queue'[i] = queue[i]) \/ (i = Len(queue) + 1 /\ queue'[i] = p)
  <2>1. queue \in Seq(Prompt)
    BY DEF WakesInv, TypeOK
  <2> QED BY <1>8, <2>1
<1>12. /\ \A i \in DOMAIN queue : queue[i].id <= lastId /\ queue[i].id \in Nat
       /\ \A j \in DOMAIN hooks : hooks[j].id <= lastId /\ hooks[j].id \in Nat
  <2>1. \A i \in DOMAIN queue : queue[i] \in Prompt
    BY DEF WakesInv, TypeOK
  <2>2. \A j \in DOMAIN hooks : hooks[j] \in Hook
    BY DEF WakesInv, TypeOK
  <2> QED BY <2>1, <2>2, PromptFields, HookFields DEF PromptInv, AskInv, IdsGiven
<1>13. /\ \A i \in DOMAIN queue : queue[i].id # lastId'
       /\ \A j \in DOMAIN hooks : hooks[j].id # lastId'
  BY <1>1, <1>2, <1>12
<1>14. AskInv'
  <2> USE DEF PromptInv, AskInv
  <2>1. Counted'
    BY <1>3, <1>5, <1>6, <1>8, EntryFields DEF Counted, Runs
  <2>2. QueuedOnce'
    <3>1. \A i \in DOMAIN queue' : First(queue'[i]) => shown[queue'[i].key].asks = 0
      BY <1>9, <1>10, <1>11 DEF QueuedOnce, NoAsk
    <3>2. \A i \in DOMAIN queue : First(queue[i]) => queue[i].key # key /\ queue[i].id # p.id
      BY <1>9, <1>10, <1>13 DEF NoAsk
    <3>3. \A i, j \in DOMAIN queue' :
            First(queue'[i]) /\ (queue'[i].id = queue'[j].id \/ (First(queue'[j]) /\ queue'[i].key = queue'[j].key)) => i = j
      BY <1>10, <1>11, <1>13, <3>2 DEF QueuedOnce
    <3> QED BY <1>8, <3>1, <3>3 DEF QueuedOnce
  <2>3. Unasked'
    <3>1. \A k \in Keys : Go(ledger', k) => k # key /\ NoAsk(k)
      BY <1>5, EntryFields DEF Unasked, Go
    <3>2. \A k \in Keys : k # key /\ NoAsk(k) => NoAsk(k)'
      BY <1>8, <1>10, <1>11 DEF NoAsk
    <3> QED BY <1>5, <1>6, <1>7, <1>8, <1>13, <3>1, <3>2 DEF Unasked
  <2>4. Asked'
    BY <1>5, <1>6, <1>8, <1>13 DEF Asked
  <2>5. Owned'
    <3>1. \A i \in DOMAIN queue' : queue'[i].id = lastId' => queue'[i] = p
      BY <1>11, <1>13
    <3> QED BY <1>5, <1>6, <1>7, <1>10, <3>1 DEF Owned
  <2>6. IdsGiven'
    <3>1. \A i \in DOMAIN queue' : queue'[i].id <= lastId'
      BY <1>1, <1>2, <1>10, <1>11, <1>12
    <3>2. \A j \in DOMAIN hooks' : hooks'[j].id <= lastId'
      BY <1>1, <1>2, <1>8, <1>12
    <3>3. turn' # None => turn'.id <= lastId'
      BY <1>1, <1>2, <1>8, TurnFields DEF WakesInv, IdsGiven
    <3>4. \A k \in Keys : Runs(ledger', k) => ledger'[k].mine <= lastId' /\ ledger'[k].id <= lastId'
      BY <1>1, <1>2, <1>5, <1>6
    <3>5. \A i \in Ids : heard'[i] # "no" => i <= lastId'
      BY <1>1, <1>2, <1>8, BoundsAssumption DEF IdsGiven, Ids
    <3> QED BY <1>1, <1>2, <1>7, <3>1, <3>2, <3>3, <3>4, <3>5 DEF IdsGiven
  <2> QED BY <2>1, <2>2, <2>3, <2>4, <2>5, <2>6
<1>15. TellInv'
  <2>1. \A n \in Nat : ~Names(n, lastId')
    <3>1. turn # None => turn.id # lastId'
      BY <1>1, <1>2, TurnFields DEF WakesInv, PromptInv, AskInv, IdsGiven
    <3>2. \A k \in Keys : Runs(ledger, k) => ledger[k].id # lastId'
      <4>1. \A k \in Keys : Runs(ledger, k) => ledger[k].id \in Nat /\ ledger[k].id <= lastId
        BY LedgerFields, EntryFields DEF WakesInv, PromptInv, AskInv, IdsGiven
      <4> QED BY <1>1, <1>2, <4>1
    <3> QED BY <1>13, <3>1, <3>2 DEF Names
  <2>2. \A n \in Nat, i \in Nat \ {0} : Names(n, i)' => Names(n, i)
    <3>1. \A k \in Keys \ misled' : Runs(ledger', k) /\ ledger'[k].turn # 0 => Names(ledger'[k].turn, ledger'[k].id)
      BY <1>5, <1>6
    <3> QED BY <1>8, <3>1, NamesBefore, NamesOf
  <2>3. Unheard'
    <3>1. ASSUME NEW i \in DOMAIN queue', First(queue'[i]), NEW n \in Nat, NEW x \in Nat \ {0}, x = queue'[i].id
          PROVE  ~Names(n, x)'
      BY <1>10, <1>11, <2>1, <2>2, <3>1 DEF PromptInv, TellInv, Unheard
    <3>2. \A i \in DOMAIN queue' : queue'[i].id \in Nat \ {0}
      BY PromptFields DEF TypeOK
    <3> QED BY <3>1, <3>2 DEF Unheard, Names
  <2>4. OneTurn'
    <3>1. ASSUME NEW k \in Keys, Tell(k)', NEW n \in Nat, NEW x \in Nat \ {0}, x = ledger'[k].mine
          PROVE  ~Names(n, x)'
      BY <1>5, <1>6, <2>1, <2>2, <3>1 DEF Tell
    <3>2. \A k \in Keys : Tell(k)' => ledger'[k].mine \in Nat \ {0}
      BY EntryFields DEF TypeOK, Tell, Runs
    <3> QED BY <3>1, <3>2 DEF OneTurn, Names
  <2>5. heard[lastId'] = "no"
    <3>1. lastId' \in Ids /\ ~(lastId' <= lastId)
      BY <1>1, <1>2, BoundsAssumption DEF Ids
    <3> QED BY <3>1 DEF PromptInv, AskInv, IdsGiven
  <2>6. HeardStart' /\ Told'
    BY <1>5, <1>6, <1>8, <2>5 DEF HeardStart, Told, Tell
  <2> QED BY <2>3, <2>4, <2>6 DEF TellInv
<1> QED BY <1>14, <1>15 DEF PromptInv

LEMMA DropAsks ==
  ASSUME WakesInv, TypeOK', PromptInv, misled = {}, misled' = {}, NEW r \in DOMAIN queue, Drop(r)
  PROVE  PromptInv'
<1> DEFINE p == queue[r]
           h == [on |-> "drop", id |-> p.id]
<1>1. p \in Prompt /\ h \in Hook /\ h.on = "drop" /\ h.id = p.id
  BY PromptFields DEF WakesInv, TypeOK, Hook
<1>2. Fewer /\ \A i \in DOMAIN queue' : \E a \in DOMAIN queue : a # r /\ queue'[i] = queue[a]
  BY QueueLess DEF Drop, WakesInv
<1>3. /\ ledger' = ledger /\ shown' = shown /\ lastId' = lastId /\ heard' = heard /\ turn' = turn
      /\ exec' = IF InGrace(p) THEN [exec EXCEPT !.phase = "dropped"] ELSE exec
      /\ hooks' = IF p.watched /\ ~InGrace(p) THEN Append(hooks, h) ELSE hooks
  BY DEF Drop
<1> HIDE DEF h
<1>4. \A j \in DOMAIN hooks' : (j \in DOMAIN hooks /\ hooks'[j] = hooks[j]) \/ (~InGrace(p) /\ hooks'[j] = h)
  BY <1>1, <1>3, HookAdded DEF WakesInv
<1>5. PICK key \in Keys : key = p.key
  BY <1>1, PromptFields
<1>6. First(p) => NoAsk(key)'
  BY <1>2, <1>3, <1>5 DEF NoAsk, PromptInv, AskInv, QueuedOnce
<1>7. StartsFrom
  BY <1>1, <1>4 DEF StartsFrom, PromptInv, AskInv, IdsGiven
<1>8. SameSubmit /\ (exec'.phase \in {"saved", "dropped"} => NoAsk(exec.key)')
  <2>1. CASE InGrace(p)
    <3>1. exec.phase = "grace" /\ exec.id = p.id /\ First(p) /\ exec # Idle
      BY <2>1 DEF InGrace, First, Idle
    <3>2. exec' # Idle /\ exec'.phase = "dropped" /\ exec'.id = exec.id /\ exec'.key = exec.key
      BY <1>3, <2>1, <3>1, PhaseKept DEF WakesInv
    <3>3. exec.key = key
      BY <1>5, <3>1 DEF PromptInv, AskInv, Owned
    <3>4. SameSubmit
      BY <3>1, <3>2 DEF SameSubmit
    <3>5. NoAsk(exec.key)'
      BY <1>6, <3>1, <3>2, <3>3 DEF NoAsk
    <3> QED BY <3>4, <3>5
  <2>2. CASE ~InGrace(p)
    <3>1. exec' = exec
      BY <1>3, <2>2
    <3>2. exec.phase \in {"saved", "dropped"} => NoAsk(exec.key)
      BY DEF PromptInv, AskInv, Unasked
    <3>3. exec.phase \in {"saved", "dropped"} => NoAsk(exec.key)'
      BY <1>2, <1>3, <3>1, <3>2, NoAskKept DEF NoAsk
    <3> QED BY <3>1, <3>3 DEF SameSubmit
  <2> QED BY <2>1, <2>2
<1>9. Unasked'
  <2>1. \A k \in Keys : Go(ledger', k) => NoAsk(k)'
    BY <1>2, <1>3, NoAskKept DEF PromptInv, AskInv, Unasked
  <2>2. ASSUME NEW j \in DOMAIN hooks', NEW k \in Keys, hooks'[j].on = "drop", Runs(ledger', k),
               ledger'[k].mine = hooks'[j].id, ledger'[k].turn = 0
        PROVE  NoAsk(k)'
    <3>1. CASE j \in DOMAIN hooks /\ hooks'[j] = hooks[j]
      <4>1. NoAsk(k)
        BY <1>3, <2>2, <3>1 DEF PromptInv, AskInv, Unasked
      <4> QED BY <1>2, <1>3, <4>1, NoAskKept
    <3>2. CASE hooks'[j] = h
      <4>1. key = k /\ First(p)
        BY <1>1, <1>5, <1>3, <2>2, <3>2 DEF PromptInv, AskInv, Owned
      <4> QED BY <1>6, <4>1
    <3> QED BY <1>4, <3>1, <3>2
  <2> QED BY <1>8, <2>1, <2>2 DEF Unasked
<1>10. AskInv'
  <2>1. turn' # None => turn'.id <= lastId
    BY <1>3 DEF PromptInv, AskInv, IdsGiven
  <2>2. \A i \in Ids : heard'[i] # "no" => i <= lastId
    BY <1>3 DEF PromptInv, AskInv, IdsGiven
  <2>3. Counted' /\ QueuedOnce' /\ Asked' /\ Owned' /\ IdsGiven'
    BY <1>2, <1>3, <1>7, <1>8, <2>1, <2>2, OthersKept, LedgerSame DEF PromptInv, WakesInv
  <2> QED BY <1>9, <2>3 DEF AskInv
<1>11. TellInv'
  <2>1. \A j \in DOMAIN hooks' : hooks'[j].on # "drop" => Names(hooks'[j].n, hooks'[j].id)
    BY <1>1, <1>4, NamesOf
  <2>2. TellsFrom
    BY <1>3 DEF TellsFrom, Tell
  <2>3. \A n \in Nat, i \in Nat \ {0} : Names(n, i)' => Names(n, i)
    BY <1>3, <2>1, NamesBefore, NamesOf
  <2> QED BY <1>2, <1>3, <2>2, <2>3, TellKept DEF PromptInv, WakesInv
<1> QED BY <1>10, <1>11 DEF PromptInv

LEMMA TurnStartAsks ==
  ASSUME WakesInv, TypeOK', PromptInv, misled = {}, misled' = {}, TurnStart
  PROVE  PromptInv'
<1> DEFINE p == Head(queue)
           h == [on |-> "start", n |-> turns', key |-> p.key, id |-> p.id]
<1>1. p \in Prompt /\ 1 \in DOMAIN queue /\ p = queue[1] /\ queue' = Tail(queue)
  BY HeadTailProperties DEF WakesInv, TypeOK, TurnStart
<1>2. p.key \in Keys /\ p.id \in Nat \ {0} /\ p.id <= lastId
  BY <1>1, PromptFields DEF PromptInv, AskInv, IdsGiven
<1>3. Fewer /\ \A i \in DOMAIN queue' : \E a \in DOMAIN queue : a # 1 /\ queue'[i] = queue[a]
  BY <1>1, QueueLess DEF WakesInv
<1>4. /\ turns \in Nat /\ turns' = turns + 1 /\ ledger' = ledger /\ lastId' = lastId /\ heard' = heard
      /\ hooks' = Append(hooks, h) /\ turn' = [n |-> turns', key |-> p.key, id |-> p.id]
  BY DEF WakesInv, TypeOK, TurnStart
<1>5. SameSubmit /\ (exec'.phase \in {"saved", "dropped"} => exec' = exec)
  BY ExecFromFields DEF WakesInv, TurnStart, InGrace, ExecFrom
<1>6. /\ ~First(p) => shown' = shown
      /\ \A k \in Keys : shown'[k].reminders = shown[k].reminders
      /\ First(p) => shown[p.key].asks = 0 /\ shown'[p.key].asks = 1
      /\ \A k \in Keys : k # p.key => shown'[k] = shown[k]
  <2>1. shown \in [Keys -> Shown]
    BY DEF WakesInv, TypeOK
  <2>2. First(p) => shown[p.key].asks = 0
    BY <1>1 DEF PromptInv, AskInv, QueuedOnce
  <2>3. shown' = IF First(p) THEN [shown EXCEPT ![p.key] = [shown[p.key] EXCEPT !.asks = shown[p.key].asks + 1]] ELSE shown
    BY DEF TurnStart, First
  <2> HIDE DEF p
  <2>4. CASE First(p)
    <3>1. shown'[p.key] = [shown[p.key] EXCEPT !.asks = shown[p.key].asks + 1] /\ shown[p.key] \in Shown
      BY <1>2, <2>1, <2>3, <2>4
    <3>2. shown'[p.key].reminders = shown[p.key].reminders /\ shown'[p.key].asks = 1
      BY <2>2, <2>4, <3>1 DEF Shown
    <3>3. \A k \in Keys : k # p.key => shown'[k] = shown[k]
      BY <2>1, <2>3, <2>4
    <3> QED BY <2>2, <2>4, <3>2, <3>3
  <2>5. CASE ~First(p)
    BY <2>3, <2>5
  <2> QED BY <2>4, <2>5
<1> HIDE DEF p
<1>7. h \in Hook /\ h.n = turns + 1 /\ h.id = p.id /\ h.on = "start" /\ h.key = p.key
  BY <1>2, <1>4 DEF Hook
<1> HIDE DEF h
<1>8. \A j \in DOMAIN hooks' : (j \in DOMAIN hooks /\ hooks'[j] = hooks[j]) \/ hooks'[j] = h
  BY <1>4, <1>7, HookAdded DEF WakesInv
<1>9. turn'.n = turns + 1 /\ turn'.id = p.id
  BY <1>4
<1>10. \A i \in DOMAIN queue' : First(queue'[i]) /\ First(p) => queue'[i].key # p.key
  BY <1>1, <1>3 DEF PromptInv, AskInv, QueuedOnce
<1>11. \A i \in DOMAIN queue' : First(queue'[i]) => queue'[i].id # p.id
  BY <1>1, <1>3 DEF PromptInv, AskInv, QueuedOnce
<1>12. \A k \in Keys : Runs(ledger, k) /\ ledger[k].mine = p.id =>
         p.key = k /\ (First(p) \/ (k \in Tasks /\ ledger[k].turn # 0))
  BY <1>1 DEF PromptInv, AskInv, Owned
<1>13. \A k \in Keys : shown[k].asks \in Nat /\ shown'[k].asks \in Nat /\ shown[k].reminders \in Nat
                       /\ (shown[k].asks >= 1 => shown'[k].asks >= 1)
  <2>1. \A k \in Keys : shown[k] \in Shown /\ shown'[k] \in Shown
    BY DEF WakesInv, TypeOK
  <2>2. \A k \in Keys : shown[k].asks \in Nat /\ shown'[k].asks \in Nat /\ shown[k].reminders \in Nat
    BY <2>1 DEF Shown
  <2> QED BY <1>6, <2>2
<1>14. AskInv'
  <2> USE DEF PromptInv, AskInv
  <2>1. Counted'
    <3>1. \A k \in Keys : shown'[k].asks <= 1
      BY <1>6 DEF Counted
    <3> QED BY <1>4, <1>6, <1>13, <3>1 DEF Counted
  <2>2. QueuedOnce'
    <3>1. \A i \in DOMAIN queue' : First(queue'[i]) => shown'[queue'[i].key].asks = 0
      <4>1. TAKE i \in DOMAIN queue'
      <4>2. HAVE First(queue'[i])
      <4>3. shown[queue'[i].key].asks = 0 /\ queue'[i].key \in Keys
        BY <1>3, <4>2, PromptFields DEF QueuedOnce, WakesInv, TypeOK
      <4> QED BY <1>6, <1>10, <4>2, <4>3
    <3>2. \A i, j \in DOMAIN queue' :
            First(queue'[i]) /\ (queue'[i].id = queue'[j].id \/ (First(queue'[j]) /\ queue'[i].key = queue'[j].key)) => i = j
      BY <1>3 DEF QueuedOnce, Fewer, Alike
    <3> QED BY <3>1, <3>2 DEF QueuedOnce
  <2>3. Unasked'
    <3>1. ASSUME NEW k \in Keys, NoAsk(k) PROVE NoAsk(k)'
      <4>1. ~(First(p) /\ p.key = k)
        BY <1>1, <3>1 DEF NoAsk
      <4>2. shown'[k] = shown[k]
        BY <1>6, <4>1
      <4> QED BY <1>3, <3>1, <4>2 DEF NoAsk
    <3>2. \A k \in Keys : Go(ledger', k) => NoAsk(k)'
      BY <1>4, <3>1 DEF Unasked
    <3>3. exec'.phase \in {"saved", "dropped"} => NoAsk(exec.key)'
      <4>1. HAVE exec'.phase \in {"saved", "dropped"}
      <4>2. exec' = exec /\ exec # Idle /\ NoAsk(exec.key)
        BY <1>5, <4>1 DEF Unasked, Idle
      <4>3. PICK x \in Keys : x = exec.key
        BY <4>2, ExecFields DEF WakesInv
      <4>4. NoAsk(x)'
        BY <3>1, <4>2, <4>3
      <4> QED BY <4>2, <4>3, <4>4 DEF NoAsk
    <3>4. ASSUME NEW j \in DOMAIN hooks', NEW k \in Keys, hooks'[j].on = "drop", Runs(ledger', k),
                 ledger'[k].mine = hooks'[j].id, ledger'[k].turn = 0
          PROVE  NoAsk(k)'
      <4>1. j \in DOMAIN hooks /\ hooks'[j] = hooks[j]
        BY <1>7, <1>8, <3>4
      <4>2. NoAsk(k)
        BY <1>4, <3>4, <4>1 DEF Unasked
      <4> QED BY <3>1, <4>2
    <3> QED BY <3>2, <3>3, <3>4 DEF Unasked
  <2>4. Asked'
    <3>1. \A k \in Keys : Runs(ledger', k) /\ ledger'[k].turn # 0 => shown'[k].asks >= 1
      BY <1>4, <1>13 DEF Asked
    <3>2. ASSUME NEW j \in DOMAIN hooks', NEW k \in Keys, hooks'[j].on = "start", Runs(ledger', k),
                 ledger'[k].mine = hooks'[j].id
          PROVE  shown'[k].asks >= 1 /\ hooks'[j].key = k
      <4>1. CASE j \in DOMAIN hooks /\ hooks'[j] = hooks[j]
        BY <1>4, <1>13, <3>2, <4>1 DEF Asked
      <4>2. CASE hooks'[j] = h
        <5>1. p.key = k /\ (First(p) \/ ledger[k].turn # 0)
          BY <1>4, <1>7, <1>12, <3>2, <4>2
        <5>2. First(p) => shown'[k].asks >= 1
          BY <1>6, <5>1
        <5>3. ledger[k].turn # 0 => shown'[k].asks >= 1
          BY <1>4, <3>1, <3>2
        <5> QED BY <1>7, <4>2, <5>1, <5>2, <5>3
      <4> QED BY <1>8, <4>1, <4>2
    <3> QED BY <3>1, <3>2 DEF Asked
  <2>5. Owned'
    <3>1. ASSUME NEW i \in DOMAIN queue', NEW k \in Keys, Runs(ledger', k), ledger'[k].mine = queue'[i].id
          PROVE  queue'[i].key = k /\ (First(queue'[i]) \/ (k \in Tasks /\ ledger'[k].turn # 0))
      BY <1>3, <1>4, <3>1 DEF Owned
    <3>2. ASSUME exec'.phase \in {"grace", "settled", "dropped"},
                 NEW i \in DOMAIN queue', First(queue'[i]), queue'[i].id = exec'.id
          PROVE  queue'[i].key = exec'.key
      BY <1>3, <1>5, <3>2 DEF SameSubmit, Owned
    <3> QED BY <3>1, <3>2 DEF Owned
  <2>6. IdsGiven'
    <3>1. \A i \in DOMAIN queue' : queue'[i].id <= lastId
      BY <1>3 DEF IdsGiven
    <3>2. \A j \in DOMAIN hooks' : hooks'[j].id <= lastId
      BY <1>2, <1>7, <1>8 DEF IdsGiven
    <3>3. exec' # Idle => exec'.id <= lastId
      BY <1>5 DEF SameSubmit, IdsGiven
    <3>4. exec'.phase = "saved" => lastId < MaxIds
      BY <1>5 DEF SameSubmit, IdsGiven
    <3> QED BY <1>2, <1>4, <1>9, <3>1, <3>2, <3>3, <3>4 DEF IdsGiven
  <2> QED BY <2>1, <2>2, <2>3, <2>4, <2>5, <2>6
<1>15. \A n, x \in Nat : Names(n, x)' => Names(n, x) \/ (n = turns + 1 /\ x = p.id)
  <2>1. TAKE n, x \in Nat
  <2>2. HAVE Names(n, x)'
  <2>3. CASE turn' # None /\ turn'.n = n /\ turn'.id = x
    BY <1>9, <2>3
  <2>4. CASE \E j \in DOMAIN hooks' : hooks'[j].on # "drop" /\ hooks'[j].n = n /\ hooks'[j].id = x
    BY <1>7, <1>8, <2>4, NamesOf
  <2>5. CASE \E k \in Keys \ misled' : Runs(ledger', k) /\ ledger'[k].turn # 0 /\ ledger'[k].turn = n /\ ledger'[k].id = x
    BY <1>4, <2>5, NamesOf
  <2> QED BY <2>2, <2>3, <2>4, <2>5 DEF Names
<1>16. TellInv'
  <2>1. Unheard'
    <3>1. ASSUME NEW i \in DOMAIN queue', First(queue'[i]), NEW n \in Nat, NEW x \in Nat, x = queue'[i].id
          PROVE  ~Names(n, x)'
      BY <1>3, <1>11, <1>15, <3>1 DEF PromptInv, TellInv, Unheard
    <3>2. \A i \in DOMAIN queue' : queue'[i].id \in Nat
      BY PromptFields DEF TypeOK
    <3> QED BY <3>1, <3>2 DEF Unheard, Names
  <2>2. OneTurn'
    <3>1. ASSUME NEW k \in Keys, Tell(k)', NEW n \in Nat, NEW m \in Nat, NEW x \in Nat, x = ledger'[k].mine,
                 Names(n, x)', Names(m, x)'
          PROVE  n = m
      <4>1. Tell(k) /\ ledger[k].mine = x
        BY <1>4, <3>1 DEF Tell
      <4>2. CASE x = p.id
        <5>1. First(p)
          BY <1>12, <4>1, <4>2 DEF Tell
        <5>2. ~Names(n, x) /\ ~Names(m, x)
          BY <1>1, <4>2, <5>1 DEF PromptInv, TellInv, Unheard
        <5> QED BY <1>15, <3>1, <5>2
      <4>3. CASE x # p.id
        BY <1>15, <3>1, <4>1, <4>3 DEF PromptInv, TellInv, OneTurn
      <4> QED BY <4>2, <4>3
    <3>2. \A k \in Keys : Tell(k)' => ledger'[k].mine \in Nat
      BY EntryFields DEF TypeOK, Tell, Runs
    <3> QED BY <3>1, <3>2 DEF OneTurn, Names
  <2>3. HeardStart' /\ Told'
    BY <1>4 DEF PromptInv, TellInv, HeardStart, Told, Tell
  <2> QED BY <2>1, <2>2, <2>3 DEF TellInv
<1> QED BY <1>14, <1>16 DEF PromptInv

LEMMA HookStartAsks ==
  ASSUME WakesInv, TypeOK', PromptInv, misled = {}, misled' = {}, HookStart
  PROVE  PromptInv'
<1> DEFINE h == Head(hooks)
<1>1. /\ h \in Hook /\ h.on = "start" /\ Names(h.n, h.id) /\ h = hooks[1] /\ 1 \in DOMAIN hooks
      /\ \A j \in DOMAIN hooks' : hooks'[j].on # "drop" => Names(hooks'[j].n, hooks'[j].id)
      /\ hooks # <<>> /\ hooks' = Tail(hooks)
  <2>1. hooks \in Seq(Hook) /\ hooks # <<>> /\ hooks' = Tail(hooks) /\ h.on = "start"
    BY DEF WakesInv, TypeOK, HookStart
  <2>2. h = hooks[1] /\ 1 \in DOMAIN hooks
    BY <2>1
  <2> QED BY <2>1, <2>2, HookRun DEF WakesInv
<1>2. h.n \in Nat \ {0} /\ h.id \in Nat \ {0} /\ h.id <= lastId
  BY <1>1, HookFields DEF PromptInv, AskInv, IdsGiven
<1>3. \A k \in Keys : k \notin Begun(h) => ledger'[k] = ledger[k]
  BY BegunFields
<1>4. \A k \in Begun(h) :
         /\ k \in Keys /\ Runs(ledger, k) /\ ledger[k].mine = h.id /\ ledger'[k] \in Entry
         /\ ledger'[k].mine = h.id /\ ledger'[k].status = "running" /\ ledger'[k].id = h.id /\ ledger'[k].turn = h.n
         /\ ledger'[k].reminded = ledger[k].reminded
  BY BegunFields DEF Begun
<1>5. /\ queue' = queue /\ exec' = exec /\ shown' = shown /\ lastId' = lastId /\ turn' = turn
      /\ heard' = [heard EXCEPT ![h.id] = IF @ = "no" THEN "started" ELSE @]
  BY DEF HookStart
<1>6. \A k \in Keys : Runs(ledger, k) /\ ledger[k].mine = h.id => shown[k].asks >= 1 /\ h.key = k
  BY <1>1 DEF PromptInv, AskInv, Asked
<1>7. ASSUME NEW k \in Keys, Runs(ledger, k), ledger[k].mine = h.id PROVE k \in Begun(h)
  <2>1. ledger[k].id \in {0, h.id} /\ h.key = k
    BY <1>6, <1>7 DEF WakesInv, Entries, EntryOK, Runs
  <2>2. \A j \in Keys : Runs(ledger, j) => j = k
    BY <1>7 DEF WakesInv, OneOpen
  <2>3. CASE ledger[k].id = h.id
    BY <1>7, <2>1, <2>3 DEF Begun
  <2>4. CASE ledger[k].id = 0
    <3>1. Pending(h) = {k}
      BY <1>7, <2>1, <2>2, <2>4 DEF Pending
    <3> QED BY <1>2, <1>7, <2>1, <2>2, <2>4, <3>1 DEF Begun
  <2> QED BY <2>1, <2>3, <2>4
<1> HIDE DEF h
<1>8. EntriesFrom
  <2>1. ASSUME NEW k \in Keys, k \in Begun(h)
        PROVE  /\ Runs(ledger, k) /\ ledger'[k].mine = ledger[k].mine /\ ledger'[k].id <= lastId
               /\ ledger'[k].turn # 0 /\ shown[k].asks >= 1 /\ ~Go(ledger', k)
               /\ ledger'[k] # None /\ ledger'[k].reminded = ledger[k].reminded
    BY <1>2, <1>4, <1>6, <2>1, EntryFields DEF Go
  <2>2. ASSUME NEW k \in Keys, k \notin Begun(h)
        PROVE  /\ Runs(ledger', k) => Runs(ledger, k) /\ ledger[k].id <= lastId
               /\ Go(ledger', k) => NoAsk(k)
    BY <1>3, <2>2 DEF Runs, Go, PromptInv, AskInv, Unasked, IdsGiven
  <2> QED BY <1>3, <2>1, <2>2 DEF EntriesFrom
<1>9. \A i \in Ids : heard'[i] # "no" => i <= lastId
  BY <1>2, <1>5 DEF WakesInv, TypeOK, PromptInv, AskInv, IdsGiven
<1>10. AskInv'
  <2>1. turn' # None => turn'.id <= lastId
    BY <1>5 DEF PromptInv, AskInv, IdsGiven
  <2> QED BY <1>1, <1>5, <1>8, <1>9, <2>1, AskKept, QueueSame, HooksRun DEF ExecFrom, PromptInv, WakesInv
<1>11. TellsFrom
  BY <1>8 DEF TellsFrom, EntriesFrom, Tell
<1>12. Unheard' /\ OneTurn'
  <2>1. \A k \in Keys \ misled' : Runs(ledger', k) /\ ledger'[k].turn # 0 => Names(ledger'[k].turn, ledger'[k].id)
    <3>1. \A k \in Keys : k \notin Begun(h) /\ Runs(ledger', k) => Runs(ledger, k) /\ ledger'[k] = ledger[k]
      BY <1>3 DEF Runs
    <3> QED BY <1>1, <1>4, <3>1, NamesOf
  <2> QED BY <1>1, <1>5, <1>11, <2>1, TurnsKept, NamesBefore, NamesOf, QueueSame DEF PromptInv, WakesInv
<1>13. HeardStart' /\ Told'
  <2>1. ASSUME NEW k \in Keys, Tell(k)', heard'[ledger'[k].mine] = "started" PROVE ledger'[k].turn # 0
    <3>1. Tell(k) /\ ledger'[k].mine = ledger[k].mine /\ (ledger[k].turn # 0 => ledger'[k].turn # 0)
      BY <1>11, <2>1 DEF TellsFrom
    <3>2. CASE ledger[k].mine = h.id
      BY <1>2, <1>4, <1>7, <3>1, <3>2 DEF Tell
    <3>3. CASE ledger[k].mine # h.id
      <4>1. heard[ledger[k].mine] = "started"
        BY <1>5, <2>1, <3>1, <3>3
      <4> QED BY <3>1, <4>1 DEF PromptInv, TellInv, HeardStart
    <3> QED BY <3>2, <3>3
  <2>2. \A i \in Ids : heard'[i] = "said" => heard[i] = "said"
    BY <1>5 DEF WakesInv, TypeOK
  <2>3. ASSUME NEW k \in Keys \ Tasks, Runs(ledger', k), ledger'[k].mine # 0 PROVE heard'[ledger'[k].mine] # "said"
    <3>1. Tell(k) /\ ledger'[k].mine = ledger[k].mine
      BY <1>11, <2>3 DEF TellsFrom, Tell
    <3>2. heard[ledger[k].mine] # "said"
      BY <3>1 DEF PromptInv, TellInv, Told, Tell
    <3>3. CASE ledger[k].mine = h.id
      BY <1>5, <3>1, <3>2, <3>3
    <3>4. CASE ledger[k].mine # h.id
      BY <1>5, <3>1, <3>2, <3>4
    <3> QED BY <3>3, <3>4
  <2> QED BY <2>1, <2>3 DEF HeardStart, Told
<1> QED BY <1>10, <1>12, <1>13 DEF PromptInv, TellInv

LEMMA HookEndAsks ==
  ASSUME WakesInv, TypeOK', PromptInv, misled = {}, misled' = {}, NEW sent \in BOOLEAN, HookEnd(sent)
  PROVE  PromptInv'
<1> DEFINE h == Head(hooks)
<1>1. /\ h.on = "end" /\ Names(h.n, h.id) /\ h.n \in Nat \ {0} /\ h.id \in Nat
      /\ queue' = (IF sent THEN queue \o SetToSeq(Reminders) ELSE queue)
      /\ shown' = [k \in Keys |-> IF sent /\ k \in EndDue THEN [shown[k] EXCEPT !.reminders = @ + 1] ELSE shown[k]]
      /\ heard' = [i \in Ids |-> IF i = h.id /\ h.said /\ heard[i] = "started" THEN "said" ELSE heard[i]]
  BY EndHook
<1>2. /\ hooks # <<>> /\ hooks' = Tail(hooks)
      /\ \A j \in DOMAIN hooks' : hooks'[j].on # "drop" => Names(hooks'[j].n, hooks'[j].id)
  BY HookRun DEF WakesInv, HookEnd
<1>3. exec' = exec /\ turn' = turn /\ lastId' = lastId
  BY DEF HookEnd
<1>4. h.id <= lastId
  <2>1. hooks \in Seq(Hook) /\ hooks # <<>>
    BY <1>2 DEF WakesInv, TypeOK
  <2>2. h = hooks[1] /\ 1 \in DOMAIN hooks
    BY <2>1
  <2> QED BY <2>2 DEF PromptInv, AskInv, IdsGiven
<1> HIDE DEF h
<1>5. \A k \in EndDue : /\ k \in Tasks /\ k \in Keys /\ EndAnswered[k] = ledger[k] /\ Runs(ledger, k)
                         /\ ledger[k].turn # 0 /\ ledger[k].mine = h.id
                         /\ EndAnswered[k].id = h.id
  <2>1. TAKE k \in EndDue
  <2>2. k \in EndOwn /\ k \in Tasks
    BY DEF EndDue
  <2> QED BY <1>1, <2>2, EndOwnFields DEF h
<1>6. \A k \in Keys : Runs(ledger', k) => Runs(ledger, k) /\ ledger'[k].mine = ledger[k].mine
                                         /\ ledger'[k].turn = ledger[k].turn /\ ledger'[k].id = ledger[k].id
                                         /\ k \notin EndTold
  BY EndEntries DEF Changed
<1>7. \A k \in Keys : Go(ledger', k) => Go(ledger, k)
  <2>1. TAKE k \in Keys
  <2>2. HAVE Go(ledger', k)
  <2>3. CASE ledger'[k] = ledger[k]
    BY <2>2, <2>3 DEF Go
  <2>4. CASE ledger'[k] # ledger[k]
    <3>1. ledger'[k].status \in {"running", "done"} /\ ledger'[k] \in Entry
      BY <2>4, EndEntries DEF Changed
    <3> QED BY <2>2, <3>1, EntryFields DEF Go
  <2> QED BY <2>3, <2>4
<1>8. ASSUME NEW i \in DOMAIN queue'
      PROVE  \/ i \in DOMAIN queue /\ queue'[i] = queue[i]
             \/ /\ ~First(queue'[i]) /\ queue'[i].id = h.id /\ queue'[i].key \in EndDue
  <2>1. \A p \in Reminders : ~First(p) /\ p.id = h.id /\ p.key \in EndDue
    BY <1>5 DEF Reminders, First
  <2>2. CASE queue' = queue
    BY <1>8, <2>2
  <2>3. CASE queue' = queue \o SetToSeq(Reminders)
    <3> DEFINE s == SetToSeq(Reminders)
    <3>1. s \in Seq(Reminders) /\ Reminders \subseteq Prompt /\ queue \in Seq(Prompt)
      BY RemindersType DEF WakesInv, TypeOK
    <3> HIDE DEF s
    <3>2. s \in Seq(Prompt)
      BY <3>1
    <3>3. /\ queue \o s \in Seq(Prompt) /\ Len(queue \o s) = Len(queue) + Len(s)
          /\ \A j \in 1..(Len(queue) + Len(s)) : (queue \o s)[j] = IF j <= Len(queue) THEN queue[j] ELSE s[j - Len(queue)]
      BY <3>1, <3>2, ConcatProperties
    <3>4. queue' = queue \o s /\ i \in 1..(Len(queue) + Len(s)) /\ Len(queue) \in Nat /\ Len(s) \in Nat
      BY <1>8, <2>3, <3>1, <3>2, <3>3 DEF s
    <3>5. CASE i <= Len(queue)
      BY <3>1, <3>3, <3>4, <3>5
    <3>6. CASE ~(i <= Len(queue))
      <4>1. queue'[i] = s[i - Len(queue)] /\ i - Len(queue) \in 1..Len(s)
        BY <3>3, <3>4, <3>6
      <4>2. queue'[i] \in Reminders
        BY <3>1, <4>1
      <4> QED BY <2>1, <4>2
    <3> QED BY <3>5, <3>6
  <2> QED BY <1>1, <2>2, <2>3
<1>9. ASSUME NEW k \in Keys
      PROVE  /\ shown'[k].asks = shown[k].asks /\ shown[k].reminders \in Nat /\ shown[k].asks \in Nat
             /\ k \in EndDue => shown'[k].reminders \in {shown[k].reminders, shown[k].reminders + 1}
             /\ k \notin EndDue => shown'[k].reminders = shown[k].reminders
  <2>1. shown[k] \in Shown
    BY DEF WakesInv, TypeOK
  <2>2. shown'[k] = IF sent /\ k \in EndDue THEN [shown[k] EXCEPT !.reminders = shown[k].reminders + 1] ELSE shown[k]
    BY <1>1
  <2> QED BY <2>1, <2>2 DEF Shown
<1>10. ASSUME NEW k \in Keys, NoAsk(k) PROVE NoAsk(k)'
  BY <1>8, <1>9, <1>10 DEF NoAsk
<1>11. HooksFrom
  BY <1>2, HooksRun DEF PromptInv, WakesInv
<1>12. AskInv'
  <2> USE DEF PromptInv, AskInv
  <2>1. Counted'
    <3>1. ASSUME NEW k \in Keys, k \in EndDue
          PROVE  shown[k].reminders = 0 /\ shown[k].asks >= 1 /\ ledger'[k] # None /\ ledger'[k].reminded
      <4>1. Runs(ledger, k) /\ ledger[k].turn # 0 /\ ~ledger[k].reminded
        BY <1>5, <3>1, EndEntries
      <4>2. ~(shown[k].reminders >= 1) /\ shown[k].asks >= 1
        BY <4>1 DEF Counted, Asked
      <4>3. ledger'[k].reminded /\ ledger'[k].status = "running" /\ ledger'[k] \in Entry
        BY <3>1, <4>1, EndEntries DEF Changed
      <4> QED BY <1>9, <4>2, <4>3, EntryFields
    <3>2. ASSUME NEW k \in Keys, k \notin EndDue, shown[k].reminders >= 1
          PROVE  shown[k].asks >= 1 /\ ledger'[k] # None /\ ledger'[k].reminded
      <4>1. shown[k].asks >= 1 /\ ledger[k] # None /\ ledger[k].reminded
        BY <3>2 DEF Counted
      <4>2. ledger'[k].reminded
        BY <4>1, EndEntries
      <4>3. ledger'[k] = ledger[k] \/ ledger'[k] \in Entry
        BY EndEntries DEF Changed
      <4> QED BY <4>1, <4>2, <4>3, EntryFields
    <3> QED BY <1>9, <3>1, <3>2 DEF Counted
  <2>2. QueuedOnce'
    <3>1. \A i \in DOMAIN queue' : First(queue'[i]) => shown'[queue'[i].key].asks = 0
      <4>1. TAKE i \in DOMAIN queue'
      <4>2. HAVE First(queue'[i])
      <4>3. i \in DOMAIN queue /\ queue'[i] = queue[i] /\ queue[i].key \in Keys
        BY <1>8, <4>2, PromptFields DEF WakesInv, TypeOK
      <4> QED BY <1>9, <4>2, <4>3 DEF QueuedOnce
    <3>2. \A i \in DOMAIN queue : First(queue[i]) => queue[i].id # h.id
      BY <1>1 DEF TellInv, Unheard
    <3>3. \A i, j \in DOMAIN queue' :
            First(queue'[i]) /\ (queue'[i].id = queue'[j].id \/ (First(queue'[j]) /\ queue'[i].key = queue'[j].key)) => i = j
      BY <1>8, <3>2 DEF QueuedOnce
    <3> QED BY <3>1, <3>3 DEF QueuedOnce
  <2>3. Unasked'
    <3>1. \A k \in Keys : Go(ledger', k) => NoAsk(k)'
      BY <1>7, <1>10 DEF Unasked
    <3>2. ASSUME exec'.phase \in {"saved", "dropped"} PROVE NoAsk(exec.key)'
      <4>1. exec # Idle /\ NoAsk(exec.key)
        BY <1>3, <3>2 DEF Unasked, Idle
      <4>2. PICK x \in Keys : x = exec.key
        BY <4>1, ExecFields DEF WakesInv
      <4>3. NoAsk(x)'
        BY <1>10, <4>1, <4>2
      <4> QED BY <1>3, <4>2, <4>3 DEF NoAsk
    <3>3. ASSUME NEW j \in DOMAIN hooks', NEW k \in Keys, hooks'[j].on = "drop", Runs(ledger', k),
                 ledger'[k].mine = hooks'[j].id, ledger'[k].turn = 0
          PROVE  NoAsk(k)'
      <4>1. PICK i \in DOMAIN hooks : hooks'[j] = hooks[i]
        BY <1>11, <3>3 DEF HooksFrom
      <4>2. NoAsk(k)
        BY <1>6, <3>3, <4>1 DEF Unasked
      <4> QED BY <1>10, <4>2
    <3> QED BY <3>1, <3>2, <3>3 DEF Unasked
  <2>4. Asked'
    <3>1. \A k \in Keys : Runs(ledger', k) /\ ledger'[k].turn # 0 => shown'[k].asks >= 1
      BY <1>6, <1>9 DEF Asked
    <3>2. ASSUME NEW j \in DOMAIN hooks', NEW k \in Keys, hooks'[j].on = "start", Runs(ledger', k),
                 ledger'[k].mine = hooks'[j].id
          PROVE  shown'[k].asks >= 1 /\ hooks'[j].key = k
      <4>1. PICK i \in DOMAIN hooks : hooks'[j] = hooks[i]
        BY <1>11, <3>2 DEF HooksFrom, StartsFrom
      <4> QED BY <1>6, <1>9, <3>2, <4>1 DEF Asked
    <3> QED BY <3>1, <3>2 DEF Asked
  <2>5. Owned'
    <3>1. ASSUME NEW i \in DOMAIN queue', NEW k \in Keys, Runs(ledger', k), ledger'[k].mine = queue'[i].id
          PROVE  queue'[i].key = k /\ (First(queue'[i]) \/ (k \in Tasks /\ ledger'[k].turn # 0))
      <4>1. CASE i \in DOMAIN queue /\ queue'[i] = queue[i]
        BY <1>6, <3>1, <4>1 DEF Owned
      <4>2. CASE queue'[i].key \in EndDue
        <5>1. k = queue'[i].key
          BY <1>5, <1>6, <3>1, <4>2 DEF WakesInv, OneOpen
        <5> QED BY <1>5, <1>6, <3>1, <4>2, <5>1
      <4> QED BY <1>8, <4>1, <4>2
    <3>2. ASSUME exec'.phase \in {"grace", "settled", "dropped"},
                 NEW i \in DOMAIN queue', First(queue'[i]), queue'[i].id = exec'.id
          PROVE  queue'[i].key = exec'.key
      BY <1>3, <1>8, <3>2 DEF Owned
    <3> QED BY <3>1, <3>2 DEF Owned
  <2>6. IdsGiven'
    <3>1. \A i \in DOMAIN queue' : queue'[i].id <= lastId
      BY <1>4, <1>8 DEF IdsGiven
    <3>2. \A k \in Keys : Runs(ledger', k) => ledger'[k].mine <= lastId /\ ledger'[k].id <= lastId
      BY <1>6 DEF IdsGiven
    <3>3. \A i \in Ids : heard'[i] # "no" => i <= lastId
      BY <1>1 DEF IdsGiven
    <3> QED BY <1>3, <1>11, <3>1, <3>2, <3>3 DEF IdsGiven, HooksFrom, StartsFrom
  <2> QED BY <2>1, <2>2, <2>3, <2>4, <2>5, <2>6
<1>13. TellsFrom
  BY <1>6 DEF TellsFrom, Tell
<1>14. \A n \in Nat, i \in Nat \ {0} : Names(n, i)' => Names(n, i)
  <2>1. \A k \in Keys \ misled' : Runs(ledger', k) /\ ledger'[k].turn # 0 => Names(ledger'[k].turn, ledger'[k].id)
    BY <1>6, NamesOf
  <2> QED BY <1>2, <1>3, <2>1, NamesBefore, NamesOf
<1>15. Unheard'
  <2>1. ASSUME NEW i \in DOMAIN queue', First(queue'[i]), NEW n \in Nat, NEW x \in Nat \ {0}, x = queue'[i].id
        PROVE  ~Names(n, x)'
    BY <1>8, <1>14, <2>1 DEF PromptInv, TellInv, Unheard
  <2>2. \A i \in DOMAIN queue' : queue'[i].id \in Nat \ {0}
    BY PromptFields DEF TypeOK
  <2> QED BY <2>1, <2>2 DEF Unheard, Names
<1>16. OneTurn'
  <2>1. ASSUME NEW k \in Keys, Tell(k)', NEW n \in Nat, NEW m \in Nat, NEW x \in Nat \ {0}, x = ledger'[k].mine,
               Names(n, x)', Names(m, x)'
        PROVE  n = m
    <3>1. Names(n, x) /\ Names(m, x) /\ Tell(k) /\ ledger[k].mine = x
      BY <1>13, <1>14, <2>1 DEF TellsFrom
    <3> QED BY <3>1 DEF PromptInv, TellInv, OneTurn
  <2>2. \A k \in Keys : Tell(k)' => ledger'[k].mine \in Nat \ {0}
    BY EntryFields DEF TypeOK, Tell, Runs
  <2> QED BY <2>1, <2>2 DEF OneTurn, Names
<1>17. HeardStart' /\ Told'
  <2>1. ASSUME NEW k \in Keys, Tell(k)'
        PROVE  /\ Tell(k) /\ ledger'[k].mine = ledger[k].mine /\ ledger'[k].turn = ledger[k].turn
               /\ k \notin EndTold /\ ledger[k].mine \in Ids /\ ledger[k] \in Entry
    <3>1. Tell(k) /\ ledger'[k].mine = ledger[k].mine /\ ledger'[k].turn = ledger[k].turn /\ k \notin EndTold
      BY <1>6, <2>1 DEF Tell
    <3>2. ledger[k] \in Entry /\ ledger[k].mine \in Nat \ {0} /\ ledger[k].mine <= lastId /\ lastId <= MaxIds /\ lastId \in Nat
      BY <3>1, LedgerFields, EntryFields DEF WakesInv, TypeOK, Tell, PromptInv, AskInv, IdsGiven
    <3>3. ledger[k].mine \in Ids
      BY <3>2, BoundsAssumption DEF Ids
    <3> QED BY <3>1, <3>2, <3>3
  <2>2. \A k \in Keys : Tell(k)' /\ heard'[ledger'[k].mine] = "started" => ledger'[k].turn # 0
    BY <1>1, <2>1 DEF PromptInv, TellInv, HeardStart
  <2>3. ASSUME NEW k \in Keys \ Tasks, Runs(ledger', k), ledger'[k].mine # 0, heard'[ledger'[k].mine] = "said" PROVE FALSE
    <3>1. /\ Tell(k) /\ ledger'[k].mine = ledger[k].mine /\ k \notin EndTold /\ ledger[k].mine \in Ids
          /\ ledger[k] \in Entry /\ Runs(ledger, k)
      BY <2>1, <2>3 DEF Tell
    <3>2. heard[ledger[k].mine] # "said"
      BY <3>1 DEF PromptInv, TellInv, Told, Tell
    <3>3. ledger[k].mine = h.id /\ h.said /\ heard[ledger[k].mine] = "started"
      BY <1>1, <2>3, <3>1, <3>2
    <3>4. ledger[k].turn # 0
      BY <3>1, <3>3 DEF PromptInv, TellInv, HeardStart
    <3>5. ledger[k].id = ledger[k].mine
      BY <3>1, <3>4 DEF WakesInv, Entries, EntryOK, Runs
    <3>6. Names(ledger[k].turn, ledger[k].mine) /\ ledger[k].turn \in Nat
      BY <3>1, <3>4, <3>5, NamesOf, EntryFields
    <3>7. ledger[k].turn = h.n
      BY <1>1, <3>1, <3>3, <3>6 DEF PromptInv, TellInv, OneTurn
    <3>8. EndAnswered[k] = ledger[k]
      BY <3>1 DEF EndAnswered, Answered, Tell
    <3>9. k \in EndOwn \ Tasks
      BY <3>1, <3>7, <3>8 DEF EndOwn, InTurn, Runs, Tell, h
    <3> QED BY <3>1, <3>3, <3>9 DEF EndTold, h
  <2> QED BY <2>2, <2>3 DEF HeardStart, Told
<1> QED BY <1>12, <1>15, <1>16, <1>17 DEF PromptInv, TellInv

\* The invariant behind the two theorems below, as long as no entry took another prompt's turn for its
\* own: where the prompts of a wake stand, and which turn a tell's start was heard of.
THEOREM PromptInvariance ==
  Spec => [](misled = {} => PromptInv)
<1>1. Init => PromptInv
  <2>1. SUFFICES ASSUME Init PROVE PromptInv
    OBVIOUS
  <2>2. /\ \A k \in Keys : ledger[k] = None /\ shown[k].asks = 0 /\ shown[k].reminders = 0
        /\ hooks = <<>> /\ queue = <<>> /\ turn = None /\ exec = Idle /\ lastId = 0
        /\ \A i \in Ids : heard[i] = "no"
    BY <2>1 DEF Init
  <2>3. exec.phase = "idle" /\ \A k \in Keys : ~Runs(ledger, k)
    BY <2>2 DEF Idle, Runs
  <2>4. Counted /\ QueuedOnce /\ Unasked /\ Asked /\ Owned
    BY <2>2, <2>3 DEF Counted, QueuedOnce, Unasked, NoAsk, Asked, Owned
  <2>5. IdsGiven
    BY <2>2, <2>3, BoundsAssumption DEF IdsGiven
  <2>6. TellInv
    BY <2>2, <2>3 DEF TellInv, Unheard, OneTurn, HeardStart, Told, Tell
  <2> QED BY <2>4, <2>5, <2>6 DEF PromptInv, AskInv
<1>2. (misled = {} => PromptInv) /\ WakesInv /\ WakesInv' /\ [Next]_vars => (misled = {} => PromptInv)'
  <2>1. SUFFICES ASSUME misled = {} => PromptInv, WakesInv, TypeOK', [Next]_vars, misled' = {} PROVE PromptInv'
    BY DEF WakesInv
  <2>2. misled \subseteq misled'
    BY <2>1, MisledGrows
  <2>3. misled = {} /\ PromptInv
    BY <2>1, <2>2
  <2>4. CASE Plan \/ Start \/ Submit
    BY <2>1, <2>3, <2>4, PlanAsks, StartAsks, SubmitAsks
  <2>5. CASE Queued \/ Record
    BY <2>1, <2>3, <2>5, QueuedAsks, RecordAsks
  <2>6. CASE Hold \/ Tick \/ Chat \/ UNCHANGED vars
    BY <2>1, <2>3, <2>6, QuietAsks
  <2>7. CASE TurnStart \/ HookStart
    BY <2>1, <2>3, <2>7, TurnStartAsks, HookStartAsks
  <2>8. CASE HookDrop \/ HookOff
    BY <2>1, <2>3, <2>8, HookDropAsks, HookOffAsks
  <2>9. CASE Reload \/ Restart
    BY <2>1, <2>3, <2>9, ReloadAsks, RestartAsks
  <2>10. CASE \E i \in DOMAIN queue : Drop(i)
    BY <2>1, <2>3, <2>10, DropAsks
  <2>11. CASE \E said \in BOOLEAN, answer \in 0..lastId : TurnEnd(said, answer)
    BY <2>1, <2>3, <2>11, TurnEndAsks
  <2>12. CASE \E answer \in 1..lastId : Tool(answer)
    BY <2>1, <2>3, <2>12, ToolAsks
  <2>13. CASE \E sent \in BOOLEAN : HookEnd(sent)
    BY <2>1, <2>3, <2>13, HookEndAsks
  <2> QED BY <2>1, <2>4, <2>5, <2>6, <2>7, <2>8, <2>9, <2>10, <2>11, <2>12, <2>13 DEF Next
<1> QED BY <1>1, <1>2, Invariance, PTL DEF Spec

\* As long as no entry took another prompt's turn for its own (wake.ts onTurnStart), the session sees a
\* wake once and one reminder of it, for any number of drops, undone starts and reloads (wake.ts
\* submit, lateDrop; driver-between.ts turnComplete).
THEOREM AskedOnceEach ==
  Spec => [](misled = {} => AskedOnce)
<1>1. PromptInv => AskedOnce
  BY DEF PromptInv, AskInv, Counted, AskedOnce
<1> QED BY <1>1, PromptInvariance, PTL

\* As long as no entry took another prompt's turn for its own, a tell whose own turn was heard to start
\* and end with something said is not open again (driver-actions.ts finish, wake.ts onTurnComplete).
THEOREM ToldStays ==
  Spec => [](misled = {} => Told)
<1>1. PromptInv => Told
  BY DEF PromptInv, TellInv
<1> QED BY <1>1, PromptInvariance, PTL

----------------------------------------------------------------------------
(* Whose turn ends a wake *)

\* an id is taken once, and what names a wake's prompt, its turn or its end names one of its kind and name
IdsAsked ==
  /\ \A i \in Ids : asked[i] # None => i <= lastId
  /\ exec.phase = "saved" => lastId < MaxIds
PromptsKin ==
  /\ \A j \in DOMAIN queue : Kin(queue[j].key, queue[j].id)
  /\ \A j \in DOMAIN hooks : hooks[j].on = "start" => Kin(hooks[j].key, hooks[j].id)
  /\ exec.phase \in {"grace", "settled", "dropped"} => Kin(exec.key, exec.id)
OpenKin ==
  \A k \in Keys : Runs(ledger, k) =>
    /\ ledger[k].turn <= turns
    /\ \A i \in Nat \ {0} : ledger[k].id = i => Kin(k, i)
    /\ \A n \in Nat \ {0}, i \in Nat : ledger[k].turn = n /\ Names(n, i) => Kin(k, i)
DoneKin == \A k \in Keys : ledger[k] # None /\ ledger[k].status = "done" => Kin(k, ledger[k].by)
KinInv == IdsAsked /\ PromptsKin /\ OpenKin /\ DoneKin

\* no turn begun before the step has a name it had not, and what was kin stays so
NamesLess == \A n, i \in Nat : n <= turns /\ Names(n, i)' => Names(n, i)
KinGrows == \A k \in Keys, i \in Nat : Kin(k, i) => Kin(k, i)'

\* what a step may make of an entry
EntryKin(k) ==
  \/ ledger'[k] = ledger[k]
  \/ /\ Runs(ledger', k) =>
          /\ ledger'[k].turn <= turns
          /\ ledger'[k].id # 0 => Kin(k, ledger'[k].id)
          /\ \A n \in Nat \ {0}, i \in Nat : ledger'[k].turn = n /\ Names(n, i) => Kin(k, i)
     /\ ledger'[k] # None /\ ledger'[k].status = "done" => Kin(k, ledger'[k].by)

LEMMA KinKept ==
  ASSUME TypeOK, TypeOK', KinInv, KinGrows, IdsAsked', PromptsKin', turns' \in {turns, turns + 1},
         NamesLess, \A k \in Keys : EntryKin(k)
  PROVE  KinInv'
<1>1. turns \in Nat /\ \A k \in Keys : ledger'[k] # None => ledger'[k].id \in Nat /\ ledger'[k].turn \in Nat /\ ledger'[k].by \in Nat
  BY EntryFields DEF TypeOK
<1>2. OpenKin'
  <2>1. SUFFICES ASSUME NEW k \in Keys, Runs(ledger', k)
                 PROVE  /\ ledger'[k].turn <= turns'
                        /\ \A i \in Nat \ {0} : ledger'[k].id = i => Kin(k, i)'
                        /\ \A n \in Nat \ {0}, i \in Nat : ledger'[k].turn = n /\ Names(n, i)' => Kin(k, i)'
    BY DEF OpenKin
  <2>2. ledger'[k] # None
    BY <2>1 DEF Runs
  <2>3. /\ ledger'[k].turn <= turns
        /\ \A i \in Nat \ {0} : ledger'[k].id = i => Kin(k, i)
        /\ \A n \in Nat \ {0}, i \in Nat : ledger'[k].turn = n /\ Names(n, i) => Kin(k, i)
    <3>1. CASE ledger'[k] = ledger[k]
      BY <2>1, <3>1 DEF KinInv, OpenKin, Runs
    <3>2. CASE ledger'[k] # ledger[k]
      BY <2>1, <3>2 DEF EntryKin
    <3> QED BY <3>1, <3>2
  <2>4. ledger'[k].turn <= turns'
    BY <1>1, <2>2, <2>3
  <2>5. \A i \in Nat \ {0} : ledger'[k].id = i => Kin(k, i)'
    BY <2>3 DEF KinGrows
  <2>6. ASSUME NEW n \in Nat \ {0}, NEW i \in Nat, ledger'[k].turn = n, Names(n, i)' PROVE Kin(k, i)'
    <3>1. Names(n, i)
      BY <2>3, <2>6 DEF NamesLess
    <3> QED BY <2>3, <2>6, <3>1 DEF KinGrows
  <2> QED BY <2>4, <2>5, <2>6
<1>3. DoneKin'
  <2>1. ASSUME NEW k \in Keys, ledger'[k] # None, ledger'[k].status = "done", NEW i \in Nat, i = ledger'[k].by
        PROVE  Kin(k, i)'
    <3>1. Kin(k, i)
      BY <2>1 DEF EntryKin, KinInv, DoneKin
    <3> QED BY <3>1 DEF KinGrows
  <2>2. \A k \in Keys : ledger'[k] # None => ledger'[k].by \in Nat
    BY <1>1
  <2> QED BY <2>1, <2>2 DEF DoneKin, Kin
<1> QED BY <1>2, <1>3 DEF KinInv

LEMMA NamesLessBy ==
  ASSUME TypeOK, turn' # None => Names(turn'.n, turn'.id) \/ turn'.n = turns + 1,
         \A j \in DOMAIN hooks' : hooks'[j].on # "drop" => Names(hooks'[j].n, hooks'[j].id) \/ hooks'[j].n = turns + 1,
         \A k \in Keys \ misled' : Runs(ledger', k) /\ ledger'[k].turn # 0 => Names(ledger'[k].turn, ledger'[k].id)
  PROVE  NamesLess
<1>1. SUFFICES ASSUME NEW n \in Nat, NEW i \in Nat PROVE n <= turns /\ Names(n, i)' => Names(n, i)
  BY DEF NamesLess
<1>2. HAVE n <= turns /\ Names(n, i)'
<1>3. turns \in Nat
  BY DEF TypeOK
<1>4. CASE turn' # None /\ turn'.n = n /\ turn'.id = i
  BY <1>2, <1>3, <1>4
<1>5. CASE \E j \in DOMAIN hooks' : hooks'[j].on # "drop" /\ hooks'[j].n = n /\ hooks'[j].id = i
  BY <1>2, <1>3, <1>5
<1>6. CASE \E k \in Keys \ misled' : Runs(ledger', k) /\ ledger'[k].turn # 0 /\ ledger'[k].turn = n /\ ledger'[k].id = i
  BY <1>6
<1> QED BY <1>2, <1>4, <1>5, <1>6 DEF Names

\* the submit is none, the one it was, or that one past its grace
SubmitKin ==
  \/ exec' \in {exec, Idle}
  \/ \E ph \in {"settled", "dropped"} : exec.phase = "grace" /\ exec' = [exec EXCEPT !.phase = ph]

LEMMA SubmitKinFields ==
  ASSUME TypeOK, KinInv, SubmitKin
  PROVE  /\ exec'.phase \in {"grace", "settled", "dropped"} => Kin(exec'.key, exec'.id)
         /\ exec'.phase = "saved" => lastId < MaxIds
<1>1. Idle.phase = "idle"
  BY DEF Idle
<1>2. CASE exec' \in {exec, Idle}
  BY <1>1, <1>2 DEF KinInv, PromptsKin, IdsAsked
<1>3. CASE \E ph \in {"settled", "dropped"} : exec.phase = "grace" /\ exec' = [exec EXCEPT !.phase = ph]
  <2>1. PICK ph \in {"settled", "dropped"} : exec.phase = "grace" /\ exec' = [exec EXCEPT !.phase = ph]
    BY <1>3
  <2>2. exec # Idle
    BY <1>1, <2>1
  <2>3. exec'.phase = ph /\ exec'.id = exec.id /\ exec'.key = exec.key
    BY <2>1, <2>2, PhaseKept
  <2> QED BY <2>1, <2>3 DEF KinInv, PromptsKin
<1> QED BY <1>2, <1>3 DEF SubmitKin

\* What most steps leave to show.
LEMMA KinStep ==
  ASSUME WakesInv, TypeOK', KinInv, asked' = asked, lastId' = lastId, turns' \in {turns, turns + 1}, SubmitKin,
         \A j \in DOMAIN queue' : Kin(queue'[j].key, queue'[j].id),
         \A j \in DOMAIN hooks' : hooks'[j].on = "start" => Kin(hooks'[j].key, hooks'[j].id),
         turn' # None => Names(turn'.n, turn'.id) \/ turn'.n = turns + 1,
         \A j \in DOMAIN hooks' : hooks'[j].on # "drop" => Names(hooks'[j].n, hooks'[j].id) \/ hooks'[j].n = turns + 1,
         \A k \in Keys \ misled' : Runs(ledger', k) /\ ledger'[k].turn # 0 => Names(ledger'[k].turn, ledger'[k].id),
         \A k \in Keys : EntryKin(k)
  PROVE  KinInv'
<1>1. \A k, i : Kin(k, i) <=> Kin(k, i)'
  BY DEF Kin
<1>2. KinGrows
  BY <1>1 DEF KinGrows
<1>3. IdsAsked'
  BY SubmitKinFields DEF WakesInv, KinInv, IdsAsked
<1>4. PromptsKin'
  BY SubmitKinFields DEF WakesInv, KinInv, PromptsKin, Kin
<1>5. NamesLess
  BY NamesLessBy DEF WakesInv
<1> QED BY <1>2, <1>3, <1>4, <1>5, KinKept DEF WakesInv

\* a step that leaves the ledger alone, or only ends open entries, done ones by a prompt of their kind and name
EndsKin ==
  \A k \in Keys :
    \/ ledger'[k] = ledger[k]
    \/ /\ ledger'[k] # None /\ ledger'[k].status # "running"
       /\ ledger'[k].status = "done" => Kin(k, ledger'[k].by)

LEMMA EndsKinFields ==
  ASSUME EndsKin, misled \subseteq misled'
  PROVE  /\ \A k \in Keys : EntryKin(k)
         /\ \A k \in Keys \ misled' : Runs(ledger', k) /\ ledger'[k].turn # 0 => Names(ledger'[k].turn, ledger'[k].id)
<1>1. \A k \in Keys : EntryKin(k)
  BY DEF EndsKin, EntryKin, Runs
<1>2. \A k \in Keys : Runs(ledger', k) => ledger'[k] = ledger[k] /\ Runs(ledger, k)
  BY DEF EndsKin, Runs
<1> QED BY <1>1, <1>2, NamesOf

\* the hooks as they are, or without the first
LEMMA HooksKin ==
  ASSUME WakesInv, KinInv, hooks' = hooks \/ (hooks # <<>> /\ hooks' = Tail(hooks))
  PROVE  /\ \A j \in DOMAIN hooks' : hooks'[j].on = "start" => Kin(hooks'[j].key, hooks'[j].id)
         /\ \A j \in DOMAIN hooks' : hooks'[j].on # "drop" => Names(hooks'[j].n, hooks'[j].id) \/ hooks'[j].n = turns + 1
<1>1. \A j \in DOMAIN hooks' : \E i \in DOMAIN hooks : hooks'[j] = hooks[i]
  <2>1. CASE hooks' = hooks
    BY <2>1
  <2>2. CASE hooks # <<>> /\ hooks' = Tail(hooks)
    <3>1. hooks \in Seq(Hook) /\ Len(hooks) \in Nat \ {0}
      BY <2>2 DEF WakesInv, TypeOK
    <3>2. \A j \in DOMAIN hooks' : j + 1 \in DOMAIN hooks /\ hooks'[j] = hooks[j + 1]
      BY <2>2, <3>1, HeadTailProperties
    <3> QED BY <3>2
  <2> QED BY <2>1, <2>2
<1> QED BY <1>1, NamesOf DEF KinInv, PromptsKin

\* a step that leaves the hooks, or takes the first, and ends open entries at most
LEMMA EndsKinStep ==
  ASSUME WakesInv, TypeOK', KinInv, asked' = asked, lastId' = lastId, turns' = turns, misled' = misled, SubmitKin,
         queue' = queue, turn' \in {turn, None}, hooks' = hooks \/ (hooks # <<>> /\ hooks' = Tail(hooks)), EndsKin
  PROVE  KinInv'
<1>1. \A j \in DOMAIN queue' : Kin(queue'[j].key, queue'[j].id)
  BY DEF KinInv, PromptsKin
<1>2. turn' # None => Names(turn'.n, turn'.id) \/ turn'.n = turns + 1
  BY NamesOf
<1> QED BY <1>1, <1>2, EndsKinFields, HooksKin, KinStep

LEMMA PlanKin ==
  ASSUME WakesInv, TypeOK', KinInv, Plan
  PROVE  KinInv'
<1>1. EndsKin
  <2>1. SUFFICES ASSUME NEW k \in Keys, ledger'[k] # ledger[k]
                 PROVE  ledger'[k] # None /\ ledger'[k].status = "timed-out"
    BY DEF EndsKin
  <2>2. Runs(ledger, k) /\ ledger'[k] = [ledger[k] EXCEPT !.status = "timed-out"]
    BY <2>1 DEF Plan, Expired
  <2>3. ledger[k] \in Entry
    BY <2>2, LedgerFields DEF WakesInv
  <2>4. ledger'[k] \in Entry /\ ledger'[k].status = "timed-out"
    BY <2>2, <2>3 DEF Entry, Ended
  <2> QED BY <2>4, EntryFields
<1>2. /\ queue' = queue /\ hooks' = hooks /\ exec' = exec /\ lastId' = lastId /\ turns' = turns /\ turn' = turn
      /\ asked' = asked /\ misled' = misled
  BY DEF Plan
<1> QED BY <1>1, <1>2, EndsKinStep DEF SubmitKin

\* An answer ends a task by the id its entry has, which is of its kind and name.
LEMMA AnswerKin ==
  ASSUME WakesInv, KinInv, NEW a \in Nat, NEW k \in Keys
  PROVE  LET f == Answered(ledger, a)[k] IN
         \/ f = ledger[k]
         \/ f \in Entry /\ f.status = "done" /\ f.by = a /\ Kin(k, a)
<1> DEFINE f == [ledger[k] EXCEPT !.status = "done", !.by = a]
<1>1. Answered(ledger, a)[k] = ledger[k]
      \/ (Runs(ledger, k) /\ a # 0 /\ ledger[k].id = a /\ Answered(ledger, a)[k] = f)
  BY DEF Answered
<1>2. CASE Runs(ledger, k) /\ a # 0 /\ ledger[k].id = a /\ Answered(ledger, a)[k] = f
  <2>1. ledger[k] \in Entry /\ a \in Nat \ {0}
    BY <1>2, LedgerFields DEF WakesInv
  <2>2. f \in Entry /\ f.status = "done" /\ f.by = a
    BY <2>1 DEF Entry, Ended
  <2>3. Kin(k, a)
    BY <1>2, <2>1 DEF KinInv, OpenKin
  <2> QED BY <1>2, <2>2, <2>3
<1> QED BY <1>1, <1>2

LEMMA ToolKin ==
  ASSUME WakesInv, TypeOK', KinInv, NEW answer \in 1..lastId, Tool(answer)
  PROVE  KinInv'
<1>1. answer \in Nat /\ ledger' = Answered(ledger, answer)
  BY DEF WakesInv, TypeOK, Tool
<1>2. EndsKin
  BY <1>1, AnswerKin, EntryFields DEF EndsKin
<1>3. /\ queue' = queue /\ hooks' = hooks /\ exec' = exec /\ lastId' = lastId /\ turns' = turns /\ turn' = turn
      /\ asked' = asked /\ misled' = misled
  BY DEF Tool
<1> QED BY <1>2, <1>3, EndsKinStep DEF SubmitKin

LEMMA HookDropKin ==
  ASSUME WakesInv, TypeOK', KinInv, HookDrop
  PROVE  KinInv'
<1>1. EndsKin
  <2>1. SUFFICES ASSUME NEW k \in Keys, ledger'[k] # ledger[k]
                 PROVE  ledger'[k] # None /\ ledger'[k].status = "lost"
    BY DEF EndsKin
  <2>2. Runs(ledger, k) /\ ledger'[k] = Lost(ledger[k])
    BY <2>1 DEF HookDrop, Dropped
  <2> QED BY <2>2, LostFields, EntryFields
<1>2. /\ queue' = queue /\ hooks # <<>> /\ hooks' = Tail(hooks) /\ exec' = exec /\ lastId' = lastId /\ turns' = turns
      /\ turn' = turn /\ asked' = asked /\ misled' = misled
  BY DEF HookDrop
<1> QED BY <1>1, <1>2, EndsKinStep DEF SubmitKin

\* a step that leaves the ledger and the prompts alone
LEMMA QuietKin ==
  ASSUME WakesInv, TypeOK', KinInv, Hold \/ Tick \/ HookOff \/ Queued \/ UNCHANGED vars
  PROVE  KinInv'
<1>1. /\ queue' = queue /\ lastId' = lastId /\ turns' = turns /\ turn' = turn
      /\ asked' = asked /\ misled' = misled /\ ledger' = ledger
  BY DEF Hold, Tick, HookOff, Queued, vars
<1>2. hooks' = hooks \/ (hooks # <<>> /\ hooks' = Tail(hooks))
  BY DEF Hold, Tick, HookOff, Queued, vars
<1>3. SubmitKin
  BY DEF Hold, Tick, HookOff, Queued, vars, SubmitKin
<1> QED BY <1>1, <1>2, <1>3, EndsKinStep DEF EndsKin

LEMMA RestartKin ==
  ASSUME WakesInv, TypeOK', KinInv, Restart
  PROVE  KinInv'
<1>1. EndsKin
  <2>1. \A k \in Keys : ledger'[k] = IF Runs(ledger, k) THEN Lost(ledger[k]) ELSE ledger[k]
    BY DEF Restart, Orphaned
  <2> QED BY <2>1, LostFields, EntryFields DEF EndsKin
<1>2. /\ queue' = <<>> /\ hooks' = <<>> /\ exec' = Idle /\ lastId' = lastId /\ turns' = turns /\ turn' = None
      /\ asked' = asked /\ misled' = misled
  BY DEF Restart
<1> QED BY <1>1, <1>2, EndsKinFields, KinStep DEF SubmitKin

LEMMA ReloadKin ==
  ASSUME WakesInv, TypeOK', KinInv, Reload
  PROVE  KinInv'
<1>1. \A j \in DOMAIN queue' : Kin(queue'[j].key, queue'[j].id)
  <2>1. TAKE j \in DOMAIN queue'
  <2>2. j \in DOMAIN queue /\ queue[j] \in Prompt /\ queue'[j] = [queue[j] EXCEPT !.watched = FALSE]
    BY <2>1 DEF Reload, WakesInv, TypeOK
  <2>3. queue'[j].key = queue[j].key /\ queue'[j].id = queue[j].id
    BY <2>2 DEF Prompt
  <2> QED BY <2>2, <2>3 DEF KinInv, PromptsKin
<1>2. /\ hooks' = <<>> /\ exec' = Idle /\ lastId' = lastId /\ turns' = turns /\ turn' = turn
      /\ asked' = asked /\ misled' = misled /\ ledger' = ledger
  BY DEF Reload
<1>3. EndsKin
  BY <1>2 DEF EndsKin
<1> QED BY <1>1, <1>2, <1>3, EndsKinFields, KinStep, NamesOf DEF SubmitKin

LEMMA DropKin ==
  ASSUME WakesInv, TypeOK', KinInv, NEW r \in DOMAIN queue, Drop(r)
  PROVE  KinInv'
<1> DEFINE h == [on |-> "drop", id |-> queue[r].id]
<1>1. \A j \in DOMAIN queue' : Kin(queue'[j].key, queue'[j].id)
  <2>1. queue' = RemoveAt(queue, r)
    BY DEF Drop
  <2> QED BY <2>1, QueueLess DEF WakesInv, KinInv, PromptsKin
<1>2. \A j \in DOMAIN hooks' : (j \in DOMAIN hooks /\ hooks'[j] = hooks[j]) \/ hooks'[j].on = "drop"
  <2>1. CASE hooks' = hooks
    BY <2>1
  <2>2. CASE hooks' = Append(hooks, h)
    <3>1. queue[r] \in Prompt
      BY DEF WakesInv, TypeOK
    <3>2. h \in Hook /\ h.on = "drop"
      BY <3>1, PromptFields DEF Hook
    <3> HIDE DEF h
    <3> QED BY <2>2, <3>2, HookAdded DEF WakesInv
  <2> QED BY <2>1, <2>2 DEF Drop
<1>3. /\ \A j \in DOMAIN hooks' : hooks'[j].on = "start" => Kin(hooks'[j].key, hooks'[j].id)
      /\ \A j \in DOMAIN hooks' : hooks'[j].on # "drop" => Names(hooks'[j].n, hooks'[j].id)
  BY <1>2, NamesOf DEF KinInv, PromptsKin
<1>4. /\ lastId' = lastId /\ turns' = turns /\ turn' = turn
      /\ asked' = asked /\ misled' = misled /\ ledger' = ledger
  BY DEF Drop
<1>5. EndsKin
  BY <1>4 DEF EndsKin
<1>6. SubmitKin
  BY DEF Drop, InGrace, SubmitKin
<1> QED BY <1>1, <1>3, <1>4, <1>5, <1>6, EndsKinFields, KinStep, NamesOf

LEMMA TurnStartKin ==
  ASSUME WakesInv, TypeOK', KinInv, TurnStart
  PROVE  KinInv'
<1> DEFINE p == Head(queue)
           h == [on |-> "start", n |-> turns', key |-> p.key, id |-> p.id]
<1>1. queue \in Seq(Prompt) /\ queue # <<>> /\ queue' = Tail(queue) /\ p = queue[1] /\ 1 \in DOMAIN queue /\ p \in Prompt
  BY DEF WakesInv, TypeOK, TurnStart
<1>2. Kin(p.key, p.id) /\ p.key \in Keys /\ p.id \in Nat \ {0}
  BY <1>1, PromptFields DEF KinInv, PromptsKin
<1>3. \A j \in DOMAIN queue' : Kin(queue'[j].key, queue'[j].id)
  BY <1>1, QueueLess DEF WakesInv, KinInv, PromptsKin
<1>4. /\ turns \in Nat /\ turns' = turns + 1 /\ ledger' = ledger /\ lastId' = lastId /\ hooks' = Append(hooks, h)
      /\ asked' = asked /\ misled' = misled /\ turn' = [n |-> turns', key |-> p.key, id |-> p.id]
  BY DEF WakesInv, TypeOK, TurnStart
<1> HIDE DEF p
<1>5. h \in Hook /\ h.n = turns + 1 /\ h.id = p.id /\ h.key = p.key
  BY <1>2, <1>4 DEF Hook
<1> HIDE DEF h
<1>6. \A j \in DOMAIN hooks' : (j \in DOMAIN hooks /\ hooks'[j] = hooks[j]) \/ hooks'[j] = h
  BY <1>4, <1>5, HookAdded DEF WakesInv
<1>7. /\ \A j \in DOMAIN hooks' : hooks'[j].on = "start" => Kin(hooks'[j].key, hooks'[j].id)
      /\ \A j \in DOMAIN hooks' : hooks'[j].on # "drop" => Names(hooks'[j].n, hooks'[j].id) \/ hooks'[j].n = turns + 1
  BY <1>2, <1>5, <1>6, NamesOf DEF KinInv, PromptsKin
<1>8. SubmitKin
  BY DEF TurnStart, InGrace, SubmitKin
<1>9. EndsKin
  BY <1>4 DEF EndsKin
<1>10. turn'.n = turns + 1
  BY <1>4
<1> QED BY <1>3, <1>4, <1>7, <1>8, <1>9, <1>10, EndsKinFields, KinStep

LEMMA ChatKin ==
  ASSUME WakesInv, TypeOK', KinInv, Chat
  PROVE  KinInv'
<1>1. /\ queue' = queue /\ hooks' = hooks /\ exec' = exec /\ lastId' = lastId /\ turns' = turns + 1
      /\ turn' = [n |-> turns', key |-> None, id |-> 0] /\ asked' = asked /\ misled' = misled /\ ledger' = ledger
  BY DEF Chat
<1>2. turn'.n = turns + 1
  BY <1>1
<1>3. EndsKin
  BY <1>1 DEF EndsKin
<1>4. \A j \in DOMAIN queue' : Kin(queue'[j].key, queue'[j].id)
  BY <1>1 DEF KinInv, PromptsKin
<1> QED BY <1>1, <1>2, <1>3, <1>4, EndsKinFields, HooksKin, KinStep DEF SubmitKin

LEMMA TurnEndKin ==
  ASSUME WakesInv, TypeOK', KinInv, NEW said \in BOOLEAN, NEW answer \in 0..lastId, TurnEnd(said, answer)
  PROVE  KinInv'
<1> DEFINE h == [on |-> "end", n |-> turn.n, id |-> turn.id, said |-> said, answer |-> answer]
<1>1. turn.n \in Nat \ {0} /\ turn.id \in Nat /\ answer \in Nat /\ Names(turn.n, turn.id)
  BY TurnFields, NamesOf DEF WakesInv, TypeOK, TurnEnd
<1>2. h \in Hook /\ h.on = "end" /\ h.n = turn.n /\ h.id = turn.id /\ hooks' = Append(hooks, h)
  BY <1>1 DEF Hook, TurnEnd
<1> HIDE DEF h
<1>3. \A j \in DOMAIN hooks' : (j \in DOMAIN hooks /\ hooks'[j] = hooks[j]) \/ hooks'[j] = h
  BY <1>2, HookAdded DEF WakesInv
<1>4. /\ \A j \in DOMAIN hooks' : hooks'[j].on = "start" => Kin(hooks'[j].key, hooks'[j].id)
      /\ \A j \in DOMAIN hooks' : hooks'[j].on # "drop" => Names(hooks'[j].n, hooks'[j].id)
  BY <1>1, <1>2, <1>3, NamesOf DEF KinInv, PromptsKin
<1>5. /\ queue' = queue /\ exec' = exec /\ lastId' = lastId /\ turns' = turns /\ turn' = None
      /\ asked' = asked /\ misled' = misled /\ ledger' = ledger
  BY DEF TurnEnd
<1>6. EndsKin
  BY <1>5 DEF EndsKin
<1>7. \A j \in DOMAIN queue' : Kin(queue'[j].key, queue'[j].id)
  BY <1>5 DEF KinInv, PromptsKin
<1> QED BY <1>4, <1>5, <1>6, <1>7, EndsKinFields, KinStep DEF SubmitKin

LEMMA StartKin ==
  ASSUME WakesInv, TypeOK', KinInv, Start
  PROVE  KinInv'
<1> DEFINE e == [status |-> "running", attempts |-> IF ledger[todo] = None THEN 1 ELSE ledger[todo].attempts + 1,
                 at |-> now, id |-> 0, turn |-> 0, reminded |-> FALSE, mine |-> 0, by |-> 0]
<1>1. todo \in Keys /\ exec = Idle /\ ledger' = [ledger EXCEPT ![todo] = e]
  BY DEF WakesInv, TypeOK, Planned, Start
<1>2. e.status = "running" /\ e.id = 0 /\ e.turn = 0
  OBVIOUS
<1> HIDE DEF e
<1>3. ledger'[todo] = e /\ \A k \in Keys : k # todo => ledger'[k] = ledger[k]
  BY <1>1 DEF WakesInv, TypeOK
<1>4. /\ queue' = queue /\ hooks' = hooks /\ turn' = turn /\ lastId' = lastId /\ turns' = turns
      /\ asked' = asked /\ misled' = misled /\ lastId < MaxIds
      /\ exec' = [phase |-> "saved", key |-> todo, prev |-> ledger[todo], id |-> 0]
  BY DEF Start
<1>5. exec'.phase = "saved" /\ turns \in Nat
  BY <1>4 DEF WakesInv, TypeOK
<1>6. \A k \in Keys : EntryKin(k)
  BY <1>2, <1>3, <1>5 DEF EntryKin
<1>7. \A k \in Keys \ misled' : Runs(ledger', k) /\ ledger'[k].turn # 0 => Names(ledger'[k].turn, ledger'[k].id)
  <2>1. \A k \in Keys : k # todo /\ Runs(ledger', k) => Runs(ledger, k)
    BY <1>3 DEF Runs
  <2> QED BY <1>2, <1>3, <1>4, <2>1, NamesOf
<1>8. NamesLess
  BY <1>4, <1>7, NamesLessBy, NamesOf DEF WakesInv
<1>9. IdsAsked' /\ PromptsKin' /\ KinGrows
  BY <1>4, <1>5 DEF KinInv, IdsAsked, PromptsKin, Kin, KinGrows
<1> QED BY <1>4, <1>6, <1>8, <1>9, KinKept DEF WakesInv

LEMMA RecordKin ==
  ASSUME WakesInv, TypeOK', KinInv, Record
  PROVE  KinInv'
<1> DEFINE key == exec.key
<1>1. exec # Idle /\ key \in Keys /\ exec.id \in Nat
  BY ExecFields DEF WakesInv, Record, Idle
<1>2. ledger[key] # None /\ Unstarted(exec.prev) /\ exec.id # 0 /\ Kin(key, exec.id) /\ ledger[key].mine = exec.id
  BY <1>1 DEF WakesInv, Executing, Record, KinInv, PromptsKin
<1>3. ledger \in [Keys -> Entry \cup {None}] /\ ledger[key] \in Entry
  BY <1>1, <1>2, LedgerFields DEF WakesInv, TypeOK
<1>4. /\ queue' = queue /\ hooks' = hooks /\ exec' = Idle /\ lastId' = lastId /\ turns' = turns
      /\ turn' = turn /\ asked' = asked /\ misled' = misled
  BY DEF Record
<1>5. CASE exec.phase = "settled" /\ Runs(ledger, key)
  <2> DEFINE f == [ledger[key] EXCEPT !.id = exec.id]
  <2>1. ledger' = [ledger EXCEPT ![key] = f]
    BY <1>5 DEF Record, Recorded
  <2>2. /\ f \in Entry /\ f.status = "running" /\ f.id = exec.id /\ f.turn = ledger[key].turn
    BY <1>1, <1>3, <1>5 DEF Entry, Runs
  <2>3. EntryOK(misled, key, ledger[key])
    BY <1>1, <1>2 DEF WakesInv, Entries
  <2> HIDE DEF f
  <2>4. ledger'[key] = f /\ \A k \in Keys : k # key => ledger'[k] = ledger[k]
    BY <1>1, <1>3, <2>1
  <2>5. EntryKin(key)
    <3>1. /\ ledger[key].turn <= turns
          /\ \A n \in Nat \ {0}, i \in Nat : ledger[key].turn = n /\ Names(n, i) => Kin(key, i)
      BY <1>1, <1>5 DEF KinInv, OpenKin
    <3> QED BY <1>2, <2>2, <2>4, <3>1 DEF EntryKin
  <2>6. \A k \in Keys : EntryKin(k)
    BY <2>4, <2>5 DEF EntryKin
  <2>7. \A k \in Keys \ misled' : Runs(ledger', k) /\ ledger'[k].turn # 0 => Names(ledger'[k].turn, ledger'[k].id)
    <3>1. f.turn # 0 /\ key \notin misled => Names(f.turn, f.id)
      BY <1>1, <1>2, <1>5, <2>2, <2>3, NamesOf DEF EntryOK, Runs
    <3>2. \A k \in Keys : k # key /\ Runs(ledger', k) => Runs(ledger, k) /\ ledger'[k] = ledger[k]
      BY <2>4 DEF Runs
    <3> QED BY <1>4, <2>4, <3>1, <3>2, NamesOf
  <2>8. \A j \in DOMAIN queue' : Kin(queue'[j].key, queue'[j].id)
    BY <1>4 DEF KinInv, PromptsKin
  <2> QED BY <1>4, <2>6, <2>7, <2>8, HooksKin, KinStep, NamesOf DEF SubmitKin
<1>6. CASE ~(exec.phase = "settled" /\ Runs(ledger, key))
  <2>1. ledger' = ledger \/ ledger' = [ledger EXCEPT ![key] = exec.prev]
    BY <1>6 DEF Record, Recorded
  <2>2. ledger'[key] \in {ledger[key], exec.prev} /\ \A k \in Keys : k # key => ledger'[k] = ledger[k]
    BY <1>1, <1>3, <2>1
  <2>3. \A k \in Keys : ledger'[k] = ledger[k] \/ Unstarted(ledger'[k])
    BY <1>2, <2>2
  <2>4. \A k \in Keys : EntryKin(k)
    BY <2>3 DEF Unstarted, EntryKin, Runs
  <2>5. \A k \in Keys \ misled' : Runs(ledger', k) /\ ledger'[k].turn # 0 => Names(ledger'[k].turn, ledger'[k].id)
    <3>1. \A k \in Keys : Runs(ledger', k) => Runs(ledger, k) /\ ledger'[k] = ledger[k]
      BY <2>3 DEF Unstarted, Runs
    <3> QED BY <1>4, <3>1, NamesOf
  <2>6. \A j \in DOMAIN queue' : Kin(queue'[j].key, queue'[j].id)
    BY <1>4 DEF KinInv, PromptsKin
  <2> QED BY <1>4, <2>4, <2>5, <2>6, HooksKin, KinStep, NamesOf DEF SubmitKin
<1> QED BY <1>5, <1>6

LEMMA SubmitTakenKin ==
  ASSUME WakesInv, TypeOK', KinInv, Submit
  PROVE  KinInv'
<1>1. exec.phase = "saved" /\ exec # Idle /\ exec.key \in Keys /\ lastId \in Nat /\ ledger[exec.key] # None
  BY ExecFields DEF WakesInv, TypeOK, Submit, Idle, Executing
<1>2. lastId' = lastId + 1 /\ lastId' \in Ids
  BY <1>1, BoundsAssumption DEF Submit, KinInv, IdsAsked, Ids
<1>3. PICK x \in Ids : x = lastId'
  BY <1>2
<1>4. PICK c \in Keys : c = exec.key
  BY <1>1
<1> DEFINE p == [key |-> c, id |-> x, reminder |-> FALSE, watched |-> TRUE]
<1>5. /\ hooks' = hooks /\ turn' = turn /\ turns' = turns /\ misled' = misled /\ queue' = Append(queue, p)
      /\ asked' = [asked EXCEPT ![x] = c]
  BY <1>3, <1>4 DEF Submit
<1>6. asked \in [Ids -> Keys \cup {None}] /\ asked[x] = None
  BY <1>1, <1>2, <1>3 DEF WakesInv, TypeOK, KinInv, IdsAsked
<1>7. asked'[x] = c /\ \A i \in Ids : i # x => asked'[i] = asked[i]
  BY <1>5, <1>6
<1>8. \A k, i : Kin(k, i) => Kin(k, i)'
  BY <1>6, <1>7, NoneAssumption DEF Kin
<1>9. Kin(c, x)'
  BY <1>7 DEF Kin
<1>10. exec'.phase = "grace" /\ exec'.key = c /\ exec'.id = x
  <2>1. exec' = [exec EXCEPT !.phase = "grace", !.id = x] /\ exec \in Execs
    BY <1>3 DEF Submit, WakesInv, TypeOK
  <2> QED BY <1>1, <1>4, <2>1 DEF Execs, Idle
<1>11. p.key = c /\ p.id = x
  OBVIOUS
<1> HIDE DEF p
<1>12. \A j \in DOMAIN queue' : (j \in DOMAIN queue /\ queue'[j] = queue[j]) \/ queue'[j] = p
  <2>1. queue \in Seq(Prompt)
    BY DEF WakesInv, TypeOK
  <2> QED BY <1>5, <2>1
<1>13. PromptsKin'
  <2>1. \A j \in DOMAIN queue' : Kin(queue'[j].key, queue'[j].id) \/ (queue'[j].key = c /\ queue'[j].id = x)
    BY <1>11, <1>12 DEF KinInv, PromptsKin
  <2>2. \A j \in DOMAIN hooks' : hooks'[j].on = "start" => Kin(hooks'[j].key, hooks'[j].id)
    BY <1>5 DEF KinInv, PromptsKin
  <2>3. \A k, i : Kin(k, i) \/ (k = c /\ i = x) => Kin(k, i)'
    BY <1>8, <1>9
  <2>4. \A k, i : Kin(k, i) \/ (k = c /\ i = x) => i \in Ids /\ asked'[i] \in Keys /\ Sort[asked'[i]] = Sort[k]
    BY <2>3 DEF Kin
  <2> QED BY <1>10, <2>1, <2>2, <2>4 DEF PromptsKin, Kin
<1>14. IdsAsked'
  <2>1. \A i \in Ids : asked'[i] # None => i <= lastId'
    <3>1. \A i \in Ids : asked[i] # None => i <= lastId
      BY DEF KinInv, IdsAsked
    <3>2. Ids \subseteq Nat
      BY BoundsAssumption DEF Ids
    <3> QED BY <1>1, <1>2, <1>3, <1>7, <3>1, <3>2
  <2> QED BY <1>10, <2>1 DEF IdsAsked
<1>15. /\ \A k \in Keys : k # c => ledger'[k] = ledger[k]
       /\ ledger'[c] # None /\ ledger'[c].status = ledger[c].status /\ ledger'[c].id = ledger[c].id
       /\ ledger'[c].turn = ledger[c].turn /\ ledger'[c].by = ledger[c].by /\ ledger[c] # None
  <2>1. ledger' = [ledger EXCEPT ![c] = [ledger[c] EXCEPT !.mine = x]] /\ ledger \in [Keys -> Entry \cup {None}]
    BY <1>3, <1>4 DEF Submit, WakesInv, TypeOK
  <2>2. ledger[c] \in Entry /\ x \in Nat
    BY <1>1, <1>2, <1>3, <1>4, <2>1
  <2>3. ledger'[c] = [ledger[c] EXCEPT !.mine = x] /\ \A k \in Keys : k # c => ledger'[k] = ledger[k]
    BY <2>1
  <2>4. ledger'[c] \in Entry
    BY <2>2, <2>3 DEF Entry
  <2> QED BY <2>2, <2>3, <2>4, EntryFields DEF Entry
<1>16. EntryKin(c)
  <2>1. /\ Runs(ledger', c) => Runs(ledger, c)
        /\ ledger[c] \in Entry
    BY <1>15, LedgerFields DEF Runs, WakesInv
  <2>2. Runs(ledger, c) =>
          /\ ledger[c].turn <= turns
          /\ ledger[c].id # 0 => Kin(c, ledger[c].id)
          /\ \A n \in Nat \ {0}, i \in Nat : ledger[c].turn = n /\ Names(n, i) => Kin(c, i)
    BY <2>1, EntryFields DEF KinInv, OpenKin
  <2>3. ledger[c].status = "done" => Kin(c, ledger[c].by)
    BY <1>15 DEF KinInv, DoneKin
  <2> QED BY <1>15, <2>1, <2>2, <2>3 DEF EntryKin
<1>17. \A k \in Keys : EntryKin(k)
  BY <1>15, <1>16 DEF EntryKin
<1>18. \A k \in Keys \ misled' : Runs(ledger', k) /\ ledger'[k].turn # 0 => Names(ledger'[k].turn, ledger'[k].id)
  <2>1. \A k \in Keys : Runs(ledger', k) => Runs(ledger, k) /\ ledger'[k].turn = ledger[k].turn /\ ledger'[k].id = ledger[k].id
    BY <1>15 DEF Runs
  <2> QED BY <1>5, <2>1, NamesOf
<1>19. NamesLess
  BY <1>5, <1>18, NamesLessBy, NamesOf DEF WakesInv
<1>20. KinGrows
  BY <1>8 DEF KinGrows
<1> QED BY <1>5, <1>13, <1>14, <1>17, <1>19, <1>20, KinKept DEF WakesInv

\* A turn's start gives its turn to an entry of the kind and name of its prompt.
LEMMA HookStartKin ==
  ASSUME WakesInv, TypeOK', KinInv, HookStart
  PROVE  KinInv'
<1> DEFINE h == Head(hooks)
<1>1. /\ h \in Hook /\ h.on = "start" /\ Names(h.n, h.id) /\ hooks # <<>> /\ hooks' = Tail(hooks)
  BY HookRun DEF WakesInv, HookStart
<1>2. h.n \in Nat \ {0} /\ h.id \in Nat \ {0} /\ h = hooks[1] /\ 1 \in DOMAIN hooks
  BY <1>1, HookFields DEF WakesInv, TypeOK
<1>3. Kin(h.key, h.id)
  BY <1>1, <1>2 DEF KinInv, PromptsKin
<1>4. \A k \in Keys : k \notin Begun(h) => ledger'[k] = ledger[k]
  BY BegunFields
<1>5. ASSUME NEW k \in Keys, k \in Begun(h)
      PROVE  /\ ledger'[k].status = "running" /\ ledger'[k].id = h.id /\ ledger'[k].turn = h.n /\ Sort[k] = Sort[h.key]
  BY <1>5, BegunFields DEF Begun
<1> HIDE DEF h
<1>6. h.n <= turns /\ \A i \in Nat : Names(h.n, i) => i = h.id
  BY <1>1, <1>2 DEF WakesInv, OneId
<1>7. \A k \in Keys : k \in Begun(h) => EntryKin(k)
  <2>1. TAKE k \in Keys
  <2>2. HAVE k \in Begun(h)
  <2>3. Kin(k, h.id)
    BY <1>3, <1>5, <2>2 DEF Kin
  <2> QED BY <1>5, <1>6, <2>2, <2>3 DEF EntryKin
<1>8. \A k \in Keys : EntryKin(k)
  BY <1>4, <1>7 DEF EntryKin
<1>9. \A k \in Keys \ misled' : Runs(ledger', k) /\ ledger'[k].turn # 0 => Names(ledger'[k].turn, ledger'[k].id)
  <2>1. \A k \in Keys : k \notin Begun(h) /\ Runs(ledger', k) => Runs(ledger, k) /\ ledger'[k] = ledger[k]
    BY <1>4 DEF Runs
  <2>2. misled \subseteq misled'
    BY DEF HookStart
  <2> QED BY <1>1, <1>5, <2>1, <2>2, NamesOf
<1>10. /\ queue' = queue /\ exec' = exec /\ lastId' = lastId /\ turns' = turns
       /\ turn' = turn /\ asked' = asked
  BY DEF HookStart
<1>11. \A j \in DOMAIN queue' : Kin(queue'[j].key, queue'[j].id)
  BY <1>10 DEF KinInv, PromptsKin
<1> QED BY <1>1, <1>8, <1>9, <1>10, <1>11, HooksKin, KinStep, NamesOf DEF SubmitKin

\* The end of a turn ends an entry that has it, by the one prompt whose turn it was.
LEMMA HookEndKin ==
  ASSUME WakesInv, TypeOK', KinInv, NEW sent \in BOOLEAN, HookEnd(sent)
  PROVE  KinInv'
<1> DEFINE h == Head(hooks)
<1>1. /\ Names(h.n, h.id) /\ h.n \in Nat \ {0} /\ h.id \in Nat /\ h.answer \in Nat
      /\ queue' = (IF sent THEN queue \o SetToSeq(Reminders) ELSE queue)
      /\ ledger' = [k \in Keys |-> IF k \in EndTold THEN [EndAnswered[k] EXCEPT !.status = "done", !.by = h.id]
                                   ELSE IF k \in EndDue THEN [EndAnswered[k] EXCEPT !.reminded = TRUE]
                                   ELSE EndAnswered[k]]
  BY EndHook
<1>2. hooks # <<>> /\ hooks' = Tail(hooks)
  BY DEF HookEnd
<1>3. /\ exec' = exec /\ turn' = turn /\ turns' = turns /\ lastId' = lastId /\ asked' = asked /\ misled' = misled
  BY DEF HookEnd
<1>4. \A k \in EndOwn : /\ k \in Keys /\ EndAnswered[k] = ledger[k] /\ Runs(ledger, k) /\ ledger[k] \in Entry
                         /\ ledger[k].turn = h.n /\ ledger[k].id # 0
  BY EndOwnFields
<1>5. EndTold \subseteq EndOwn /\ EndDue \subseteq EndOwn
  BY DEF EndTold, EndDue
<1>6. \A k \in Keys : Answered(ledger, h.answer)[k] = EndAnswered[k]
  BY DEF EndAnswered
<1> HIDE DEF h
<1>7. \A k \in EndOwn : Kin(k, h.id) /\ Kin(k, ledger[k].id)
  <2>1. TAKE k \in EndOwn
  <2>2. Kin(k, h.id)
    BY <1>1, <1>4 DEF KinInv, OpenKin
  <2>3. Kin(k, ledger[k].id)
    BY <1>4, EntryFields DEF KinInv, OpenKin
  <2> QED BY <2>2, <2>3
<1>8. ASSUME NEW k \in Keys PROVE EntryKin(k)
  <2>1. CASE k \in EndTold
    <3>1. ledger'[k] = [ledger[k] EXCEPT !.status = "done", !.by = h.id] /\ ledger[k] \in Entry
      BY <1>1, <1>4, <1>5, <2>1
    <3>2. PICK e \in Entry : e = ledger[k]
      BY <3>1
    <3>3. ledger'[k] = [e EXCEPT !.status = "done", !.by = h.id]
      BY <3>1, <3>2
    <3>4. ledger'[k].status = "done" /\ ledger'[k].by = h.id
      BY <1>1, <3>3 DEF Entry
    <3> QED BY <1>5, <1>7, <2>1, <3>4 DEF EntryKin, Runs
  <2>2. CASE k \notin EndTold /\ k \in EndDue
    <3>1. ledger'[k] = [ledger[k] EXCEPT !.reminded = TRUE] /\ ledger[k] \in Entry /\ Runs(ledger, k)
      BY <1>1, <1>4, <1>5, <2>2
    <3>2. /\ ledger'[k].status = "running" /\ ledger'[k].id = ledger[k].id /\ ledger'[k].turn = ledger[k].turn
      BY <3>1, EntryReminded DEF Runs
    <3>3. /\ ledger[k].turn <= turns
          /\ \A n \in Nat \ {0}, i \in Nat : ledger[k].turn = n /\ Names(n, i) => Kin(k, i)
      BY <3>1 DEF KinInv, OpenKin
    <3> QED BY <1>5, <1>7, <2>2, <3>2, <3>3 DEF EntryKin
  <2>3. CASE k \notin EndTold /\ k \notin EndDue
    <3>1. ledger'[k] = Answered(ledger, h.answer)[k]
      BY <1>1, <1>6, <2>3
    <3>2. CASE ledger'[k] = ledger[k]
      BY <3>2 DEF EntryKin
    <3>3. CASE ledger'[k] # ledger[k]
      <4>1. PICK a \in Nat : a = h.answer
        BY <1>1
      <4>2. ledger'[k] = Answered(ledger, a)[k]
        BY <3>1, <4>1
      <4>3. ledger'[k].status = "done" /\ ledger'[k].by = a /\ Kin(k, a)
        BY <3>3, <4>2, AnswerKin
      <4> QED BY <4>3 DEF EntryKin, Runs
    <3> QED BY <3>2, <3>3
  <2> QED BY <2>1, <2>2, <2>3
<1>9. \A k \in Keys \ misled' : Runs(ledger', k) /\ ledger'[k].turn # 0 => Names(ledger'[k].turn, ledger'[k].id)
  BY <1>3, EndEntries, NamesOf
<1>10. \A j \in DOMAIN queue' : Kin(queue'[j].key, queue'[j].id)
  <2>1. \A p \in Reminders : Kin(p.key, p.id)
    BY <1>4, <1>5, <1>7 DEF Reminders
  <2>2. \A j \in DOMAIN queue : Kin(queue[j].key, queue[j].id)
    BY DEF KinInv, PromptsKin
  <2>3. CASE queue' = queue
    BY <2>2, <2>3
  <2>4. CASE queue' = queue \o SetToSeq(Reminders)
    <3> DEFINE s == SetToSeq(Reminders)
    <3>1. s \in Seq(Reminders) /\ queue \in Seq(Prompt)
      BY RemindersType DEF WakesInv, TypeOK
    <3> HIDE DEF s
    <3>2. queue' = queue \o s
      BY <2>4 DEF s
    <3>3. \A j \in DOMAIN queue' : (j \in DOMAIN queue /\ queue'[j] = queue[j]) \/ queue'[j] \in Reminders
      BY <3>1, <3>2
    <3> QED BY <2>1, <2>2, <3>3
  <2> QED BY <1>1, <2>3, <2>4
<1> QED BY <1>2, <1>3, <1>8, <1>9, <1>10, HooksKin, KinStep, NamesOf DEF SubmitKin

\* A tell is delivered by its own turn and a task answered by its own id, and where an entry took
\* another prompt's turn for its own it is one of its kind and name (wake.ts onTurnStart,
\* onTurnComplete): for any prompts, turns, drops, reloads and restarts.
THEOREM EndsByOwnTurn ==
  Spec => []OwnTurn
<1>1. Init => KinInv
  <2>1. SUFFICES ASSUME Init PROVE KinInv
    OBVIOUS
  <2>2. /\ \A k \in Keys : ledger[k] = None
        /\ hooks = <<>> /\ queue = <<>> /\ exec = Idle /\ \A i \in Ids : asked[i] = None
    BY <2>1 DEF Init
  <2>3. exec.phase = "idle"
    BY <2>2 DEF Idle
  <2> QED BY <2>2, <2>3 DEF KinInv, IdsAsked, PromptsKin, OpenKin, DoneKin, Runs
<1>2. KinInv /\ WakesInv /\ WakesInv' /\ [Next]_vars => KinInv'
  <2>1. SUFFICES ASSUME KinInv, WakesInv, TypeOK', [Next]_vars PROVE KinInv'
    BY DEF WakesInv
  <2>2. CASE Plan \/ Start \/ Submit \/ Record
    BY <2>1, <2>2, PlanKin, StartKin, SubmitTakenKin, RecordKin
  <2>3. CASE Hold \/ Tick \/ HookOff \/ Queued \/ UNCHANGED vars
    BY <2>1, <2>3, QuietKin
  <2>4. CASE TurnStart \/ Chat \/ HookStart \/ HookDrop
    BY <2>1, <2>4, TurnStartKin, ChatKin, HookStartKin, HookDropKin
  <2>5. CASE Reload \/ Restart
    BY <2>1, <2>5, ReloadKin, RestartKin
  <2>6. CASE \E i \in DOMAIN queue : Drop(i)
    BY <2>1, <2>6, DropKin
  <2>7. CASE \E said \in BOOLEAN, answer \in 0..lastId : TurnEnd(said, answer)
    BY <2>1, <2>7, TurnEndKin
  <2>8. CASE \E answer \in 1..lastId : Tool(answer)
    BY <2>1, <2>8, ToolKin
  <2>9. CASE \E sent \in BOOLEAN : HookEnd(sent)
    BY <2>1, <2>9, HookEndKin
  <2> QED BY <2>1, <2>2, <2>3, <2>4, <2>5, <2>6, <2>7, <2>8, <2>9 DEF Next
<1>3. KinInv /\ WakesInv => OwnTurn
  BY DEF KinInv, DoneKin, WakesInv, Entries, EntryOK, OwnTurn
<1> QED BY <1>1, <1>2, <1>3, Invariance, PTL DEF Spec
=============================================================================
