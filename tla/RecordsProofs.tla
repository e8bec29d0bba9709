---------------------------- MODULE RecordsProofs ----------------------------
(* The transition table, for any caps: an event matches at most one row; a row
   keeps the record's type and its counters within their caps; and every row but
   a refill leaves the record less to do. Then a record over its life, for any
   caps, outcomes and number of happenings: the same holds of every transition,
   the label on GitHub and the agent at work are the record's, and what a row
   answers did happen. *)
EXTENDS Records, TLAPS

-----------------------------------------------------------------------------
(* The table alone. *)

LEMMA NormalEvent ==
  ASSUME NEW r \in Record, NEW e \in Event
  PROVE  Normal(r, e) \in Event
<1>1. "odd" \in Tags BY DEF Tags
<1>2. [e EXCEPT !.kind = "unknown"] \in Event BY DEF Event, Kinds
<1>3. [kind |-> "unknown", tag |-> "odd", flag |-> FALSE] \in Event BY <1>1 DEF Event, Kinds
<1> QED BY <1>2, <1>3 DEF Normal

LEMMA HitWhen ==
  ASSUME NEW r \in Record, NEW e \in Event, NEW x
  PROVE  x \in Hits(r, e) <=> x \in RowIds /\ When(x, r, Normal(r, e))
BY DEF Hits

(* The classes of rows exclude each other by the event's kind and the state. *)
LEMMA ClassFacts ==
  ASSUME NEW r \in Record, NEW e \in Event, NEW x
  PROVE  /\ StepRow(x, r, e) => e.kind \in {"ok", "not-ok"} /\ r.state # "fixing"
         /\ FixRow(x, r, e) => e.kind \in {"ok", "not-ok"} /\ r.state = "fixing"
         /\ UnknownRow(x, r, e) => e.kind = "unknown"
         /\ TriageRow(x, r, e) => e.kind = "triage"
         /\ OutsideRow(x, r, e) => e.kind \notin {"ok", "not-ok", "unknown", "triage"}
BY DEF StepRow, FixRow, UnknownRow, TriageRow, OutsideRow

LEMMA StepExclusive ==
  ASSUME NEW r \in Record, NEW e \in Event, NEW x, NEW y, StepRow(x, r, e), StepRow(y, r, e)
  PROVE  x = y
BY DEF StepRow, Fixable, FixReasons

LEMMA FixExclusive ==
  ASSUME NEW r \in Record, NEW e \in Event, NEW x, NEW y, FixRow(x, r, e), FixRow(y, r, e)
  PROVE  x = y
BY DEF FixRow

LEMMA UnknownExclusive ==
  ASSUME NEW r \in Record, NEW e \in Event, NEW x, NEW y, UnknownRow(x, r, e), UnknownRow(y, r, e)
  PROVE  x = y
BY DEF UnknownRow, Record

LEMMA TriageExclusive ==
  ASSUME NEW r \in Record, NEW e \in Event, NEW x, NEW y, TriageRow(x, r, e), TriageRow(y, r, e)
  PROVE  x = y
BY DEF TriageRow

LEMMA OutsideExclusive ==
  ASSUME NEW r \in Record, NEW e \in Event, NEW x, NEW y, OutsideRow(x, r, e), OutsideRow(y, r, e)
  PROVE  x = y
BY DEF OutsideRow

(* No event matches two rows in any record: rowFor never throws. *)
THEOREM RowsExclusive ==
  ASSUME NEW r \in Record, NEW e \in Event, NEW x \in Hits(r, e), NEW y \in Hits(r, e)
  PROVE  x = y
<1> DEFINE n == Normal(r, e)
<1>1. n \in Event BY NormalEvent
<1>2. When(x, r, n) /\ When(y, r, n) BY HitWhen
<1> HIDE DEF n
<1> QED BY <1>1, <1>2, ClassFacts, StepExclusive, FixExclusive, UnknownExclusive, TriageExclusive,
           OutsideExclusive DEF When

-----------------------------------------------------------------------------
LEMMA EnterRecord ==
  ASSUME NEW r \in Record, NEW s \in States
  PROVE  /\ Enter(r, s) \in Record
         /\ Enter(r, s).state = s /\ Enter(r, s).step = StepOf[s]
         /\ Enter(r, s).attempt = 1 /\ ~Enter(r, s).cut
         /\ Enter(r, s).triages = r.triages /\ Enter(r, s).fixes = r.fixes
         /\ Enter(r, s).conflicts = r.conflicts
         /\ Enter(r, s).resumeTo = IF s \in HeldStates THEN r.resumeTo ELSE "none"
BY DEF Enter, Record, States, LiveStates, StepStates, HeldStates, StepOf, Steps

LEMMA ParkRecord ==
  ASSUME NEW r \in Record, NEW to \in StepStates
  PROVE  /\ Park(r, to) \in Record /\ Park(r, to).state = "parked" /\ Park(r, to).step = "none"
         /\ Park(r, to).triages = r.triages /\ Park(r, to).fixes = r.fixes
         /\ Park(r, to).conflicts = r.conflicts /\ Park(r, to).resumeTo = to
<1>1. "parked" \in States BY DEF States, LiveStates, HeldStates
<1> QED BY <1>1, EnterRecord DEF Park, Record, StepOf

LEMMA TargetTypes ==
  ASSUME NEW r \in Record, CapsHold(r), r.state \in LiveStates, r.state # "parked"
  PROVE  SameTarget(r) \in StepStates
BY DEF SameTarget, Resume, Record, LiveStates, StepStates, HeldStates

-----------------------------------------------------------------------------
(* What a row that is no refill owes: the type, the caps, and less to do. *)
Good(q, r) == q \in Record /\ CapsHold(q) /\ Less(q, r)

LEMMA FixBoundFacts == FixBound \in Nat /\ ReviewFixCap <= FixBound /\ 1 <= FixBound
BY CapsAssumption DEF FixBound

LEMMA NoTriage == \A s \in States : StepOf[s] \in Steps \ {"triage"}
BY DEF StepOf, States, LiveStates, HeldStates, StepStates, Steps

LEMMA StagesNat == \A s \in States : StagesLeft[s] \in Nat
BY DEF StagesLeft, States, LiveStates, HeldStates, StepStates

LEMMA FieldTypes ==
  ASSUME NEW r \in Record
  PROVE  /\ r.state \in States /\ r.step \in Steps /\ r.attempt \in {1, 2} /\ r.cut \in BOOLEAN
         /\ r.triages \in Nat /\ r.fixes \in Nat /\ r.conflicts \in Nat
         /\ r.resumeTo \in StepStates \cup {"none"}
BY DEF Record

(* A row that changes the state, and none of the counters. *)
LEMMA LessByStage ==
  ASSUME NEW q \in Record, NEW r \in Record, q.step # "triage",
         q.triages = r.triages, q.fixes = r.fixes, q.conflicts = r.conflicts,
         OnTriage(r) \/ StagesLeft[q.state] < StagesLeft[r.state]
  PROVE  Less(q, r)
BY FieldTypes, CapsAssumption, FixBoundFacts, StagesNat DEF Less, TriagesLeft, FixesLeft, OnTriage

LEMMA EnterGood ==
  ASSUME NEW r \in Record, CapsHold(r), NEW s \in StepStates \cup {"closed"},
         OnTriage(r) \/ StagesLeft[s] < StagesLeft[r.state]
  PROVE  Good(Enter(r, s), r)
<1>1. s \in States /\ s \notin HeldStates BY DEF States, LiveStates, StepStates, HeldStates
<1>2. Enter(r, s) \in Record /\ CapsHold(Enter(r, s))
  BY <1>1, EnterRecord DEF CapsHold, HeldStates
<1> QED BY <1>1, <1>2, EnterRecord, NoTriage, LessByStage DEF Good

LEMMA ParkGood ==
  ASSUME NEW r \in Record, CapsHold(r), NEW to \in StepStates,
         OnTriage(r) \/ StagesLeft["parked"] < StagesLeft[r.state]
  PROVE  Good(Park(r, to), r)
<1>1. Park(r, to) \in Record /\ CapsHold(Park(r, to)) BY ParkRecord DEF CapsHold, HeldStates
<1> QED BY <1>1, ParkRecord, LessByStage DEF Good

(* Notes on the record that no cap and no measure reads. *)
LEMMA SameGood ==
  ASSUME NEW p \in Record, NEW q \in Record, NEW r \in Record, Good(q, r),
         p.state = q.state, p.step = q.step, p.attempt = q.attempt, p.cut = q.cut,
         p.triages = q.triages, p.fixes = q.fixes, p.conflicts = q.conflicts, p.resumeTo = q.resumeTo
  PROVE  Good(p, r)
BY DEF Good, CapsHold, Less, TriagesLeft, FixesLeft, AttemptsLeft, OnTriage

LEMMA MarkGood ==
  ASSUME NEW q \in Record, NEW r \in Record, Good(q, r)
  PROVE  /\ \A b \in BOOLEAN : /\ Good([q EXCEPT !.pr = b], r) /\ Good([q EXCEPT !.approved = b], r)
                                /\ Good([q EXCEPT !.env = b], r)
         /\ Good([q EXCEPT !.approved = TRUE, !.pr = TRUE], r)
         /\ \A w \in Whys : Good([q EXCEPT !.why = w], r)
<1>1. ASSUME NEW b \in BOOLEAN PROVE Good([q EXCEPT !.pr = b], r)
  <2>1. [q EXCEPT !.pr = b] \in Record BY DEF Record
  <2> QED BY <2>1, SameGood DEF Record
<1>2. ASSUME NEW b \in BOOLEAN PROVE Good([q EXCEPT !.approved = b], r)
  <2>1. [q EXCEPT !.approved = b] \in Record BY DEF Record
  <2> QED BY <2>1, SameGood DEF Record
<1>3. ASSUME NEW b \in BOOLEAN PROVE Good([q EXCEPT !.env = b], r)
  <2>1. [q EXCEPT !.env = b] \in Record BY DEF Record
  <2> QED BY <2>1, SameGood DEF Record
<1>4. Good([q EXCEPT !.approved = TRUE, !.pr = TRUE], r)
  <2>1. [q EXCEPT !.approved = TRUE, !.pr = TRUE] \in Record BY DEF Record
  <2> QED BY <2>1, SameGood DEF Record
<1>5. ASSUME NEW w \in Whys PROVE Good([q EXCEPT !.why = w], r)
  <2>1. [q EXCEPT !.why = w] \in Record BY DEF Record
  <2> QED BY <2>1, SameGood DEF Record
<1> QED BY <1>1, <1>2, <1>3, <1>4, <1>5

LEMMA CloseGood ==
  ASSUME NEW r \in Record, CapsHold(r), r.state \in LiveStates, NEW w \in Whys
  PROVE  Good(Close(r, w), r) /\ Close(r, w) \in Record
<1>1. StagesLeft["closed"] < StagesLeft[r.state]
  BY DEF StagesLeft, States, LiveStates, StepStates, HeldStates
<1>2. Good(Enter(r, "closed"), r) BY <1>1, EnterGood
<1> QED BY <1>2, MarkGood DEF Close, Good

LEMMA ToTriageGood ==
  ASSUME NEW r \in Record, CapsHold(r), r.state \in StepStates, ~OnTriage(r), CanTriage(r)
  PROVE  Good(ToTriage(r), r)
<1> DEFINE q == ToTriage(r)
<1>1. /\ q \in Record /\ q.state = r.state /\ q.step = "triage" /\ q.triages = r.triages + 1
      /\ q.fixes = r.fixes /\ q.conflicts = r.conflicts /\ q.resumeTo = r.resumeTo
  <2>1. q \in Record
    <3>1. "triage" \in Steps /\ 1 \in {1, 2} BY DEF Steps
    <3>2. r.triages + 1 \in Nat BY FieldTypes
    <3> QED BY <3>1, <3>2 DEF ToTriage, Record
  <2>2. q.triages = r.triages + 1 BY DEF ToTriage, Record
  <2> QED BY <2>1, <2>2 DEF ToTriage, Record
<1>2. r.triages < MaxTriages /\ r.triages \in Nat BY FieldTypes DEF CanTriage
<1> HIDE DEF q
<1>3. CapsHold(q) BY <1>1, <1>2, CapsAssumption DEF CapsHold
<1>4. Less(q, r) BY <1>1, <1>2, CapsAssumption DEF Less, TriagesLeft, OnTriage
<1> QED BY <1>1, <1>3, <1>4 DEF Good, q

(* A fix round counts: for findings, or for what other merges caused. *)
LEMMA FixRoundGood ==
  ASSUME NEW r \in Record, CapsHold(r), NEW q \in Record, q.state = "fixing", q.step # "triage",
         q.triages = r.triages, q.resumeTo = "none",
         \/ q.fixes = r.fixes + 1 /\ q.conflicts = r.conflicts /\ r.fixes + 1 <= FixBound
         \/ q.conflicts = r.conflicts + 1 /\ q.fixes = r.fixes /\ r.conflicts + 1 <= ConflictFixCap
  PROVE  Good(q, r)
<1>1. CapsHold(q) BY FieldTypes DEF CapsHold
<1>2. Less(q, r)
  BY FieldTypes, CapsAssumption, FixBoundFacts DEF Less, TriagesLeft, FixesLeft, OnTriage
<1> QED BY <1>1, <1>2 DEF Good

LEMMA FixingRecord ==
  ASSUME NEW r \in Record
  PROVE  /\ Enter(r, "fixing") \in Record /\ Enter(r, "fixing").step # "triage"
         /\ Fixing(r) \in Record /\ Fixing(r).state = "fixing" /\ Fixing(r).step # "triage"
         /\ Fixing(r).triages = r.triages /\ Fixing(r).resumeTo = "none"
         /\ Fixing(r).fixes = r.fixes + 1 /\ Fixing(r).conflicts = r.conflicts
<1>1. "fixing" \in States /\ "fixing" \notin HeldStates BY DEF States, LiveStates, StepStates, HeldStates
<1> QED BY <1>1, EnterRecord, NoTriage DEF Fixing, Record

LEMMA FixingGood ==
  ASSUME NEW r \in Record, CapsHold(r), r.fixes = 0 \/ r.fixes < ReviewFixCap
  PROVE  Good(Fixing(r), r)
<1>1. r.fixes + 1 <= FixBound BY FixBoundFacts, FieldTypes, CapsAssumption
<1> QED BY <1>1, FixingRecord, FixRoundGood

LEMMA ToFixerGood ==
  ASSUME NEW r \in Record, CapsHold(r), NEW e \in Event, UnderCap(r, e)
  PROVE  Good(ToFixer(r, e), r)
<1>1. CASE BaseCaused(r, e)
  <2> DEFINE q == [Enter(r, "fixing") EXCEPT !.conflicts = @ + 1, !.pr = TRUE]
  <2>1. "fixing" \in States /\ "fixing" \notin HeldStates BY DEF States, LiveStates, StepStates, HeldStates
  <2>2. /\ q \in Record /\ q.state = "fixing" /\ q.step # "triage" /\ q.triages = r.triages
        /\ q.resumeTo = "none" /\ q.fixes = r.fixes /\ q.conflicts = r.conflicts + 1
    <3>1. Enter(r, "fixing").conflicts + 1 \in Nat BY <2>1, EnterRecord, FieldTypes
    <3>2. q \in Record /\ q.conflicts = Enter(r, "fixing").conflicts + 1
      BY <2>1, <3>1, EnterRecord DEF Record
    <3> QED BY <2>1, <3>2, EnterRecord, NoTriage DEF Record
  <2>3. r.conflicts + 1 <= ConflictFixCap BY <1>1, FieldTypes, CapsAssumption DEF UnderCap
  <2> HIDE DEF q
  <2>4. Good(q, r) BY <2>2, <2>3, FixRoundGood
  <2> QED BY <1>1, <2>4 DEF ToFixer, q
<1>2. CASE ~BaseCaused(r, e)
  <2>1. Good(Fixing(r), r) BY <1>2, FixingGood DEF UnderCap
  <2> QED BY <1>2, <2>1, MarkGood DEF ToFixer, Good
<1> QED BY <1>1, <1>2

LEMMA LeasedGood ==
  ASSUME NEW r \in Record, CapsHold(r), r.state = "queued", OwnStep(r)
  PROVE  Good(Leased(r), r)
<1>1. Resume(r) \in StepStates BY FieldTypes DEF Resume, StepStates
<1>2. CASE Resume(r) = "fixing"
  <2>1. r.fixes = 0 BY <1>2 DEF CapsHold, Resume
  <2> QED BY <1>2, <2>1, FixingGood DEF Leased
<1>3. CASE Resume(r) # "fixing"
  <2>1. StagesLeft[Resume(r)] < StagesLeft["queued"]
    BY <1>1 DEF StagesLeft, States, LiveStates, StepStates, HeldStates
  <2> QED BY <1>1, <1>3, <2>1, EnterGood DEF Leased
<1> QED BY <1>2, <1>3

LEMMA AttemptGood ==   \* U1, U2: the same step again
  ASSUME NEW r \in Record, CapsHold(r)
  PROVE  /\ ~r.cut => Good([r EXCEPT !.cut = TRUE], r)
         /\ r.attempt <= 1 => Good([r EXCEPT !.attempt = 2, !.cut = FALSE], r)
<1>1. /\ [r EXCEPT !.cut = TRUE] \in Record
      /\ [r EXCEPT !.attempt = 2, !.cut = FALSE] \in Record BY DEF Record
<1>2. /\ CapsHold([r EXCEPT !.cut = TRUE])
      /\ CapsHold([r EXCEPT !.attempt = 2, !.cut = FALSE]) BY DEF CapsHold, Record
<1>3. ~r.cut => Less([r EXCEPT !.cut = TRUE], r)
  BY FieldTypes, CapsAssumption, FixBoundFacts, StagesNat
  DEF Less, TriagesLeft, FixesLeft, AttemptsLeft, OnTriage, Record
<1>4. r.attempt <= 1 => Less([r EXCEPT !.attempt = 2, !.cut = FALSE], r)
  BY FieldTypes, CapsAssumption, FixBoundFacts, StagesNat
  DEF Less, TriagesLeft, FixesLeft, AttemptsLeft, OnTriage, Record
<1> QED BY <1>1, <1>2, <1>3, <1>4 DEF Good

LEMMA RetryGood ==     \* X1: the state's own step after triage
  ASSUME NEW r \in Record, CapsHold(r), OnTriage(r)
  PROVE  Good([r EXCEPT !.step = StepOf[r.state], !.attempt = 2, !.cut = FALSE], r)
<1> DEFINE q == [r EXCEPT !.step = StepOf[r.state], !.attempt = 2, !.cut = FALSE]
<1>1. q \in Record BY FieldTypes, NoTriage DEF Record
<1>2. /\ q.step # "triage" /\ q.triages = r.triages /\ q.fixes = r.fixes /\ q.conflicts = r.conflicts
      /\ q.state = r.state /\ q.resumeTo = r.resumeTo BY FieldTypes, NoTriage DEF Record
<1> HIDE DEF q
<1>3. CapsHold(q) BY <1>2 DEF CapsHold
<1>4. Less(q, r) BY <1>1, <1>2, LessByStage
<1> QED BY <1>1, <1>3, <1>4 DEF Good, q

LEMMA Stages ==
  /\ \A s \in {"queued", "designing", "building", "reviewing", "fixing", "merge-queue", "waiting"} :
        StagesLeft["parked"] < StagesLeft[s]
  /\ StagesLeft["building"] < StagesLeft["designing"] /\ StagesLeft["reviewing"] < StagesLeft["building"]
  /\ StagesLeft["merge-queue"] < StagesLeft["reviewing"] /\ StagesLeft["reviewing"] < StagesLeft["fixing"]
  /\ StagesLeft["waiting"] < StagesLeft["designing"]
BY DEF StagesLeft, States, LiveStates, StepStates, HeldStates

LEMMA StepGood ==
  ASSUME NEW r \in Record, CapsHold(r), NEW e \in Event, NEW x, StepRow(x, r, e), x # "T14"
  PROVE  Good(RowMakes(x, r, e), r)
<1>1. CASE x = "T1" BY <1>1, LeasedGood DEF StepRow, RowMakes
<1>2. CASE x \in {"T2", "T5"}
  BY <1>2, Stages, EnterGood DEF StepRow, RowMakes, StepStates
<1>3. CASE x \in {"T3", "T7", "T15"}
  BY <1>3, Stages, ParkGood DEF StepRow, RowMakes, StepStates
<1>4. CASE x \in {"T4", "T13", "T18"}
  <2>1. r.state \in LiveStates BY <1>4 DEF StepRow, LiveStates, StepStates
  <2> QED BY <1>4, <2>1, CloseGood DEF RowMakes, Whys
<1>5. CASE x = "T6"
  <2>1. ~OnTriage(r) BY <1>5, FieldTypes, NoTriage DEF StepRow, OwnStep, OnTriage
  <2> QED BY <1>5, <2>1, ToTriageGood DEF StepRow, RowMakes, StepStates
<1>6. CASE x = "T8"
  <2>1. Good(Enter(r, "merge-queue"), r)
    BY <1>6, Stages, EnterGood DEF StepRow, StepStates
  <2> QED BY <1>6, <2>1, MarkGood DEF RowMakes, Good
<1>7. CASE x = "T9" BY <1>7, ToFixerGood DEF StepRow, RowMakes
<1>8. CASE x = "T10"
  <2>1. Good(Park(r, "fixing"), r) BY <1>8, Stages, ParkGood DEF StepRow, StepStates
  <2> QED BY <1>8, <2>1, MarkGood DEF RowMakes, Good
<1>9. CASE x = "T16"
  <2> DEFINE q == [Enter(r, "waiting") EXCEPT !.resumeTo = "designing"]
  <2>1. "waiting" \in States /\ "waiting" \in HeldStates /\ "designing" \in StepStates
    BY DEF States, LiveStates, HeldStates, StepStates
  <2>2. /\ q \in Record /\ q.state = "waiting" /\ q.step # "triage" /\ q.resumeTo = "designing"
        /\ q.triages = r.triages /\ q.fixes = r.fixes /\ q.conflicts = r.conflicts
    BY <2>1, EnterRecord, NoTriage DEF Record
  <2> HIDE DEF q
  <2>3. CapsHold(q) BY <2>1, <2>2 DEF CapsHold
  <2>4. Less(q, r) BY <1>9, <2>2, Stages, LessByStage DEF StepRow
  <2> QED BY <1>9, <2>2, <2>3, <2>4 DEF RowMakes, Good, q
<1> QED BY <1>1, <1>2, <1>3, <1>4, <1>5, <1>6, <1>7, <1>8, <1>9 DEF StepRow

LEMMA FixGood ==
  ASSUME NEW r \in Record, CapsHold(r), NEW e \in Event, NEW x, FixRow(x, r, e)
  PROVE  Good(RowMakes(x, r, e), r)
<1>1. r.state = "fixing" /\ e.flag \in BOOLEAN BY DEF FixRow, Event
<1>2. CASE x \in {"T11", "T12", "T17"}
  <2>1. Good(Enter(r, "reviewing"), r) BY <1>1, Stages, EnterGood DEF StepStates
  <2> QED BY <1>1, <1>2, <2>1, MarkGood DEF RowMakes, Fixed, Good
<1>3. CASE x \in {"T19", "T20"}
  <2>1. Good(Park(r, "reviewing"), r) BY <1>1, Stages, ParkGood DEF StepStates
  <2> QED BY <1>1, <1>3, <2>1, MarkGood DEF RowMakes, Good
<1> QED BY <1>2, <1>3 DEF FixRow

LEMMA TargetGood ==    \* U4, X4, E4: parked to come back to the same state
  ASSUME NEW r \in Record, CapsHold(r), r.state \in LiveStates, r.state # "parked"
  PROVE  Good(Park(r, SameTarget(r)), r)
<1>1. StagesLeft["parked"] < StagesLeft[r.state] BY Stages DEF LiveStates, StepStates, HeldStates
<1> QED BY <1>1, TargetTypes, ParkGood

LEMMA UnknownGood ==
  ASSUME NEW r \in Record, CapsHold(r), NEW e \in Event, NEW x, UnknownRow(x, r, e)
  PROVE  Good(RowMakes(x, r, e), r)
<1>1. CASE x = "U1" BY <1>1, AttemptGood DEF UnknownRow, RowMakes, Free
<1>2. CASE x = "U2" BY <1>2, AttemptGood DEF UnknownRow, RowMakes
<1>3. CASE x = "U3" BY <1>3, ToTriageGood DEF UnknownRow, RowMakes
<1>4. CASE x = "U4"
  <2>1. r.state \in LiveStates /\ r.state # "parked"
    BY DEF UnknownRow, LiveStates, StepStates
  <2> QED BY <1>4, <2>1, TargetGood DEF RowMakes
<1> QED BY <1>1, <1>2, <1>3, <1>4 DEF UnknownRow

LEMMA TriageGood ==
  ASSUME NEW r \in Record, CapsHold(r), NEW e \in Event, NEW x, TriageRow(x, r, e)
  PROVE  Good(RowMakes(x, r, e), r)
<1>1. r.state \in LiveStates /\ r.state # "parked" /\ OnTriage(r)
  BY DEF TriageRow, LiveStates, StepStates
<1>2. CASE x = "X1" BY <1>1, <1>2, RetryGood DEF RowMakes
<1>3. CASE x = "X2" BY <1>3, FixingGood DEF TriageRow, FixValid, RowMakes
<1>4. CASE x = "X3" BY <1>1, <1>4, EnterGood DEF RowMakes, StepStates
<1>5. CASE x = "X4" BY <1>1, <1>5, TargetGood DEF RowMakes
<1>6. CASE x = "X5" BY <1>1, <1>6, CloseGood DEF RowMakes, Whys
<1> QED BY <1>2, <1>3, <1>4, <1>5, <1>6 DEF TriageRow

LEMMA OutsideGood ==
  ASSUME NEW r \in Record, CapsHold(r), NEW e \in Event, NEW x, OutsideRow(x, r, e),
         x \notin Refills \cup {"E6"}
  PROVE  Good(RowMakes(x, r, e), r)
<1>1. r.state \in LiveStates BY DEF OutsideRow
<1>2. CASE x \in {"E1", "E2", "E5"} BY <1>1, <1>2, CloseGood DEF RowMakes, Whys
<1>3. CASE x = "E3"
  <2>1. Good(Close(r, "merged-by-hand"), r) BY <1>1, CloseGood DEF Whys
  <2> QED BY <1>3, <2>1, MarkGood DEF RowMakes, Good
<1>4. CASE x = "E4"
  <2>1. Good(Park(r, SameTarget(r)), r) BY <1>1, <1>4, TargetGood DEF OutsideRow
  <2> QED BY <1>4, <2>1, MarkGood DEF RowMakes, Good
<1> QED BY <1>2, <1>3, <1>4 DEF OutsideRow, Refills

(* Every row but a refill and a waiting record's nudge leaves the life less to
   do (v2/table.ts): the measure that WindsDown reads. *)
THEOREM TableWindsDown ==
  ASSUME NEW r \in Record, CapsHold(r), NEW e \in Event, NEW x \in Hits(r, e),
         x \notin Refills \cup {"E6"}
  PROVE  Less(NextRecord(r, x, e), r)
<1> DEFINE n == Normal(r, e)
<1>1. n \in Event /\ When(x, r, n) BY NormalEvent, HitWhen
<1> HIDE DEF n
<1>2. Good(RowMakes(x, r, n), r)
  BY <1>1, StepGood, FixGood, UnknownGood, TriageGood, OutsideGood DEF When, Refills
<1> QED BY <1>2 DEF Good, NextRecord, n

LEMMA RefillKeeps ==
  ASSUME NEW r \in Record, CapsHold(r)
  PROVE  /\ LET q == [Enter(r, "reviewing") EXCEPT !.approved = FALSE] IN q \in Record /\ CapsHold(q)
         /\ r.state = "waiting" => Cleared(r) \in Record /\ CapsHold(Cleared(r))
         /\ Unparked(r) \in Record /\ CapsHold(Unparked(r))
<1>1. /\ "reviewing" \in States /\ "queued" \in States /\ "queued" \in HeldStates
      /\ "reviewing" \notin HeldStates /\ "designing" \in StepStates
  BY DEF States, LiveStates, StepStates, HeldStates
<1>2. LET q == [Enter(r, "reviewing") EXCEPT !.approved = FALSE] IN q \in Record /\ CapsHold(q)
  <2> DEFINE q == [Enter(r, "reviewing") EXCEPT !.approved = FALSE]
  <2>1. /\ q \in Record /\ q.state = "reviewing" /\ q.triages = r.triages /\ q.fixes = r.fixes
        /\ q.conflicts = r.conflicts /\ q.resumeTo = "none"
    <3> DEFINE p == Enter(r, "reviewing")
    <3>1. /\ p \in Record /\ p.state = "reviewing" /\ p.triages = r.triages /\ p.fixes = r.fixes
          /\ p.conflicts = r.conflicts /\ p.resumeTo = "none" BY <1>1, EnterRecord
    <3> HIDE DEF p
    <3>2. [p EXCEPT !.approved = FALSE] \in Record BY <3>1 DEF Record
    <3>3. q = [p EXCEPT !.approved = FALSE] BY DEF p
    <3> QED BY <3>1, <3>2, <3>3 DEF Record
  <2> HIDE DEF q
  <2>2. CapsHold(q) BY <2>1 DEF CapsHold
  <2> QED BY <2>1, <2>2 DEF q
<1>3. r.state = "waiting" => Cleared(r) \in Record /\ CapsHold(Cleared(r))
  <2> SUFFICES ASSUME r.state = "waiting" PROVE Cleared(r) \in Record /\ CapsHold(Cleared(r)) OBVIOUS
  <2> DEFINE q == Cleared(r)
  <2>1. Resume(r) = "designing" BY DEF CapsHold, Resume
  <2>2. /\ q \in Record /\ q.state = "queued" /\ q.triages = 0 /\ q.fixes = r.fixes
        /\ q.conflicts = r.conflicts /\ q.resumeTo = "designing"
    <3> DEFINE p == Enter(r, "queued")
    <3>1. /\ p \in Record /\ p.state = "queued" /\ p.fixes = r.fixes /\ p.conflicts = r.conflicts
      BY <1>1, EnterRecord
    <3> HIDE DEF p
    <3>2. [p EXCEPT !.resumeTo = "designing", !.triages = 0] \in Record BY <1>1, <3>1 DEF Record
    <3>3. q = [p EXCEPT !.resumeTo = "designing", !.triages = 0] BY <2>1 DEF p, Cleared
    <3> QED BY <3>1, <3>2, <3>3 DEF Record
  <2> HIDE DEF q
  <2>3. CapsHold(q) BY <1>1, <2>2, CapsAssumption DEF CapsHold
  <2> QED BY <2>2, <2>3 DEF q
<1>4. Unparked(r) \in Record /\ CapsHold(Unparked(r))
  <2> DEFINE q == Unparked(r)
  <2>1. /\ q \in Record /\ q.state = "queued" /\ q.triages = 0 /\ q.fixes = 0 /\ q.conflicts = 0
    <3> DEFINE p == Enter(r, "queued")
               s == [p EXCEPT !.triages = 0, !.fixes = 0, !.conflicts = 0, !.env = FALSE]
    <3>1. p \in Record /\ p.state = "queued" BY <1>1, EnterRecord
    <3>2. q = s BY DEF Unparked
    <3> HIDE DEF p
    <3>3. s \in Record BY <3>1 DEF Record
    <3>4. s.state = "queued" /\ s.triages = 0 /\ s.fixes = 0 /\ s.conflicts = 0 BY <3>1 DEF Record
    <3> QED BY <3>2, <3>3, <3>4
  <2> HIDE DEF q
  <2>2. CapsHold(q) BY <1>1, <2>1, CapsAssumption, FixBoundFacts DEF CapsHold
  <2> QED BY <2>1, <2>2 DEF q
<1> QED BY <1>2, <1>3, <1>4

(* Every row keeps the record's type and its counters within their caps. *)
THEOREM TableKeepsCaps ==
  ASSUME NEW r \in Record, CapsHold(r), NEW e \in Event, NEW x \in Hits(r, e)
  PROVE  NextRecord(r, x, e) \in Record /\ CapsHold(NextRecord(r, x, e))
<1> DEFINE n == Normal(r, e)
<1>1. n \in Event /\ When(x, r, n) BY NormalEvent, HitWhen
<1> HIDE DEF n
<1>2. CASE x \notin Refills \cup {"E6"}
  <2>1. Good(RowMakes(x, r, n), r)
    BY <1>1, <1>2, StepGood, FixGood, UnknownGood, TriageGood, OutsideGood DEF When, Refills
  <2> QED BY <2>1 DEF Good, NextRecord, n
<1>3. CASE x = "T14" BY <1>3, RefillKeeps DEF NextRecord, RowMakes, n
<1>4. CASE x = "C1"
  <2>1. r.state = "waiting"
    BY <1>1, <1>4 DEF When, StepRow, FixRow, UnknownRow, TriageRow, OutsideRow
  <2> QED BY <1>4, <2>1, RefillKeeps DEF NextRecord, RowMakes, n
<1>5. CASE x = "P1" BY <1>5, RefillKeeps DEF NextRecord, RowMakes, n
<1>6. CASE x = "E6" BY <1>6 DEF NextRecord, RowMakes
<1> QED BY <1>2, <1>3, <1>4, <1>5, <1>6 DEF Refills

-----------------------------------------------------------------------------
(* A row that keeps the state is the answer of a step that ran: no row of what
   happens outside it, and none of a queued record, does. *)
LEMMA SameStateRows ==
  ASSUME NEW r \in Record, CapsHold(r), NEW e \in Event, e.kind # "timeout", NEW x \in Hits(r, e),
         NextRecord(r, x, e).state = r.state
  PROVE  e.kind \in {"ok", "not-ok", "unknown", "triage"} /\ r.state # "queued"
<1> DEFINE n == Normal(r, e)
<1>1. n \in Event /\ When(x, r, n) BY NormalEvent, HitWhen
<1>2. n.kind = e.kind \/ (n.kind = "unknown" /\ e.kind = "not-ok") BY DEF Normal
<1>3. RowMakes(x, r, n).state = r.state BY DEF NextRecord
<1> HIDE DEF n
<1>4. ~OutsideRow(x, r, n)
  <2> SUFFICES ASSUME OutsideRow(x, r, n) PROVE FALSE OBVIOUS
  <2>0. r.state \in LiveStates /\ r.state # "closed" /\ n.kind # "timeout" /\ "closed" \in States
    BY <1>2 DEF OutsideRow, LiveStates, StepStates, HeldStates, States
  <2>1. CASE x \in {"E1", "E2", "E3", "E5"}
    <3>1. \A w \in Whys : Close(r, w) \in Record /\ Close(r, w).state = "closed"
      BY <2>0, EnterRecord DEF Close, Record
    <3>2. RowMakes(x, r, n).state = "closed" BY <2>1, <3>1 DEF RowMakes, Whys, Record
    <3> QED BY <1>3, <2>0, <3>2
  <2>2. CASE x = "E4"
    <3>1. r.state # "parked" BY <2>2 DEF OutsideRow
    <3>2. Park(r, SameTarget(r)) \in Record /\ Park(r, SameTarget(r)).state = "parked"
      BY <2>0, <3>1, TargetTypes, ParkRecord
    <3> QED BY <1>3, <2>2, <3>1, <3>2 DEF RowMakes, Record
  <2>3. CASE x \in {"C1", "P1"}
    <3>1. r.state \in {"parked", "waiting"} BY <2>3 DEF OutsideRow
    <3>2. "queued" \in States BY DEF States, LiveStates, HeldStates
    <3>3. Cleared(r).state = "queued" /\ Unparked(r).state = "queued"
      BY <3>2, EnterRecord DEF Cleared, Unparked, Record
    <3> QED BY <1>3, <2>3, <3>1, <3>3 DEF RowMakes
  <2> QED BY <2>0, <2>1, <2>2, <2>3 DEF OutsideRow
<1>5. e.kind \in {"ok", "not-ok", "unknown", "triage"} BY <1>1, <1>2, <1>4, ClassFacts DEF When
<1>6. r.state # "queued"
  <2> SUFFICES ASSUME r.state = "queued" PROVE FALSE OBVIOUS
  <2>1. StepRow(x, r, n) /\ x = "T1"
    BY <1>1, <1>4 DEF When, FixRow, UnknownRow, TriageRow, StepRow, StepStates
  <2>2. Resume(r) \in StepStates BY FieldTypes DEF Resume, StepStates
  <2>3. Resume(r) \in States /\ Resume(r) # "queued" BY <2>2 DEF States, LiveStates, StepStates
  <2>4. Leased(r).state = Resume(r) BY <2>3, EnterRecord, FixingRecord DEF Leased
  <2> QED BY <1>3, <2>1, <2>3, <2>4 DEF RowMakes
<1> QED BY <1>5, <1>6

-----------------------------------------------------------------------------
(* A record over its life. *)

Prs == [st : {"none", "open", "closed", "merged", "landed"}, at : Nat, known : BOOLEAN, issueFirst : BOOLEAN]
Issues == [open : BOOLEAN, label : States \cup {"none"}]
Ledgers == [log : {"todo", "done", "out"}, stop : {"no", "done", "failed"}, label : {"todo", "done", "out"}]
StepEntries == [st : {"none", "running", "done"},
                ev : {e \in Event : e.kind \in {"ok", "not-ok", "unknown", "triage"}}]

(* The plan in hand was made on the record as it is: only its own last action
   changes the record. *)
MoveFits ==
    plan.move.row # "none" => plan.move.ev \in Event /\ plan.move.row \in Hits(rec, plan.move.ev)

IInv ==
    /\ rec \in Record /\ CapsHold(rec)
    /\ ledger \in Ledgers /\ step \in StepEntries /\ old \in BOOLEAN /\ unseen \in BOOLEAN
    /\ pr \in Prs /\ issue \in Issues
    /\ prSeen \in Nat /\ prSeen <= pr.at
    /\ plan = [todo |-> plan.todo, move |-> plan.move, checked |-> plan.checked]
    /\ plan.move.close \in Nat /\ plan.move.close <= pr.at
    /\ MoveFits
    /\ outside \in 0..MaxOutside

-----------------------------------------------------------------------------
LEMMA EvEvent == \A k \in Kinds : Ev(k) \in Event
BY DEF Ev, Event, Tags

LEMMA KindFacts == {"ok", "unpark", "cleared", "unknown", "pr-merged", "issue-closed", "drop", "pr-closed"} \subseteq Kinds
BY DEF Kinds

LEMMA EarlyEvent == \A k \in Kinds : EarlyEv[k] \in Event
BY DEF EarlyEv, Event, Tags

LEMMA LaterEvent ==
  ASSUME step \in StepEntries, NEW r, NEW e \in LaterEvents(r)
  PROVE  e \in Event
<1>1. CASE rec.state \in {"parked", "waiting"}
  BY <1>1, EvEvent, KindFacts DEF LaterEvents
<1>2. CASE rec.state \notin {"parked", "waiting"}
  <2>1. e \in StepEvents BY <1>2 DEF LaterEvents
  <2>2. \A f \in BOOLEAN : [Ev("unknown") EXCEPT !.flag = f] \in Event
    BY KindFacts DEF Ev, Event, Tags
  <2>3. step.ev \in Event BY DEF StepEntries
  <2> QED BY <2>1, <2>2, <2>3, EvEvent, KindFacts DEF StepEvents
<1> QED BY <1>1, <1>2

LEMMA InitInv == Init => IInv
<1> SUFFICES ASSUME Init PROVE IInv OBVIOUS
<1>1. rec \in Record /\ rec.state = "queued" /\ rec.triages = 0 /\ rec.fixes = 0 /\ rec.conflicts = 0
      /\ rec.resumeTo = "none"
  BY DEF Init, Made, Record, States, LiveStates, StepStates, HeldStates, Steps, Whys
<1>2. CapsHold(rec) BY <1>1, CapsAssumption, FixBoundFacts DEF CapsHold
<1>3. step \in StepEntries BY EvEvent, KindFacts DEF Init, NoStep, StepEntries, Ev
<1>4. pr \in Prs /\ issue \in Issues /\ ledger \in Ledgers /\ prSeen = 0 /\ pr.at = 0 /\ outside = 0
      /\ old \in BOOLEAN /\ unseen \in BOOLEAN BY DEF Init, Prs, Issues, Ledgers
<1>5. plan = NoPlan BY DEF Init
<1>6. /\ plan = [todo |-> plan.todo, move |-> plan.move, checked |-> plan.checked]
      /\ plan.move.close = 0 /\ plan.move.row = "none" BY <1>5 DEF NoPlan, NoMove
<1> QED BY <1>1, <1>2, <1>3, <1>4, <1>6, BoundsAssumption DEF IInv, MoveFits

(* Planning leaves the record alone and makes a move that fits it. *)
LEMMA PassInv ==
  ASSUME IInv, NEW r, NEW todo, NEW move, Pass(r, todo, move), outside' \in 0..MaxOutside,
         move.close \in Nat, move.close <= pr.at,
         move.row # "none" => move.ev \in Event /\ move.row \in Hits(rec, move.ev)
  PROVE  IInv'
<1>1. plan'.todo = todo /\ plan'.move = move /\ plan'.checked = FALSE BY DEF Pass
<1>2. plan' = [todo |-> plan'.todo, move |-> plan'.move, checked |-> plan'.checked] BY <1>1 DEF Pass
<1>3. rec' = rec /\ UNCHANGED <<prSeen, ledger, step, old, unseen, pr, issue>> BY DEF Pass
<1>4. MoveFits' BY <1>1, <1>3 DEF MoveFits, Hits
<1> QED BY <1>1, <1>2, <1>3, <1>4 DEF IInv, CapsHold

LEMMA NoMoveFits == NoMove.row = "none" /\ NoMove.close = 0
BY DEF NoMove

LEMMA TakeInv ==
  ASSUME IInv, NEW r, NEW e \in Event, NEW trigger, NEW close \in Nat, close <= pr.at,
         Take(r, e, trigger, close), outside' \in 0..MaxOutside
  PROVE  IInv'
<1>1. pr.at \in Nat BY DEF IInv, Prs
<1>2. CASE Logged
  <2>1. PICK x \in Hits(rec, e) :
          Pass(r, Append(EntryItems, "move"),
               [row |-> x, ev |-> e, trigger |-> trigger, close |-> close, seen |-> pr.at])
    BY <1>2 DEF Take
  <2> QED BY <2>1, PassInv
<1>3. CASE ~Logged BY <1>1, <1>3, NoMoveFits, PassInv DEF Take
<1> QED BY <1>2, <1>3

LEMMA PlanInv == ASSUME IInv, Plan PROVE IInv'
<1>1. pr.at \in Nat /\ outside \in 0..MaxOutside /\ outside \in Nat BY BoundsAssumption DEF IInv, Prs
<1>2. ASSUME NEW r, NEW k \in Kinds, PlanEarly(r, k) PROVE IInv'
  <2>1. outside' \in 0..MaxOutside BY <1>1, <1>2 DEF PlanEarly
  <2>2. CASE Waits(k, r) BY <1>1, <1>2, <2>1, <2>2, NoMoveFits, PassInv DEF PlanEarly
  <2>3. CASE ~Waits(k, r)
    <3>1. Take(r, EarlyEv[k], "fact", IF k = "pr-closed" THEN pr.at ELSE 0) BY <1>2, <2>3 DEF PlanEarly
    <3> QED BY <1>1, <2>1, <3>1, EarlyEvent, TakeInv
  <2> QED BY <2>2, <2>3
<1>3. ASSUME NEW r, PlanLater(r) PROVE IInv'
  <2>1. PICK e \in LaterEvents(r) :
          /\ Take(r, e, IF rec.step \in {"none", "lease"} THEN "fact" ELSE step.st,
                  IF e.kind = "unpark" THEN UnparkClose ELSE 0)
          /\ outside' = outside + (IF e.kind = "cleared" THEN 1 ELSE 0)
    BY <1>3 DEF PlanLater
  <2>2. e \in Event BY LaterEvent DEF IInv
  <2>3. outside' \in 0..MaxOutside
    <3>1. CASE e.kind # "cleared" BY <1>1, <2>1, <3>1
    <3>2. CASE e.kind = "cleared"
      <4>1. rec.state \in {"parked", "waiting"}
        BY <2>2, <3>2 DEF LaterEvents, StepEvents, IInv, StepEntries, Ev
      <4>2. outside < MaxOutside BY <3>2, <4>1 DEF LaterEvents, Ev
      <4> QED BY <1>1, <2>1, <3>2, <4>2, BoundsAssumption
    <3> QED BY <3>1, <3>2
  <2>4. UnparkClose \in Nat /\ UnparkClose <= pr.at BY <1>1 DEF UnparkClose
  <2> QED BY <1>1, <2>1, <2>2, <2>3, <2>4, TakeInv
<1>4. ASSUME NEW r, PlanWork(r) PROVE IInv'
  <2>1. outside' \in 0..MaxOutside BY <1>1, <1>4 DEF PlanWork
  <2> QED BY <1>1, <1>4, <2>1, NoMoveFits, PassInv DEF PlanWork
<1>5. CASE rec.state = "closed"
  <2>1. Pass(read, EntryItems, NoMove) /\ outside' \in 0..MaxOutside BY <1>1, <1>5 DEF Plan
  <2> QED BY <1>1, <2>1, NoMoveFits, PassInv
<1>6. CASE rec.state # "closed"
  <2>1. PICK r \in Reads : \/ \E i \in Early(r) : PlanEarly(r, EarlyKinds[i])
                          \/ PlanLater(r) \/ PlanWork(r)
    BY <1>6 DEF Plan
  <2>2. \A i \in Early(r) : EarlyKinds[i] \in Kinds BY DEF Early, EarlyKinds, Kinds
  <2> QED BY <1>2, <1>3, <1>4, <2>1, <2>2
<1> QED BY <1>5, <1>6

-----------------------------------------------------------------------------
(* The plan's record of its actions and its move, as an action leaves it. *)
LEMMA DoneShape ==
  ASSUME IInv, Done
  PROVE  /\ plan' = [todo |-> plan'.todo, move |-> plan'.move, checked |-> plan'.checked]
         /\ plan'.move = plan.move \/ plan'.move = NoMove
BY DEF Done, IInv, NoPlan

LEMMA GivenUpTypes ==
  ASSUME IInv, GivenUp
  PROVE  step' \in StepEntries /\ unseen' \in BOOLEAN /\ step'.st = "done"
<1>1. PICK f \in BOOLEAN : step' = [st |-> "done", ev |-> [Ev("unknown") EXCEPT !.flag = f]]
  BY DEF GivenUp
<1>2. [Ev("unknown") EXCEPT !.flag = f] \in Event /\ [Ev("unknown") EXCEPT !.flag = f].kind = "unknown"
  BY KindFacts DEF Ev, Event, Tags
<1>3. step' \in StepEntries /\ step'.st = "done" BY <1>1, <1>2 DEF StepEntries
<1>4. unseen' \in BOOLEAN BY DEF GivenUp, IInv
<1> QED BY <1>3, <1>4

(* A step that keeps the record keeps the invariant if it keeps the types. *)
LEMMA KeepInv ==
  ASSUME IInv, rec' = rec, prSeen' = prSeen,
         ledger' \in Ledgers, step' \in StepEntries, old' \in BOOLEAN, unseen' \in BOOLEAN, pr' \in Prs, pr.at <= pr'.at,
         issue' \in Issues, outside' \in 0..MaxOutside,
         plan' = [todo |-> plan'.todo, move |-> plan'.move, checked |-> plan'.checked],
         plan'.move = plan.move \/ plan'.move = NoMove
  PROVE  IInv'
<1>1. prSeen' \in Nat /\ prSeen' <= pr'.at /\ plan'.move.close \in Nat /\ plan'.move.close <= pr'.at
  BY NoMoveFits DEF IInv, Prs
<1>2. MoveFits' BY NoMoveFits DEF IInv, MoveFits, Hits
<1> QED BY <1>1, <1>2 DEF IInv, CapsHold

LEMMA OutsideType == ASSUME IInv, Outside PROVE outside' \in 0..MaxOutside
BY BoundsAssumption DEF IInv, Outside

LEMMA NoPlanShape ==
  /\ NoPlan = [todo |-> NoPlan.todo, move |-> NoPlan.move, checked |-> NoPlan.checked]
  /\ NoPlan.move = NoMove
BY DEF NoPlan

LEMMA ExecInv == ASSUME IInv, ExecLog \/ ExecStop \/ ExecLabel \/ ExecStart \/ Started \/ CheckMove PROVE IInv'
<1> USE DEF IInv
<1>1. CASE ExecLog
  <2>1. ledger' \in Ledgers BY <1>1 DEF ExecLog, Ledgers
  <2> QED BY <1>1, <2>1, DoneShape, OutsideType, KeepInv DEF ExecLog, Prs
<1>2. CASE ExecStop
  <2>1. ledger' \in Ledgers /\ old' \in BOOLEAN BY <1>2 DEF ExecStop, Ledgers
  <2> QED BY <1>2, <2>1, DoneShape, OutsideType, KeepInv DEF ExecStop, Prs
<1>3. CASE ExecLabel
  <2>1. ledger' \in Ledgers BY <1>3 DEF ExecLabel, Ledgers
  <2>2. LabelOf(rec.state) \in States \cup {"none"} BY FieldTypes DEF LabelOf
  <2>3. issue' \in Issues BY <1>3, <2>2 DEF ExecLabel, Issues
  <2> QED BY <1>3, <2>1, <2>3, DoneShape, OutsideType, KeepInv DEF ExecLabel, Prs
<1>4. CASE ExecStart
  <2>1. step' \in StepEntries BY <1>4, EvEvent, KindFacts DEF ExecStart, StepEntries, Ev
  <2>2. pr' \in Prs /\ pr'.at = pr.at BY <1>4 DEF ExecStart, Prs
  <2> QED BY <1>4, <2>1, <2>2, KeepInv DEF ExecStart, Prs
<1>6. CASE Started BY <1>6, DoneShape, KeepInv DEF Started, Prs
<1>5. CASE CheckMove
  <2>1. /\ plan' = [todo |-> plan'.todo, move |-> plan'.move, checked |-> plan'.checked]
        /\ plan'.move = plan.move \/ plan'.move = NoMove BY <1>5, NoPlanShape DEF CheckMove
  <2> QED BY <1>5, <2>1, KeepInv DEF CheckMove, Prs
<1> QED BY <1>1, <1>2, <1>3, <1>4, <1>5, <1>6

(* The write applies a row that fits the record, so the table's theorems hold
   of the step. *)
LEMMA MoveMakes ==
  ASSUME IInv
  PROVE  LET to == NextRecord(rec, plan.move.row, plan.move.ev)
         IN  to \in Record /\ CapsHold(to)
             /\ (plan.move.row \in Refills \/ to = rec \/ Less(to, rec))
<1> DEFINE x == plan.move.row  e == plan.move.ev
<1>1. CASE x = "none" BY <1>1 DEF IInv, NextRecord, RowMakes
<1>2. CASE x # "none"
  <2>1. e \in Event /\ x \in Hits(rec, e) /\ rec \in Record /\ CapsHold(rec) BY <1>2 DEF IInv, MoveFits
  <2>2. CASE x = "E6" BY <2>1, <2>2 DEF NextRecord, RowMakes
  <2>3. CASE x # "E6" BY <2>1, <2>3, TableKeepsCaps, TableWindsDown
  <2> QED BY <2>2, <2>3
<1> QED BY <1>1, <1>2

LEMMA WriteInv == ASSUME IInv, WriteMove PROVE IInv'
<1> DEFINE to == NextRecord(rec, plan.move.row, plan.move.ev)
<1>1. to \in Record /\ CapsHold(to) BY MoveMakes
<1>2. plan' = NoPlan /\ UNCHANGED <<unseen, pr, issue>> BY DEF WriteMove
<1>3. MoveFits' BY <1>2, NoPlanShape, NoMoveFits DEF MoveFits
<1>4. /\ plan' = [todo |-> plan'.todo, move |-> plan'.move, checked |-> plan'.checked]
      /\ plan'.move.close = 0 BY <1>2, NoPlanShape, NoMoveFits
<1>5. CASE UNCHANGED outside /\ Moved(to)
  <2>1. rec' = to /\ prSeen' \in Nat /\ prSeen' <= pr.at /\ outside' \in 0..MaxOutside
    BY <1>5 DEF Moved, IInv, Prs
  <2>2. ledger' \in Ledgers BY <1>5 DEF Moved, Ledgers, LabelDue
  <2>3. step' \in StepEntries BY <1>5, EvEvent, KindFacts DEF Moved, NoStep, StepEntries, Ev
  <2>4. old' \in BOOLEAN /\ unseen' \in BOOLEAN BY <1>2, <1>5 DEF Moved, IInv
  <2>5. CapsHold(rec)' BY <1>1, <2>1 DEF CapsHold
  <2>6. pr'.at = pr.at /\ pr' \in Prs /\ pr.at \in Nat /\ issue' \in Issues BY <1>2 DEF IInv, Prs
  <2> QED BY <1>1, <1>3, <1>4, <2>1, <2>2, <2>3, <2>4, <2>5, <2>6 DEF IInv
<1>6. CASE Outside /\ UNCHANGED <<rec, prSeen, ledger, step, old>>
  BY <1>2, <1>4, <1>6, NoPlanShape, OutsideType, KeepInv DEF IInv, Prs
<1> HIDE DEF to
<1> QED BY <1>5, <1>6 DEF WriteMove, to

LEMMA StepResultsType == \A e \in StepResults : e \in Event /\ e.kind \in {"ok", "not-ok", "unknown", "triage"}
BY BoundsAssumption DEF StepResults

LEMMA OthersInv == ASSUME IInv, StepEnds \/ OldEnds \/ UnseenEnds \/ Elsewhere PROVE IInv'
<1> USE DEF IInv
<1>0. pr.at \in Nat /\ pr'.at = pr'.at BY DEF Prs
<1>1. CASE StepEnds
  <2>1. PICK e \in StepResults :
          /\ step' = [st |-> "done", ev |-> e]
          /\ IF e.tag = "patch" THEN Outside ELSE UNCHANGED outside
          /\ pr' = IF e.kind = "ok" /\ rec.step = "queue" THEN [pr EXCEPT !.st = "landed"] ELSE pr
    BY <1>1 DEF StepEnds
  <2>2. step' \in StepEntries BY <2>1, StepResultsType DEF StepEntries
  <2>3. pr' \in Prs /\ pr'.at = pr.at BY <2>1 DEF Prs
  <2>4. outside' \in 0..MaxOutside BY <2>1, OutsideType
  <2> QED BY <1>0, <1>1, <2>2, <2>3, <2>4, KeepInv DEF StepEnds
<1>2. CASE OldEnds
  <2>1. /\ old' \in BOOLEAN /\ rec' = rec /\ prSeen' = prSeen /\ ledger' = ledger /\ step' = step
        /\ pr' = pr /\ issue' = issue /\ outside' = outside /\ plan' = plan /\ unseen' = unseen BY <1>2 DEF OldEnds
  <2> QED BY <1>0, <2>1, KeepInv
<1>3. CASE Reload
  <2>1. step' \in StepEntries /\ unseen' \in BOOLEAN
    BY <1>3, GivenUpTypes DEF Reload
  <2> QED BY <1>0, <1>3, <2>1, OutsideType, NoPlanShape, KeepInv DEF Reload
<1>10. CASE SpawnFails
  <2>1. NoStep \in StepEntries BY EvEvent, KindFacts DEF NoStep, StepEntries, Ev
  <2>2. step' \in StepEntries /\ unseen' \in BOOLEAN
    BY <1>10, <2>1, GivenUpTypes DEF SpawnFails
  <2> QED BY <1>0, <1>10, <2>2, OutsideType, DoneShape, KeepInv DEF SpawnFails
<1>11. CASE UnseenEnds
  <2>1. /\ unseen' \in BOOLEAN /\ rec' = rec /\ prSeen' = prSeen /\ ledger' = ledger /\ step' = step
        /\ pr' = pr /\ issue' = issue /\ outside' = outside /\ plan' = plan /\ old' = old BY <1>11 DEF UnseenEnds
  <2> QED BY <1>0, <2>1, KeepInv
<1>4. CASE OwnerDrops BY <1>0, <1>4, OutsideType, KeepInv DEF OwnerDrops
<1>5. CASE OwnerResumes BY <1>0, <1>5, OutsideType, KeepInv DEF OwnerResumes
<1>6. CASE OwnerUnlabels
  <2>1. issue' \in Issues BY <1>6 DEF OwnerUnlabels, Issues
  <2> QED BY <1>0, <1>6, <2>1, OutsideType, KeepInv DEF OwnerUnlabels
<1>7. CASE OwnerRetries
  <2>1. ledger' \in Ledgers BY <1>7 DEF OwnerRetries, Ledgers
  <2> QED BY <1>0, <1>7, <2>1, OutsideType, KeepInv DEF OwnerRetries
<1>8. ASSUME NEW st \in {"closed", "merged"}, PrByHand(st) PROVE IInv'
  <2>1. (~issue.open) \in BOOLEAN BY DEF Issues
  <2>2. (IF st = "closed" THEN pr.at + 1 ELSE pr.at) \in Nat BY <1>0
  <2>3. pr' = [pr EXCEPT !.st = st, !.at = IF st = "closed" THEN @ + 1 ELSE @, !.issueFirst = ~issue.open]
    BY <1>8 DEF PrByHand
  <2>4. pr' \in Prs BY <2>1, <2>2, <2>3 DEF Prs
  <2>5. pr.at <= pr'.at BY <1>0, <2>3 DEF Prs
  <2> QED BY <1>8, <2>4, <2>5, OutsideType, KeepInv DEF PrByHand
<1>9. CASE IssueByHand
  <2>1. issue' \in Issues BY <1>9 DEF IssueByHand, Issues
  <2> QED BY <1>0, <1>9, <2>1, OutsideType, KeepInv DEF IssueByHand
<1> QED BY <1>1, <1>2, <1>3, <1>4, <1>5, <1>6, <1>7, <1>8, <1>9, <1>10, <1>11 DEF Elsewhere

LEMMA NextInv == ASSUME IInv, [Next]_vars PROVE IInv'
<1>1. CASE UNCHANGED vars
  BY <1>1 DEF IInv, vars, MoveFits, CapsHold, Hits
<1>2. CASE Next BY <1>2, PlanInv, ExecInv, WriteInv, OthersInv DEF Next, Exec
<1> QED BY <1>1, <1>2

THEOREM Invariance == Spec => []IInv
<1> QED BY InitInv, NextInv, PTL DEF Spec

(* The record's type holds and no counter passes its cap, whatever its life's
   agents, owner, GitHub and faults do (v2/table.ts, v2/rules-state.ts). *)
THEOREM TypeCorrect == Spec => []TypeOK
<1>1. IInv => TypeOK
  BY DEF IInv, TypeOK, Ledgers, StepEntries, Prs, Issues, MoveFits
<1> QED BY <1>1, Invariance, PTL

(* The record changes in one way only: by a transition's write. *)
LEMMA OnlyWrites ==
  ASSUME IInv, [Next]_vars
  PROVE  rec' = rec \/ (WriteMove /\ rec' = NextRecord(rec, plan.move.row, plan.move.ev))
<1>1. CASE Plan BY <1>1 DEF Plan, PlanEarly, PlanLater, PlanWork, Take, Pass
<1>2. CASE WriteMove BY <1>2 DEF WriteMove, Moved
<1>3. CASE ExecLog \/ ExecStop \/ ExecLabel \/ ExecStart \/ Started \/ CheckMove \/ StepEnds \/ OldEnds \/ UnseenEnds \/ Elsewhere
  BY <1>3 DEF ExecLog, ExecStop, ExecLabel, ExecStart, Started, CheckMove, StepEnds, OldEnds, UnseenEnds,
              Elsewhere, SpawnFails, Reload,
              OwnerDrops, OwnerResumes, OwnerUnlabels, OwnerRetries, PrByHand, IssueByHand
<1>4. CASE UNCHANGED vars BY <1>4 DEF vars
<1> QED BY <1>1, <1>2, <1>3, <1>4 DEF Next, Exec

(* Every transition but a refill leaves the life less to do, for any caps,
   outcomes and happenings: attempts, states, fix rounds and triages cannot feed
   each other. *)
THEOREM LifeWindsDown == Spec => WindsDown
<1>1. ASSUME IInv, [Next]_vars
      PROVE  rec' = rec \/ plan.move.row \in Refills \/ Less(rec', rec)
  BY <1>1, OnlyWrites, MoveMakes
<1>2. IInv /\ [Next]_vars => [plan.move.row \in Refills \/ Less(rec', rec)]_rec
  BY <1>1
<1> QED BY <1>2, Invariance, PTL DEF Spec, WindsDown

-----------------------------------------------------------------------------
(* The order of a plan's actions: the step's start stands alone and was planned
   with the entry actions done; the label is planned once, and while it is to do. *)
Actions == {"log", "stop", "label", "move", "start"}
Fits(todo, row) ==
    /\ todo \in Seq(Actions)
    /\ \A i \in 1..Len(todo) :
          /\ todo[i] = "start" => EntryDone /\ Len(todo) = 1 /\ row = "none"
          /\ todo[i] = "label" => ledger.label = "todo"
          /\ todo[i] = "move" => row # "none"
          /\ \A j \in 1..Len(todo) : todo[i] = "label" /\ todo[j] = "label" => i = j
TodoFits == Fits(plan.todo, plan.move.row)

(* A step's own event is only there once the step started, which the label's
   write precedes. *)
StepKinds == {"ok", "not-ok", "unknown", "triage"}
StepFits ==
    /\ step.st # "none" => ledger.label = "done"
    /\ plan.move.row # "none" /\ plan.move.ev.kind \in StepKinds /\ rec.state # "queued" => step.st # "none"
    /\ plan.move.ev.kind # "timeout"

Labelled == issue.label = LabelOf(rec.state) \/ (rec.state = "parked" /\ issue.label = "none")

LInv ==
    /\ IInv /\ TodoFits /\ StepFits
    /\ ledger.label = "done" => Labelled
    /\ ledger.stop = "done" => ~old
    /\ old /\ step.st = "running" => ledger.stop = "failed"

LEMMA IfSeq ==
  ASSUME NEW c \in BOOLEAN, NEW a \in Actions
  PROVE  /\ If(c, a) \in Seq(Actions) /\ Len(If(c, a)) \in {0, 1}
         /\ \A i \in 1..Len(If(c, a)) : c /\ If(c, a)[i] = a
BY DEF If

LEMMA EntryItemsFits ==
  /\ EntryItems \in Seq(Actions)
  /\ \A i \in 1..Len(EntryItems) :
        /\ EntryItems[i] \in {"log", "stop", "label"}
        /\ EntryItems[i] = "label" => ledger.label = "todo" /\ i = Len(EntryItems)
<1> DEFINE a == If(ledger.log = "todo", "log")
           b == If(old /\ ledger.stop = "no", "stop")
           c == If(ledger.label = "todo", "label")
<1>1. /\ a \in Seq(Actions) /\ Len(a) \in {0, 1} /\ \A i \in 1..Len(a) : a[i] = "log"
      /\ b \in Seq(Actions) /\ Len(b) \in {0, 1} /\ \A i \in 1..Len(b) : b[i] = "stop"
      /\ c \in Seq(Actions) /\ Len(c) \in {0, 1} /\ \A i \in 1..Len(c) : ledger.label = "todo" /\ c[i] = "label"
  BY IfSeq DEF Actions
<1> HIDE DEF a, b, c
<1>2. EntryItems = (a \o b) \o c BY DEF EntryItems, a, b, c
<1>3. /\ a \o b \in Seq(Actions) /\ Len(a \o b) = Len(a) + Len(b)
      /\ \A i \in 1..Len(a \o b) : (a \o b)[i] \in {"log", "stop"}
  BY <1>1
<1> DEFINE d == a \o b
<1> HIDE DEF d
<1>4. /\ d \in Seq(Actions) /\ \A i \in 1..Len(d) : d[i] \in {"log", "stop"} BY <1>3 DEF d
<1>5. /\ d \o c \in Seq(Actions) /\ Len(d \o c) = Len(d) + Len(c)
      /\ \A i \in 1..Len(d \o c) : (d \o c)[i] = IF i <= Len(d) THEN d[i] ELSE c[i - Len(d)]
  BY <1>1, <1>4
<1>6. \A i \in 1..Len(d \o c) :
        /\ (d \o c)[i] \in {"log", "stop", "label"}
        /\ (d \o c)[i] = "label" => ledger.label = "todo" /\ i = Len(d \o c)
  BY <1>1, <1>4, <1>5
<1> QED BY <1>2, <1>5, <1>6 DEF d

LEMMA TodosFit ==   \* the three plans a pass makes
  ASSUME NEW t, NEW row, \/ t = EntryItems \/ (t = Append(EntryItems, "move") /\ row # "none")
                         \/ (t = <<"start">> /\ EntryDone /\ row = "none")
  PROVE  Fits(t, row)
<1>1. CASE t = EntryItems BY <1>1, EntryItemsFits DEF Fits
<1>2. CASE t = Append(EntryItems, "move") /\ row # "none"
  <2>1. /\ t \in Seq(Actions) /\ Len(t) = Len(EntryItems) + 1 /\ t[Len(t)] = "move"
        /\ \A i \in 1..Len(EntryItems) : t[i] = EntryItems[i]
    BY <1>2, EntryItemsFits DEF Actions
  <2> QED BY <2>1, EntryItemsFits DEF Fits
<1>3. CASE t = <<"start">> /\ EntryDone /\ row = "none" BY <1>3 DEF Actions, Fits
<1> QED BY <1>1, <1>2, <1>3

LEMMA InitL == Init => LInv
<1> SUFFICES ASSUME Init PROVE LInv OBVIOUS
<1>1. plan.todo = <<>> /\ plan.move.row = "none" /\ plan.move.ev.kind = "ok"
  BY DEF Init, NoPlan, NoMove, Ev
<1>2. step.st = "none" /\ ledger.label = "todo" /\ ledger.stop = "no" BY DEF Init, NoStep
<1>3. TodoFits BY <1>1 DEF TodoFits, Fits, Actions
<1> QED BY <1>1, <1>2, <1>3, InitInv DEF LInv, StepFits

LEMMA PassL ==
  ASSUME LInv, NEW r, NEW todo, NEW move, Pass(r, todo, move), IInv',
         \/ todo = EntryItems \/ (todo = Append(EntryItems, "move") /\ move.row # "none")
         \/ (todo = <<"start">> /\ EntryDone /\ move.row = "none"),
         move.ev.kind # "timeout",
         move.row # "none" /\ move.ev.kind \in StepKinds /\ rec.state # "queued" => step.st # "none"
  PROVE  LInv'
<1>1. plan'.todo = todo /\ plan'.move = move BY DEF Pass
<1>2. rec' = rec /\ ledger' = ledger /\ step' = step /\ old' = old /\ issue' = issue BY DEF Pass
<1>3. TodoFits'
  <2>1. Fits(todo, move.row) BY TodosFit
  <2>2. EntryDone => EntryDone' BY <1>2 DEF EntryDone, Logged
  <2> QED BY <1>1, <1>2, <2>1, <2>2 DEF TodoFits, Fits
<1>4. StepFits' BY <1>1, <1>2 DEF StepFits, LInv
<1> QED BY <1>2, <1>3, <1>4 DEF LInv, Labelled

LEMMA NoMoveKind == NoMove.ev.kind = "ok"
BY DEF NoMove, Ev

LEMMA TakeL ==
  ASSUME LInv, NEW r, NEW e, NEW trigger, NEW close, Take(r, e, trigger, close), IInv',
         e.kind # "timeout", e.kind \in StepKinds /\ rec.state # "queued" => step.st # "none"
  PROVE  LInv'
<1>1. CASE Logged
  <2>1. PICK x \in Hits(rec, e) :
          Pass(r, Append(EntryItems, "move"),
               [row |-> x, ev |-> e, trigger |-> trigger, close |-> close, seen |-> pr.at])
    BY <1>1 DEF Take
  <2>2. x # "none" BY DEF Hits, RowIds
  <2> QED BY <2>1, <2>2, PassL
<1>2. CASE ~Logged BY <1>2, NoMoveFits, NoMoveKind, PassL DEF Take
<1> QED BY <1>1, <1>2

LEMMA PlanL == ASSUME LInv, Plan PROVE LInv'
<1>0. IInv' BY PlanInv DEF LInv
<1>1. ASSUME NEW r, NEW i \in 1..4, PlanEarly(r, EarlyKinds[i]) PROVE LInv'
  <2>1. EarlyEv[EarlyKinds[i]].kind \notin StepKinds \cup {"timeout"}
    BY DEF EarlyEv, EarlyKinds, Kinds, StepKinds
  <2>2. CASE Waits(EarlyKinds[i], r) BY <1>0, <1>1, <2>2, NoMoveFits, NoMoveKind, PassL DEF PlanEarly
  <2>3. CASE ~Waits(EarlyKinds[i], r)
    BY <1>0, <1>1, <2>1, <2>3, TakeL DEF PlanEarly
  <2> QED BY <2>2, <2>3
<1>2. ASSUME NEW r, PlanLater(r) PROVE LInv'
  <2>1. PICK e \in LaterEvents(r) :
          Take(r, e, IF rec.step \in {"none", "lease"} THEN "fact" ELSE step.st,
               IF e.kind = "unpark" THEN UnparkClose ELSE 0)
    BY <1>2 DEF PlanLater
  <2>2. CASE rec.state \in {"parked", "waiting"}
    <3>1. e.kind \in {"unpark", "cleared"} BY <2>2 DEF LaterEvents, Ev
    <3> QED BY <1>0, <2>1, <3>1, TakeL DEF StepKinds
  <2>3. CASE rec.state \notin {"parked", "waiting"}
    <3>1. e \in StepEvents BY <2>3 DEF LaterEvents
    <3>2. step.ev.kind \in StepKinds BY DEF LInv, IInv, StepEntries, StepKinds
    <3>3. e.kind # "timeout" /\ (rec.state # "queued" => step.st # "none")
      BY <3>1, <3>2 DEF StepEvents, StepKinds, Ev
    <3> QED BY <1>0, <2>1, <3>3, TakeL
  <2> QED BY <2>2, <2>3
<1>3. ASSUME NEW r, PlanWork(r) PROVE LInv'
  BY <1>0, <1>3, NoMoveFits, NoMoveKind, PassL DEF PlanWork
<1>4. CASE rec.state = "closed" BY <1>0, <1>4, NoMoveFits, NoMoveKind, PassL DEF Plan
<1>5. CASE rec.state # "closed" BY <1>1, <1>2, <1>3, <1>5 DEF Plan, Early
<1> QED BY <1>4, <1>5

(* One action done leaves the rest of the plan, in which it does not come again. *)
LEMMA DoneFits ==
  ASSUME IInv, TodoFits, NEW a, Next1(a), Done
  PROVE  /\ plan'.todo \in Seq(Actions)
         /\ \A i \in 1..Len(plan'.todo) :
               /\ plan'.todo[i] # "start"
               /\ plan'.todo[i] = "label" => ledger.label = "todo" /\ a # "label"
               /\ plan'.todo[i] = "move" => plan'.move.row # "none"
               /\ \A j \in 1..Len(plan'.todo) : plan'.todo[i] = "label" /\ plan'.todo[j] = "label" => i = j
<1>1. /\ plan.todo \in Seq(Actions) /\ plan.todo # <<>> /\ plan.todo[1] = a
      /\ Len(plan.todo) \in Nat \ {0} BY DEF TodoFits, Fits, Next1
<1>2. CASE Len(plan.todo) = 1
  <2>1. plan'.todo = <<>> BY <1>2 DEF Done, NoPlan
  <2> QED BY <2>1
<1>3. CASE Len(plan.todo) # 1
  <2>1. plan'.todo = Tail(plan.todo) /\ plan'.move = plan.move BY <1>3 DEF Done, IInv
  <2>2. /\ Tail(plan.todo) \in Seq(Actions) /\ Len(Tail(plan.todo)) = Len(plan.todo) - 1
        /\ \A i \in 1..Len(Tail(plan.todo)) : Tail(plan.todo)[i] = plan.todo[i + 1] BY <1>1
  <2>3. \A i \in 1..Len(plan'.todo) : i + 1 \in 1..Len(plan.todo) /\ plan'.todo[i] = plan.todo[i + 1]
    BY <1>1, <2>1, <2>2
  <2>4. 1 \in 1..Len(plan.todo) BY <1>1
  <2>5. ASSUME NEW i \in 1..Len(plan'.todo) PROVE plan'.todo[i] # "start"
    BY <1>1, <1>3, <2>3 DEF TodoFits, Fits
  <2>6. ASSUME NEW i \in 1..Len(plan'.todo), plan'.todo[i] = "label"
        PROVE  ledger.label = "todo" /\ a # "label"
    <3>1. i + 1 # 1 BY <2>6
    <3> QED BY <1>1, <2>3, <2>4, <2>6, <3>1 DEF TodoFits, Fits
  <2>7. ASSUME NEW i \in 1..Len(plan'.todo), NEW j \in 1..Len(plan'.todo),
               plan'.todo[i] = "label", plan'.todo[j] = "label"
        PROVE  i = j
    <3>1. i + 1 = j + 1 BY <2>3, <2>7 DEF TodoFits, Fits
    <3> QED BY <3>1
  <2>8. ASSUME NEW i \in 1..Len(plan'.todo), plan'.todo[i] = "move" PROVE plan'.move.row # "none"
    BY <2>1, <2>3, <2>8 DEF TodoFits, Fits
  <2> QED BY <2>1, <2>2, <2>5, <2>6, <2>7, <2>8
<1> QED BY <1>2, <1>3

LEMMA DoneMove ==
  ASSUME IInv, StepFits, Done
  PROVE  plan'.move.ev.kind # "timeout"
         /\ (plan'.move.row # "none" => plan'.move = plan.move)
BY DoneShape, NoMoveKind, NoMoveFits DEF StepFits

LEMMA ExecL == ASSUME LInv, ExecLog \/ ExecStop \/ ExecLabel \/ ExecStart \/ Started \/ CheckMove PROVE LInv'
<1>0. IInv' BY ExecInv DEF LInv
<1>1. CASE ExecLog
  <2>1. /\ Next1("log") /\ Done /\ rec' = rec /\ step' = step /\ old' = old /\ issue' = issue
        /\ ledger'.label = ledger.label /\ ledger'.stop = ledger.stop
    BY <1>1 DEF ExecLog, LInv, IInv, Ledgers
  <2>2. TodoFits' BY <2>1, DoneFits DEF LInv, TodoFits, Fits
  <2>3. StepFits' BY <2>1, DoneMove DEF LInv, StepFits
  <2> QED BY <1>0, <2>1, <2>2, <2>3 DEF LInv, Labelled
<1>2. CASE ExecStop
  <2>1. /\ Next1("stop") /\ Done /\ rec' = rec /\ step' = step /\ issue' = issue
        /\ ledger'.label = ledger.label
        /\ \/ ledger'.stop = "done" /\ ~old'
           \/ ledger'.stop = "failed" /\ old' = old
    BY <1>2 DEF ExecStop, LInv, IInv, Ledgers
  <2>2. TodoFits' BY <2>1, DoneFits DEF LInv, TodoFits, Fits
  <2>3. StepFits' BY <2>1, DoneMove DEF LInv, StepFits
  <2> QED BY <1>0, <2>1, <2>2, <2>3 DEF LInv, Labelled
<1>3. CASE ExecLabel
  <2>1. /\ Next1("label") /\ Done /\ rec' = rec /\ step' = step /\ old' = old
        /\ ledger'.stop = ledger.stop
        /\ ledger'.label = "done" => issue'.label = LabelOf(rec.state)
    BY <1>3 DEF ExecLabel, LInv, IInv, Ledgers, Issues
  <2>2. ledger.label = "todo" BY <2>1 DEF Next1, LInv, TodoFits, Fits
  <2>3. step.st = "none" BY <2>2 DEF LInv, StepFits
  <2>4. TodoFits' BY <2>1, DoneFits DEF LInv, TodoFits, Fits
  <2>5. StepFits' BY <2>1, <2>3, DoneMove DEF LInv, StepFits
  <2> QED BY <1>0, <2>1, <2>3, <2>4, <2>5 DEF LInv, Labelled
<1>4. CASE ExecStart
  <2>1. /\ Next1("start") /\ rec' = rec /\ ledger' = ledger /\ old' = old /\ issue' = issue
        /\ step'.st = "running" /\ plan' = plan
    BY <1>4 DEF ExecStart
  <2>2. EntryDone /\ Len(plan.todo) = 1 BY <2>1 DEF Next1, LInv, TodoFits, Fits
  <2>3. TodoFits' BY <2>1 DEF LInv, TodoFits, Fits, EntryDone, Logged
  <2>4. StepFits' BY <2>1, <2>2 DEF LInv, StepFits, EntryDone
  <2>5. old => ledger.stop = "failed" BY <2>2 DEF EntryDone, LInv, IInv, Ledgers
  <2> QED BY <1>0, <2>1, <2>3, <2>4, <2>5 DEF LInv, Labelled
<1>5. CASE CheckMove
  <2>1. /\ rec' = rec /\ ledger' = ledger /\ step' = step /\ old' = old /\ issue' = issue
        /\ (plan'.todo = plan.todo /\ plan'.move = plan.move) \/ plan' = NoPlan
    BY <1>5 DEF CheckMove, LInv, IInv
  <2>2. NoPlan.todo = <<>> /\ NoPlan.move.row = "none" /\ NoPlan.move.ev.kind = "ok"
    BY NoMoveKind, NoMoveFits DEF NoPlan
  <2>3. TodoFits'
    <3>1. CASE plan'.todo = plan.todo /\ plan'.move = plan.move
      <4>1. EntryDone => EntryDone' BY <2>1 DEF EntryDone, Logged
      <4> QED BY <2>1, <3>1, <4>1 DEF LInv, TodoFits, Fits
    <3>2. CASE plan' = NoPlan
      <4>1. plan'.todo = <<>> BY <2>2, <3>2
      <4> QED BY <4>1 DEF TodoFits, Fits
    <3> QED BY <2>1, <3>1, <3>2
  <2>4. StepFits' BY <2>1, <2>2 DEF LInv, StepFits
  <2> QED BY <1>0, <2>1, <2>3, <2>4 DEF LInv, Labelled
<1>6. CASE Started
  <2>1. /\ Next1("start") /\ Done /\ rec' = rec /\ ledger' = ledger /\ old' = old /\ issue' = issue
        /\ step' = step
    BY <1>6 DEF Started, Starting
  <2>2. TodoFits' BY <2>1, DoneFits DEF LInv, TodoFits, Fits
  <2>3. StepFits' BY <2>1, DoneMove DEF LInv, StepFits
  <2> QED BY <1>0, <2>1, <2>2, <2>3 DEF LInv, Labelled
<1> QED BY <1>1, <1>2, <1>3, <1>4, <1>5, <1>6

LEMMA WriteL == ASSUME LInv, WriteMove PROVE LInv'
<1>0. IInv' BY WriteInv DEF LInv
<1>1. plan' = NoPlan /\ issue' = issue BY DEF WriteMove
<1>2. NoPlan.todo = <<>> /\ NoPlan.move.row = "none" /\ NoPlan.move.ev.kind = "ok"
  BY NoMoveKind, NoMoveFits DEF NoPlan
<1>3. TodoFits' BY <1>1, <1>2 DEF TodoFits, Fits
<1> DEFINE to == NextRecord(rec, plan.move.row, plan.move.ev)
<1>4. CASE Moved(to)
  <2>1. /\ rec' = to /\ ledger'.label = LabelDue(to) /\ ledger'.stop = "no" /\ step'.st = "none"
    BY <1>4 DEF Moved, NoStep
  <2>2. ledger'.label = "done" => to.state = rec.state BY <2>1 DEF LabelDue
  <2>3. to.state = rec.state => Labelled
    <3> SUFFICES ASSUME to.state = rec.state PROVE Labelled OBVIOUS
    <3>1. plan.move.row # "none" BY DEF WriteMove, Next1, LInv, TodoFits, Fits
    <3>2. plan.move.ev.kind \in StepKinds /\ rec.state # "queued"
      BY <3>1, SameStateRows DEF LInv, IInv, MoveFits, StepFits, StepKinds
    <3> QED BY <3>1, <3>2 DEF LInv, StepFits
  <2>4. ledger'.label = "done" => Labelled'
    BY <1>1, <2>1, <2>2, <2>3 DEF Labelled
  <2>5. StepFits' BY <1>1, <1>2, <2>1 DEF StepFits
  <2> HIDE DEF to
  <2> QED BY <1>0, <1>3, <2>1, <2>4, <2>5 DEF LInv
<1>5. CASE UNCHANGED <<rec, prSeen, ledger, step, old>>
  <2>1. StepFits' BY <1>1, <1>2, <1>5 DEF LInv, StepFits
  <2> QED BY <1>0, <1>1, <1>3, <1>5, <2>1 DEF LInv, Labelled
<1> HIDE DEF to
<1> QED BY <1>4, <1>5 DEF WriteMove, to

LEMMA OthersL == ASSUME LInv, StepEnds \/ OldEnds \/ UnseenEnds \/ Elsewhere PROVE LInv'
<1>0. IInv' BY OthersInv DEF LInv
<1>1. CASE StepEnds
  <2>1. /\ rec' = rec /\ ledger' = ledger /\ old' = old /\ issue' = issue /\ plan' = plan
        /\ step.st = "running" /\ step'.st = "done"
    BY <1>1 DEF StepEnds
  <2> QED BY <1>0, <2>1 DEF LInv, TodoFits, Fits, StepFits, Labelled, EntryDone, Logged
<1>2. CASE OldEnds
  <2>1. /\ rec' = rec /\ ledger' = ledger /\ ~old' /\ issue' = issue /\ plan' = plan /\ step' = step
    BY <1>2 DEF OldEnds
  <2> QED BY <1>0, <2>1 DEF LInv, TodoFits, Fits, StepFits, Labelled, EntryDone, Logged
<1>3. CASE Reload
  <2>1. /\ rec' = rec /\ ledger' = ledger /\ old' = old /\ issue' = issue /\ plan' = NoPlan
        /\ step' = step \/ (step.st = "running" /\ step'.st = "done")
    BY <1>3, GivenUpTypes DEF Reload, Starting, LInv
  <2>2. NoPlan.todo = <<>> /\ NoPlan.move.row = "none" /\ NoPlan.move.ev.kind = "ok"
    BY NoMoveKind, NoMoveFits DEF NoPlan
  <2>3. TodoFits' BY <2>1, <2>2 DEF TodoFits, Fits
  <2>4. StepFits' BY <2>1, <2>2 DEF LInv, StepFits
  <2> QED BY <1>0, <2>1, <2>3, <2>4 DEF LInv, Labelled
<1>4. CASE OwnerDrops \/ OwnerResumes \/ PrByHand("closed") \/ PrByHand("merged") \/ IssueByHand
  <2>1. /\ rec' = rec /\ ledger' = ledger /\ old' = old /\ plan' = plan /\ step' = step
        /\ issue'.label = issue.label
    BY <1>4 DEF OwnerDrops, OwnerResumes, PrByHand, IssueByHand, LInv, IInv, Issues
  <2> QED BY <1>0, <2>1 DEF LInv, TodoFits, Fits, StepFits, Labelled, EntryDone, Logged
<1>5. CASE OwnerUnlabels
  <2>1. /\ rec' = rec /\ ledger' = ledger /\ old' = old /\ plan' = plan /\ step' = step
        /\ rec.state = "parked" /\ issue'.label = "none"
    BY <1>5 DEF OwnerUnlabels, LInv, IInv, Issues
  <2> QED BY <1>0, <2>1 DEF LInv, TodoFits, Fits, StepFits, Labelled, EntryDone, Logged
<1>6. CASE OwnerRetries
  <2>1. /\ rec' = rec /\ old' = old /\ plan' = plan /\ step' = step /\ issue' = issue
        /\ ledger'.stop = ledger.stop
        /\ ledger'.log = IF ledger.log = "out" THEN "todo" ELSE ledger.log
        /\ ledger'.label = IF ledger.label = "out" THEN "todo" ELSE ledger.label
    BY <1>6 DEF OwnerRetries, LInv, IInv, Ledgers
  <2> QED BY <1>0, <2>1 DEF LInv, TodoFits, Fits, StepFits, Labelled, EntryDone, Logged
<1>7. CASE SpawnFails
  <2>1. /\ Next1("start") /\ Done /\ rec' = rec /\ ledger' = ledger /\ old' = old /\ issue' = issue
        /\ step.st = "running" /\ step'.st \in {"none", "done"}
    BY <1>7, GivenUpTypes DEF SpawnFails, Starting, LInv, NoStep
  <2>2. TodoFits' BY <2>1, DoneFits DEF LInv, TodoFits, Fits
  <2>3. plan'.move.row = "none" /\ plan'.move.ev.kind # "timeout"
    <3>1. Len(plan.todo) = 1 BY <2>1 DEF Next1, LInv, TodoFits, Fits
    <3> QED BY <2>1, <3>1, NoMoveFits, NoMoveKind, NoPlanShape DEF Done
  <2>4. StepFits' BY <2>1, <2>3 DEF LInv, StepFits
  <2> QED BY <1>0, <2>1, <2>2, <2>4 DEF LInv, Labelled
<1>8. CASE UnseenEnds
  <2>1. /\ rec' = rec /\ ledger' = ledger /\ old' = old /\ issue' = issue /\ plan' = plan /\ step' = step
    BY <1>8 DEF UnseenEnds
  <2> QED BY <1>0, <2>1 DEF LInv, TodoFits, Fits, StepFits, Labelled, EntryDone, Logged
<1> QED BY <1>1, <1>2, <1>3, <1>4, <1>5, <1>6, <1>7, <1>8 DEF Elsewhere

LEMMA NextL == ASSUME LInv, [Next]_vars PROVE LInv'
<1>1. CASE UNCHANGED vars
  <2>1. IInv' BY <1>1, NextInv DEF LInv
  <2> QED BY <1>1, <2>1 DEF LInv, vars, TodoFits, Fits, StepFits, Labelled, EntryDone, Logged
<1>2. CASE Next BY <1>2, PlanL, ExecL, WriteL, OthersL DEF Next, Exec
<1> QED BY <1>1, <1>2

THEOREM LabelInvariance == Spec => []LInv
<1> QED BY InitL, NextL, PTL DEF Spec

(* Once the seq's entry actions are done the issue carries the state's label, or
   none where the owner took the parked one off, for any caps, outcomes and
   happenings (v2/rules-entry.ts entryItems, entryDone). *)
THEOREM LabelIsRight == Spec => []LabelFollows
<1>1. LInv => LabelFollows BY DEF LInv, LabelFollows, EntryDone, Labelled
<1> QED BY <1>1, LabelInvariance, PTL

(* Of the agents that the ledger's entries name, two work at once only where the
   old one's stop failed, for any caps, outcomes and happenings, a start cut off by
   a reload among them (v2/rules-entry.ts stops).  An agent whose spawn was given
   up is named by no entry and is not spoken of here: MC_Records_unseen.cfg. *)
THEOREM OneAgentWorks == Spec => []OneAgent
<1>1. LInv => OneAgent BY DEF LInv, OneAgent
<1> QED BY <1>1, LabelInvariance, PTL

-----------------------------------------------------------------------------
(* What a row answers did happen: what the record knows of the owner's wish and
   of the PR's close, from the pass that reads it to the write. *)
Reading == [open : BOOLEAN, parked : BOOLEAN, afterLabel : BOOLEAN, afterClose : BOOLEAN, due : BOOLEAN]
Owning == [drop : BOOLEAN, resume : {"none", "new", "op"}]
DueTypes ==
    /\ read \in Reading /\ owner \in Owning
    /\ hist = [asked |-> hist.asked, due |-> hist.due, late |-> hist.late]
    /\ hist.asked \in BOOLEAN

(* An op of the owner, or a parked label that is gone from the issue or from a
   read made after it was written, is the owner's wish since the park. *)
AskedInv ==
    /\ owner.resume # "none" => hist.asked
    /\ rec.state = "parked" /\ ledger.label = "done" /\ issue.label # "parked" => hist.asked
    /\ read.afterLabel => ledger.label = "done" /\ (read.parked \/ hist.asked)

(* A read of the open issue after the PR's close says that the close came first. *)
CloseInv ==
    /\ pr.issueFirst => ~issue.open
    /\ read.afterClose /\ read.open => ~pr.issueFirst

(* What the plan's row answers is still so when it is written. *)
MoveDue ==
    /\ plan.move.row = "P1" => hist.asked
    /\ plan.move.row = "E4" => ~pr.issueFirst /\ pr.st # "open"
    /\ plan.checked /\ plan.move.trigger = "running" /\ step.st = "done" => hist.late

DueInv == LInv /\ DueTypes /\ AskedInv /\ CloseInv /\ MoveDue

(* The park's and the close's rows come of their own events alone. *)
LEMMA RowKind ==
  ASSUME NEW r \in Record, NEW e \in Event, NEW x \in Hits(r, e)
  PROVE  (x = "P1" => e.kind = "unpark") /\ (x = "E4" => e.kind = "pr-closed")
<1> DEFINE n == Normal(r, e)
<1>1. n \in Event /\ When(x, r, n) BY NormalEvent, HitWhen
<1>2. n.kind = e.kind \/ n.kind = "unknown" BY DEF Normal
<1> HIDE DEF n
<1>3. x \in {"P1", "E4"} => OutsideRow(x, r, n)
  BY <1>1 DEF When, StepRow, FixRow, UnknownRow, TriageRow
<1> QED BY <1>2, <1>3 DEF OutsideRow

LEMMA NoMoveDue == NoMove.row = "none" /\ NoPlan.move = NoMove /\ NoPlan.checked = FALSE
BY DEF NoMove, NoPlan

LEMMA InitDue == Init => DueInv
<1> SUFFICES ASSUME Init PROVE DueInv OBVIOUS
<1>1. DueTypes BY DEF Init, DueTypes, Reading, Owning
<1>2. AskedInv /\ CloseInv BY DEF Init, AskedInv, CloseInv
<1>3. MoveDue BY NoMoveDue DEF Init, MoveDue
<1> QED BY <1>1, <1>2, <1>3, InitL DEF DueInv

(* A read the pass goes by says no more than the issue did. *)
LEMMA ReadsDue ==
  ASSUME DueInv, NEW r \in Reads
  PROVE  /\ r \in Reading
         /\ r.afterLabel => ledger.label = "done" /\ (r.parked \/ hist.asked)
         /\ r.afterClose /\ r.open => ~pr.issueFirst
<1>1. CASE r = read BY <1>1 DEF DueInv, DueTypes, AskedInv, CloseInv
<1>2. CASE r = ReadNow
  <2>1. issue.open \in BOOLEAN BY DEF DueInv, LInv, IInv, Issues
  <2> QED BY <1>2, <2>1 DEF DueInv, AskedInv, CloseInv, ReadNow, Reading
<1> QED BY <1>1, <1>2 DEF Reads

LEMMA PassDue ==
  ASSUME DueInv, LInv', NEW r \in Reading, NEW todo, NEW move, Pass(r, todo, move),
         r.afterLabel => ledger.label = "done" /\ (r.parked \/ hist.asked),
         r.afterClose /\ r.open => ~pr.issueFirst,
         move.row = "P1" => hist.asked,
         move.row = "E4" => ~pr.issueFirst /\ pr.st # "open"
  PROVE  DueInv'
<1>1. /\ plan'.move = move /\ plan'.checked = FALSE /\ read' = r
      /\ UNCHANGED <<rec, ledger, step, pr, issue, hist>> BY DEF Pass
<1>2. owner' \in Owning /\ (owner'.resume # "none" => owner.resume # "none")
  BY DEF Pass, DueInv, DueTypes, Owning
<1>3. DueTypes' BY <1>1, <1>2 DEF DueInv, DueTypes
<1>4. AskedInv' /\ CloseInv' BY <1>1, <1>2 DEF DueInv, AskedInv, CloseInv
<1>5. MoveDue' BY <1>1 DEF MoveDue
<1> QED BY <1>3, <1>4, <1>5 DEF DueInv

LEMMA TakeDue ==
  ASSUME DueInv, LInv', NEW r \in Reading, NEW e \in Event, NEW trigger, NEW close, Take(r, e, trigger, close),
         r.afterLabel => ledger.label = "done" /\ (r.parked \/ hist.asked),
         r.afterClose /\ r.open => ~pr.issueFirst,
         e.kind = "unpark" => hist.asked,
         e.kind = "pr-closed" => ~pr.issueFirst /\ pr.st # "open"
  PROVE  DueInv'
<1>1. CASE Logged
  <2>1. PICK x \in Hits(rec, e) :
          Pass(r, Append(EntryItems, "move"),
               [row |-> x, ev |-> e, trigger |-> trigger, close |-> close, seen |-> pr.at])
    BY <1>1 DEF Take
  <2>2. (x = "P1" => e.kind = "unpark") /\ (x = "E4" => e.kind = "pr-closed")
    BY RowKind DEF DueInv, LInv, IInv
  <2> QED BY <2>1, <2>2, PassDue
<1>2. CASE ~Logged BY <1>2, NoMoveDue, PassDue DEF Take
<1> QED BY <1>1, <1>2

LEMMA PlanDue == ASSUME DueInv, Plan PROVE DueInv'
<1>0. LInv' BY PlanL DEF DueInv
<1>1. rec \in Record /\ step \in StepEntries BY DEF DueInv, LInv, IInv
<1>2. CASE rec.state = "closed"
  <2>1. Pass(read, EntryItems, NoMove) BY <1>2 DEF Plan
  <2>2. /\ read \in Reading /\ (read.afterClose /\ read.open => ~pr.issueFirst)
        /\ read.afterLabel => ledger.label = "done" /\ (read.parked \/ hist.asked)
    BY DEF DueInv, DueTypes, CloseInv, AskedInv
  <2> QED BY <1>0, <2>1, <2>2, NoMoveDue, PassDue
<1>3. ASSUME NEW r \in Reads, NEW i \in Early(r), \A j \in Early(r) : i <= j, PlanEarly(r, EarlyKinds[i]), rec.state # "closed"
      PROVE  DueInv'
  <2>1. r \in Reading /\ [r EXCEPT !.due = TRUE] \in Reading
    BY ReadsDue DEF Reading
  <2>2. /\ r.afterLabel => ledger.label = "done" /\ (r.parked \/ hist.asked)
        /\ r.afterClose /\ r.open => ~pr.issueFirst
    BY ReadsDue
  <2>3. CASE Waits(EarlyKinds[i], r)
    <3>1. Pass([r EXCEPT !.due = TRUE], EntryItems, NoMove) BY <1>3, <2>3 DEF PlanEarly
    <3>2. [r EXCEPT !.due = TRUE].afterLabel = r.afterLabel /\ [r EXCEPT !.due = TRUE].parked = r.parked
          /\ [r EXCEPT !.due = TRUE].afterClose = r.afterClose /\ [r EXCEPT !.due = TRUE].open = r.open
      BY <2>1 DEF Reading
    <3> QED BY <1>0, <2>1, <2>2, <3>1, <3>2, NoMoveDue, PassDue
  <2>4. CASE ~Waits(EarlyKinds[i], r)
    <3>1. i \in 1..4 /\ EarlyKinds[i] \in Kinds /\ EarlyKinds[i] # "unpark" /\ Present(EarlyKinds[i], r)
      BY DEF Early, EarlyKinds, Kinds
    <3>2. PICK c : Take(r, EarlyEv[EarlyKinds[i]], "fact", c)
      BY <1>3, <2>4 DEF PlanEarly
    <3>3. EarlyEv[EarlyKinds[i]] \in Event /\ EarlyEv[EarlyKinds[i]].kind = EarlyKinds[i]
      BY <3>1, EarlyEvent DEF EarlyEv
    <3>4. EarlyKinds[i] = "pr-closed" => ~pr.issueFirst /\ pr.st # "open"
      <4> SUFFICES ASSUME EarlyKinds[i] = "pr-closed" PROVE ~pr.issueFirst /\ pr.st # "open" OBVIOUS
      <4>1. pr.st = "closed" /\ r.afterClose BY <2>4, <3>1 DEF Present, Waits
      <4>2. i = 4 BY <3>1 DEF EarlyKinds
      <4>3. 2 \notin Early(r) BY <1>3, <4>2
      <4>4. Hits(rec, EarlyEv["issue-closed"]) # {}
        <5> DEFINE e == EarlyEv["issue-closed"]
        <5>1. e \in Event /\ e.kind = "issue-closed" BY EarlyEvent, KindFacts DEF EarlyEv
        <5>2. Normal(rec, e) = e BY <5>1 DEF Normal
        <5>3. rec.state \in LiveStates BY <1>1, <1>3 DEF Record, States
        <5> HIDE DEF e
        <5>4. OutsideRow("E2", rec, e) BY <5>1, <5>3 DEF OutsideRow
        <5>5. "E2" \in Hits(rec, e) BY <1>1, <5>1, <5>2, <5>4, HitWhen DEF When, RowIds
        <5> QED BY <5>5 DEF e
      <4>5. EarlyKinds[2] = "issue-closed" BY DEF EarlyKinds
      <4>6. ~Present("issue-closed", r) BY <4>3, <4>4, <4>5 DEF Early
      <4>7. r.open BY <4>6 DEF Present
      <4> QED BY <2>2, <4>1, <4>7
    <3> QED BY <1>0, <2>1, <2>2, <3>1, <3>2, <3>3, <3>4, TakeDue
  <2> QED BY <2>3, <2>4
<1>4. ASSUME NEW r \in Reads, PlanLater(r) PROVE DueInv'
  <2>1. /\ r \in Reading
        /\ r.afterLabel => ledger.label = "done" /\ (r.parked \/ hist.asked)
        /\ r.afterClose /\ r.open => ~pr.issueFirst
    BY ReadsDue
  <2>2. PICK e \in LaterEvents(r) : \E t, c : Take(r, e, t, c)
    BY <1>4 DEF PlanLater
  <2>3. PICK t, c : Take(r, e, t, c)
    BY <2>2
  <2>4. e \in Event BY <1>1, LaterEvent
  <2>5. e.kind # "pr-closed" /\ (e.kind = "unpark" => hist.asked)
    <3>1. CASE rec.state \in {"parked", "waiting"}
      <4>1. e.kind \in {"unpark", "cleared"} /\ (e.kind = "unpark" => Unpark(r))
        BY <3>1 DEF LaterEvents, Ev
      <4>2. Unpark(r) => hist.asked BY <2>1 DEF Unpark, LabelGone, DueInv, AskedInv
      <4> QED BY <4>1, <4>2
    <3>2. CASE rec.state \notin {"parked", "waiting"}
      <4>1. e \in StepEvents BY <3>2 DEF LaterEvents
      <4>2. step.ev.kind \in StepKinds BY <1>1 DEF StepEntries, StepKinds
      <4> QED BY <4>1, <4>2 DEF StepEvents, StepKinds, Ev
    <3> QED BY <3>1, <3>2
  <2> QED BY <1>0, <2>1, <2>3, <2>4, <2>5, TakeDue
<1>5. ASSUME NEW r \in Reads, PlanWork(r) PROVE DueInv'
  <2>1. PICK todo : Pass(r, todo, NoMove) BY <1>5 DEF PlanWork
  <2> QED BY <1>0, <2>1, ReadsDue, NoMoveDue, PassDue
<1> QED BY <1>2, <1>3, <1>4, <1>5 DEF Plan

LEMMA ExecDue == ASSUME DueInv, ExecLog \/ ExecStop \/ ExecLabel \/ ExecStart \/ Started \/ CheckMove PROVE DueInv'
<1>0. LInv' BY ExecL DEF DueInv
<1>1. Done => (plan'.move = plan.move /\ plan'.checked = plan.checked) \/ plan' = NoPlan
  BY DEF Done, DueInv, LInv, IInv
<1>2. CASE ExecLog \/ ExecStop
  <2>1. Done /\ ledger'.label = ledger.label /\ UNCHANGED <<rec, step, pr, issue, read, owner, hist>>
    BY <1>2 DEF ExecLog, ExecStop, DueInv, LInv, IInv, Ledgers
  <2>2. DueTypes' /\ AskedInv' /\ CloseInv' BY <2>1 DEF DueInv, DueTypes, AskedInv, CloseInv
  <2>3. MoveDue' BY <1>1, <2>1, NoMoveDue DEF DueInv, MoveDue
  <2> QED BY <1>0, <2>2, <2>3 DEF DueInv
<1>3. CASE ExecLabel
  <2>1. /\ Done /\ UNCHANGED <<rec, step, pr, read, owner, hist>> /\ issue'.open = issue.open
        /\ ledger.label = "todo"
        /\ ledger'.label = "done" => issue'.label = LabelOf(rec.state)
    BY <1>3 DEF ExecLabel, DueInv, LInv, IInv, Ledgers, Issues, Next1, TodoFits, Fits
  <2>2. ledger'.label = "done" /\ rec.state = "parked" => issue'.label = "parked"
    BY <2>1 DEF LabelOf
  <2>4. DueTypes' BY <2>1 DEF DueInv, DueTypes
  <2>5. CloseInv' BY <2>1 DEF DueInv, CloseInv
  <2>6. AskedInv' BY <2>1, <2>2 DEF DueInv, AskedInv
  <2>7. MoveDue' BY <1>1, <2>1, NoMoveDue DEF DueInv, MoveDue
  <2> QED BY <1>0, <2>4, <2>5, <2>6, <2>7 DEF DueInv
<1>4. CASE ExecStart
  <2>1. plan' = plan /\ step'.st = "running" BY <1>4 DEF ExecStart
  <2>4. UNCHANGED <<rec, ledger, issue, read, owner, hist>> /\ pr'.issueFirst = pr.issueFirst
    BY <1>4 DEF ExecStart, DueInv, LInv, IInv, Prs
  <2>5. DueTypes' /\ AskedInv' /\ CloseInv' BY <2>4 DEF DueInv, DueTypes, AskedInv, CloseInv
  <2>6. plan.move.row = "none"
    BY <1>4 DEF ExecStart, Next1, DueInv, LInv, TodoFits, Fits
  <2>7. MoveDue' BY <2>1, <2>4, <2>6 DEF DueInv, MoveDue
  <2> QED BY <1>0, <2>5, <2>7 DEF DueInv
<1>6. CASE Started
  <2>1. Done /\ UNCHANGED <<rec, ledger, step, pr, issue, read, owner, hist>> BY <1>6 DEF Started
  <2>2. DueTypes' /\ AskedInv' /\ CloseInv' BY <2>1 DEF DueInv, DueTypes, AskedInv, CloseInv
  <2>3. MoveDue' BY <1>1, <2>1, NoMoveDue DEF DueInv, MoveDue
  <2> QED BY <1>0, <2>2, <2>3 DEF DueInv
<1>5. CASE CheckMove
  <2>1. UNCHANGED <<rec, ledger, step, pr, issue, read, owner, hist>> BY <1>5 DEF CheckMove
  <2>2. \/ plan' = NoPlan
        \/ plan'.move = plan.move /\ (plan.move.trigger = "fact" \/ step.st = plan.move.trigger)
    BY <1>5 DEF CheckMove, TriggerStale, DueInv, LInv, IInv
  <2>3. DueTypes' /\ AskedInv' /\ CloseInv' BY <2>1 DEF DueInv, DueTypes, AskedInv, CloseInv
  <2>4. MoveDue' BY <2>1, <2>2, NoMoveDue DEF DueInv, MoveDue
  <2> QED BY <1>0, <2>3, <2>4 DEF DueInv
<1> QED BY <1>2, <1>3, <1>4, <1>5, <1>6

LEMMA WriteDue == ASSUME DueInv, WriteMove PROVE DueInv'
<1>0. LInv' BY WriteL DEF DueInv
<1>1. plan' = NoPlan /\ issue' = issue /\ pr' = pr BY DEF WriteMove
<1>2. MoveDue' BY <1>1, NoMoveDue DEF MoveDue
<1>3. ASSUME NEW to, to = NextRecord(rec, plan.move.row, plan.move.ev), Moved(to) PROVE DueInv'
  <2>1. /\ rec' = to /\ ledger'.label = LabelDue(to)
        /\ read' = [read EXCEPT !.afterLabel = FALSE, !.parked = FALSE]
    BY <1>3 DEF Moved
  <2>2. hist' = [hist EXCEPT !.late = FALSE, !.asked = (@ /\ to.state = rec.state) \/ owner.resume = "new",
                             !.due = IF plan.move.row = "P1" THEN plan.move.seen ELSE @]
    BY <1>3 DEF Moved
  <2>3. /\ hist' = [asked |-> hist'.asked, due |-> hist'.due, late |-> hist'.late]
        /\ hist'.late = FALSE
        /\ hist'.asked = ((hist.asked /\ to.state = rec.state) \/ owner.resume = "new")
    BY <2>2 DEF DueInv, DueTypes
  <2>4. owner' = IF to.state = rec.state THEN owner
                 ELSE [owner EXCEPT !.resume = IF @ = "new" THEN @ ELSE "none"]
    BY <1>3 DEF Moved
  <2>5. owner \in Owning /\ read \in Reading BY DEF DueInv, DueTypes
  <2>6. owner' \in Owning /\ (owner'.resume # "none" => owner.resume = "new" \/ (to.state = rec.state /\ owner.resume # "none"))
    BY <2>4, <2>5 DEF Owning
  <2>7. read' \in Reading /\ read'.afterLabel = FALSE /\ read'.open = read.open /\ read'.afterClose = read.afterClose
    BY <2>1, <2>5 DEF Reading
  <2>8. hist'.asked \in BOOLEAN BY <2>3
  <2>9. DueTypes' BY <2>3, <2>6, <2>7, <2>8 DEF DueTypes
  <2>10. to.state = rec.state => ledger.label = "done"
    <3> SUFFICES ASSUME to.state = rec.state PROVE ledger.label = "done" OBVIOUS
    <3>1. plan.move.row # "none" BY DEF WriteMove, Next1, DueInv, LInv, TodoFits, Fits
    <3>2. plan.move.ev.kind \in StepKinds /\ rec.state # "queued"
      BY <1>3, <3>1, SameStateRows DEF DueInv, LInv, IInv, MoveFits, StepFits, StepKinds
    <3> QED BY <3>1, <3>2 DEF DueInv, LInv, StepFits
  <2>11. rec'.state = "parked" /\ ledger'.label = "done" => to.state = rec.state /\ rec.state = "parked" /\ ledger.label = "done"
    BY <2>1, <2>10 DEF LabelDue
  <2>12. AskedInv' BY <1>1, <2>3, <2>6, <2>7, <2>11 DEF DueInv, AskedInv
  <2>13. CloseInv' BY <1>1, <2>7 DEF DueInv, CloseInv
  <2> QED BY <1>0, <1>2, <2>9, <2>12, <2>13 DEF DueInv
<1>4. CASE hist' = [hist EXCEPT !.late = FALSE] /\ UNCHANGED <<rec, ledger, step, read, owner>>
  <2>1. DueTypes' /\ hist'.asked = hist.asked BY <1>4 DEF DueInv, DueTypes
  <2>2. AskedInv' /\ CloseInv' BY <1>1, <1>4, <2>1 DEF DueInv, AskedInv, CloseInv
  <2> QED BY <1>0, <1>2, <2>1, <2>2 DEF DueInv
<1> QED BY <1>3, <1>4 DEF WriteMove

LEMMA OthersDue == ASSUME DueInv, StepEnds \/ OldEnds \/ UnseenEnds \/ Elsewhere PROVE DueInv'
<1>0. LInv' BY OthersL DEF DueInv
<1>1. CASE StepEnds
  <2>1. /\ UNCHANGED <<rec, ledger, plan, issue, read, owner>> /\ hist' = [hist EXCEPT !.late = plan.checked]
        /\ pr'.issueFirst = pr.issueFirst /\ pr'.st \in {pr.st, "landed"}
    BY <1>1 DEF StepEnds, DueInv, LInv, IInv, Prs
  <2>3. /\ hist'.asked = hist.asked /\ hist'.late = plan.checked
        /\ hist' = [asked |-> hist'.asked, due |-> hist'.due, late |-> hist'.late]
    BY <2>1 DEF DueInv, DueTypes
  <2>4. DueTypes' BY <2>1, <2>3 DEF DueInv, DueTypes
  <2>5. AskedInv' /\ CloseInv' BY <2>1, <2>3 DEF DueInv, AskedInv, CloseInv
  <2>6. MoveDue' BY <2>1, <2>3 DEF DueInv, MoveDue
  <2> QED BY <1>0, <2>4, <2>5, <2>6 DEF DueInv
<1>2. CASE Reload
  <2>1. UNCHANGED <<rec, ledger, pr, issue, read, owner>> /\ plan' = NoPlan /\ hist' = [hist EXCEPT !.late = FALSE]
    BY <1>2 DEF Reload
  <2>2. DueTypes' /\ hist'.asked = hist.asked BY <2>1 DEF DueInv, DueTypes
  <2>3. AskedInv' /\ CloseInv' BY <2>1, <2>2 DEF DueInv, AskedInv, CloseInv
  <2>4. MoveDue' BY <2>1, NoMoveDue DEF MoveDue
  <2> QED BY <1>0, <2>2, <2>3, <2>4 DEF DueInv
<1>3. CASE OldEnds \/ OwnerDrops \/ OwnerRetries \/ IssueByHand
  <2>1. /\ UNCHANGED <<rec, step, plan, pr, read, hist>>
        /\ ledger'.label = "done" <=> ledger.label = "done"
        /\ owner' = owner \/ owner' = [owner EXCEPT !.drop = TRUE]
        /\ issue'.label = issue.label /\ (issue'.open => issue.open)
    BY <1>3 DEF OldEnds, OwnerDrops, OwnerRetries, IssueByHand, DueInv, LInv, IInv, Ledgers, Issues
  <2>2. owner' \in Owning /\ owner'.resume = owner.resume BY <2>1 DEF DueInv, DueTypes, Owning
  <2>3. DueTypes' BY <2>1, <2>2 DEF DueInv, DueTypes
  <2>4. AskedInv' BY <2>1, <2>2 DEF DueInv, AskedInv
  <2>5. CloseInv' BY <2>1 DEF DueInv, CloseInv
  <2>6. MoveDue' BY <2>1 DEF DueInv, MoveDue
  <2> QED BY <1>0, <2>3, <2>4, <2>5, <2>6 DEF DueInv
<1>4. CASE OwnerResumes \/ OwnerUnlabels
  <2>1. /\ UNCHANGED <<rec, ledger, step, plan, pr, read>> /\ hist' = [hist EXCEPT !.asked = TRUE]
        /\ owner' = owner \/ owner' = [owner EXCEPT !.resume = "new"]
        /\ issue'.open = issue.open
    BY <1>4 DEF OwnerResumes, OwnerUnlabels, DueInv, LInv, IInv, Issues
  <2>2. owner' \in Owning BY <2>1 DEF DueInv, DueTypes, Owning
  <2>3. /\ hist'.asked = TRUE /\ hist'.late = hist.late
        /\ hist' = [asked |-> hist'.asked, due |-> hist'.due, late |-> hist'.late]
    BY <2>1 DEF DueInv, DueTypes
  <2>4. DueTypes' BY <2>1, <2>2, <2>3 DEF DueInv, DueTypes
  <2>5. AskedInv' BY <2>1, <2>3 DEF DueInv, AskedInv
  <2>6. CloseInv' BY <2>1 DEF DueInv, CloseInv
  <2>7. MoveDue' BY <2>1, <2>3 DEF DueInv, MoveDue
  <2> QED BY <1>0, <2>4, <2>5, <2>6, <2>7 DEF DueInv
<1>5. CASE PrByHand("closed") \/ PrByHand("merged")
  <2>1. /\ UNCHANGED <<rec, ledger, step, plan, issue, owner, hist>> /\ pr.st = "open"
        /\ pr'.issueFirst = ~issue.open /\ read' = [read EXCEPT !.afterClose = FALSE]
    BY <1>5 DEF PrByHand, DueInv, LInv, IInv, Prs
  <2>2. /\ read' \in Reading /\ ~read'.afterClose
        /\ read'.afterLabel = read.afterLabel /\ read'.parked = read.parked
    BY <2>1 DEF DueInv, DueTypes, Reading
  <2>3. plan.move.row # "E4" BY <2>1 DEF DueInv, MoveDue
  <2>4. DueTypes' BY <2>1, <2>2 DEF DueInv, DueTypes
  <2>5. AskedInv' BY <2>1, <2>2 DEF DueInv, AskedInv
  <2>6. CloseInv' BY <2>1, <2>2 DEF CloseInv
  <2>7. MoveDue' BY <2>1, <2>3 DEF DueInv, MoveDue
  <2> QED BY <1>0, <2>4, <2>5, <2>6, <2>7 DEF DueInv
<1>6. CASE SpawnFails
  <2>1. /\ UNCHANGED <<rec, ledger, pr, issue, read, owner, hist>> /\ plan' = NoPlan
    <3>1. plan.todo # <<>> /\ Head(plan.todo) = "start" /\ Done BY <1>6 DEF SpawnFails, Starting, Next1
    <3>2. Len(plan.todo) = 1 BY <3>1 DEF DueInv, LInv, TodoFits, Fits
    <3> QED BY <1>6, <3>1, <3>2 DEF SpawnFails, Done
  <2>2. DueTypes' /\ AskedInv' /\ CloseInv' BY <2>1 DEF DueInv, DueTypes, AskedInv, CloseInv
  <2>3. MoveDue' BY <2>1, NoMoveDue DEF MoveDue
  <2> QED BY <1>0, <2>2, <2>3 DEF DueInv
<1>7. CASE UnseenEnds
  <2>1. UNCHANGED <<rec, ledger, step, plan, pr, issue, read, owner, hist>> BY <1>7 DEF UnseenEnds
  <2> QED BY <1>0, <2>1 DEF DueInv, DueTypes, AskedInv, CloseInv, MoveDue
<1> QED BY <1>1, <1>2, <1>3, <1>4, <1>5, <1>6, <1>7 DEF Elsewhere

LEMMA NextDue == ASSUME DueInv, [Next]_vars PROVE DueInv'
<1>1. CASE UNCHANGED vars
  <2>1. LInv' BY <1>1, NextL DEF DueInv
  <2> QED BY <1>1, <2>1 DEF DueInv, vars, DueTypes, AskedInv, CloseInv, MoveDue
<1>2. CASE Next BY <1>2, PlanDue, ExecDue, WriteDue, OthersDue DEF Next, Exec
<1> QED BY <1>1, <1>2

THEOREM DueInvariance == Spec => []DueInv
<1> QED BY InitDue, NextDue, PTL DEF Spec

(* A row is applied only on what happened, for any caps, outcomes and
   happenings: a park is resumed by the owner alone, a PR that closed with or
   after its issue does not park the record, and an answer that was there when
   the transition was checked is not overridden by its step's timeout
   (v2/rules-state.ts unparkOf, earlyEvents; v2/act-state.ts triggerStale). *)
THEOREM RowsAreDueHolds == Spec => RowsAreDue
<1>1. ASSUME DueInv, [Next]_vars
      PROVE  [ResumedByOwner /\ IssueBeforePr /\ AnswerWins]_rec
  <2>1. CASE rec' = rec BY <2>1
  <2>2. CASE WriteMove
    <3>1. plan.checked BY <2>2 DEF WriteMove
    <3> QED BY <3>1, <1>1 DEF DueInv, MoveDue, ResumedByOwner, IssueBeforePr, AnswerWins
  <2>3. IInv BY <1>1 DEF DueInv, LInv
  <2> QED BY <1>1, <2>1, <2>2, <2>3, OnlyWrites
<1> QED BY <1>1, DueInvariance, PTL DEF Spec, RowsAreDue
=============================================================================
