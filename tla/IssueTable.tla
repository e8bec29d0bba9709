----------------------------- MODULE IssueTable -----------------------------
(* The transition table of an issue's record (v2/table.ts, v2/table-fix.ts):
   which row an event matches in a record, and the record the row makes.  Notes,
   questions and the round are left out: no row's guard reads them.  Pure: no
   variable; Records.tla runs it. *)
EXTENDS Integers, FiniteSets

CONSTANTS MaxTriages,      \* triages of one life between two resumes
          ReviewFixCap,    \* fix rounds for findings
          ConflictFixCap   \* fix rounds for what other merges caused

ASSUME CapsAssumption == MaxTriages \in Nat /\ ReviewFixCap \in Nat /\ ConflictFixCap \in Nat

-----------------------------------------------------------------------------
(* The states, and the step each runs. *)
StepStates == {"designing", "building", "reviewing", "fixing", "merge-queue"}
HeldStates == {"queued", "parked", "waiting"}
LiveStates == StepStates \cup HeldStates
States == LiveStates \cup {"closed"}

StepOf == [s \in States |->
    CASE s = "queued" -> "lease" [] s = "designing" -> "design"
      [] s = "building" -> "build" [] s = "reviewing" -> "review"
      [] s = "fixing" -> "fix" [] s = "merge-queue" -> "queue"
      [] OTHER -> "none"]
Steps == {"lease", "design", "build", "review", "fix", "queue", "triage", "none"}

Reasons == [s \in States |->
    CASE s = "designing" -> {"question", "split", "wait", "done"}
      [] s = "building" -> {"cannot", "no-commit"}
      [] s = "reviewing" -> {"changes", "ci-red", "conflict"}
      [] s = "fixing" -> {"declined", "unchanged"}
      [] s = "merge-queue" -> {"changes", "ci-red", "conflict", "patch", "policy"}
      [] OTHER -> {}]
FixReasons == {"changes", "ci-red", "conflict"}
Whys == {"none", "split", "done", "merged", "dropped", "closed-on-github",
         "merged-by-hand", "claim-lost"}

Record == [state: States, step: Steps, attempt: {1, 2}, cut: BOOLEAN,
           triages: Nat, fixes: Nat, conflicts: Nat, env: BOOLEAN,
           resumeTo: StepStates \cup {"none"}, pr: BOOLEAN, approved: BOOLEAN,
           why: Whys]

(* An event: its kind, the reason, cause's why or choice it carries, and one
   fact: an unknown has an outside cause; a fixer's result lists findings the
   environment blocks; the triaged branch has commits; the event names the
   life's PR. *)
Kinds == {"ok", "not-ok", "unknown", "triage", "drop", "cleared", "unpark",
          "issue-closed", "pr-merged", "pr-closed", "claim-lost", "timeout"}
Choices == {"retry", "fix", "redesign", "park", "drop"}
Tags == (UNION {Reasons[s] : s \in States}) \cup Choices \cup {"none", "odd"}
Event == [kind: Kinds, tag: Tags, flag: BOOLEAN]

(* The record row S0 makes from a done claim, S7 from a split's child. *)
Made(pr) == [state |-> "queued", step |-> "lease", attempt |-> 1, cut |-> FALSE,
             triages |-> 0, fixes |-> 0, conflicts |-> 0, env |-> FALSE,
             resumeTo |-> IF pr THEN "reviewing" ELSE "none",
             pr |-> pr, approved |-> FALSE, why |-> "none"]
MadeParked == [Made(FALSE) EXCEPT !.state = "parked", !.resumeTo = "designing", !.step = "none"]

-----------------------------------------------------------------------------
(* The facts the guards read. *)
OwnStep(r) == StepOf[r.state] # "none" /\ r.step = StepOf[r.state]
OnTriage(r) == r.step = "triage"
TellPeriodic(r) == r.state \in HeldStates \/ (r.state = "merge-queue" /\ r.step = "queue")
Resume(r) == IF r.resumeTo = "none" THEN "designing" ELSE r.resumeTo
SameTarget(r) == IF r.state \in {"queued", "waiting"} THEN Resume(r) ELSE r.state

Free(r, e) == e.flag /\ ~r.cut                       \* u1: an outside cause, once per attempt
BaseCaused(r, e) == e.tag = "conflict" \/ (e.tag = "ci-red" /\ r.state = "merge-queue")
UnderCap(r, e) == IF BaseCaused(r, e) THEN r.conflicts < ConflictFixCap
                  ELSE r.fixes < ReviewFixCap
Fixable(e) == e.tag \in FixReasons
FixValid(r, e) == e.flag /\ r.fixes < ReviewFixCap
EnvPark(r, e) == e.flag /\ r.env                     \* a second blocked fix round in a row
CanTriage(r) == r.triages < MaxTriages
HasPr(r, e) == r.pr \/ e.flag

(* The event as the table reads it: a running step's timeout and an outcome
   outside the step's own are unknowns. *)
Normal(r, e) ==
    IF e.kind = "timeout" /\ ~TellPeriodic(r)
      THEN [e EXCEPT !.kind = "unknown"]
    ELSE IF e.kind = "not-ok" /\ OwnStep(r) /\ e.tag \notin Reasons[r.state]
      THEN [kind |-> "unknown", tag |-> "odd", flag |-> FALSE]
    ELSE e

-----------------------------------------------------------------------------
(* The rows: when each matches (its state, event kind and guard). *)
RowIds == {"T1", "T2", "T3", "T4", "T5", "T6", "T7", "T8", "T9", "T10", "T11", "T12",
           "T13", "T14", "T15", "T16", "T17", "T18", "T19", "T20", "U1", "U2", "U3",
           "U4", "X1", "X2", "X3", "X4", "X5", "E1", "E2", "E3", "E4", "E5", "E6",
           "C1", "P1"}

StepRow(x, r, e) ==
    OwnStep(r) /\
    CASE x = "T1"  -> r.state = "queued" /\ e.kind = "ok"
      [] x = "T2"  -> r.state = "designing" /\ e.kind = "ok"
      [] x = "T3"  -> r.state = "designing" /\ e.kind = "not-ok" /\ e.tag = "question"
      [] x = "T4"  -> r.state = "designing" /\ e.kind = "not-ok" /\ e.tag = "split"
      [] x = "T16" -> r.state = "designing" /\ e.kind = "not-ok" /\ e.tag = "wait"
      [] x = "T18" -> r.state = "designing" /\ e.kind = "not-ok" /\ e.tag = "done"
      [] x = "T5"  -> r.state = "building" /\ e.kind = "ok"
      [] x = "T6"  -> r.state = "building" /\ e.kind = "not-ok" /\ CanTriage(r)
      [] x = "T7"  -> r.state = "building" /\ e.kind = "not-ok" /\ ~CanTriage(r)
      [] x = "T8"  -> r.state = "reviewing" /\ e.kind = "ok"
      [] x = "T9"  -> r.state \in {"reviewing", "merge-queue"} /\ e.kind = "not-ok"
                      /\ Fixable(e) /\ UnderCap(r, e)
      [] x = "T10" -> r.state \in {"reviewing", "merge-queue"} /\ e.kind = "not-ok"
                      /\ Fixable(e) /\ ~UnderCap(r, e)
      [] x = "T13" -> r.state = "merge-queue" /\ e.kind = "ok"
      [] x = "T14" -> r.state = "merge-queue" /\ e.kind = "not-ok" /\ e.tag = "patch"
      [] x = "T15" -> r.state = "merge-queue" /\ e.kind = "not-ok" /\ e.tag = "policy"
      [] OTHER -> FALSE

FixRow(x, r, e) ==
    r.state = "fixing" /\ OwnStep(r) /\
    CASE x = "T11" -> e.kind = "ok" /\ ~EnvPark(r, e)
      [] x = "T12" -> e.kind = "not-ok" /\ e.tag = "declined" /\ ~EnvPark(r, e)
      [] x = "T17" -> e.kind = "not-ok" /\ e.tag = "unchanged" /\ ~EnvPark(r, e)
      [] x = "T19" -> e.kind = "ok" /\ EnvPark(r, e)
      [] x = "T20" -> e.kind = "not-ok" /\ e.tag \in {"declined", "unchanged"} /\ EnvPark(r, e)
      [] OTHER -> FALSE

UnknownRow(x, r, e) ==
    r.state \in StepStates /\ e.kind = "unknown" /\
    CASE x = "U1" -> Free(r, e)
      [] x = "U2" -> ~Free(r, e) /\ r.attempt <= 1
      [] x = "U3" -> ~Free(r, e) /\ r.attempt >= 2 /\ ~OnTriage(r) /\ CanTriage(r)
      [] x = "U4" -> ~Free(r, e) /\ r.attempt >= 2 /\ (OnTriage(r) \/ ~CanTriage(r))
      [] OTHER -> FALSE

TriageRow(x, r, e) ==
    r.state \in StepStates /\ e.kind = "triage" /\ OnTriage(r) /\
    CASE x = "X1" -> e.tag = "retry"
      [] x = "X2" -> e.tag = "fix" /\ FixValid(r, e)
      [] x = "X3" -> e.tag = "redesign"
      [] x = "X4" -> e.tag = "park" \/ (e.tag = "fix" /\ ~FixValid(r, e))
      [] x = "X5" -> e.tag = "drop"
      [] OTHER -> FALSE

OutsideRow(x, r, e) ==
    r.state \in LiveStates /\
    CASE x = "E1" -> e.kind = "drop"
      [] x = "E2" -> e.kind = "issue-closed"
      [] x = "E3" -> e.kind = "pr-merged" /\ HasPr(r, e)
      [] x = "E4" -> e.kind = "pr-closed" /\ r.state # "parked" /\ HasPr(r, e)
      [] x = "E5" -> e.kind = "claim-lost"
      [] x = "E6" -> e.kind = "timeout" /\ TellPeriodic(r)
      [] x = "C1" -> r.state = "waiting" /\ e.kind = "cleared"
      [] x = "P1" -> r.state \in {"parked", "waiting"} /\ e.kind = "unpark"
      [] OTHER -> FALSE

When(x, r, e) == \/ StepRow(x, r, e) \/ FixRow(x, r, e) \/ UnknownRow(x, r, e)
                 \/ TriageRow(x, r, e) \/ OutsideRow(x, r, e)

(* rowFor: the rows that match the normalized event; none is E7, two throw. *)
Hits(r, e) == {x \in RowIds : \E n \in {Normal(r, e)} : When(x, r, n)}

-----------------------------------------------------------------------------
(* What a row makes of the record.  Entering a state starts its own step anew;
   resumeTo lives only in the states that wait. *)
Enter(r, s) == [r EXCEPT !.state = s, !.step = StepOf[s], !.attempt = 1, !.cut = FALSE,
                         !.resumeTo = IF s \in HeldStates THEN @ ELSE "none"]
Park(r, to) == [Enter(r, "parked") EXCEPT !.resumeTo = to]
Close(r, why) == [Enter(r, "closed") EXCEPT !.why = why]
ToTriageFree(r) ==     \* mutant: the triage is not counted
    [r EXCEPT !.step = "triage", !.attempt = 1, !.cut = FALSE]
ToTriage(r) == [r EXCEPT !.step = "triage", !.attempt = 1, !.cut = FALSE, !.triages = @ + 1]
Fixing(r) == [Enter(r, "fixing") EXCEPT !.fixes = @ + 1]

Leased(r) == IF Resume(r) = "fixing" THEN Fixing(r) ELSE Enter(r, Resume(r))
ToFixer(r, e) == IF BaseCaused(r, e)
                 THEN [Enter(r, "fixing") EXCEPT !.conflicts = @ + 1, !.pr = TRUE]
                 ELSE [Fixing(r) EXCEPT !.pr = TRUE]
Fixed(r, e) == [Enter(r, "reviewing") EXCEPT !.env = e.flag]
Cleared(r) == [Enter(r, "queued") EXCEPT !.resumeTo = Resume(r), !.triages = 0]
Unparked(r) == [Enter(r, "queued") EXCEPT !.triages = 0, !.fixes = 0, !.conflicts = 0,
                                          !.env = FALSE]

RowMakes(x, r, e) ==
    CASE x = "T1" -> Leased(r)
      [] x = "T2" -> Enter(r, "building")
      [] x = "T3" -> Park(r, "designing")
      [] x = "T4" -> Close(r, "split")
      [] x = "T5" -> Enter(r, "reviewing")
      [] x \in {"T6", "U3"} -> ToTriage(r)
      [] x = "T7" -> Park(r, "building")
      [] x = "T8" -> [Enter(r, "merge-queue") EXCEPT !.approved = TRUE, !.pr = TRUE]
      [] x = "T9" -> ToFixer(r, e)
      [] x = "T10" -> [Park(r, "fixing") EXCEPT !.pr = TRUE]
      [] x \in {"T11", "T12", "T17"} -> Fixed(r, e)
      [] x = "T13" -> Close(r, "merged")
      [] x = "T14" -> [Enter(r, "reviewing") EXCEPT !.approved = FALSE]
      [] x = "T15" -> Park(r, "merge-queue")
      [] x = "T16" -> [Enter(r, "waiting") EXCEPT !.resumeTo = "designing"]
      [] x = "T18" -> Close(r, "done")
      [] x \in {"T19", "T20"} -> [Park(r, "reviewing") EXCEPT !.env = e.flag]
      [] x = "U1" -> [r EXCEPT !.cut = TRUE]
      [] x = "U2" -> [r EXCEPT !.attempt = 2, !.cut = FALSE]
      [] x \in {"U4", "X4"} -> Park(r, SameTarget(r))
      [] x = "X1" -> [r EXCEPT !.step = StepOf[r.state], !.attempt = 2, !.cut = FALSE]
      [] x = "X2" -> Fixing(r)
      [] x = "X3" -> Enter(r, "designing")
      [] x \in {"X5", "E1"} -> Close(r, "dropped")
      [] x = "E2" -> Close(r, "closed-on-github")
      [] x = "E3" -> [Close(r, "merged-by-hand") EXCEPT !.pr = TRUE]
      [] x = "E4" -> [Park(r, SameTarget(r)) EXCEPT !.pr = TRUE]
      [] x = "E5" -> Close(r, "claim-lost")
      [] x = "C1" -> Cleared(r)
      [] x = "P1" -> Unparked(r)
      [] OTHER -> r

(* nextRecord: the record the row makes of the event as the table reads it. *)
NextRecord(r, x, e) == RowMakes(x, r, Normal(r, e))

-----------------------------------------------------------------------------
(* What a life has left before it must wait or close: triages, fix rounds, the
   states ahead, the attempts of the step; read in this order. *)
FixBound == IF ReviewFixCap = 0 THEN 1 ELSE ReviewFixCap
TriagesLeft(r) == 2 * (MaxTriages - r.triages) + (IF OnTriage(r) THEN 1 ELSE 0)
FixesLeft(r) == (FixBound - r.fixes) + (ConflictFixCap - r.conflicts)
StagesLeft == [s \in States |->
    CASE s = "queued" -> 8 [] s = "designing" -> 7 [] s = "building" -> 6 [] s = "fixing" -> 5
      [] s = "reviewing" -> 4 [] s = "merge-queue" -> 3 [] s = "waiting" -> 2
      [] s = "parked" -> 1 [] OTHER -> 0]
AttemptsLeft(r) == 2 * (2 - r.attempt) + (IF r.cut THEN 0 ELSE 1)

Less(r, q) ==     \* r has less left than q
    \/ TriagesLeft(r) < TriagesLeft(q)
    \/ /\ TriagesLeft(r) = TriagesLeft(q)
       /\ \/ FixesLeft(r) < FixesLeft(q)
          \/ /\ FixesLeft(r) = FixesLeft(q)
             /\ \/ StagesLeft[r.state] < StagesLeft[q.state]
                \/ StagesLeft[r.state] = StagesLeft[q.state] /\ AttemptsLeft(r) < AttemptsLeft(q)

(* The rows that give a life more: the owner's resume, a wait that cleared, and
   a patch that somebody's push made another one. *)
Refills == {"P1", "C1", "T14"}

(* What the caps mean: no counter passes its cap; a resume starts them again. *)
CapsHold(r) ==
    /\ r.triages <= MaxTriages /\ r.fixes <= FixBound /\ r.conflicts <= ConflictFixCap
    /\ r.state = "queued" /\ r.resumeTo = "fixing" => r.fixes = 0
    /\ r.state = "waiting" => r.resumeTo = "designing"
    /\ r.resumeTo # "none" => r.state \in HeldStates
=============================================================================
