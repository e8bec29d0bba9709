--------------------------- MODULE MergeQueueProofs ---------------------------
(***************************************************************************)
(* What the merge queue lands, for any records, queue and number of upsets *)
(* of others: only versions a review approved (OnlyApproved); a tree CI    *)
(* passed, as far as the code compares it (Tested); and, where a merge's   *)
(* read-back does not fail, its own merge is told from a hand merge        *)
(* (OwnHead). None is inductive: between a plan and its merge GitHub       *)
(* moves. The invariant says what a try knows at each of its stages        *)
(* (Knows), that reads lag behind GitHub but never contradict it (Reads),  *)
(* and that a merge of the loop leaves a try that owns it (Owned).         *)
(***************************************************************************)
EXTENDS MergeQueue, TLAPS

(* Types, without the bounds: contents and versions of any size. *)

Content == (Records \X Nat) \cup {<<n>> : n \in Nat}
AnyTree == SUBSET Content
AnyHead == [base : AnyTree, ver : Nat]
PrShape == [by : {"open", "loop", "hand"}, base : AnyTree, ver : Nat, dirty : BOOLEAN,
            ci : {"pending", "green", "red"}, again : BOOLEAN]
RecShape == [at : {"queue", "away", "done", "hand"}, seq : Nat, ver : Nat, oks : SUBSET Nat]
ViewShape == [read : BOOLEAN, pr : PrShape]
DidShape == [used : SUBSET AnyTree, made : SUBSET AnyHead, built : SUBSET (AnyHead \X AnyHead \X AnyTree),
             says : {"none", "notok", "unknown"}, of : AnyHead]
TryAt == {"guard", "merge", "readback", "over"}
TrySt == {"running", "merged", "again", "drop", "notok", "failed", "lost"}
TryShape == [seq : Nat, head : AnyHead, ver : Nat, tree : AnyTree, since : AnyTree, got : AnyHead, at : TryAt, st : TrySt]
ActShape == [kind : {"none", "update", "rerun", "train"}, rec : Records, head : AnyHead, main : AnyTree,
             under : Records, rider : AnyHead]
TrainShape == [live : BOOLEAN, rec : Records, seq : Nat, under : Records, head : AnyHead, rider : AnyHead,
               main : AnyTree, ci : {"pending", "green", "red"}]

Shape ==
  /\ main \in AnyTree /\ mainSeen \in AnyTree /\ upsets \in Nat
  /\ pr \in [Records -> PrShape] /\ rec \in [Records -> RecShape]
  /\ view \in [Records -> ViewShape] /\ did \in [Records -> DidShape]
  /\ tries \in [Records -> Seq(TryShape)]
  /\ act \in ActShape /\ train \in TrainShape

-----------------------------------------------------------------------------
(* The invariant. *)

\* what was read of a PR is GitHub's at some time before, and a merge of it stands
Reads(r) ==
  /\ pr[r].base \subseteq main /\ Seen(r).base \subseteq pr[r].base
  /\ view[r].pr.by # "open" => view[r].pr.by = pr[r].by /\ Seen(r) = Tip(r)
  /\ Tip(r) = NoHead => Seen(r) = NoHead /\ \A i \in DOMAIN tries[r] : tries[r][i].head = NoHead

\* CI is green on a head or a train only with its tree passed
Greens ==
  /\ \A r \in Records : pr[r].ci = "green" => TreeOf({}, r, Tip(r)) \in tested
  /\ train.live /\ train.ci = "green" => TrainTree \in tested

\* what a try knows of the head it merges: before its guard, what the plan read; after it, what the guard found
Knows(r, i) ==
  LET t == tries[r][i] IN
  /\ t.at = "guard" => t.got = NoHead /\ t.ver \in rec[r].oks
  /\ t.at = "merge" => /\ t.got.ver \in rec[r].oks
                       /\ TreeOf({}, r, t.got) \in tested
                       /\ t.tree # {} => TreeOf(t.since, r, t.got) = t.tree
  /\ t.at \in {"guard", "merge"} => /\ t.tree = {} => t.since \subseteq pr[r].base
                                    /\ t.tree # {} => t.tree \in tested
  /\ t.at # "over" => t.st \in {"running", "lost"}
  /\ t.at = "over" => t.st # "running"
  /\ t.st = "merged" => ~OpenOn(r)

\* a merge of the loop is some try's own, and one that merged the head it planned still says it may have
Owner(r, i) ==
  LET t == tries[r][i] IN
  /\ t.at \in {"readback", "over"} /\ t.got = Tip(r)
  /\ t.head = t.got => t.st \in {"running", "merged", "lost"}
Owned(r) == pr[r].by = "loop" => \E i \in DOMAIN tries[r] : Owner(r, i)

Approved(r) == rec[r].ver \in rec[r].oks

Inv ==
  /\ Shape /\ Greens
  /\ \A r \in Records : Reads(r) /\ Approved(r) /\ \A i \in DOMAIN tries[r] : Knows(r, i)

-----------------------------------------------------------------------------
(* Types. *)

LEMMA TreeTypes ==
  /\ {} \in AnyTree /\ NoHead \in AnyHead /\ FirstPr \in PrShape /\ NotRead \in ViewShape
  /\ Fresh \in DidShape /\ NoAct \in ActShape /\ NoTrain \in TrainShape
  /\ \A m \in AnyTree, r \in Records, h \in AnyHead : TreeOf(m, r, h) \in AnyTree
  /\ \A m \in AnyTree, n \in Nat : m \cup {<<n>>} \in AnyTree
<1>1. {} \in AnyTree /\ Start[1] \in Records
  BY StartAssumption DEF AnyTree
<1>2. NoHead \in AnyHead /\ FirstPr \in PrShape
  BY <1>1 DEF NoHead, AnyHead, FirstPr, PrShape
<1>3. NotRead \in ViewShape /\ Fresh \in DidShape
  BY <1>1, <1>2 DEF NotRead, ViewShape, Fresh, DidShape
<1>4. NoAct \in ActShape /\ NoTrain \in TrainShape
  BY <1>1, <1>2 DEF NoAct, ActShape, NoTrain, TrainShape
<1>5. \A m \in AnyTree, r \in Records, h \in AnyHead : TreeOf(m, r, h) \in AnyTree
  BY DEF AnyTree, Content, AnyHead, TreeOf
<1>6. \A m \in AnyTree, n \in Nat : m \cup {<<n>>} \in AnyTree
  BY DEF AnyTree, Content
<1> QED BY <1>1, <1>2, <1>3, <1>4, <1>5, <1>6

LEMMA Fields ==
  ASSUME Shape, NEW r \in Records
  PROVE /\ pr[r] \in PrShape /\ HeadOf(pr[r]) \in AnyHead /\ pr[r].base \in AnyTree /\ pr[r].ver \in Nat
        /\ view[r].pr \in PrShape /\ Seen(r) \in AnyHead /\ Tip(r) \in AnyHead
        /\ rec[r].seq \in Nat /\ rec[r].ver \in Nat
        /\ TrainTree \in AnyTree
<1>1. pr[r] \in PrShape /\ view[r].pr \in PrShape /\ rec[r] \in RecShape
  BY DEF Shape, ViewShape
<1>2. \A p \in PrShape : HeadOf(p) \in AnyHead /\ p.base \in AnyTree /\ p.ver \in Nat
  BY DEF PrShape, HeadOf, AnyHead
<1>3. rec[r].seq \in Nat /\ rec[r].ver \in Nat
  BY <1>1 DEF RecShape
<1>4. /\ train.head \in AnyHead /\ train.rider \in AnyHead
      /\ train.rec \in Records /\ train.under \in Records
  BY DEF Shape, TrainShape
<1>5. TrainTree \in AnyTree
  BY <1>4, TreeTypes DEF TrainTree
<1> QED BY <1>1, <1>2, <1>3, <1>5 DEF Seen, Tip

LEMMA NewHead ==
  ASSUME NEW p \in PrShape, NEW b \in AnyTree, NEW v \in Nat
  PROVE /\ WithHead(p, b, v) \in PrShape
        /\ WithHead(p, b, v).by = p.by /\ WithHead(p, b, v).ci = "pending"
        /\ WithHead(p, b, v).base = b /\ WithHead(p, b, v).ver = v
BY DEF WithHead, PrShape

\* the ways a PR may change, and what each keeps of it
PrKept(p, q) == q.by = p.by /\ HeadOf(q) = HeadOf(p) /\ (q.ci = "green" => p.ci = "green")
PrHead(p, q) == q.by = p.by /\ q.ci = "pending" /\ p.base \subseteq q.base

LEMMA PrFields ==
  ASSUME NEW p \in PrShape
  PROVE /\ [p EXCEPT !.dirty = TRUE] \in PrShape /\ PrKept(p, [p EXCEPT !.dirty = TRUE])
        /\ [p EXCEPT !.dirty = FALSE] \in PrShape /\ PrKept(p, [p EXCEPT !.dirty = FALSE])
        /\ [p EXCEPT !.ci = "pending", !.again = TRUE] \in PrShape
        /\ PrKept(p, [p EXCEPT !.ci = "pending", !.again = TRUE])
BY DEF PrShape, HeadOf, PrKept

-----------------------------------------------------------------------------
(* An ended try. *)

Said(t, res) == IF t.st = "running" THEN res ELSE t.st

LEMMA TryEnds ==
  ASSUME Shape, NEW r \in Records, NEW i \in DOMAIN tries[r], NEW res \in TrySt, NEW at \in TryAt,
         EndsAs(r, i, res, at)
  PROVE /\ tries' \in [Records -> Seq(TryShape)] /\ did' \in [Records -> DidShape] /\ view' \in [Records -> ViewShape]
        /\ \A q \in Records \ {r} : tries'[q] = tries[q]
        /\ \A q \in Records : view'[q] = view[q] \/ view'[q] = NotRead
        /\ DOMAIN tries'[r] = DOMAIN tries[r] /\ \A j \in DOMAIN tries[r] \ {i} : tries'[r][j] = tries[r][j]
        /\ LET t == tries[r][i]
               u == tries'[r][i]
           IN  /\ u.head = t.head /\ u.got = t.got /\ u.at = at /\ u.st = Said(t, res)
               /\ at # "over" => u.ver = t.ver /\ u.tree = t.tree /\ u.since = t.since
<1> DEFINE t == tries[r][i]
           carried == IF at = "over" THEN [t EXCEPT !.ver = 0, !.tree = {}, !.since = {}] ELSE t
           u == [carried EXCEPT !.at = at, !.st = IF t.st = "running" THEN res ELSE @]
<1>1. tries[r] \in Seq(TryShape) /\ t \in TryShape
  BY DEF Shape
<1>2. carried \in TryShape /\ carried.head = t.head /\ carried.got = t.got /\ carried.st = t.st
      /\ (at # "over" => carried = t)
  BY <1>1, TreeTypes DEF TryShape
<1>3. u \in TryShape /\ u.head = t.head /\ u.got = t.got /\ u.at = at /\ u.st = Said(t, res)
      /\ (at # "over" => u.ver = t.ver /\ u.tree = t.tree /\ u.since = t.since)
  <2> HIDE DEF carried
  <2> QED BY <1>1, <1>2 DEF TryShape, Said
<1>4. tries' = [tries EXCEPT ![r] = [@ EXCEPT ![i] = u]]
  BY DEF EndsAs
<1> HIDE DEF u, carried
<1>5. tries'[r] = [tries[r] EXCEPT ![i] = u] /\ \A q \in Records \ {r} : tries'[q] = tries[q]
  BY <1>4 DEF Shape
<1>6. [tries[r] EXCEPT ![i] = u] \in Seq(TryShape)
  BY <1>1, <1>3
<1>7. tries' \in [Records -> Seq(TryShape)]
  BY <1>4, <1>6 DEF Shape
<1>8. Says(res) \in {"none", "notok", "unknown"}
  BY DEF Says
<1>9. t.head \in AnyHead /\ NoHead \in AnyHead
  BY <1>1, TreeTypes DEF TryShape
<1>10. did' \in [Records -> DidShape]
  <2> DEFINE of == IF Says(res) = "none" THEN NoHead ELSE t.head
  <2>1. of \in AnyHead
    BY <1>9
  <2>2. did' = [did EXCEPT ![r] = [@ EXCEPT !.says = Says(res), !.of = of]] \/ did' = did
    BY DEF EndsAs
  <2> HIDE DEF of
  <2>3. [did[r] EXCEPT !.says = Says(res), !.of = of] \in DidShape
    BY <1>8, <2>1 DEF Shape, DidShape
  <2> QED BY <2>2, <2>3 DEF Shape
<1>11. view' \in [Records -> ViewShape] /\ \A q \in Records : view'[q] = view[q] \/ view'[q] = NotRead
  BY TreeTypes DEF EndsAs, Shape
<1>12. DOMAIN tries'[r] = DOMAIN tries[r] /\ tries'[r][i] = u
       /\ \A j \in DOMAIN tries[r] \ {i} : tries'[r][j] = tries[r][j]
  BY <1>5, <1>1
<1> QED BY <1>3, <1>5, <1>7, <1>10, <1>11, <1>12

-----------------------------------------------------------------------------
(* What a step may change: GitHub's PRs, the reads, the records and the tries. *)

PrStep(r) ==
  \/ PrKept(pr[r], pr'[r])
  \/ Tip(r)' = Tip(r) /\ pr'[r].by = pr[r].by /\ TreeOf({}, r, Tip(r)) \in tested'
  \/ OpenOn(r) /\ PrHead(pr[r], pr'[r]) /\ pr'[r].base \subseteq main /\ Tip(r)' # NoHead
  \/ OpenOn(r) /\ Tip(r)' = Tip(r) /\ pr'[r].ci = pr[r].ci /\ pr'[r].by \in {"hand", "loop"}

ViewStep(r) == view'[r].pr \in {view[r].pr, FirstPr} \/ (view'[r].pr = pr[r] /\ pr'[r] = pr[r])

RecStep(r) ==
  /\ rec[r].oks \subseteq rec'[r].oks /\ (rec'[r].ver = rec[r].ver \/ Approved(r)')
  /\ rec'[r].at = "hand" => \/ rec[r].at = "hand"
                            \/ view[r].pr.by # "open" /\ ~Named(r) /\ pr' = pr /\ tries' = tries
  /\ rec'[r].at = "done" => \/ rec[r].at = "done"
                            \/ \E i \in DOMAIN tries[r] : tries[r][i].st = "merged"
                            \/ view[r].pr.by # "open"

\* a try planned in this step
TryNew(r, u) ==
  /\ u.at = "guard" /\ u.st = "running" /\ u.got = NoHead /\ u.head = Seen(r) /\ u.ver = rec[r].ver /\ pr' = pr
  /\ u.tree = {} => u.since \subseteq pr[r].base
  /\ u.tree # {} => u.tree \in tested
\* a try past its guard
TryGuarded(r, t, u) ==
  /\ t.at = "guard" /\ u.at = "merge" /\ u.head = t.head /\ u.st = t.st /\ u.tree = t.tree
  /\ u.got = Tip(r) /\ Tip(r).ver = t.ver /\ pr[r].ci = "green" /\ pr' = pr
  /\ u.tree = {} => u.since = t.since
  /\ u.tree # {} => TreeOf(u.since, r, u.got) = u.tree
\* a try cut off, lost or over
TryLeaves(r, t, u) ==
  /\ t.at # "over" /\ u.at \in {t.at, "readback", "over"} /\ u.head = t.head /\ u.got = t.got
  /\ u.at # "over" => /\ u.ver = t.ver /\ u.tree = t.tree /\ u.since = t.since
                      /\ u.st \in {"running", "lost"}
  /\ u.at = "over" => u.st # "running"
  /\ u.st = "merged" => pr'[r].by # "open"
  /\ Faults = {} /\ t.at = "readback" /\ MergedAt(r, t.head) => u.st \in {"running", "merged", "lost"}

TryStep(r) ==
  /\ DOMAIN tries[r] \subseteq DOMAIN tries'[r]
  /\ \A i \in DOMAIN tries'[r] :
       IF i \in DOMAIN tries[r] THEN \/ tries'[r][i] = tries[r][i]
                                     \/ TryGuarded(r, tries[r][i], tries'[r][i])
                                     \/ TryLeaves(r, tries[r][i], tries'[r][i])
                                ELSE TryNew(r, tries'[r][i])

\* a merge of the loop is the end of a try at its merge
LandStep(r) ==
  LoopMerges(r) => /\ main' = TreeOf(main, r, Tip(r)) /\ Tip(r)' = Tip(r) /\ ~Behind(r)
                   /\ \E i \in DOMAIN tries[r] : /\ tries[r][i].at = "merge" /\ tries[r][i].got = Tip(r)
                                                 /\ tries'[r][i].at \in {"readback", "over"}
                                                 /\ tries'[r][i].got = Tip(r)
                                                 /\ tries'[r][i].st \in {"running", "merged", "lost"}

TrainStep == (train'.live /\ train'.ci = "green") => train' = train \/ TrainTree' \in tested'

Moves ==
  /\ Shape' /\ main \subseteq main' /\ tested \subseteq tested' /\ TrainStep
  /\ \A r \in Records : PrStep(r) /\ ViewStep(r) /\ RecStep(r) /\ TryStep(r) /\ LandStep(r)

LEMMA SamePr == ASSUME pr' = pr PROVE \A r \in Records : PrStep(r) /\ LandStep(r)
BY DEF PrStep, PrKept, LandStep, LoopMerges
LEMMA SameView == ASSUME Shape, \A r \in Records : view'[r] = view[r] \/ view'[r] = NotRead
                  PROVE \A r \in Records : ViewStep(r)
BY DEF ViewStep, NotRead
LEMMA SameRec == ASSUME rec' = rec PROVE \A r \in Records : RecStep(r)
BY DEF RecStep
LEMMA SameTries == ASSUME tries' = tries PROVE \A r \in Records : TryStep(r)
BY DEF TryStep
LEMMA SameTrain == ASSUME train' = train PROVE TrainStep
BY DEF TrainStep

-----------------------------------------------------------------------------
(* The steps that judge: GitHub and the tries stay. *)

LEMMA Judging ==
  ASSUME Inv, NEW r \in Records, UNCHANGED <<main, tested, pr, mainSeen, tries, act, train, upsets>>,
         \E at \in {"queue", "away", "done", "hand"}, n \in {rec[r].seq, rec[r].seq + 1} :
           rec' = [rec EXCEPT ![r].at = at, ![r].seq = n] /\ RecStep(r),
         did' = [did EXCEPT ![r] = Fresh], view' = view \/ view' = [view EXCEPT ![r] = NotRead]
  PROVE Moves
<1>1. rec' \in [Records -> RecShape] /\ \A q \in Records \ {r} : rec'[q] = rec[q]
  <2>1. PICK at \in {"queue", "away", "done", "hand"}, n \in {rec[r].seq, rec[r].seq + 1} :
          rec' = [rec EXCEPT ![r].at = at, ![r].seq = n]
    OBVIOUS
  <2>2. n \in Nat /\ rec[r] \in RecShape
    BY Fields DEF Inv, Shape
  <2>3. [rec[r] EXCEPT !.at = at, !.seq = n] \in RecShape
    BY <2>2 DEF RecShape
  <2> QED BY <2>1, <2>3 DEF Inv, Shape
<1>2. \A q \in Records : RecStep(q)
  BY <1>1 DEF RecStep
<1>3. view' \in [Records -> ViewShape] /\ \A q \in Records : ViewStep(q)
  BY TreeTypes, SameView DEF Inv, Shape
<1>4. did' \in [Records -> DidShape]
  BY TreeTypes DEF Inv, Shape
<1>5. Shape'
  BY <1>1, <1>3, <1>4 DEF Inv, Shape
<1> QED BY <1>2, <1>3, <1>5, SamePr, SameTries, SameTrain DEF Moves

LEMMA ByHandMoves == ASSUME Inv, NEW r \in Records, ByHand(r) PROVE Moves
<1>1. rec' = [rec EXCEPT ![r].at = "hand", ![r].seq = rec[r].seq]
  BY DEF ByHand, Inv, Shape, RecShape
<1>2. rec'[r].at = "hand" /\ rec'[r].oks = rec[r].oks /\ rec'[r].ver = rec[r].ver
  BY <1>1 DEF Inv, Shape, RecShape
<1>3. RecStep(r)
  BY <1>2 DEF RecStep, ByHand
<1> QED BY <1>1, <1>3, Judging DEF ByHand

LEMMA MergedMoves == ASSUME Inv, NEW r \in Records, Merged(r) PROVE Moves
<1>1. rec' = [rec EXCEPT ![r].at = "done", ![r].seq = rec[r].seq]
  BY DEF Merged, Inv, Shape, RecShape
<1>2. rec'[r].at = "done" /\ rec'[r].oks = rec[r].oks /\ rec'[r].ver = rec[r].ver
  BY <1>1 DEF Inv, Shape, RecShape
<1>3. OpenSays(r) # "ok"
  <2>1. did[r].says # "ok"
    BY DEF Inv, Shape, DidShape
  <2> QED BY <2>1 DEF OpenSays, CiSays
<1>4. (\E i \in DOMAIN tries[r] : tries[r][i].st = "merged") \/ view[r].pr.by # "open"
  BY <1>3 DEF Merged, Steps, HeadSays, OfSeq, Tries
<1>5. RecStep(r)
  BY <1>2, <1>4 DEF RecStep
<1> QED BY <1>1, <1>5, Judging DEF Merged

LEMMA AwayMoves == ASSUME Inv, NEW r \in Records, Leave(r) \/ ToBack(r) PROVE Moves
<1>0. rec \in [Records -> RecShape] /\ rec[r] \in RecShape /\ rec[r].at \in {"queue", "away", "done", "hand"}
  BY DEF Inv, Shape, RecShape
<1>1. \E at \in {"queue", "away", "done", "hand"}, n \in {rec[r].seq, rec[r].seq + 1} :
        rec' = [rec EXCEPT ![r].at = at, ![r].seq = n] /\ (at = "away" \/ at = rec[r].at)
  <2>1. CASE rec' = [rec EXCEPT ![r].at = "away"]
    <3>1. rec' = [rec EXCEPT ![r].at = "away", ![r].seq = rec[r].seq]
      BY <1>0, <2>1 DEF RecShape
    <3> QED BY <3>1
  <2>2. CASE rec' = [rec EXCEPT ![r].seq = @ + 1]
    <3>1. rec' = [rec EXCEPT ![r].at = rec[r].at, ![r].seq = rec[r].seq + 1]
      BY <1>0, <2>2 DEF RecShape
    <3> QED BY <1>0, <3>1
  <2> QED BY <2>1, <2>2 DEF Leave, ToBack
<1>2. \E at \in {"queue", "away", "done", "hand"}, n \in {rec[r].seq, rec[r].seq + 1} :
        rec' = [rec EXCEPT ![r].at = at, ![r].seq = n] /\ RecStep(r)
  <2>1. PICK at \in {"queue", "away", "done", "hand"}, n \in {rec[r].seq, rec[r].seq + 1} :
          rec' = [rec EXCEPT ![r].at = at, ![r].seq = n] /\ (at = "away" \/ at = rec[r].at)
    BY <1>1
  <2>2. rec'[r].at = at /\ rec'[r].oks = rec[r].oks /\ rec'[r].ver = rec[r].ver
    BY <2>1 DEF Inv, Shape, RecShape
  <2>3. RecStep(r)
    BY <2>1, <2>2 DEF RecStep
  <2> QED BY <2>1, <2>3
<1> QED BY <1>2, Judging DEF Leave, ToBack

-----------------------------------------------------------------------------
(* The steps that read, plan in the pass, or move the train alone. *)

\* of such a step only the types and the train are left to see
LEMMA Planning ==
  ASSUME Inv, UNCHANGED <<main, tested, pr, rec, mainSeen, tries, upsets>>, view' = view,
         did' \in [Records -> DidShape], act' \in ActShape, train' \in TrainShape, TrainStep
  PROVE Moves
<1>1. Shape'
  BY DEF Inv, Shape
<1> QED BY <1>1, SamePr, SameView, SameRec, SameTries DEF Moves, Inv

LEMMA ReadMoves == ASSUME Inv, NEW S, Read(S) PROVE Moves
<1>1. view' \in [Records -> ViewShape]
  BY DEF Read, Inv, Shape, ViewShape
<1>2. \A r \in Records : ViewStep(r)
  BY DEF Read, ViewStep, ViewShape, Inv, Shape
<1>3. Shape'
  BY <1>1 DEF Read, Inv, Shape
<1> QED BY <1>2, <1>3, SamePr, SameRec, SameTries, SameTrain DEF Read, Moves

LEMMA ActFields ==
  ASSUME Shape, NEW kind \in {"none", "update", "rerun", "train"}, NEW r \in Records
  PROVE [NoAct EXCEPT !.kind = kind, !.rec = r, !.head = Seen(r), !.main = mainSeen] \in ActShape
<1>1. NoAct \in ActShape /\ Seen(r) \in AnyHead /\ mainSeen \in AnyTree
  BY TreeTypes, Fields DEF Shape
<1> QED BY <1>1 DEF ActShape

LEMMA PlanMoves == ASSUME Inv, NEW r \in Records, PlanUpdate(r) \/ PlanRerun(r) \/ PlanTrain(r) PROVE Moves
<1>1. CASE PlanUpdate(r)
  <2>1. did' \in [Records -> DidShape]
    <3>1. [did[r] EXCEPT !.used = @ \cup {mainSeen}] \in DidShape
      BY DEF Inv, Shape, DidShape
    <3> QED BY <1>1, <3>1 DEF PlanUpdate, Inv, Shape
  <2>2. act' \in ActShape
    BY <1>1, ActFields DEF PlanUpdate, Acts, Inv
  <2> QED BY <1>1, <2>1, <2>2, Planning, SameTrain DEF PlanUpdate, Inv, Shape
<1>2. CASE PlanRerun(r)
  <2>1. act' \in ActShape
    BY <1>2, ActFields DEF PlanRerun, Acts, Inv
  <2> QED BY <1>2, <2>1, Planning, SameTrain DEF PlanRerun, Inv, Shape
<1>3. CASE PlanTrain(r)
  <2>1. PICK h \in Records :
          /\ did' = [did EXCEPT ![r].built = @ \cup {<<Seen(h), Seen(r), mainSeen>>}]
          /\ act' = [kind |-> "train", rec |-> r, head |-> Seen(h), main |-> mainSeen, under |-> h, rider |-> Seen(r)]
    BY <1>3 DEF PlanTrain
  <2>2. Seen(h) \in AnyHead /\ Seen(r) \in AnyHead /\ mainSeen \in AnyTree
    BY Fields DEF Inv, Shape
  <2>3. act' \in ActShape
    BY <2>1, <2>2 DEF ActShape
  <2>4. did' \in [Records -> DidShape]
    <3>1. <<Seen(h), Seen(r), mainSeen>> \in AnyHead \X AnyHead \X AnyTree
      BY <2>2
    <3>2. [did[r] EXCEPT !.built = @ \cup {<<Seen(h), Seen(r), mainSeen>>}] \in DidShape
      BY <3>1 DEF Inv, Shape, DidShape
    <3> QED BY <2>1, <3>2 DEF Inv, Shape
  <2> QED BY <1>3, <2>3, <2>4, Planning, SameTrain DEF PlanTrain, Inv, Shape
<1> QED BY <1>1, <1>2, <1>3

LEMMA TrainMoves ==
  ASSUME Inv, (\E r \in Records : Build(r)) \/ Drop \/ (\E res \in {"green", "red"} : TrainCi(res))
  PROVE Moves
<1>1. CASE \E r \in Records : Build(r)
  <2>1. PICK r \in Records : Build(r)
    BY <1>1
  <2>2. act.under \in Records /\ act.head \in AnyHead /\ act.rider \in AnyHead /\ act.main \in AnyTree
        /\ rec[r].seq \in Nat
    BY Fields DEF Inv, Shape, ActShape
  <2>3. train' \in TrainShape /\ TrainStep
    BY <2>1, <2>2, TreeTypes DEF Build, TrainShape, TrainStep, NoTrain
  <2>4. act' \in ActShape
    BY <2>1, TreeTypes DEF Build
  <2> QED BY <2>1, <2>3, <2>4, Planning DEF Build, Inv, Shape
<1>2. CASE Drop
  <2>1. train' \in TrainShape /\ TrainStep
    BY <1>2, TreeTypes DEF Drop, TrainStep, NoTrain
  <2> QED BY <1>2, <2>1, Planning DEF Drop, Inv, Shape
<1>3. CASE \E res \in {"green", "red"} : TrainCi(res)
  <2>1. PICK res \in {"green", "red"} : TrainCi(res)
    BY <1>3
  <2>2. train \in TrainShape /\ train' = [train EXCEPT !.ci = res]
    BY <2>1 DEF TrainCi, Inv, Shape
  <2>3. train' \in TrainShape /\ TrainTree' = TrainTree /\ train'.ci = res
    BY <2>2 DEF TrainShape, TrainTree, TreeOf
  <2>4. TrainStep /\ tested \subseteq tested'
    BY <2>1, <2>3 DEF TrainCi, TrainStep
  <2>5. Shape'
    BY <2>1, <2>3 DEF TrainCi, Inv, Shape
  <2>6. \A q \in Records : ViewStep(q)
    BY <2>1, SameView DEF TrainCi, Inv
  <2> QED BY <2>1, <2>4, <2>5, <2>6, SamePr, SameRec, SameTries DEF TrainCi, Moves
<1> QED BY <1>1, <1>2, <1>3

LEMMA HoldMoves == ASSUME Inv, NEW r \in Records, Hold(r) PROVE Moves
<1>1. Shape'
  BY DEF Hold, Upset, Inv, Shape
<1>2. \A q \in Records : ViewStep(q)
  BY SameView DEF Hold, Inv
<1> QED BY <1>1, <1>2, SamePr, SameRec, SameTries, SameTrain DEF Hold, Moves

LEMMA Unmoved == ASSUME Inv, UNCHANGED vars PROVE Moves
<1>1. Shape' /\ Inv
  BY DEF vars, Inv, Shape
<1>2. \A q \in Records : ViewStep(q)
  BY SameView DEF vars, Inv
<1> QED BY <1>1, <1>2, SamePr, SameRec, SameTries, SameTrain DEF vars, Moves

-----------------------------------------------------------------------------
(* The steps that move GitHub's PRs or main, the tries left alone. *)

\* of such a step only the types, the PRs and main are left to see
LEMMA GitHub ==
  ASSUME Inv, UNCHANGED <<mainSeen, tries, train>>, main' \in AnyTree, upsets' \in Nat, main \subseteq main', tested \subseteq tested',
         pr' \in [Records -> PrShape], rec' \in [Records -> RecShape], did' \in [Records -> DidShape],
         act' \in ActShape, view' \in [Records -> ViewShape],
         \A q \in Records : view'[q] = view[q] \/ view'[q] = NotRead,
         \A q \in Records : PrStep(q) /\ RecStep(q) /\ ~LoopMerges(q)
  PROVE Moves
<1>1. Shape'
  BY DEF Inv, Shape
<1> QED BY <1>1, SameView, SameTries, SameTrain DEF Moves, LandStep, Inv

\* a new head of an open PR: main merged into it, or a new version
LEMMA Headed ==
  ASSUME Inv, NEW r \in Records, OpenOn(r), NEW v \in Nat, NEW b \in AnyTree, NEW p \in PrShape,
         \/ b = main /\ pr[r].base # main /\ v = pr[r].ver
         \/ v = pr[r].ver + 1 /\ b \in {main, pr[r].base},
         p = WithHead(pr[r], b, v) \/ p = [WithHead(pr[r], b, v) EXCEPT !.dirty = FALSE],
         pr' = [pr EXCEPT ![r] = p]
  PROVE pr' \in [Records -> PrShape] /\ \A q \in Records : PrStep(q) /\ ~LoopMerges(q)
<1>1. pr[r] \in PrShape /\ pr[r].ver \in Nat /\ pr[r].by = "open" /\ pr[r].base \subseteq main
  BY Fields DEF Inv, Reads, OpenOn
<1>2. pr' \in [Records -> PrShape] /\ pr'[r] = p /\ \A q \in Records \ {r} : pr'[q] = pr[q]
  BY DEF Inv, Shape
<1>3. p.by = "open" /\ p.ci = "pending" /\ p.base = b /\ p.ver = v
  <2>1. WithHead(pr[r], b, v) \in PrShape
    BY <1>1, NewHead
  <2> QED BY <1>1, <2>1, NewHead DEF PrShape
<1>4. pr[r].base \subseteq b /\ b \subseteq main
  BY <1>1
<1>5. HeadOf(p) # NoHead
  <2>1. CASE b = main /\ pr[r].base # main
    BY <2>1, <1>1, <1>3 DEF HeadOf, NoHead
  <2>2. CASE v = pr[r].ver + 1
    BY <2>2, <1>1, <1>3 DEF HeadOf, NoHead
  <2> QED BY <2>1, <2>2
<1>6. PrStep(r)
  BY <1>1, <1>2, <1>3, <1>4, <1>5 DEF PrStep, PrHead, Tip
<1> QED BY <1>1, <1>2, <1>3, <1>6 DEF PrStep, PrKept, LoopMerges

LEMMA KeptPrs ==
  ASSUME Inv, pr' \in [Records -> PrShape], \A q \in Records : PrKept(pr[q], pr'[q])
  PROVE \A q \in Records : PrStep(q) /\ ~LoopMerges(q)
BY DEF PrStep, PrKept, LoopMerges

LEMMA UnreadView ==
  ASSUME Shape, NEW r \in Records, view' = [view EXCEPT ![r] = NotRead]
  PROVE view' \in [Records -> ViewShape] /\ \A q \in Records : view'[q] = view[q] \/ view'[q] = NotRead
BY TreeTypes DEF Shape

LEMMA UpdateMoves == ASSUME Inv, NEW r \in Records, Update(r) \/ UpdateFails(r) PROVE Moves
<1>1. pr' = pr \/ (OpenOn(r) /\ pr[r].base # main /\ pr' = [pr EXCEPT ![r] = WithHead(pr[r], main, pr[r].ver)])
  BY DEF Update, UpdateFails, Inv, Shape
<1>2. pr' \in [Records -> PrShape] /\ \A q \in Records : PrStep(q) /\ ~LoopMerges(q)
  <2>1. CASE pr' = pr
    BY <2>1, SamePr DEF Inv, Shape, LoopMerges
  <2>2. CASE OpenOn(r) /\ pr[r].base # main /\ pr' = [pr EXCEPT ![r] = WithHead(pr[r], main, pr[r].ver)]
    <3>1. WithHead(pr[r], main, pr[r].ver) \in PrShape /\ main \in AnyTree /\ pr[r].ver \in Nat
      BY Fields, NewHead DEF Inv, Shape
    <3> QED BY <2>2, <3>1, Headed
  <2> QED BY <1>1, <2>1, <2>2
<1>3. did' \in [Records -> DidShape]
  <2>1. act.head \in AnyHead /\ NoHead \in AnyHead /\ HeadOf(pr'[r]) \in AnyHead /\ did[r] \in DidShape
    BY <1>2, TreeTypes DEF Inv, Shape, ActShape, HeadOf, AnyHead, PrShape
  <2>2. /\ \A s \in {"none", "notok", "unknown"} : [did[r] EXCEPT !.says = s, !.of = act.head] \in DidShape
        /\ [did[r] EXCEPT !.made = @ \cup {HeadOf(pr'[r])}, !.says = "none", !.of = NoHead] \in DidShape
    BY <2>1 DEF DidShape
  <2> DEFINE made == did[r].made \cup {HeadOf(pr'[r])}
  <2>3. \/ \E s \in {"none", "notok", "unknown"} : did' = [did EXCEPT ![r].says = s, ![r].of = act.head]
        \/ did' = [did EXCEPT ![r].made = made, ![r].says = "none", ![r].of = NoHead]
    BY DEF Update, UpdateFails, Inv, Shape
  <2>4. CASE \E s \in {"none", "notok", "unknown"} : did' = [did EXCEPT ![r].says = s, ![r].of = act.head]
    BY <2>2, <2>4 DEF Inv, Shape
  <2>5. CASE did' = [did EXCEPT ![r].made = made, ![r].says = "none", ![r].of = NoHead]
    <3>1. did' = [did EXCEPT ![r] = [did[r] EXCEPT !.made = made, !.says = "none", !.of = NoHead]]
      BY <2>5 DEF Inv, Shape
    <3> QED BY <2>2, <3>1 DEF Inv, Shape
  <2> QED BY <2>3, <2>4, <2>5
<1>4. upsets' \in Nat /\ act' \in ActShape
  BY TreeTypes DEF Update, UpdateFails, Inv, Shape
<1>5. view' \in [Records -> ViewShape] /\ \A q \in Records : view'[q] = view[q] \/ view'[q] = NotRead
  BY UnreadView DEF Update, UpdateFails, Inv
<1>6. UNCHANGED <<mainSeen, tries, train, main, tested, rec>>
  BY DEF Update, UpdateFails
<1> QED BY <1>2, <1>3, <1>4, <1>5, <1>6, GitHub, SameRec DEF Inv, Shape

LEMMA RerunMoves == ASSUME Inv, NEW r \in Records, Rerun(r) PROVE Moves
<1>1. [pr[r] EXCEPT !.ci = "pending", !.again = TRUE] \in PrShape
      /\ PrKept(pr[r], [pr[r] EXCEPT !.ci = "pending", !.again = TRUE])
  BY PrFields, Fields DEF Inv
<1>2. pr' \in [Records -> PrShape] /\ \A q \in Records : PrKept(pr[q], pr'[q])
  BY <1>1 DEF Rerun, Inv, Shape, PrKept
<1>3. view' \in [Records -> ViewShape] /\ \A q \in Records : view'[q] = view[q] \/ view'[q] = NotRead
  BY UnreadView DEF Rerun, Inv
<1>4. act' \in ActShape
  BY TreeTypes DEF Rerun
<1> QED BY <1>2, <1>3, <1>4, GitHub, SameRec, KeptPrs DEF Rerun, Inv, Shape

LEMMA RejoinMoves == ASSUME Inv, NEW r \in Records, NEW fixed \in BOOLEAN, Rejoin(r, fixed) PROVE Moves
<1> DEFINE ver == IF fixed THEN pr[r].ver + 1 ELSE pr[r].ver
           p == [WithHead(pr[r], main, ver) EXCEPT !.dirty = FALSE]
<1>1. pr[r] \in PrShape /\ main \in AnyTree /\ ver \in Nat /\ rec[r] \in RecShape /\ pr[r].ver \in Nat
  BY Fields DEF Inv, Shape
<1>2. p \in PrShape
  <2>1. WithHead(pr[r], main, ver) \in PrShape
    BY <1>1, NewHead
  <2> QED BY <2>1, PrFields
<1>3. pr' \in [Records -> PrShape] /\ \A q \in Records : PrStep(q) /\ ~LoopMerges(q)
  <2>1. CASE fixed
    <3>1. OpenOn(r) /\ pr' = [pr EXCEPT ![r] = p] /\ ver = pr[r].ver + 1
      BY <2>1 DEF Rejoin, Inv, Shape
    <3> HIDE DEF ver
    <3> QED BY <1>1, <1>2, <3>1, Headed
  <2>2. CASE ~fixed
    BY <2>2, SamePr DEF Rejoin, Inv, Shape, LoopMerges
  <2> QED BY <2>1, <2>2
<1>4. rec' = [rec EXCEPT ![r] = [at |-> "queue", seq |-> rec[r].seq + 1, ver |-> ver, oks |-> rec[r].oks \cup {ver}]]
  BY DEF Rejoin, Inv, Shape
<1>5. rec' \in [Records -> RecShape] /\ \A q \in Records : RecStep(q)
  <2> HIDE DEF ver
  <2>1. [at |-> "queue", seq |-> rec[r].seq + 1, ver |-> ver, oks |-> rec[r].oks \cup {ver}] \in RecShape
    BY <1>1 DEF RecShape
  <2> QED BY <1>1, <1>4, <2>1 DEF RecStep, Approved, Inv, Shape
<1>6. view' \in [Records -> ViewShape] /\ \A q \in Records : view'[q] = view[q] \/ view'[q] = NotRead
  BY UnreadView DEF Rejoin, Inv
<1>7. did' \in [Records -> DidShape]
  BY TreeTypes DEF Rejoin, Inv, Shape
<1>8. UNCHANGED <<mainSeen, tries, train, main, tested, upsets, act>>
  BY DEF Rejoin
<1> QED BY <1>3, <1>5, <1>6, <1>7, <1>8, GitHub DEF Inv, Shape

\* a merge, by whoever
LEMMA Landed ==
  ASSUME Inv, NEW r \in Records, NEW by \in {"loop", "hand"}, OpenOn(r), Lands(r, by)
  PROVE /\ pr' \in [Records -> PrShape] /\ main' \in AnyTree /\ main \subseteq main'
        /\ \A q \in Records : PrStep(q) /\ (q # r => ~LoopMerges(q))
        /\ pr'[r].by = by /\ Tip(r)' = Tip(r)
<1>1. pr[r] \in PrShape /\ Tip(r) \in AnyHead /\ main \in AnyTree
  BY Fields DEF Inv, Shape
<1>2. main' = TreeOf(main, r, Tip(r)) /\ main' \in AnyTree /\ main \subseteq main'
  BY <1>1, TreeTypes DEF Lands, TreeOf
<1> DEFINE p == [pr[r] EXCEPT !.by = by]
<1>3. pr' = [pr EXCEPT ![r] = p]
  BY DEF Lands, Inv, Shape
<1>4. p \in PrShape /\ HeadOf(p) = Tip(r) /\ p.by = by /\ p.ci = pr[r].ci
  BY <1>1 DEF PrShape, HeadOf, Tip
<1> HIDE DEF p
<1>5. pr' \in [Records -> PrShape] /\ pr'[r] = p /\ \A q \in Records \ {r} : pr'[q] = pr[q]
  BY <1>3, <1>4 DEF Inv, Shape
<1>6. PrStep(r)
  BY <1>4, <1>5 DEF PrStep, Tip
<1> QED BY <1>2, <1>4, <1>5, <1>6 DEF PrStep, PrKept, LoopMerges, Tip

LEMMA CiMoves == ASSUME Inv, NEW r \in Records, NEW res \in {"green", "red"}, CiEnds(r, res) PROVE Moves
<1> DEFINE p == [pr[r] EXCEPT !.ci = res]
<1>1. p \in PrShape /\ HeadOf(p) = Tip(r) /\ p.by = pr[r].by /\ p.ci = res
  <2>1. pr[r] \in PrShape
    BY Fields DEF Inv
  <2> QED BY <2>1 DEF PrShape, HeadOf, Tip
<1>2. pr' = [pr EXCEPT ![r] = p]
  BY DEF CiEnds, Inv, Shape
<1> HIDE DEF p
<1>3. pr' \in [Records -> PrShape] /\ pr'[r] = p /\ \A q \in Records \ {r} : pr'[q] = pr[q]
  BY <1>1, <1>2 DEF Inv, Shape
<1>4. PrStep(r) /\ tested \subseteq tested'
  <2>1. CASE res = "green"
    BY <2>1, <1>1, <1>3 DEF CiEnds, PrStep, Tip
  <2>2. CASE res = "red"
    BY <2>2, <1>1, <1>3 DEF CiEnds, PrStep, PrKept, Tip
  <2> QED BY <2>1, <2>2
<1>5. \A q \in Records : PrStep(q) /\ ~LoopMerges(q)
  BY <1>1, <1>3, <1>4 DEF PrStep, PrKept, LoopMerges
<1>6. upsets' \in Nat
  BY DEF CiEnds, Upset, Inv, Shape
<1> QED BY <1>3, <1>4, <1>5, <1>6, GitHub, SameRec DEF CiEnds, Inv, Shape

LEMMA OutsideMoves == ASSUME Inv, Outside PROVE Moves
<1>1. upsets' \in Nat /\ main' \in AnyTree /\ main \subseteq main'
  <2>1. upsets' \in Nat /\ main \in AnyTree
    BY DEF Outside, Upset, Inv, Shape
  <2>2. main' = main \cup {<<upsets'>>}
    BY DEF Outside
  <2>3. main' \in AnyTree
    BY <2>1, <2>2, TreeTypes
  <2> QED BY <2>1, <2>2, <2>3
<1>2. PICK D \in SUBSET {r \in Records : OpenOn(r)} :
        pr' = [r \in Records |-> IF r \in D THEN [pr[r] EXCEPT !.dirty = TRUE] ELSE pr[r]]
  BY DEF Outside
<1>3. \A q \in Records : pr'[q] \in PrShape /\ PrKept(pr[q], pr'[q])
  <2> TAKE q \in Records
  <2>1. pr[q] \in PrShape
    BY Fields DEF Inv
  <2>2. [pr[q] EXCEPT !.dirty = TRUE] \in PrShape /\ PrKept(pr[q], [pr[q] EXCEPT !.dirty = TRUE])
    BY <2>1, PrFields
  <2> QED BY <1>2, <2>1, <2>2 DEF PrKept
<1>4. pr' \in [Records -> PrShape]
  BY <1>2, <1>3
<1> QED BY <1>1, <1>3, <1>4, KeptPrs, GitHub, SameRec DEF Outside, Inv, Shape

LEMMA OthersMove == ASSUME Inv, NEW r \in Records, ByOthers(r) PROVE Moves
<1>1. pr[r] \in PrShape /\ pr[r].base \in AnyTree /\ pr[r].ver \in Nat /\ main \in AnyTree
  BY Fields DEF Inv, Shape
<1>2. /\ pr' \in [Records -> PrShape] /\ main' \in AnyTree /\ main \subseteq main'
      /\ \A q \in Records : PrStep(q) /\ ~LoopMerges(q)
  <2>1. CASE pr' = [pr EXCEPT ![r] = WithHead(pr[r], pr[r].base, pr[r].ver + 1)] /\ UNCHANGED main
    <3> DEFINE v == pr[r].ver + 1
    <3>0. v \in Nat
      BY <1>1
    <3>1. v \in Nat /\ v = pr[r].ver + 1 /\ WithHead(pr[r], pr[r].base, v) \in PrShape
      <4> HIDE DEF v
      <4> QED BY <1>1, <3>0, NewHead DEF v
    <3>2. pr' \in [Records -> PrShape] /\ \A q \in Records : PrStep(q) /\ ~LoopMerges(q)
      <4>1. OpenOn(r) /\ pr' = [pr EXCEPT ![r] = WithHead(pr[r], pr[r].base, v)]
        BY <2>1 DEF ByOthers
      <4> HIDE DEF v
      <4> QED BY <1>1, <3>1, <4>1, Headed
    <3> QED BY <1>1, <2>1, <3>2
  <2>2. CASE pr[r].base # main /\ pr' = [pr EXCEPT ![r] = WithHead(pr[r], main, pr[r].ver)] /\ UNCHANGED main
    <3>1. WithHead(pr[r], main, pr[r].ver) \in PrShape
      BY <1>1, NewHead
    <3> QED BY <1>1, <2>2, <3>1, Headed DEF ByOthers
  <2>3. CASE Lands(r, "hand")
    BY <2>3, Landed DEF ByOthers, LoopMerges
  <2> QED BY <2>1, <2>2, <2>3 DEF ByOthers, Inv, Shape
<1>3. upsets' \in Nat
  BY DEF ByOthers, Upset, Inv, Shape
<1> QED BY <1>2, <1>3, GitHub, SameRec DEF ByOthers, Inv, Shape

-----------------------------------------------------------------------------
(* The steps of the tries. *)

\* a step that moves one try, and otherwise only the PRs and main, if it lands
LEMMA OneTry ==
  ASSUME Inv, NEW r \in Records, NEW i \in DOMAIN tries[r],
         UNCHANGED <<tested, rec, mainSeen, act, train>>, upsets' \in Nat,
         tries' \in [Records -> Seq(TryShape)], did' \in [Records -> DidShape], view' \in [Records -> ViewShape],
         \A q \in Records \ {r} : tries'[q] = tries[q],
         DOMAIN tries'[r] = DOMAIN tries[r], \A j \in DOMAIN tries[r] \ {i} : tries'[r][j] = tries[r][j],
         \A q \in Records : view'[q] = view[q] \/ view'[q] = NotRead,
         TryGuarded(r, tries[r][i], tries'[r][i]) \/ TryLeaves(r, tries[r][i], tries'[r][i]),
         (pr' = pr /\ main' = main) \/ (OpenOn(r) /\ Lands(r, "loop") /\ LandStep(r))
  PROVE Moves
<1>1. /\ pr' \in [Records -> PrShape] /\ main' \in AnyTree /\ main \subseteq main'
      /\ \A q \in Records : PrStep(q) /\ LandStep(q)
  <2>1. CASE pr' = pr /\ main' = main
    BY <2>1, SamePr DEF Inv, Shape
  <2>2. CASE OpenOn(r) /\ Lands(r, "loop") /\ LandStep(r)
    BY <2>2, Landed DEF LandStep
  <2> QED BY <2>1, <2>2
<1>2. \A q \in Records : TryStep(q)
  BY DEF TryStep
<1>3. Shape'
  BY <1>1 DEF Inv, Shape
<1> QED BY <1>1, <1>2, <1>3, SameView, SameRec, SameTrain DEF Moves, Inv

LEMMA CutMoves == ASSUME Inv, NEW r \in Records, NEW i \in DOMAIN tries[r], Cut(r, i) PROVE Moves
<1> DEFINE t == tries[r][i]
           u == [t EXCEPT !.at = "readback"]
<1>1. tries[r] \in Seq(TryShape) /\ t \in TryShape /\ Knows(r, i) /\ i \in DOMAIN tries[r]
  BY DEF Inv, Shape
<1>2. u \in TryShape /\ u.at = "readback" /\ u.head = t.head /\ u.got = t.got /\ u.st = t.st
      /\ u.ver = t.ver /\ u.tree = t.tree /\ u.since = t.since
  BY <1>1 DEF TryShape, TryAt
<1>3. tries' = [tries EXCEPT ![r] = [@ EXCEPT ![i] = u]]
  BY DEF Cut, Inv, Shape
<1> HIDE DEF u
<1>4. /\ tries' \in [Records -> Seq(TryShape)] /\ \A q \in Records \ {r} : tries'[q] = tries[q]
      /\ DOMAIN tries'[r] = DOMAIN tries[r] /\ tries'[r][i] = u
      /\ \A j \in DOMAIN tries[r] \ {i} : tries'[r][j] = tries[r][j]
  BY <1>1, <1>2, <1>3 DEF Inv, Shape
<1>5. t.at \in {"guard", "merge"} /\ t.st \in {"running", "lost"}
  BY <1>1 DEF Cut, At, Knows
<1>6. TryLeaves(r, tries[r][i], tries'[r][i])
  BY <1>2, <1>4, <1>5 DEF TryLeaves
<1>7. (pr' = pr /\ main' = main) \/ (OpenOn(r) /\ Lands(r, "loop") /\ LandStep(r))
  <2> SUFFICES ASSUME At(r, i, "merge"), Takes(r, t), Lands(r, "loop") PROVE LandStep(r) /\ OpenOn(r)
    BY DEF Cut
  <2>1. OpenOn(r) /\ t.got = Tip(r) /\ ~Behind(r) /\ t.at = "merge"
    BY DEF Takes, At
  <2>2. main' = TreeOf(main, r, Tip(r)) /\ Tip(r)' = Tip(r)
    BY <2>1, Landed DEF Lands
  <2> QED BY <1>2, <1>4, <1>5, <2>1, <2>2 DEF LandStep
<1>8. upsets' \in Nat
  BY DEF Cut, Inv, Shape
<1> QED BY <1>4, <1>6, <1>7, <1>8, OneTry DEF Cut, Inv, Shape

LEMMA MergeMoves == ASSUME Inv, NEW r \in Records, NEW i \in DOMAIN tries[r], Merge(r, i) PROVE Moves
<1> DEFINE t == tries[r][i]
           u == [t EXCEPT !.at = "readback"]
<1>1. tries[r] \in Seq(TryShape) /\ t \in TryShape /\ t.at = "merge" /\ t.st \in {"running", "lost"}
  BY DEF Inv, Shape, Knows, Merge, At
<1>2. CASE Takes(r, t) /\ Lands(r, "loop") /\ EndsAs(r, i, "merged", "over")
  <2>1. /\ OpenOn(r) /\ t.got = Tip(r) /\ ~Behind(r) /\ pr'[r].by = "loop"
        /\ main' = TreeOf(main, r, Tip(r)) /\ Tip(r)' = Tip(r)
    BY <1>2, Landed DEF Takes, Lands
  <2>2. /\ tries'[r][i].at = "over" /\ tries'[r][i].got = t.got /\ tries'[r][i].head = t.head
        /\ tries'[r][i].st \in {"merged", "lost"}
    BY <1>1, <1>2, TryEnds DEF Inv, Said, TrySt, TryAt
  <2>3. LandStep(r)
    BY <1>1, <2>1, <2>2 DEF LandStep
  <2>4. TryLeaves(r, t, tries'[r][i])
    BY <1>1, <2>1, <2>2 DEF TryLeaves
  <2>5. "merged" \in TrySt /\ "over" \in TryAt
    BY DEF TrySt, TryAt
  <2> QED BY <1>2, <2>1, <2>3, <2>4, <2>5, TryEnds, OneTry DEF Merge, Inv, Shape
<1>3. CASE ~Takes(r, t) /\ UNCHANGED <<main, pr>> /\ tries' = [tries EXCEPT ![r][i].at = "readback"] /\ UNCHANGED <<did, view>>
  <2>1. u \in TryShape /\ u.at = "readback" /\ u.head = t.head /\ u.got = t.got /\ u.st = t.st
        /\ u.ver = t.ver /\ u.tree = t.tree /\ u.since = t.since
    BY <1>1 DEF TryShape, TryAt
  <2>2. tries' = [tries EXCEPT ![r] = [@ EXCEPT ![i] = u]]
    BY <1>3 DEF Inv, Shape
  <2> HIDE DEF u
  <2>3. /\ tries' \in [Records -> Seq(TryShape)] /\ \A q \in Records \ {r} : tries'[q] = tries[q]
        /\ DOMAIN tries'[r] = DOMAIN tries[r] /\ tries'[r][i] = u
        /\ \A j \in DOMAIN tries[r] \ {i} : tries'[r][j] = tries[r][j]
    BY <1>1, <2>1, <2>2 DEF Inv, Shape
  <2>4. TryLeaves(r, tries[r][i], tries'[r][i])
    BY <1>1, <2>1, <2>3 DEF TryLeaves
  <2> QED BY <1>3, <2>3, <2>4, OneTry DEF Merge, Inv, Shape
<1>4. CASE ~Takes(r, t) /\ UNCHANGED <<main, pr>> /\ EndsAs(r, i, IF pr[r].dirty THEN "notok" ELSE "again", "over")
  <2> DEFINE res == IF pr[r].dirty THEN "notok" ELSE "again"
  <2>1. res \in {"notok", "again"} /\ res \in TrySt /\ "over" \in TryAt /\ EndsAs(r, i, res, "over")
    BY <1>4 DEF TrySt, TryAt
  <2> HIDE DEF res
  <2>2. /\ tries'[r][i].at = "over" /\ tries'[r][i].got = t.got /\ tries'[r][i].head = t.head
        /\ tries'[r][i].st \in {"notok", "again", "lost"}
    BY <1>1, <2>1, TryEnds DEF Inv, Said
  <2>3. TryLeaves(r, t, tries'[r][i])
    BY <1>1, <2>2 DEF TryLeaves
  <2> QED BY <1>4, <2>1, <2>3, TryEnds, OneTry DEF Merge, Inv, Shape
<1> QED BY <1>2, <1>3, <1>4 DEF Merge

LEMMA GuardPasses ==
  ASSUME NEW r, NEW t, Guard(r, t) = "pass"
  PROVE /\ Tip(r).ver = t.ver /\ pr[r].ci = "green" /\ OpenOn(r)
        /\ t.tree # {} => TreeOf(main, r, Tip(r)) = t.tree
BY DEF Guard, TrainMerge

LEMMA GuardMoves == ASSUME Inv, NEW r \in Records, NEW i \in DOMAIN tries[r], GuardEnds(r, i) PROVE Moves
<1> DEFINE t == tries[r][i]
           says == Guard(r, t)
           u == [t EXCEPT !.at = "merge", !.got = Tip(r), !.since = IF t.tree # {} THEN main ELSE @]
<1>1. tries[r] \in Seq(TryShape) /\ t \in TryShape /\ t.at = "guard" /\ t.st \in {"running", "lost"}
  BY DEF Inv, Shape, Knows, GuardEnds, At
<1>2. Tip(r) \in AnyHead /\ main \in AnyTree
  BY Fields DEF Inv, Shape
<1>3. CASE says = "pass"
  <2>1. u \in TryShape /\ u.at = "merge" /\ u.head = t.head /\ u.got = Tip(r) /\ u.st = t.st /\ u.tree = t.tree
        /\ u.since = (IF t.tree # {} THEN main ELSE t.since)
    BY <1>1, <1>2 DEF TryShape, TryAt
  <2>0. /\ tries' = [tries EXCEPT ![r][i].at = "merge", ![r][i].got = Tip(r),
                                  ![r][i].since = IF t.tree # {} THEN main ELSE @]
        /\ UNCHANGED <<did, view>>
    BY <1>3 DEF GuardEnds, TrainMerge
  <2>2. tries' = [tries EXCEPT ![r] = [@ EXCEPT ![i] = u]] /\ UNCHANGED <<did, view>>
    BY <1>1, <2>0 DEF Inv, Shape
  <2> HIDE DEF u
  <2>3. /\ tries' \in [Records -> Seq(TryShape)] /\ \A q \in Records \ {r} : tries'[q] = tries[q]
        /\ DOMAIN tries'[r] = DOMAIN tries[r] /\ tries'[r][i] = u
        /\ \A j \in DOMAIN tries[r] \ {i} : tries'[r][j] = tries[r][j]
    BY <1>1, <2>1, <2>2 DEF Inv, Shape
  <2>4. TryGuarded(r, tries[r][i], tries'[r][i])
    BY <1>1, <1>3, <2>1, <2>3, GuardPasses DEF TryGuarded, GuardEnds
  <2> QED BY <2>2, <2>3, <2>4, OneTry DEF GuardEnds, Inv, Shape
<1>4. CASE says # "pass"
  <2>1. says \in {"drop", "notok", "again", "failed"} /\ says \in TrySt /\ "over" \in TryAt
    BY <1>4 DEF Guard, TrySt, TryAt
  <2>2. EndsAs(r, i, says, "over")
    BY <1>4 DEF GuardEnds
  <2> HIDE DEF says
  <2>3. /\ tries'[r][i].at = "over" /\ tries'[r][i].got = t.got /\ tries'[r][i].head = t.head
        /\ tries'[r][i].st \in {"drop", "notok", "again", "failed", "lost"}
    BY <1>1, <2>1, <2>2, TryEnds DEF Inv, Said
  <2>4. TryLeaves(r, t, tries'[r][i])
    BY <1>1, <2>3 DEF TryLeaves
  <2>5. Shape
    BY DEF Inv
  <2>6. /\ tries' \in [Records -> Seq(TryShape)] /\ did' \in [Records -> DidShape] /\ view' \in [Records -> ViewShape]
        /\ \A q \in Records \ {r} : tries'[q] = tries[q]
        /\ \A q \in Records : view'[q] = view[q] \/ view'[q] = NotRead
        /\ DOMAIN tries'[r] = DOMAIN tries[r] /\ \A j \in DOMAIN tries[r] \ {i} : tries'[r][j] = tries[r][j]
    BY <2>1, <2>2, <2>5, TryEnds
  <2>7. UNCHANGED <<tested, rec, mainSeen, act, train>> /\ upsets' \in Nat /\ pr' = pr /\ main' = main
    BY <2>5 DEF GuardEnds, Shape
  <2> QED BY <2>4, <2>6, <2>7, OneTry
<1> QED BY <1>3, <1>4

LEMMA ReadbackMoves == ASSUME Inv, NEW r \in Records, NEW i \in DOMAIN tries[r], Readback(r, i) PROVE Moves
<1> DEFINE t == tries[r][i]
<1>1. t.at = "readback" /\ t.st \in {"running", "lost"}
  BY DEF Inv, Knows, Readback, At
<1>2. PICK res \in {"merged", "failed"} :
        /\ EndsAs(r, i, res, "over")
        /\ res = "merged" => ~OpenOn(r)
        /\ Faults = {} /\ MergedAt(r, t.head) => res = "merged"
  BY DEF Readback, MergedAt
<1>3. res \in TrySt /\ "over" \in TryAt
  BY DEF TrySt, TryAt
<1>4. /\ tries'[r][i].at = "over" /\ tries'[r][i].got = t.got /\ tries'[r][i].head = t.head
      /\ tries'[r][i].st = Said(t, res)
  BY <1>2, <1>3, TryEnds DEF Inv
<1>5. TryLeaves(r, t, tries'[r][i])
  BY <1>1, <1>2, <1>4 DEF TryLeaves, Said, OpenOn, Readback
<1>6. Shape
  BY DEF Inv
<1>7. /\ tries' \in [Records -> Seq(TryShape)] /\ did' \in [Records -> DidShape] /\ view' \in [Records -> ViewShape]
      /\ \A q \in Records \ {r} : tries'[q] = tries[q]
      /\ \A q \in Records : view'[q] = view[q] \/ view'[q] = NotRead
      /\ DOMAIN tries'[r] = DOMAIN tries[r] /\ \A j \in DOMAIN tries[r] \ {i} : tries'[r][j] = tries[r][j]
  BY <1>2, <1>3, <1>6, TryEnds
<1>8. UNCHANGED <<tested, rec, mainSeen, act, train>> /\ upsets' \in Nat /\ pr' = pr /\ main' = main
  BY <1>6 DEF Readback, Shape
<1> QED BY <1>5, <1>7, <1>8, OneTry

LEMMA LoseMoves == ASSUME Inv, NEW r \in Records, NEW i \in DOMAIN tries[r], Lose(r, i) PROVE Moves
<1> DEFINE t == tries[r][i]
<1>1. t \in TryShape /\ t.st = "running" /\ t.at # "over"
  BY DEF Inv, Shape, Knows, Lose
<1>2. PICK at \in {t.at, "over"} : EndsAs(r, i, "lost", at)
  BY DEF Lose
<1>3. "lost" \in TrySt /\ at \in TryAt
  BY <1>1 DEF TrySt, TryAt, TryShape
<1>4. /\ tries'[r][i].at = at /\ tries'[r][i].got = t.got /\ tries'[r][i].head = t.head /\ tries'[r][i].st = "lost"
      /\ at # "over" => /\ tries'[r][i].ver = t.ver /\ tries'[r][i].tree = t.tree
                        /\ tries'[r][i].since = t.since
  BY <1>1, <1>2, <1>3, TryEnds DEF Inv, Said
<1>5. TryLeaves(r, t, tries'[r][i])
  BY <1>1, <1>4 DEF TryLeaves
<1>6. upsets' \in Nat
  BY DEF Lose, Inv, Shape
<1> QED BY <1>2, <1>3, <1>5, <1>6, TryEnds, OneTry DEF Lose, Inv, Shape

\* what the head's step has read when it merges
LEMMA MergeRead ==
  ASSUME Inv, NEW r \in Records, Steps(r, "merge")
  PROVE Seen(r).ver = rec[r].ver /\ (Seen(r).base = mainSeen \/ Ready(r))
<1>1. did[r].says \in {"none", "notok", "unknown"}
  BY DEF Inv, Shape, DidShape
<1>2. OpenSays(r) = "merge"
  BY DEF Steps, HeadSays
<1> QED BY <1>1, <1>2 DEF OpenSays

LEMMA PlanMergeMoves == ASSUME Inv, NEW r \in Records, PlanMerge(r) PROVE Moves
<1> DEFINE tree == IF Ready(r) THEN TrainTree ELSE {}
           u == [seq |-> rec[r].seq, head |-> Seen(r), ver |-> rec[r].ver, tree |-> tree, since |-> mainSeen,
                 got |-> NoHead, at |-> "guard", st |-> "running"]
<1>1. /\ tries[r] \in Seq(TryShape) /\ Seen(r) \in AnyHead /\ rec[r].seq \in Nat /\ rec[r].ver \in Nat /\ mainSeen \in AnyTree
      /\ TrainTree \in AnyTree /\ NoHead \in AnyHead /\ tree \in AnyTree
  BY Fields, TreeTypes DEF Inv, Shape
<1>2. tries' = [tries EXCEPT ![r] = Append(@, u)]
  BY DEF PlanMerge
<1>3. tree = {} => mainSeen \subseteq pr[r].base
  <2> SUFFICES ASSUME tree = {} PROVE mainSeen \subseteq pr[r].base
    OBVIOUS
  <2>1. ~Ready(r)
    BY DEF TrainTree, TreeOf
  <2>2. Seen(r).base = mainSeen
    BY <2>1, MergeRead DEF PlanMerge
  <2> QED BY <2>2 DEF Inv, Reads
<1>4. tree # {} => tree \in tested
  BY DEF Ready, TrainOf, Inv, Greens
<1>5. u \in TryShape
  <2> HIDE DEF tree
  <2> QED BY <1>1 DEF TryShape, TryAt, TrySt
<1>6. TryNew(r, u)
  <2> HIDE DEF tree
  <2> QED BY <1>3, <1>4 DEF TryNew, PlanMerge
<1> HIDE DEF u
<1>7. /\ tries' \in [Records -> Seq(TryShape)] /\ \A q \in Records \ {r} : tries'[q] = tries[q]
      /\ tries'[r] = Append(tries[r], u)
  BY <1>1, <1>2, <1>5 DEF Inv, Shape
<1>8. /\ DOMAIN tries[r] \subseteq DOMAIN tries'[r] /\ \A j \in DOMAIN tries[r] : tries'[r][j] = tries[r][j]
      /\ \A j \in DOMAIN tries'[r] : j \in DOMAIN tries[r] \/ tries'[r][j] = u
  BY <1>1, <1>5, <1>7
<1>9. \A q \in Records : TryStep(q)
  BY <1>6, <1>7, <1>8 DEF TryStep
<1>10. Shape'
  BY <1>7 DEF PlanMerge, Inv, Shape
<1>11. \A q \in Records : ViewStep(q)
  BY SameView DEF PlanMerge, Inv
<1> QED BY <1>9, <1>10, <1>11, SamePr, SameRec, SameTrain DEF PlanMerge, Moves

LEMMA NextMoves == ASSUME Inv, [Next]_vars PROVE Moves
<1>1. ASSUME NEW r \in Records, Judged(r) PROVE Moves
  BY <1>1, ByHandMoves, MergedMoves, AwayMoves DEF Judged, Unknown, PastWait
<1>2. ASSUME NEW r \in Records, Planned(r) PROVE Moves
  BY <1>2, PlanMoves, PlanMergeMoves DEF Planned
<1>3. ASSUME NEW r \in Records, Acted(r) PROVE Moves
  BY <1>3, UpdateMoves, RerunMoves, TrainMoves DEF Acted
<1>4. ASSUME NEW r \in Records, NEW i \in DOMAIN tries[r], Runs(r, i) \/ Cut(r, i) \/ Lose(r, i) PROVE Moves
  BY <1>4, GuardMoves, MergeMoves, ReadbackMoves, CutMoves, LoseMoves DEF Runs
<1> QED BY <1>1, <1>2, <1>3, <1>4, ReadMoves, HoldMoves, OthersMove, RejoinMoves, CiMoves, TrainMoves, OutsideMoves,
           Unmoved DEF Next

-----------------------------------------------------------------------------
(* The invariant holds. *)

LEMMA InvInit == Init => Inv /\ OnlyApproved /\ OwnHead /\ \A r \in Records : Owned(r)
<1> SUFFICES ASSUME Init PROVE Inv /\ OnlyApproved /\ OwnHead /\ \A r \in Records : Owned(r)
  OBVIOUS
<1>1. \A r \in Records : /\ pr[r] = FirstPr /\ Tip(r) = NoHead /\ Seen(r) = NoHead /\ view[r].pr = FirstPr
                         /\ tries[r] = <<>> /\ DOMAIN tries[r] = {}
  <2>1. HeadOf(FirstPr) = NoHead /\ NotRead.pr = FirstPr
    BY DEF HeadOf, FirstPr, NoHead, NotRead
  <2>2. \A r \in Records : pr[r] = FirstPr /\ view[r] = NotRead /\ tries[r] = <<>>
    BY DEF Init
  <2>3. DOMAIN <<>> = {}
    OBVIOUS
  <2> QED BY <2>1, <2>2, <2>3 DEF Tip, Seen
<1>2. {} \in AnyTree /\ 0 \in Nat
  BY TreeTypes
<1>3. rec \in [Records -> RecShape] /\ tries \in [Records -> Seq(TryShape)]
  BY DEF Init, RecShape
<1>4. Shape
  BY <1>2, <1>3, TreeTypes DEF Shape, Init
<1>5. Greens
  BY <1>1 DEF Greens, Init, NoTrain
<1>6. \A r \in Records : Reads(r)
  BY <1>1 DEF Reads, Init, FirstPr, NoHead
<1>7. \A r \in Records : Approved(r)
  BY DEF Approved, Init
<1>8. OnlyApproved /\ \A r \in Records : Owned(r)
  BY <1>1 DEF OnlyApproved, Owned, FirstPr
<1>9. OwnHead
  BY DEF OwnHead, Init
<1> QED BY <1>1, <1>4, <1>5, <1>6, <1>7, <1>8, <1>9 DEF Inv

\* a merged PR stays as it is
LEMMA Settled ==
  ASSUME NEW r \in Records, PrStep(r), ~OpenOn(r)
  PROVE pr'[r].by = pr[r].by /\ Tip(r)' = Tip(r)
BY DEF PrStep, PrKept, Tip

LEMMA TipsGrow ==
  ASSUME Inv, Moves, NEW r \in Records
  PROVE pr[r].base \subseteq pr'[r].base /\ pr'[r].base \subseteq main' /\ (Tip(r)' = NoHead => Tip(r) = NoHead)
<1>1. pr[r].base \subseteq main /\ main \subseteq main' /\ PrStep(r)
  BY DEF Inv, Reads, Moves
<1>2. Tip(r)' = Tip(r) => pr'[r].base = pr[r].base
  BY DEF Tip, HeadOf
<1>3. CASE Tip(r)' = Tip(r)
  BY <1>1, <1>2, <1>3
<1>4. CASE PrHead(pr[r], pr'[r]) /\ pr'[r].base \subseteq main /\ Tip(r)' # NoHead
  BY <1>1, <1>4 DEF PrHead
<1> QED BY <1>1, <1>3, <1>4 DEF PrStep, PrKept, Tip

LEMMA TriesKeep ==
  ASSUME Inv, Moves, NEW r \in Records, NEW i \in DOMAIN tries[r]
  PROVE /\ i \in DOMAIN tries'[r] /\ tries'[r][i].head = tries[r][i].head
        /\ tries[r][i].got # NoHead => tries'[r][i].got = tries[r][i].got
<1>1. TryStep(r) /\ Knows(r, i)
  BY DEF Moves, Inv
<1> QED BY <1>1 DEF TryStep, TryGuarded, TryLeaves, Knows

LEMMA ReadsStep == ASSUME Inv, Moves, NEW r \in Records PROVE Reads(r)'
<1>1. Reads(r) /\ PrStep(r) /\ ViewStep(r) /\ TryStep(r)
  BY DEF Inv, Moves
<1>2. pr[r].base \subseteq pr'[r].base /\ pr'[r].base \subseteq main' /\ (Tip(r)' = NoHead => Tip(r) = NoHead)
  BY TipsGrow
<1>3. HeadOf(FirstPr) = NoHead /\ NoHead.base = {} /\ FirstPr.by = "open"
  BY DEF HeadOf, FirstPr, NoHead
<1>4. \/ view'[r].pr = view[r].pr /\ Seen(r)' = Seen(r)
      \/ view'[r].pr = FirstPr /\ Seen(r)' = NoHead
      \/ view'[r].pr = pr[r] /\ pr'[r] = pr[r] /\ Seen(r)' = Tip(r) /\ Tip(r)' = Tip(r)
  BY <1>1, <1>3 DEF ViewStep, Seen, Tip
<1>5. Seen(r)'.base \subseteq pr'[r].base
  <2>1. Tip(r).base = pr[r].base
    BY DEF Tip, HeadOf
  <2> QED BY <1>1, <1>2, <1>3, <1>4, <2>1 DEF Reads
<1>6. view'[r].pr.by # "open" => view'[r].pr.by = pr'[r].by /\ Seen(r)' = Tip(r)'
  BY <1>1, <1>3, <1>4, Settled DEF Reads, OpenOn
<1>7. ASSUME Tip(r)' = NoHead PROVE Seen(r)' = NoHead /\ \A i \in DOMAIN tries'[r] : tries'[r][i].head = NoHead
  <2>1. Tip(r) = NoHead /\ Seen(r) = NoHead /\ \A i \in DOMAIN tries[r] : tries[r][i].head = NoHead
    BY <1>1, <1>2, <1>7 DEF Reads
  <2>2. \A i \in DOMAIN tries'[r] : tries'[r][i].head = NoHead
    BY <1>1, <2>1 DEF TryStep, TryNew, TryGuarded, TryLeaves
  <2> QED BY <1>4, <2>1, <2>2
<1> QED BY <1>2, <1>5, <1>6, <1>7 DEF Reads

LEMMA GreensStep == ASSUME Inv, Moves PROVE Greens'
<1>1. ASSUME NEW r \in Records, pr'[r].ci = "green" PROVE TreeOf({}, r, Tip(r))' \in tested'
  <2>1. PrStep(r) /\ tested \subseteq tested' /\ (pr[r].ci = "green" => TreeOf({}, r, Tip(r)) \in tested)
    BY DEF Inv, Moves, Greens
  <2>2. Tip(r)' = Tip(r) => TreeOf({}, r, Tip(r))' = TreeOf({}, r, Tip(r))
    BY DEF TreeOf
  <2>3. Tip(r)' = Tip(r) /\ (pr[r].ci = "green" \/ TreeOf({}, r, Tip(r)) \in tested')
    BY <1>1, <2>1 DEF PrStep, PrKept, PrHead, Tip
  <2> QED BY <2>1, <2>2, <2>3
<1>2. train'.live /\ train'.ci = "green" => TrainTree' \in tested'
  BY DEF Inv, Moves, Greens, TrainStep, TrainTree
<1> QED BY <1>1, <1>2 DEF Greens

LEMMA KnowsStep == ASSUME Inv, Moves, NEW r \in Records, NEW i \in DOMAIN tries'[r] PROVE Knows(r, i)'
<1> DEFINE t == tries[r][i]
           u == tries'[r][i]
<1>1. /\ rec[r].oks \subseteq rec'[r].oks /\ tested \subseteq tested' /\ pr[r].base \subseteq pr'[r].base
      /\ TryStep(r) /\ Approved(r) /\ (~OpenOn(r) => ~OpenOn(r)')
  BY TipsGrow, Settled DEF Inv, Moves, RecStep, OpenOn
<1>2. CASE i \in DOMAIN tries[r] /\ u = t
  BY <1>1, <1>2 DEF Inv, Knows
<1>3. CASE i \in DOMAIN tries[r] /\ TryGuarded(r, t, u)
  <2>1. Knows(r, i) /\ TreeOf({}, r, Tip(r)) \in tested
    BY <1>3 DEF Inv, Greens, TryGuarded
  <2> QED BY <1>1, <1>3, <2>1 DEF TryGuarded, Knows
<1>4. CASE i \in DOMAIN tries[r] /\ TryLeaves(r, t, u)
  <2>1. Knows(r, i)
    BY <1>4 DEF Inv
  <2> QED BY <1>1, <1>4, <2>1 DEF TryLeaves, Knows, OpenOn
<1>5. CASE i \notin DOMAIN tries[r] /\ TryNew(r, u)
  BY <1>1, <1>5 DEF TryNew, Knows, Approved
<1> QED BY <1>1, <1>2, <1>3, <1>4, <1>5 DEF TryStep

LEMMA InvMoves == ASSUME Inv, Moves PROVE Inv'
<1>1. Shape'
  BY DEF Moves
<1>2. \A r \in Records : Approved(r)'
  BY DEF Inv, Moves, RecStep, Approved
<1> QED BY <1>1, <1>2, ReadsStep, GreensStep, KnowsStep DEF Inv

-----------------------------------------------------------------------------
(* What it gives. *)

\* where a merge of the loop leaves its PR and main
LEMMA LandMoves ==
  ASSUME Inv, Moves, NEW r \in Records, LoopMerges(r)
  PROVE /\ pr'[r].ver \in rec'[r].oks
        /\ main' \in tested \/ (trains /\ \E t \in Tries(r) : t.at = "merge" /\ t.since # main)
        /\ \E i \in DOMAIN tries'[r] : Owner(r, i)'
<1>1. /\ main' = TreeOf(main, r, Tip(r)) /\ Tip(r)' = Tip(r) /\ ~Behind(r) /\ TryStep(r)
      /\ rec[r].oks \subseteq rec'[r].oks /\ Reads(r)
  BY DEF Moves, LandStep, RecStep, Inv
<1>2. PICK i \in DOMAIN tries[r] :
        /\ tries[r][i].at = "merge" /\ tries[r][i].got = Tip(r)
        /\ tries'[r][i].at \in {"readback", "over"} /\ tries'[r][i].got = Tip(r)
        /\ tries'[r][i].st \in {"running", "merged", "lost"}
  BY DEF Moves, LandStep
<1> DEFINE t == tries[r][i]
<1>3. /\ t.got.ver \in rec[r].oks /\ TreeOf({}, r, t.got) \in tested
      /\ t.tree # {} => TreeOf(t.since, r, t.got) = t.tree /\ t.tree \in tested
      /\ t.tree = {} => t.since \subseteq pr[r].base
  BY <1>2 DEF Inv, Knows
<1>4. pr'[r].ver \in rec'[r].oks
  BY <1>1, <1>2, <1>3 DEF Tip, HeadOf
<1>5. pr[r].base = main => main' \in tested
  <2>1. Tip(r).base = pr[r].base
    BY DEF Tip, HeadOf
  <2> QED BY <1>1, <1>2, <1>3, <2>1 DEF TreeOf
<1>6. t.since = main => main' \in tested
  BY <1>1, <1>2, <1>3, <1>5 DEF Reads
<1>7. main' \in tested \/ (trains /\ \E s \in Tries(r) : s.at = "merge" /\ s.since # main)
  <2>1. t \in Tries(r)
    BY DEF Tries
  <2> QED BY <1>1, <1>2, <1>5, <1>6, <2>1 DEF Behind, Strict
<1>8. i \in DOMAIN tries'[r] /\ Owner(r, i)'
  BY <1>1, <1>2 DEF TryStep, Owner
<1> QED BY <1>4, <1>7, <1>8

\* OnlyApproved: the loop merges only a version a review approved, whoever pushes meanwhile
THEOREM ApprovedHolds == Spec => []OnlyApproved
<1>1. Inv /\ OnlyApproved /\ [Next]_vars => Inv' /\ OnlyApproved'
  <2> SUFFICES ASSUME Inv, OnlyApproved, [Next]_vars PROVE Inv' /\ OnlyApproved'
    OBVIOUS
  <2>1. Moves
    BY NextMoves
  <2>2. ASSUME NEW r \in Records, pr'[r].by = "loop", pr[r].by = "loop" PROVE pr'[r].ver \in rec'[r].oks
    <3>1. pr[r].ver \in rec[r].oks /\ rec[r].oks \subseteq rec'[r].oks
      BY <2>1, <2>2 DEF OnlyApproved, Moves, RecStep
    <3>2. pr'[r].ver = pr[r].ver
      BY <2>1, <2>2, Settled DEF Moves, OpenOn, Tip, HeadOf
    <3> QED BY <3>1, <3>2
  <2>3. ASSUME NEW r \in Records, pr'[r].by = "loop", pr[r].by # "loop" PROVE pr'[r].ver \in rec'[r].oks
    BY <2>1, <2>3, LandMoves DEF LoopMerges
  <2> QED BY <2>1, <2>2, <2>3, InvMoves DEF OnlyApproved
<1> QED BY <1>1, InvInit, PTL DEF Spec

\* Tested: a merge of the loop leaves main on a tree CI passed, or, with trains, main moved since its check
THEOREM TestedHolds == Spec => Tested
<1>1. Inv /\ [Next]_vars => Inv'
  BY NextMoves, InvMoves
<1>2. Inv /\ [Next]_vars =>
        [\A r \in Records : LoopMerges(r) =>
           \/ main' \in tested
           \/ trains /\ \E t \in Tries(r) : t.at = "merge" /\ t.since # main]_vars
  BY NextMoves, LandMoves
<1> QED BY <1>1, <1>2, InvInit, PTL DEF Spec, Tested

\* OwnHead, where a merge's read-back does not fail: the loop's own merge is not taken for a hand merge
THEOREM OwnHolds == ASSUME Faults = {} PROVE Spec => []OwnHead
<1> DEFINE I == Inv /\ OwnHead /\ \A r \in Records : Owned(r)
<1>1. I /\ [Next]_vars => I'
  <2> SUFFICES ASSUME Inv, OwnHead, \A r \in Records : Owned(r), [Next]_vars PROVE I'
    OBVIOUS
  <2>1. Moves /\ Inv'
    BY NextMoves, InvMoves
  <2>2. ASSUME NEW r \in Records PROVE Owned(r)'
    <3>1. CASE LoopMerges(r)
      BY <2>1, <3>1, LandMoves DEF Owned
    <3>2. CASE pr[r].by = "loop"
      <4>1. Tip(r)' = Tip(r) /\ TryStep(r)
        BY <2>1, <3>2, Settled DEF Moves, OpenOn
      <4>2. PICK i \in DOMAIN tries[r] : Owner(r, i)
        BY <3>2 DEF Owned
      <4> DEFINE t == tries[r][i]
                 u == tries'[r][i]
      <4>3. i \in DOMAIN tries'[r] /\ (u = t \/ TryLeaves(r, t, u))
        BY <4>1, <4>2 DEF TryStep, TryGuarded, Owner
      <4>4. t.head = t.got => MergedAt(r, t.head)
        BY <3>2, <4>2 DEF Owner, MergedAt, OpenOn
      <4>5. Owner(r, i)'
        BY <4>1, <4>2, <4>3, <4>4 DEF Owner, TryLeaves
      <4> QED BY <4>3, <4>5 DEF Owned
    <3> QED BY <3>1, <3>2 DEF Owned, LoopMerges
  <2>3. ASSUME NEW r \in Records, rec'[r].at = "done" PROVE pr'[r].by # "open"
    <3>1. pr[r].by # "open"
      BY <2>1, <2>3 DEF Moves, RecStep, OwnHead, Inv, Knows, OpenOn, Reads
    <3> QED BY <2>1, <3>1, Settled DEF Moves, OpenOn
  <2>4. ASSUME NEW r \in Records, NEW i \in DOMAIN tries[r], tries[r][i].got \notin {NoHead, tries[r][i].head}
        PROVE \E t \in Tries(r)' : t.got \notin {NoHead, t.head}
    BY <2>1, <2>4, TriesKeep DEF Tries
  <2>5. ASSUME NEW r \in Records, rec'[r].at = "hand"
        PROVE pr'[r].by = "hand" \/ \E t \in Tries(r)' : t.got \notin {NoHead, t.head}
    <3>1. CASE rec[r].at = "hand"
      <4>1. pr[r].by = "hand" \/ \E i \in DOMAIN tries[r] : tries[r][i].got \notin {NoHead, tries[r][i].head}
        BY <3>1 DEF OwnHead, Tries
      <4> QED BY <2>1, <2>4, <4>1, Settled DEF Moves, OpenOn
    <3>2. CASE view[r].pr.by # "open" /\ ~Named(r) /\ pr' = pr /\ tries' = tries
      <4>1. Reads(r) /\ pr[r].by = view[r].pr.by /\ Seen(r) = Tip(r) /\ pr[r].by \in {"open", "loop", "hand"}
        BY <3>2 DEF Inv, Reads, Shape, PrShape
      <4>2. CASE pr[r].by = "loop"
        <5>1. PICK i \in DOMAIN tries[r] : Owner(r, i)
          BY <4>2 DEF Owned
        <5>2. tries[r][i].head # tries[r][i].got
          BY <3>2, <4>1, <5>1 DEF Owner, Named, Tries
        <5>3. tries[r][i].got # NoHead
          BY <4>1, <5>1, <5>2 DEF Owner, Reads
        <5> QED BY <2>4, <5>2, <5>3
      <4> QED BY <3>2, <4>1, <4>2
    <3> QED BY <2>1, <2>5, <3>1, <3>2 DEF Moves, RecStep
  <2> QED BY <2>1, <2>2, <2>3, <2>5 DEF OwnHead
<1>2. Init => I
  BY InvInit
<1>3. I => OwnHead
  OBVIOUS
<1> QED BY <1>1, <1>2, <1>3, PTL DEF Spec
=============================================================================
