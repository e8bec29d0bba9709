----------------------------- MODULE MergeQueue -----------------------------
(***************************************************************************)
(* The merge queue: the head's step (update, CI, merge), the one-deep      *)
(* merge train, and the merge command that runs off the pass, against      *)
(* GitHub with other people on it. A commit's content is the set of        *)
(* changes in it: a PR's head is the main it was last merged with and the  *)
(* PR's own version, and merging is union, unless GitHub calls it dirty.   *)
(*                                                                         *)
(* Left out: linkage and policy refusals (both leave the queue), a closed  *)
(* PR's reopening, the release hold, rate limits, mergeability GitHub has  *)
(* not computed, the train branches' deletion and sweep on origin.         *)
(***************************************************************************)
EXTENDS Naturals, Sequences, FiniteSets, Functions

CONSTANTS
  Records,     \* the records with an approved PR
  Start,       \* the queue as it stands first
  Faults,      \* what the code does not rule out (FaultNames)
  MergeTries,  \* the merge tries of one head in one seq (MERGE_TRIES)
  MaxSeq,      \* bound: how often records come back to the queue, in all
  MaxUpsets    \* bound: what other people do, and calls that fail or are cut off

\* "readback": the read after a merge that was cut off fails, as the merge's answer did
FaultNames == {"readback"}

ASSUME StartAssumption ==
  /\ Start \in Seq(Records) /\ Start # <<>> /\ Faults \subseteq FaultNames
  /\ \A r \in Records : \E i \in DOMAIN Start : Start[i] = r
  /\ \A i, j \in DOMAIN Start : Start[i] = Start[j] => i = j
ASSUME BoundsAssumption == {MergeTries, MaxSeq, MaxUpsets} \subseteq Nat

VARIABLES
  trains,      \* the mergeTrain setting; without it strict branch protection is on
  main,        \* the content of GitHub's main
  tested,      \* the trees CI passed
  pr,          \* GitHub's PR of each record
  rec,         \* each record: where it is, its seq, the version and all versions a review approved
  order,       \* the records in the queue, oldest seqAt first
  held,        \* the records of the queue paused, or held by the owner's label
  view,        \* each PR as last read; unread once something of the loop ended on it
  mainSeen,    \* main as last read
  did,         \* each record, in its seq: the mains updated onto, the heads made, the trains built,
               \* and what its newest ended try says of which head
  tries,       \* each record: the merge tries of its life
  act,         \* the action that runs in the pass
  train,       \* the live train
  upsets

vars == <<trains, main, tested, pr, rec, order, held, view, mainSeen, did, tries, act, train, upsets>>

Versions == 0..(MaxUpsets + MaxSeq)
Others == 1..MaxUpsets
Trees == SUBSET ((Records \X Versions) \cup {<<n>> : n \in Others})
Heads == [base : Trees, ver : Versions]
Pr == [by : {"open", "loop", "hand"}, base : Trees, ver : Versions, dirty : BOOLEAN,
       ci : {"pending", "green", "red"}, again : BOOLEAN]
Rec == [at : {"queue", "away", "done", "hand"}, seq : 0..MaxSeq, ver : Versions, oks : SUBSET Versions]
Try == [seq : 0..MaxSeq, head : Heads, ver : Versions, tree : Trees, since : Trees, got : Heads,
        at : {"guard", "merge", "readback", "over"},
        st : {"running", "merged", "again", "drop", "notok", "failed", "lost"}]
Act == [kind : {"none", "update", "rerun", "train"}, rec : Records, head : Heads, main : Trees,
        under : Records, rider : Heads]
Train == [live : BOOLEAN, rec : Records, seq : 0..MaxSeq, under : Records, head : Heads, rider : Heads,
          main : Trees, ci : {"pending", "green", "red"}]

NoHead == [base |-> {}, ver |-> 0]
FirstPr == [by |-> "open", base |-> {}, ver |-> 0, dirty |-> FALSE, ci |-> "green", again |-> FALSE]
NotRead == [read |-> FALSE, pr |-> FirstPr]
NoAct == [kind |-> "none", rec |-> Start[1], head |-> NoHead, main |-> {}, under |-> Start[1], rider |-> NoHead]
NoTrain == [live |-> FALSE, rec |-> Start[1], seq |-> 0, under |-> Start[1], head |-> NoHead, rider |-> NoHead,
            main |-> {}, ci |-> "red"]
Fresh == [used |-> {}, made |-> {}, built |-> {}, says |-> "none", of |-> NoHead]

-----------------------------------------------------------------------------
(* Heads and trees. *)

HeadOf(p) == [base |-> p.base, ver |-> p.ver]
Tip(r) == HeadOf(pr[r])
Seen(r) == HeadOf(view[r].pr)
TreeOf(m, r, h) == m \cup h.base \cup {<<r, h.ver>>}
TrainTree == TreeOf(TreeOf({}, train.under, train.head), train.rec, train.rider)
WithHead(p, base, ver) == [p EXCEPT !.base = base, !.ver = ver, !.ci = "pending", !.again = FALSE]
OpenOn(r) == pr[r].by = "open"

Queue == SelectSeq(order, LAMBDA r : r \notin held)
IsHead(r) == Queue # <<>> /\ Queue[1] = r
Queued == {order[i] : i \in DOMAIN order}
Tries(r) == {tries[r][i] : i \in DOMAIN tries[r]}
OfSeq(r) == {t \in Tries(r) : t.seq = rec[r].seq}

TypeOK ==
  /\ trains \in BOOLEAN /\ main \in Trees /\ tested \subseteq Trees /\ mainSeen \in Trees
  /\ pr \in [Records -> Pr] /\ rec \in [Records -> Rec]
  /\ order \in Seq(Records) /\ held \subseteq Records
  /\ view \in [Records -> [read : BOOLEAN, pr : Pr]]
  /\ \A r \in Records : did[r].used \subseteq Trees /\ did[r].made \subseteq Heads
                        /\ did[r].says \in {"none", "notok", "unknown"} /\ did[r].of \in Heads
  /\ tries \in [Records -> Seq(Try)] /\ act \in Act /\ train \in Train
  /\ upsets \in 0..MaxUpsets

Init ==
  /\ trains \in BOOLEAN
  /\ main = {} /\ mainSeen = {}
  /\ pr = [r \in Records |-> FirstPr]
  /\ tested = {TreeOf({}, r, NoHead) : r \in Records}
  /\ rec = [r \in Records |-> [at |-> "queue", seq |-> 0, ver |-> 0, oks |-> {0}]]
  /\ order = Start /\ held = {}
  /\ view = [r \in Records |-> NotRead]
  /\ did = [r \in Records |-> Fresh]
  /\ tries = [r \in Records |-> <<>>]
  /\ act = NoAct /\ train = NoTrain
  /\ upsets = 0

-----------------------------------------------------------------------------
(* A pass's reads. Main is read each time, a PR once its read is due. *)

Read(S) ==
  /\ act.kind = "none" /\ S \subseteq Records /\ \A r \in Records \ S : view[r].read
  /\ mainSeen' = main
  /\ view' = [r \in Records |-> IF r \in S THEN [read |-> TRUE, pr |-> pr[r]] ELSE view[r]]
  /\ UNCHANGED <<trains, main, tested, pr, rec, order, held, did, tries, act, train, upsets>>

-----------------------------------------------------------------------------
(* The live train (endOf, trainStateOf). *)

TrainOf(r) == trains /\ train.live /\ train.rec = r /\ train.seq = rec[r].seq
IsNext(r) == Len(Queue) > 1 /\ Queue[2] = r
UnderIsHead == IsHead(train.under) /\ Seen(train.under) = train.head

Stands(r) == IF mainSeen = train.main THEN IsNext(r) /\ UnderIsHead
             ELSE /\ mainSeen = TreeOf({}, train.under, train.head)
                  /\ IsHead(r) \/ (IsNext(r) /\ IsHead(train.under))

Ended ==
  LET r == train.rec
  IN  \/ \E t \in Tries(r) : t.seq = train.seq /\ t.st \in {"merged", "drop"}
      \/ rec[r].at # "queue" \/ rec[r].seq # train.seq
      \/ view[r].pr.by # "open" \/ Seen(r) # train.rider
      \/ train.ci = "red"
      \/ ~Stands(r)

Waiting(r) == TrainOf(r) /\ ~Ended /\ train.ci = "pending"
Ready(r) == TrainOf(r) /\ ~Ended /\ train.ci = "green"

-----------------------------------------------------------------------------
(* The head's step (headStep, openHead, update, merge): what it says this pass. *)

\* mutant: a try whose entry was lost is never taken for a merge
NamedEnded(r) == \E t \in Tries(r) : t.st \in {"running", "merged"} /\ t.head = Seen(r)
Named(r) == \E t \in Tries(r) : t.st \in {"running", "merged", "lost"} /\ t.head = Seen(r)
Counted(r) == {i \in DOMAIN tries[r] : /\ tries[r][i].seq = rec[r].seq /\ tries[r][i].head = Seen(r)
                                       /\ tries[r][i].st # "drop"}

CiSays(r) ==
  LET p == view[r].pr
  IN  IF p.ci = "pending" THEN "wait"
      ELSE IF p.ci = "red" THEN (IF p.again THEN "notok" ELSE "rerun")
      ELSE IF Cardinality(Counted(r)) >= MergeTries THEN "unknown" ELSE "merge"

OpenSays(r) ==
  IF did[r].says # "none" /\ did[r].of = Seen(r) THEN did[r].says
  ELSE IF Seen(r).ver # rec[r].ver \/ view[r].pr.dirty THEN "notok"
  ELSE IF Waiting(r) THEN "wait"
  ELSE IF Seen(r).base # mainSeen /\ ~Ready(r) THEN (IF mainSeen \in did[r].used THEN "wait" ELSE "update")
  ELSE CiSays(r)

\* mutant: a merge no try of the seq reports is left to GitHub's event, which never comes for the loop's own
HeadSaysHeld(r) ==
  IF \E t \in OfSeq(r) : t.st = "running" THEN "running"
  ELSE IF \E t \in OfSeq(r) : t.st = "merged" THEN "ok"
  ELSE IF view[r].pr.by # "open" THEN "held" ELSE OpenSays(r)

HeadSays(r) ==
  IF \E t \in OfSeq(r) : t.st = "running" THEN "running"
  ELSE IF \E t \in OfSeq(r) : t.st = "merged" THEN "ok"
  ELSE IF view[r].pr.by # "open" THEN (IF Named(r) THEN "ok" ELSE "held")
  ELSE OpenSays(r)

Plans(r) == act.kind = "none" /\ r \in Queued /\ (\A q \in Queued : view[q].read)
Steps(r, says) == Plans(r) /\ IsHead(r) /\ HeadSays(r) = says

-----------------------------------------------------------------------------
(* The record's transitions. *)

\* how often records came back to the queue
Back == FoldFunction(LAMBDA p, n : p.seq + n, 0, rec)

Out(r) == SelectSeq(order, LAMBDA q : q # r)

\* a PR merged with no try of the loop to name it is a hand merge (E3), taken before the step
ByHand(r) ==
  /\ act.kind = "none" /\ rec[r].at \in {"queue", "away"}
  /\ view[r].read /\ view[r].pr.by # "open" /\ ~Named(r)
  /\ rec' = [rec EXCEPT ![r].at = "hand"]
  /\ order' = Out(r) /\ did' = [did EXCEPT ![r] = Fresh]
  /\ UNCHANGED <<trains, main, tested, pr, held, view, mainSeen, tries, act, train, upsets>>

Merged(r) ==
  /\ Steps(r, "ok")
  /\ view[r].pr.by # "open" => Named(r)
  /\ rec' = [rec EXCEPT ![r].at = "done"]
  /\ order' = Out(r) /\ did' = [did EXCEPT ![r] = Fresh]
  /\ UNCHANGED <<trains, main, tested, pr, held, view, mainSeen, tries, act, train, upsets>>

\* not ok: to a fixer, to review or to the owner
Leave(r) ==
  /\ Steps(r, "notok")
  /\ rec' = [rec EXCEPT ![r].at = "away"]
  /\ order' = Out(r) /\ did' = [did EXCEPT ![r] = Fresh]
  /\ view' = [view EXCEPT ![r] = NotRead]
  /\ UNCHANGED <<trains, main, tested, pr, held, mainSeen, tries, act, train, upsets>>

\* unknown: tried again from the back of the queue, at last away; a wait on GitHub past its bound is one
ToBack(r) ==
  /\ IF Back < MaxSeq
       THEN /\ rec' = [rec EXCEPT ![r].seq = @ + 1]
            /\ order' = Append(Out(r), r)
       ELSE /\ rec' = [rec EXCEPT ![r].at = "away"]
            /\ order' = Out(r)
  /\ did' = [did EXCEPT ![r] = Fresh]
  /\ view' = [view EXCEPT ![r] = NotRead]
  /\ UNCHANGED <<trains, main, tested, pr, held, mainSeen, tries, act, train, upsets>>

Unknown(r) == Steps(r, "unknown") /\ ToBack(r)
PastWait(r) == Steps(r, "wait") /\ ToBack(r)

\* back after a review, with or without a fix: what the review saw is approved
Rejoin(r, fixed) ==
  /\ rec[r].at = "away" /\ Back < MaxSeq /\ OpenOn(r)
  /\ LET ver == IF fixed THEN pr[r].ver + 1 ELSE pr[r].ver
     IN  /\ pr' = IF fixed THEN [pr EXCEPT ![r] = [WithHead(@, main, ver) EXCEPT !.dirty = FALSE]] ELSE pr
         /\ rec' = [rec EXCEPT ![r] = [at |-> "queue", seq |-> @.seq + 1, ver |-> ver, oks |-> @.oks \cup {ver}]]
  /\ order' = Append(order, r)
  /\ did' = [did EXCEPT ![r] = Fresh]
  /\ view' = [view EXCEPT ![r] = NotRead]
  /\ UNCHANGED <<trains, main, tested, held, mainSeen, tries, act, train, upsets>>

-----------------------------------------------------------------------------
(* The actions that run in the pass: Q1's update, a CI re-run, Q3's train. *)

Acting(kind, r) == act.kind = kind /\ act.rec = r
Acts(kind, r) == act' = [NoAct EXCEPT !.kind = kind, !.rec = r, !.head = Seen(r), !.main = mainSeen]

PlanUpdate(r) ==
  /\ Steps(r, "update") /\ Acts("update", r)
  /\ did' = [did EXCEPT ![r].used = @ \cup {mainSeen}]
  /\ UNCHANGED <<trains, main, tested, pr, rec, order, held, view, mainSeen, tries, train, upsets>>

\* main merged into the branch, or found in it; the head is read back
Update(r) ==
  /\ Acting("update", r) /\ OpenOn(r)
  /\ IF pr[r].dirty
       THEN /\ did' = [did EXCEPT ![r].says = "notok", ![r].of = act.head]
            /\ UNCHANGED pr
       ELSE /\ pr' = IF pr[r].base = main THEN pr ELSE [pr EXCEPT ![r] = WithHead(@, main, @.ver)]
            /\ did' = [did EXCEPT ![r].made = @ \cup {HeadOf(pr'[r])}, ![r].says = "none", ![r].of = NoHead]
  /\ act' = NoAct
  /\ view' = [view EXCEPT ![r] = NotRead]
  /\ UNCHANGED <<trains, main, tested, rec, order, held, mainSeen, tries, train, upsets>>

\* it fails, or is lost to a reload, whether or not GitHub took it
UpdateFails(r) ==
  /\ Acting("update", r)
  /\ \/ upsets < MaxUpsets /\ upsets' = upsets + 1
     \/ ~OpenOn(r) /\ UNCHANGED upsets
  /\ \/ UNCHANGED pr
     \/ OpenOn(r) /\ ~pr[r].dirty /\ pr[r].base # main /\ pr' = [pr EXCEPT ![r] = WithHead(@, main, @.ver)]
  /\ did' = [did EXCEPT ![r].says = "unknown", ![r].of = act.head]
  /\ act' = NoAct
  /\ view' = [view EXCEPT ![r] = NotRead]
  /\ UNCHANGED <<trains, main, tested, rec, order, held, mainSeen, tries, train>>

PlanRerun(r) ==
  /\ Steps(r, "rerun") /\ Acts("rerun", r)
  /\ UNCHANGED <<trains, main, tested, pr, rec, order, held, view, mainSeen, did, tries, train, upsets>>

Rerun(r) ==
  /\ Acting("rerun", r)
  /\ pr' = IF Tip(r) = act.head /\ pr[r].ci = "red" THEN [pr EXCEPT ![r].ci = "pending", ![r].again = TRUE] ELSE pr
  /\ act' = NoAct
  /\ view' = [view EXCEPT ![r] = NotRead]
  /\ UNCHANGED <<trains, main, tested, rec, order, held, mainSeen, did, tries, train, upsets>>

\* Q3: the next record is tested on the updated head, while the head's CI runs or is green
PlanTrain(r) ==
  /\ trains /\ ~train.live /\ Plans(r) /\ IsNext(r)
  /\ \E h \in Records : LET key == <<Seen(h), Seen(r), mainSeen>> IN
         /\ IsHead(h)
         /\ \A q \in {h, r} : view[q].pr.by = "open" /\ Seen(q).ver = rec[q].ver /\ ~view[q].pr.dirty
         /\ Seen(h).base = mainSeen /\ Seen(h) \in did[h].made /\ view[h].pr.ci # "red"
         /\ view[r].pr.ci = "green"
         /\ ~\E t \in OfSeq(r) : t.st = "drop"
         /\ key \notin did[r].built
         /\ did' = [did EXCEPT ![r].built = @ \cup {key}]
         /\ act' = [kind |-> "train", rec |-> r, head |-> Seen(h), main |-> mainSeen, under |-> h, rider |-> Seen(r)]
  /\ UNCHANGED <<trains, main, tested, pr, rec, order, held, view, mainSeen, tries, train, upsets>>

\* both tips must still be the ones the plan read, and the two must merge
Build(r) ==
  /\ Acting("train", r)
  /\ train' = IF Tip(act.under) = act.head /\ Tip(r) = act.rider /\ ~pr[r].dirty
                THEN [live |-> TRUE, rec |-> r, seq |-> rec[r].seq, under |-> act.under, head |-> act.head,
                      rider |-> act.rider, main |-> act.main, ci |-> "pending"]
                ELSE NoTrain
  /\ act' = NoAct
  /\ UNCHANGED <<trains, main, tested, pr, rec, order, held, view, mainSeen, did, tries, upsets>>

\* an ended train is deleted, and never stands again
Drop ==
  /\ act.kind = "none" /\ train.live /\ (\A q \in Queued : view[q].read) /\ Ended
  /\ train' = NoTrain
  /\ UNCHANGED <<trains, main, tested, pr, rec, order, held, view, mainSeen, did, tries, act, upsets>>

-----------------------------------------------------------------------------
(* Q2's merge, off the pass: the guard, GitHub's merge, the read-back.     *)
(* A try whose entry ended (lost to a reload, or expired) may go on.       *)

TrainMerge(t) == t.tree # {}
Strict == ~trains
Behind(r) == Strict /\ pr[r].base # main

\* mutant: a merge carries no patch, so the guard asks only what CI says
GuardAny(r, t) == IF pr[r].ci # "green" THEN "again" ELSE IF ~OpenOn(r) THEN "failed" ELSE "pass"
\* mutant: the guard does not compare the merge's tree with the tested one
GuardNoTree(r, t) ==
  IF Tip(r).ver # t.ver \/ (OpenOn(r) /\ pr[r].dirty) THEN "notok"
  ELSE IF (OpenOn(r) /\ Behind(r)) \/ pr[r].ci # "green" THEN "again"
  ELSE IF ~OpenOn(r) THEN "failed" ELSE "pass"

\* of several refusals, the class that decides most
Guard(r, t) ==
  IF TrainMerge(t) /\ (pr[r].dirty \/ TreeOf(main, r, Tip(r)) # t.tree) THEN "drop"
  ELSE IF Tip(r).ver # t.ver \/ (OpenOn(r) /\ pr[r].dirty) THEN "notok"
  ELSE IF (OpenOn(r) /\ Behind(r)) \/ pr[r].ci # "green" THEN "again"
  ELSE IF ~OpenOn(r) THEN "failed" ELSE "pass"

PlanMerge(r) ==
  /\ Steps(r, "merge")
  /\ tries' = [tries EXCEPT ![r] = Append(@, [seq |-> rec[r].seq, head |-> Seen(r), ver |-> rec[r].ver,
                 tree |-> IF Ready(r) THEN TrainTree ELSE {}, since |-> mainSeen, got |-> NoHead,
                 at |-> "guard", st |-> "running"])]
  /\ UNCHANGED <<trains, main, tested, pr, rec, order, held, view, mainSeen, did, act, train, upsets>>

At(r, i, at) == i \in DOMAIN tries[r] /\ tries[r][i].at = at

\* the entry ends, unless it has; its PR is read again, and the step reads what it says
Says(res) == CASE res = "notok" -> "notok" [] res \in {"failed", "lost"} -> "unknown" [] OTHER -> "none"
EndsAs(r, i, res, at) ==
  LET t == tries[r][i]
      runs == t.st = "running"
      \* a try that is over keeps its head and what it said
      carried == IF at = "over" THEN [t EXCEPT !.ver = 0, !.tree = {}, !.since = {}] ELSE t
  IN  /\ tries' = [tries EXCEPT ![r][i] = [carried EXCEPT !.at = at, !.st = IF runs THEN res ELSE @]]
      /\ did' = IF runs /\ t.seq = rec[r].seq /\ rec[r].at = "queue"
                  THEN [did EXCEPT ![r].says = Says(res), ![r].of = IF Says(res) = "none" THEN NoHead ELSE t.head]
                  ELSE did
      /\ view' = IF runs THEN [view EXCEPT ![r] = NotRead] ELSE view

GuardEnds(r, i) ==
  /\ At(r, i, "guard")
  /\ \E says \in {Guard(r, tries[r][i])} :
       IF says = "pass"
         THEN /\ tries' = [tries EXCEPT ![r][i].at = "merge", ![r][i].got = Tip(r),
                                       ![r][i].since = IF TrainMerge(tries[r][i]) THEN main ELSE @]
              /\ UNCHANGED <<did, view>>
         ELSE EndsAs(r, i, says, "over")
  /\ UNCHANGED <<trains, main, tested, pr, rec, order, held, mainSeen, act, train, upsets>>

\* GitHub takes a merge of the head the guard verified, and with strict protection none behind main
Takes(r, t) == OpenOn(r) /\ Tip(r) = t.got /\ ~pr[r].dirty /\ ~Behind(r)
Lands(r, by) == pr' = [pr EXCEPT ![r].by = by] /\ main' = TreeOf(main, r, Tip(r))

Merge(r, i) ==
  /\ At(r, i, "merge")
  /\ \/ Takes(r, tries[r][i]) /\ Lands(r, "loop") /\ EndsAs(r, i, "merged", "over")
     \/ /\ ~Takes(r, tries[r][i]) /\ UNCHANGED <<main, pr>>
        /\ IF ~OpenOn(r) \/ Tip(r) # tries[r][i].got
             THEN tries' = [tries EXCEPT ![r][i].at = "readback"] /\ UNCHANGED <<did, view>>
             ELSE EndsAs(r, i, IF pr[r].dirty THEN "notok" ELSE "again", "over")
  /\ UNCHANGED <<trains, tested, rec, order, held, mainSeen, act, train, upsets>>

\* cut off by its timeout, before or after GitHub took the merge
Cut(r, i) ==
  /\ upsets < MaxUpsets /\ upsets' = upsets + 1
  /\ At(r, i, "guard") \/ At(r, i, "merge")
  /\ \/ UNCHANGED <<main, pr>>
     \/ At(r, i, "merge") /\ Takes(r, tries[r][i]) /\ Lands(r, "loop")
  /\ tries' = [tries EXCEPT ![r][i].at = "readback"]
  /\ UNCHANGED <<trains, tested, rec, order, held, view, mainSeen, did, act, train>>

MergedAt(r, head) == ~OpenOn(r) /\ Tip(r) = head

Readback(r, i) ==
  /\ At(r, i, "readback")
  /\ \/ EndsAs(r, i, IF MergedAt(r, tries[r][i].head) THEN "merged" ELSE "failed", "over")
     \/ "readback" \in Faults /\ EndsAs(r, i, "failed", "over")
  /\ UNCHANGED <<trains, main, tested, pr, rec, order, held, mainSeen, act, train, upsets>>

\* a reload, or the off-pass bound, ends the entry; its command goes on, or is gone
Lose(r, i) ==
  /\ upsets < MaxUpsets /\ upsets' = upsets + 1
  /\ i \in DOMAIN tries[r] /\ tries[r][i].st = "running"
  /\ \E at \in {tries[r][i].at, "over"} : EndsAs(r, i, "lost", at)
  /\ UNCHANGED <<trains, main, tested, pr, rec, order, held, mainSeen, act, train>>

-----------------------------------------------------------------------------
(* GitHub's CI, and everyone else. *)

Upset == upsets < MaxUpsets /\ upsets' = upsets + 1

CiEnds(r, res) ==
  /\ OpenOn(r) /\ pr[r].ci = "pending"
  /\ pr' = [pr EXCEPT ![r].ci = res]
  /\ IF res = "green" THEN tested' = tested \cup {TreeOf({}, r, Tip(r))} /\ UNCHANGED upsets
                      ELSE Upset /\ UNCHANGED tested
  /\ UNCHANGED <<trains, main, rec, order, held, view, mainSeen, did, tries, act, train>>

TrainCi(res) ==
  /\ train.live /\ train.ci = "pending"
  /\ train' = [train EXCEPT !.ci = res]
  /\ tested' = IF res = "green" THEN tested \cup {TrainTree} ELSE tested
  /\ UNCHANGED <<trains, main, pr, rec, order, held, view, mainSeen, did, tries, act, upsets>>

\* someone else's change on main, which some open PRs conflict with
Outside ==
  /\ Upset /\ main' = main \cup {<<upsets'>>}
  /\ \E D \in SUBSET {r \in Records : OpenOn(r)} :
       pr' = [r \in Records |-> IF r \in D THEN [pr[r] EXCEPT !.dirty = TRUE] ELSE pr[r]]
  /\ UNCHANGED <<trains, tested, rec, order, held, view, mainSeen, did, tries, act, train>>

\* someone else on the PR: a commit, GitHub's update button, or the merge
ByOthers(r) ==
  /\ Upset /\ OpenOn(r)
  /\ \/ pr' = [pr EXCEPT ![r] = WithHead(@, @.base, @.ver + 1)] /\ UNCHANGED main
     \/ ~pr[r].dirty /\ pr[r].base # main /\ pr' = [pr EXCEPT ![r] = WithHead(@, main, @.ver)] /\ UNCHANGED main
     \/ ~pr[r].dirty /\ ~Behind(r) /\ Lands(r, "hand")
  /\ UNCHANGED <<trains, tested, rec, order, held, view, mainSeen, did, tries, act, train>>

\* the owner pauses or labels a record, and takes it back
Hold(r) ==
  /\ IF r \in held THEN held' = held \ {r} /\ UNCHANGED upsets ELSE r \in Queued /\ held' = held \cup {r} /\ Upset
  /\ UNCHANGED <<trains, main, tested, pr, rec, order, view, mainSeen, did, tries, act, train>>

-----------------------------------------------------------------------------

Acted(r) == Update(r) \/ UpdateFails(r) \/ Rerun(r) \/ Build(r)
Runs(r, i) == GuardEnds(r, i) \/ Merge(r, i) \/ Readback(r, i)
Judged(r) == Merged(r) \/ Leave(r) \/ Unknown(r) \/ PastWait(r) \/ ByHand(r)
Planned(r) == PlanUpdate(r) \/ PlanRerun(r) \/ PlanMerge(r) \/ PlanTrain(r)

Next ==
  \/ \E S \in SUBSET Records : Read(S)
  \/ \E r \in Records : Judged(r) \/ Planned(r) \/ Acted(r) \/ Hold(r) \/ ByOthers(r)
  \/ \E r \in Records, fixed \in BOOLEAN : Rejoin(r, fixed)
  \/ \E r \in Records : \E i \in DOMAIN tries[r] : Runs(r, i) \/ Cut(r, i) \/ Lose(r, i)
  \/ \E r \in Records, res \in {"green", "red"} : CiEnds(r, res)
  \/ \E res \in {"green", "red"} : TrainCi(res)
  \/ Drop \/ Outside

Spec == Init /\ [][Next]_vars

\* passes read and plan, and commands end
FairSpec ==
  /\ Spec
  /\ WF_vars(Read(Records))
  /\ WF_vars(Drop \/ \E r \in Records : Judged(r) \/ Planned(r) \/ Acted(r))
  /\ \A r \in Records : WF_vars(\E i \in DOMAIN tries[r] : Runs(r, i))

-----------------------------------------------------------------------------

\* the loop merges only a version of a PR that a review approved, whoever pushes meanwhile
OnlyApproved == \A r \in Records : pr[r].by = "loop" => pr[r].ver \in rec[r].oks

\* the tries of a record that GitHub's merge is the effect of
LoopMerges(r) == pr[r].by # "loop" /\ pr'[r].by = "loop"

\* a merge of the loop leaves main on a tree CI passed, unless main moved, with strict
\* protection off, since the merge's own check of it
Tested ==
  [][\A r \in Records : LoopMerges(r) =>
       \/ main' \in tested
       \/ trains /\ \E t \in Tries(r) : t.at = "merge" /\ t.since # main]_vars

\* every merge of the loop leaves main on a tree CI passed (SPEC 9.3, 9.8 and property 21)
DocTested == [][\A r \in Records : LoopMerges(r) => main' \in tested]_vars

\* the loop's own merge is never taken for a hand merge, unless a merge's guard verified another head
\* than its plan read, and no record is done with its PR open
OwnHead == \A r \in Records :
  /\ rec[r].at = "hand" => pr[r].by = "hand" \/ \E t \in Tries(r) : t.got \notin {NoHead, t.head}
  /\ rec[r].at = "done" => pr[r].by # "open"

\* the loop's own merge is never taken for a hand merge (act-queue.ts), and no record is done
\* with its PR open
OwnMerge == \A r \in Records : /\ rec[r].at = "hand" => pr[r].by = "hand"
                               /\ rec[r].at = "done" => pr[r].by # "open"

\* the head with others behind it merges, leaves or goes to the back: it never blocks the queue
QueueMoves == \A r \in Records : (IsHead(r) /\ Len(Queue) > 1) ~> ~(IsHead(r) /\ Len(Queue) > 1)
=============================================================================
