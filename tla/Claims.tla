------------------------------- MODULE Claims -------------------------------
(***************************************************************************)
(* One issue's claims: fabriek-claim, its --heartbeat, fabriek-sweep and   *)
(* the rule of claim-events.sh, on several devices. GitHub is the store: a *)
(* claim is a comment with a lease that runs from the comment's last edit, *)
(* and the earliest live one wins. Beside it stands the event log, each    *)
(* device's own and what has been pushed, whose last claim event says who  *)
(* holds the issue. Every command reads, then acts on what it read.        *)
(*                                                                         *)
(* Left out: trust (an untrusted comment is not read), the events' data,   *)
(* the assignee, the sweep's comment and its rule 7, old and shadow event  *)
(* sources. Device clocks are taken to agree where the log is ordered.     *)
(***************************************************************************)
EXTENDS Naturals, Sequences, FiniteSets

CONSTANTS
  Devices,     \* the devices with a loop on the repository
  Lease,       \* a claim's lease (FABRIEK_LEASE_MINUTES), in ticks
  OpMax,       \* the longest a command runs before its timeout ends it, in ticks
  Races,       \* what the code does not rule out (RaceNames)
  MaxPosts,    \* bound: claim comments posted
  MaxUpsets    \* bound: commands that fail or are cut off, and merges and closes by hand

\* "late": a device renews, keeps or requeues its claim with less of the lease left than that may take;
\* "slip": a claim takes the ready label off between a sweep's setting it and the sweep's event;
\* "unlogged": a claim is cut off, or its event refused, after it took the ready label off
RaceNames == {"late", "slip", "unlogged"}

ASSUME DevicesAssumption == Devices # {}
ASSUME TimesAssumption == Lease \in Nat /\ OpMax \in Nat /\ OpMax < Lease
ASSUME BoundsAssumption == MaxPosts \in Nat /\ MaxUpsets \in Nat /\ Races \subseteq RaceNames

VARIABLES
  comments,    \* the claim comments in the order GitHub made them
  ready,       \* the issue has the ready label
  over,        \* how the issue ended outside the factory: a PR merged when so many comments stood, or closed
  log,         \* the claim events, in time's order
  cmd,         \* each device's fabriek-claim
  sweep,       \* each device's fabriek-sweep
  works,       \* each device: its loop took the issue and has not let it go
  upsets

vars == <<comments, ready, over, log, cmd, sweep, works, upsets>>

Ids == 1..MaxPosts
Comment == [dev : Devices, left : 0..Lease, gone : BOOLEAN, won : BOOLEAN]
Events == [dev : Devices, kind : {"claimed", "requeued", "left"}, pushed : BOOLEAN]
CmdAt == {"idle", "keep", "delete", "post", "reread", "judge", "withdraw", "labels", "event", "renew", "requeue", "requeued"}
Cmd == [at : CmdAt, id : 0..MaxPosts, age : 0..OpMax, seen : [Ids -> 0..Lease]]
SweepAt == {"idle", "read", "label", "event"}
Sweep == [at : SweepAt, age : 0..OpMax]

Blind == [i \in Ids |-> 0]
IdleCmd == [at |-> "idle", id |-> 0, age |-> 0, seen |-> Blind]
IdleSweep == [at |-> "idle", age |-> 0]

-----------------------------------------------------------------------------
(* The claim comments (CLAIMS_JQ) and the last claim event (claim-events.sh). *)

Standing == {i \in DOMAIN comments : ~comments[i].gone}
Live(i) == comments[i].left > 0
OwnLive(d) == {i \in Standing : Live(i) /\ comments[i].dev = d}
ForeignLive(d) == {i \in Standing : Live(i) /\ comments[i].dev # d}
IsFirst(i, S) == i \in S /\ \A j \in S : i <= j
IsNewest(i, S) == i \in S /\ \A j \in S : j <= i
Newest(S) == CHOOSE i \in S : IsNewest(i, S)
NoSlip == (\A e \in Devices : sweep[e].at # "event") \/ "slip" \in Races
InTime(i) == comments[i].left > OpMax \/ "late" \in Races

\* what device d reads: its own log, and the pushed events where the central store answers
Visible(d, central) == {i \in DOMAIN log : log[i].dev = d \/ (central /\ log[i].pushed)}
LastKind(d, central) == IF Visible(d, central) = {} THEN "none" ELSE log[Newest(Visible(d, central))].kind
HeldBy(d, central) == /\ LastKind(d, central) = "claimed"
                      /\ log[Newest(Visible(d, central))].dev = d

\* an event of a device replaces its older ones that no reader can take for the last one any more
Without(d, pushed) == SelectSeq(log, LAMBDA e : e.dev # d \/ e.pushed # pushed)
Logged(d, kind) == Append(Without(d, FALSE), [dev |-> d, kind |-> kind, pushed |-> FALSE])

TypeOK ==
  /\ comments \in Seq(Comment) /\ Len(comments) <= MaxPosts
  /\ ready \in BOOLEAN
  /\ over \in [merged : 0..MaxPosts, closed : BOOLEAN]
  /\ log \in Seq(Events)
  /\ cmd \in [Devices -> Cmd]
  /\ sweep \in [Devices -> Sweep]
  /\ works \in [Devices -> BOOLEAN]
  /\ upsets \in 0..MaxUpsets

Init ==
  /\ comments = <<>>
  /\ ready = TRUE
  /\ over = [merged |-> 0, closed |-> FALSE]
  /\ log = <<>>
  /\ cmd = [d \in Devices |-> IdleCmd]
  /\ sweep = [d \in Devices |-> IdleSweep]
  /\ works = [d \in Devices |-> FALSE]
  /\ upsets = 0

-----------------------------------------------------------------------------
(* fabriek-claim N. *)

At(d, at) == cmd[d].at = at
Goes(d, at, id) == cmd' = [cmd EXCEPT ![d].at = at, ![d].id = id]
Ends(d) == cmd' = [cmd EXCEPT ![d] = IdleCmd]

MayPost == Len(comments) + Cardinality({d \in Devices : cmd[d].at \in {"delete", "post"}}) < MaxPosts

\* the first read: another device's live claim ends it (exit 3); a live claim of its own is kept
\* while the log says this device holds the issue, else deleted before a fresh one
BeginClaim(d) ==
  /\ At(d, "idle") /\ ~over.closed /\ MayPost
  /\ IF ForeignLive(d) # {}
       THEN works[d] /\ works' = [works EXCEPT ![d] = FALSE] /\ UNCHANGED cmd
       ELSE /\ UNCHANGED works
            /\ IF OwnLive(d) = {}
                 THEN Goes(d, "post", 0)
                 ELSE \E i \in OwnLive(d), central \in BOOLEAN :
                        /\ IsFirst(i, OwnLive(d))
                        /\ IF HeldBy(d, central) THEN InTime(i) /\ Goes(d, "keep", i) ELSE Goes(d, "delete", i)
  /\ UNCHANGED <<comments, ready, over, log, sweep, upsets>>

Delete(d) ==
  /\ At(d, "delete")
  /\ comments' = [comments EXCEPT ![cmd[d].id].gone = TRUE]
  /\ Goes(d, "post", 0)
  /\ UNCHANGED <<ready, over, log, sweep, works, upsets>>

Post(d) ==
  /\ At(d, "post") /\ Len(comments) < MaxPosts
  /\ comments' = Append(comments, [dev |-> d, left |-> Lease, gone |-> FALSE, won |-> FALSE])
  /\ Goes(d, "reread", Len(comments) + 1)
  /\ UNCHANGED <<ready, over, log, sweep, works, upsets>>

\* the comments, with what each one's lease has left; the clock is read after them
Reread(d) ==
  /\ At(d, "reread")
  /\ cmd' = [cmd EXCEPT ![d].at = "judge",
                        ![d].seen = [i \in Ids |-> IF i \in Standing THEN comments[i].left ELSE 0]]
  /\ UNCHANGED <<comments, ready, over, log, sweep, works, upsets>>

SeenLive(d) == {i \in Ids : cmd[d].seen[i] > 0}
\* mutant: any live claim of its own wins
WinsAny(d) == cmd[d].id \in SeenLive(d)
\* mutant: a claim with a rival loses
WinsAlone(d) == SeenLive(d) = {cmd[d].id}
Wins(d) == IsFirst(cmd[d].id, SeenLive(d))

Judge(d) ==
  /\ At(d, "judge")
  /\ IF Wins(d)
       THEN /\ Goes(d, "labels", cmd[d].id)
            /\ comments' = [comments EXCEPT ![cmd[d].id].won = TRUE]
            /\ UNCHANGED works
       ELSE /\ Goes(d, "withdraw", cmd[d].id)
            /\ works' = [works EXCEPT ![d] = FALSE]
            /\ UNCHANGED comments
  /\ UNCHANGED <<ready, over, log, sweep, upsets>>

\* drop_mine: its own comment only
Withdraw(d) ==
  /\ At(d, "withdraw")
  /\ comments' = [comments EXCEPT ![cmd[d].id].gone = TRUE, ![cmd[d].id].won = FALSE]
  /\ Ends(d)
  /\ UNCHANGED <<ready, over, log, sweep, works, upsets>>

Labels(d) ==
  /\ At(d, "labels") /\ NoSlip
  /\ ready' = FALSE
  /\ Goes(d, "event", cmd[d].id)
  /\ UNCHANGED <<comments, over, log, sweep, works, upsets>>

\* the claimed event, and exit 0
Claimed(d) ==
  /\ At(d, "event")
  /\ log' = Logged(d, "claimed")
  /\ works' = [works EXCEPT ![d] = TRUE]
  /\ Ends(d)
  /\ UNCHANGED <<comments, ready, over, sweep, upsets>>

\* its own live claim kept: the label off, nothing posted, no event
Keep(d) ==
  /\ At(d, "keep") /\ NoSlip
  /\ ready' = FALSE
  /\ comments' = [comments EXCEPT ![cmd[d].id].won = TRUE]
  /\ works' = [works EXCEPT ![d] = TRUE]
  /\ Ends(d)
  /\ UNCHANGED <<over, log, sweep, upsets>>

\* a call to GitHub fails: a fresh claim withdraws, the others end; a withdrawal that fails leaves
\* its comment, an event that fails is a warning
Fail(d) ==
  /\ upsets < MaxUpsets /\ upsets' = upsets + 1
  /\ \/ /\ cmd[d].at \in {"reread", "labels"}
        /\ Goes(d, "withdraw", cmd[d].id)
        /\ UNCHANGED works
     \/ /\ cmd[d].at \in {"keep", "delete", "post", "withdraw", "renew"}
        /\ Ends(d)
        /\ UNCHANGED works
     \/ /\ At(d, "event") /\ "unlogged" \in Races
        /\ works' = [works EXCEPT ![d] = TRUE]
        /\ Ends(d)
  /\ UNCHANGED <<comments, ready, over, log, sweep>>

\* the command is ended by its timeout or with its container
Cut(d) ==
  /\ upsets < MaxUpsets /\ upsets' = upsets + 1
  /\ cmd[d].at \in {"keep", "delete", "post", "reread", "judge", "withdraw", "labels", "event", "renew"}
  /\ At(d, "event") => "unlogged" \in Races
  /\ Ends(d)
  /\ UNCHANGED <<comments, ready, over, log, sweep, works>>

-----------------------------------------------------------------------------
(* fabriek-claim --heartbeat, and the loop's release. *)

\* the loop's own issues by number, or those the log says this device holds
BeginRenew(d) ==
  /\ At(d, "idle")
  /\ works[d] \/ (~over.closed /\ \E central \in BOOLEAN : HeldBy(d, central))
  /\ \E i \in OwnLive(d) : IsNewest(i, OwnLive(d)) /\ InTime(i) /\ Goes(d, "renew", i)
  /\ UNCHANGED <<comments, ready, over, log, sweep, works, upsets>>

Renew(d) ==
  /\ At(d, "renew")
  /\ comments' = [comments EXCEPT ![cmd[d].id].left = Lease]
  /\ Ends(d)
  /\ UNCHANGED <<ready, over, log, sweep, works, upsets>>

\* the loop lets the issue go: back to the queue, its label before its event, or out of the factory
Release(d) ==
  /\ At(d, "idle") /\ works[d]
  /\ works' = [works EXCEPT ![d] = FALSE]
  /\ \/ /\ "late" \in Races \/ \E i \in OwnLive(d) : InTime(i)
        /\ Goes(d, "requeue", 0) /\ UNCHANGED log
     \/ UNCHANGED cmd /\ log' = Logged(d, "left")
  /\ UNCHANGED <<comments, ready, over, sweep, upsets>>

Requeue(d) ==
  /\ At(d, "requeue")
  /\ ready' = TRUE
  /\ Goes(d, "requeued", 0)
  /\ UNCHANGED <<comments, over, log, sweep, works, upsets>>

Requeued(d) ==
  /\ At(d, "requeued")
  /\ log' = Logged(d, "requeued")
  /\ Ends(d)
  /\ UNCHANGED <<comments, ready, over, sweep, works, upsets>>

-----------------------------------------------------------------------------
(* fabriek-sweep. *)

SweepGoes(d, at) == sweep' = [sweep EXCEPT ![d].at = at]
SweepEnds(d) == sweep' = [sweep EXCEPT ![d] = IdleSweep]

\* the candidates: an issue no claim event of which ended its last claim (released)
SweepLoad(d, central) ==
  /\ sweep[d].at = "idle" /\ LastKind(d, central) \in {"claimed", "none"}
  /\ SweepGoes(d, "read")
  /\ UNCHANGED <<comments, ready, over, log, cmd, works, upsets>>

\* closed, or a PR merged after the newest claim: its event and no more; live or no claim: left alone
SweepRead(d) ==
  /\ sweep[d].at = "read"
  /\ IF over.closed \/ (Standing # {} /\ Newest(Standing) <= over.merged)
       THEN log' = Logged(d, "left") /\ SweepEnds(d)
       ELSE /\ UNCHANGED log
            /\ IF Standing = {} \/ Live(Newest(Standing)) THEN SweepEnds(d) ELSE SweepGoes(d, "label")
  /\ UNCHANGED <<comments, ready, over, cmd, works, upsets>>

\* mutant: the event alone
SweepLabelNot(d) ==
  /\ sweep[d].at = "label"
  /\ SweepGoes(d, "event")
  /\ UNCHANGED <<comments, ready, over, log, cmd, works, upsets>>

SweepLabel(d) ==
  /\ sweep[d].at = "label"
  /\ ready' = TRUE
  /\ SweepGoes(d, "event")
  /\ UNCHANGED <<comments, over, log, cmd, works, upsets>>

SweepEvent(d) ==
  /\ sweep[d].at = "event"
  /\ log' = Logged(d, "requeued")
  /\ SweepEnds(d)
  /\ UNCHANGED <<comments, ready, over, cmd, works, upsets>>

SweepCut(d) ==
  /\ upsets < MaxUpsets /\ upsets' = upsets + 1
  /\ sweep[d].at # "idle"
  /\ SweepEnds(d)
  /\ UNCHANGED <<comments, ready, over, log, cmd, works>>

-----------------------------------------------------------------------------
(* The event push, the owner and the clock. *)

Push(d) ==
  /\ \E i \in DOMAIN log : log[i].dev = d /\ ~log[i].pushed
  /\ LET rest == Without(d, TRUE)
     IN  log' = [i \in DOMAIN rest |-> IF rest[i].dev = d THEN [rest[i] EXCEPT !.pushed = TRUE] ELSE rest[i]]
  /\ UNCHANGED <<comments, ready, over, cmd, sweep, works, upsets>>

MergedByHand ==
  /\ upsets < MaxUpsets /\ upsets' = upsets + 1
  /\ comments # <<>> /\ over.merged = 0 /\ ~over.closed
  /\ over' = [over EXCEPT !.merged = Len(comments)]
  /\ UNCHANGED <<comments, ready, log, cmd, sweep, works>>

ClosedByHand ==
  /\ upsets < MaxUpsets /\ upsets' = upsets + 1
  /\ ~over.closed
  /\ over' = [over EXCEPT !.closed = TRUE]
  /\ UNCHANGED <<comments, ready, log, cmd, sweep, works>>

Less(n) == IF n = 0 THEN 0 ELSE n - 1

Running(d) == cmd[d].at # "idle"

Tick ==
  /\ \A d \in Devices : /\ Running(d) => cmd[d].age < OpMax
                        /\ sweep[d].at # "idle" => sweep[d].age < OpMax
  /\ \/ \E i \in Standing : Live(i)
     \/ \E d \in Devices : Running(d) \/ sweep[d].at # "idle"
  /\ comments' = [i \in DOMAIN comments |-> [comments[i] EXCEPT !.left = Less(@)]]
  /\ cmd' = [d \in Devices |-> IF Running(d) THEN [cmd[d] EXCEPT !.age = @ + 1, !.seen = [i \in Ids |-> Less(@[i])]] ELSE cmd[d]]
  /\ sweep' = [d \in Devices |-> IF sweep[d].at # "idle" THEN [sweep[d] EXCEPT !.age = @ + 1] ELSE sweep[d]]
  /\ UNCHANGED <<ready, over, log, works, upsets>>

ClaimStep(d) ==
  \/ Delete(d) \/ Post(d) \/ Reread(d) \/ Judge(d) \/ Withdraw(d) \/ Labels(d) \/ Claimed(d) \/ Keep(d)
  \/ Renew(d) \/ Requeue(d) \/ Requeued(d)
SweepStep(d) == SweepRead(d) \/ SweepLabel(d) \/ SweepEvent(d)

Next ==
  \/ \E d \in Devices :
       \/ BeginClaim(d) \/ ClaimStep(d) \/ Fail(d) \/ Cut(d)
       \/ BeginRenew(d) \/ Release(d)
       \/ \E central \in BOOLEAN : SweepLoad(d, central)
       \/ SweepStep(d) \/ SweepCut(d) \/ Push(d)
  \/ MergedByHand \/ ClosedByHand \/ Tick

Spec == Init /\ [][Next]_vars

\* a started command goes on or is ended, every device sweeps and pushes again and again (H2, the push loop)
FairSpec ==
  /\ Spec
  /\ WF_vars(Tick)
  /\ \A d \in Devices : /\ WF_vars(ClaimStep(d)) /\ WF_vars(Push(d))
                        /\ WF_vars(SweepStep(d)) /\ WF_vars(SweepLoad(d, TRUE))

-----------------------------------------------------------------------------
(* Properties. *)

Winning == {i \in Standing : Live(i) /\ comments[i].won}

\* Two devices never hold the issue at once: of the live claims that were told they won, all are of
\* one device (fabriek-claim: "any interleaving has exactly one winner").
OneHolder == \A i, j \in Winning : comments[i].dev = comments[j].dev

\* Devices that contend do not all lose: where nothing failed, a claim is withdrawn only beside another
\* device whose claim stands won, or is still on its way (fabriek-claim 20: "exactly one winner").
NotAllLose ==
  \A d \in Devices : (At(d, "withdraw") /\ upsets = 0) =>
    \E e \in Devices \ {d} : \/ \E i \in Winning : comments[i].dev = e
                             \/ cmd[e].at \in {"delete", "post", "reread", "judge"}

\* a device whose claim had won deleted it to claim afresh: it let the issue go, and came back
CameBack == \E i \in DOMAIN comments : comments[i].gone /\ comments[i].won

\* So it is as long as no winner gave its claim up to claim afresh: a rival may lose to the claim
\* given up, and the fresh one lose to the rival's.
SomeoneWins == ~CameBack => NotAllLose

\* A device's own claims never pile up: at most one of its comments is live.
OneOwn == \A i, j \in Standing : (Live(i) /\ Live(j) /\ comments[i].dev = comments[j].dev) => i = j

HoldsIt(d) == works[d] /\ OwnLive(d) # {}
LastIsLeft == log # <<>> /\ log[Len(log)].kind = "left"

\* No issue stays claimed for ever (fabriek-sweep): an issue that is not ready is time and again
\* ready, held under a live claim, or out of the factory.
NeverStuck == []<>(ready \/ over.closed \/ over.merged > 0 \/ LastIsLeft \/ \E d \in Devices : HoldsIt(d))
=============================================================================
