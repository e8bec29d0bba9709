----------------------------- MODULE LeaseProofs ------------------------------
(***************************************************************************)
(* What is held on a lease: an issue by its claim, and, further down, a    *)
(* slot of the pool by the life that works in it (Slots).                  *)
(*                                                                         *)
(* Two devices never hold an issue at once (Claims!OneHolder), for any     *)
(* devices, lease and number of claims, where no device acts late on its   *)
(* own claim. The argument: while a device's run is under way, a foreign   *)
(* claim that is live was made (or renewed) since the run's first read, so *)
(* it outlives the run (Since); what the run judges on therefore shows it  *)
(* (SeenRight); and no lapsed claim becomes live again (InTimeStill). So a *)
(* claim that wins is the earliest live one, and every later one loses.    *)
(* Nor do they all lose (Claims!SomeoneWins): see "Who wins".              *)
(***************************************************************************)
EXTENDS Claims, SlotState, SequenceTheorems, FiniteSetTheorems, WellFoundedInduction, TLAPS

CoreType ==
  /\ comments \in Seq(Comment)
  /\ cmd \in [Devices -> [at : CmdAt, id : Nat, age : 0..OpMax, seen : [Ids -> Nat]]]
  /\ Len(comments) <= MaxPosts

\* the ats at which a command acts on a claim of its own
OwnAt == {"keep", "delete", "reread", "judge", "withdraw", "labels", "event", "renew"}

LiveStanding(i) == i \in DOMAIN comments /\ ~comments[i].gone /\ comments[i].left > 0
Foreign(d, i) == LiveStanding(i) /\ comments[i].dev # d
Mine(d, i) == LiveStanding(i) /\ comments[i].dev = d

\* the claim a command acts on stands and is its device's own
IdOwn(d) == cmd[d].at \in OwnAt =>
  /\ cmd[d].id \in DOMAIN comments
  /\ ~comments[cmd[d].id].gone
  /\ comments[cmd[d].id].dev = d
\* a claim just posted has lost no more of its lease than its run has taken
Fresh(d) == cmd[d].at \in {"reread", "judge"} => comments[cmd[d].id].left + cmd[d].age >= Lease
\* a claim being renewed or kept is live to the run's end
InTimeStill(d) == cmd[d].at \in {"keep", "renew"} => comments[cmd[d].id].left + cmd[d].age > OpMax
\* a foreign claim that is live was made or renewed since the run's first read
Since(d) == cmd[d].at \in {"keep", "delete", "post", "reread", "judge"} =>
  \A j : Foreign(d, j) => comments[j].left + cmd[d].age >= Lease
\* a claim that is kept is the earliest live one
KeptFirst(d) == cmd[d].at = "keep" => \A j : Foreign(d, j) => cmd[d].id < j
\* what a run judges on shows its own claim and every earlier foreign one that is still live
SeenRight(d) == cmd[d].at = "judge" =>
  /\ cmd[d].seen[cmd[d].id] + cmd[d].age >= Lease
  /\ \A j : (Foreign(d, j) /\ j < cmd[d].id) => cmd[d].seen[j] + cmd[d].age >= Lease
\* a run that posts has no live claim left but the one it deletes or has posted
OwnClear(d) ==
  /\ cmd[d].at = "post" => \A j : ~Mine(d, j)
  /\ cmd[d].at = "delete" => \A j : Mine(d, j) => j = cmd[d].id

DevInv(d) == IdOwn(d) /\ Fresh(d) /\ InTimeStill(d) /\ Since(d) /\ KeptFirst(d) /\ SeenRight(d) /\ OwnClear(d)

\* a live claim that won is earlier than every live claim of another device
WonFirst == \A i, j : (LiveStanding(i) /\ comments[i].won /\ Foreign(comments[i].dev, j)) => i < j
OwnOnce == \A d \in Devices : \A i, j : (Mine(d, i) /\ Mine(d, j)) => i = j

IInv == CoreType /\ WonFirst /\ OwnOnce /\ \A d \in Devices : DevInv(d)

-----------------------------------------------------------------------------
(* Lemmas. *)

LEMMA CommentFields == ASSUME NEW c \in Comment
  PROVE c.dev \in Devices /\ c.left \in 0..Lease /\ c.left \in Nat /\ c.gone \in BOOLEAN /\ c.won \in BOOLEAN
BY TimesAssumption DEF Comment

\* what other devices may see of one device's step: claims that were live before, with their lease
\* or a new one, and one new claim at the end
Seen(d) ==
  /\ DOMAIN comments \subseteq DOMAIN comments'
  /\ \A i \in DOMAIN comments : comments'[i].dev = comments[i].dev
  /\ \A i \in DOMAIN comments : comments[i].dev # d => comments'[i] = comments[i]
  /\ \A j : LiveStanding(j)' => \/ LiveStanding(j) /\ comments'[j].left \in {comments[j].left, Lease}
                                \/ j = Len(comments) + 1 /\ comments'[j].left = Lease /\ comments'[j].dev = d

LEMMA OthersKeep ==
  ASSUME CoreType, CoreType', NEW d \in Devices, NEW e \in Devices, e # d, DevInv(e), Seen(d), cmd'[e] = cmd[e]
  PROVE DevInv(e)'
<1>1. /\ comments \in Seq(Comment) /\ comments' \in Seq(Comment)
      /\ cmd[e].age \in Nat /\ cmd[e].id \in Nat
  BY TimesAssumption DEF CoreType
<1>2. \A j \in DOMAIN comments : comments[j].left \in 0..Lease /\ comments[j] \in Comment
  BY <1>1, CommentFields
<1>3. \A j : Foreign(e, j)' => \/ Foreign(e, j) /\ comments'[j].left \in {comments[j].left, Lease}
                               \/ j = Len(comments) + 1 /\ comments'[j].left = Lease
  BY <1>1 DEF Seen, Foreign, LiveStanding
<1>4. \A j : Mine(e, j)' => Mine(e, j)
  BY <1>1 DEF Seen, Mine, LiveStanding
<1>5. IdOwn(e)' /\ (cmd[e].at \in OwnAt => comments'[cmd[e].id] = comments[cmd[e].id] /\ cmd[e].id \in DOMAIN comments)
  BY <1>1 DEF DevInv, IdOwn, Seen, OwnAt
<1>6. Fresh(e)' /\ InTimeStill(e)'
  BY <1>5 DEF DevInv, Fresh, InTimeStill, OwnAt
<1>7. Since(e)'
  <2> SUFFICES ASSUME cmd[e].at \in {"keep", "delete", "post", "reread", "judge"}, NEW j, Foreign(e, j)'
               PROVE comments'[j].left + cmd[e].age >= Lease
    BY DEF Since
  <2>1. CASE Foreign(e, j) /\ comments'[j].left = comments[j].left
    BY <2>1 DEF DevInv, Since
  <2>2. CASE comments'[j].left = Lease
    BY <2>2, <1>1, TimesAssumption
  <2> QED BY <1>3, <2>1, <2>2
<1>8. KeptFirst(e)'
  <2> SUFFICES ASSUME cmd[e].at = "keep", NEW j, Foreign(e, j)'
               PROVE cmd[e].id < j
    BY DEF KeptFirst
  <2>1. CASE Foreign(e, j)
    BY <2>1 DEF DevInv, KeptFirst
  <2>2. CASE j = Len(comments) + 1
    BY <2>2, <1>1, <1>5 DEF OwnAt
  <2> QED BY <1>3, <2>1, <2>2
<1>9. SeenRight(e)'
  <2> SUFFICES ASSUME cmd[e].at = "judge"
               PROVE /\ cmd[e].seen[cmd[e].id] + cmd[e].age >= Lease
                     /\ \A j : (Foreign(e, j)' /\ j < cmd[e].id) => cmd[e].seen[j] + cmd[e].age >= Lease
    BY DEF SeenRight
  <2>1. cmd[e].seen[cmd[e].id] + cmd[e].age >= Lease
    BY DEF DevInv, SeenRight
  <2>2. ASSUME NEW j, Foreign(e, j)', j < cmd[e].id PROVE cmd[e].seen[j] + cmd[e].age >= Lease
    <3>1. cmd[e].id \in 1..Len(comments)
      BY <1>5, <1>1 DEF OwnAt
    <3>2. Foreign(e, j)
      BY <1>3, <2>2, <3>1, <1>1
    <3> QED BY <2>2, <3>2 DEF DevInv, SeenRight
  <2> QED BY <2>1, <2>2
<1>10. OwnClear(e)'
  BY <1>4 DEF DevInv, OwnClear
<1> QED BY <1>5, <1>6, <1>7, <1>8, <1>9, <1>10 DEF DevInv

\* a step that wins nothing keeps the winners first, and one that posts nothing its claims apart
LEMMA WonKept ==
  ASSUME CoreType, CoreType', WonFirst, NEW d \in Devices, Seen(d),
         \A i \in DOMAIN comments : comments'[i].won => comments[i].won,
         \A i : LiveStanding(i)' /\ i = Len(comments) + 1 => ~comments'[i].won
  PROVE WonFirst'
<1>1. comments \in Seq(Comment) /\ comments' \in Seq(Comment)
  BY DEF CoreType
<1> SUFFICES ASSUME NEW i, NEW j, LiveStanding(i)', comments'[i].won, LiveStanding(j)', comments'[j].dev # comments'[i].dev
             PROVE i < j
  BY DEF WonFirst, Foreign
<1>2. LiveStanding(i) /\ comments[i].won /\ comments'[i].dev = comments[i].dev /\ i \in 1..Len(comments)
  BY <1>1 DEF Seen, LiveStanding
<1>3. CASE j = Len(comments) + 1
  BY <1>1, <1>2, <1>3
<1>4. CASE LiveStanding(j)
  <2>1. comments'[j].dev = comments[j].dev
    BY <1>4 DEF Seen, LiveStanding
  <2> QED BY <1>2, <1>4, <2>1 DEF WonFirst, Foreign
<1> QED BY <1>3, <1>4 DEF Seen

LEMMA OnceKept ==
  ASSUME CoreType, CoreType', OwnOnce, NEW d \in Devices, Seen(d),
         \A j : LiveStanding(j)' => j \in DOMAIN comments
  PROVE OwnOnce'
<1> SUFFICES ASSUME NEW e \in Devices, NEW i, NEW j, Mine(e, i)', Mine(e, j)'
             PROVE i = j
  BY DEF OwnOnce
<1>1. comments \in Seq(Comment) /\ comments' \in Seq(Comment)
  BY DEF CoreType
<1>2. Mine(e, i) /\ Mine(e, j)
  BY <1>1 DEF Seen, Mine, LiveStanding
<1> QED BY <1>2 DEF OwnOnce

CmdRec == [at : CmdAt, id : Nat, age : 0..OpMax, seen : [Ids -> Nat]]

LEMMA GoesTo ==
  ASSUME CoreType, NEW d \in Devices, NEW at \in CmdAt, NEW id \in Nat, Goes(d, at, id)
  PROVE /\ cmd' \in [Devices -> CmdRec]
        /\ cmd'[d].at = at /\ cmd'[d].id = id /\ cmd'[d].age = cmd[d].age /\ cmd'[d].seen = cmd[d].seen
        /\ \A e \in Devices : e # d => cmd'[e] = cmd[e]
<1>1. cmd \in [Devices -> CmdRec]
  BY DEF CoreType, CmdRec
<1>2. cmd[d] \in CmdRec
  BY <1>1
<1>3. cmd' = [cmd EXCEPT ![d] = [cmd[d] EXCEPT !.at = at, !.id = id]]
  BY <1>1 DEF Goes
<1>4. [cmd[d] EXCEPT !.at = at, !.id = id] \in CmdRec
  BY <1>2 DEF CmdRec
<1> QED BY <1>1, <1>2, <1>3, <1>4 DEF CmdRec

LEMMA EndsTo ==
  ASSUME CoreType, NEW d \in Devices, Ends(d)
  PROVE /\ cmd' \in [Devices -> CmdRec]
        /\ cmd'[d].at = "idle"
        /\ \A e \in Devices : e # d => cmd'[e] = cmd[e]
<1>1. cmd \in [Devices -> CmdRec]
  BY DEF CoreType, CmdRec
<1>2. IdleCmd \in CmdRec /\ IdleCmd.at = "idle"
  BY TimesAssumption DEF IdleCmd, CmdRec, CmdAt, Blind
<1> QED BY <1>1, <1>2 DEF Ends

\* a command that does nothing more has nothing to keep
LEMMA IdleInv ==
  ASSUME NEW d \in Devices, cmd[d].at \in {"idle", "requeue", "requeued"}
  PROVE DevInv(d)
BY DEF DevInv, IdOwn, Fresh, InTimeStill, Since, KeptFirst, SeenRight, OwnClear, OwnAt

LEMMA DeviceStep ==
  ASSUME IInv, CoreType', NEW d \in Devices, Seen(d), \A e \in Devices : e # d => cmd'[e] = cmd[e],
         DevInv(d)', WonFirst', OwnOnce'
  PROVE IInv'
<1>1. \A e \in Devices : DevInv(e)'
  BY OthersKeep DEF IInv
<1> QED BY <1>1 DEF IInv

\* a step that writes no comment
LEMMA ReadStep ==
  ASSUME IInv, NEW d \in Devices, UNCHANGED comments, cmd' \in [Devices -> CmdRec],
         \A e \in Devices : e # d => cmd'[e] = cmd[e], DevInv(d)'
  PROVE IInv'
<1>1. CoreType'
  BY DEF IInv, CoreType, CmdRec
<1>2. Seen(d)
  BY DEF Seen, LiveStanding
<1>3. WonFirst' /\ OwnOnce'
  BY DEF IInv, WonFirst, OwnOnce, Foreign, Mine, LiveStanding
<1> QED BY <1>1, <1>2, <1>3, DeviceStep

LEMMA CalmStep ==
  ASSUME IInv, UNCHANGED <<comments, cmd>>
  PROVE IInv'
BY DEF IInv, CoreType, WonFirst, OwnOnce, DevInv, IdOwn, Fresh, InTimeStill, Since, KeptFirst, SeenRight, OwnClear,
       Foreign, Mine, LiveStanding

\* a step that writes one of the device's own comments
LEMMA OwnWrite ==
  ASSUME IInv, NEW d \in Devices, NEW i \in DOMAIN comments, comments[i].dev = d, NEW c \in Comment,
         comments' = [comments EXCEPT ![i] = c], c.dev = d, c.gone \/ (~comments[i].gone /\ comments[i].left > 0),
         c.left \in {comments[i].left, Lease}
  PROVE /\ comments' \in Seq(Comment) /\ Len(comments') = Len(comments) /\ DOMAIN comments' = DOMAIN comments
        /\ Seen(d)
        /\ comments'[i] = c
        /\ \A j \in DOMAIN comments : j # i => comments'[j] = comments[j]
<1>1. comments \in Seq(Comment)
  BY DEF IInv, CoreType
<1>2. comments' \in Seq(Comment) /\ Len(comments') = Len(comments) /\ DOMAIN comments' = DOMAIN comments
  BY <1>1
<1>3. comments'[i] = c /\ \A j \in DOMAIN comments : j # i => comments'[j] = comments[j]
  BY <1>1
<1>4. Seen(d)
  BY <1>2, <1>3 DEF Seen, LiveStanding
<1> QED BY <1>2, <1>3, <1>4

-----------------------------------------------------------------------------
(* Each action keeps the invariant. *)

LEMMA InitInv == Init => IInv
<1> SUFFICES ASSUME Init PROVE IInv
  OBVIOUS
<1>1. comments = <<>> /\ \A d \in Devices : cmd[d].at = "idle"
  BY DEF Init, IdleCmd
<1>2. CoreType
  BY TimesAssumption, BoundsAssumption DEF Init, CoreType, IdleCmd, CmdAt, Blind
<1>3. WonFirst /\ OwnOnce
  BY <1>1 DEF WonFirst, OwnOnce, Mine, LiveStanding
<1>4. \A d \in Devices : DevInv(d)
  BY <1>1, IdleInv
<1> QED BY <1>2, <1>3, <1>4 DEF IInv

LEMMA SetsAre ==
  ASSUME NEW d \in Devices, CoreType
  PROVE /\ \A i : i \in OwnLive(d) <=> Mine(d, i)
        /\ \A i : i \in ForeignLive(d) <=> Foreign(d, i)
        /\ \A i : LiveStanding(i) => i \in Nat /\ comments[i] \in Comment
<1>1. comments \in Seq(Comment)
  BY DEF CoreType
<1>2. \A i : LiveStanding(i) => i \in Nat /\ comments[i] \in Comment
  BY <1>1 DEF LiveStanding
<1> QED BY <1>2 DEF OwnLive, ForeignLive, Standing, Live, Mine, Foreign, LiveStanding

LEMMA BeginClaimInv == ASSUME IInv, "late" \notin Races, NEW d \in Devices, BeginClaim(d) PROVE IInv'
<1>1. CoreType
  BY DEF IInv
<1>2. UNCHANGED comments /\ cmd[d].at = "idle"
  BY DEF BeginClaim, At
<1>3. CASE UNCHANGED cmd
  BY <1>2, <1>3, CalmStep
<1>4. CASE ForeignLive(d) = {} /\ OwnLive(d) = {} /\ Goes(d, "post", 0)
  <2>1. "post" \in CmdAt
    BY DEF CmdAt
  <2>2. /\ cmd' \in [Devices -> CmdRec] /\ cmd'[d].at = "post"
        /\ \A e \in Devices : e # d => cmd'[e] = cmd[e]
    BY <1>1, <1>4, <2>1, GoesTo
  <2>3. \A j : ~Foreign(d, j)' /\ ~Mine(d, j)'
    BY <1>1, <1>2, <1>4, SetsAre DEF Foreign, Mine, LiveStanding
  <2>4. DevInv(d)'
    BY <2>2, <2>3 DEF DevInv, IdOwn, Fresh, InTimeStill, Since, KeptFirst, SeenRight, OwnClear, OwnAt
  <2> QED BY <1>2, <2>2, <2>4, ReadStep
<1>5. ASSUME ForeignLive(d) = {}, NEW i \in OwnLive(d), NEW at \in {"keep", "delete"}, Goes(d, at, i), at = "keep" => InTime(i)
      PROVE IInv'
  <2>1. at \in CmdAt /\ i \in Nat /\ Mine(d, i) /\ comments[i] \in Comment
    BY <1>1, <1>5, SetsAre DEF CmdAt, Mine
  <2>2. /\ cmd' \in [Devices -> CmdRec] /\ cmd'[d].at = at /\ cmd'[d].id = i
        /\ \A e \in Devices : e # d => cmd'[e] = cmd[e]
    BY <1>1, <1>5, <2>1, GoesTo
  <2>3. \A j : ~Foreign(d, j)' /\ (Mine(d, j)' => j = i)
    <3>1. \A j : Foreign(d, j)' <=> Foreign(d, j)
      BY <1>2 DEF Foreign, LiveStanding
    <3>2. \A j : Mine(d, j)' <=> Mine(d, j)
      BY <1>2 DEF Mine, LiveStanding
    <3>3. \A j : Mine(d, j) => j = i
      BY <2>1 DEF IInv, OwnOnce
    <3> QED BY <1>1, <1>5, <3>1, <3>2, <3>3, SetsAre
  <2>4. i \in DOMAIN comments' /\ ~comments'[i].gone /\ comments'[i].dev = d
    BY <1>2, <2>1 DEF Mine, LiveStanding
  <2>5. cmd'[d].age \in Nat /\ comments'[i].left \in Nat
    BY <1>2, <2>1, <2>2, TimesAssumption, CommentFields DEF CmdRec
  <2>6. at = "keep" => comments'[i].left + cmd'[d].age > OpMax
    BY <1>2, <1>5, <2>5, TimesAssumption DEF InTime
  <2>7. DevInv(d)'
    BY <2>2, <2>3, <2>4, <2>6 DEF DevInv, IdOwn, Fresh, InTimeStill, Since, KeptFirst, SeenRight, OwnClear, OwnAt
  <2> QED BY <1>2, <2>2, <2>7, ReadStep
<1> QED BY <1>3, <1>4, <1>5 DEF BeginClaim

LEMMA BeginRenewInv == ASSUME IInv, "late" \notin Races, NEW d \in Devices, BeginRenew(d) PROVE IInv'
<1>1. CoreType /\ UNCHANGED comments
  BY DEF IInv, BeginRenew
<1>2. PICK i \in OwnLive(d) : InTime(i) /\ Goes(d, "renew", i)
  BY DEF BeginRenew
<1>3. "renew" \in CmdAt /\ i \in Nat /\ Mine(d, i) /\ comments[i] \in Comment
  BY <1>1, <1>2, SetsAre DEF CmdAt, Mine
<1>4. /\ cmd' \in [Devices -> CmdRec] /\ cmd'[d].at = "renew" /\ cmd'[d].id = i
      /\ \A e \in Devices : e # d => cmd'[e] = cmd[e]
  BY <1>1, <1>2, <1>3, GoesTo
<1>5. i \in DOMAIN comments' /\ ~comments'[i].gone /\ comments'[i].dev = d
  BY <1>1, <1>3 DEF Mine, LiveStanding
<1>6. cmd'[d].age \in Nat /\ comments'[i].left \in Nat
  BY <1>1, <1>3, <1>4, TimesAssumption, CommentFields DEF CmdRec
<1>7. comments'[i].left + cmd'[d].age > OpMax
  BY <1>1, <1>2, <1>6, TimesAssumption DEF InTime
<1>8. DevInv(d)'
  BY <1>4, <1>5, <1>7 DEF DevInv, IdOwn, Fresh, InTimeStill, Since, KeptFirst, SeenRight, OwnClear, OwnAt
<1> QED BY <1>1, <1>4, <1>8, ReadStep

LEMMA RereadInv == ASSUME IInv, NEW d \in Devices, Reread(d) PROVE IInv'
<1>1. CoreType /\ UNCHANGED comments /\ cmd[d].at = "reread" /\ cmd[d] \in CmdRec /\ DevInv(d) /\ comments \in Seq(Comment)
  BY DEF IInv, CoreType, CmdRec, Reread, At
<1> DEFINE seen == [i \in Ids |-> IF i \in Standing THEN comments[i].left ELSE 0]
<1>2. seen \in [Ids -> Nat] /\ \A j \in DOMAIN comments : ~comments[j].gone => seen[j] = comments[j].left
  <2>1. \A i \in Standing : comments[i].left \in Nat
    BY <1>1, CommentFields DEF Standing
  <2>2. DOMAIN comments \subseteq Ids
    BY <1>1, BoundsAssumption DEF CoreType, Ids
  <2> QED BY <2>1, <2>2 DEF Standing
<1> HIDE DEF seen
<1>3. cmd' = [cmd EXCEPT ![d] = [cmd[d] EXCEPT !.at = "judge", !.seen = seen]]
  BY <1>1 DEF Reread, seen, CoreType
<1>4. [cmd[d] EXCEPT !.at = "judge", !.seen = seen] \in CmdRec
  BY <1>1, <1>2 DEF CmdRec, CmdAt
<1>5. /\ cmd' \in [Devices -> CmdRec] /\ \A e \in Devices : e # d => cmd'[e] = cmd[e]
      /\ cmd'[d].at = "judge" /\ cmd'[d].id = cmd[d].id /\ cmd'[d].age = cmd[d].age /\ cmd'[d].seen = seen
  BY <1>1, <1>3, <1>4 DEF CoreType, CmdRec
<1>6. IdOwn(d)' /\ cmd[d].id \in DOMAIN comments /\ ~comments[cmd[d].id].gone
  BY <1>1, <1>5 DEF DevInv, IdOwn, OwnAt
<1>7. Fresh(d)' /\ InTimeStill(d)' /\ KeptFirst(d)' /\ OwnClear(d)'
  BY <1>1, <1>5 DEF DevInv, Fresh, InTimeStill, KeptFirst, OwnClear
<1>8. \A j : Foreign(d, j)' <=> Foreign(d, j)
  BY <1>1 DEF Foreign, LiveStanding
<1>9. Since(d)'
  BY <1>1, <1>5, <1>8 DEF DevInv, Since
<1>10. SeenRight(d)'
  <2>1. seen[cmd[d].id] + cmd[d].age >= Lease
    BY <1>1, <1>2, <1>6 DEF DevInv, Fresh
  <2>2. \A j : Foreign(d, j) => seen[j] = comments[j].left
    BY <1>2 DEF Foreign, LiveStanding
  <2> QED BY <1>1, <1>5, <1>8, <2>1, <2>2 DEF DevInv, SeenRight, Since
<1>11. DevInv(d)'
  BY <1>6, <1>7, <1>9, <1>10 DEF DevInv
<1> QED BY <1>1, <1>5, <1>11, ReadStep

LEMMA PostInv == ASSUME IInv, NEW d \in Devices, Post(d) PROVE IInv'
<1>1. /\ CoreType /\ comments \in Seq(Comment) /\ DevInv(d) /\ cmd[d].at = "post" /\ cmd[d] \in CmdRec
      /\ WonFirst /\ OwnOnce
  BY DEF IInv, CoreType, CmdRec, Post, At
<1> DEFINE c == [dev |-> d, left |-> Lease, gone |-> FALSE, won |-> FALSE]
           n == Len(comments) + 1
<1>2. c \in Comment /\ c.dev = d /\ c.left = Lease /\ ~c.won /\ ~c.gone
  BY TimesAssumption DEF Comment
<1>3. comments' = Append(comments, c) /\ Goes(d, "reread", n)
  BY DEF Post
<1> HIDE DEF c
<1>4. /\ comments' \in Seq(Comment) /\ Len(comments') = n /\ n \in Nat
      /\ DOMAIN comments' = 1..n /\ DOMAIN comments = 1..Len(comments) /\ comments'[n] = c
      /\ \A i \in DOMAIN comments : comments'[i] = comments[i]
  BY <1>1, <1>2, <1>3
<1> HIDE DEF n
<1>5. /\ cmd' \in [Devices -> CmdRec] /\ cmd'[d].at = "reread" /\ cmd'[d].id = n /\ cmd'[d].age = cmd[d].age
      /\ \A e \in Devices : e # d => cmd'[e] = cmd[e]
  <2>1. "reread" \in CmdAt
    BY DEF CmdAt
  <2> QED BY <1>1, <1>3, <1>4, <2>1, GoesTo
<1>6. CoreType'
  <2>1. Len(comments) < MaxPosts /\ Len(comments) \in Nat
    BY <1>1 DEF Post
  <2>2. Len(comments') <= MaxPosts
    BY <1>4, <2>1, BoundsAssumption DEF n
  <2> QED BY <1>4, <1>5, <2>2 DEF CoreType, CmdRec
<1>7. \A j : LiveStanding(j)' => LiveStanding(j) \/ j = n
  BY <1>4 DEF LiveStanding, n
<1>8. Seen(d)
  BY <1>2, <1>4, <1>7 DEF Seen, LiveStanding, n
<1>9. WonFirst'
  BY <1>1, <1>2, <1>4, <1>6, <1>8, WonKept DEF n
<1>10. OwnOnce'
  <2> SUFFICES ASSUME NEW e \in Devices, NEW i, NEW j, Mine(e, i)', Mine(e, j)'
               PROVE i = j
    BY DEF OwnOnce
  <2>1. \A k : Mine(e, k)' => Mine(e, k) \/ (k = n /\ e = d)
    BY <1>2, <1>4 DEF Mine, LiveStanding, n
  <2>2. \A k : ~Mine(d, k)
    BY <1>1 DEF DevInv, OwnClear
  <2> QED BY <1>1, <2>1, <2>2 DEF OwnOnce
<1>11. DevInv(d)'
  <2>1. \A j : Foreign(d, j)' => Foreign(d, j) /\ comments'[j] = comments[j]
    BY <1>2, <1>4 DEF Foreign, LiveStanding, n
  <2>2. Since(d)'
    BY <1>1, <1>5, <2>1 DEF DevInv, Since
  <2>3. IdOwn(d)'
    BY <1>2, <1>4, <1>5 DEF IdOwn, OwnAt, n
  <2>4. Fresh(d)'
    <3>1. cmd[d].age \in Nat
      BY <1>1, TimesAssumption DEF CmdRec
    <3> QED BY <1>2, <1>4, <1>5, <3>1, TimesAssumption DEF Fresh
  <2> QED BY <1>5, <2>2, <2>3, <2>4 DEF DevInv, InTimeStill, KeptFirst, SeenRight, OwnClear
<1> QED BY <1>5, <1>6, <1>8, <1>9, <1>10, <1>11, DeviceStep

\* a write of the command's own claim
LEMMA OwnClaim ==
  ASSUME IInv, NEW d \in Devices, cmd[d].at \in OwnAt
  PROVE /\ cmd[d].id \in DOMAIN comments /\ cmd[d].id \in Nat
        /\ comments[cmd[d].id] \in Comment /\ comments[cmd[d].id].dev = d /\ ~comments[cmd[d].id].gone
        /\ cmd[d].age \in Nat /\ cmd[d].age <= OpMax /\ comments[cmd[d].id].left \in Nat
<1>1. comments \in Seq(Comment) /\ cmd[d].age \in 0..OpMax
  BY DEF IInv, CoreType
<1>2. cmd[d].id \in DOMAIN comments /\ ~comments[cmd[d].id].gone /\ comments[cmd[d].id].dev = d
  BY DEF IInv, DevInv, IdOwn
<1>3. comments[cmd[d].id] \in Comment
  BY <1>1, <1>2
<1> QED BY <1>1, <1>2, <1>3, CommentFields, TimesAssumption

\* a claim taken off leaves every other one as it is
LEMMA Removed ==
  ASSUME IInv, NEW d \in Devices, cmd[d].at \in OwnAt, NEW c \in Comment, c.gone, c.dev = d,
         c.left = comments[cmd[d].id].left, c.won => comments[cmd[d].id].won,
         comments' = [comments EXCEPT ![cmd[d].id] = c],
         cmd' \in [Devices -> CmdRec], \A e \in Devices : e # d => cmd'[e] = cmd[e], DevInv(d)'
  PROVE IInv'
<1>1. /\ cmd[d].id \in DOMAIN comments /\ comments[cmd[d].id].dev = d /\ CoreType /\ WonFirst /\ OwnOnce
      /\ comments \in Seq(Comment)
  BY OwnClaim DEF IInv, CoreType
<1>2. /\ comments' \in Seq(Comment) /\ Len(comments') = Len(comments) /\ DOMAIN comments' = DOMAIN comments
      /\ Seen(d) /\ comments'[cmd[d].id] = c
      /\ \A j \in DOMAIN comments : j # cmd[d].id => comments'[j] = comments[j]
  BY <1>1, OwnWrite
<1>3. CoreType'
  BY <1>1, <1>2 DEF CoreType, CmdRec
<1>4. \A i \in DOMAIN comments : comments'[i].won => comments[i].won
  BY <1>2
<1>5. \A j : LiveStanding(j)' => j \in DOMAIN comments
  BY <1>2 DEF LiveStanding
<1>6. Len(comments) + 1 \notin DOMAIN comments
  BY <1>1
<1>7. WonFirst'
  BY <1>1, <1>2, <1>3, <1>4, <1>5, <1>6, WonKept
<1>8. OwnOnce'
  BY <1>1, <1>2, <1>3, <1>5, OnceKept
<1> QED BY <1>2, <1>3, <1>7, <1>8, DeviceStep

LEMMA DeleteInv == ASSUME IInv, NEW d \in Devices, Delete(d) PROVE IInv'
<1>1. /\ CoreType /\ cmd[d].at = "delete" /\ cmd[d].at \in OwnAt /\ DevInv(d) /\ comments \in Seq(Comment)
  BY DEF IInv, CoreType, Delete, At, OwnAt
<1>2. /\ cmd[d].id \in DOMAIN comments /\ comments[cmd[d].id] \in Comment /\ comments[cmd[d].id].dev = d
  BY <1>1, OwnClaim
<1> DEFINE c == [comments[cmd[d].id] EXCEPT !.gone = TRUE]
<1>3. c \in Comment /\ c.gone /\ c.dev = d /\ c.left = comments[cmd[d].id].left /\ c.won = comments[cmd[d].id].won
  BY <1>2 DEF Comment
<1>4. comments' = [comments EXCEPT ![cmd[d].id] = c] /\ Goes(d, "post", 0)
  BY DEF Delete
<1> HIDE DEF c
<1>5. /\ cmd' \in [Devices -> CmdRec] /\ cmd'[d].at = "post" /\ cmd'[d].age = cmd[d].age
      /\ \A e \in Devices : e # d => cmd'[e] = cmd[e]
  <2>1. "post" \in CmdAt /\ 0 \in Nat
    BY DEF CmdAt
  <2> QED BY <1>1, <1>4, <2>1, GoesTo
<1>6. /\ DOMAIN comments' = DOMAIN comments /\ comments'[cmd[d].id] = c
      /\ \A j \in DOMAIN comments : j # cmd[d].id => comments'[j] = comments[j]
  BY <1>1, <1>2, <1>4
<1>7. (\A j : ~Mine(d, j)') /\ \A j : Foreign(d, j)' => Foreign(d, j) /\ comments'[j] = comments[j]
  <2>1. \A j : Mine(d, j)' => Mine(d, j) /\ j # cmd[d].id
    BY <1>3, <1>6 DEF Mine, LiveStanding
  <2> QED BY <1>1, <1>3, <1>6, <2>1 DEF DevInv, OwnClear, Foreign, LiveStanding
<1>8. Since(d)'
  BY <1>1, <1>5, <1>7 DEF DevInv, Since
<1>9. DevInv(d)'
  BY <1>5, <1>7, <1>8 DEF DevInv, IdOwn, Fresh, InTimeStill, KeptFirst, SeenRight, OwnClear, OwnAt
<1> QED BY <1>1, <1>3, <1>4, <1>5, <1>9, Removed

LEMMA WithdrawInv == ASSUME IInv, NEW d \in Devices, Withdraw(d) PROVE IInv'
<1>1. CoreType /\ cmd[d].at \in OwnAt
  BY DEF IInv, Withdraw, At, OwnAt
<1>2. comments[cmd[d].id] \in Comment /\ comments[cmd[d].id].dev = d /\ cmd[d].id \in DOMAIN comments
  BY <1>1, OwnClaim
<1> DEFINE c == [comments[cmd[d].id] EXCEPT !.gone = TRUE, !.won = FALSE]
<1>3. c \in Comment /\ c.gone /\ c.dev = d /\ c.left = comments[cmd[d].id].left /\ ~c.won
  BY <1>2 DEF Comment
<1>4. comments' = [comments EXCEPT ![cmd[d].id] = c]
  BY <1>1, <1>2 DEF Withdraw, CoreType
<1> HIDE DEF c
<1>5. /\ cmd' \in [Devices -> CmdRec] /\ cmd'[d].at = "idle"
      /\ \A e \in Devices : e # d => cmd'[e] = cmd[e]
  BY <1>1, EndsTo DEF Withdraw
<1>6. DevInv(d)'
  BY <1>5 DEF DevInv, IdOwn, Fresh, InTimeStill, Since, KeptFirst, SeenRight, OwnClear, OwnAt
<1> QED BY <1>1, <1>3, <1>4, <1>5, <1>6, Removed

\* another command on the same claim, and nothing else
LEMMA NextAt ==
  ASSUME IInv, NEW d \in Devices, cmd[d].at \in OwnAt, NEW at \in {"withdraw", "labels", "event"},
         Goes(d, at, cmd[d].id), DOMAIN comments' = DOMAIN comments,
         \A i \in DOMAIN comments : comments'[i].gone = comments[i].gone /\ comments'[i].dev = comments[i].dev
  PROVE /\ cmd' \in [Devices -> CmdRec] /\ \A e \in Devices : e # d => cmd'[e] = cmd[e]
        /\ DevInv(d)'
<1>1. at \in CmdAt /\ CoreType
  BY DEF CmdAt, IInv
<1>2. cmd[d].id \in DOMAIN comments /\ cmd[d].id \in Nat /\ comments[cmd[d].id].dev = d /\ ~comments[cmd[d].id].gone
  BY OwnClaim
<1>3. /\ cmd' \in [Devices -> CmdRec] /\ cmd'[d].at = at /\ cmd'[d].id = cmd[d].id
      /\ \A e \in Devices : e # d => cmd'[e] = cmd[e]
  BY <1>1, <1>2, GoesTo
<1>4. IdOwn(d)'
  BY <1>2, <1>3 DEF IdOwn
<1> QED BY <1>3, <1>4 DEF DevInv, Fresh, InTimeStill, Since, KeptFirst, SeenRight, OwnClear

\* the device's claim won, and no live claim of another device is earlier
LEMMA WonNow ==
  ASSUME IInv, NEW d \in Devices, cmd[d].at \in OwnAt,
         comments' = [comments EXCEPT ![cmd[d].id].won = TRUE],
         \A j : Foreign(d, j) => cmd[d].id < j
  PROVE /\ comments' \in Seq(Comment) /\ Len(comments') = Len(comments) /\ DOMAIN comments' = DOMAIN comments
        /\ \A i \in DOMAIN comments : /\ comments'[i].gone = comments[i].gone /\ comments'[i].dev = comments[i].dev
                                       /\ comments'[i].left = comments[i].left
        /\ Seen(d) /\ WonFirst' /\ OwnOnce'
<1>1. CoreType /\ WonFirst /\ OwnOnce /\ comments \in Seq(Comment)
  BY DEF IInv, CoreType
<1>2. comments[cmd[d].id] \in Comment /\ cmd[d].id \in DOMAIN comments /\ comments[cmd[d].id].dev = d
  BY OwnClaim
<1> DEFINE c == [comments[cmd[d].id] EXCEPT !.won = TRUE]
<1>3. c \in Comment /\ c.gone = comments[cmd[d].id].gone /\ c.dev = d /\ c.left = comments[cmd[d].id].left
  BY <1>2 DEF Comment
<1>4. comments' = [comments EXCEPT ![cmd[d].id] = c]
  BY <1>1, <1>2
<1> HIDE DEF c
<1>5. /\ comments' \in Seq(Comment) /\ Len(comments') = Len(comments) /\ DOMAIN comments' = DOMAIN comments
      /\ comments'[cmd[d].id] = c /\ \A j \in DOMAIN comments : j # cmd[d].id => comments'[j] = comments[j]
  BY <1>1, <1>2, <1>3, <1>4
<1>6. \A i \in DOMAIN comments : /\ comments'[i].gone = comments[i].gone /\ comments'[i].dev = comments[i].dev
                                 /\ comments'[i].left = comments[i].left
  BY <1>2, <1>3, <1>5
<1>7. (\A j : LiveStanding(j)' <=> LiveStanding(j)) /\ \A j : LiveStanding(j) => j \in DOMAIN comments
  BY <1>5, <1>6 DEF LiveStanding
<1>8. \A i \in DOMAIN comments : comments[i].dev # d => comments'[i] = comments[i]
  BY <1>2, <1>5
<1>9. Seen(d)
  BY <1>5, <1>6, <1>7, <1>8 DEF Seen
<1>10. OwnOnce'
  BY <1>1, <1>6, <1>7 DEF OwnOnce, Mine
<1>11. WonFirst'
  <2> SUFFICES ASSUME NEW i, NEW j, LiveStanding(i)', comments'[i].won, LiveStanding(j)', comments'[j].dev # comments'[i].dev
               PROVE i < j
    BY DEF WonFirst, Foreign
  <2>1. LiveStanding(i) /\ LiveStanding(j) /\ comments[i].dev = comments'[i].dev /\ comments[j].dev = comments'[j].dev
    BY <1>6, <1>7
  <2>2. CASE i = cmd[d].id
    BY <1>2, <2>1, <2>2 DEF Foreign
  <2>3. CASE i # cmd[d].id
    <3>1. comments[i].won
      BY <1>5, <1>7, <2>1, <2>3
    <3> QED BY <1>1, <2>1, <3>1 DEF WonFirst, Foreign
  <2> QED BY <2>2, <2>3
<1> QED BY <1>5, <1>6, <1>9, <1>10, <1>11

LEMMA JudgeInv == ASSUME IInv, NEW d \in Devices, Judge(d) PROVE IInv'
<1>1. /\ CoreType /\ cmd[d].at = "judge" /\ cmd[d].at \in OwnAt /\ DevInv(d) /\ comments \in Seq(Comment)
      /\ cmd[d] \in CmdRec
  BY DEF IInv, CoreType, CmdRec, Judge, At, OwnAt
<1>2. CASE Wins(d)
  <2>1. comments' = [comments EXCEPT ![cmd[d].id].won = TRUE] /\ Goes(d, "labels", cmd[d].id)
    BY <1>2 DEF Judge
  <2>2. ASSUME NEW j, Foreign(d, j) PROVE cmd[d].id < j
    <3>1. j \in Nat /\ cmd[d].id \in Nat /\ comments[j].dev # d /\ comments[cmd[d].id].dev = d /\ j \in Ids
      <4>1. j \in DOMAIN comments
        BY <2>2 DEF Foreign, LiveStanding
      <4>2. j \in Ids
        BY <1>1, <4>1, BoundsAssumption DEF CoreType, Ids
      <4> QED BY <1>1, <2>2, <4>2, OwnClaim DEF Foreign, Ids
    <3>2. cmd[d].seen[j] \in Nat /\ cmd[d].age \in 0..OpMax
      BY <1>1, <3>1 DEF CmdRec
    <3>3. ~(j < cmd[d].id)
      <4> SUFFICES ASSUME j < cmd[d].id PROVE FALSE
        OBVIOUS
      <4>1. cmd[d].seen[j] + cmd[d].age >= Lease
        BY <1>1, <2>2 DEF DevInv, SeenRight
      <4>2. cmd[d].seen[j] > 0
        BY <3>2, <4>1, TimesAssumption
      <4>3. cmd[d].id <= j
        BY <1>2, <3>1, <4>2 DEF Wins, IsFirst, SeenLive
      <4> QED BY <3>1, <4>3
    <3> QED BY <3>1, <3>3
  <2>3. /\ comments' \in Seq(Comment) /\ Len(comments') = Len(comments) /\ DOMAIN comments' = DOMAIN comments
        /\ \A i \in DOMAIN comments : comments'[i].gone = comments[i].gone /\ comments'[i].dev = comments[i].dev
        /\ Seen(d) /\ WonFirst' /\ OwnOnce'
    BY <1>1, <2>1, <2>2, WonNow
  <2>4. /\ cmd' \in [Devices -> CmdRec] /\ \A e \in Devices : e # d => cmd'[e] = cmd[e]
        /\ DevInv(d)'
    BY <1>1, <2>1, <2>3, NextAt
  <2>5. CoreType'
    BY <1>1, <2>3, <2>4 DEF CoreType, CmdRec
  <2> QED BY <2>3, <2>4, <2>5, DeviceStep
<1>3. CASE ~Wins(d)
  <2>1. UNCHANGED comments /\ Goes(d, "withdraw", cmd[d].id)
    BY <1>3 DEF Judge
  <2>2. /\ cmd' \in [Devices -> CmdRec] /\ \A e \in Devices : e # d => cmd'[e] = cmd[e]
        /\ DevInv(d)'
    BY <1>1, <2>1, NextAt
  <2> QED BY <2>1, <2>2, ReadStep
<1> QED BY <1>2, <1>3

LEMMA LabelsInv == ASSUME IInv, NEW d \in Devices, Labels(d) PROVE IInv'
<1>1. cmd[d].at \in OwnAt /\ UNCHANGED comments /\ Goes(d, "event", cmd[d].id)
  BY DEF Labels, At, OwnAt
<1>2. /\ cmd' \in [Devices -> CmdRec] /\ \A e \in Devices : e # d => cmd'[e] = cmd[e]
      /\ DevInv(d)'
  BY <1>1, NextAt
<1> QED BY <1>1, <1>2, ReadStep

\* a command that ends, or goes on with no claim of its own, writing no comment
LEMMA EndInv ==
  ASSUME IInv, NEW d \in Devices, UNCHANGED comments,
         \/ Ends(d)
         \/ \E at \in {"requeue", "requeued"} : Goes(d, at, 0)
  PROVE IInv'
<1>1. CoreType
  BY DEF IInv
<1>2. /\ cmd' \in [Devices -> CmdRec] /\ cmd'[d].at \in {"idle", "requeue", "requeued"}
      /\ \A e \in Devices : e # d => cmd'[e] = cmd[e]
  <2>1. CASE Ends(d)
    BY <1>1, <2>1, EndsTo
  <2>2. ASSUME NEW at \in {"requeue", "requeued"}, Goes(d, at, 0)
        PROVE cmd' \in [Devices -> CmdRec] /\ cmd'[d].at = at /\ \A e \in Devices : e # d => cmd'[e] = cmd[e]
    <3>1. at \in CmdAt /\ 0 \in Nat
      BY DEF CmdAt
    <3> QED BY <1>1, <2>2, <3>1, GoesTo
  <2> QED BY <2>1, <2>2
<1>3. DevInv(d)'
  BY <1>2 DEF DevInv, IdOwn, Fresh, InTimeStill, Since, KeptFirst, SeenRight, OwnClear, OwnAt
<1> QED BY <1>2, <1>3, ReadStep

LEMMA KeepInv == ASSUME IInv, NEW d \in Devices, Keep(d) PROVE IInv'
<1>1. /\ CoreType /\ cmd[d].at = "keep" /\ cmd[d].at \in OwnAt /\ DevInv(d)
      /\ comments' = [comments EXCEPT ![cmd[d].id].won = TRUE] /\ Ends(d)
  BY DEF IInv, Keep, At, OwnAt
<1>2. \A j : Foreign(d, j) => cmd[d].id < j
  BY <1>1 DEF DevInv, KeptFirst
<1>3. /\ comments' \in Seq(Comment) /\ Len(comments') = Len(comments)
      /\ Seen(d) /\ WonFirst' /\ OwnOnce'
  BY <1>1, <1>2, WonNow
<1>4. /\ cmd' \in [Devices -> CmdRec] /\ cmd'[d].at = "idle" /\ \A e \in Devices : e # d => cmd'[e] = cmd[e]
  BY <1>1, EndsTo
<1>5. CoreType'
  BY <1>1, <1>3, <1>4 DEF CoreType, CmdRec
<1>6. DevInv(d)'
  BY <1>4 DEF DevInv, IdOwn, Fresh, InTimeStill, Since, KeptFirst, SeenRight, OwnClear, OwnAt
<1> QED BY <1>3, <1>4, <1>5, <1>6, DeviceStep

LEMMA FailInv == ASSUME IInv, NEW d \in Devices, Fail(d) PROVE IInv'
<1>1. UNCHANGED comments
  BY DEF Fail
<1>2. CASE cmd[d].at \in {"reread", "labels"} /\ Goes(d, "withdraw", cmd[d].id)
  <2>1. cmd[d].at \in OwnAt
    BY <1>2 DEF OwnAt
  <2>2. /\ cmd' \in [Devices -> CmdRec] /\ \A e \in Devices : e # d => cmd'[e] = cmd[e]
        /\ DevInv(d)'
    BY <1>1, <1>2, <2>1, NextAt
  <2> QED BY <1>1, <2>2, ReadStep
<1>3. CASE Ends(d)
  BY <1>1, <1>3, EndInv
<1> QED BY <1>2, <1>3 DEF Fail

\* a renewal comes while its claim is live, so no lapsed claim lives again
LEMMA RenewInv == ASSUME IInv, NEW d \in Devices, Renew(d) PROVE IInv'
<1>1. /\ CoreType /\ cmd[d].at = "renew" /\ cmd[d].at \in OwnAt /\ DevInv(d) /\ WonFirst /\ OwnOnce
      /\ comments \in Seq(Comment)
  BY DEF IInv, CoreType, Renew, At, OwnAt
<1>2. /\ comments[cmd[d].id] \in Comment /\ cmd[d].id \in DOMAIN comments /\ comments[cmd[d].id].dev = d
      /\ ~comments[cmd[d].id].gone /\ cmd[d].age \in Nat /\ cmd[d].age <= OpMax
      /\ comments[cmd[d].id].left \in Nat
  BY <1>1, OwnClaim
<1>3. comments[cmd[d].id].left > 0
  BY <1>1, <1>2, TimesAssumption DEF DevInv, InTimeStill
<1> DEFINE c == [comments[cmd[d].id] EXCEPT !.left = Lease]
<1>4. c \in Comment /\ c.gone = comments[cmd[d].id].gone /\ c.dev = d /\ c.left = Lease /\ c.won = comments[cmd[d].id].won
  BY <1>2, TimesAssumption DEF Comment
<1>5. comments' = [comments EXCEPT ![cmd[d].id] = c] /\ Ends(d)
  BY <1>1, <1>2 DEF Renew
<1> HIDE DEF c
<1>6. /\ comments' \in Seq(Comment) /\ Len(comments') = Len(comments) /\ DOMAIN comments' = DOMAIN comments
      /\ Seen(d) /\ comments'[cmd[d].id] = c
      /\ \A j \in DOMAIN comments : j # cmd[d].id => comments'[j] = comments[j]
  BY <1>2, <1>3, <1>4, <1>5, OwnWrite
<1>7. /\ cmd' \in [Devices -> CmdRec] /\ cmd'[d].at = "idle" /\ \A e \in Devices : e # d => cmd'[e] = cmd[e]
  BY <1>1, <1>5, EndsTo
<1>8. CoreType'
  BY <1>1, <1>6, <1>7 DEF CoreType, CmdRec
<1>9. (\A i \in DOMAIN comments : comments'[i].won => comments[i].won) /\ \A j : LiveStanding(j)' => j \in DOMAIN comments
  BY <1>4, <1>6 DEF LiveStanding
<1>10. Len(comments) + 1 \notin DOMAIN comments
  BY <1>1
<1>11. WonFirst' /\ OwnOnce'
  BY <1>1, <1>6, <1>8, <1>9, <1>10, WonKept, OnceKept
<1>12. DevInv(d)'
  BY <1>7 DEF DevInv, IdOwn, Fresh, InTimeStill, Since, KeptFirst, SeenRight, OwnClear, OwnAt
<1> QED BY <1>6, <1>7, <1>8, <1>11, <1>12, DeviceStep

\* a tick: every lease has one less, and every run under way is one older
LEMMA TickFields ==
  ASSUME CoreType, Tick
  PROVE /\ CoreType' /\ DOMAIN comments' = DOMAIN comments
        /\ \A i \in DOMAIN comments :
             /\ comments'[i].left = Less(comments[i].left) /\ comments[i].left \in Nat
             /\ comments'[i].dev = comments[i].dev /\ comments'[i].gone = comments[i].gone
             /\ comments'[i].won = comments[i].won
        /\ \A j : LiveStanding(j)' => LiveStanding(j) /\ comments'[j].dev = comments[j].dev /\ comments'[j].won = comments[j].won
        /\ \A d \in Devices : ~Running(d) => cmd'[d] = cmd[d]
        /\ \A d \in Devices : Running(d) =>
             /\ cmd'[d].at = cmd[d].at /\ cmd'[d].id = cmd[d].id
             /\ cmd'[d].age = cmd[d].age + 1 /\ cmd[d].age \in Nat /\ cmd'[d].age <= OpMax
             /\ \A i \in Ids : cmd'[d].seen[i] = Less(cmd[d].seen[i])
             /\ cmd[d].seen \in [Ids -> Nat]
<1>1. /\ CoreType /\ comments \in Seq(Comment) /\ cmd \in [Devices -> CmdRec]
      /\ OpMax \in Nat /\ Lease \in Nat
  BY TimesAssumption DEF CoreType, CmdRec
<1>2. \A n \in Nat : Less(n) \in Nat /\ Less(n) <= n /\ n <= Less(n) + 1
  BY DEF Less
<1>3. ASSUME NEW i \in DOMAIN comments
      PROVE /\ comments'[i] \in Comment /\ comments'[i].left = Less(comments[i].left)
            /\ comments'[i].dev = comments[i].dev /\ comments'[i].gone = comments[i].gone
            /\ comments'[i].won = comments[i].won /\ comments[i].left \in Nat
  <2>1. comments[i] \in Comment /\ comments[i].left \in 0..Lease
    BY <1>1, CommentFields
  <2>2. comments'[i] = [comments[i] EXCEPT !.left = Less(comments[i].left)]
    BY DEF Tick
  <2>3. Less(comments[i].left) \in 0..Lease
    BY <1>1, <2>1 DEF Less
  <2> QED BY <1>1, <2>1, <2>2, <2>3 DEF Comment
<1>4. comments' \in Seq(Comment) /\ Len(comments') = Len(comments) /\ DOMAIN comments' = DOMAIN comments
  <2>1. DOMAIN comments' = 1..Len(comments) /\ Len(comments) \in Nat
    <3>1. DOMAIN comments = 1..Len(comments) /\ Len(comments) \in Nat
      BY <1>1
    <3>2. DOMAIN comments' = DOMAIN comments
      BY DEF Tick
    <3> QED BY <3>1, <3>2
  <2>2. comments' \in [1..Len(comments) -> Comment]
    BY <1>1, <1>3, <2>1 DEF Tick
  <2> QED BY <1>1, <2>1, <2>2
<1>5. ASSUME NEW d \in Devices, Running(d)
      PROVE /\ cmd'[d] \in CmdRec /\ cmd'[d].at = cmd[d].at /\ cmd'[d].id = cmd[d].id /\ cmd'[d].age = cmd[d].age + 1
            /\ \A i \in Ids : cmd'[d].seen[i] = Less(cmd[d].seen[i])
            /\ cmd[d].age \in Nat /\ cmd[d].seen \in [Ids -> Nat]
  <2>1. cmd[d] \in CmdRec /\ cmd[d].age < OpMax
    BY <1>1, <1>5 DEF Tick
  <2>2. cmd[d].age \in Nat /\ cmd[d].age + 1 \in 0..OpMax /\ cmd[d].seen \in [Ids -> Nat]
    BY <1>1, <2>1 DEF CmdRec
  <2> DEFINE seen == [i \in Ids |-> Less(cmd[d].seen[i])]
  <2>3. cmd'[d] = [cmd[d] EXCEPT !.age = cmd[d].age + 1, !.seen = seen]
    BY <1>5, <2>1 DEF Tick, CmdRec
  <2>4. seen \in [Ids -> Nat]
    BY <1>2, <2>2
  <2>5. \A i \in Ids : seen[i] = Less(cmd[d].seen[i])
    OBVIOUS
  <2> HIDE DEF seen
  <2> QED BY <2>1, <2>2, <2>3, <2>4, <2>5 DEF CmdRec
<1>6. \A d \in Devices : ~Running(d) => cmd'[d] = cmd[d]
  BY DEF Tick
<1>7. cmd' \in [Devices -> CmdRec]
  <2>1. \A d \in Devices : cmd'[d] \in CmdRec
    BY <1>1, <1>5, <1>6
  <2> QED BY <2>1 DEF Tick
<1>8. CoreType'
  BY <1>1, <1>4, <1>7 DEF CoreType, CmdRec
<1>9. \A j : LiveStanding(j)' => LiveStanding(j) /\ comments'[j].dev = comments[j].dev /\ comments'[j].won = comments[j].won
  <2> SUFFICES ASSUME NEW j, LiveStanding(j)'
               PROVE LiveStanding(j) /\ comments'[j].dev = comments[j].dev /\ comments'[j].won = comments[j].won
    OBVIOUS
  <2>1. j \in DOMAIN comments /\ ~comments'[j].gone /\ comments'[j].left > 0
    BY <1>4 DEF LiveStanding
  <2>2. comments[j].left > 0
    BY <1>3, <2>1 DEF Less
  <2> QED BY <1>3, <2>1, <2>2 DEF LiveStanding
<1>10. \A d \in Devices : Running(d) => cmd'[d].age <= OpMax
  BY <1>1, <1>5 DEF CmdRec
<1> QED BY <1>3, <1>4, <1>5, <1>6, <1>8, <1>9, <1>10

\* a tick takes from a lease no more than it adds to the age of every run under way
LEMMA TickInv == ASSUME IInv, Tick PROVE IInv'
<1>1. /\ CoreType /\ comments \in Seq(Comment) /\ WonFirst /\ OwnOnce /\ OpMax \in Nat /\ Lease \in Nat
  BY TimesAssumption DEF IInv, CoreType
<1>2. \A n \in Nat : Less(n) \in Nat /\ Less(n) <= n /\ n <= Less(n) + 1
  BY DEF Less
<1>3. \A i \in DOMAIN comments :
        /\ comments'[i].left = Less(comments[i].left) /\ comments[i].left \in Nat
        /\ comments'[i].dev = comments[i].dev /\ comments'[i].gone = comments[i].gone
        /\ comments'[i].won = comments[i].won
  BY <1>1, TickFields
<1>4. DOMAIN comments' = DOMAIN comments
  BY <1>1, TickFields
<1>5. \A d \in Devices : Running(d) =>
        /\ cmd'[d].at = cmd[d].at /\ cmd'[d].id = cmd[d].id
        /\ cmd'[d].age = cmd[d].age + 1 /\ cmd[d].age \in Nat
        /\ \A i \in Ids : cmd'[d].seen[i] = Less(cmd[d].seen[i])
        /\ cmd[d].seen \in [Ids -> Nat]
  BY <1>1, TickFields
<1>6. \A d \in Devices : ~Running(d) => cmd'[d] = cmd[d]
  BY <1>1, TickFields
<1>8. CoreType'
  BY <1>1, TickFields
<1>9. \A j : LiveStanding(j)' => LiveStanding(j) /\ comments'[j].dev = comments[j].dev /\ comments'[j].won = comments[j].won
  BY <1>1, TickFields
<1>10. WonFirst' /\ OwnOnce'
  BY <1>1, <1>9 DEF WonFirst, OwnOnce, Foreign, Mine
<1>11. ASSUME NEW d \in Devices PROVE DevInv(d)'
  <2>1. CASE ~Running(d)
    BY <1>6, <2>1 DEF Running, DevInv, IdOwn, Fresh, InTimeStill, Since, KeptFirst, SeenRight, OwnClear, OwnAt
  <2>2. CASE Running(d)
    <3>1. DevInv(d) /\ cmd'[d].at = cmd[d].at /\ cmd'[d].id = cmd[d].id /\ cmd'[d].age = cmd[d].age + 1 /\ cmd[d].age \in Nat
      BY <1>5, <2>2 DEF IInv
    <3>2. /\ \A j : Foreign(d, j)' => Foreign(d, j) /\ comments'[j].left = Less(comments[j].left) /\ comments[j].left \in Nat
          /\ \A j : Mine(d, j)' => Mine(d, j)
      BY <1>3, <1>4, <1>9 DEF Foreign, Mine, LiveStanding
    <3>3. cmd[d].at \in OwnAt => /\ cmd[d].id \in DOMAIN comments
                                 /\ comments'[cmd[d].id].left = Less(comments[cmd[d].id].left)
                                 /\ comments[cmd[d].id].left \in Nat
      BY <1>3, <3>1 DEF DevInv, IdOwn
    <3>4. IdOwn(d)'
      BY <1>3, <1>4, <3>1 DEF DevInv, IdOwn
    <3>5. \A n \in Nat : \A m \in Nat : /\ n + cmd[d].age >= m => Less(n) + (cmd[d].age + 1) >= m
                                        /\ n + cmd[d].age > m => Less(n) + (cmd[d].age + 1) > m
      BY <3>1 DEF Less
    <3>6. Fresh(d)'
      <4> SUFFICES ASSUME cmd[d].at \in {"reread", "judge"} PROVE comments'[cmd[d].id].left + (cmd[d].age + 1) >= Lease
        BY <3>1 DEF Fresh
      <4>1. /\ comments'[cmd[d].id].left = Less(comments[cmd[d].id].left) /\ comments[cmd[d].id].left \in Nat
            /\ comments[cmd[d].id].left + cmd[d].age >= Lease
        BY <3>1, <3>3 DEF OwnAt, DevInv, Fresh
      <4> QED BY <1>1, <3>5, <4>1
    <3>7. InTimeStill(d)'
      <4> SUFFICES ASSUME cmd[d].at \in {"keep", "renew"} PROVE comments'[cmd[d].id].left + (cmd[d].age + 1) > OpMax
        BY <3>1 DEF InTimeStill
      <4>1. /\ comments'[cmd[d].id].left = Less(comments[cmd[d].id].left) /\ comments[cmd[d].id].left \in Nat
            /\ comments[cmd[d].id].left + cmd[d].age > OpMax
        BY <3>1, <3>3 DEF OwnAt, DevInv, InTimeStill
      <4> QED BY <1>1, <3>5, <4>1
    <3>8. Since(d)'
      <4> SUFFICES ASSUME cmd[d].at \in {"keep", "delete", "post", "reread", "judge"}, NEW j, Foreign(d, j)'
                   PROVE comments'[j].left + (cmd[d].age + 1) >= Lease
        BY <3>1 DEF Since
      <4>1. /\ comments'[j].left = Less(comments[j].left) /\ comments[j].left \in Nat
            /\ comments[j].left + cmd[d].age >= Lease
        BY <3>1, <3>2 DEF DevInv, Since
      <4> QED BY <1>1, <3>5, <4>1
    <3>9. KeptFirst(d)' /\ OwnClear(d)'
      BY <3>1, <3>2 DEF DevInv, KeptFirst, OwnClear
    <3>10. SeenRight(d)'
      <4> SUFFICES ASSUME cmd[d].at = "judge"
                   PROVE /\ cmd'[d].seen[cmd[d].id] + (cmd[d].age + 1) >= Lease
                         /\ \A j : (Foreign(d, j)' /\ j < cmd[d].id) => cmd'[d].seen[j] + (cmd[d].age + 1) >= Lease
        BY <3>1 DEF SeenRight
      <4>1. \A i \in DOMAIN comments : i \in Ids
        BY <1>1, BoundsAssumption DEF CoreType, Ids
      <4>2. ASSUME NEW i \in Ids, cmd[d].seen[i] + cmd[d].age >= Lease PROVE cmd'[d].seen[i] + (cmd[d].age + 1) >= Lease
        <5>1. cmd'[d].seen[i] = Less(cmd[d].seen[i]) /\ cmd[d].seen[i] \in Nat
          BY <1>5, <2>2
        <5> QED BY <1>1, <3>5, <4>2, <5>1
      <4>3. cmd[d].id \in Ids /\ cmd[d].seen[cmd[d].id] + cmd[d].age >= Lease
        BY <3>1, <3>3, <4>1 DEF OwnAt, DevInv, SeenRight
      <4>4. ASSUME NEW j, Foreign(d, j)', j < cmd[d].id PROVE cmd'[d].seen[j] + (cmd[d].age + 1) >= Lease
        <5>1. Foreign(d, j) /\ j \in DOMAIN comments
          BY <3>2, <4>4 DEF Foreign, LiveStanding
        <5>2. cmd[d].seen[j] + cmd[d].age >= Lease
          BY <3>1, <4>4, <5>1 DEF DevInv, SeenRight
        <5> QED BY <4>1, <4>2, <5>1, <5>2
      <4> QED BY <4>2, <4>3, <4>4
    <3> QED BY <3>4, <3>6, <3>7, <3>8, <3>9, <3>10 DEF DevInv
  <2> QED BY <2>1, <2>2
<1> QED BY <1>8, <1>10, <1>11 DEF IInv

LEMMA NextInv == ASSUME IInv, [Next]_vars, "late" \notin Races PROVE IInv'
<1>1. CASE UNCHANGED vars
  BY <1>1, CalmStep DEF vars
<1>2. CASE MergedByHand \/ ClosedByHand
  BY <1>2, CalmStep DEF MergedByHand, ClosedByHand
<1>3. CASE Tick
  BY <1>3, TickInv
<1>4. ASSUME NEW d \in Devices, ClaimStep(d) PROVE IInv'
  <2>1. CASE Claimed(d) \/ Requeued(d)
    BY <2>1, EndInv DEF Claimed, Requeued
  <2>2. CASE Requeue(d)
    <3>1. UNCHANGED comments /\ \E at \in {"requeue", "requeued"} : Goes(d, at, 0)
      BY <2>2 DEF Requeue
    <3> QED BY <3>1, EndInv
  <2> QED BY <1>4, <2>1, <2>2, DeleteInv, PostInv, RereadInv, JudgeInv, WithdrawInv, LabelsInv, KeepInv, RenewInv DEF ClaimStep
<1>5. ASSUME NEW d \in Devices, Release(d) PROVE IInv'
  <2>1. CASE Goes(d, "requeue", 0)
    <3>1. UNCHANGED comments /\ \E at \in {"requeue", "requeued"} : Goes(d, at, 0)
      BY <1>5, <2>1 DEF Release
    <3> QED BY <3>1, EndInv
  <2>2. CASE UNCHANGED cmd
    BY <1>5, <2>2, CalmStep DEF Release
  <2> QED BY <1>5, <2>1, <2>2 DEF Release
<1>6. ASSUME NEW d \in Devices, Cut(d) PROVE IInv'
  BY <1>6, EndInv DEF Cut
<1>7. ASSUME NEW d \in Devices, SweepStep(d) \/ SweepCut(d) \/ Push(d) \/ \E central \in BOOLEAN : SweepLoad(d, central)
      PROVE IInv'
  <2>1. UNCHANGED <<comments, cmd>>
    BY <1>7 DEF SweepStep, SweepRead, SweepLabel, SweepEvent, SweepCut, Push, SweepLoad
  <2> QED BY <2>1, CalmStep
<1>8. ASSUME NEW d \in Devices, BeginClaim(d) \/ BeginRenew(d) \/ Fail(d) PROVE IInv'
  BY <1>8, BeginClaimInv, BeginRenewInv, FailInv
<1> QED BY <1>1, <1>2, <1>3, <1>4, <1>5, <1>6, <1>7, <1>8 DEF Next

LEMMA Invariant == ASSUME "late" \notin Races PROVE Spec => []IInv
<1>1. IInv /\ [Next]_vars => IInv'
  BY NextInv
<1> QED BY InitInv, <1>1, PTL DEF Spec

-----------------------------------------------------------------------------
(* Who wins. While a run withdraws, every claim that was live when it read *)
(* its list outlives the run, and of those up to its own one stands: it    *)
(* won, or its device will still judge on it (Beaten, SeenStands).         *)

\* nothing failed yet, and no winner gave its claim up to claim afresh
Quiet == upsets = 0 /\ ~CameBack

\* a live claim that won, or whose device will still judge on it
OnWay(d, i) == cmd[d].at \in {"reread", "judge"} /\ cmd[d].id = i
Stands(i) == LiveStanding(i) /\ (comments[i].won \/ \E d \in Devices : OnWay(d, i))
\* one of the claims up to i stands
StandsBy(i) == \E j \in DOMAIN comments : j <= i /\ Stands(j)

\* a live claim stands, or its device withdraws it
Known == \A i \in DOMAIN comments :
  LiveStanding(i) => Stands(i) \/ \E d \in Devices : cmd[d].at = "withdraw" /\ cmd[d].id = i
\* no live claim lapses while a run withdraws beside it
Outlives(d) == cmd[d].at = "withdraw" =>
  /\ comments[cmd[d].id].left + cmd[d].age >= Lease
  /\ \A j \in DOMAIN comments : Foreign(d, j) => comments[j].left + cmd[d].age >= Lease
\* beside a claim that is withdrawn an earlier one stands
Beaten(d) == cmd[d].at = "withdraw" => \E j \in DOMAIN comments : j < cmd[d].id /\ Stands(j)
\* so it does beside each claim that a run judges on
SeenStands(d) == cmd[d].at = "judge" => \A j \in SeenLive(d) : j < cmd[d].id => StandsBy(j)

BeatenInv(d) == Outlives(d) /\ Beaten(d) /\ SeenStands(d)
WinInv == upsets \in Nat /\ (Quiet => Known /\ \A d \in Devices : BeatenInv(d))

\* A device that gave a claim up to claim afresh is not forgotten, nor is a failure.
LEMMA BackStays == ASSUME IInv, [Next]_vars PROVE CameBack => CameBack'
<1> USE DEF CameBack
<1>1. CASE UNCHANGED comments
  BY <1>1
<1>2. comments \in Seq(Comment)
  BY DEF IInv, CoreType
<1>3. ASSUME NEW d \in Devices, Post(d) PROVE CameBack => CameBack'
  <2>1. DOMAIN comments \subseteq DOMAIN comments' /\ \A i \in DOMAIN comments : comments'[i] = comments[i]
    BY <1>2, <1>3 DEF Post
  <2> QED BY <2>1
<1>4. ASSUME NEW d \in Devices, Delete(d) \/ Judge(d) \/ Withdraw(d) \/ Keep(d) \/ Renew(d) PROVE CameBack => CameBack'
  <2>1. cmd[d].at \in OwnAt
    BY <1>4 DEF Delete, Judge, Withdraw, Keep, Renew, At, OwnAt
  <2>2. cmd[d].id \in DOMAIN comments /\ ~comments[cmd[d].id].gone
    BY <2>1, OwnClaim
  <2>3. DOMAIN comments' = DOMAIN comments /\ \A i \in DOMAIN comments : i # cmd[d].id => comments'[i] = comments[i]
    BY <1>4 DEF Delete, Judge, Withdraw, Keep, Renew
  <2> QED BY <2>2, <2>3
<1>5. CASE Tick
  <2>1. DOMAIN comments' = DOMAIN comments
        /\ \A i \in DOMAIN comments : comments'[i].gone = comments[i].gone /\ comments'[i].won = comments[i].won
    BY <1>5, TickFields DEF IInv
  <2> QED BY <2>1
<1>6. ASSUME NEW d \in Devices, ClaimStep(d) PROVE CameBack => CameBack'
  <2>1. CASE Reread(d) \/ Labels(d) \/ Claimed(d) \/ Requeue(d) \/ Requeued(d)
    BY <1>1, <2>1 DEF Reread, Labels, Claimed, Requeue, Requeued
  <2> QED BY <1>3, <1>4, <1>6, <2>1 DEF ClaimStep
<1>7. ASSUME NEW d \in Devices, SweepStep(d) \/ SweepCut(d) \/ Push(d) \/ \E central \in BOOLEAN : SweepLoad(d, central)
      PROVE UNCHANGED comments
  BY <1>7 DEF SweepStep, SweepRead, SweepLabel, SweepEvent, SweepCut, Push, SweepLoad
<1>8. ASSUME NEW d \in Devices, BeginClaim(d) \/ Fail(d) \/ Cut(d) \/ BeginRenew(d) \/ Release(d) PROVE UNCHANGED comments
  BY <1>8 DEF BeginClaim, Fail, Cut, BeginRenew, Release
<1>9. CASE MergedByHand \/ ClosedByHand \/ UNCHANGED vars
  BY <1>1, <1>9 DEF MergedByHand, ClosedByHand, vars
<1> QED BY <1>1, <1>5, <1>6, <1>7, <1>8, <1>9 DEF Next

\* What a live claim's owner has of it, in any state of the claims' invariant.
LEMMA OwnOf ==
  ASSUME IInv, NEW d \in Devices, NEW i, OnWay(d, i) \/ (cmd[d].at = "withdraw" /\ cmd[d].id = i)
  PROVE  i \in DOMAIN comments /\ i \in Nat /\ comments[i].dev = d /\ ~comments[i].gone
BY OwnClaim DEF OnWay, OwnAt

\* A claim that a run is still to judge on, or withdraws, is live, and its device's only live one.
LEMMA OwnLives ==
  ASSUME IInv, NEW d \in Devices, OnWay(d, cmd[d].id) \/ (cmd[d].at = "withdraw" /\ Outlives(d))
  PROVE  /\ LiveStanding(cmd[d].id) /\ cmd[d].id \in Nat /\ comments[cmd[d].id].dev = d
         /\ \A j : LiveStanding(j) /\ j # cmd[d].id => Foreign(d, j)
<1>1. /\ cmd[d].id \in DOMAIN comments /\ cmd[d].id \in Nat /\ comments[cmd[d].id].dev = d /\ ~comments[cmd[d].id].gone
      /\ cmd[d].age \in Nat /\ cmd[d].age <= OpMax /\ comments[cmd[d].id].left \in Nat
  BY OwnClaim DEF OnWay, OwnAt
<1>2. comments[cmd[d].id].left + cmd[d].age >= Lease
  BY DEF IInv, DevInv, Fresh, OnWay, Outlives
<1>3. LiveStanding(cmd[d].id)
  BY <1>1, <1>2, TimesAssumption DEF LiveStanding
<1>4. \A j : Mine(d, j) => j = cmd[d].id
  BY <1>1, <1>3 DEF IInv, OwnOnce, Mine
<1> QED BY <1>1, <1>3, <1>4 DEF Mine, Foreign

\* What a step of one device leaves to the others.
LEMMA OthersWin ==
  ASSUME IInv, IInv', NEW d \in Devices, NEW e \in Devices, e # d, cmd'[e] = cmd[e], Seen(d), BeatenInv(e),
         \A i \in DOMAIN comments : Stands(i) => StandsBy(i)'
  PROVE  BeatenInv(e)'
<1>1. /\ comments \in Seq(Comment) /\ Lease \in Nat /\ cmd[e].age \in Nat /\ cmd[e].id \in Nat
  BY TimesAssumption DEF IInv, CoreType
<1>2. \A i \in DOMAIN comments \cup DOMAIN comments' : i \in Nat
  BY DEF IInv, CoreType
<1>3. ASSUME NEW x \in Nat, StandsBy(x) PROVE StandsBy(x)'
  <2>1. PICK j \in DOMAIN comments : j <= x /\ Stands(j)
    BY <1>3 DEF StandsBy
  <2>2. PICK k \in DOMAIN comments' : k <= j /\ Stands(k)'
    BY <2>1 DEF StandsBy
  <2>3. k \in Nat /\ j \in Nat
    BY <1>2, <2>1, <2>2
  <2>4. k <= x
    BY <1>3, <2>1, <2>2, <2>3
  <2> QED BY <2>2, <2>4 DEF StandsBy
<1>4. Beaten(e)'
  <2> SUFFICES ASSUME cmd[e].at = "withdraw" PROVE \E j \in DOMAIN comments' : j < cmd[e].id /\ Stands(j)'
    BY DEF Beaten
  <2>1. PICK j \in DOMAIN comments : j < cmd[e].id /\ Stands(j)
    BY DEF BeatenInv, Beaten
  <2>2. PICK k \in DOMAIN comments' : k <= j /\ Stands(k)'
    BY <2>1 DEF StandsBy
  <2>3. k \in Nat /\ j \in Nat
    BY <1>2, <2>1, <2>2 DEF Stands, LiveStanding, Seen
  <2> QED BY <1>1, <2>1, <2>2, <2>3
<1>5. SeenStands(e)'
  BY <1>1, <1>3 DEF BeatenInv, SeenStands, SeenLive, Ids
<1>6. Outlives(e)'
  <2> SUFFICES ASSUME cmd[e].at = "withdraw"
               PROVE  /\ comments'[cmd[e].id].left + cmd[e].age >= Lease
                      /\ \A j \in DOMAIN comments' : Foreign(e, j)' => comments'[j].left + cmd[e].age >= Lease
    BY DEF Outlives
  <2>1. cmd[e].id \in DOMAIN comments /\ comments[cmd[e].id].dev = e
    BY OwnClaim DEF OwnAt
  <2>2. comments'[cmd[e].id] = comments[cmd[e].id]
    BY <2>1 DEF Seen
  <2>3. ASSUME NEW j, Foreign(e, j)' PROVE comments'[j].left + cmd[e].age >= Lease
    <3>1. CASE LiveStanding(j) /\ comments'[j].left = comments[j].left
      <4>1. Foreign(e, j) /\ j \in DOMAIN comments
        BY <2>3, <3>1 DEF Foreign, Seen, LiveStanding
      <4> QED BY <3>1, <4>1 DEF BeatenInv, Outlives
    <3>2. CASE comments'[j].left = Lease
      BY <1>1, <3>2
    <3> QED BY <2>3, <3>1, <3>2 DEF Foreign, Seen
  <2> QED BY <2>2, <2>3 DEF BeatenInv, Outlives
<1> QED BY <1>4, <1>5, <1>6 DEF BeatenInv

\* A step of one device: what it has to show of its own.
LEMMA WinStep ==
  ASSUME IInv, IInv', WinInv, Quiet, NEW d \in Devices, Seen(d), \A e \in Devices : e # d => cmd'[e] = cmd[e],
         \A i \in DOMAIN comments : Stands(i) => StandsBy(i)',
         Known', BeatenInv(d)'
  PROVE  Known' /\ \A e \in Devices : BeatenInv(e)'
BY OthersWin DEF WinInv

\* A step of a device that is not in contention changes who stands for nobody.
LEMMA PlainWin ==
  ASSUME IInv, IInv', WinInv, Quiet, NEW d \in Devices, DOMAIN comments' = DOMAIN comments,
         Seen(d), \A e \in Devices : e # d => cmd'[e] = cmd[e],
         \A i \in DOMAIN comments : (LiveStanding(i)' <=> LiveStanding(i)) /\ (comments[i].won => comments'[i].won),
         cmd[d].at \notin {"reread", "judge", "withdraw"}, cmd'[d].at \notin {"reread", "judge", "withdraw"}
  PROVE  Known' /\ \A e \in Devices : BeatenInv(e)'
<1>1. \A i \in DOMAIN comments : \A e \in Devices : OnWay(e, i) => OnWay(e, i)'
  BY DEF OnWay
<1>2. \A i \in DOMAIN comments : Stands(i) => Stands(i)'
  BY <1>1 DEF Stands
<1>3. \A i \in DOMAIN comments : i \in Nat
  BY DEF IInv, CoreType
<1>4. \A i \in DOMAIN comments : Stands(i) => StandsBy(i)'
  BY <1>2, <1>3 DEF StandsBy
<1>5. Known'
  BY <1>2 DEF WinInv, Known
<1>6. BeatenInv(d)'
  BY DEF BeatenInv, Outlives, Beaten, SeenStands
<1> QED BY <1>4, <1>5, <1>6, WinStep

\* A step that writes no comment, of a device that is not in contention.
LEMMA AsideWin ==
  ASSUME IInv, IInv', WinInv, Quiet, NEW d \in Devices, UNCHANGED comments,
         \A e \in Devices : e # d => cmd'[e] = cmd[e],
         cmd[d].at \notin {"reread", "judge", "withdraw"}, cmd'[d].at \notin {"reread", "judge", "withdraw"}
  PROVE  Known' /\ \A e \in Devices : BeatenInv(e)'
<1>1. Seen(d)
  BY DEF Seen, LiveStanding
<1>2. DOMAIN comments' = DOMAIN comments /\ \A i \in DOMAIN comments : (LiveStanding(i)' <=> LiveStanding(i)) /\ (comments[i].won => comments'[i].won)
  BY DEF LiveStanding
<1> QED BY <1>1, <1>2, PlainWin

LEMMA CalmWin ==
  ASSUME WinInv, Quiet, UNCHANGED <<comments, cmd>>
  PROVE  Known' /\ \A e \in Devices : BeatenInv(e)'
BY DEF WinInv, Known, BeatenInv, Outlives, Beaten, SeenStands, SeenLive, StandsBy, Stands, OnWay, Foreign, LiveStanding

\* Who stands among the claims that a step of one device leaves as they were.
LEMMA RestStand ==
  ASSUME IInv, NEW d \in Devices, NEW x, DOMAIN comments \subseteq DOMAIN comments',
         \A e \in Devices : e # d => cmd'[e] = cmd[e],
         \A i \in DOMAIN comments : i # x => comments'[i] = comments[i],
         \A i : OnWay(d, i) => i = x
  PROVE  \A i \in DOMAIN comments : i # x /\ Stands(i) => Stands(i)' /\ StandsBy(i)'
<1> SUFFICES ASSUME NEW i \in DOMAIN comments, i # x, Stands(i) PROVE Stands(i)' /\ StandsBy(i)'
  OBVIOUS
<1>1. comments'[i] = comments[i] /\ i \in DOMAIN comments' /\ i \in Nat
  BY DEF IInv, CoreType
<1>2. \A e \in Devices : OnWay(e, i) => OnWay(e, i)'
  BY DEF OnWay
<1>3. Stands(i)'
  BY <1>1, <1>2 DEF Stands, LiveStanding
<1> QED BY <1>1, <1>3 DEF StandsBy

LEMMA DeleteWin ==
  ASSUME IInv, IInv', WinInv, Quiet, ~CameBack', NEW d \in Devices, Delete(d)
  PROVE  Known' /\ \A e \in Devices : BeatenInv(e)'
<1> DEFINE x == cmd[d].id
<1>1. /\ cmd[d].at = "delete" /\ x \in DOMAIN comments /\ comments[x].dev = d /\ comments[x] \in Comment
      /\ comments \in Seq(Comment) /\ CoreType
  BY OwnClaim DEF IInv, CoreType, Delete, At, OwnAt
<1>2. cmd'[d].at = "post" /\ \A e \in Devices : e # d => cmd'[e] = cmd[e]
  <2>1. "post" \in CmdAt /\ 0 \in Nat
    BY DEF CmdAt
  <2> QED BY <1>1, <2>1, GoesTo DEF Delete
<1> DEFINE c == [comments[x] EXCEPT !.gone = TRUE]
<1>3. c \in Comment /\ c.gone /\ c.dev = d /\ c.left = comments[x].left /\ c.won = comments[x].won
  BY <1>1 DEF Comment
<1>4. comments' = [comments EXCEPT ![x] = c]
  BY DEF Delete
<1> HIDE DEF c
<1>5. DOMAIN comments' = DOMAIN comments /\ Seen(d) /\ comments'[x] = c
      /\ \A j \in DOMAIN comments : j # x => comments'[j] = comments[j]
  BY <1>1, <1>3, <1>4, OwnWrite
<1>6. ~comments[x].won
  BY <1>1, <1>3, <1>5 DEF CameBack
<1>7. ~Stands(x)
  <2>1. \A e \in Devices : ~OnWay(e, x)
    BY <1>1, OwnOf DEF OnWay
  <2> QED BY <1>6, <2>1 DEF Stands
<1> HIDE DEF x
<1>8. \A i \in DOMAIN comments : i # x /\ Stands(i) => Stands(i)' /\ StandsBy(i)'
  <2>1. \A i : ~OnWay(d, i)
    BY <1>1 DEF OnWay
  <2> QED BY <1>2, <1>5, <2>1, RestStand
<1>9. \A i \in DOMAIN comments : Stands(i) => StandsBy(i)'
  BY <1>7, <1>8
<1>10. Known'
  <2> SUFFICES ASSUME NEW i \in DOMAIN comments', LiveStanding(i)'
               PROVE  Stands(i)' \/ \E e \in Devices : cmd'[e].at = "withdraw" /\ cmd'[e].id = i
    BY DEF Known
  <2>1. i # x /\ i \in DOMAIN comments /\ LiveStanding(i)
    BY <1>3, <1>5 DEF LiveStanding
  <2> QED BY <1>1, <1>2, <1>8, <2>1 DEF WinInv, Known
<1>11. BeatenInv(d)'
  BY <1>2 DEF BeatenInv, Outlives, Beaten, SeenStands
<1> QED BY <1>2, <1>5, <1>9, <1>10, <1>11, WinStep

LEMMA PostWin ==
  ASSUME IInv, IInv', WinInv, Quiet, NEW d \in Devices, Post(d)
  PROVE  Known' /\ \A e \in Devices : BeatenInv(e)'
<1>1. comments \in Seq(Comment) /\ CoreType /\ cmd[d].at = "post"
  BY DEF IInv, CoreType, Post, At
<1> DEFINE c == [dev |-> d, left |-> Lease, gone |-> FALSE, won |-> FALSE]
           n == Len(comments) + 1
<1>2. c \in Comment /\ c.dev = d /\ c.left = Lease /\ ~c.won /\ ~c.gone
  BY TimesAssumption DEF Comment
<1>3. comments' = Append(comments, c) /\ Goes(d, "reread", n)
  BY DEF Post
<1> HIDE DEF c
<1>4. /\ n \in Nat /\ DOMAIN comments' = 1..n /\ DOMAIN comments = 1..Len(comments) /\ comments'[n] = c
      /\ \A i \in DOMAIN comments : comments'[i] = comments[i]
      /\ DOMAIN comments' = DOMAIN comments \cup {n}
  BY <1>1, <1>2, <1>3
<1>5. cmd'[d].at = "reread" /\ cmd'[d].id = n /\ \A e \in Devices : e # d => cmd'[e] = cmd[e]
  <2>1. "reread" \in CmdAt
    BY DEF CmdAt
  <2> QED BY <1>1, <1>3, <1>4, <2>1, GoesTo
<1>6. Seen(d)
  BY <1>2, <1>4 DEF Seen, LiveStanding
<1> HIDE DEF n
<1>7. \A i \in DOMAIN comments : Stands(i) => Stands(i)' /\ StandsBy(i)'
  <2>1. (\A i : ~OnWay(d, i)) /\ n \notin DOMAIN comments
    BY <1>1, <1>4 DEF OnWay, n
  <2> QED BY <1>4, <1>5, <2>1, RestStand
<1>8. Known'
  <2> SUFFICES ASSUME NEW i \in DOMAIN comments', LiveStanding(i)'
               PROVE  Stands(i)' \/ \E e \in Devices : cmd'[e].at = "withdraw" /\ cmd'[e].id = i
    BY DEF Known
  <2>1. CASE i = n
    BY <1>5, <2>1 DEF Stands, OnWay
  <2>2. CASE i \in DOMAIN comments
    <3>1. LiveStanding(i)
      BY <1>4, <2>2 DEF LiveStanding
    <3> QED BY <1>1, <1>5, <1>7, <2>2, <3>1 DEF WinInv, Known
  <2> QED BY <1>4, <2>1, <2>2
<1>9. BeatenInv(d)'
  BY <1>5 DEF BeatenInv, Outlives, Beaten, SeenStands
<1> QED BY <1>5, <1>6, <1>7, <1>8, <1>9, WinStep

LEMMA RereadWin ==
  ASSUME IInv, IInv', WinInv, Quiet, NEW d \in Devices, Reread(d)
  PROVE  Known' /\ \A e \in Devices : BeatenInv(e)'
<1>1. comments \in Seq(Comment) /\ cmd[d].at = "reread" /\ UNCHANGED comments /\ cmd[d] \in CmdRec
  BY DEF IInv, CoreType, CmdRec, Reread, At
<1>2. /\ cmd'[d].at = "judge" /\ cmd'[d].id = cmd[d].id /\ \A e \in Devices : e # d => cmd'[e] = cmd[e]
      /\ cmd'[d].seen = [i \in Ids |-> IF i \in Standing THEN comments[i].left ELSE 0]
  BY <1>1 DEF Reread, CmdRec, IInv, CoreType
<1>3. Seen(d)
  BY <1>1 DEF Seen, LiveStanding
<1>4. \A i : \A e \in Devices : OnWay(e, i) => OnWay(e, i)'
  BY <1>1, <1>2 DEF OnWay
<1>5. \A i \in DOMAIN comments : Stands(i) => Stands(i)'
  BY <1>1, <1>4 DEF Stands, LiveStanding
<1>6. \A i \in DOMAIN comments : i \in Nat
  BY <1>1
<1>7. \A i \in DOMAIN comments : Stands(i) => StandsBy(i)'
  BY <1>1, <1>5, <1>6 DEF StandsBy
<1>8. Known'
  <2> SUFFICES ASSUME NEW i \in DOMAIN comments, LiveStanding(i)
               PROVE  Stands(i)' \/ \E e \in Devices : cmd'[e].at = "withdraw" /\ cmd'[e].id = i
    BY <1>1 DEF Known, LiveStanding
  <2> QED BY <1>1, <1>2, <1>5 DEF WinInv, Known
<1>9. SeenStands(d)'
  <2> SUFFICES ASSUME NEW j \in SeenLive(d)' PROVE StandsBy(j)'
    BY DEF SeenStands
  <2>1. j \in DOMAIN comments /\ LiveStanding(j)
    BY <1>2 DEF SeenLive, Standing, LiveStanding
  <2>2. CASE Stands(j)
    BY <1>7, <2>1, <2>2
  <2>3. ASSUME NEW e \in Devices, cmd[e].at = "withdraw", cmd[e].id = j PROVE StandsBy(j)'
    <3>1. PICK k \in DOMAIN comments : k < j /\ Stands(k)
      BY <2>3 DEF WinInv, BeatenInv, Beaten
    <3>2. Stands(k)' /\ k <= j
      BY <1>5, <1>6, <2>1, <3>1
    <3> QED BY <1>1, <3>1, <3>2 DEF StandsBy
  <2> QED BY <2>1, <2>2, <2>3 DEF WinInv, Known
<1>10. BeatenInv(d)'
  BY <1>2, <1>9 DEF BeatenInv, Outlives, Beaten
<1> QED BY <1>2, <1>3, <1>7, <1>8, <1>10, WinStep

\* the run that loses leaves an earlier claim standing; the one that wins stands by itself
LEMMA JudgeWin ==
  ASSUME IInv, IInv', WinInv, Quiet, NEW d \in Devices, Judge(d)
  PROVE  Known' /\ \A e \in Devices : BeatenInv(e)'
<1>1. PICK x \in Nat : x = cmd[d].id
  BY DEF IInv, CoreType
<1>2. /\ comments \in Seq(Comment) /\ CoreType /\ cmd[d].at = "judge" /\ OnWay(d, x) /\ cmd[d] \in CmdRec /\ x \in Nat
  BY <1>1 DEF IInv, CoreType, CmdRec, Judge, At, OnWay
<1>3. /\ LiveStanding(x) /\ comments[x].dev = d /\ comments[x] \in Comment /\ comments[x].left + cmd[d].age >= Lease
      /\ \A j : Foreign(d, j) => comments[j].left + cmd[d].age >= Lease
  BY <1>1, <1>2, OwnLives, OwnClaim DEF OwnAt, IInv, DevInv, Fresh, Since
<1>4. \A i : OnWay(d, i) => i = x
  BY <1>1 DEF OnWay
<1>5. \A e \in Devices : e # d => cmd'[e] = cmd[e]
  BY <1>1, <1>2 DEF Judge, Goes, CmdRec, CoreType
<1>6. CASE Wins(d)
  <2> DEFINE c == [comments[x] EXCEPT !.won = TRUE]
  <2>1. c \in Comment /\ c.won /\ c.dev = d /\ c.gone = comments[x].gone /\ c.left = comments[x].left
    BY <1>3 DEF Comment
  <2>2. comments' = [comments EXCEPT ![x] = c] /\ cmd'[d].at = "labels"
    BY <1>1, <1>2, <1>6 DEF Judge, Goes, CmdRec, CoreType
  <2> HIDE DEF c
  <2>3. DOMAIN comments' = DOMAIN comments /\ Seen(d) /\ comments'[x] = c
        /\ \A j \in DOMAIN comments : j # x => comments'[j] = comments[j]
    BY <1>1, <1>2, <1>3, <2>1, <2>2, OwnWrite DEF LiveStanding
  <2>4. Stands(x)' /\ StandsBy(x)'
    BY <1>1, <1>2, <1>3, <2>1, <2>3 DEF Stands, StandsBy, LiveStanding
  <2>5. \A i \in DOMAIN comments : i # x /\ Stands(i) => Stands(i)' /\ StandsBy(i)'
    BY <1>4, <1>5, <2>3, RestStand
  <2>6. \A i \in DOMAIN comments : Stands(i) => StandsBy(i)'
    BY <2>4, <2>5
  <2>7. Known'
    <3> SUFFICES ASSUME NEW i \in DOMAIN comments, LiveStanding(i), i # x
                 PROVE  Stands(i)' \/ \E e \in Devices : cmd'[e].at = "withdraw" /\ cmd'[e].id = i
      BY <2>3, <2>4 DEF Known, LiveStanding
    <3> QED BY <1>1, <1>2, <1>5, <2>5 DEF WinInv, Known
  <2>8. BeatenInv(d)'
    BY <2>2 DEF BeatenInv, Outlives, Beaten, SeenStands
  <2> QED BY <1>5, <2>3, <2>6, <2>7, <2>8, WinStep
<1>7. CASE ~Wins(d)
  <2>1. UNCHANGED comments /\ cmd'[d].at = "withdraw" /\ cmd'[d].id = x /\ cmd'[d].age = cmd[d].age
    <3>1. UNCHANGED comments /\ Goes(d, "withdraw", x)
      BY <1>1, <1>7 DEF Judge
    <3>2. "withdraw" \in CmdAt
      BY DEF CmdAt
    <3> QED BY <1>1, <1>2, <3>1, <3>2, GoesTo
  <2>2. PICK j \in SeenLive(d) : j < x
    <3>1. x \in Ids /\ cmd[d].seen[x] + cmd[d].age >= Lease /\ cmd[d].seen[x] \in Nat /\ cmd[d].age \in 0..OpMax
      <4>1. x \in DOMAIN comments /\ DOMAIN comments \subseteq Ids
        BY <1>1, <1>2, <1>3, BoundsAssumption DEF LiveStanding, Ids, CoreType
      <4> QED BY <1>1, <1>2, <4>1 DEF CmdRec, IInv, DevInv, SeenRight
    <3>2. x \in SeenLive(d)
      BY <3>1, TimesAssumption DEF SeenLive
    <3>3. \E j \in SeenLive(d) : ~(x <= j)
      BY <1>1, <1>7, <3>2 DEF Wins, IsFirst
    <3>4. \A j \in SeenLive(d) : j \in Nat
      BY DEF SeenLive, Ids
    <3> QED BY <1>1, <1>2, <3>3, <3>4
  <2>3. PICK k \in DOMAIN comments : k <= j /\ Stands(k)
    <3>1. StandsBy(j)
      BY <1>1, <1>2, <2>2 DEF WinInv, BeatenInv, SeenStands
    <3> QED BY <3>1 DEF StandsBy
  <2>4. k \in Nat /\ k < x
    BY <1>1, <1>2, <2>2, <2>3 DEF SeenLive, Ids
  <2>5. Seen(d)
    BY <2>1 DEF Seen, LiveStanding
  <2>6. \A i \in DOMAIN comments : i # x /\ Stands(i) => Stands(i)' /\ StandsBy(i)'
    BY <1>4, <1>5, <2>1, RestStand
  <2>7. Stands(k)' /\ k \in DOMAIN comments'
    BY <2>1, <2>3, <2>4, <2>6
  <2>8. \A i \in DOMAIN comments : Stands(i) => StandsBy(i)'
    <3>1. StandsBy(x)'
      BY <1>1, <1>2, <2>4, <2>7 DEF StandsBy
    <3> QED BY <2>6, <3>1
  <2>9. Known'
    <3> SUFFICES ASSUME NEW i \in DOMAIN comments, LiveStanding(i), i # x
                 PROVE  Stands(i)' \/ \E e \in Devices : cmd'[e].at = "withdraw" /\ cmd'[e].id = i
      BY <2>1 DEF Known, LiveStanding
    <3> QED BY <1>1, <1>2, <1>5, <2>6 DEF WinInv, Known
  <2>10. Outlives(d)'
    BY <1>3, <2>1 DEF Outlives, Foreign, LiveStanding
  <2>11. Beaten(d)'
    BY <2>1, <2>4, <2>7 DEF Beaten
  <2>12. BeatenInv(d)'
    BY <2>1, <2>10, <2>11 DEF BeatenInv, SeenStands
  <2> QED BY <1>5, <2>5, <2>8, <2>9, <2>12, WinStep
<1> QED BY <1>6, <1>7

LEMMA WithdrawWin ==
  ASSUME IInv, IInv', WinInv, Quiet, NEW d \in Devices, Withdraw(d)
  PROVE  Known' /\ \A e \in Devices : BeatenInv(e)'
<1>1. PICK x \in Nat : x = cmd[d].id
  BY DEF IInv, CoreType
<1>2. /\ comments \in Seq(Comment) /\ CoreType /\ cmd[d].at = "withdraw" /\ x \in DOMAIN comments
      /\ comments[x] \in Comment /\ comments[x].dev = d
  BY <1>1, OwnClaim DEF IInv, CoreType, Withdraw, At, OwnAt
<1> DEFINE c == [comments[x] EXCEPT !.gone = TRUE, !.won = FALSE]
<1>3. c \in Comment /\ c.gone /\ c.dev = d /\ c.left = comments[x].left
  BY <1>2 DEF Comment
<1>4. comments' = [comments EXCEPT ![x] = c] /\ cmd'[d].at = "idle" /\ \A e \in Devices : e # d => cmd'[e] = cmd[e]
  <2>1. comments' = [comments EXCEPT ![x] = c]
    BY <1>1, <1>2 DEF Withdraw
  <2> QED BY <1>2, <2>1, EndsTo DEF Withdraw
<1> HIDE DEF c
<1>5. DOMAIN comments' = DOMAIN comments /\ Seen(d) /\ comments'[x] = c
      /\ \A j \in DOMAIN comments : j # x => comments'[j] = comments[j]
  BY <1>2, <1>3, <1>4, OwnWrite
<1>6. \A i \in DOMAIN comments : i # x /\ Stands(i) => Stands(i)' /\ StandsBy(i)'
  <2>1. \A i : ~OnWay(d, i)
    BY <1>2 DEF OnWay
  <2> QED BY <1>4, <1>5, <2>1, RestStand
<1>7. PICK k \in DOMAIN comments : k < x /\ Stands(k)
  BY <1>1, <1>2 DEF WinInv, BeatenInv, Beaten
<1>8. StandsBy(x)'
  <2>1. k \in Nat /\ k # x
    BY <1>2, <1>7
  <2> QED BY <1>5, <1>6, <1>7, <2>1 DEF StandsBy
<1>9. \A i \in DOMAIN comments : Stands(i) => StandsBy(i)'
  BY <1>6, <1>8
<1>10. Known'
  <2> SUFFICES ASSUME NEW i \in DOMAIN comments', LiveStanding(i)'
               PROVE  Stands(i)' \/ \E e \in Devices : cmd'[e].at = "withdraw" /\ cmd'[e].id = i
    BY DEF Known
  <2>1. i # x /\ i \in DOMAIN comments /\ LiveStanding(i)
    BY <1>3, <1>5 DEF LiveStanding
  <2> QED BY <1>1, <1>4, <1>6, <2>1 DEF WinInv, Known
<1>11. BeatenInv(d)'
  BY <1>4 DEF BeatenInv, Outlives, Beaten, SeenStands
<1> QED BY <1>4, <1>5, <1>9, <1>10, <1>11, WinStep

\* a claim kept or renewed is one of those that stand beside the contention
LEMMA OwnPlainWin ==
  ASSUME IInv, IInv', WinInv, Quiet, NEW d \in Devices, Keep(d) \/ Renew(d)
  PROVE  Known' /\ \A e \in Devices : BeatenInv(e)'
<1>1. PICK x \in Nat : x = cmd[d].id
  BY DEF IInv, CoreType
<1>2. /\ comments \in Seq(Comment) /\ CoreType /\ cmd[d].at \in {"keep", "renew"} /\ x \in DOMAIN comments
      /\ comments[x] \in Comment /\ comments[x].dev = d /\ ~comments[x].gone /\ comments[x].left \in Nat
  BY <1>1, OwnClaim DEF IInv, CoreType, Keep, Renew, At, OwnAt
<1>3. comments[x].left > 0
  <2>1. cmd[d].age \in Nat /\ cmd[d].age <= OpMax
    BY <1>2, OwnClaim DEF OwnAt
  <2> QED BY <1>1, <1>2, <2>1, TimesAssumption DEF IInv, DevInv, InTimeStill
<1> DEFINE c == [comments[x] EXCEPT !.won = comments'[x].won, !.left = comments'[x].left]
<1>4. /\ comments' = [comments EXCEPT ![x] = c] /\ c \in Comment /\ c.dev = d /\ c.gone = comments[x].gone
      /\ c.left \in {comments[x].left, Lease} /\ (comments[x].won => c.won)
  <2>1. CASE Keep(d)
    <3>1. comments' = [comments EXCEPT ![x] = [comments[x] EXCEPT !.won = TRUE]]
      BY <1>1, <1>2, <2>1 DEF Keep
    <3> QED BY <1>2, <3>1 DEF Comment
  <2>2. CASE Renew(d)
    <3>1. comments' = [comments EXCEPT ![x] = [comments[x] EXCEPT !.left = Lease]]
      BY <1>1, <1>2, <2>2 DEF Renew
    <3>2. comments'[x] = [comments[x] EXCEPT !.left = Lease]
      BY <1>2, <3>1
    <3>3. Lease \in 0..Lease
      BY TimesAssumption
    <3>4. /\ comments'[x].won = comments[x].won /\ comments'[x].left = Lease
          /\ comments'[x] \in Comment
      BY <1>2, <3>2, <3>3 DEF Comment
    <3>5. c = comments'[x]
      BY <1>2, <3>2, <3>4 DEF Comment
    <3> QED BY <1>2, <3>1, <3>2, <3>4, <3>5 DEF Comment
  <2> QED BY <2>1, <2>2
<1> HIDE DEF c
<1>5. DOMAIN comments' = DOMAIN comments /\ Seen(d) /\ comments'[x] = c
      /\ \A j \in DOMAIN comments : j # x => comments'[j] = comments[j]
  BY <1>2, <1>3, <1>4, OwnWrite
<1>6. c.left > 0
  BY <1>3, <1>4, TimesAssumption
<1>7. \A i \in DOMAIN comments : (LiveStanding(i)' <=> LiveStanding(i)) /\ (comments[i].won => comments'[i].won)
  BY <1>2, <1>3, <1>4, <1>5, <1>6 DEF LiveStanding
<1>8. cmd'[d].at = "idle" /\ \A e \in Devices : e # d => cmd'[e] = cmd[e]
  BY <1>2, EndsTo DEF Keep, Renew
<1> QED BY <1>2, <1>5, <1>7, <1>8, PlainWin

\* no claim that stands beside a run under way lapses
LEMMA TickWin ==
  ASSUME IInv, IInv', WinInv, Quiet, Tick
  PROVE  Known' /\ \A e \in Devices : BeatenInv(e)'
<1>1. CoreType /\ comments \in Seq(Comment) /\ OpMax \in Nat /\ Lease \in Nat /\ OpMax < Lease
  BY TimesAssumption DEF IInv, CoreType
<1>2. /\ DOMAIN comments' = DOMAIN comments
      /\ \A i \in DOMAIN comments :
           /\ comments'[i].left = Less(comments[i].left) /\ comments[i].left \in Nat
           /\ comments'[i].dev = comments[i].dev /\ comments'[i].gone = comments[i].gone
           /\ comments'[i].won = comments[i].won
      /\ \A j : LiveStanding(j)' => LiveStanding(j)
  BY <1>1, TickFields
<1>3. \A d \in Devices : cmd'[d].at = cmd[d].at /\ cmd'[d].id = cmd[d].id
  BY <1>1, TickFields
<1>4. \A d \in Devices : Running(d) =>
        /\ cmd'[d].age = cmd[d].age + 1 /\ cmd[d].age \in Nat /\ cmd'[d].age <= OpMax
        /\ \A i \in Ids : cmd'[d].seen[i] = Less(cmd[d].seen[i])
        /\ cmd[d].seen \in [Ids -> Nat]
  BY <1>1, TickFields
<1>5. \A i : \A d \in Devices : OnWay(d, i) <=> OnWay(d, i)'
  BY <1>3 DEF OnWay
<1>6. \A i \in DOMAIN comments : Stands(i) /\ LiveStanding(i)' => Stands(i)'
  BY <1>2, <1>5 DEF Stands
<1>7. Known'
  BY <1>2, <1>3, <1>6 DEF WinInv, Known
<1>8. ASSUME NEW d \in Devices, cmd[d].at \in {"judge", "withdraw"} PROVE BeatenInv(d)'
  <2>1. PICK x \in Nat : x = cmd[d].id
    BY DEF IInv, CoreType
  <2>2. Running(d) /\ BeatenInv(d)
    BY <1>8 DEF Running, WinInv
  <2>3. /\ x \in DOMAIN comments /\ comments[x].left + cmd[d].age >= Lease
        /\ \A j : LiveStanding(j) /\ j # x => Foreign(d, j)
        /\ \A j : Foreign(d, j) => comments[j].left + cmd[d].age >= Lease
    <3>1. OnWay(d, cmd[d].id) \/ (cmd[d].at = "withdraw" /\ Outlives(d))
      BY <1>8, <2>2 DEF OnWay, BeatenInv
    <3>2. LiveStanding(x) /\ \A j : LiveStanding(j) /\ j # x => Foreign(d, j)
      BY <2>1, <3>1, OwnLives
    <3>3. cmd[d].at = "judge" => /\ comments[x].left + cmd[d].age >= Lease
                                 /\ \A j : Foreign(d, j) => comments[j].left + cmd[d].age >= Lease
      BY <2>1 DEF IInv, DevInv, Fresh, Since
    <3>4. cmd[d].at = "withdraw" => /\ comments[x].left + cmd[d].age >= Lease
                                    /\ \A j : Foreign(d, j) => comments[j].left + cmd[d].age >= Lease
      BY <2>1, <2>2 DEF BeatenInv, Outlives, Foreign, LiveStanding
    <3> QED BY <1>8, <3>2, <3>3, <3>4 DEF LiveStanding
  <2>4. \A n \in Nat : n + cmd[d].age >= Lease => Less(n) + cmd'[d].age >= Lease /\ Less(n) > 0
    BY <1>1, <1>4, <2>2 DEF Less
  <2>5. ASSUME NEW k \in DOMAIN comments, k # x, Stands(k) PROVE Stands(k)'
    <3>1. comments[k].left + cmd[d].age >= Lease /\ LiveStanding(k)
      BY <2>3, <2>5 DEF Stands
    <3>2. LiveStanding(k)'
      BY <1>2, <2>4, <3>1 DEF LiveStanding
    <3> QED BY <1>6, <2>5, <3>2
  <2>6. \A k \in DOMAIN comments : k \in Nat
    BY <1>1
  <2>7. Outlives(d)'
    <3>1. Less(comments[x].left) + cmd'[d].age >= Lease
      BY <1>2, <2>3, <2>4
    <3>2. ASSUME NEW j \in DOMAIN comments, Foreign(d, j)' PROVE comments'[j].left + cmd'[d].age >= Lease
      <4>1. Foreign(d, j)
        BY <1>2, <3>2 DEF Foreign
      <4> QED BY <1>2, <2>3, <2>4, <4>1
    <3> QED BY <1>2, <1>3, <2>1, <2>3, <3>1, <3>2 DEF Outlives
  <2>8. Beaten(d)'
    <3> SUFFICES ASSUME cmd[d].at = "withdraw" PROVE \E j \in DOMAIN comments' : j < x /\ Stands(j)'
      BY <1>3, <2>1 DEF Beaten
    <3>1. PICK k \in DOMAIN comments : k < x /\ Stands(k)
      BY <2>1, <2>2 DEF BeatenInv, Beaten
    <3>2. Stands(k)'
      BY <2>5, <2>6, <3>1
    <3> QED BY <1>2, <3>1, <3>2
  <2>9. SeenStands(d)'
    <3> SUFFICES ASSUME cmd[d].at = "judge", NEW j \in SeenLive(d)', j < x PROVE StandsBy(j)'
      BY <1>3, <2>1 DEF SeenStands
    <3>1. j \in SeenLive(d) /\ j \in Nat
      <4>1. j \in Ids /\ cmd'[d].seen[j] > 0
        BY DEF SeenLive, Ids
      <4>2. cmd[d].seen[j] \in Nat /\ cmd'[d].seen[j] = Less(cmd[d].seen[j])
        BY <1>4, <2>2, <4>1
      <4>3. cmd[d].seen[j] > 0
        BY <4>1, <4>2 DEF Less
      <4> QED BY <4>1, <4>3 DEF SeenLive, Ids
    <3>2. PICK k \in DOMAIN comments : k <= j /\ Stands(k)
      BY <2>1, <2>2, <3>1 DEF BeatenInv, SeenStands, StandsBy
    <3>3. k # x
      BY <2>6, <3>1, <3>2
    <3>4. Stands(k)'
      BY <2>5, <3>2, <3>3
    <3> QED BY <1>2, <3>2, <3>4 DEF StandsBy
  <2> QED BY <2>7, <2>8, <2>9 DEF BeatenInv
<1>9. ASSUME NEW d \in Devices, cmd[d].at \notin {"judge", "withdraw"} PROVE BeatenInv(d)'
  BY <1>3, <1>9 DEF BeatenInv, Outlives, Beaten, SeenStands
<1> QED BY <1>7, <1>8, <1>9

LEMMA NextWin ==
  ASSUME "late" \notin Races, IInv, IInv', WinInv, [Next]_vars
  PROVE  WinInv'
<1>1. upsets' \in Nat /\ (upsets' = 0 => UNCHANGED upsets /\ upsets = 0)
  <2>1. upsets \in Nat
    BY DEF WinInv
  <2>2. UNCHANGED upsets \/ upsets' = upsets + 1
    <3>1. ASSUME NEW d \in Devices, ClaimStep(d) PROVE UNCHANGED upsets
      BY <3>1 DEF ClaimStep, Delete, Post, Reread, Judge, Withdraw, Labels, Claimed, Keep, Renew, Requeue, Requeued
    <3>2. ASSUME NEW d \in Devices, BeginClaim(d) \/ BeginRenew(d) \/ Release(d) PROVE UNCHANGED upsets
      BY <3>2 DEF BeginClaim, BeginRenew, Release
    <3>3. ASSUME NEW d \in Devices, SweepStep(d) \/ Push(d) PROVE UNCHANGED upsets
      BY <3>3 DEF SweepStep, SweepRead, SweepLabel, SweepEvent, Push
    <3>4. ASSUME NEW d \in Devices, NEW central \in BOOLEAN, SweepLoad(d, central) PROVE UNCHANGED upsets
      BY <3>4 DEF SweepLoad
    <3>5. ASSUME NEW d \in Devices, Fail(d) \/ Cut(d) \/ SweepCut(d) PROVE upsets' = upsets + 1
      BY <3>5 DEF Fail, Cut, SweepCut
    <3>6. MergedByHand \/ ClosedByHand => upsets' = upsets + 1
      BY DEF MergedByHand, ClosedByHand
    <3>7. Tick \/ UNCHANGED vars => UNCHANGED upsets
      BY DEF Tick, vars
    <3> QED BY <3>1, <3>2, <3>3, <3>4, <3>5, <3>6, <3>7 DEF Next
  <2> QED BY <2>1, <2>2
<1> SUFFICES ASSUME upsets' = 0, ~CameBack' PROVE Known' /\ \A e \in Devices : BeatenInv(e)'
  BY <1>1 DEF WinInv, Quiet
<1>2. Quiet
  BY <1>1, BackStays DEF Quiet
<1>3. CASE UNCHANGED vars
  BY <1>2, <1>3, CalmWin DEF vars
<1>4. CASE Tick
  BY <1>2, <1>4, TickWin
<1>5. ~(MergedByHand \/ ClosedByHand) /\ \A d \in Devices : ~(Fail(d) \/ Cut(d) \/ SweepCut(d))
  BY <1>1 DEF WinInv, MergedByHand, ClosedByHand, Fail, Cut, SweepCut
<1>6. CoreType
  BY DEF IInv
<1>7. ASSUME NEW d \in Devices, Labels(d) \/ Claimed(d) \/ Requeue(d) \/ Requeued(d) \/ BeginClaim(d) \/ BeginRenew(d) \/ Release(d)
      PROVE  Known' /\ \A e \in Devices : BeatenInv(e)'
  <2>1. UNCHANGED comments
    BY <1>7 DEF Labels, Claimed, Requeue, Requeued, BeginClaim, BeginRenew, Release
  <2>2. cmd[d].at \notin {"reread", "judge", "withdraw"}
    BY <1>7 DEF Labels, Claimed, Requeue, Requeued, BeginClaim, BeginRenew, Release, At
  <2>3. \/ UNCHANGED cmd \/ Ends(d)
        \/ \E at \in {"event", "requeue", "requeued", "post", "keep", "delete", "renew"}, i \in Nat : Goes(d, at, i)
    <3>1. \A i \in OwnLive(d) : i \in Nat
      BY <1>6, SetsAre DEF Mine
    <3>2. cmd[d].id \in Nat
      BY <1>6 DEF CoreType
    <3> QED BY <1>7, <3>1, <3>2 DEF Labels, Claimed, Requeue, Requeued, BeginClaim, BeginRenew, Release
  <2>4. CASE Ends(d)
    BY <1>2, <1>6, <2>1, <2>2, <2>4, EndsTo, AsideWin
  <2>5. ASSUME NEW at \in {"event", "requeue", "requeued", "post", "keep", "delete", "renew"}, NEW i \in Nat, Goes(d, at, i)
        PROVE  Known' /\ \A e \in Devices : BeatenInv(e)'
    <3>1. at \in CmdAt
      BY DEF CmdAt
    <3>2. cmd'[d].at = at /\ \A e \in Devices : e # d => cmd'[e] = cmd[e]
      BY <1>6, <2>5, <3>1, GoesTo
    <3> QED BY <1>2, <2>1, <2>2, <3>2, AsideWin
  <2> QED BY <1>2, <2>1, <2>3, <2>4, <2>5, CalmWin
<1>8. ASSUME NEW d \in Devices, SweepStep(d) \/ Push(d) \/ \E central \in BOOLEAN : SweepLoad(d, central)
      PROVE  Known' /\ \A e \in Devices : BeatenInv(e)'
  <2>1. UNCHANGED <<comments, cmd>>
    BY <1>8 DEF SweepStep, SweepRead, SweepLabel, SweepEvent, Push, SweepLoad
  <2> QED BY <1>2, <2>1, CalmWin
<1>9. ASSUME NEW d \in Devices, ClaimStep(d) PROVE Known' /\ \A e \in Devices : BeatenInv(e)'
  BY <1>2, <1>7, <1>9, DeleteWin, PostWin, RereadWin, JudgeWin, WithdrawWin, OwnPlainWin DEF ClaimStep
<1> QED BY <1>3, <1>4, <1>5, <1>7, <1>8, <1>9 DEF Next

-----------------------------------------------------------------------------
(* Theorems. *)

\* Two devices never hold the issue at once, however the devices' commands, their failures and the
\* clock interleave, as long as no device acts late on its own claim (fabriek-claim).
THEOREM OneHolderHolds == ASSUME "late" \notin Races PROVE Spec => []OneHolder
<1>1. IInv => OneHolder
  <2> SUFFICES ASSUME IInv, NEW i \in Winning, NEW j \in Winning PROVE comments[i].dev = comments[j].dev
    BY DEF OneHolder
  <2>1. WonFirst /\ comments \in Seq(Comment)
    BY DEF IInv, CoreType
  <2>2. LiveStanding(i) /\ comments[i].won /\ LiveStanding(j) /\ comments[j].won /\ i \in Nat /\ j \in Nat
    BY <2>1 DEF Winning, Standing, Live, LiveStanding
  <2>3. comments[i].dev # comments[j].dev => (i < j /\ j < i)
    BY <2>1, <2>2 DEF WonFirst, Foreign
  <2> QED BY <2>2, <2>3
<1> QED BY <1>1, Invariant, PTL

\* A device's own claims never pile up: at most one of its comments is live (fabriek-claim deletes
\* or keeps the one left behind before it posts).
THEOREM OneOwnHolds == ASSUME "late" \notin Races PROVE Spec => []OneOwn
<1>1. IInv => OneOwn
  <2> SUFFICES ASSUME IInv, NEW i \in Standing, NEW j \in Standing, Live(i), Live(j), comments[i].dev = comments[j].dev
               PROVE i = j
    BY DEF OneOwn
  <2>1. OwnOnce /\ comments \in Seq(Comment)
    BY DEF IInv, CoreType
  <2>2. comments[i].dev \in Devices
    BY <2>1, CommentFields DEF Standing
  <2>3. Mine(comments[i].dev, i) /\ Mine(comments[i].dev, j)
    BY DEF Standing, Live, Mine, LiveStanding
  <2> QED BY <2>1, <2>2, <2>3 DEF OwnOnce
<1> QED BY <1>1, Invariant, PTL

\* Devices that contend do not all lose, for any devices, lease and clock: where nothing failed and no
\* winner came back for a fresh claim, one that withdraws leaves another that won or is on its way.
THEOREM SomeoneWinsHolds == ASSUME "late" \notin Races PROVE Spec => []SomeoneWins
<1>1. Init => WinInv
  <2> SUFFICES ASSUME Init PROVE WinInv
    OBVIOUS
  <2>1. comments = <<>> /\ upsets = 0 /\ \A d \in Devices : cmd[d].at = "idle"
    BY DEF Init, IdleCmd
  <2> QED BY <2>1 DEF WinInv, Known, LiveStanding, BeatenInv, Outlives, Beaten, SeenStands
<1>2. IInv /\ IInv' /\ WinInv /\ [Next]_vars => WinInv'
  BY NextWin
<1>3. IInv /\ WinInv => SomeoneWins
  <2> SUFFICES ASSUME IInv, WinInv, NEW d \in Devices, At(d, "withdraw"), upsets = 0, ~CameBack
               PROVE  \E e \in Devices \ {d} : \/ \E i \in Winning : comments[i].dev = e
                                               \/ cmd[e].at \in {"delete", "post", "reread", "judge"}
    BY DEF SomeoneWins, NotAllLose
  <2>1. cmd[d].at = "withdraw" /\ Outlives(d) /\ Beaten(d)
    BY DEF At, WinInv, Quiet, BeatenInv
  <2>2. PICK k \in DOMAIN comments : k < cmd[d].id /\ Stands(k)
    BY <2>1 DEF Beaten
  <2>3. LiveStanding(k) /\ k # cmd[d].id
    <3>1. cmd[d].id \in Nat /\ k \in Nat
      BY <2>2 DEF IInv, CoreType
    <3> QED BY <2>2, <3>1 DEF Stands
  <2>4. comments[k].dev # d /\ comments[k].dev \in Devices
    <3>1. Foreign(d, k)
      BY <2>1, <2>3, OwnLives
    <3>2. comments[k] \in Comment
      BY DEF IInv, CoreType
    <3> QED BY <3>1, <3>2, CommentFields DEF Foreign
  <2>5. CASE comments[k].won
    BY <2>3, <2>4, <2>5 DEF Winning, Standing, Live, LiveStanding
  <2>6. ASSUME NEW e \in Devices, OnWay(e, k) PROVE e # d /\ cmd[e].at \in {"reread", "judge"}
    BY <2>1, <2>6 DEF OnWay
  <2> QED BY <2>2, <2>4, <2>5, <2>6 DEF Stands
<1> QED BY <1>1, <1>2, <1>3, Invariant, PTL DEF Spec


-----------------------------------------------------------------------------
(***************************************************************************)
(* The slots of the pool (Slots on SlotState), for any slots, lives, lease *)
(* ids, cap and reserve. A plan is made of the pool as it was read, and    *)
(* carried out later, against lost answers, late gets, reloads and hands   *)
(* in the pool. What its actions know stays true until they are done       *)
(* (TodoOK, ToolOK) as they name a lease by its id and not by its slot:    *)
(* an id is of one slot and one holder (LeasesOK), a done prepare names    *)
(* the id it prepared (PreparedOK), so a free, which names an id that no   *)
(* life still works on (FreeOK), hits nothing else, whoever has the slot   *)
(* by then; and an attempt starts only where nobody is at work for its     *)
(* life but those no stop could end (AtRest) and those that no entry names *)
(* as their spawn was given up (unseen), which the plan cannot know of.    *)
(***************************************************************************)
Pool == INSTANCE Slots

SlotRec == [id : {Pool!NoLease} \cup LeaseIds, holder : 0..Pool!Person, work : {"clean", "new", "old", "stray", "saved"},
            marker : {Pool!Nobody} \cup Pool!Lives, frees : 0..Pool!FREE_ATTEMPTS]
LifeRec == [st : {"none", "queued", "slot", "parked", "closed"}, resumed : BOOLEAN,
            left : 0..MaxSteps, asked : {"no", "drop", "resume", "timeout"}]
EntryRec == [lease : {"none", "failed", "done"}, tries : 0..Pool!LEASE_ATTEMPTS, leased : {Pool!NoLease} \cup LeaseIds,
             stop : {"no", "done", "failed"}, prep : {"none", "failed", "done"},
             named : {Pool!NoLease} \cup LeaseIds, step : {"none", "running", "ended"}]
AgentRec == [life : Pool!Lives, slot : Pool!Slots, id : LeaseIds, cur : BOOLEAN, unstopped : BOOLEAN, loose : BOOLEAN]
UnseenRec == [life : Pool!Lives, slot : Pool!Slots, works : BOOLEAN]
OpRec == [do : Pool!Kinds, life : {Pool!Nobody} \cup Pool!Lives, slot : {Pool!NoSlot} \cup Pool!Slots,
          id : {Pool!NoLease} \cup LeaseIds, at : Pool!Stages]
PoolTypes ==
  /\ slot \in [Pool!Slots -> SlotRec] /\ rec \in [Pool!Lives -> LifeRec] /\ entry \in [Pool!Lives -> EntryRec]
  /\ agents \subseteq AgentRec /\ unseen \subseteq UnseenRec /\ todo \in Seq(Pool!Acts) /\ op \in OpRec
  /\ late \subseteq Pool!Lives /\ outside \in 0..MaxOutside
  /\ hist \in [lost : BOOLEAN, taken : SUBSET Pool!Lives, wrong : BOOLEAN]

\* a slot has a lease while a life holds it, its own
LeasesOK ==
  \A p \in Pool!Slots :
    /\ slot[p].id # Pool!NoLease <=> slot[p].holder \in Pool!Lives
    /\ \A q \in Pool!Slots : slot[p].id = slot[q].id /\ slot[p].id # Pool!NoLease => p = q

\* no agent of the life is one that a stop may yet end
AtRest(l) == \A a \in agents : a.life = l => ~a.cur /\ a.unstopped

EntriesOK ==
  \A l \in Pool!Lives :
    /\ entry[l].step = "running" <=> \E a \in agents : a.life = l /\ a.cur
    /\ \A a, b \in agents : a.life = l /\ b.life = l /\ a.cur /\ b.cur => a = b
    /\ entry[l].step # "none" => entry[l].prep = "done"
    /\ entry[l].prep # "none" => rec[l].st = "slot"
    /\ entry[l].stop # "no" => \A a \in agents : a.life = l /\ ~a.cur => a.unstopped
    /\ entry[l].lease = "none" => entry[l].tries = 0

\* the slot of a done prepare is the life's, while nobody took it
PreparedOK ==
  \A l \in Pool!Lives : entry[l].prep = "done" =>
    /\ entry[l].named # Pool!NoLease
    /\ \A p \in Pool!Slots : slot[p].id = entry[l].named => slot[p].holder = l
    /\ l \notin hist.taken => \E p \in Pool!Slots : slot[p].id = entry[l].named

\* what an action of the plan knows until it is done
MoveOK(a) == rec[a.life].st \notin {"none", "closed"} /\ (a.do \in {"lost", "lost-running"} => a.life \in hist.taken)
PrepareOK(a) ==
  /\ a.slot # Pool!NoSlot /\ a.id # Pool!NoLease /\ rec[a.life].st = "slot" /\ entry[a.life].step = "none" /\ AtRest(a.life)
  /\ \A p \in Pool!Slots : slot[p].id = a.id => p = a.slot /\ slot[p].holder = a.life
SpawnOK(a) ==
  /\ a.slot # Pool!NoSlot /\ entry[a.life].step # "running" /\ entry[a.life].prep = "done" /\ AtRest(a.life)
  /\ a.life \notin hist.taken => slot[a.slot].id = entry[a.life].named
\* a lease that is to be freed is nobody's
FreeOK(a) ==
  /\ a.slot # Pool!NoSlot /\ a.id # Pool!NoLease
  /\ \A b \in agents : ~b.loose => b.id # a.id
  /\ \A l \in Pool!Lives : entry[l].prep = "done" => entry[l].named # a.id
LeaseOK(a) == entry[a.life].lease = "done" \/ entry[a.life].tries < Pool!LEASE_ATTEMPTS
ActOK(a) ==
  /\ a.life \in Pool!Lives /\ a.do # "none"
  /\ a.do \in Pool!Moves => MoveOK(a)
  /\ a.do = "claim" => rec[a.life].st = "none"
  /\ a.do = "prepare" => PrepareOK(a)
  /\ a.do = "spawn" => SpawnOK(a)
  /\ a.do = "free" => FreeOK(a) /\ (slot[a.slot].id = a.id => slot[a.slot].frees < Pool!FREE_ATTEMPTS)
  /\ a.do = "lease" => LeaseOK(a)

\* two actions of which a plan has one
Sole == Pool!Moves \cup {"claim", "prepare", "spawn"}
Clash(a, b) ==
  \/ a.do \in Sole /\ b.do \in Sole /\ a.life = b.life
  \/ a.do = "lease" /\ b.do = "lease" /\ a.life = b.life
  \/ a.do = "free" /\ b.do \in {"free", "prepare"} /\ a.id = b.id
  \/ b.do = "free" /\ a.do = "prepare" /\ a.id = b.id
NoClash(s) == \A i, j \in DOMAIN s : i # j => ~Clash(s[i], s[j])
Planned(a) == \E i \in DOMAIN todo : todo[i] = a
TodoOK == NoClash(todo) /\ \A a \in Pool!Acts : Planned(a) => ActOK(a)

\* the awaited call, and what is known of it
InHand(a) == op.do = a.do /\ op.life = a.life /\ op.slot = a.slot /\ op.id = a.id
RunOK(a) ==
  /\ op.at # "idle" => a.do \in {"lease", "prepare", "free", "spawn"} /\ a.life \in Pool!Lives
  /\ op.at = "spawn" <=> a.do = "spawn"
  /\ op.at \in {"save", "reset", "mark", "return"} => a.do \in {"prepare", "free"}
  /\ op.at = "mark" => a.do = "prepare"
  /\ op.at = "return" => a.do = "free"
  /\ op.at = "get" => a.do = "lease"
  /\ a.do = "prepare" => PrepareOK(a)
  /\ a.do = "free" => FreeOK(a)
  /\ a.do = "spawn" => SpawnOK(a)
  /\ a.do \in {"prepare", "free", "spawn"} => \A b \in Pool!Acts : Planned(b) => ~Clash(a, b)
  /\ a.do = "prepare" /\ op.at # "check" => a.life \in hist.taken \/ slot[a.slot].id = a.id
  /\ op.at \in {"save", "reset"} =>
       \A b \in agents : b.slot = a.slot /\ ~b.loose => a.do = "prepare" /\ b.unstopped
  /\ op.at = "reset" => slot[a.slot].work \in {"clean", "saved", "stray"} \cup (IF a.do = "prepare" THEN {"old"} ELSE {})
ToolOK ==
  /\ op.at = "idle" => op = Pool!NoOp
  /\ \A a \in Pool!Acts : InHand(a) => RunOK(a)

\* the world that the actions look at
Core == LeasesOK /\ EntriesOK /\ PreparedOK /\ Alone /\ WorkSaved /\ SlotKept
SlotInv == PoolTypes /\ Core /\ TodoOK /\ ToolOK

LEMMA LeastOf ==
  ASSUME NEW S \in SUBSET Nat, S # {}
  PROVE  Pool!Min(S) \in S /\ \A x \in S : Pool!Min(S) <= x
<1> DEFINE R == OpToRel(<, Nat)
<1>1. \A x, y \in S : y < x => <<y, x>> \in R
  BY DEF OpToRel
<1>2. IsWellFoundedOn(R, Nat) BY NatLessThanWellFounded
<1> HIDE DEF R
<1>3. \E x \in S : \A y \in S : ~(<<y, x>> \in R)
  BY <1>2, WFMin
<1>4. \E x \in S : \A y \in S : x <= y
  <2>1. PICK x \in S : \A y \in S : ~(<<y, x>> \in R) BY <1>3
  <2>2. ASSUME NEW y \in S PROVE x <= y
    <3>1. ~(y < x) BY <1>1, <2>1
    <3>2. x \in Nat /\ y \in Nat OBVIOUS
    <3> QED BY <3>1, <3>2
  <2> QED BY <2>2
<1> QED BY <1>4, Zenon DEF Pool!Min

LEMMA PoolSets ==
  /\ NLives \in Nat /\ NSlots \in Nat /\ MaxSteps \in Nat /\ MaxOutside \in Nat
  /\ Pool!Lives = 1..NLives /\ Pool!Slots = 1..NSlots /\ Pool!Person = NLives + 1
  /\ Pool!Nobody = 0 /\ Pool!NoSlot = 0 /\ Pool!NoLease = 0
  /\ Pool!Person \notin Pool!Lives /\ 0 \notin Pool!Lives /\ 0 \notin Pool!Slots /\ 0 \notin LeaseIds
  /\ Pool!LEASE_ATTEMPTS = 3 /\ Pool!FREE_ATTEMPTS = 2
BY SizesAssumption, LeaseIdsAssumption DEF Pool!Lives, Pool!Slots, Pool!Person, Pool!Nobody, Pool!NoSlot, Pool!NoLease,
   Pool!LEASE_ATTEMPTS, Pool!FREE_ATTEMPTS

\* the slot that the plan takes for the life's is the life's
LEMMA LeaseOfMine ==
  ASSUME PoolTypes, LeasesOK, NEW l \in Pool!Lives, NEW seen \in BOOLEAN, Pool!LeaseOf(l, seen) # Pool!NoSlot
  PROVE  /\ Pool!LeaseOf(l, seen) \in Pool!Slots /\ seen
         /\ slot[Pool!LeaseOf(l, seen)].holder = l /\ slot[Pool!LeaseOf(l, seen)].id \in LeaseIds
<1>1. PICK p : p = Pool!LeaseOf(l, seen) OBVIOUS
<1>2. Pool!Mine(l) \in SUBSET Nat BY PoolSets DEF Pool!Mine
<1>3. \A id : Pool!On(l, id) \in SUBSET Pool!Mine(l) BY DEF Pool!On
<1>4. p \in Pool!Mine(l) /\ seen
  BY <1>1, <1>2, <1>3, LeastOf DEF Pool!LeaseOf
<1>5. p \in Pool!Slots /\ slot[p].holder = l BY <1>4 DEF Pool!Mine
<1>6. slot[p].id \in LeaseIds BY <1>5 DEF PoolTypes, SlotRec, LeasesOK
<1> QED BY <1>1, <1>4, <1>5, <1>6

\* the slot of a done prepare is the one the plan takes, while it is there
LEMMA LeaseOfNamed ==
  ASSUME PoolTypes, LeasesOK, PreparedOK, NEW l \in Pool!Lives, entry[l].prep = "done",
         NEW p \in Pool!Slots, slot[p].id = entry[l].named
  PROVE  Pool!LeaseOf(l, TRUE) = p /\ slot[p].holder = l
<1>1. slot[p].holder = l /\ slot[p].id # Pool!NoLease BY DEF PreparedOK
<1>2. Pool!On(l, entry[l].named) = {p}
  BY <1>1 DEF Pool!On, Pool!Mine, LeasesOK
<1>3. p \in Nat BY PoolSets
<1>4. Pool!Min({p}) = p BY <1>3, LeastOf
<1> QED BY <1>1, <1>2, <1>4 DEF Pool!LeaseOf

LEMMA ActIs ==
  ASSUME NEW what, NEW l, NEW p, NEW id
  PROVE  Pool!Act(what, l, p, id) = [do |-> what, life |-> l, slot |-> p, id |-> id]
BY DEF Pool!Act

LEMMA NoOpIs == Pool!NoOp = [do |-> "none", life |-> 0, slot |-> 0, id |-> 0, at |-> "idle"]
BY PoolSets DEF Pool!NoOp, Pool!Run, Pool!Act

LEMMA ActsAre ==
  Pool!Acts = [do : Pool!Kinds, life : {0} \cup Pool!Lives, slot : {0} \cup Pool!Slots, id : {0} \cup LeaseIds]
BY PoolSets DEF Pool!Acts

LEMMA SameAct ==
  ASSUME NEW a \in Pool!Acts, NEW b \in Pool!Acts, a.do = b.do, a.life = b.life, a.slot = b.slot, a.id = b.id
  PROVE  a = b
<1>1. a = [do |-> a.do, life |-> a.life, slot |-> a.slot, id |-> a.id] BY DEF Pool!Acts
<1>2. b = [do |-> b.do, life |-> b.life, slot |-> b.slot, id |-> b.id] BY DEF Pool!Acts
<1> QED BY <1>1, <1>2

\* the tool's run is of one action
LEMMA HandAct ==
  ASSUME PoolTypes
  PROVE  (\E a \in Pool!Acts : InHand(a)) /\ \A a, b \in Pool!Acts : InHand(a) /\ InHand(b) => a = b
<1>1. op \in OpRec BY DEF PoolTypes
<1>2. [do |-> op.do, life |-> op.life, slot |-> op.slot, id |-> op.id] \in Pool!Acts
  BY <1>1 DEF OpRec, Pool!Acts
<1>3. InHand([do |-> op.do, life |-> op.life, slot |-> op.slot, id |-> op.id]) BY DEF InHand
<1>4. \A a, b \in Pool!Acts : InHand(a) /\ InHand(b) => a = b BY SameAct DEF InHand
<1> QED BY <1>2, <1>3, <1>4

LEMMA IdleOK ==
  ASSUME op' = Pool!NoOp
  PROVE  ToolOK'
<1>1. op'.at = "idle" /\ op'.do = "none" BY NoOpIs
<1>2. ASSUME NEW a \in Pool!Acts, InHand(a)' PROVE RunOK(a)'
  <2>1. a.do = "none" BY <1>1, <1>2 DEF InHand
  <2> QED BY <2>1, <1>1 DEF RunOK
<1> QED BY <1>2 DEF ToolOK

LEMMA EmptyOK ==
  ASSUME todo' = <<>>
  PROVE  TodoOK' /\ \A a : ~Planned(a)'
BY DEF TodoOK, Planned, NoClash

LEMMA TailFacts ==
  ASSUME PoolTypes, NoClash(todo), todo # <<>>, todo' = Tail(todo)
  PROVE  /\ todo' \in Seq(Pool!Acts) /\ NoClash(todo)' /\ Planned(Head(todo)) /\ Head(todo) \in Pool!Acts
         /\ \A a : Planned(a)' => Planned(a) /\ ~Clash(Head(todo), a) /\ ~Clash(a, Head(todo))
<1>1. todo \in Seq(Pool!Acts) BY DEF PoolTypes
<1>2. Len(todo) \in Nat /\ Len(todo) > 0 /\ todo \in [1..Len(todo) -> Pool!Acts] BY <1>1
<1>3. Len(todo') = Len(todo) - 1 /\ DOMAIN todo' = 1..(Len(todo) - 1) /\ \A i \in DOMAIN todo' : todo'[i] = todo[i + 1]
  BY <1>1, <1>2
<1>4. todo' \in Seq(Pool!Acts) BY <1>1
<1>5. 1 \in DOMAIN todo /\ todo[1] = Head(todo) BY <1>1, <1>2
<1>6. \A i \in DOMAIN todo' : i + 1 \in DOMAIN todo /\ i + 1 # 1 BY <1>2, <1>3
<1>7. NoClash(todo)' BY <1>3, <1>6 DEF NoClash
<1>8. ASSUME NEW a, Planned(a)' PROVE Planned(a) /\ ~Clash(Head(todo), a) /\ ~Clash(a, Head(todo))
  <2>1. PICK i \in DOMAIN todo' : todo'[i] = a BY <1>8 DEF Planned
  <2>2. a = todo[i + 1] /\ i + 1 \in DOMAIN todo /\ i + 1 # 1 BY <2>1, <1>3, <1>6
  <2> QED BY <2>2, <1>5 DEF Planned, NoClash
<1> QED BY <1>4, <1>5, <1>7, <1>8, <1>2 DEF Planned

\* What the pool, the entries and the agents leave as it was.
LEMMA SameCore ==
  ASSUME Core, UNCHANGED <<entry, agents, hist>>, \A l \in Pool!Lives : rec'[l].st = rec[l].st,
         \A p \in Pool!Slots : slot'[p].id = slot[p].id /\ slot'[p].holder = slot[p].holder, PoolTypes
  PROVE  /\ Core'
         /\ \A a \in Pool!Acts : a.life \in Pool!Lives /\ PrepareOK(a) => PrepareOK(a)'
         /\ \A a \in Pool!Acts : FreeOK(a) => FreeOK(a)'
         /\ \A a \in Pool!Acts : a.life \in Pool!Lives /\ SpawnOK(a) => SpawnOK(a)'
<1>1. LeasesOK' BY DEF Core, LeasesOK
<1>2. EntriesOK' BY DEF Core, EntriesOK
<1>3. PreparedOK' BY DEF Core, PreparedOK
<1>4. Alone' BY DEF Core, Alone, PoolTypes, AgentRec
<1>5. WorkSaved' /\ SlotKept' BY DEF Core, WorkSaved, SlotKept
<1>6. ASSUME NEW a \in Pool!Acts, a.life \in Pool!Lives, PrepareOK(a) PROVE PrepareOK(a)'
  BY <1>6 DEF PrepareOK, AtRest
<1>7. ASSUME NEW a \in Pool!Acts, FreeOK(a) PROVE FreeOK(a)' BY <1>7 DEF FreeOK
<1>8. ASSUME NEW a \in Pool!Acts, a.life \in Pool!Lives, SpawnOK(a) PROVE SpawnOK(a)'
  BY <1>8, PoolSets, ActsAre DEF SpawnOK, AtRest
<1> QED BY <1>1, <1>2, <1>3, <1>4, <1>5, <1>6, <1>7, <1>8 DEF Core

\* The same for the plan, when no lease is nearer its last free either.
LEMMA SameActs ==
  ASSUME PoolTypes, Core, UNCHANGED <<entry, agents, hist>>, \A l \in Pool!Lives : rec'[l].st = rec[l].st,
         \A p \in Pool!Slots : slot'[p].id = slot[p].id /\ slot'[p].holder = slot[p].holder /\ slot'[p].frees = slot[p].frees,
         NEW a \in Pool!Acts, ActOK(a)
  PROVE  ActOK(a)'
<1>1. a.life \in Pool!Lives BY DEF ActOK
<1>2. /\ PrepareOK(a) => PrepareOK(a)'
      /\ FreeOK(a) => FreeOK(a)'
      /\ SpawnOK(a) => SpawnOK(a)'
  BY <1>1, SameCore
<1>3. MoveOK(a) => MoveOK(a)' BY <1>1 DEF MoveOK
<1>4. LeaseOK(a) => LeaseOK(a)' BY DEF LeaseOK
<1>5. a.do = "free" => a.slot \in Pool!Slots BY ActsAre, PoolSets DEF ActOK, FreeOK
<1> QED BY <1>1, <1>2, <1>3, <1>4, <1>5 DEF ActOK

\* ... and for the tool's run, when what is in its tree stays too
LEMMA SameTool ==
  ASSUME SlotInv, UNCHANGED <<entry, agents, hist, todo, op>>, \A l \in Pool!Lives : rec'[l].st = rec[l].st,
         \A p \in Pool!Slots : slot'[p].id = slot[p].id /\ slot'[p].holder = slot[p].holder /\ slot'[p].frees = slot[p].frees,
         \A p \in Pool!Slots : op.at = "reset" /\ op.slot = p =>
            \/ slot'[p].work = slot[p].work
            \/ slot'[p].work \in {"clean", "saved", "stray"}
            \/ op.do = "prepare" /\ slot'[p].work = "old"
  PROVE  Core' /\ TodoOK' /\ ToolOK'
<1>1. PoolTypes /\ Core /\ TodoOK /\ ToolOK BY DEF SlotInv
<1>2. Core' BY <1>1, SameCore
<1>3. TodoOK'
  <2>1. \A a \in Pool!Acts : Planned(a)' => ActOK(a) BY <1>1 DEF TodoOK, Planned
  <2>2. \A a \in Pool!Acts : Planned(a)' => ActOK(a)' BY <2>1, <1>1, SameActs
  <2> QED BY <2>2, <1>1 DEF TodoOK, NoClash
<1>4. ASSUME NEW a \in Pool!Acts, InHand(a)' PROVE RunOK(a)'
  <2>1. RunOK(a) /\ InHand(a) BY <1>4, <1>1 DEF InHand, ToolOK
  <2>2. /\ a.do = "prepare" => op.at # "idle" /\ a.life \in Pool!Lives /\ PrepareOK(a) /\ a.slot \in Pool!Slots
        /\ a.do = "free" => a.slot \in Pool!Slots
        /\ a.do = "spawn" => a.life \in Pool!Lives
    <3>1. op.at = "idle" => a.do = "none" BY <2>1, <1>1, NoOpIs DEF ToolOK, InHand
    <3>2. a.do \in {"prepare", "spawn"} => a.life \in Pool!Lives BY <2>1, <3>1 DEF RunOK
    <3> QED BY <2>1, <3>1, <3>2, ActsAre, PoolSets DEF RunOK, PrepareOK, FreeOK
  <2>3. (a.do = "prepare" => PrepareOK(a)') /\ (a.do = "free" => FreeOK(a)') /\ (a.do = "spawn" => SpawnOK(a)')
    BY <2>1, <2>2, SameCore, <1>1 DEF RunOK
  <2>4. \A b : Planned(b)' => Planned(b) BY DEF Planned
  <2>5. op.at = "reset" => slot'[a.slot].work \in {"clean", "saved", "stray"} \cup (IF a.do = "prepare" THEN {"old"} ELSE {})
    BY <2>1, <2>2 DEF RunOK, InHand
  <2>6. a.do = "prepare" /\ op.at # "check" => a.life \in hist.taken \/ slot'[a.slot].id = a.id
    BY <2>1, <2>2 DEF RunOK
  <2> QED BY <2>1, <2>3, <2>4, <2>5, <2>6 DEF RunOK
<1> QED BY <1>1, <1>2, <1>3, <1>4 DEF ToolOK

\* A step of the tool that goes on with its action.
LEMMA GoesIs ==
  ASSUME PoolTypes, NEW at \in Pool!Stages, Pool!Goes(at)
  PROVE  /\ op' \in OpRec /\ op'.at = at
         /\ \A a \in Pool!Acts : InHand(a)' <=> InHand(a)
<1>1. op \in OpRec BY DEF PoolTypes
<1>2. op' = [op EXCEPT !.at = at] BY DEF Pool!Goes
<1> QED BY <1>1, <1>2 DEF OpRec, InHand

\* What a step that goes on leaves the tool to know.
LEMMA GoesKept ==
  ASSUME SlotInv, NEW at \in Pool!Stages, Pool!Goes(at), UNCHANGED <<entry, agents, hist, todo, rec>>,
         \A p \in Pool!Slots : slot'[p].id = slot[p].id /\ slot'[p].holder = slot[p].holder /\ slot'[p].frees = slot[p].frees,
         op.at \notin {"idle", "check", "spawn"}, at \notin {"idle", "check", "save", "get", "spawn"},
         \A a \in Pool!Acts : InHand(a) =>
           /\ at \in {"reset", "mark", "return"} => a.do \in {"prepare", "free"}
           /\ (at = "mark" => a.do = "prepare") /\ (at = "return" => a.do = "free")
           /\ at = "reset" =>
                /\ op.at \in {"save", "reset"}
                /\ slot'[a.slot].work \in {"clean", "saved", "stray"} \cup (IF a.do = "prepare" THEN {"old"} ELSE {})
  PROVE  Core' /\ TodoOK' /\ ToolOK'
<1>1. PoolTypes /\ Core /\ TodoOK /\ ToolOK BY DEF SlotInv
<1>2. Core' BY <1>1, SameCore
<1>3. TodoOK'
  <2>1. \A a \in Pool!Acts : Planned(a)' => ActOK(a) BY <1>1 DEF TodoOK, Planned
  <2>2. \A a \in Pool!Acts : Planned(a)' => ActOK(a)' BY <2>1, <1>1, SameActs
  <2> QED BY <2>2, <1>1 DEF TodoOK, NoClash
<1>4. ASSUME NEW a \in Pool!Acts, InHand(a)' PROVE RunOK(a)'
  <2>1. InHand(a) /\ op'.at = at BY <1>4, <1>1, GoesIs
  <2>2. RunOK(a) BY <2>1, <1>1 DEF ToolOK
  <2>3. a.life \in Pool!Lives /\ a.do \in {"lease", "prepare", "free"} BY <2>2 DEF RunOK
  <2>4. (a.do = "prepare" => PrepareOK(a)') /\ (a.do = "free" => FreeOK(a)')
    BY <2>2, <2>3, <1>1, SameCore DEF RunOK
  <2>5. \A b : Planned(b)' => Planned(b) BY DEF Planned
  <2>6. a.do = "prepare" => a.life \in hist.taken \/ slot'[a.slot].id = a.id
    <3>1. a.do = "prepare" => a.slot \in Pool!Slots BY <2>2, ActsAre, PoolSets DEF RunOK, PrepareOK
    <3> QED BY <2>2, <3>1 DEF RunOK
  <2>7. at \in {"save", "reset"} =>
          \A b \in agents : b.slot = a.slot /\ ~b.loose => a.do = "prepare" /\ b.unstopped
    BY <2>1, <2>2 DEF RunOK
  <2> QED BY <2>1, <2>2, <2>3, <2>4, <2>5, <2>6, <2>7 DEF RunOK
<1>5. op'.at # "idle" BY <1>1, GoesIs
<1> QED BY <1>2, <1>3, <1>4, <1>5 DEF ToolOK

\* the action that the tool runs, and its slot
LEMMA HandIs ==
  ASSUME SlotInv, op.at # "idle"
  PROVE  \E a \in Pool!Acts :
           /\ InHand(a) /\ RunOK(a) /\ a.do \in {"lease", "prepare", "free", "spawn"} /\ a.life \in Pool!Lives
           /\ op.at # "spawn" => a.do \in {"lease", "prepare", "free"}
           /\ a.do \in {"prepare", "free"} => a.slot \in Pool!Slots /\ a.id \in LeaseIds
           /\ a.do = "spawn" => a.slot \in Pool!Slots
           /\ \A b \in Pool!Acts : InHand(b) => b = a
<1>1. PoolTypes /\ ToolOK BY DEF SlotInv
<1>2. PICK a \in Pool!Acts : InHand(a) BY <1>1, HandAct
<1>3. RunOK(a) BY <1>1, <1>2 DEF ToolOK
<1>4. a.do \in {"prepare", "free"} => a.slot \in Pool!Slots /\ a.id \in LeaseIds
  BY <1>3, ActsAre, PoolSets DEF RunOK, PrepareOK, FreeOK
<1>5. a.do = "spawn" => a.slot \in Pool!Slots BY <1>3, ActsAre, PoolSets DEF RunOK, SpawnOK
<1> QED BY <1>1, <1>2, <1>3, <1>4, <1>5, HandAct DEF RunOK

LEMMA SaveStep ==
  ASSUME SlotInv, Pool!Save
  PROVE  SlotInv'
<1>1. PICK a \in Pool!Acts : InHand(a) /\ RunOK(a) /\ (\A b \in Pool!Acts : InHand(b) => b = a)
                             /\ a.do \in {"prepare", "free"} /\ a.slot \in Pool!Slots
  <2>1. op.at = "save" BY DEF Pool!Save, Pool!Tool
  <2> QED BY <2>1, HandIs DEF RunOK
<1>2. PoolTypes /\ slot \in [Pool!Slots -> SlotRec] BY DEF SlotInv, PoolTypes
<1>3. op.at = "save" /\ UNCHANGED <<rec, agents, unseen, todo, late, outside, entry, hist>> BY DEF Pool!Save, Pool!Tool
<1>4. slot' = [slot EXCEPT ![a.slot].work = IF slot[a.slot].work = "clean" THEN slot[a.slot].work ELSE "saved"]
  BY <1>1 DEF Pool!Save, InHand
<1>5. slot' \in [Pool!Slots -> SlotRec]
      /\ \A p \in Pool!Slots : slot'[p].id = slot[p].id /\ slot'[p].holder = slot[p].holder /\ slot'[p].frees = slot[p].frees
  BY <1>1, <1>2, <1>4 DEF SlotRec
<1>6. slot'[a.slot].work \in {"clean", "saved"}
  BY <1>1, <1>2, <1>4 DEF SlotRec
<1>7. Pool!Goes("reset") BY DEF Pool!Save
<1>8. Core' /\ TodoOK' /\ ToolOK'
  BY <1>1, <1>3, <1>5, <1>6, <1>7, GoesKept DEF Pool!Stages
<1>9. PoolTypes' BY <1>2, <1>3, <1>5, <1>7, GoesIs DEF PoolTypes, Pool!Stages
<1> QED BY <1>8, <1>9 DEF SlotInv

LEMMA ResetStep ==
  ASSUME SlotInv, Pool!Reset
  PROVE  SlotInv'
<1>1. PICK a \in Pool!Acts : InHand(a) /\ RunOK(a) /\ (\A b \in Pool!Acts : InHand(b) => b = a)
                             /\ a.do \in {"prepare", "free"} /\ a.slot \in Pool!Slots
  <2>1. op.at = "reset" BY DEF Pool!Reset, Pool!Tool
  <2> QED BY <2>1, HandIs DEF RunOK
<1>2. PoolTypes /\ slot \in [Pool!Slots -> SlotRec] BY DEF SlotInv, PoolTypes
<1>3. op.at = "reset" /\ UNCHANGED <<rec, agents, unseen, todo, late, outside, entry>> BY DEF Pool!Reset, Pool!Tool
<1>4. slot' = [slot EXCEPT ![a.slot].work = "clean"] /\ op.do = a.do /\ op.slot = a.slot
  BY <1>1 DEF Pool!Reset, InHand
<1>5. slot' \in [Pool!Slots -> SlotRec]
      /\ \A p \in Pool!Slots : slot'[p].id = slot[p].id /\ slot'[p].holder = slot[p].holder /\ slot'[p].frees = slot[p].frees
  BY <1>1, <1>2, <1>4 DEF SlotRec
<1>6. slot[a.slot].work \notin {"new"} \cup (IF a.do = "free" THEN {"old"} ELSE {})
  BY <1>1, <1>3 DEF RunOK
<1>7. UNCHANGED hist
  <2>1. hist.lost = FALSE /\ hist \in [lost : BOOLEAN, taken : SUBSET Pool!Lives, wrong : BOOLEAN]
    BY <1>2 DEF SlotInv, Core, WorkSaved, PoolTypes
  <2>2. hist' = [hist EXCEPT !.lost = FALSE]
    BY <2>1, <1>4, <1>6 DEF Pool!Reset
  <2> QED BY <2>1, <2>2
<1>8. PICK at \in {"mark", "return"} : Pool!Goes(at) /\ (at = "mark" <=> a.do = "prepare")
  BY <1>1, <1>4 DEF Pool!Reset
<1>9. at \in Pool!Stages BY DEF Pool!Stages
<1>10. Core' /\ TodoOK' /\ ToolOK'
  BY <1>1, <1>3, <1>5, <1>7, <1>8, <1>9, GoesKept
<1>11. PoolTypes' BY <1>2, <1>3, <1>5, <1>7, <1>8, <1>9, GoesIs DEF PoolTypes
<1> QED BY <1>10, <1>11 DEF SlotInv

LEMMA MarkStep ==
  ASSUME SlotInv, Pool!Mark
  PROVE  SlotInv'
<1>1. PICK a \in Pool!Acts : InHand(a) /\ RunOK(a) /\ (\A b \in Pool!Acts : InHand(b) => b = a)
                             /\ a.do \in {"prepare", "free"} /\ a.slot \in Pool!Slots /\ a.life \in Pool!Lives
  <2>1. op.at = "mark" BY DEF Pool!Mark, Pool!Tool
  <2> QED BY <2>1, HandIs DEF RunOK
<1>2. PoolTypes /\ slot \in [Pool!Slots -> SlotRec] BY DEF SlotInv, PoolTypes
<1>3. op.at = "mark" /\ UNCHANGED <<rec, agents, unseen, todo, late, outside, entry, hist>> BY DEF Pool!Mark, Pool!Tool
<1>4. slot' = [slot EXCEPT ![a.slot].marker = a.life]
  BY <1>1 DEF Pool!Mark, InHand
<1>5. slot' \in [Pool!Slots -> SlotRec]
      /\ \A p \in Pool!Slots : slot'[p].id = slot[p].id /\ slot'[p].holder = slot[p].holder /\ slot'[p].frees = slot[p].frees
  BY <1>1, <1>2, <1>4 DEF SlotRec
<1>6. Pool!Goes("answer") BY DEF Pool!Mark
<1>7. Core' /\ TodoOK' /\ ToolOK'
  BY <1>1, <1>3, <1>5, <1>6, GoesKept DEF Pool!Stages
<1>8. PoolTypes' BY <1>2, <1>3, <1>5, <1>6, GoesIs DEF PoolTypes, Pool!Stages
<1> QED BY <1>7, <1>8 DEF SlotInv

\* A free gives back a lease that is nobody's.
LEMMA ReturnStep ==
  ASSUME SlotInv, Pool!Return
  PROVE  SlotInv'
<1>1. PICK a \in Pool!Acts : InHand(a) /\ RunOK(a) /\ (\A b \in Pool!Acts : InHand(b) => b = a)
                             /\ a.do = "free" /\ a.slot \in Pool!Slots /\ a.life \in Pool!Lives
  <2>1. op.at = "return" BY DEF Pool!Return, Pool!Tool
  <2> QED BY <2>1, HandIs DEF RunOK
<1>2. PoolTypes /\ Core /\ TodoOK BY DEF SlotInv
<1>3. UNCHANGED <<rec, agents, unseen, todo, late, outside, entry, hist>> /\ Pool!Goes("answer")
  BY DEF Pool!Return, Pool!Tool
<1>4. PoolTypes' /\ (\A b \in Pool!Acts : InHand(b)' <=> InHand(b)) /\ op'.at = "answer"
      /\ \A p \in Pool!Slots : \/ slot'[p].id = slot[p].id /\ slot'[p].holder = slot[p].holder /\ slot'[p].frees = slot[p].frees
                               \/ slot[p].id = a.id /\ slot'[p].id = 0 /\ slot'[p].holder = 0 /\ slot'[p].frees = 0
  <2>1. op'.at = "answer" /\ op' \in OpRec /\ \A b \in Pool!Acts : InHand(b)' <=> InHand(b)
    BY <1>2, <1>3, GoesIs DEF Pool!Stages
  <2>2. slot \in [Pool!Slots -> SlotRec] BY <1>2 DEF PoolTypes
  <2>3. slot' = IF slot[a.slot].id = a.id THEN [slot EXCEPT ![a.slot] = Pool!Returned(a.slot)] ELSE slot
    BY <1>1 DEF Pool!Return, InHand
  <2>4. Pool!Returned(a.slot) \in SlotRec /\ Pool!Returned(a.slot).id = 0 /\ Pool!Returned(a.slot).holder = 0
        /\ Pool!Returned(a.slot).frees = 0
    <3>1. PICK x \in SlotRec : x = slot[a.slot] BY <2>2, <1>1
    <3>2. Pool!Returned(a.slot) = [x EXCEPT !.id = 0, !.holder = 0, !.frees = 0]
      BY <3>1, PoolSets DEF Pool!Returned
    <3>3. 0 \in 0..Pool!Person /\ 0 \in 0..Pool!FREE_ATTEMPTS BY PoolSets
    <3> QED BY <3>2, <3>3, PoolSets DEF SlotRec
  <2>5. slot' \in [Pool!Slots -> SlotRec]
        /\ \A p \in Pool!Slots : slot'[p] = slot[p] \/ (slot[p].id = a.id /\ slot'[p] = Pool!Returned(a.slot))
    BY <2>2, <2>3, <2>4, <1>1
  <2>6. PoolTypes' BY <1>2, <1>3, <2>1, <2>5 DEF PoolTypes
  <2> QED BY <2>1, <2>4, <2>5, <2>6
<1>5. FreeOK(a) /\ a.id # 0 BY <1>1, PoolSets DEF RunOK, FreeOK
<1>6. LeasesOK' BY <1>4, <1>2, PoolSets DEF Core, LeasesOK
<1>7. EntriesOK' BY <1>2, <1>3 DEF Core, EntriesOK
<1>8. PreparedOK'
  <2>1. ASSUME NEW l \in Pool!Lives, entry[l].prep = "done"
        PROVE  /\ entry[l].named # 0 /\ entry[l].named # a.id
               /\ \A p \in Pool!Slots : slot[p].id = entry[l].named => slot[p].holder = l
               /\ l \notin hist.taken => \E p \in Pool!Slots : slot[p].id = entry[l].named
    BY <2>1, <1>2, <1>5, PoolSets DEF Core, PreparedOK, FreeOK
  <2>2. ASSUME NEW l \in Pool!Lives, entry[l].prep = "done"
        PROVE  /\ \A p \in Pool!Slots : slot'[p].id = entry[l].named => slot'[p].holder = l
               /\ l \notin hist.taken => \E p \in Pool!Slots : slot'[p].id = entry[l].named
    BY <2>1, <2>2, <1>4
  <2> QED BY <2>1, <2>2, <1>3, PoolSets DEF PreparedOK
<1>9. Alone'
  <2>1. ASSUME NEW b \in agents, ~b.loose PROVE slot'[b.slot].holder = b.life /\ slot'[b.slot].id = b.id
    <3>1. b.slot \in Pool!Slots /\ slot[b.slot].holder = b.life /\ slot[b.slot].id = b.id /\ b.id # a.id
      BY <2>1, <1>2, <1>5 DEF Core, Alone, PoolTypes, AgentRec, FreeOK
    <3> QED BY <3>1, <1>4
  <2> QED BY <2>1, <1>2, <1>3 DEF Core, Alone
<1>10. Core' BY <1>6, <1>7, <1>8, <1>9, <1>2, <1>3 DEF Core, WorkSaved, SlotKept
<1>11. ASSUME NEW b \in Pool!Acts, ActOK(b), Planned(b) PROVE ActOK(b)'
  <2>1. b.life \in Pool!Lives BY <1>11 DEF ActOK
  <2>2. PrepareOK(b) => PrepareOK(b)' BY <1>3, <1>4, PoolSets DEF PrepareOK, AtRest
  <2>3. FreeOK(b) => FreeOK(b)' BY <1>3 DEF FreeOK
  <2>4. SpawnOK(b) => SpawnOK(b)'
    <3> SUFFICES ASSUME SpawnOK(b), b.life \notin hist.taken PROVE slot'[b.slot].id = entry[b.life].named
      BY <1>3 DEF SpawnOK, AtRest
    <3>1. b.slot \in Pool!Slots /\ entry[b.life].named # a.id /\ slot[b.slot].id = entry[b.life].named
      BY <1>5, <2>1, ActsAre, PoolSets DEF FreeOK, SpawnOK
    <3> QED BY <3>1, <1>4
  <2>5. (MoveOK(b) => MoveOK(b)') /\ (LeaseOK(b) => LeaseOK(b)') BY <1>3 DEF MoveOK, LeaseOK
  <2>6. b.do = "free" => (slot'[b.slot].id = b.id => slot'[b.slot].frees < Pool!FREE_ATTEMPTS)
    <3>1. b.do = "free" => b.slot \in Pool!Slots BY <1>11, ActsAre, PoolSets DEF ActOK, FreeOK
    <3> QED BY <3>1, <1>11, <1>4, PoolSets DEF ActOK
  <2> QED BY <1>11, <1>3, <2>1, <2>2, <2>3, <2>4, <2>5, <2>6 DEF ActOK
<1>12. TodoOK'
  <2>1. \A b \in Pool!Acts : Planned(b)' => Planned(b) /\ ActOK(b) BY <1>2, <1>3 DEF TodoOK, Planned
  <2>2. \A b \in Pool!Acts : Planned(b)' => ActOK(b)' BY <2>1, <1>11
  <2> QED BY <2>2, <1>2, <1>3 DEF TodoOK, NoClash
<1>13. ToolOK'
  <2>1. ASSUME NEW b \in Pool!Acts, InHand(b)' PROVE RunOK(b)'
    <3>1. b = a BY <2>1, <1>1, <1>4
    <3>2. FreeOK(b)' BY <3>1, <1>5, <1>3 DEF FreeOK
    <3>3. \A c : Planned(c)' => Planned(c) BY <1>3 DEF Planned
    <3> QED BY <3>1, <3>2, <3>3, <1>1, <1>4 DEF RunOK
  <2> QED BY <2>1, <1>4 DEF ToolOK
<1> QED BY <1>4, <1>10, <1>12, <1>13 DEF SlotInv

\* The answer of a prepare makes its slot the life's prepared one.
LEMMA AnswerStep ==
  ASSUME SlotInv, Pool!Answer
  PROVE  SlotInv'
<1>1. op.at = "answer" /\ op' = Pool!NoOp /\ UNCHANGED <<rec, agents, unseen, todo, late, outside, slot, hist>>
  BY DEF Pool!Answer, Pool!Tool
<1>2. PICK a \in Pool!Acts : InHand(a) /\ RunOK(a) /\ a.do \in {"lease", "prepare", "free"} /\ a.life \in Pool!Lives
                             /\ (a.do \in {"prepare", "free"} => a.slot \in Pool!Slots /\ a.id \in LeaseIds)
  BY <1>1, HandIs
<1>3. PoolTypes /\ Core /\ TodoOK BY DEF SlotInv
<1>4. entry' = CASE a.do = "lease" -> [entry EXCEPT ![a.life].lease = "done", ![a.life].leased = a.id]
                 [] a.do = "prepare" -> [entry EXCEPT ![a.life].prep = "done", ![a.life].named = a.id]
                 [] OTHER -> entry
  BY <1>2 DEF Pool!Answer, InHand
<1>5. entry \in [Pool!Lives -> EntryRec] /\ a.id \in {0} \cup LeaseIds BY <1>3, ActsAre DEF PoolTypes
<1>6. /\ entry' \in [Pool!Lives -> EntryRec]
      /\ \A l \in Pool!Lives : entry'[l].step = entry[l].step /\ entry'[l].stop = entry[l].stop /\ entry'[l].tries = entry[l].tries
      /\ \A l \in Pool!Lives : entry'[l].lease = entry[l].lease \/ entry'[l].lease = "done"
      /\ \A l \in Pool!Lives : \/ entry'[l].prep = entry[l].prep /\ entry'[l].named = entry[l].named
                               \/ a.do = "prepare" /\ a.life = l /\ entry'[l].prep = "done" /\ entry'[l].named = a.id
  <2>1. CASE a.do = "lease"
    <3>1. PICK e \in EntryRec : e = entry[a.life] BY <1>2, <1>5
    <3>2. PICK f : f = [e EXCEPT !.lease = "done", !.leased = a.id] OBVIOUS
    <3>3. f \in EntryRec /\ f.step = e.step /\ f.stop = e.stop /\ f.tries = e.tries /\ f.lease = "done" /\ f.prep = e.prep /\ f.named = e.named
      BY <3>1, <3>2, <1>5, PoolSets DEF EntryRec
    <3>4. entry' = [entry EXCEPT ![a.life] = f] BY <2>1, <3>1, <3>2, <1>2, <1>4, <1>5
    <3> QED BY <2>1, <3>1, <3>3, <3>4, <1>2, <1>5
  <2>2. CASE a.do = "prepare"
    <3>1. PICK e \in EntryRec : e = entry[a.life] BY <1>2, <1>5
    <3>2. PICK f : f = [e EXCEPT !.prep = "done", !.named = a.id] OBVIOUS
    <3>3. f \in EntryRec /\ f.step = e.step /\ f.stop = e.stop /\ f.tries = e.tries /\ f.lease = e.lease /\ f.prep = "done" /\ f.named = a.id
      BY <3>1, <3>2, <1>5, PoolSets DEF EntryRec
    <3>4. entry' = [entry EXCEPT ![a.life] = f] BY <2>2, <3>1, <3>2, <1>2, <1>4, <1>5
    <3> QED BY <2>2, <3>1, <3>3, <3>4, <1>2, <1>5
  <2>3. CASE a.do = "free" BY <2>3, <1>4, <1>5
  <2> QED BY <2>1, <2>2, <2>3, <1>2
<1>7. PoolTypes'
  <2>1. Pool!NoOp \in OpRec BY NoOpIs, PoolSets DEF OpRec, Pool!Kinds, Pool!Stages
  <2> QED BY <2>1, <1>1, <1>3, <1>6 DEF PoolTypes
<1>8. a.do = "prepare" => PrepareOK(a) /\ (a.life \in hist.taken \/ slot[a.slot].id = a.id)
  BY <1>1, <1>2 DEF RunOK
<1>9. LeasesOK' BY <1>1, <1>3 DEF Core, LeasesOK
<1>10. EntriesOK'
  <2>1. \A l \in Pool!Lives : entry'[l].prep # entry[l].prep => rec[l].st = "slot"
    BY <1>6, <1>8 DEF PrepareOK
  <2> QED BY <2>1, <1>1, <1>3, <1>6 DEF Core, EntriesOK
<1>11. PreparedOK'
  <2>1. ASSUME NEW l \in Pool!Lives, entry'[l].prep = "done"
        PROVE  /\ entry'[l].named # 0
               /\ \A p \in Pool!Slots : slot[p].id = entry'[l].named => slot[p].holder = l
               /\ l \notin hist.taken => \E p \in Pool!Slots : slot[p].id = entry'[l].named
    <3>1. CASE entry'[l].prep = entry[l].prep /\ entry'[l].named = entry[l].named
      BY <2>1, <3>1, <1>3, PoolSets DEF Core, PreparedOK
    <3>2. CASE a.do = "prepare" /\ a.life = l /\ entry'[l].named = a.id
      BY <3>2, <1>2, <1>8, PoolSets DEF PrepareOK
    <3> QED BY <3>1, <3>2, <1>6
  <2> QED BY <2>1, <1>1, PoolSets DEF PreparedOK
<1>12. Core' BY <1>9, <1>10, <1>11, <1>1, <1>3 DEF Core, Alone, WorkSaved, SlotKept
<1>13. ASSUME NEW b \in Pool!Acts, ActOK(b), Planned(b) PROVE ActOK(b)'
  <2>1. b.life \in Pool!Lives /\ (a.do = "prepare" => ~Clash(a, b)) BY <1>13, <1>2 DEF ActOK, RunOK
  <2>2. PrepareOK(b) => PrepareOK(b)' BY <1>1, <1>6, <2>1 DEF PrepareOK, AtRest
  <2>3. b.do = "free" /\ FreeOK(b) => FreeOK(b)' BY <1>1, <1>6, <2>1 DEF FreeOK, Clash
  <2>4. b.do = "spawn" /\ SpawnOK(b) => SpawnOK(b)'
    BY <1>1, <1>6, <2>1 DEF SpawnOK, AtRest, Clash, Sole
  <2>5. (MoveOK(b) => MoveOK(b)') /\ (LeaseOK(b) => LeaseOK(b)') BY <1>1, <1>6, <2>1 DEF MoveOK, LeaseOK
  <2> QED BY <1>13, <1>1, <2>1, <2>2, <2>3, <2>4, <2>5 DEF ActOK
<1>14. TodoOK'
  <2>1. \A b \in Pool!Acts : Planned(b)' => Planned(b) /\ ActOK(b) BY <1>1, <1>3 DEF TodoOK, Planned
  <2>2. \A b \in Pool!Acts : Planned(b)' => ActOK(b)' BY <2>1, <1>13
  <2> QED BY <2>2, <1>1, <1>3 DEF TodoOK, NoClash
<1> QED BY <1>1, <1>7, <1>12, <1>14, IdleOK DEF SlotInv

LEMMA CheckStep ==
  ASSUME SlotInv, Pool!Check
  PROVE  SlotInv'
<1>1. op.at = "check" /\ UNCHANGED <<rec, agents, unseen, todo, late, outside, slot, entry, hist>>
  BY DEF Pool!Check, Pool!Tool
<1>2. PICK a \in Pool!Acts : InHand(a) /\ RunOK(a) /\ a.do \in {"lease", "prepare", "free"} /\ a.life \in Pool!Lives
                             /\ (a.do \in {"prepare", "free"} => a.slot \in Pool!Slots /\ a.id \in LeaseIds)
                             /\ \A b \in Pool!Acts : InHand(b) => b = a
  BY <1>1, HandIs
<1>3. PoolTypes /\ Core /\ TodoOK /\ op \in OpRec BY DEF SlotInv, PoolTypes
<1>4. Core' BY <1>1, <1>3, SameCore
<1>5. TodoOK'
  <2>1. \A b \in Pool!Acts : Planned(b)' => ActOK(b) BY <1>1, <1>3 DEF TodoOK, Planned
  <2>2. \A b \in Pool!Acts : Planned(b)' => ActOK(b)' BY <2>1, <1>1, <1>3, SameActs
  <2> QED BY <2>2, <1>1, <1>3 DEF TodoOK, NoClash
<1>6. ASSUME op' = Pool!NoOp PROVE SlotInv'
  <2>1. Pool!NoOp \in OpRec BY NoOpIs, PoolSets DEF OpRec, Pool!Kinds, Pool!Stages
  <2>2. PoolTypes' BY <2>1, <1>6, <1>1, <1>3 DEF PoolTypes
  <2> QED BY <2>2, <1>4, <1>5, <1>6, IdleOK DEF SlotInv
<1>7. CASE a.do = "lease"
  <2>1. CASE Pool!Goes("get")
    <3>1. PoolTypes' /\ op'.at = "get" /\ \A b \in Pool!Acts : InHand(b)' => b = a
      BY <2>1, <1>1, <1>2, <1>3, GoesIs DEF PoolTypes, Pool!Stages
    <3>2. ToolOK' BY <3>1, <1>2, <1>7 DEF ToolOK, RunOK
    <3> QED BY <3>1, <3>2, <1>4, <1>5 DEF SlotInv
  <2>2. CASE \E p \in Pool!Mine(op.life) : op' = [op EXCEPT !.at = "answer", !.slot = p, !.id = slot[p].id]
    <3>1. PICK p \in Pool!Slots : op' = [op EXCEPT !.at = "answer", !.slot = p, !.id = slot[p].id]
      BY <2>2 DEF Pool!Mine
    <3>2. slot[p].id \in {0} \cup LeaseIds BY <1>3, PoolSets DEF PoolTypes, SlotRec
    <3>3. op' \in OpRec /\ op'.at = "answer" /\ op'.do = a.do /\ op'.life = a.life
      BY <3>1, <3>2, <1>2, <1>3, PoolSets DEF OpRec, InHand, Pool!Stages
    <3>4. PoolTypes' BY <3>3, <1>1, <1>3 DEF PoolTypes
    <3>5. ASSUME NEW b \in Pool!Acts, InHand(b)' PROVE RunOK(b)'
      <4>1. b.do = "lease" /\ b.life \in Pool!Lives BY <3>3, <3>5, <1>2, <1>7 DEF InHand
      <4> QED BY <4>1, <3>3 DEF RunOK
    <3>6. ToolOK' BY <3>3, <3>5 DEF ToolOK
    <3> QED BY <3>4, <3>6, <1>4, <1>5 DEF SlotInv
  <2>3. op.do = "lease" BY <1>2, <1>7 DEF InHand
  <2> QED BY <2>1, <2>2, <2>3, <1>6 DEF Pool!Check
<1>8. CASE a.do \in {"prepare", "free"}
  <2>1. op.do # "lease" /\ op.slot = a.slot /\ op.id = a.id BY <1>2, <1>8 DEF InHand
  <2>2. CASE slot[a.slot].id = a.id /\ Pool!Goes("save")
    <3>1. PoolTypes' /\ op'.at = "save" /\ \A b \in Pool!Acts : InHand(b)' => b = a
      BY <2>2, <1>1, <1>2, <1>3, GoesIs DEF PoolTypes, Pool!Stages
    <3>2. (a.do = "prepare" => PrepareOK(a) /\ PrepareOK(a)') /\ (a.do = "free" => FreeOK(a) /\ FreeOK(a)')
      BY <1>1, <1>2, <1>3, SameCore DEF RunOK
    <3>3. \A b \in agents : b.slot = a.slot /\ ~b.loose => a.do = "prepare" /\ b.unstopped
      <4> SUFFICES ASSUME NEW b \in agents, b.slot = a.slot, ~b.loose PROVE a.do = "prepare" /\ b.unstopped
        OBVIOUS
      <4>1. slot[a.slot].holder = b.life /\ b.id = a.id BY <2>2, <1>3 DEF Core, Alone
      <4>2. a.do # "free" BY <4>1, <3>2 DEF FreeOK
      <4>3. b.life = a.life BY <4>1, <4>2, <3>2, <2>2, <1>8, <1>2 DEF PrepareOK
      <4> QED BY <4>2, <4>3, <3>2, <1>8 DEF PrepareOK, AtRest
    <3>4. RunOK(a)'
      <4>1. \A b : Planned(b)' => Planned(b) BY <1>1 DEF Planned
      <4> QED BY <4>1, <3>1, <3>2, <3>3, <2>2, <1>1, <1>2, <1>8 DEF RunOK
    <3>5. ToolOK' BY <3>1, <3>4 DEF ToolOK
    <3> QED BY <3>1, <3>5, <1>4, <1>5 DEF SlotInv
  <2>3. (slot[a.slot].id = a.id /\ Pool!Goes("save")) \/ op' = Pool!NoOp
    BY <2>1 DEF Pool!Check
  <2> QED BY <2>2, <2>3, <1>6
<1> QED BY <1>2, <1>7, <1>8

\* A get of treehouse, in time or late: the new lease's id is one that nothing names.
LEMMA LeaseIn ==
  ASSUME SlotInv, NEW p \in Pool!Spare, NEW l \in Pool!Lives, NEW id \in Pool!Fresh, Pool!Leased(p, l, id),
         UNCHANGED <<rec, entry, agents, todo, hist>>
  PROVE  /\ slot' \in [Pool!Slots -> SlotRec] /\ Core' /\ TodoOK'
         /\ \A a \in Pool!Acts : InHand(a) => (PrepareOK(a) => PrepareOK(a)') /\ (FreeOK(a) => FreeOK(a)')
         /\ \A a \in Pool!Acts : InHand(a) /\ a.life \in Pool!Lives /\ SpawnOK(a) => SpawnOK(a)'
         /\ \A q \in Pool!Slots : slot'[q].work = slot[q].work /\ (slot[q].id # 0 => slot'[q] = slot[q])
<1>1. PoolTypes /\ Core /\ TodoOK /\ slot \in [Pool!Slots -> SlotRec] BY DEF SlotInv, PoolTypes
<1>2. p \in Pool!Slots /\ slot[p].holder = 0 /\ slot[p].id = 0
  BY <1>1, PoolSets DEF Pool!Spare, Core, LeasesOK
<1>3. id \in LeaseIds /\ id # 0 /\ id \notin Pool!Used BY PoolSets DEF Pool!Fresh
<1>4. slot' = [slot EXCEPT ![p].id = id, ![p].holder = l, ![p].frees = 0] BY DEF Pool!Leased
<1>5. /\ slot' \in [Pool!Slots -> SlotRec]
      /\ slot'[p].id = id /\ slot'[p].holder = l /\ slot'[p].frees = 0
      /\ \A q \in Pool!Slots : q # p => slot'[q] = slot[q]
      /\ \A q \in Pool!Slots : slot'[q].work = slot[q].work
  BY <1>1, <1>2, <1>3, <1>4, PoolSets DEF SlotRec
<1>6. /\ \A q \in Pool!Slots : slot[q].id # id
      /\ \A m \in Pool!Lives : entry[m].named # id
      /\ \A a : Planned(a) \/ InHand(a) => a.id # id
  <2>1. \A a : Planned(a) => a.id \in Pool!Used BY DEF Planned, Pool!Used
  <2>2. \A a : InHand(a) => a.id \in Pool!Used BY DEF InHand, Pool!Used
  <2> QED BY <1>3, <2>1, <2>2 DEF Pool!Used
<1>7. LeasesOK'
  <2>1. /\ \A q \in Pool!Slots : slot[q].id # 0 <=> slot[q].holder \in Pool!Lives
        /\ \A q, r \in Pool!Slots : slot[q].id = slot[r].id /\ slot[q].id # 0 => q = r
    BY <1>1, PoolSets DEF Core, LeasesOK
  <2>2. ASSUME NEW q \in Pool!Slots PROVE slot'[q].id # 0 <=> slot'[q].holder \in Pool!Lives
    BY <2>1, <1>3, <1>5
  <2>3. ASSUME NEW q \in Pool!Slots, NEW r \in Pool!Slots, slot'[q].id = slot'[r].id, slot'[q].id # 0 PROVE q = r
    <3>1. CASE q # p /\ r # p BY <3>1, <2>1, <2>3, <1>5
    <3>2. CASE q = p \/ r = p BY <3>2, <2>3, <1>5, <1>6
    <3> QED BY <3>1, <3>2
  <2> QED BY <2>2, <2>3, PoolSets DEF LeasesOK
<1>8. EntriesOK' BY <1>1 DEF Core, EntriesOK
<1>9. PreparedOK'
  <2>1. ASSUME NEW m \in Pool!Lives, entry[m].prep = "done"
        PROVE  /\ \A q \in Pool!Slots : slot'[q].id = entry[m].named => slot'[q].holder = m
               /\ m \notin hist.taken => \E q \in Pool!Slots : slot'[q].id = entry[m].named
               /\ entry[m].named # 0
    BY <2>1, <1>1, <1>2, <1>5, <1>6, PoolSets DEF Core, PreparedOK
  <2> QED BY <2>1, PoolSets DEF PreparedOK
<1>10. Alone'
  <2>1. ASSUME NEW b \in agents, ~b.loose PROVE slot'[b.slot].holder = b.life /\ slot'[b.slot].id = b.id
    <3>1. b.slot \in Pool!Slots /\ slot[b.slot].holder = b.life /\ slot[b.slot].id = b.id /\ b.life # 0
      BY <2>1, <1>1, PoolSets DEF Core, Alone, PoolTypes, AgentRec
    <3> QED BY <3>1, <1>2, <1>5
  <2> QED BY <2>1, <1>1 DEF Core, Alone
<1>11. Core' BY <1>1, <1>7, <1>8, <1>9, <1>10 DEF Core, WorkSaved, SlotKept
<1>12. ASSUME NEW a \in Pool!Acts, Planned(a) \/ InHand(a)
       PROVE  /\ PrepareOK(a) => PrepareOK(a)'
              /\ FreeOK(a) => FreeOK(a)'
              /\ a.life \in Pool!Lives /\ SpawnOK(a) => SpawnOK(a)'
              /\ ActOK(a) => ActOK(a)'
  <2>1. PrepareOK(a) => PrepareOK(a)' BY <1>12, <1>5, <1>6 DEF PrepareOK, AtRest
  <2>2. FreeOK(a) => FreeOK(a)' BY DEF FreeOK
  <2>3. a.life \in Pool!Lives /\ SpawnOK(a) => SpawnOK(a)'
    <3> SUFFICES ASSUME a.life \in Pool!Lives, SpawnOK(a), a.life \notin hist.taken PROVE slot'[a.slot].id = entry[a.life].named
      BY DEF SpawnOK, AtRest
    <3>1. a.slot \in Pool!Slots /\ entry[a.life].named # 0 /\ slot[a.slot].id = entry[a.life].named
      BY <1>1, ActsAre, PoolSets DEF SpawnOK, Core, PreparedOK
    <3> QED BY <3>1, <1>2, <1>5
  <2>4. (MoveOK(a) => MoveOK(a)') /\ (LeaseOK(a) => LeaseOK(a)') BY DEF MoveOK, LeaseOK
  <2>5. a.do = "free" /\ ActOK(a) => (slot'[a.slot].id = a.id => slot'[a.slot].frees < Pool!FREE_ATTEMPTS)
    <3>1. FreeOK(a) => a.slot \in Pool!Slots BY ActsAre, PoolSets DEF FreeOK
    <3> QED BY <3>1, <1>12, <1>5, <1>6 DEF ActOK
  <2> QED BY <2>1, <2>2, <2>3, <2>4, <2>5 DEF ActOK
<1>13. TodoOK'
  <2>1. \A b \in Pool!Acts : Planned(b)' => Planned(b) /\ ActOK(b) BY <1>1 DEF TodoOK, Planned
  <2>2. \A b \in Pool!Acts : Planned(b)' => ActOK(b)' BY <2>1, <1>12
  <2> QED BY <2>2, <1>1 DEF TodoOK, NoClash
<1>14. \A q \in Pool!Slots : slot[q].id # 0 => slot'[q] = slot[q] BY <1>2, <1>5
<1> QED BY <1>5, <1>11, <1>12, <1>13, <1>14

LEMMA GetStep ==
  ASSUME SlotInv, Pool!Get
  PROVE  SlotInv'
<1>1. op.at = "get" /\ UNCHANGED <<rec, agents, unseen, todo, late, outside, entry, hist>>
  BY DEF Pool!Get, Pool!Tool
<1>2. PICK a \in Pool!Acts : InHand(a) /\ RunOK(a) /\ a.do = "lease" /\ a.life \in Pool!Lives
  <2> QED BY <1>1, HandIs DEF RunOK
<1>3. PoolTypes /\ Core /\ TodoOK /\ op \in OpRec BY DEF SlotInv, PoolTypes
<1>4. CASE op' = Pool!NoOp /\ UNCHANGED slot
  <2>1. Pool!NoOp \in OpRec BY NoOpIs, PoolSets DEF OpRec, Pool!Kinds, Pool!Stages
  <2>2. PoolTypes' BY <2>1, <1>1, <1>3, <1>4 DEF PoolTypes
  <2>3. Core' BY <1>1, <1>3, <1>4, SameCore
  <2>4. TodoOK'
    <3>1. \A b \in Pool!Acts : Planned(b)' => ActOK(b) BY <1>1, <1>3 DEF TodoOK, Planned
    <3>2. \A b \in Pool!Acts : Planned(b)' => ActOK(b)' BY <3>1, <1>1, <1>3, <1>4, SameActs
    <3> QED BY <3>2, <1>1, <1>3 DEF TodoOK, NoClash
  <2> QED BY <2>2, <2>3, <2>4, <1>4, IdleOK DEF SlotInv
<1>5. ASSUME NEW p \in Pool!Spare, NEW id \in Pool!Fresh, Pool!Leased(p, op.life, id),
             op' = [op EXCEPT !.at = "answer", !.slot = p, !.id = id]
      PROVE  SlotInv'
  <2>1. Pool!Leased(p, a.life, id) BY <1>2, <1>5 DEF InHand
  <2>2. slot' \in [Pool!Slots -> SlotRec] /\ Core' /\ TodoOK' BY <2>1, <1>1, <1>2, LeaseIn
  <2>3. p \in Pool!Slots /\ id \in LeaseIds BY DEF Pool!Spare, Pool!Fresh
  <2>4. op' \in OpRec /\ op'.at = "answer" /\ op'.do = "lease" /\ op'.life \in Pool!Lives
    BY <2>3, <1>2, <1>3, <1>5, PoolSets DEF OpRec, InHand, Pool!Stages
  <2>5. ToolOK' BY <2>4 DEF ToolOK, RunOK, InHand
  <2>6. PoolTypes' BY <2>2, <2>4, <1>1, <1>3 DEF PoolTypes
  <2> QED BY <2>2, <2>5, <2>6 DEF SlotInv
<1> QED BY <1>4, <1>5 DEF Pool!Get

LEMMA LateGetStep ==
  ASSUME SlotInv, NEW l \in Pool!Lives, Pool!LateGet(l)
  PROVE  SlotInv'
<1>1. UNCHANGED <<rec, entry, agents, unseen, todo, op, outside, hist>> /\ late' = late \ {l} BY DEF Pool!LateGet
<1>2. PoolTypes /\ Core /\ TodoOK /\ ToolOK BY DEF SlotInv
<1>3. CASE UNCHANGED slot
  <2>1. PoolTypes' BY <1>1, <1>2, <1>3 DEF PoolTypes
  <2>2. Core' /\ TodoOK' /\ ToolOK' BY <1>1, <1>2, <1>3, SameTool
  <2> QED BY <2>1, <2>2 DEF SlotInv
<1>4. ASSUME NEW p \in Pool!Spare, NEW id \in Pool!Fresh, Pool!Leased(p, l, id) PROVE SlotInv'
  <2>1. /\ slot' \in [Pool!Slots -> SlotRec] /\ Core' /\ TodoOK'
        /\ \A a \in Pool!Acts : InHand(a) => (PrepareOK(a) => PrepareOK(a)') /\ (FreeOK(a) => FreeOK(a)')
        /\ \A a \in Pool!Acts : InHand(a) /\ a.life \in Pool!Lives /\ SpawnOK(a) => SpawnOK(a)'
        /\ \A q \in Pool!Slots : slot'[q].work = slot[q].work /\ (slot[q].id # 0 => slot'[q] = slot[q])
    BY <1>1, <1>4, LeaseIn
  <2>2. ASSUME NEW a \in Pool!Acts, InHand(a)' PROVE RunOK(a)'
    <3>1. InHand(a) /\ RunOK(a) BY <2>2, <1>1, <1>2 DEF InHand, ToolOK
    <3>2. (a.do = "prepare" => PrepareOK(a)') /\ (a.do = "free" => FreeOK(a)') /\ (a.do = "spawn" => SpawnOK(a)')
      <4>1. op.at = "idle" => a.do = "none" BY <3>1, <1>2, NoOpIs DEF ToolOK, InHand
      <4>2. a.do = "spawn" => a.life \in Pool!Lives BY <3>1, <4>1 DEF RunOK
      <4> QED BY <3>1, <4>2, <2>1 DEF RunOK
    <3>3. a.do \in {"prepare", "free"} => a.slot \in Pool!Slots /\ a.id # 0
      BY <3>1, ActsAre, PoolSets DEF RunOK, PrepareOK, FreeOK
    <3>4. a.do = "prepare" /\ op.at # "check" => a.life \in hist.taken \/ slot'[a.slot].id = a.id
      BY <3>1, <3>3, <2>1 DEF RunOK
    <3>5. op.at = "reset" => slot'[a.slot].work \in {"clean", "saved", "stray"} \cup (IF a.do = "prepare" THEN {"old"} ELSE {})
      BY <3>1, <3>3, <2>1 DEF RunOK
    <3>6. \A b : Planned(b)' => Planned(b) BY <1>1 DEF Planned
    <3> QED BY <3>1, <3>2, <3>4, <3>5, <3>6, <1>1 DEF RunOK
  <2>3. ToolOK' BY <2>2, <1>1, <1>2 DEF ToolOK
  <2>4. PoolTypes' BY <2>1, <1>1, <1>2 DEF PoolTypes
  <2> QED BY <2>1, <2>3, <2>4 DEF SlotInv
<1> QED BY <1>3, <1>4 DEF Pool!LateGet

\* the spawn that is awaited names a life and a slot
LEMMA AwaitsIs ==
  ASSUME SlotInv
  PROVE  Pool!Awaits \subseteq UnseenRec
<1>1. op.at = "spawn" => op.life \in Pool!Lives /\ op.slot \in Pool!Slots
  <2>1. op.at = "spawn" => \E a \in Pool!Acts : InHand(a) /\ a.life \in Pool!Lives /\ a.slot \in Pool!Slots
    BY HandIs DEF RunOK
  <2> QED BY <2>1 DEF InHand
<1>2. CASE op.at = "spawn"
  <2>1. [life |-> op.life, slot |-> op.slot, works |-> FALSE] \in UnseenRec BY <1>1, <1>2 DEF UnseenRec
  <2> QED BY <2>1, <1>2 DEF Pool!Awaits
<1>3. CASE op.at # "spawn" BY <1>3 DEF Pool!Awaits
<1> QED BY <1>2, <1>3

LEMMA ToolFailsStep ==
  ASSUME SlotInv, Pool!ToolFails
  PROVE  SlotInv'
<1>1. /\ op' = Pool!NoOp /\ UNCHANGED <<slot, rec, entry, agents, todo, late, hist>> /\ outside < MaxOutside /\ outside' = outside + 1
      /\ unseen' = unseen \cup Pool!Awaits
  BY DEF Pool!ToolFails, Pool!Happens
<1>2. PoolTypes /\ Core /\ TodoOK BY DEF SlotInv
<1>3. Pool!NoOp \in OpRec BY NoOpIs, PoolSets DEF OpRec, Pool!Kinds, Pool!Stages
<1>4. PoolTypes' BY <1>1, <1>2, <1>3, AwaitsIs, PoolSets DEF PoolTypes
<1>5. Core' BY <1>1, <1>2, SameCore
<1>6. TodoOK'
  <2>1. \A b \in Pool!Acts : Planned(b)' => ActOK(b) BY <1>1, <1>2 DEF TodoOK, Planned
  <2>2. \A b \in Pool!Acts : Planned(b)' => ActOK(b)' BY <2>1, <1>1, <1>2, SameActs
  <2> QED BY <2>2, <1>1, <1>2 DEF TodoOK, NoClash
<1> QED BY <1>1, <1>4, <1>5, <1>6, IdleOK DEF SlotInv

LEMMA ReloadStep ==
  ASSUME SlotInv, Pool!Reload
  PROVE  SlotInv'
<1>1. /\ op' = Pool!NoOp /\ todo' = <<>> /\ UNCHANGED <<slot, rec, entry, agents, hist>>
      /\ outside < MaxOutside /\ outside' = outside + 1 /\ late' = late \cup (IF op.at = "get" THEN {op.life} ELSE {})
      /\ unseen' = unseen \cup Pool!Awaits
  BY DEF Pool!Reload, Pool!Happens
<1>2. PoolTypes /\ Core BY DEF SlotInv
<1>3. Pool!NoOp \in OpRec BY NoOpIs, PoolSets DEF OpRec, Pool!Kinds, Pool!Stages
<1>4. op.at = "get" => op.life \in Pool!Lives
  <2>1. op.at = "get" => \E a \in Pool!Acts : InHand(a) /\ a.life \in Pool!Lives BY HandIs
  <2> QED BY <2>1 DEF InHand
<1>5. PoolTypes'
  <2>1. late' \subseteq Pool!Lives BY <1>1, <1>2, <1>4 DEF PoolTypes
  <2>2. outside' \in 0..MaxOutside BY <1>1, <1>2, PoolSets DEF PoolTypes
  <2>3. todo' \in Seq(Pool!Acts) BY <1>1
  <2>4. unseen' \subseteq UnseenRec BY <1>1, <1>2, AwaitsIs DEF PoolTypes
  <2> QED BY <2>1, <2>2, <2>3, <2>4, <1>1, <1>2, <1>3 DEF PoolTypes
<1>6. Core' BY <1>1, <1>2, SameCore
<1> QED BY <1>1, <1>5, <1>6, EmptyOK, IdleOK DEF SlotInv

\* Nobody writes unseen in a tree that was just saved.
LEMMA WriteStep ==
  ASSUME SlotInv, NEW a \in agents, Pool!Write(a)
  PROVE  SlotInv'
<1>1. UNCHANGED <<rec, entry, agents, unseen, todo, op, late, outside, hist>> /\ ~a.loose BY DEF Pool!Write
<1>2. PoolTypes /\ Core /\ TodoOK /\ ToolOK /\ slot \in [Pool!Slots -> SlotRec] /\ a \in AgentRec BY DEF SlotInv, PoolTypes
<1>3. a.slot \in Pool!Slots /\ a.unstopped \in BOOLEAN BY <1>2 DEF AgentRec
<1>4. PICK w \in {"old", "new"} : /\ slot' = [slot EXCEPT ![a.slot].work = w]
                                  /\ w = IF a.unstopped /\ slot[a.slot].work # "new" THEN "old" ELSE "new"
  BY <1>3 DEF Pool!Write
<1>5. /\ slot' \in [Pool!Slots -> SlotRec] /\ slot'[a.slot].work = w
      /\ \A p \in Pool!Slots : slot'[p].id = slot[p].id /\ slot'[p].holder = slot[p].holder /\ slot'[p].frees = slot[p].frees
      /\ \A p \in Pool!Slots : p # a.slot => slot'[p].work = slot[p].work
  BY <1>2, <1>3, <1>4 DEF SlotRec
<1>6. ASSUME op.at = "reset", op.slot = a.slot PROVE op.do = "prepare" /\ w = "old"
  <2>1. PICK x \in Pool!Acts : InHand(x) /\ RunOK(x) BY <1>6, HandIs
  <2>2. op.do = x.do /\ x.slot = a.slot BY <2>1, <1>6 DEF InHand
  <2>3. x.do = "prepare" /\ a.unstopped BY <2>1, <2>2, <1>1, <1>6 DEF RunOK
  <2>4. slot[a.slot].work # "new" BY <2>1, <2>2, <2>3, <1>6 DEF RunOK
  <2> QED BY <2>2, <2>3, <2>4, <1>4
<1>7. Core' /\ TodoOK' /\ ToolOK'
  BY <1>1, <1>5, <1>6, SameTool
<1>8. PoolTypes' BY <1>1, <1>2, <1>5 DEF PoolTypes
<1> QED BY <1>7, <1>8 DEF SlotInv

\* What an agent does that no entry names: nothing the plan or the entries know of.
LEMMA UnseenStep ==
  ASSUME SlotInv, NEW u \in unseen, Pool!LateSpawn(u) \/ Pool!EndsUnseen(u)
  PROVE  SlotInv'
<1>1. UNCHANGED <<slot, rec, entry, agents, todo, op, late, outside, hist>> BY DEF Pool!LateSpawn, Pool!EndsUnseen
<1>2. PoolTypes /\ unseen \subseteq UnseenRec BY DEF SlotInv, PoolTypes
<1>3. unseen' \subseteq UnseenRec
  <2>1. \A x \in UnseenRec : [x EXCEPT !.works = TRUE] \in UnseenRec BY DEF UnseenRec
  <2> QED BY <2>1, <1>2 DEF Pool!LateSpawn, Pool!EndsUnseen
<1>4. Core' /\ TodoOK' /\ ToolOK' BY <1>1, SameTool
<1>5. PoolTypes' BY <1>1, <1>2, <1>3 DEF PoolTypes
<1> QED BY <1>4, <1>5 DEF SlotInv

LEMMA WriteUnseenStep ==
  ASSUME SlotInv, NEW u \in unseen, Pool!WriteUnseen(u)
  PROVE  SlotInv'
<1>1. UNCHANGED <<rec, entry, agents, unseen, todo, op, late, outside, hist>> BY DEF Pool!WriteUnseen
<1>2. PoolTypes /\ slot \in [Pool!Slots -> SlotRec] /\ u.slot \in Pool!Slots BY DEF SlotInv, PoolTypes, UnseenRec
<1>3. PICK w \in {"old", "new", "stray"} : /\ slot' = [slot EXCEPT ![u.slot].work = w]
                                           /\ w = "stray" \/ w = slot[u.slot].work
  BY <1>2 DEF Pool!WriteUnseen
<1>4. /\ slot' \in [Pool!Slots -> SlotRec] /\ slot'[u.slot].work = w
      /\ \A p \in Pool!Slots : slot'[p].id = slot[p].id /\ slot'[p].holder = slot[p].holder /\ slot'[p].frees = slot[p].frees
      /\ \A p \in Pool!Slots : p # u.slot => slot'[p].work = slot[p].work
  BY <1>2, <1>3 DEF SlotRec
<1>5. Core' /\ TodoOK' /\ ToolOK' BY <1>1, <1>3, <1>4, SameTool
<1>6. PoolTypes' BY <1>1, <1>2, <1>4 DEF PoolTypes
<1> QED BY <1>5, <1>6 DEF SlotInv

LEMMA AskedStep ==
  ASSUME SlotInv, NEW l \in Pool!Lives, NEW what \in {"drop", "resume", "timeout"}, Pool!Asked(l, what)
  PROVE  SlotInv'
<1>1. /\ UNCHANGED <<slot, entry, agents, unseen, todo, op, late, hist>> /\ outside < MaxOutside /\ outside' = outside + 1
      /\ rec' = [rec EXCEPT ![l].asked = what]
  BY DEF Pool!Asked, Pool!Happens
<1>2. PoolTypes /\ Core /\ TodoOK /\ ToolOK /\ rec \in [Pool!Lives -> LifeRec] BY DEF SlotInv, PoolTypes
<1>3. rec' \in [Pool!Lives -> LifeRec] /\ \A m \in Pool!Lives : rec'[m].st = rec[m].st
  BY <1>1, <1>2 DEF LifeRec
<1>4. Core' /\ TodoOK' /\ ToolOK' BY <1>1, <1>3, SameTool
<1>5. PoolTypes' BY <1>1, <1>2, <1>3, PoolSets DEF PoolTypes
<1> QED BY <1>4, <1>5 DEF SlotInv

\* A person takes a free slot, or gives it back.
LEMMA HandStep ==
  ASSUME SlotInv, NEW p \in Pool!Slots, slot[p].holder \notin Pool!Lives, NEW h \in {Pool!Nobody, Pool!Person},
         slot' = [slot EXCEPT ![p].holder = h], UNCHANGED <<rec, entry, agents, unseen, todo, op, late, hist>>, outside' \in 0..MaxOutside
  PROVE  SlotInv'
<1>1. PoolTypes /\ Core /\ TodoOK /\ ToolOK /\ slot \in [Pool!Slots -> SlotRec] BY DEF SlotInv, PoolTypes
<1>2. slot[p].id = 0 /\ h \notin Pool!Lives /\ h \in 0..Pool!Person BY <1>1, PoolSets DEF Core, LeasesOK
<1>3. /\ slot' \in [Pool!Slots -> SlotRec] /\ slot'[p].holder = h
      /\ \A q \in Pool!Slots : slot'[q].id = slot[q].id /\ slot'[q].frees = slot[q].frees /\ slot'[q].work = slot[q].work
      /\ \A q \in Pool!Slots : q # p => slot'[q].holder = slot[q].holder
  BY <1>1, <1>2 DEF SlotRec
<1>4. \A q \in Pool!Slots : slot[q].id # 0 => slot'[q].holder = slot[q].holder BY <1>2, <1>3
<1>5. LeasesOK' BY <1>1, <1>2, <1>3, PoolSets DEF Core, LeasesOK
<1>6. EntriesOK' BY <1>1 DEF Core, EntriesOK
<1>7. PreparedOK' BY <1>1, <1>3, <1>4, PoolSets DEF Core, PreparedOK
<1>8. Alone'
  <2>1. ASSUME NEW b \in agents, ~b.loose PROVE slot'[b.slot].holder = b.life /\ slot'[b.slot].id = b.id
    <3>1. b.slot \in Pool!Slots /\ slot[b.slot].holder = b.life /\ slot[b.slot].id = b.id /\ b.id # 0
      BY <2>1, <1>1, PoolSets DEF Core, Alone, PoolTypes, AgentRec
    <3> QED BY <3>1, <1>3, <1>4
  <2> QED BY <2>1, <1>1 DEF Core, Alone
<1>9. Core' BY <1>1, <1>5, <1>6, <1>7, <1>8 DEF Core, WorkSaved, SlotKept
<1>10. ASSUME NEW a \in Pool!Acts
       PROVE  /\ (PrepareOK(a) => PrepareOK(a)') /\ (FreeOK(a) => FreeOK(a)') /\ (SpawnOK(a) => SpawnOK(a)')
              /\ ActOK(a) => ActOK(a)'
  <2>1. PrepareOK(a) => PrepareOK(a)' BY <1>3, <1>4, PoolSets DEF PrepareOK, AtRest
  <2>2. FreeOK(a) => FreeOK(a)' BY DEF FreeOK
  <2>3. SpawnOK(a) => SpawnOK(a)' BY <1>3, ActsAre, PoolSets DEF SpawnOK, AtRest
  <2>4. (MoveOK(a) => MoveOK(a)') /\ (LeaseOK(a) => LeaseOK(a)') BY DEF MoveOK, LeaseOK
  <2>5. FreeOK(a) => a.slot \in Pool!Slots BY ActsAre, PoolSets DEF FreeOK
  <2> QED BY <2>1, <2>2, <2>3, <2>4, <2>5, <1>3 DEF ActOK
<1>11. TodoOK'
  <2>1. \A b \in Pool!Acts : Planned(b)' => Planned(b) /\ ActOK(b) BY <1>1 DEF TodoOK, Planned
  <2>2. \A b \in Pool!Acts : Planned(b)' => ActOK(b)' BY <2>1, <1>10
  <2> QED BY <2>2, <1>1 DEF TodoOK, NoClash
<1>12. ASSUME NEW a \in Pool!Acts, InHand(a)' PROVE RunOK(a)'
  <2>1. InHand(a) /\ RunOK(a) BY <1>12, <1>1 DEF InHand, ToolOK
  <2>2. a.do \in {"prepare", "free"} => a.slot \in Pool!Slots
    BY <2>1, ActsAre, PoolSets DEF RunOK, PrepareOK, FreeOK
  <2>3. (a.do = "prepare" => PrepareOK(a)') /\ (a.do = "free" => FreeOK(a)') /\ (a.do = "spawn" => SpawnOK(a)')
    BY <2>1, <1>10 DEF RunOK
  <2>4. a.do = "prepare" /\ op.at # "check" => a.life \in hist.taken \/ slot'[a.slot].id = a.id
    BY <2>1, <2>2, <1>3 DEF RunOK
  <2>5. op.at = "reset" => slot'[a.slot].work \in {"clean", "saved", "stray"} \cup (IF a.do = "prepare" THEN {"old"} ELSE {})
    BY <2>1, <2>2, <1>3 DEF RunOK
  <2>6. \A b : Planned(b)' => Planned(b) BY DEF Planned
  <2> QED BY <2>1, <2>3, <2>4, <2>5, <2>6 DEF RunOK
<1>13. ToolOK' BY <1>12, <1>1 DEF ToolOK
<1>14. PoolTypes' BY <1>1, <1>3 DEF PoolTypes
<1> QED BY <1>9, <1>11, <1>13, <1>14 DEF SlotInv

LEMMA TakeGive ==
  ASSUME SlotInv, NEW p \in Pool!Slots, Pool!HandTake(p) \/ Pool!HandGive(p)
  PROVE  SlotInv'
<1>1. CASE Pool!HandTake(p)
  <2>1. slot' = [slot EXCEPT ![p].holder = Pool!Person] /\ UNCHANGED <<rec, entry, agents, unseen, todo, op, late, hist>>
        /\ outside' = outside + 1 /\ outside < MaxOutside /\ slot[p].holder \notin Pool!Lives
    BY <1>1, PoolSets DEF Pool!HandTake, Pool!Happens, Pool!Spare
  <2>2. outside' \in 0..MaxOutside BY <2>1, PoolSets DEF SlotInv, PoolTypes
  <2> QED BY <2>1, <2>2, HandStep
<1>2. CASE Pool!HandGive(p)
  <2>1. slot' = [slot EXCEPT ![p].holder = Pool!Nobody] /\ UNCHANGED <<rec, entry, agents, unseen, todo, op, late, outside, hist>>
        /\ slot[p].holder \notin Pool!Lives
    BY <1>2, PoolSets DEF Pool!HandGive
  <2>2. outside' \in 0..MaxOutside BY <2>1 DEF SlotInv, PoolTypes
  <2> QED BY <2>1, <2>2, HandStep
<1> QED BY <1>1, <1>2

\* An agent's end ends its step.
LEMMA EndsStep ==
  ASSUME SlotInv, NEW a \in agents, Pool!Ends(a)
  PROVE  SlotInv'
<1>1. /\ UNCHANGED <<slot, rec, todo, op, unseen, late, outside, hist>> /\ agents' = agents \ {a}
      /\ entry' = IF a.cur THEN [entry EXCEPT ![a.life].step = "ended"] ELSE entry
  BY DEF Pool!Ends
<1>2. PoolTypes /\ Core /\ TodoOK /\ ToolOK /\ entry \in [Pool!Lives -> EntryRec] /\ a \in AgentRec BY DEF SlotInv, PoolTypes
<1>3. a.life \in Pool!Lives BY <1>2 DEF AgentRec
<1>4. /\ entry' \in [Pool!Lives -> EntryRec]
      /\ \A l \in Pool!Lives : /\ entry'[l].prep = entry[l].prep /\ entry'[l].named = entry[l].named /\ entry'[l].stop = entry[l].stop
                               /\ entry'[l].lease = entry[l].lease /\ entry'[l].tries = entry[l].tries
                               /\ entry'[l].step = IF a.cur /\ l = a.life THEN "ended" ELSE entry[l].step
  BY <1>1, <1>2, <1>3 DEF EntryRec
<1>5. a.cur => entry[a.life].step = "running" BY <1>2, <1>3 DEF Core, EntriesOK
<1>6. EntriesOK'
  <2>1. ASSUME NEW l \in Pool!Lives PROVE entry'[l].step = "running" <=> \E b \in agents' : b.life = l /\ b.cur
    <3>1. entry[l].step = "running" <=> \E b \in agents : b.life = l /\ b.cur BY <1>2 DEF Core, EntriesOK
    <3>2. CASE a.cur /\ l = a.life
      <4>1. \A b \in agents : b.life = l /\ b.cur => b = a BY <3>2, <1>2 DEF Core, EntriesOK
      <4> QED BY <4>1, <3>2, <1>1, <1>4
    <3>3. CASE ~(a.cur /\ l = a.life) BY <3>1, <3>3, <1>1, <1>4
    <3> QED BY <3>2, <3>3
  <2>2. \A l \in Pool!Lives : entry'[l].step # "none" => entry'[l].prep = "done"
    BY <1>2, <1>4, <1>5 DEF Core, EntriesOK
  <2>3. \A l \in Pool!Lives : \A b, c \in agents' : b.life = l /\ c.life = l /\ b.cur /\ c.cur => b = c
    BY <1>1, <1>2 DEF Core, EntriesOK
  <2>4. \A l \in Pool!Lives : /\ entry'[l].prep # "none" => rec[l].st = "slot"
                              /\ entry'[l].lease = "none" => entry'[l].tries = 0
                              /\ entry'[l].stop # "no" => \A b \in agents' : b.life = l /\ ~b.cur => b.unstopped
    BY <1>1, <1>2, <1>4 DEF Core, EntriesOK
  <2> QED BY <2>1, <2>2, <2>3, <2>4, <1>1 DEF EntriesOK
<1>7. PreparedOK' /\ LeasesOK' /\ WorkSaved' /\ SlotKept'
  BY <1>1, <1>2, <1>4 DEF Core, PreparedOK, LeasesOK, WorkSaved, SlotKept
<1>8. Alone' BY <1>1, <1>2 DEF Core, Alone
<1>9. ASSUME NEW x \in Pool!Acts
      PROVE  /\ x.life \in Pool!Lives /\ PrepareOK(x) => PrepareOK(x)'
             /\ FreeOK(x) => FreeOK(x)'
             /\ x.life \in Pool!Lives /\ SpawnOK(x) => SpawnOK(x)'
             /\ ActOK(x) => ActOK(x)'
  <2>1. x.life \in Pool!Lives /\ PrepareOK(x) => PrepareOK(x)' BY <1>1, <1>4, <1>5 DEF PrepareOK, AtRest
  <2>2. FreeOK(x) => FreeOK(x)' BY <1>1, <1>4 DEF FreeOK
  <2>3. x.life \in Pool!Lives /\ SpawnOK(x) => SpawnOK(x)' BY <1>1, <1>4, <1>5 DEF SpawnOK, AtRest
  <2>4. (MoveOK(x) => MoveOK(x)') /\ (x.life \in Pool!Lives /\ LeaseOK(x) => LeaseOK(x)')
    BY <1>1, <1>4 DEF MoveOK, LeaseOK
  <2> QED BY <2>1, <2>2, <2>3, <2>4, <1>1 DEF ActOK
<1>10. TodoOK'
  <2>1. \A b \in Pool!Acts : Planned(b)' => Planned(b) /\ ActOK(b) BY <1>1, <1>2 DEF TodoOK, Planned
  <2>2. \A b \in Pool!Acts : Planned(b)' => ActOK(b)' BY <2>1, <1>9
  <2> QED BY <2>2, <1>1, <1>2 DEF TodoOK, NoClash
<1>11. ASSUME NEW x \in Pool!Acts, InHand(x)' PROVE RunOK(x)'
  <2>1. InHand(x) /\ RunOK(x) BY <1>11, <1>1, <1>2 DEF InHand, ToolOK
  <2>2. x.do \in {"prepare", "spawn"} => x.life \in Pool!Lives BY <2>1, <1>2, NoOpIs DEF RunOK, ToolOK, InHand
  <2>3. (x.do = "prepare" => PrepareOK(x)') /\ (x.do = "free" => FreeOK(x)') /\ (x.do = "spawn" => SpawnOK(x)')
    BY <2>1, <2>2, <1>9 DEF RunOK
  <2>4. \A b : Planned(b)' => Planned(b) BY <1>1 DEF Planned
  <2> QED BY <2>1, <2>3, <2>4, <1>1 DEF RunOK
<1>12. ToolOK' BY <1>11, <1>1, <1>2 DEF ToolOK
<1>13. PoolTypes' BY <1>1, <1>2, <1>4 DEF PoolTypes
<1>14. Core' BY <1>6, <1>7, <1>8 DEF Core
<1> QED BY <1>10, <1>12, <1>13, <1>14 DEF SlotInv

\* A person returns a slot: its agents are left out, and a life that was prepared there is noted.
Loosened(b, p) == [b EXCEPT !.loose = b.loose \/ b.slot = p]
LEMMA HandReturnStep ==
  ASSUME SlotInv, NEW p \in Pool!Slots, Pool!HandReturn(p)
  PROVE  SlotInv'
<1> DEFINE l == slot[p].holder
           prepared == (entry[l].prep = "done" /\ entry[l].named = slot[p].id) \/ (op.do = "prepare" /\ op.slot = p)
           free == [Pool!Returned(p) EXCEPT !.work = "clean"]
<1>1. /\ UNCHANGED <<rec, entry, todo, op, unseen, late>> /\ outside < MaxOutside /\ outside' = outside + 1
      /\ l \in Pool!Lives /\ slot' = [slot EXCEPT ![p] = free]
      /\ agents' = {Loosened(b, p) : b \in agents}
      /\ hist' = IF prepared THEN [hist EXCEPT !.taken = hist.taken \cup {l}] ELSE hist
  BY DEF Pool!HandReturn, Pool!Happens, Loosened
<1>2. PoolTypes /\ Core /\ TodoOK /\ ToolOK /\ slot \in [Pool!Slots -> SlotRec] BY DEF SlotInv, PoolTypes
<1>3. free \in SlotRec /\ free.id = 0 /\ free.holder = 0 /\ free.frees = 0 /\ free.work = "clean"
  <2>1. PICK x \in SlotRec : x = slot[p] BY <1>2
  <2>2. free = [x EXCEPT !.id = 0, !.holder = 0, !.frees = 0, !.work = "clean"]
    BY <2>1, PoolSets DEF Pool!Returned, SlotRec
  <2>3. 0 \in 0..Pool!Person /\ 0 \in 0..Pool!FREE_ATTEMPTS BY PoolSets
  <2> QED BY <2>2, <2>3, PoolSets DEF SlotRec
<1> HIDE DEF free
<1>4. slot' \in [Pool!Slots -> SlotRec] /\ slot'[p] = free /\ \A q \in Pool!Slots : q # p => slot'[q] = slot[q]
  BY <1>1, <1>2, <1>3
<1>5. /\ hist' \in [lost : BOOLEAN, taken : SUBSET Pool!Lives, wrong : BOOLEAN] /\ hist'.lost = hist.lost /\ hist'.wrong = hist.wrong
      /\ hist'.taken = IF prepared THEN hist.taken \cup {l} ELSE hist.taken
  <2>1. hist \in [lost : BOOLEAN, taken : SUBSET Pool!Lives, wrong : BOOLEAN] BY <1>2 DEF PoolTypes
  <2> HIDE DEF prepared, l
  <2> QED BY <2>1, <1>1
<1>6. slot[p].id # 0 BY <1>1, <1>2, PoolSets DEF Core, LeasesOK
<1>7. /\ agents' \subseteq AgentRec
      /\ \A b \in agents' : \E c \in agents : /\ b = Loosened(c, p) /\ b.life = c.life /\ b.slot = c.slot /\ b.id = c.id
                                             /\ b.cur = c.cur /\ b.unstopped = c.unstopped /\ (~b.loose => ~c.loose /\ c.slot # p)
      /\ \A c \in agents : Loosened(c, p) \in agents' /\ Loosened(c, p).life = c.life /\ Loosened(c, p).cur = c.cur
  <2>1. agents \subseteq AgentRec BY <1>2 DEF PoolTypes
  <2>2. \A c \in AgentRec : /\ Loosened(c, p) \in AgentRec /\ Loosened(c, p).life = c.life /\ Loosened(c, p).slot = c.slot
                            /\ Loosened(c, p).id = c.id /\ Loosened(c, p).cur = c.cur /\ Loosened(c, p).unstopped = c.unstopped
                            /\ Loosened(c, p).loose = (c.loose \/ c.slot = p)
    BY DEF Loosened, AgentRec
  <2>3. \A b : b \in agents' <=> \E c \in agents : b = Loosened(c, p) BY <1>1
  <2>4. agents' \subseteq AgentRec BY <2>1, <2>2, <2>3
  <2>5. ASSUME NEW b \in agents'
        PROVE  \E c \in agents : /\ b = Loosened(c, p) /\ b.life = c.life /\ b.slot = c.slot /\ b.id = c.id
                                  /\ b.cur = c.cur /\ b.unstopped = c.unstopped /\ (~b.loose => ~c.loose /\ c.slot # p)
    <3>1. PICK c \in agents : b = Loosened(c, p) BY <2>3
    <3>2. c \in AgentRec BY <2>1
    <3> QED BY <3>1, <3>2, <2>2
  <2> QED BY <2>1, <2>2, <2>3, <2>4, <2>5
<1>8. LeasesOK' BY <1>2, <1>3, <1>4, PoolSets DEF Core, LeasesOK
<1>9. EntriesOK'
  <2>1. ASSUME NEW m \in Pool!Lives PROVE entry[m].step = "running" <=> \E b \in agents' : b.life = m /\ b.cur
    <3>1. entry[m].step = "running" <=> \E b \in agents : b.life = m /\ b.cur BY <1>2 DEF Core, EntriesOK
    <3> QED BY <3>1, <1>7
  <2>2. \A m \in Pool!Lives : \A b, c \in agents' : b.life = m /\ c.life = m /\ b.cur /\ c.cur => b = c
    <3>1. \A m \in Pool!Lives : \A b, c \in agents : b.life = m /\ c.life = m /\ b.cur /\ c.cur => b = c
      BY <1>2 DEF Core, EntriesOK
    <3> QED BY <3>1, <1>7
  <2>3. \A m \in Pool!Lives : entry[m].stop # "no" => \A b \in agents' : b.life = m /\ ~b.cur => b.unstopped
    <3>1. \A m \in Pool!Lives : entry[m].stop # "no" => \A b \in agents : b.life = m /\ ~b.cur => b.unstopped
      BY <1>2 DEF Core, EntriesOK
    <3> QED BY <3>1, <1>7
  <2> QED BY <2>1, <2>2, <2>3, <1>1, <1>2 DEF Core, EntriesOK
<1>10. PreparedOK'
  <2>1. ASSUME NEW m \in Pool!Lives, entry[m].prep = "done"
        PROVE  /\ entry[m].named # 0
               /\ \A q \in Pool!Slots : slot'[q].id = entry[m].named => slot'[q].holder = m
               /\ m \notin hist'.taken => \E q \in Pool!Slots : slot'[q].id = entry[m].named
    <3>1. /\ entry[m].named # 0
          /\ \A q \in Pool!Slots : slot[q].id = entry[m].named => slot[q].holder = m
          /\ m \notin hist.taken => \E q \in Pool!Slots : slot[q].id = entry[m].named
      BY <2>1, <1>2, PoolSets DEF Core, PreparedOK
    <3>2. \A q \in Pool!Slots : slot'[q].id = entry[m].named => slot'[q].holder = m BY <3>1, <1>3, <1>4
    <3>3. ASSUME m \notin hist'.taken PROVE \E q \in Pool!Slots : slot'[q].id = entry[m].named
      <4>1. PICK q \in Pool!Slots : slot[q].id = entry[m].named /\ slot[q].holder = m BY <3>1, <3>3, <1>5
      <4>2. q # p BY <4>1, <3>3, <2>1, <1>5
      <4> QED BY <4>1, <4>2, <1>4
    <3> QED BY <3>1, <3>2, <3>3
  <2> QED BY <2>1, <1>1, PoolSets DEF PreparedOK
<1>11. Alone'
  <2> SUFFICES ASSUME NEW b \in agents', ~b.loose
               PROVE  /\ slot'[b.slot].holder = b.life /\ slot'[b.slot].id = b.id
                      /\ \A d \in agents' : d.slot = b.slot /\ ~d.loose => d = b \/ b.unstopped \/ d.unstopped
    BY DEF Alone
  <2>1. PICK c \in agents : b = Loosened(c, p) /\ b.life = c.life /\ b.slot = c.slot /\ b.id = c.id /\ ~c.loose /\ c.slot # p
                            /\ b.unstopped = c.unstopped
    BY <1>7
  <2>2. c.slot \in Pool!Slots /\ slot[c.slot].holder = c.life /\ slot[c.slot].id = c.id
    BY <2>1, <1>2 DEF Core, Alone, PoolTypes, AgentRec
  <2>3. ASSUME NEW d \in agents', d.slot = b.slot, ~d.loose PROVE d = b \/ b.unstopped \/ d.unstopped
    <3>1. PICK e \in agents : d = Loosened(e, p) /\ d.slot = e.slot /\ ~e.loose /\ d.unstopped = e.unstopped BY <2>3, <1>7
    <3>2. e = c \/ e.unstopped \/ c.unstopped BY <3>1, <2>1, <2>3, <1>2 DEF Core, Alone
    <3> QED BY <3>1, <3>2, <2>1
  <2> QED BY <2>1, <2>2, <2>3, <1>4
<1>12. Core' BY <1>2, <1>5, <1>8, <1>9, <1>10, <1>11 DEF Core, WorkSaved, SlotKept
<1>13. ASSUME NEW m \in Pool!Lives, AtRest(m) PROVE AtRest(m)' BY <1>13, <1>7 DEF AtRest
<1>14. ASSUME NEW x \in Pool!Acts
       PROVE  /\ x.life \in Pool!Lives /\ PrepareOK(x) => PrepareOK(x)'
              /\ FreeOK(x) => FreeOK(x)'
              /\ x.life \in Pool!Lives /\ SpawnOK(x) => SpawnOK(x)'
              /\ ActOK(x) => ActOK(x)'
  <2>1. x.life \in Pool!Lives /\ PrepareOK(x) => PrepareOK(x)'
    <3> SUFFICES ASSUME x.life \in Pool!Lives, PrepareOK(x) PROVE PrepareOK(x)' OBVIOUS
    <3>1. AtRest(x.life)' BY <1>13 DEF PrepareOK
    <3>2. \A q \in Pool!Slots : slot'[q].id = x.id => q = x.slot /\ slot'[q].holder = x.life
      BY <1>3, <1>4, PoolSets DEF PrepareOK
    <3> QED BY <3>1, <3>2, <1>1 DEF PrepareOK
  <2>2. FreeOK(x) => FreeOK(x)'
    <3>1. FreeOK(x) => \A b \in agents' : ~b.loose => b.id # x.id BY <1>7 DEF FreeOK
    <3> QED BY <3>1, <1>1 DEF FreeOK
  <2>3. x.life \in Pool!Lives /\ SpawnOK(x) => SpawnOK(x)'
    <3> SUFFICES ASSUME x.life \in Pool!Lives, SpawnOK(x) PROVE SpawnOK(x)' OBVIOUS
    <3>1. AtRest(x.life)' BY <1>13 DEF SpawnOK
    <3>2. ASSUME x.life \notin hist'.taken PROVE slot'[x.slot].id = entry[x.life].named
      <4>1. x.slot \in Pool!Slots /\ slot[x.slot].id = entry[x.life].named /\ entry[x.life].prep = "done"
        BY <3>2, <1>5, ActsAre, PoolSets DEF SpawnOK
      <4>2. slot[x.slot].holder = x.life BY <4>1, <1>2 DEF Core, PreparedOK
      <4>3. x.slot # p BY <4>1, <4>2, <3>2, <1>5
      <4> QED BY <4>1, <4>3, <1>4
    <3> QED BY <3>1, <3>2, <1>1 DEF SpawnOK
  <2>4. (MoveOK(x) => MoveOK(x)') /\ (LeaseOK(x) => LeaseOK(x)')
    BY <1>1, <1>5 DEF MoveOK, LeaseOK
  <2>5. x.do = "free" /\ ActOK(x) => (slot'[x.slot].id = x.id => slot'[x.slot].frees < Pool!FREE_ATTEMPTS)
    <3>1. FreeOK(x) => x.slot \in Pool!Slots BY ActsAre, PoolSets DEF FreeOK
    <3> QED BY <3>1, <1>3, <1>4, PoolSets DEF ActOK, FreeOK
  <2> QED BY <2>1, <2>2, <2>3, <2>4, <2>5, <1>1 DEF ActOK
<1>15. TodoOK'
  <2>1. \A b \in Pool!Acts : Planned(b)' => Planned(b) /\ ActOK(b) BY <1>1, <1>2 DEF TodoOK, Planned
  <2>2. \A b \in Pool!Acts : Planned(b)' => ActOK(b)' BY <2>1, <1>14
  <2> QED BY <2>2, <1>1, <1>2 DEF TodoOK, NoClash
<1>16. ASSUME NEW x \in Pool!Acts, InHand(x)' PROVE RunOK(x)'
  <2>1. InHand(x) /\ RunOK(x) BY <1>16, <1>1, <1>2 DEF InHand, ToolOK
  <2>2. x.do \in {"prepare", "spawn"} => x.life \in Pool!Lives BY <2>1, <1>2, NoOpIs DEF RunOK, ToolOK, InHand
  <2>3. (x.do = "prepare" => PrepareOK(x)') /\ (x.do = "free" => FreeOK(x)') /\ (x.do = "spawn" => SpawnOK(x)')
    BY <2>1, <2>2, <1>14 DEF RunOK
  <2>4. \A b : Planned(b)' => Planned(b) BY <1>1 DEF Planned
  <2>5. x.do \in {"prepare", "free"} => x.slot \in Pool!Slots /\ x.id # 0
    BY <2>1, ActsAre, PoolSets DEF RunOK, PrepareOK, FreeOK
  <2>6. x.do = "prepare" /\ op.at # "check" => x.life \in hist'.taken \/ slot'[x.slot].id = x.id
    <3> SUFFICES ASSUME x.do = "prepare", op.at # "check", x.life \notin hist'.taken PROVE slot'[x.slot].id = x.id OBVIOUS
    <3>1. slot[x.slot].id = x.id BY <2>1, <1>5 DEF RunOK
    <3>2. slot[x.slot].holder = x.life BY <3>1, <2>1, <2>5 DEF RunOK, PrepareOK
    <3>3. x.slot # p BY <3>2, <2>1, <1>5 DEF InHand
    <3> QED BY <3>1, <3>3, <2>5, <1>4
  <2>7. op.at \in {"save", "reset"} =>
          \A b \in agents' : b.slot = x.slot /\ ~b.loose => x.do = "prepare" /\ b.unstopped
    BY <2>1, <1>7 DEF RunOK
  <2>8. op.at = "reset" => slot'[x.slot].work \in {"clean", "saved", "stray"} \cup (IF x.do = "prepare" THEN {"old"} ELSE {})
    BY <2>1, <2>5, <1>3, <1>4 DEF RunOK
  <2> QED BY <2>1, <2>3, <2>4, <2>6, <2>7, <2>8, <1>1 DEF RunOK
<1>17. ToolOK' BY <1>16, <1>1, <1>2 DEF ToolOK
<1>18. PoolTypes'
  <2>1. outside' \in 0..MaxOutside BY <1>1, <1>2, PoolSets DEF PoolTypes
  <2> QED BY <2>1, <1>1, <1>2, <1>4, <1>5, <1>7 DEF PoolTypes
<1> QED BY <1>12, <1>15, <1>17, <1>18 DEF SlotInv

\* The plan's next action, and what is left.
LEMMA NextAct ==
  ASSUME SlotInv, NEW what, Pool!Doing(what)
  PROVE  /\ op = Pool!NoOp /\ todo' \in Seq(Pool!Acts) /\ NoClash(todo)'
         /\ \E a \in Pool!Acts : /\ a = Head(todo) /\ a.do \in what /\ ActOK(a) /\ a.life \in Pool!Lives
                                 /\ \A b \in Pool!Acts : Planned(b)' => Planned(b) /\ ActOK(b) /\ ~Clash(a, b) /\ ~Clash(b, a)
<1>1. todo # <<>> /\ op = Pool!NoOp /\ Head(todo).do \in what /\ todo' = Tail(todo) BY DEF Pool!Doing
<1>2. PoolTypes /\ TodoOK BY DEF SlotInv
<1>3. /\ todo' \in Seq(Pool!Acts) /\ NoClash(todo)' /\ Planned(Head(todo)) /\ Head(todo) \in Pool!Acts
      /\ \A a : Planned(a)' => Planned(a) /\ ~Clash(Head(todo), a) /\ ~Clash(a, Head(todo))
  BY <1>1, <1>2, TailFacts DEF TodoOK
<1>4. PICK a \in Pool!Acts : a = Head(todo) BY <1>3
<1>5. ActOK(a) BY <1>2, <1>3, <1>4 DEF TodoOK
<1>6. \A b \in Pool!Acts : Planned(b)' => Planned(b) /\ ActOK(b) /\ ~Clash(a, b) /\ ~Clash(b, a)
  BY <1>2, <1>3, <1>4 DEF TodoOK
<1>7. a.life \in Pool!Lives BY <1>5 DEF ActOK
<1> QED BY <1>1, <1>3, <1>4, <1>5, <1>6, <1>7

LEMMA RecordStep ==
  ASSUME SlotInv, Pool!Exec_Claim
  PROVE  SlotInv'
<1>1. Pool!Doing({"claim"}) /\ UNCHANGED <<slot, entry, agents, op, unseen, late, outside, hist>> BY DEF Pool!Exec_Claim
<1>2. PICK a \in Pool!Acts : /\ a = Head(todo) /\ a.do = "claim" /\ ActOK(a) /\ a.life \in Pool!Lives
                             /\ \A b \in Pool!Acts : Planned(b)' => Planned(b) /\ ActOK(b) /\ ~Clash(a, b) /\ ~Clash(b, a)
  BY <1>1, NextAct
<1>3. op = Pool!NoOp /\ todo' \in Seq(Pool!Acts) /\ NoClash(todo)' BY <1>1, NextAct
<1>4. PoolTypes /\ Core /\ rec \in [Pool!Lives -> LifeRec] BY DEF SlotInv, PoolTypes
<1>5. rec' = [rec EXCEPT ![a.life].st = "queued"] BY <1>2 DEF Pool!Exec_Claim
<1>6. rec' \in [Pool!Lives -> LifeRec] /\ \A l \in Pool!Lives : l # a.life => rec'[l] = rec[l]
  BY <1>2, <1>4, <1>5 DEF LifeRec
<1>7. rec[a.life].st = "none" BY <1>2 DEF ActOK
<1>8. EntriesOK'
  <2>1. entry[a.life].prep = "none" BY <1>2, <1>4, <1>7 DEF Core, EntriesOK, PoolTypes, EntryRec
  <2>2. \A l \in Pool!Lives : entry[l].prep # "none" => rec'[l].st = "slot"
    BY <2>1, <1>4, <1>6 DEF Core, EntriesOK
  <2> QED BY <2>2, <1>1, <1>4 DEF Core, EntriesOK
<1>9. Core' BY <1>1, <1>4, <1>8 DEF Core, LeasesOK, PreparedOK, Alone, WorkSaved, SlotKept
<1>10. ASSUME NEW b \in Pool!Acts, Planned(b)' PROVE ActOK(b)'
  <2>1. ActOK(b) /\ ~Clash(a, b) BY <1>2, <1>10
  <2>2. b.do \in Sole => b.life # a.life BY <2>1, <1>2 DEF Clash, Sole
  <2>3. b.life \in Pool!Lives BY <2>1 DEF ActOK
  <2>4. (b.do \in Pool!Moves => MoveOK(b)') /\ (b.do = "claim" => rec'[b.life].st = "none") /\ (b.do = "prepare" => PrepareOK(b)')
    BY <2>1, <2>2, <2>3, <1>1, <1>6 DEF ActOK, MoveOK, PrepareOK, AtRest, Sole
  <2>5. (b.do = "spawn" => SpawnOK(b)') /\ (b.do = "free" => FreeOK(b)') /\ (b.do = "lease" => LeaseOK(b)')
    BY <2>1, <1>1 DEF ActOK, SpawnOK, FreeOK, LeaseOK, AtRest
  <2> QED BY <2>1, <2>4, <2>5, <1>1 DEF ActOK
<1>11. TodoOK' BY <1>10, <1>3 DEF TodoOK
<1>12. PoolTypes' BY <1>1, <1>3, <1>4, <1>6 DEF PoolTypes
<1> QED BY <1>1, <1>3, <1>9, <1>11, <1>12, IdleOK DEF SlotInv

\* A stop that failed is noted on its agents.
LEMMA StopStep ==
  ASSUME SlotInv, NEW did \in BOOLEAN, Pool!Exec_Stop(did), outside' \in 0..MaxOutside
  PROVE  SlotInv'
<1>1. Pool!Doing({"stop"}) /\ UNCHANGED <<slot, rec, op, unseen, late, hist>> BY DEF Pool!Exec_Stop
<1>2. PICK a \in Pool!Acts : /\ a = Head(todo) /\ a.do = "stop" /\ ActOK(a) /\ a.life \in Pool!Lives
                             /\ \A b \in Pool!Acts : Planned(b)' => Planned(b) /\ ActOK(b) /\ ~Clash(a, b) /\ ~Clash(b, a)
  BY <1>1, NextAct
<1>3. op = Pool!NoOp /\ todo' \in Seq(Pool!Acts) /\ NoClash(todo)' BY <1>1, NextAct
<1>4. PoolTypes /\ Core /\ entry \in [Pool!Lives -> EntryRec] /\ agents \subseteq AgentRec BY DEF SlotInv, PoolTypes
<1>5. /\ entry' = [entry EXCEPT ![a.life].stop = IF did THEN "done" ELSE "failed"]
      /\ agents' = IF did THEN agents \ Pool!OldAgents(a.life)
                   ELSE {IF b \in Pool!OldAgents(a.life) THEN [b EXCEPT !.unstopped = TRUE] ELSE b : b \in agents}
  BY <1>2 DEF Pool!Exec_Stop
<1>6. /\ entry' \in [Pool!Lives -> EntryRec]
      /\ \A l \in Pool!Lives : /\ entry'[l].prep = entry[l].prep /\ entry'[l].named = entry[l].named /\ entry'[l].step = entry[l].step
                               /\ entry'[l].lease = entry[l].lease /\ entry'[l].tries = entry[l].tries
                               /\ (l # a.life => entry'[l].stop = entry[l].stop)
  BY <1>2, <1>4, <1>5 DEF EntryRec
<1>7. /\ agents' \subseteq AgentRec
      /\ \A b \in agents' : \E c \in agents : /\ b.life = c.life /\ b.slot = c.slot /\ b.id = c.id /\ b.cur = c.cur /\ b.loose = c.loose
                                             /\ (c.unstopped => b.unstopped) /\ (b.life = a.life /\ ~b.cur => b.unstopped)
                                             /\ (b.life # a.life \/ b.cur => b = c)
      /\ \A c \in agents : c.life # a.life \/ c.cur => c \in agents'
      /\ \A b, d \in agents' : b = d \/ b.unstopped \/ d.unstopped \/ (b \in agents /\ d \in agents)
  <2>1. CASE did
    <3>1. agents' = agents \ Pool!OldAgents(a.life) BY <2>1, <1>5
    <3> QED BY <3>1, <1>4 DEF Pool!OldAgents
  <2>2. CASE ~did
    <3>1. \A b : b \in agents' <=> \E c \in agents : b = IF c.life = a.life /\ ~c.cur THEN [c EXCEPT !.unstopped = TRUE] ELSE c
      BY <2>2, <1>5 DEF Pool!OldAgents
    <3>2. \A c \in AgentRec : /\ [c EXCEPT !.unstopped = TRUE] \in AgentRec /\ [c EXCEPT !.unstopped = TRUE].life = c.life
                              /\ [c EXCEPT !.unstopped = TRUE].slot = c.slot /\ [c EXCEPT !.unstopped = TRUE].id = c.id
                              /\ [c EXCEPT !.unstopped = TRUE].cur = c.cur /\ [c EXCEPT !.unstopped = TRUE].loose = c.loose
                              /\ [c EXCEPT !.unstopped = TRUE].unstopped
      BY DEF AgentRec
    <3>3. \A c \in agents : c \in AgentRec BY <1>4
    <3>4. \A b \in agents' : \E c \in agents : /\ b \in AgentRec
               /\ b.life = c.life /\ b.slot = c.slot /\ b.id = c.id /\ b.cur = c.cur /\ b.loose = c.loose
               /\ (c.unstopped => b.unstopped) /\ (b.life = a.life /\ ~b.cur => b.unstopped) /\ (b.life # a.life \/ b.cur => b = c)
      <4> SUFFICES ASSUME NEW b \in agents'
                   PROVE \E c \in agents : /\ b \in AgentRec
               /\ b.life = c.life /\ b.slot = c.slot /\ b.id = c.id /\ b.cur = c.cur /\ b.loose = c.loose
               /\ (c.unstopped => b.unstopped) /\ (b.life = a.life /\ ~b.cur => b.unstopped) /\ (b.life # a.life \/ b.cur => b = c)
        OBVIOUS
      <4>1. PICK c \in agents : b = IF c.life = a.life /\ ~c.cur THEN [c EXCEPT !.unstopped = TRUE] ELSE c BY <3>1
      <4> QED BY <4>1, <3>2, <3>3
    <3>5. \A c \in agents : c.life # a.life \/ c.cur => c \in agents' BY <3>1
    <3>6. \A b, d \in agents' : b = d \/ b.unstopped \/ d.unstopped \/ (b \in agents /\ d \in agents)
      <4> SUFFICES ASSUME NEW b \in agents', ~b.unstopped PROVE b \in agents OBVIOUS
      <4>1. PICK c \in agents : b = IF c.life = a.life /\ ~c.cur THEN [c EXCEPT !.unstopped = TRUE] ELSE c BY <3>1
      <4> QED BY <4>1, <3>2, <3>3
    <3> QED BY <3>4, <3>5, <3>6
  <2> QED BY <2>1, <2>2
<1>8. EntriesOK'
  <2>1. ASSUME NEW l \in Pool!Lives PROVE entry'[l].step = "running" <=> \E b \in agents' : b.life = l /\ b.cur
    <3>1. entry[l].step = "running" <=> \E b \in agents : b.life = l /\ b.cur BY <1>4 DEF Core, EntriesOK
    <3> QED BY <3>1, <1>6, <1>7
  <2>2. ASSUME NEW l \in Pool!Lives PROVE \A b, c \in agents' : b.life = l /\ c.life = l /\ b.cur /\ c.cur => b = c
    <3>1. \A b, c \in agents : b.life = l /\ c.life = l /\ b.cur /\ c.cur => b = c BY <1>4 DEF Core, EntriesOK
    <3> QED BY <3>1, <1>7
  <2>3. ASSUME NEW l \in Pool!Lives, entry'[l].stop # "no" PROVE \A b \in agents' : b.life = l /\ ~b.cur => b.unstopped
    <3>1. l = a.life \/ \A b \in agents : b.life = l /\ ~b.cur => b.unstopped BY <2>3, <1>4, <1>6 DEF Core, EntriesOK
    <3> QED BY <3>1, <1>7
  <2>4. \A l \in Pool!Lives : /\ entry'[l].step # "none" => entry'[l].prep = "done"
                              /\ entry'[l].prep # "none" => rec[l].st = "slot"
                              /\ entry'[l].lease = "none" => entry'[l].tries = 0
    BY <1>4, <1>6 DEF Core, EntriesOK
  <2> QED BY <2>1, <2>2, <2>3, <2>4, <1>1 DEF EntriesOK
<1>9. Alone'
  <2> SUFFICES ASSUME NEW b \in agents', ~b.loose
               PROVE  /\ slot[b.slot].holder = b.life /\ slot[b.slot].id = b.id
                      /\ \A d \in agents' : d.slot = b.slot /\ ~d.loose => d = b \/ b.unstopped \/ d.unstopped
    BY <1>1 DEF Alone
  <2>1. PICK c \in agents : b.life = c.life /\ b.slot = c.slot /\ b.id = c.id /\ b.loose = c.loose BY <1>7
  <2>2. slot[b.slot].holder = b.life /\ slot[b.slot].id = b.id BY <2>1, <1>4 DEF Core, Alone
  <2>3. \A d \in agents' : d.slot = b.slot /\ ~d.loose => d = b \/ b.unstopped \/ d.unstopped
    BY <1>4, <1>7 DEF Core, Alone
  <2> QED BY <2>2, <2>3
<1>10. Core' BY <1>1, <1>4, <1>6, <1>8, <1>9, PoolSets DEF Core, LeasesOK, PreparedOK, WorkSaved, SlotKept
<1>11. ASSUME NEW m \in Pool!Lives, AtRest(m) PROVE AtRest(m)' BY <1>11, <1>7 DEF AtRest
<1>12. ASSUME NEW b \in Pool!Acts, Planned(b)' PROVE ActOK(b)'
  <2>1. ActOK(b) /\ b.life \in Pool!Lives BY <1>2, <1>12 DEF ActOK
  <2>2. PrepareOK(b) => PrepareOK(b)' BY <2>1, <1>1, <1>6, <1>11 DEF PrepareOK
  <2>3. SpawnOK(b) => SpawnOK(b)' BY <2>1, <1>1, <1>6, <1>11 DEF SpawnOK
  <2>4. FreeOK(b) => FreeOK(b)' BY <1>6, <1>7 DEF FreeOK
  <2>5. (MoveOK(b) => MoveOK(b)') /\ (LeaseOK(b) => LeaseOK(b)') BY <2>1, <1>1, <1>6 DEF MoveOK, LeaseOK
  <2> QED BY <2>1, <2>2, <2>3, <2>4, <2>5, <1>1 DEF ActOK
<1>13. TodoOK' BY <1>12, <1>3 DEF TodoOK
<1>14. PoolTypes' BY <1>1, <1>3, <1>4, <1>6, <1>7 DEF PoolTypes
<1> QED BY <1>1, <1>3, <1>10, <1>13, <1>14, IdleOK DEF SlotInv

\* The spawn is awaited with what the plan knew of it.
LEMMA SpawnStep ==
  ASSUME SlotInv, Pool!Exec_Spawn
  PROVE  SlotInv'
<1>1. Pool!Doing({"spawn"}) /\ UNCHANGED <<slot, rec, agents, unseen, late, outside, hist>> BY DEF Pool!Exec_Spawn
<1>2. PICK a \in Pool!Acts : /\ a = Head(todo) /\ a.do = "spawn" /\ ActOK(a) /\ a.life \in Pool!Lives
                             /\ \A b \in Pool!Acts : Planned(b)' => Planned(b) /\ ActOK(b) /\ ~Clash(a, b) /\ ~Clash(b, a)
  BY <1>1, NextAct
<1>3. todo' \in Seq(Pool!Acts) /\ NoClash(todo)' BY <1>1, NextAct
<1>4. PoolTypes /\ Core /\ entry \in [Pool!Lives -> EntryRec] BY DEF SlotInv, PoolTypes
<1>5. op' = Pool!Run(a, "spawn") /\ entry' = [entry EXCEPT ![a.life].step = "ended"]
  BY <1>2 DEF Pool!Exec_Spawn
<1>6. op' \in OpRec /\ op'.at = "spawn" /\ \A x \in Pool!Acts : InHand(x)' => x = a
  <2>1. op' = [do |-> a.do, life |-> a.life, slot |-> a.slot, id |-> a.id, at |-> "spawn"] BY <1>5 DEF Pool!Run
  <2>2. op' \in OpRec BY <2>1, <1>2 DEF Pool!Acts, OpRec, Pool!Stages
  <2>3. InHand(a)' BY <2>1 DEF InHand
  <2>4. ASSUME NEW x \in Pool!Acts, InHand(x)' PROVE x = a
    <3>1. x.do = a.do /\ x.life = a.life /\ x.slot = a.slot /\ x.id = a.id BY <2>3, <2>4 DEF InHand
    <3> QED BY <3>1, SameAct
  <2> QED BY <2>1, <2>2, <2>4
<1>7. SpawnOK(a) /\ entry[a.life].step # "running" /\ entry[a.life].prep = "done" BY <1>2 DEF ActOK, SpawnOK
<1>8. /\ entry' \in [Pool!Lives -> EntryRec]
      /\ \A l \in Pool!Lives : /\ entry'[l].prep = entry[l].prep /\ entry'[l].named = entry[l].named /\ entry'[l].stop = entry[l].stop
                               /\ entry'[l].lease = entry[l].lease /\ entry'[l].tries = entry[l].tries
                               /\ entry'[l].step = IF l = a.life THEN "ended" ELSE entry[l].step
  BY <1>2, <1>4, <1>5 DEF EntryRec
<1>9. EntriesOK'
  <2>1. \A l \in Pool!Lives : entry'[l].step = "running" <=> entry[l].step = "running" BY <1>7, <1>8
  <2>2. \A l \in Pool!Lives : entry'[l].step # "none" => entry'[l].prep = "done" BY <1>4, <1>7, <1>8 DEF Core, EntriesOK
  <2> QED BY <2>1, <2>2, <1>1, <1>4, <1>8 DEF Core, EntriesOK
<1>10. PreparedOK' BY <1>1, <1>4, <1>8 DEF Core, PreparedOK
<1>11. Core' BY <1>1, <1>4, <1>9, <1>10 DEF Core, LeasesOK, Alone, WorkSaved, SlotKept
<1>12. ASSUME NEW b \in Pool!Acts, Planned(b)' PROVE ActOK(b)'
  <2>1. ActOK(b) /\ b.life \in Pool!Lives /\ ~Clash(a, b) BY <1>2, <1>12 DEF ActOK
  <2>2. b.do \in Sole => b.life # a.life BY <2>1, <1>2 DEF Clash, Sole
  <2>3. b.do = "prepare" /\ PrepareOK(b) => PrepareOK(b)' BY <2>1, <2>2, <1>1, <1>8 DEF PrepareOK, AtRest, Sole
  <2>4. SpawnOK(b) => SpawnOK(b)' BY <2>1, <1>1, <1>8 DEF SpawnOK, AtRest
  <2>5. FreeOK(b) => FreeOK(b)' BY <1>1, <1>8 DEF FreeOK
  <2>6. (MoveOK(b) => MoveOK(b)') /\ (LeaseOK(b) => LeaseOK(b)') BY <2>1, <1>1, <1>8 DEF MoveOK, LeaseOK
  <2> QED BY <2>1, <2>3, <2>4, <2>5, <2>6, <1>1 DEF ActOK
<1>13. TodoOK' BY <1>12, <1>3 DEF TodoOK
<1>14. RunOK(a)'
  <2>1. SpawnOK(a)' BY <1>1, <1>2, <1>7, <1>8 DEF SpawnOK, AtRest
  <2> QED BY <2>1, <1>2, <1>6 DEF RunOK
<1>15. ToolOK' BY <1>6, <1>14 DEF ToolOK
<1>16. PoolTypes' BY <1>1, <1>3, <1>4, <1>6, <1>8 DEF PoolTypes
<1> QED BY <1>11, <1>13, <1>15, <1>16 DEF SlotInv

\* An agent starts where its life's prepare was, beside none but those that could not be stopped
\* or that no entry names.
LEMMA SpawnedStep ==
  ASSUME SlotInv, Pool!Spawned
  PROVE  SlotInv'
<1>1. op.at = "spawn" /\ op' = Pool!NoOp /\ UNCHANGED <<slot, rec, unseen, todo, late, outside, hist>> BY DEF Pool!Spawned
<1>2. PICK a \in Pool!Acts : InHand(a) /\ RunOK(a) /\ a.do = "spawn" /\ a.life \in Pool!Lives /\ a.slot \in Pool!Slots
  BY <1>1, HandIs DEF RunOK
<1>3. \A b \in Pool!Acts : Planned(b)' => Planned(b) /\ ActOK(b) /\ ~Clash(a, b)
  <2>1. \A b \in Pool!Acts : Planned(b) => ~Clash(a, b) BY <1>2 DEF RunOK
  <2> QED BY <2>1, <1>1 DEF SlotInv, TodoOK, Planned
<1>4. PoolTypes /\ Core /\ entry \in [Pool!Lives -> EntryRec] /\ agents \subseteq AgentRec BY DEF SlotInv, PoolTypes
<1> DEFINE starts == Pool!Starts(a.life, a.slot)
           n == [life |-> a.life, slot |-> a.slot, id |-> entry[a.life].named, cur |-> TRUE,
                 unstopped |-> FALSE, loose |-> a.life \in hist.taken]
<1>5. /\ entry' = [entry EXCEPT ![a.life].step = IF starts THEN "running" ELSE "ended"]
      /\ agents' = agents \cup IF starts THEN {n} ELSE {}
  BY <1>2 DEF Pool!Spawned, InHand
<1>6. /\ entry' \in [Pool!Lives -> EntryRec]
      /\ \A l \in Pool!Lives : /\ entry'[l].prep = entry[l].prep /\ entry'[l].named = entry[l].named /\ entry'[l].stop = entry[l].stop
                               /\ entry'[l].lease = entry[l].lease /\ entry'[l].tries = entry[l].tries
                               /\ entry'[l].step = IF l = a.life THEN IF starts THEN "running" ELSE "ended" ELSE entry[l].step
  BY <1>2, <1>4, <1>5 DEF EntryRec
<1>7. /\ a.slot \in Pool!Slots /\ entry[a.life].prep = "done" /\ AtRest(a.life)
      /\ a.life \notin hist.taken => slot[a.slot].id = entry[a.life].named
      /\ entry[a.life].named \in LeaseIds
  <2>1. SpawnOK(a) BY <1>2 DEF RunOK
  <2>2. a.slot \in Pool!Slots BY <2>1, ActsAre, PoolSets DEF SpawnOK
  <2>3. entry[a.life].named \in LeaseIds
    BY <2>1, <1>2, <1>4, PoolSets DEF SpawnOK, Core, PreparedOK, EntryRec
  <2> QED BY <2>1, <2>2, <2>3 DEF SpawnOK
<1>8. n \in AgentRec /\ n.life = a.life /\ n.slot = a.slot /\ n.id = entry[a.life].named /\ n.cur /\ ~n.unstopped
      /\ n.loose = (a.life \in hist.taken)
  BY <1>2, <1>7 DEF AgentRec
<1>9. \A b \in agents' : b \in agents \/ (b = n /\ starts) BY <1>5
<1> HIDE DEF n, starts
<1>10. agents' \subseteq AgentRec /\ agents \subseteq agents' /\ (starts => n \in agents') BY <1>4, <1>5, <1>8, <1>9
<1>11. EntriesOK'
  <2>1. ASSUME NEW l \in Pool!Lives PROVE entry'[l].step = "running" <=> \E b \in agents' : b.life = l /\ b.cur
    <3>1. entry[l].step = "running" <=> \E b \in agents : b.life = l /\ b.cur BY <1>4 DEF Core, EntriesOK
    <3>2. CASE l = a.life
      <4>1. \A b \in agents : b.life = l => ~b.cur BY <3>2, <1>7 DEF AtRest
      <4> QED BY <4>1, <3>2, <1>6, <1>8, <1>9, <1>10
    <3>3. CASE l # a.life BY <3>1, <3>3, <1>6, <1>8, <1>9, <1>10
    <3> QED BY <3>2, <3>3
  <2>2. ASSUME NEW l \in Pool!Lives PROVE \A b, c \in agents' : b.life = l /\ c.life = l /\ b.cur /\ c.cur => b = c
    <3>1. \A b, c \in agents : b.life = l /\ c.life = l /\ b.cur /\ c.cur => b = c BY <1>4 DEF Core, EntriesOK
    <3>2. \A b \in agents : b.life = a.life => ~b.cur BY <1>7 DEF AtRest
    <3> QED BY <3>1, <3>2, <1>8, <1>9
  <2>3. ASSUME NEW l \in Pool!Lives, entry'[l].stop # "no" PROVE \A b \in agents' : b.life = l /\ ~b.cur => b.unstopped
    <3>1. \A b \in agents : b.life = l /\ ~b.cur => b.unstopped BY <2>3, <1>4, <1>6 DEF Core, EntriesOK
    <3> QED BY <3>1, <1>8, <1>9
  <2>4. \A l \in Pool!Lives : /\ entry'[l].step # "none" => entry'[l].prep = "done"
                              /\ entry'[l].prep # "none" => rec[l].st = "slot"
                              /\ entry'[l].lease = "none" => entry'[l].tries = 0
    BY <1>4, <1>6, <1>7 DEF Core, EntriesOK
  <2> QED BY <2>1, <2>2, <2>3, <2>4, <1>1 DEF EntriesOK
<1>12. Alone'
  <2>1. ASSUME ~n.loose PROVE slot[n.slot].holder = n.life /\ slot[n.slot].id = n.id
    <3>1. slot[a.slot].id = entry[a.life].named BY <2>1, <1>7, <1>8
    <3>2. slot[a.slot].holder = a.life BY <3>1, <1>2, <1>4, <1>7 DEF Core, PreparedOK
    <3> QED BY <3>1, <3>2, <1>8
  <2>2. ASSUME ~n.loose PROVE \A b \in agents : b.slot = n.slot /\ ~b.loose => b.unstopped
    <3>1. \A b \in agents : b.slot = n.slot /\ ~b.loose => b.life = n.life BY <2>1, <2>2, <1>4 DEF Core, Alone
    <3> QED BY <3>1, <1>7, <1>8 DEF AtRest
  <2>3. \A b \in agents : ~b.loose =>
          /\ slot[b.slot].holder = b.life /\ slot[b.slot].id = b.id
          /\ \A c \in agents : c.slot = b.slot /\ ~c.loose => c = b \/ b.unstopped \/ c.unstopped
    BY <1>4 DEF Core, Alone
  <2> QED BY <2>1, <2>2, <2>3, <1>1, <1>9 DEF Alone
<1>13. Core' BY <1>1, <1>4, <1>6, <1>11, <1>12, PoolSets DEF Core, LeasesOK, PreparedOK, WorkSaved, SlotKept
<1>14. ASSUME NEW m \in Pool!Lives, m # a.life, AtRest(m) PROVE AtRest(m)' BY <1>14, <1>8, <1>9 DEF AtRest
<1>15. ASSUME NEW b \in Pool!Acts, Planned(b)' PROVE ActOK(b)'
  <2>1. ActOK(b) /\ b.life \in Pool!Lives /\ ~Clash(a, b) BY <1>3, <1>15 DEF ActOK
  <2>2. b.do \in Sole => b.life # a.life BY <2>1, <1>2 DEF Clash, Sole
  <2>3. b.do = "prepare" /\ PrepareOK(b) => PrepareOK(b)' BY <2>1, <2>2, <1>1, <1>6, <1>14 DEF PrepareOK, Sole
  <2>4. b.do = "spawn" /\ SpawnOK(b) => SpawnOK(b)' BY <2>1, <2>2, <1>1, <1>6, <1>14 DEF SpawnOK, Sole
  <2>5. FreeOK(b) => FreeOK(b)' BY <1>2, <1>6, <1>7, <1>8, <1>9 DEF FreeOK
  <2>6. (MoveOK(b) => MoveOK(b)') /\ (LeaseOK(b) => LeaseOK(b)') BY <2>1, <1>1, <1>6 DEF MoveOK, LeaseOK
  <2> QED BY <2>1, <2>3, <2>4, <2>5, <2>6, <1>1 DEF ActOK
<1>16. TodoOK' BY <1>1, <1>15 DEF SlotInv, TodoOK, NoClash
<1>17. PoolTypes'
  <2>1. Pool!NoOp \in OpRec BY NoOpIs, PoolSets DEF OpRec, Pool!Kinds, Pool!Stages
  <2> QED BY <2>1, <1>1, <1>4, <1>6, <1>10 DEF PoolTypes
<1> QED BY <1>1, <1>13, <1>16, <1>17, IdleOK DEF SlotInv

\* The tool takes an action over with what the plan knew of it.
LEMMA ToolStep ==
  ASSUME SlotInv, Pool!Exec_Tool
  PROVE  SlotInv'
<1>1. Pool!Doing({"lease", "prepare", "free"}) /\ UNCHANGED <<rec, agents, unseen, late, outside, hist>> BY DEF Pool!Exec_Tool
<1>2. PICK a \in Pool!Acts : /\ a = Head(todo) /\ a.do \in {"lease", "prepare", "free"} /\ ActOK(a) /\ a.life \in Pool!Lives
                             /\ \A b \in Pool!Acts : Planned(b)' => Planned(b) /\ ActOK(b) /\ ~Clash(a, b) /\ ~Clash(b, a)
  BY <1>1, NextAct
<1>3. todo' \in Seq(Pool!Acts) /\ NoClash(todo)' BY <1>1, NextAct
<1>4. PoolTypes /\ Core /\ entry \in [Pool!Lives -> EntryRec] /\ slot \in [Pool!Slots -> SlotRec] BY DEF SlotInv, PoolTypes
<1>5. /\ op' = Pool!Run(a, "check")
      /\ entry' = CASE a.do = "lease" -> [entry EXCEPT ![a.life].lease = "failed",
                                            ![a.life].tries = IF entry[a.life].lease = "done" THEN 1 ELSE entry[a.life].tries + 1]
                    [] a.do = "prepare" -> [entry EXCEPT ![a.life].prep = "failed"]
                    [] OTHER -> entry
      /\ slot' = IF a.do = "free" /\ slot[a.slot].id = a.id THEN [slot EXCEPT ![a.slot].frees = slot[a.slot].frees + 1] ELSE slot
  BY <1>2 DEF Pool!Exec_Tool
<1>6. op' \in OpRec /\ op'.at = "check" /\ \A x \in Pool!Acts : InHand(x)' => x = a
  <2>1. op' = [do |-> a.do, life |-> a.life, slot |-> a.slot, id |-> a.id, at |-> "check"] BY <1>5 DEF Pool!Run
  <2>2. op' \in OpRec BY <2>1, <1>2 DEF Pool!Acts, OpRec, Pool!Stages
  <2>3. InHand(a)' BY <2>1 DEF InHand
  <2>4. ASSUME NEW x \in Pool!Acts, InHand(x)' PROVE x = a
    <3>1. x.do = a.do /\ x.life = a.life /\ x.slot = a.slot /\ x.id = a.id BY <2>3, <2>4 DEF InHand
    <3> QED BY <3>1, SameAct
  <2> QED BY <2>1, <2>2, <2>4
<1>7. a.do = "lease" => LeaseOK(a) BY <1>2 DEF ActOK
<1>8. a.do = "prepare" => PrepareOK(a) /\ entry[a.life].step = "none" /\ rec[a.life].st = "slot"
  BY <1>2 DEF ActOK, PrepareOK
<1>9. a.do = "free" => /\ FreeOK(a) /\ a.slot \in Pool!Slots
                       /\ slot[a.slot].id = a.id => slot[a.slot].frees < 2
  BY <1>2, ActsAre, PoolSets DEF ActOK, FreeOK
<1>10. /\ entry' \in [Pool!Lives -> EntryRec]
       /\ \A l \in Pool!Lives : /\ entry'[l].named = entry[l].named /\ entry'[l].stop = entry[l].stop /\ entry'[l].step = entry[l].step
                                /\ entry'[l].prep = IF a.do = "prepare" /\ l = a.life THEN "failed" ELSE entry[l].prep
                                /\ (a.do # "lease" \/ l # a.life => entry'[l].lease = entry[l].lease /\ entry'[l].tries = entry[l].tries)
                                /\ (a.do = "lease" /\ l = a.life => entry'[l].lease = "failed")
  <2>1. CASE a.do = "lease"
    <3>1. PICK t \in 0..3 : t = IF entry[a.life].lease = "done" THEN 1 ELSE entry[a.life].tries + 1
      BY <2>1, <1>2, <1>4, <1>7, PoolSets DEF LeaseOK, EntryRec
    <3>2. entry' = [entry EXCEPT ![a.life].lease = "failed", ![a.life].tries = t] BY <2>1, <3>1, <1>5
    <3> QED BY <2>1, <3>2, <1>2, <1>4, PoolSets DEF EntryRec
  <2>2. CASE a.do = "prepare"
    <3>1. entry' = [entry EXCEPT ![a.life].prep = "failed"] BY <2>2, <1>5
    <3> QED BY <2>2, <3>1, <1>2, <1>4 DEF EntryRec
  <2>3. CASE a.do = "free" BY <2>3, <1>4, <1>5
  <2> QED BY <2>1, <2>2, <2>3, <1>2
<1>11. /\ slot' \in [Pool!Slots -> SlotRec]
       /\ \A p \in Pool!Slots : /\ slot'[p].id = slot[p].id /\ slot'[p].holder = slot[p].holder
                                /\ slot'[p].frees = slot[p].frees \/ (a.do = "free" /\ p = a.slot /\ slot[p].id = a.id)
  <2>1. CASE a.do = "free" /\ slot[a.slot].id = a.id
    <3>1. PICK f \in 0..Pool!FREE_ATTEMPTS : f = slot[a.slot].frees + 1
      <4>1. slot[a.slot].frees \in 0..2 /\ slot[a.slot].frees < 2 BY <2>1, <1>4, <1>9, PoolSets DEF SlotRec
      <4>2. slot[a.slot].frees + 1 \in 0..2 BY <4>1
      <4> QED BY <4>2, PoolSets
    <3>2. slot' = [slot EXCEPT ![a.slot].frees = f] BY <2>1, <3>1, <1>5
    <3> QED BY <2>1, <3>2, <1>4, <1>9 DEF SlotRec
  <2>2. CASE ~(a.do = "free" /\ slot[a.slot].id = a.id)
    <3>1. slot' = slot BY <2>2, <1>5
    <3> QED BY <3>1, <1>4
  <2> QED BY <2>1, <2>2
<1>12. EntriesOK'
  <2>1. \A l \in Pool!Lives : /\ entry'[l].step # "none" => entry'[l].prep = "done"
                              /\ entry'[l].prep # "none" => rec[l].st = "slot"
                              /\ entry'[l].lease = "none" => entry'[l].tries = 0
    BY <1>4, <1>8, <1>10 DEF Core, EntriesOK
  <2> QED BY <2>1, <1>1, <1>4, <1>10 DEF Core, EntriesOK
<1>13. LeasesOK' /\ PreparedOK'
  <2>1. LeasesOK' BY <1>4, <1>11 DEF Core, LeasesOK
  <2>2. \A l \in Pool!Lives : entry'[l].prep = "done" => entry[l].prep = "done" BY <1>10
  <2> QED BY <2>1, <2>2, <1>1, <1>4, <1>10, <1>11 DEF Core, PreparedOK
<1>14. Alone'
  <2>1. \A b \in agents : b.slot \in Pool!Slots BY <1>4 DEF PoolTypes, AgentRec
  <2> QED BY <2>1, <1>1, <1>4, <1>11 DEF Core, Alone
<1>15. Core' BY <1>1, <1>4, <1>12, <1>13, <1>14 DEF Core, WorkSaved, SlotKept
<1>16. ASSUME NEW b \in Pool!Acts, b.life \in Pool!Lives
       PROVE  (PrepareOK(b) => PrepareOK(b)') /\ (FreeOK(b) => FreeOK(b)')
  <2>1. PrepareOK(b) => PrepareOK(b)' BY <1>16, <1>1, <1>10, <1>11 DEF PrepareOK, AtRest
  <2>2. \A l \in Pool!Lives : entry'[l].prep = "done" => entry[l].prep = "done" /\ entry'[l].named = entry[l].named BY <1>10
  <2>3. FreeOK(b) => FreeOK(b)' BY <2>2, <1>1 DEF FreeOK
  <2> QED BY <2>1, <2>3
<1>17. ASSUME NEW b \in Pool!Acts, Planned(b)' PROVE ActOK(b)'
  <2>1. ActOK(b) /\ b.life \in Pool!Lives /\ ~Clash(a, b) BY <1>2, <1>17 DEF ActOK
  <2>2. b.do = "spawn" /\ SpawnOK(b) => SpawnOK(b)'
    <3>1. b.do = "spawn" => entry'[b.life].prep = entry[b.life].prep BY <2>1, <1>10 DEF Clash, Sole
    <3>2. SpawnOK(b) => b.slot \in Pool!Slots BY ActsAre, PoolSets DEF SpawnOK
    <3> QED BY <3>1, <3>2, <2>1, <1>1, <1>10, <1>11 DEF SpawnOK, AtRest
  <2>3. b.do = "lease" /\ LeaseOK(b) => LeaseOK(b)' BY <2>1, <1>10 DEF LeaseOK, Clash
  <2>4. b.do = "free" => (slot'[b.slot].id = b.id => slot'[b.slot].frees < Pool!FREE_ATTEMPTS)
    <3>1. b.do = "free" => b.slot \in Pool!Slots BY <2>1, ActsAre, PoolSets DEF ActOK, FreeOK
    <3> QED BY <3>1, <2>1, <1>11 DEF ActOK, Clash
  <2>5. MoveOK(b) => MoveOK(b)' BY <1>1 DEF MoveOK
  <2> QED BY <2>1, <2>2, <2>3, <2>4, <2>5, <1>1, <1>16 DEF ActOK
<1>18. TodoOK' BY <1>17, <1>3 DEF TodoOK
<1>19. RunOK(a)'
  <2>1. (a.do = "prepare" => PrepareOK(a)') /\ (a.do = "free" => FreeOK(a)') BY <1>2, <1>8, <1>9, <1>16
  <2> QED BY <2>1, <1>2, <1>6 DEF RunOK
<1>20. ToolOK' BY <1>6, <1>19 DEF ToolOK
<1>21. PoolTypes' BY <1>1, <1>3, <1>4, <1>6, <1>10, <1>11 DEF PoolTypes
<1> QED BY <1>15, <1>18, <1>20, <1>21 DEF SlotInv

\* what the transition a changes
Moved(a, to) ==
  /\ rec' = [rec EXCEPT ![a.life] = [st |-> to, resumed |-> @.resumed \/ a.do = "resume",
                left |-> IF a.do \in {"timeout", "ended", "unprepared"} /\ to = "slot" THEN @.left - 1 ELSE @.left,
                asked |-> IF @.asked = "drop" /\ a.do # "drop" THEN "drop" ELSE "no"]]
  /\ entry' = [entry EXCEPT ![a.life].stop = "no", ![a.life].prep = "none", ![a.life].step = "none"]
  /\ agents' = {[b EXCEPT !.cur = @ /\ b.life # a.life] : b \in agents}
  /\ unseen' = {u \in unseen : u.works \/ u.life # a.life}
  /\ slot' = [p \in Pool!Slots |-> [slot[p] EXCEPT !.marker = IF @ = a.life THEN Pool!Nobody ELSE @]]
  /\ hist' = [hist EXCEPT !.taken = @ \ {a.life}, !.wrong = @ \/ (a.do \in {"lost", "lost-running"} /\ a.life \notin hist.taken)]

\* A transition ends its record's seq, and touches no other life's work.
LEMMA MoveStep ==
  ASSUME SlotInv, Pool!Exec_Move
  PROVE  SlotInv'
<1>1. Pool!Doing(Pool!Moves) /\ UNCHANGED <<op, late, outside>> BY DEF Pool!Exec_Move
<1>2. PICK a \in Pool!Acts : /\ a = Head(todo) /\ a.do \in Pool!Moves /\ ActOK(a) /\ a.life \in Pool!Lives
                             /\ \A b \in Pool!Acts : Planned(b)' => Planned(b) /\ ActOK(b) /\ ~Clash(a, b) /\ ~Clash(b, a)
  BY <1>1, NextAct
<1>3. op = Pool!NoOp /\ todo' \in Seq(Pool!Acts) /\ NoClash(todo)' BY <1>1, NextAct
<1>4. PoolTypes /\ Core /\ rec \in [Pool!Lives -> LifeRec] /\ entry \in [Pool!Lives -> EntryRec]
      /\ slot \in [Pool!Slots -> SlotRec] /\ agents \subseteq AgentRec
      /\ hist \in [lost : BOOLEAN, taken : SUBSET Pool!Lives, wrong : BOOLEAN]
  BY DEF SlotInv, PoolTypes
<1>5. CASE UNCHANGED <<slot, rec, entry, agents, unseen, hist>>
  <2>1. Core' BY <1>4, <1>5, SameCore
  <2>2. \A b \in Pool!Acts : Planned(b)' => ActOK(b)' BY <1>2, <1>4, <1>5, SameActs
  <2>3. TodoOK' BY <2>2, <1>3 DEF TodoOK
  <2>4. PoolTypes' BY <1>1, <1>3, <1>4, <1>5 DEF PoolTypes
  <2> QED BY <2>1, <2>3, <2>4, <1>1, <1>3, IdleOK DEF SlotInv
<1> DEFINE l == a.life
           Older(b) == [b EXCEPT !.cur = b.cur /\ b.life # l]
<1>6. ASSUME NEW to \in Pool!Targets(a.do, l),
             rec' = [rec EXCEPT ![l] = [st |-> to, resumed |-> rec[l].resumed \/ a.do = "resume",
                       left |-> IF a.do \in {"timeout", "ended", "unprepared"} /\ to = "slot" THEN rec[l].left - 1 ELSE rec[l].left,
                       asked |-> IF rec[l].asked = "drop" /\ a.do # "drop" THEN "drop" ELSE "no"]],
             entry' = [entry EXCEPT ![l].stop = "no", ![l].prep = "none", ![l].step = "none"],
             agents' = {Older(b) : b \in agents}, unseen' = {u \in unseen : u.works \/ u.life # l},
             slot' = [p \in Pool!Slots |-> [slot[p] EXCEPT !.marker = IF slot[p].marker = l THEN Pool!Nobody ELSE slot[p].marker]],
             hist' = [hist EXCEPT !.taken = hist.taken \ {l},
                                  !.wrong = hist.wrong \/ (a.do \in {"lost", "lost-running"} /\ l \notin hist.taken)]
      PROVE  SlotInv'
  <2>1. MoveOK(a) /\ l \in Pool!Lives BY <1>2 DEF ActOK
  <2>2. /\ to \in {"slot", "queued", "closed", "parked"}
        /\ a.do \in {"timeout", "ended", "unprepared"} /\ to = "slot" => rec[l].left > 0
    BY <1>2, <1>6 DEF Pool!Targets, Pool!Moves
  <2>3. rec' \in [Pool!Lives -> LifeRec] /\ \A m \in Pool!Lives : m # l => rec'[m] = rec[m]
    <3>1. rec[l] \in LifeRec BY <1>4, <2>1
    <3>2. rec[l].left \in 0..MaxSteps /\ rec[l].resumed \in BOOLEAN /\ rec[l].asked \in {"no", "drop", "resume", "timeout"}
      BY <3>1 DEF LifeRec
    <3>3. a.do \in {"timeout", "ended", "unprepared"} /\ to = "slot" => rec[l].left - 1 \in 0..MaxSteps
      BY <3>2, <2>2, PoolSets
    <3>4. rec'[l] \in LifeRec BY <3>2, <3>3, <2>1, <2>2, <1>4, <1>6 DEF LifeRec
    <3>5. rec' = [rec EXCEPT ![l] = rec'[l]] BY <1>4, <1>6, <2>1
    <3> QED BY <3>4, <3>5, <1>4, <2>1
  <2>4. /\ entry' \in [Pool!Lives -> EntryRec] /\ entry'[l].stop = "no" /\ entry'[l].prep = "none" /\ entry'[l].step = "none"
        /\ \A m \in Pool!Lives : m # l => entry'[m] = entry[m]
        /\ \A m \in Pool!Lives : entry'[m].lease = entry[m].lease /\ entry'[m].tries = entry[m].tries
    <3>1. PICK e \in EntryRec : e = entry[l] BY <1>4, <2>1
    <3>2. PICK f : f = [e EXCEPT !.stop = "no", !.prep = "none", !.step = "none"] OBVIOUS
    <3>3. entry' = [entry EXCEPT ![l] = f] BY <3>1, <3>2, <1>4, <1>6, <2>1
    <3>4. f \in EntryRec /\ f.stop = "no" /\ f.prep = "none" /\ f.step = "none" /\ f.lease = e.lease /\ f.tries = e.tries
      BY <3>1, <3>2 DEF EntryRec
    <3>5. entry'[l] = f /\ \A m \in Pool!Lives : m # l => entry'[m] = entry[m] BY <3>3, <1>4, <2>1
    <3>6. entry' \in [Pool!Lives -> EntryRec] BY <3>3, <3>4, <1>4, <2>1
    <3> QED BY <3>1, <3>4, <3>5, <3>6
  <2>5. /\ slot' \in [Pool!Slots -> SlotRec]
        /\ \A p \in Pool!Slots : slot'[p].id = slot[p].id /\ slot'[p].holder = slot[p].holder /\ slot'[p].frees = slot[p].frees
    <3> DEFINE Cleared(p) == [slot[p] EXCEPT !.marker = IF slot[p].marker = l THEN Pool!Nobody ELSE slot[p].marker]
    <3>1. ASSUME NEW p \in Pool!Slots
          PROVE  /\ Cleared(p) \in SlotRec /\ Cleared(p).id = slot[p].id /\ Cleared(p).holder = slot[p].holder
                 /\ Cleared(p).frees = slot[p].frees
      <4>1. PICK x \in SlotRec : x = slot[p] BY <1>4
      <4>2. (IF x.marker = l THEN Pool!Nobody ELSE x.marker) \in {Pool!Nobody} \cup Pool!Lives BY <4>1 DEF SlotRec
      <4> QED BY <4>1, <4>2 DEF SlotRec
    <3>2. slot' = [p \in Pool!Slots |-> Cleared(p)] BY <1>6
    <3> HIDE DEF Cleared
    <3>3. slot' \in [Pool!Slots -> SlotRec] BY <3>1, <3>2
    <3>4. \A p \in Pool!Slots : slot'[p] = Cleared(p) BY <3>2
    <3> QED BY <3>1, <3>3, <3>4
  <2>6. /\ hist' \in [lost : BOOLEAN, taken : SUBSET Pool!Lives, wrong : BOOLEAN]
        /\ hist'.lost = hist.lost /\ hist'.wrong = hist.wrong /\ hist'.taken = hist.taken \ {l}
    <3>1. (hist.wrong \/ (a.do \in {"lost", "lost-running"} /\ l \notin hist.taken)) = hist.wrong
      BY <2>1, <1>4 DEF MoveOK
    <3>2. hist' = [hist EXCEPT !.taken = hist.taken \ {l}, !.wrong = hist.wrong] BY <3>1, <1>6
    <3> QED BY <3>2, <1>4
  <2>7. /\ agents' \subseteq AgentRec
        /\ \A b \in agents' : \E c \in agents : /\ b = Older(c) /\ b.life = c.life /\ b.slot = c.slot /\ b.id = c.id
                                               /\ b.unstopped = c.unstopped /\ b.loose = c.loose
                                               /\ (b.cur <=> c.cur /\ c.life # l)
        /\ \A c \in agents : Older(c) \in agents' /\ Older(c).life = c.life /\ (Older(c).cur <=> c.cur /\ c.life # l)
    <3>1. \A c \in AgentRec : /\ Older(c) \in AgentRec /\ Older(c).life = c.life /\ Older(c).slot = c.slot
                              /\ Older(c).id = c.id /\ Older(c).unstopped = c.unstopped /\ Older(c).loose = c.loose
                              /\ (Older(c).cur <=> c.cur /\ c.life # l)
      BY DEF AgentRec
    <3> HIDE DEF Older
    <3>2. \A b : b \in agents' <=> \E c \in agents : b = Older(c) BY <1>6
    <3>3. agents' \subseteq AgentRec BY <3>1, <3>2, <1>4
    <3>4. ASSUME NEW b \in agents'
          PROVE  \E c \in agents : /\ b = Older(c) /\ b.life = c.life /\ b.slot = c.slot /\ b.id = c.id
                                   /\ b.unstopped = c.unstopped /\ b.loose = c.loose /\ (b.cur <=> c.cur /\ c.life # l)
      <4>1. PICK c \in agents : b = Older(c) BY <3>2
      <4>2. c \in AgentRec BY <1>4
      <4> QED BY <4>1, <4>2, <3>1
    <3> QED BY <3>1, <3>2, <3>3, <3>4, <1>4
  <2> HIDE DEF Older, l
  <2>8. EntriesOK'
    <3>1. ASSUME NEW m \in Pool!Lives PROVE entry'[m].step = "running" <=> \E b \in agents' : b.life = m /\ b.cur
      <4>1. entry[m].step = "running" <=> \E b \in agents : b.life = m /\ b.cur BY <1>4 DEF Core, EntriesOK
      <4>2. CASE m = l
        <5>1. \A b \in agents' : b.life = m => ~b.cur BY <4>2, <2>7
        <5> QED BY <5>1, <4>2, <2>4
      <4>3. CASE m # l
        <5>1. (\E b \in agents' : b.life = m /\ b.cur) <=> \E b \in agents : b.life = m /\ b.cur BY <4>3, <2>7
        <5> QED BY <5>1, <4>1, <4>3, <2>4
      <4> QED BY <4>2, <4>3
    <3>2. ASSUME NEW m \in Pool!Lives PROVE \A b, c \in agents' : b.life = m /\ c.life = m /\ b.cur /\ c.cur => b = c
      <4>1. \A b, c \in agents : b.life = m /\ c.life = m /\ b.cur /\ c.cur => b = c BY <1>4 DEF Core, EntriesOK
      <4> QED BY <4>1, <2>7
    <3>3. ASSUME NEW m \in Pool!Lives, entry'[m].stop # "no" PROVE \A b \in agents' : b.life = m /\ ~b.cur => b.unstopped
      <4>1. m # l /\ \A b \in agents : b.life = m /\ ~b.cur => b.unstopped BY <3>3, <1>4, <2>4 DEF Core, EntriesOK
      <4> QED BY <4>1, <2>7
    <3>4. \A m \in Pool!Lives : /\ entry'[m].step # "none" => entry'[m].prep = "done"
                                /\ entry'[m].prep # "none" => rec'[m].st = "slot"
                                /\ entry'[m].lease = "none" => entry'[m].tries = 0
      BY <1>4, <2>3, <2>4 DEF Core, EntriesOK
    <3> QED BY <3>1, <3>2, <3>3, <3>4 DEF EntriesOK
  <2>9. LeasesOK' BY <1>4, <2>5 DEF Core, LeasesOK
  <2>10. PreparedOK'
    <3> SUFFICES ASSUME NEW m \in Pool!Lives, entry'[m].prep = "done"
                 PROVE  /\ entry'[m].named # Pool!NoLease
                        /\ \A p \in Pool!Slots : slot'[p].id = entry'[m].named => slot'[p].holder = m
                        /\ m \notin hist'.taken => \E p \in Pool!Slots : slot'[p].id = entry'[m].named
      BY DEF PreparedOK
    <3>1. m # l /\ entry'[m] = entry[m] BY <2>4
    <3>2. /\ entry[m].named # Pool!NoLease
          /\ \A p \in Pool!Slots : slot[p].id = entry[m].named => slot[p].holder = m
          /\ m \notin hist.taken => \E p \in Pool!Slots : slot[p].id = entry[m].named
      BY <3>1, <1>4 DEF Core, PreparedOK
    <3>3. m \notin hist'.taken => m \notin hist.taken BY <3>1, <2>6
    <3> QED BY <3>1, <3>2, <3>3, <2>5
  <2>11. Alone'
    <3> SUFFICES ASSUME NEW b \in agents', ~b.loose
                 PROVE  /\ slot'[b.slot].holder = b.life /\ slot'[b.slot].id = b.id
                        /\ \A d \in agents' : d.slot = b.slot /\ ~d.loose => d = b \/ b.unstopped \/ d.unstopped
      BY DEF Alone
    <3>1. PICK c \in agents : b = Older(c) /\ b.life = c.life /\ b.slot = c.slot /\ b.id = c.id /\ ~c.loose
                              /\ b.unstopped = c.unstopped
      BY <2>7
    <3>2. c.slot \in Pool!Slots /\ slot[c.slot].holder = c.life /\ slot[c.slot].id = c.id
      BY <3>1, <1>4 DEF Core, Alone, AgentRec
    <3>3. ASSUME NEW d \in agents', d.slot = b.slot, ~d.loose PROVE d = b \/ b.unstopped \/ d.unstopped
      <4>1. PICK e \in agents : d = Older(e) /\ d.slot = e.slot /\ ~e.loose /\ d.unstopped = e.unstopped BY <3>3, <2>7
      <4>2. e = c \/ e.unstopped \/ c.unstopped BY <4>1, <3>1, <3>3, <1>4 DEF Core, Alone
      <4> QED BY <4>1, <4>2, <3>1
    <3> QED BY <3>1, <3>2, <3>3, <2>5
  <2>12. Core' BY <1>4, <2>6, <2>8, <2>9, <2>10, <2>11 DEF Core, WorkSaved, SlotKept
  <2>13. ASSUME NEW m \in Pool!Lives, AtRest(m) PROVE AtRest(m)' BY <2>13, <2>7 DEF AtRest
  <2>14. ASSUME NEW b \in Pool!Acts, Planned(b)' PROVE ActOK(b)'
    <3>1. ActOK(b) /\ b.life \in Pool!Lives /\ ~Clash(a, b) BY <1>2, <2>14 DEF ActOK
    <3>2. b.do \in Sole => b.life # l BY <3>1, <1>2 DEF Clash, Sole, l
    <3>3. b.do \in Sole => rec'[b.life] = rec[b.life] /\ entry'[b.life] = entry[b.life] BY <3>1, <3>2, <2>3, <2>4
    <3>4. b.do = "prepare" /\ PrepareOK(b) => PrepareOK(b)' BY <3>1, <3>3, <2>5, <2>13 DEF PrepareOK, Sole
    <3>5. b.do = "spawn" /\ SpawnOK(b) => SpawnOK(b)'
      <4>1. SpawnOK(b) => b.slot \in Pool!Slots BY ActsAre, PoolSets DEF SpawnOK
      <4> QED BY <4>1, <3>1, <3>2, <3>3, <2>5, <2>6, <2>13 DEF SpawnOK, Sole
    <3>6. FreeOK(b) => FreeOK(b)'
      <4>1. FreeOK(b) => \A d \in agents' : ~d.loose => d.id # b.id BY <2>7 DEF FreeOK
      <4>2. \A m \in Pool!Lives : entry'[m].prep = "done" => entry[m].prep = "done" /\ entry'[m].named = entry[m].named BY <2>4
      <4> QED BY <4>1, <4>2 DEF FreeOK
    <3>7. b.do \in Pool!Moves /\ MoveOK(b) => MoveOK(b)' BY <3>1, <3>2, <3>3, <2>6 DEF MoveOK, Sole
    <3>8. LeaseOK(b) => LeaseOK(b)' BY <3>1, <2>4 DEF LeaseOK
    <3>9. b.do = "claim" => (rec[b.life].st = "none" => rec'[b.life].st = "none") BY <3>3 DEF Sole
    <3>10. b.do = "free" => b.slot \in Pool!Slots BY <3>1, ActsAre, PoolSets DEF ActOK, FreeOK
    <3> QED BY <3>1, <3>4, <3>5, <3>6, <3>7, <3>8, <3>9, <3>10, <2>5 DEF ActOK
  <2>15. TodoOK' BY <2>14, <1>3 DEF TodoOK
  <2>16. PoolTypes'
    <3>1. unseen' \subseteq UnseenRec BY <1>4, <1>6 DEF PoolTypes
    <3> QED BY <3>1, <1>1, <1>3, <1>4, <2>3, <2>4, <2>5, <2>6, <2>7 DEF PoolTypes
  <2> QED BY <2>12, <2>15, <2>16, <1>1, <1>3, IdleOK DEF SlotInv
<1>7. \/ UNCHANGED <<slot, rec, entry, agents, unseen, hist>>
      \/ \E to \in Pool!Targets(Head(todo).do, Head(todo).life) : Moved(Head(todo), to)
  BY DEF Pool!Exec_Move, Moved
<1>8. \/ UNCHANGED <<slot, rec, entry, agents, unseen, hist>>
      \/ \E to \in Pool!Targets(a.do, l) : Moved(a, to)
  BY <1>2, <1>7
<1>9. ASSUME NEW to \in Pool!Targets(a.do, l), Moved(a, to) PROVE SlotInv'
  <2>1. l \in DOMAIN rec BY <1>2, <1>4
  <2> QED BY <1>6, <1>9, <2>1 DEF Moved
<1> QED BY <1>5, <1>8, <1>9

\* what a list of the plan has
In(s, a) == \E i \in DOMAIN s : s[i] = a

LEMMA ImageFinite ==
  ASSUME NEW S, IsFiniteSet(S), NEW f, DOMAIN f = S, NEW T, \A t \in T : \E x \in S : f[x] = t
  PROVE  IsFiniteSet(T)
<1> DEFINE R == {f[x] : x \in S}
           g == [x \in S |-> f[x]]
<1>1. g \in Surjection(S, R) BY DEF Surjection
<1>2. IsFiniteSet(R) BY <1>1, FS_Surjection
<1>3. T \in SUBSET R OBVIOUS
<1> QED BY <1>2, <1>3, FS_Subset

\* the pool counts as these theorems do
LEMMA PoolCounts ==
  ASSUME NEW S
  PROVE  Pool!Cardinality(S) = Cardinality(S)
BY Zenon DEF Pool!Cardinality, Cardinality

\* S in some order
LEMMA ListOf ==
  ASSUME NEW A, NEW S \in SUBSET A, IsFiniteSet(S), NEW s \in Pool!SetToSeqs(S)
  PROVE  /\ s \in Seq(A) /\ \A i \in DOMAIN s : s[i] \in S
         /\ \A i, j \in DOMAIN s : i # j => s[i] # s[j]
<1>1. Cardinality(S) \in Nat BY FS_CardinalityType
<1>2. s \in [1..Cardinality(S) -> S] /\ \A i, j \in 1..Cardinality(S) : i # j => s[i] # s[j]
  BY PoolCounts DEF Pool!SetToSeqs
<1>3. s \in Seq(A) BY <1>1, <1>2
<1> QED BY <1>2, <1>3

\* a list of actions of which no two clash
LEMMA ListOK ==
  ASSUME NEW S \in SUBSET Pool!Acts, IsFiniteSet(S), NEW s \in Pool!SetToSeqs(S),
         \A a, b \in S : a # b => ~Clash(a, b)
  PROVE  s \in Seq(Pool!Acts) /\ NoClash(s) /\ \A a : In(s, a) => a \in S
<1>1. /\ s \in Seq(Pool!Acts) /\ \A i \in DOMAIN s : s[i] \in S
      /\ \A i, j \in DOMAIN s : i # j => s[i] # s[j]
  BY ListOf
<1>2. NoClash(s) BY <1>1 DEF NoClash
<1> QED BY <1>1, <1>2 DEF In

\* two such lists, one after the other
LEMMA JoinOK ==
  ASSUME NEW s \in Seq(Pool!Acts), NEW t \in Seq(Pool!Acts), NoClash(s), NoClash(t),
         \A a, b \in Pool!Acts : In(s, a) /\ In(t, b) => ~Clash(a, b) /\ ~Clash(b, a)
  PROVE  s \o t \in Seq(Pool!Acts) /\ NoClash(s \o t) /\ \A a : In(s \o t, a) => In(s, a) \/ In(t, a)
<1>1. PICK u : u = s \o t OBVIOUS
<1>2. u \in Seq(Pool!Acts) /\ Len(u) = Len(s) + Len(t) BY <1>1
<1>3. Len(s) \in Nat /\ Len(t) \in Nat /\ DOMAIN s = 1..Len(s) /\ DOMAIN t = 1..Len(t) /\ DOMAIN u = 1..(Len(s) + Len(t))
  BY <1>2
<1>4. \A i \in 1..Len(s) : u[i] = s[i] BY <1>1, <1>3
<1>5. \A i \in DOMAIN u : i > Len(s) => u[i] = t[i - Len(s)] /\ i - Len(s) \in 1..Len(t) BY <1>1, <1>3
<1>6. ASSUME NEW i \in DOMAIN u, NEW j \in DOMAIN u, i # j PROVE ~Clash(u[i], u[j])
  <2>1. CASE i <= Len(s) /\ j <= Len(s)
    <3>1. i \in 1..Len(s) /\ j \in 1..Len(s) BY <2>1, <1>3
    <3> QED BY <3>1, <1>3, <1>4, <1>6 DEF NoClash
  <2>2. CASE i > Len(s) /\ j > Len(s)
    <3>1. i - Len(s) # j - Len(s) BY <1>3, <1>6
    <3> QED BY <3>1, <2>2, <1>3, <1>5 DEF NoClash
  <2>3. CASE i <= Len(s) /\ j > Len(s)
    <3>1. i \in 1..Len(s) BY <2>3, <1>3
    <3>2. In(s, u[i]) /\ In(t, u[j]) BY <3>1, <2>3, <1>3, <1>4, <1>5 DEF In
    <3> QED BY <3>2, <1>2
  <2>4. CASE i > Len(s) /\ j <= Len(s)
    <3>1. j \in 1..Len(s) BY <2>4, <1>3
    <3>2. In(s, u[j]) /\ In(t, u[i]) BY <3>1, <2>4, <1>3, <1>4, <1>5 DEF In
    <3> QED BY <3>2, <1>2
  <2> QED BY <2>1, <2>2, <2>3, <2>4, <1>3
<1>7. NoClash(u) BY <1>6 DEF NoClash
<1>8. ASSUME NEW a, In(u, a) PROVE In(s, a) \/ In(t, a)
  <2>1. PICK i \in DOMAIN u : u[i] = a BY <1>8 DEF In
  <2>2. CASE i <= Len(s)
    <3>1. i \in 1..Len(s) BY <2>2, <1>3
    <3> QED BY <3>1, <2>1, <1>3, <1>4 DEF In
  <2>3. CASE i > Len(s) BY <2>1, <2>3, <1>3, <1>5 DEF In
  <2> QED BY <2>2, <2>3, <1>3
<1> QED BY <1>1, <1>2, <1>7, <1>8

\* the first n of a list
LEMMA UpToIs ==
  ASSUME NEW A, NEW s \in Seq(A), NEW n \in Int
  PROVE  /\ Pool!UpTo(s, n) \in Seq(A)
         /\ \A i \in DOMAIN Pool!UpTo(s, n) : i \in DOMAIN s /\ Pool!UpTo(s, n)[i] = s[i]
<1>1. PICK k \in Int : k = (IF n < Len(s) THEN n ELSE Len(s)) /\ k <= Len(s) OBVIOUS
<1>2. Pool!UpTo(s, n) = SubSeq(s, 1, k) BY <1>1 DEF Pool!UpTo
<1>3. \A i \in 1..k : s[i] \in A BY <1>1
<1>4. /\ SubSeq(s, 1, k) \in Seq(A)
      /\ Len(SubSeq(s, 1, k)) = IF 1 <= k THEN k - 1 + 1 ELSE 0
      /\ \A i \in 1..(k - 1 + 1) : SubSeq(s, 1, k)[i] = s[1 + i - 1]
  BY <1>3, SubSeqProperties
<1>5. PICK u : u = SubSeq(s, 1, k) OBVIOUS
<1>6. u \in Seq(A) /\ DOMAIN u = 1..Len(u) /\ (Len(u) = IF 1 <= k THEN k ELSE 0) BY <1>1, <1>4, <1>5
<1>7. \A i \in DOMAIN u : i \in 1..k /\ i \in DOMAIN s /\ u[i] = s[i]
  <2>1. SUFFICES ASSUME NEW i \in DOMAIN u PROVE i \in 1..k /\ i \in DOMAIN s /\ u[i] = s[i] OBVIOUS
  <2>2. i \in 1..k BY <1>1, <1>6
  <2>3. u[i] = s[1 + i - 1] BY <2>2, <1>1, <1>4, <1>5
  <2>4. i \in 1..Len(s) /\ 1 + i - 1 = i BY <2>2, <1>1
  <2> QED BY <2>2, <2>3, <2>4
<1> QED BY <1>2, <1>5, <1>6, <1>7

KnowsAll(S) == S \subseteq Pool!Acts /\ IsFiniteSet(S) /\ (\A a \in S : ActOK(a)) /\ \A a, b \in S : a # b => ~Clash(a, b)

LEMMA KindsAre ==
  /\ IsFiniteSet(Pool!Kinds) /\ Pool!Moves \subseteq Pool!Kinds \ {"none"}
  /\ {"stop", "prepare", "spawn", "claim", "free", "lease"} \subseteq Pool!Kinds
<1> DEFINE f == <<"none", "stop", "take", "resume", "drop", "lost", "lost-running", "timeout", "ended", "unprepared",
                  "prepare", "spawn", "claim", "free", "lease">>
<1>1. IsFiniteSet(1..15)
  <2>1. 1 \in Int /\ 15 \in Int OBVIOUS
  <2> QED BY <2>1, FS_Interval
<1>2. DOMAIN f = 1..15 OBVIOUS
<1>3. \A t \in Pool!Kinds : \E x \in 1..15 : f[x] = t
  <2> SUFFICES ASSUME NEW t \in Pool!Kinds PROVE \E x \in 1..15 : f[x] = t OBVIOUS
  <2>1. /\ f[1] = "none" /\ f[2] = "stop" /\ f[3] = "take" /\ f[4] = "resume" /\ f[5] = "drop" /\ f[6] = "lost"
        /\ f[7] = "lost-running" /\ f[8] = "timeout" /\ f[9] = "ended" /\ f[10] = "unprepared" /\ f[11] = "prepare"
        /\ f[12] = "spawn" /\ f[13] = "claim" /\ f[14] = "free" /\ f[15] = "lease"
    OBVIOUS
  <2> HIDE DEF f
  <2> QED BY <2>1 DEF Pool!Kinds
<1> HIDE DEF f
<1>4. IsFiniteSet(Pool!Kinds) BY <1>1, <1>2, <1>3, ImageFinite
<1> QED BY <1>4 DEF Pool!Kinds, Pool!Moves

\* the plan stops no attempt whose slot nobody took
LEMMA LostKnows ==
  ASSUME PoolTypes, Core, NEW l \in Pool!Lives, NEW seen \in BOOLEAN, Pool!SlotLost(l, seen), entry[l].prep = "done"
  PROVE  l \in hist.taken
<1>1. seen = TRUE /\ (Pool!LeaseOf(l, TRUE) = Pool!NoSlot \/ slot[Pool!LeaseOf(l, TRUE)].id # entry[l].named)
  BY DEF Pool!SlotLost
<1>2. LeasesOK /\ PreparedOK BY DEF Core
<1>3. ASSUME l \notin hist.taken PROVE FALSE
  <2>1. PICK p \in Pool!Slots : slot[p].id = entry[l].named BY <1>2, <1>3 DEF PreparedOK
  <2>2. Pool!LeaseOf(l, TRUE) = p BY <2>1, <1>2, LeaseOfNamed
  <2> QED BY <2>1, <2>2, <1>1, PoolSets
<1> QED BY <1>3

\* who is to start next has nobody at work that a stop may yet end
LEMMA RestKnows ==
  ASSUME PoolTypes, Core, NEW l \in Pool!Lives, entry[l].step = "none", Pool!EntryDone(l)
  PROVE  AtRest(l)
<1>1. \A a \in agents : a.life = l => ~a.cur BY DEF Core, EntriesOK
<1>2. \A a \in agents : a.life = l => a \in Pool!OldAgents(l) BY <1>1 DEF Pool!OldAgents
<1>3. Pool!OldAgents(l) # {} => entry[l].stop # "no" BY DEF Pool!EntryDone, Pool!StopDue
<1>4. \A a \in agents : a.life = l => a.unstopped BY <1>1, <1>2, <1>3 DEF Core, EntriesOK
<1> QED BY <1>1, <1>4 DEF AtRest

\* one rule takes a record
LEMMA RuleKnows ==
  ASSUME PoolTypes, Core, NEW l \in Pool!Lives, NEW seen \in BOOLEAN, NEW what \in Pool!RecordRule(l, seen)
  PROVE  /\ \A other \in Pool!RecordRule(l, seen) : other = what
         /\ rec[l].st \notin {"none", "closed"} /\ what \in Pool!Moves \cup {"prepare", "spawn"}
         /\ what \in {"lost", "lost-running"} => l \in hist.taken
         /\ what = "prepare" => rec[l].st = "slot" /\ entry[l].step = "none" /\ Pool!LeaseOf(l, seen) # Pool!NoSlot /\ AtRest(l)
         /\ what = "spawn" => /\ rec[l].st = "slot" /\ entry[l].step = "none" /\ entry[l].prep = "done" /\ AtRest(l)
                              /\ Pool!LeaseOf(l, seen) # Pool!NoSlot /\ slot[Pool!LeaseOf(l, seen)].id = entry[l].named
<1>1. rec[l] \in LifeRec /\ entry[l] \in EntryRec BY DEF PoolTypes
<1>2. CASE what \in Pool!StepRule(l, seen) /\ rec[l].st = "slot" /\ Pool!RecordRule(l, seen) = Pool!StepRule(l, seen)
  <2>1. /\ \A other \in Pool!StepRule(l, seen) : other = what
        /\ what \in {"lost-running", "timeout", "ended", "unprepared", "lost", "prepare", "spawn"}
        /\ what = "lost-running" => entry[l].step = "running" /\ Pool!SlotLost(l, seen)
        /\ what = "lost" => entry[l].prep = "done" /\ Pool!SlotLost(l, seen)
        /\ what = "prepare" => entry[l].step = "none" /\ Pool!LeaseOf(l, seen) # Pool!NoSlot /\ Pool!EntryDone(l)
        /\ what = "spawn" => /\ entry[l].step = "none" /\ entry[l].prep = "done" /\ Pool!LeaseOf(l, seen) # Pool!NoSlot
                             /\ ~Pool!SlotLost(l, seen) /\ Pool!EntryDone(l)
    BY <1>2 DEF Pool!StepRule
  <2>2. entry[l].step = "running" => entry[l].prep = "done" BY DEF Core, EntriesOK
  <2>3. what \in {"lost", "lost-running"} => l \in hist.taken BY <2>1, <2>2, LostKnows
  <2>4. what \in {"prepare", "spawn"} => AtRest(l) BY <2>1, RestKnows
  <2>5. what = "spawn" => slot[Pool!LeaseOf(l, seen)].id = entry[l].named
    <3>1. LeasesOK BY DEF Core
    <3>2. what = "spawn" => seen BY <2>1, <3>1, LeaseOfMine
    <3> QED BY <2>1, <3>2 DEF Pool!SlotLost
  <2> QED BY <1>2, <2>1, <2>3, <2>4, <2>5 DEF Pool!Moves
<1>3. CASE ~(rec[l].st = "slot" /\ rec[l].asked # "drop")
  <2>1. /\ \A other \in Pool!RecordRule(l, seen) : other = what
        /\ what \in {"drop", "take", "resume"} /\ rec[l].st \notin {"none", "closed"}
    BY <1>1, <1>3 DEF Pool!RecordRule, LifeRec
  <2> QED BY <2>1 DEF Pool!Moves
<1>4. CASE rec[l].st = "slot" /\ rec[l].asked # "drop"
  <2>1. Pool!RecordRule(l, seen) = Pool!StepRule(l, seen) BY <1>4 DEF Pool!RecordRule
  <2> QED BY <2>1, <1>4, <1>2
<1> QED BY <1>3, <1>4

\* the records' rules, with the stops
LEMMA RecordActsOK ==
  ASSUME PoolTypes, Core, NEW seen \in BOOLEAN
  PROVE  /\ KnowsAll(Pool!RecordActs(seen))
         /\ \A a \in Pool!RecordActs(seen) :
              /\ a.do = "stop" \/ (a.do \in Pool!Moves \cup {"prepare", "spawn"} /\ rec[a.life].st \notin {"none", "closed"})
              /\ a.do = "prepare" => /\ a.slot \in Pool!Slots /\ slot[a.slot].id = a.id
                                     /\ rec[a.life].st = "slot" /\ Pool!LeaseOf(a.life, TRUE) = a.slot
<1> DEFINE Id(l) == IF Pool!LeaseOf(l, seen) = Pool!NoSlot THEN Pool!NoLease ELSE slot[Pool!LeaseOf(l, seen)].id
           f == [x \in Pool!Kinds \X Pool!Lives |-> Pool!Act(x[1], x[2], Pool!LeaseOf(x[2], seen), Id(x[2]))]
<1>0. LeasesOK BY DEF Core
<1>1. ASSUME NEW l \in Pool!Lives
      PROVE  /\ Pool!LeaseOf(l, seen) \in {0} \cup Pool!Slots /\ Id(l) \in {0} \cup LeaseIds
             /\ Pool!LeaseOf(l, seen) # Pool!NoSlot =>
                  /\ Pool!LeaseOf(l, seen) \in Pool!Slots /\ slot[Pool!LeaseOf(l, seen)].holder = l
                  /\ Id(l) = slot[Pool!LeaseOf(l, seen)].id /\ Id(l) \in LeaseIds /\ seen = TRUE
  BY <1>0, LeaseOfMine, PoolSets
<1>2. ASSUME NEW a \in Pool!RecordActs(seen)
      PROVE  \E l \in Pool!Lives, what \in Pool!Kinds :
               /\ a = Pool!Act(what, l, Pool!LeaseOf(l, seen), Id(l))
               /\ what = "stop" \/ what \in Pool!RecordRule(l, seen)
  <2>1. PICK l \in Pool!Lives :
          a \in {Pool!Act(what, l, Pool!LeaseOf(l, seen), Id(l)) :
                   what \in (IF Pool!StopDue(l) THEN {"stop"} ELSE {}) \cup Pool!RecordRule(l, seen)}
    BY DEF Pool!RecordActs
  <2>2. PICK what \in (IF Pool!StopDue(l) THEN {"stop"} ELSE {}) \cup Pool!RecordRule(l, seen) :
          a = Pool!Act(what, l, Pool!LeaseOf(l, seen), Id(l))
    BY <2>1
  <2>3. what = "stop" \/ what \in Pool!RecordRule(l, seen) BY <2>2
  <2>4. what \in Pool!Kinds BY <2>3, RuleKnows, KindsAre
  <2> QED BY <2>2, <2>3, <2>4
<1>3. \A x \in Pool!Kinds \X Pool!Lives : f[x] = Pool!Act(x[1], x[2], Pool!LeaseOf(x[2], seen), Id(x[2])) OBVIOUS
<1>4. DOMAIN f = Pool!Kinds \X Pool!Lives OBVIOUS
<1> HIDE DEF f, Id
<1>5. IsFiniteSet(Pool!RecordActs(seen))
  <2>1. IsFiniteSet(Pool!Lives)
    <3>1. 1 \in Int /\ NLives \in Int BY PoolSets
    <3> QED BY <3>1, FS_Interval, PoolSets
  <2>2. IsFiniteSet(Pool!Kinds \X Pool!Lives) BY <2>1, KindsAre, FS_Product
  <2>3. ASSUME NEW a \in Pool!RecordActs(seen) PROVE \E x \in Pool!Kinds \X Pool!Lives : f[x] = a
    <3>1. PICK l \in Pool!Lives, what \in Pool!Kinds : a = Pool!Act(what, l, Pool!LeaseOf(l, seen), Id(l)) BY <1>2
    <3>2. <<what, l>> \in Pool!Kinds \X Pool!Lives /\ f[<<what, l>>] = a BY <3>1, <1>3
    <3> QED BY <3>2
  <2> QED BY <2>2, <2>3, <1>4, ImageFinite
<1>6. ASSUME NEW a \in Pool!RecordActs(seen)
      PROVE  \E l \in Pool!Lives, what \in Pool!Kinds :
               /\ a.do = what /\ a.life = l /\ a.slot = Pool!LeaseOf(l, seen) /\ a.id = Id(l) /\ a \in Pool!Acts
               /\ what = "stop" \/ what \in Pool!RecordRule(l, seen)
  <2>1. PICK l \in Pool!Lives, what \in Pool!Kinds : /\ a = Pool!Act(what, l, Pool!LeaseOf(l, seen), Id(l))
                                                     /\ what = "stop" \/ what \in Pool!RecordRule(l, seen)
    BY <1>2
  <2>2. a = [do |-> what, life |-> l, slot |-> Pool!LeaseOf(l, seen), id |-> Id(l)] BY <2>1, ActIs
  <2>3. a \in Pool!Acts BY <2>2, <1>1, ActsAre
  <2> QED BY <2>1, <2>2, <2>3
<1>7. ASSUME NEW a \in Pool!RecordActs(seen)
      PROVE  /\ ActOK(a) /\ a \in Pool!Acts
             /\ a.do = "stop" \/ (a.do \in Pool!Moves \cup {"prepare", "spawn"} /\ rec[a.life].st \notin {"none", "closed"})
             /\ a.do = "prepare" => /\ a.slot \in Pool!Slots /\ slot[a.slot].id = a.id
                                    /\ rec[a.life].st = "slot" /\ Pool!LeaseOf(a.life, TRUE) = a.slot
  <2>1. PICK l \in Pool!Lives, what \in Pool!Kinds :
               /\ a.do = what /\ a.life = l /\ a.slot = Pool!LeaseOf(l, seen) /\ a.id = Id(l) /\ a \in Pool!Acts
               /\ what = "stop" \/ what \in Pool!RecordRule(l, seen)
    BY <1>6
  <2>2. CASE what = "stop"
    BY <2>1, <2>2 DEF ActOK, Pool!Moves
  <2>3. CASE what \in Pool!RecordRule(l, seen)
    <3>1. /\ rec[l].st \notin {"none", "closed"} /\ what \in Pool!Moves \cup {"prepare", "spawn"}
          /\ what \in {"lost", "lost-running"} => l \in hist.taken
          /\ what = "prepare" => rec[l].st = "slot" /\ entry[l].step = "none" /\ Pool!LeaseOf(l, seen) # Pool!NoSlot /\ AtRest(l)
          /\ what = "spawn" => /\ rec[l].st = "slot" /\ entry[l].step = "none" /\ entry[l].prep = "done" /\ AtRest(l)
                               /\ Pool!LeaseOf(l, seen) # Pool!NoSlot /\ slot[Pool!LeaseOf(l, seen)].id = entry[l].named
      BY <2>3, RuleKnows
    <3>2. what \in Pool!Moves => MoveOK(a) BY <3>1, <2>1 DEF MoveOK
    <3>3. what = "prepare" => /\ a.slot \in Pool!Slots /\ slot[a.slot].id = a.id /\ slot[a.slot].holder = a.life
                              /\ a.id \in LeaseIds /\ Pool!LeaseOf(l, TRUE) = a.slot
      BY <3>1, <2>1, <1>1
    <3>4. what = "prepare" => PrepareOK(a)
      <4>1. what = "prepare" => \A p \in Pool!Slots : slot[p].id = a.id => p = a.slot BY <3>3, <1>0, PoolSets DEF LeasesOK
      <4> QED BY <4>1, <3>1, <3>3, <2>1, PoolSets DEF PrepareOK
    <3>5. what = "spawn" => SpawnOK(a) BY <3>1, <2>1 DEF SpawnOK
    <3>6. ActOK(a) BY <3>1, <3>2, <3>4, <3>5, <2>1 DEF ActOK, Pool!Moves
    <3> QED BY <3>1, <3>3, <3>6, <2>1
  <2> QED BY <2>1, <2>2, <2>3
<1>8. ASSUME NEW a \in Pool!RecordActs(seen), NEW b \in Pool!RecordActs(seen), a # b
      PROVE  ~Clash(a, b)
  <2>1. PICK l \in Pool!Lives, what \in Pool!Kinds :
               /\ a.do = what /\ a.life = l /\ a.slot = Pool!LeaseOf(l, seen) /\ a.id = Id(l) /\ a \in Pool!Acts
               /\ what = "stop" \/ what \in Pool!RecordRule(l, seen)
    BY <1>6
  <2>2. PICK m \in Pool!Lives, other \in Pool!Kinds :
               /\ b.do = other /\ b.life = m /\ b.slot = Pool!LeaseOf(m, seen) /\ b.id = Id(m) /\ b \in Pool!Acts
               /\ other = "stop" \/ other \in Pool!RecordRule(m, seen)
    BY <1>6
  <2>3. "stop" \notin Sole /\ "lease" \notin Sole /\ "free" \notin Sole BY DEF Sole, Pool!Moves
  <2>4. a.do \notin {"free", "lease"} /\ b.do \notin {"free", "lease"} BY <1>7 DEF Pool!Moves
  <2>5. a.do \in Sole /\ b.do \in Sole => l # m
    <3>1. SUFFICES ASSUME a.do \in Sole, b.do \in Sole, l = m PROVE FALSE OBVIOUS
    <3>2. what \in Pool!RecordRule(l, seen) /\ other \in Pool!RecordRule(l, seen) BY <2>1, <2>2, <2>3, <3>1
    <3>3. what = other BY <3>2, RuleKnows
    <3>4. a = b BY <3>1, <3>3, <2>1, <2>2, SameAct
    <3> QED BY <3>4, <1>8
  <2> QED BY <2>1, <2>2, <2>4, <2>5 DEF Clash
<1> QED BY <1>5, <1>7, <1>8 DEF KnowsAll

\* the claim is of a life that has no record yet
LEMMA ClaimActsOK ==
  /\ KnowsAll(Pool!ClaimActs)
  /\ \A a \in Pool!ClaimActs : a.do = "claim" /\ rec[a.life].st = "none"
<1> DEFINE NextUp(m) == \A k \in 1..m : rec[k].st = "none" <=> k = m
<1>1. ASSUME NEW a \in Pool!ClaimActs
      PROVE  \E l \in Pool!Lives : a = Pool!Act("claim", l, Pool!NoSlot, Pool!NoLease) /\ NextUp(l)
  BY DEF Pool!ClaimActs
<1>2. ASSUME NEW a \in Pool!ClaimActs
      PROVE  \E l \in Pool!Lives : /\ a = Pool!Act("claim", l, Pool!NoSlot, Pool!NoLease) /\ a.do = "claim" /\ a.life = l
                                   /\ rec[l].st = "none" /\ NextUp(l) /\ a \in Pool!Acts
  <2>1. PICK l \in Pool!Lives : a = Pool!Act("claim", l, Pool!NoSlot, Pool!NoLease) /\ NextUp(l) BY <1>1
  <2>2. l \in 1..l BY PoolSets
  <2>3. rec[l].st = "none" BY <2>1, <2>2
  <2>4. a = [do |-> "claim", life |-> l, slot |-> 0, id |-> 0] BY <2>1, ActIs, PoolSets
  <2>5. a \in Pool!Acts BY <2>4, KindsAre, ActsAre
  <2> QED BY <2>1, <2>3, <2>4, <2>5
<1>3. ASSUME NEW l \in Pool!Lives, NEW m \in Pool!Lives, NextUp(l), NextUp(m) PROVE l = m
  <2>1. l \in Nat /\ m \in Nat /\ l >= 1 /\ m >= 1 BY PoolSets
  <2>2. l <= m \/ m <= l BY <2>1
  <2>3. (l <= m => l \in 1..m) /\ (m <= l => m \in 1..l) /\ l \in 1..l /\ m \in 1..m BY <2>1
  <2> QED BY <2>2, <2>3, <1>3
<1> HIDE DEF NextUp
<1>4. IsFiniteSet(Pool!ClaimActs)
  <2> DEFINE f == [l \in Pool!Lives |-> Pool!Act("claim", l, Pool!NoSlot, Pool!NoLease)]
  <2>1. IsFiniteSet(Pool!Lives)
    <3>1. 1 \in Int /\ NLives \in Int BY PoolSets
    <3> QED BY <3>1, FS_Interval, PoolSets
  <2>2. DOMAIN f = Pool!Lives /\ \A a \in Pool!ClaimActs : \E l \in Pool!Lives : f[l] = a BY <1>1
  <2> HIDE DEF f
  <2> QED BY <2>1, <2>2, ImageFinite
<1>5. \A a \in Pool!ClaimActs : ActOK(a) BY <1>2 DEF ActOK, Pool!Moves
<1>6. \A a, b \in Pool!ClaimActs : a = b BY <1>1, <1>3
<1> QED BY <1>2, <1>4, <1>5, <1>6 DEF KnowsAll

\* what is to be freed is nobody's
LEMMA FreeActsOK ==
  ASSUME PoolTypes, Core
  PROVE  /\ KnowsAll(Pool!FreeActs)
         /\ \A a \in Pool!FreeActs : a.do = "free" /\ a.slot \in Pool!Slots /\ slot[a.slot].id = a.id /\ Pool!FreeDue(a.slot)
<1> DEFINE f == [p \in Pool!Slots |-> Pool!Act("free", slot[p].holder, p, slot[p].id)]
<1>0. LeasesOK /\ PreparedOK /\ EntriesOK /\ Alone /\ slot \in [Pool!Slots -> SlotRec] /\ agents \subseteq AgentRec
  BY DEF Core, PoolTypes
<1>1. ASSUME NEW a \in Pool!FreeActs PROVE \E p \in Pool!Slots : f[p] = a /\ Pool!FreeDue(p)
  BY DEF Pool!FreeActs
<1>2. \A p \in Pool!Slots : f[p] = [do |-> "free", life |-> slot[p].holder, slot |-> p, id |-> slot[p].id] BY ActIs
<1>3. DOMAIN f = Pool!Slots OBVIOUS
<1> HIDE DEF f
<1>4. IsFiniteSet(Pool!FreeActs)
  <2>1. IsFiniteSet(Pool!Slots)
    <3>1. 1 \in Int /\ NSlots \in Int BY PoolSets
    <3> QED BY <3>1, FS_Interval, PoolSets
  <2> QED BY <2>1, <1>1, <1>3, ImageFinite
<1>5. ASSUME NEW a \in Pool!FreeActs
      PROVE  /\ a.do = "free" /\ a.slot \in Pool!Slots /\ slot[a.slot].id = a.id /\ Pool!FreeDue(a.slot)
             /\ a.life = slot[a.slot].holder /\ f[a.slot] = a /\ a.life \in Pool!Lives /\ a \in Pool!Acts
             /\ a.id \in LeaseIds /\ slot[a.slot].frees < Pool!FREE_ATTEMPTS
             /\ ~Pool!Held(a.life, a.slot) /\ ~Pool!RunningIn(a.life)
  <2>1. PICK p \in Pool!Slots : f[p] = a /\ Pool!FreeDue(p) BY <1>1
  <2>2. a = [do |-> "free", life |-> slot[p].holder, slot |-> p, id |-> slot[p].id] BY <2>1, <1>2
  <2>3. slot[p].holder \in Pool!Lives /\ ~Pool!Held(slot[p].holder, p) /\ ~Pool!RunningIn(slot[p].holder)
        /\ slot[p].frees < Pool!FREE_ATTEMPTS
    BY <2>1 DEF Pool!FreeDue
  <2>4. slot[p].id \in LeaseIds BY <2>3, <1>0 DEF LeasesOK, SlotRec
  <2>5. a \in Pool!Acts BY <2>2, <2>3, <2>4, KindsAre, ActsAre
  <2> QED BY <2>1, <2>2, <2>3, <2>4, <2>5
<1>6. ASSUME NEW a \in Pool!FreeActs PROVE ActOK(a)
  <2>1. ASSUME NEW b \in agents, ~b.loose PROVE b.id # a.id
    <3>1. slot[b.slot].holder = b.life /\ slot[b.slot].id = b.id BY <1>0, <2>1 DEF Alone
    <3>2. b.slot \in Pool!Slots BY <1>0 DEF AgentRec
    <3>3. b.id = a.id => b.slot = a.slot BY <3>1, <3>2, <1>0, <1>5, PoolSets DEF LeasesOK
    <3>4. b.life # a.life BY <1>5 DEF Pool!RunningIn
    <3> QED BY <3>1, <3>3, <3>4, <1>5
  <2>2. ASSUME NEW l \in Pool!Lives, entry[l].prep = "done" PROVE entry[l].named # a.id
    <3>1. SUFFICES ASSUME entry[l].named = a.id PROVE FALSE OBVIOUS
    <3>4. a.slot \in Pool!Slots /\ slot[a.slot].id = entry[l].named BY <3>1, <1>5
    <3>2. Pool!LeaseOf(l, TRUE) = a.slot /\ slot[a.slot].holder = l
      BY <3>4, <2>2, <1>0, LeaseOfNamed
    <3>3. rec[l].st = "slot" BY <2>2, <1>0 DEF EntriesOK
    <3> QED BY <3>2, <3>3, <1>5 DEF Pool!Held, Pool!InFactory
  <2>3. FreeOK(a) BY <2>1, <2>2, <1>5, PoolSets DEF FreeOK
  <2> QED BY <2>3, <1>5 DEF ActOK, Pool!Moves
<1>7. ASSUME NEW a \in Pool!FreeActs, NEW b \in Pool!FreeActs, a # b PROVE ~Clash(a, b)
  <2>1. a.do = "free" /\ b.do = "free" BY <1>5
  <2>2. a.id # b.id
    <3>1. SUFFICES ASSUME a.id = b.id PROVE FALSE OBVIOUS
    <3>2. a.slot = b.slot BY <3>1, <1>0, <1>5, PoolSets DEF LeasesOK
    <3>3. f[a.slot] = a /\ f[b.slot] = b BY <1>5
    <3> QED BY <3>2, <3>3, <1>7
  <2> QED BY <2>1, <2>2 DEF Clash, Sole, Pool!Moves
<1> QED BY <1>4, <1>5, <1>6, <1>7 DEF KnowsAll

\* the lives that get a slot, each once
LEMMA LeasePlanOK ==
  ASSUME PoolTypes, Core, NEW S \in SUBSET Pool!Unleased("slot"), NEW vanished \in Pool!SetToSeqs(S),
         NEW queued \in Pool!SetToSeqs(Pool!Unleased("queued"))
  PROVE  /\ Pool!LeasePlan(vanished, queued) \in Seq(Pool!Acts) /\ NoClash(Pool!LeasePlan(vanished, queued))
         /\ \A a \in Pool!Acts : In(Pool!LeasePlan(vanished, queued), a) => ActOK(a) /\ a.do = "lease"
<1> DEFINE L == Pool!Lives
<1>1. IsFiniteSet(L) /\ L \in SUBSET Nat
  <2>1. 1 \in Int /\ NLives \in Int BY PoolSets
  <2> QED BY <2>1, FS_Interval, PoolSets
<1>2. ASSUME NEW st, NEW l \in Pool!Unleased(st)
      PROVE  l \in L /\ rec[l].st = st /\ (entry[l].lease = "done" \/ entry[l].tries < Pool!LEASE_ATTEMPTS)
  <2>1. l \in L /\ rec[l].st = st /\ ~Pool!Stalled(l) BY DEF Pool!Unleased
  <2>2. entry[l] \in EntryRec /\ (entry[l].lease = "none" => entry[l].tries = 0) BY <2>1 DEF PoolTypes, Core, EntriesOK
  <2>3. entry[l].lease \in {"none", "failed", "done"} /\ entry[l].tries \in 0..3 BY <2>2, PoolSets DEF EntryRec
  <2> QED BY <2>1, <2>2, <2>3, PoolSets DEF Pool!Stalled
<1>3. S \in SUBSET L /\ Pool!Unleased("queued") \in SUBSET L BY <1>2
<1>4. IsFiniteSet(S) /\ IsFiniteSet(Pool!Unleased("queued")) BY <1>1, <1>3, FS_Subset
<1>5. /\ vanished \in Seq(L) /\ (\A i \in DOMAIN vanished : vanished[i] \in S)
      /\ \A i, j \in DOMAIN vanished : i # j => vanished[i] # vanished[j]
  BY <1>3, <1>4, ListOf
<1>6. /\ queued \in Seq(L) /\ (\A i \in DOMAIN queued : queued[i] \in Pool!Unleased("queued"))
      /\ \A i, j \in DOMAIN queued : i # j => queued[i] # queued[j]
  BY <1>3, <1>4, ListOf
<1>7. PICK free \in Int : free = Pool!Cardinality(Pool!Spare)
  <2>1. Pool!Spare \in SUBSET Pool!Slots BY DEF Pool!Spare
  <2>2. 1 \in Int /\ NSlots \in Int BY PoolSets
  <2>3. IsFiniteSet(Pool!Spare) BY <2>1, <2>2, FS_Interval, FS_Subset, PoolSets
  <2> QED BY <2>3, FS_CardinalityType, PoolCounts
<1>8. PICK placed \in Int : placed = Pool!Cardinality(Pool!InFlight)
  <2>1. Pool!InFlight \in SUBSET L BY DEF Pool!InFlight
  <2>2. IsFiniteSet(Pool!InFlight) BY <2>1, <1>1, FS_Subset
  <2> QED BY <2>2, FS_CardinalityType, PoolCounts
<1>9. PICK first \in Seq(L) : /\ first = Pool!UpTo(vanished, free)
                              /\ \A i \in DOMAIN first : i \in DOMAIN vanished /\ first[i] = vanished[i]
  BY <1>5, UpToIs
<1>10. PICK room \in Int : room = (IF Cap - placed < free - Len(first) - Reserve THEN Cap - placed ELSE free - Len(first) - Reserve)
  <2>1. Len(first) \in Int /\ Cap \in Int /\ Reserve \in Int BY <1>9, SizesAssumption
  <2>2. Cap - placed \in Int /\ free - Len(first) - Reserve \in Int BY <2>1
  <2> QED BY <2>2
<1>11. PICK next \in Seq(L) : /\ next = Pool!UpTo(queued, room)
                              /\ \A i \in DOMAIN next : i \in DOMAIN queued /\ next[i] = queued[i]
  BY <1>6, UpToIs
<1>12. PICK order : order = first \o next OBVIOUS
<1>13. /\ order \in Seq(L) /\ DOMAIN order = 1..(Len(first) + Len(next)) /\ Len(first) \in Nat /\ Len(next) \in Nat
       /\ DOMAIN first = 1..Len(first) /\ DOMAIN next = 1..Len(next)
  BY <1>12
<1>14. \A i \in DOMAIN order : \/ i \in DOMAIN first /\ order[i] = first[i]
                               \/ i > Len(first) /\ i - Len(first) \in DOMAIN next /\ order[i] = next[i - Len(first)]
  BY <1>12, <1>13
<1>15. \A i \in DOMAIN order : \/ i \in DOMAIN vanished /\ order[i] = vanished[i] /\ order[i] \in S
                               \/ i > Len(first) /\ i - Len(first) \in DOMAIN queued /\ order[i] = queued[i - Len(first)]
                                  /\ order[i] \in Pool!Unleased("queued")
  BY <1>5, <1>6, <1>9, <1>11, <1>14
<1>16. \A i \in DOMAIN order : /\ order[i] \in L
                               /\ entry[order[i]].lease = "done" \/ entry[order[i]].tries < Pool!LEASE_ATTEMPTS
  BY <1>2, <1>15
<1>17. ASSUME NEW i \in DOMAIN order, NEW j \in DOMAIN order, i # j PROVE order[i] # order[j]
  <2> DEFINE Early(k) == k \in DOMAIN vanished /\ order[k] = vanished[k] /\ rec[order[k]].st = "slot"
             Late(k) == /\ k - Len(first) \in DOMAIN queued /\ order[k] = queued[k - Len(first)]
                        /\ rec[order[k]].st = "queued"
  <2>1. \A m \in S : rec[m].st = "slot" BY <1>2
  <2>2. \A m \in Pool!Unleased("queued") : rec[m].st = "queued" BY <1>2
  <2>3. i - Len(first) # j - Len(first) BY <1>13, <1>17
  <2>4. (Early(i) \/ Late(i)) /\ (Early(j) \/ Late(j)) BY <2>1, <2>2, <1>15
  <2>5. CASE Early(i) /\ Early(j) BY <2>5, <1>5, <1>17
  <2>6. CASE Late(i) /\ Late(j) BY <2>3, <2>6, <1>6
  <2>7. CASE Early(i) /\ Late(j) BY <2>7
  <2>8. CASE Late(i) /\ Early(j) BY <2>8
  <2> QED BY <2>4, <2>5, <2>6, <2>7, <2>8
<1> DEFINE plan == [i \in DOMAIN order |-> Pool!Act("lease", order[i], Pool!NoSlot, Pool!NoLease)]
<1>18. Pool!LeasePlan(vanished, queued) = plan
  BY <1>7, <1>8, <1>9, <1>10, <1>11, <1>12 DEF Pool!LeasePlan
<1>19. \A i \in DOMAIN order : plan[i] = [do |-> "lease", life |-> order[i], slot |-> 0, id |-> 0] BY ActIs, PoolSets
<1>20. DOMAIN plan = 1..(Len(first) + Len(next)) BY <1>13
<1>21. plan = [i \in 1..(Len(first) + Len(next)) |-> plan[i]] BY <1>20
<1> HIDE DEF plan, L
<1>22. \A i \in DOMAIN plan : plan[i] \in Pool!Acts /\ plan[i].do = "lease" /\ plan[i].life = order[i]
  BY <1>13, <1>16, <1>19, <1>20, ActsAre, KindsAre DEF L
<1>23. plan \in Seq(Pool!Acts) BY <1>13, <1>20, <1>21, <1>22
<1>24. NoClash(plan)
  <2> SUFFICES ASSUME NEW i \in DOMAIN plan, NEW j \in DOMAIN plan, i # j PROVE ~Clash(plan[i], plan[j]) BY DEF NoClash
  <2>1. plan[i].do = "lease" /\ plan[j].do = "lease" /\ plan[i].life # plan[j].life BY <1>13, <1>17, <1>20, <1>22
  <2> QED BY <2>1 DEF Clash, Sole, Pool!Moves
<1>25. ASSUME NEW a, In(plan, a) PROVE ActOK(a) /\ a.do = "lease"
  <2>1. PICK i \in DOMAIN plan : plan[i] = a BY <1>25 DEF In
  <2>2. a.do = "lease" /\ a.life \in Pool!Lives /\ LeaseOK(a) BY <2>1, <1>13, <1>16, <1>20, <1>22 DEF LeaseOK, L
  <2> QED BY <2>2 DEF ActOK, Pool!Moves
<1> QED BY <1>18, <1>23, <1>24, <1>25

LEMMA PlanStep ==
  ASSUME SlotInv, NEW seen \in BOOLEAN, Pool!Plan(seen), outside' \in 0..MaxOutside
  PROVE  SlotInv'
<1>1. PoolTypes /\ Core BY DEF SlotInv
<1>2. UNCHANGED <<slot, rec, entry, agents, op, unseen, late, hist>> /\ op = Pool!NoOp BY DEF Pool!Plan
<1>3. PICK records \in Pool!SetToSeqs(Pool!RecordActs(seen)), claim \in Pool!SetToSeqs(Pool!ClaimActs),
           frees \in Pool!SetToSeqs(Pool!FreeActs),
           vanished \in Pool!SetToSeqs({l \in Pool!Unleased("slot") : ~Pool!RunningIn(l)}),
           queued \in Pool!SetToSeqs(Pool!Unleased("queued")) :
        todo' = records \o claim \o IF seen THEN frees \o Pool!LeasePlan(vanished, queued) ELSE <<>>
  BY DEF Pool!Plan, Pool!Sorted
<1>4. /\ records \in Seq(Pool!Acts) /\ NoClash(records) /\ \A a : In(records, a) => a \in Pool!RecordActs(seen)
  BY <1>1, RecordActsOK, ListOK DEF KnowsAll
<1>5. /\ claim \in Seq(Pool!Acts) /\ NoClash(claim) /\ \A a : In(claim, a) => a \in Pool!ClaimActs
  BY ClaimActsOK, ListOK DEF KnowsAll
<1>6. /\ frees \in Seq(Pool!Acts) /\ NoClash(frees) /\ \A a : In(frees, a) => a \in Pool!FreeActs
  BY <1>1, FreeActsOK, ListOK DEF KnowsAll
<1>7. PICK leases : leases = Pool!LeasePlan(vanished, queued) OBVIOUS
<1>8. /\ leases \in Seq(Pool!Acts) /\ NoClash(leases)
      /\ \A a \in Pool!Acts : In(leases, a) => ActOK(a) /\ a.do = "lease"
  <2>1. {l \in Pool!Unleased("slot") : ~Pool!RunningIn(l)} \in SUBSET Pool!Unleased("slot") OBVIOUS
  <2> QED BY <2>1, <1>1, <1>7, LeasePlanOK
<1>9. \A a : In(records, a) => /\ a \in Pool!Acts /\ ActOK(a)
                               /\ a.do = "stop" \/ (a.do \in Pool!Moves \cup {"prepare", "spawn"} /\ rec[a.life].st \notin {"none", "closed"})
                               /\ a.do = "prepare" => /\ a.slot \in Pool!Slots /\ slot[a.slot].id = a.id
                                                      /\ rec[a.life].st = "slot" /\ Pool!LeaseOf(a.life, TRUE) = a.slot
  BY <1>1, <1>4, RecordActsOK DEF KnowsAll
<1>10. \A a : In(claim, a) => a \in Pool!Acts /\ ActOK(a) /\ a.do = "claim" /\ rec[a.life].st = "none"
  BY <1>5, ClaimActsOK DEF KnowsAll
<1>11. \A a : In(frees, a) => /\ a \in Pool!Acts /\ ActOK(a) /\ a.do = "free"
                              /\ a.slot \in Pool!Slots /\ slot[a.slot].id = a.id /\ Pool!FreeDue(a.slot)
  BY <1>1, <1>6, FreeActsOK DEF KnowsAll
<1>12. PICK first : first = records \o claim OBVIOUS
<1>13. /\ first \in Seq(Pool!Acts) /\ NoClash(first) /\ \A a : In(first, a) => In(records, a) \/ In(claim, a)
  <2>1. \A a, b \in Pool!Acts : In(records, a) /\ In(claim, b) => ~Clash(a, b) /\ ~Clash(b, a)
    <3>1. SUFFICES ASSUME NEW a \in Pool!Acts, NEW b \in Pool!Acts, In(records, a), In(claim, b)
                   PROVE  ~Clash(a, b) /\ ~Clash(b, a)
      OBVIOUS
    <3>2. b.do = "claim" /\ rec[b.life].st = "none" BY <3>1, <1>10
    <3>3. a.do = "stop" \/ (a.do \in Pool!Moves \cup {"prepare", "spawn"} /\ rec[a.life].st \notin {"none", "closed"})
      BY <3>1, <1>9
    <3> QED BY <3>2, <3>3 DEF Clash, Sole, Pool!Moves
  <2> QED BY <2>1, <1>4, <1>5, <1>12, JoinOK
<1>14. PICK second : second = frees \o leases OBVIOUS
<1>15. /\ second \in Seq(Pool!Acts) /\ NoClash(second) /\ \A a : In(second, a) => In(frees, a) \/ In(leases, a)
  <2>1. \A a, b \in Pool!Acts : In(frees, a) /\ In(leases, b) => ~Clash(a, b) /\ ~Clash(b, a)
    <3>1. \A a, b \in Pool!Acts : In(frees, a) /\ In(leases, b) => a.do = "free" /\ b.do = "lease" BY <1>8, <1>11
    <3> QED BY <3>1 DEF Clash, Sole, Pool!Moves
  <2> QED BY <2>1, <1>6, <1>8, <1>14, JoinOK
<1>16. PICK third : third = IF seen THEN second ELSE <<>> OBVIOUS
<1>17. /\ third \in Seq(Pool!Acts) /\ NoClash(third) /\ \A a : In(third, a) => In(frees, a) \/ In(leases, a)
  BY <1>15, <1>16 DEF In, NoClash
<1>18. todo' = first \o third
  <2>1. (IF seen THEN frees \o leases ELSE <<>>) = third BY <1>14, <1>16
  <2>2. todo' = (records \o claim) \o IF seen THEN frees \o leases ELSE <<>> BY <1>3, <1>7
  <2> QED BY <2>1, <2>2, <1>12
<1>19. /\ todo' \in Seq(Pool!Acts) /\ NoClash(todo') /\ \A a : In(todo', a) => In(first, a) \/ In(third, a)
  <2>1. ASSUME NEW a \in Pool!Acts, NEW b \in Pool!Acts, In(first, a), In(third, b)
        PROVE  ~Clash(a, b) /\ ~Clash(b, a)
    <3>1. CASE In(leases, b)
      <4>1. b.do = "lease" BY <3>1, <1>8
      <4>2. a.do # "lease" BY <2>1, <1>9, <1>10, <1>13 DEF Pool!Moves
      <4> QED BY <4>1, <4>2 DEF Clash, Sole, Pool!Moves
    <3>2. CASE In(frees, b)
      <4>1. b.do = "free" /\ b.slot \in Pool!Slots /\ slot[b.slot].id = b.id /\ Pool!FreeDue(b.slot) BY <3>2, <1>11
      <4>2. a.do # "free" BY <2>1, <1>9, <1>10, <1>13 DEF Pool!Moves
      <4>3. ASSUME a.do = "prepare" PROVE a.id # b.id
        <5>1. In(records, a) BY <4>3, <2>1, <1>10, <1>13
        <5>2. a.slot \in Pool!Slots /\ slot[a.slot].id = a.id /\ rec[a.life].st = "slot" /\ Pool!LeaseOf(a.life, TRUE) = a.slot
          BY <5>1, <4>3, <1>9
        <5>3. a.life \in Pool!Lives BY <5>1, <1>9 DEF ActOK
        <5>4. Pool!Held(a.life, a.slot) BY <5>2, <5>3 DEF Pool!Held, Pool!InFactory
        <5>5. slot[a.slot].holder = a.life /\ a.id \in LeaseIds
          <6>1. LeasesOK BY <1>1 DEF Core
          <6> QED BY <6>1, <5>2, <5>3, <1>1, LeaseOfMine, PoolSets
        <5>6. SUFFICES ASSUME a.id = b.id PROVE FALSE OBVIOUS
        <5>7. a.slot = b.slot BY <5>2, <5>5, <5>6, <4>1, <1>1, PoolSets DEF Core, LeasesOK
        <5> QED BY <5>4, <5>5, <5>7, <4>1 DEF Pool!FreeDue
      <4> QED BY <4>1, <4>2, <4>3 DEF Clash, Sole, Pool!Moves
    <3> QED BY <3>1, <3>2, <2>1, <1>17
  <2> QED BY <2>1, <1>13, <1>17, <1>18, JoinOK
<1>20. ASSUME NEW a \in Pool!Acts, Planned(a)' PROVE ActOK(a)'
  <2>1. In(todo', a) BY <1>20 DEF Planned, In
  <2>2. ActOK(a) BY <2>1, <1>8, <1>9, <1>10, <1>11, <1>13, <1>17, <1>19
  <2> QED BY <2>2, <1>1, <1>2, SameActs
<1>21. TodoOK' BY <1>19, <1>20 DEF TodoOK, NoClash
<1>22. Core' BY <1>1, <1>2, SameCore
<1>23. PoolTypes' BY <1>1, <1>2, <1>19 DEF PoolTypes
<1> QED BY <1>2, <1>21, <1>22, <1>23, IdleOK DEF SlotInv

\* The pool and the lives as they start.
LEMMA SlotInit ==
  ASSUME Pool!Init
  PROVE  SlotInv
<1>1. /\ slot = [p \in Pool!Slots |-> [id |-> 0, holder |-> 0, work |-> "clean", marker |-> 0, frees |-> 0]]
      /\ rec = [l \in Pool!Lives |-> [st |-> "none", resumed |-> FALSE, left |-> MaxSteps, asked |-> "no"]]
      /\ entry = [l \in Pool!Lives |-> [lease |-> "none", tries |-> 0, leased |-> 0, stop |-> "no",
                                        prep |-> "none", named |-> 0, step |-> "none"]]
      /\ agents = {} /\ unseen = {} /\ todo = <<>> /\ op = Pool!NoOp /\ late = {} /\ outside = 0
      /\ hist = [lost |-> FALSE, taken |-> {}, wrong |-> FALSE]
  BY PoolSets DEF Pool!Init
<1>2. op \in OpRec
  <2>1. op = [do |-> "none", life |-> 0, slot |-> 0, id |-> 0, at |-> "idle"] BY <1>1, NoOpIs
  <2>2. "none" \in Pool!Kinds /\ "idle" \in Pool!Stages BY DEF Pool!Kinds, Pool!Stages
  <2> QED BY <2>1, <2>2, PoolSets DEF OpRec
<1>3. slot \in [Pool!Slots -> SlotRec]
  <2>1. 0 \in 0..Pool!Person /\ 0 \in 0..Pool!FREE_ATTEMPTS BY PoolSets
  <2> QED BY <1>1, <2>1, PoolSets DEF SlotRec
<1>4. rec \in [Pool!Lives -> LifeRec]
  <2>1. MaxSteps \in 0..MaxSteps BY PoolSets
  <2> QED BY <1>1, <2>1 DEF LifeRec
<1>5. entry \in [Pool!Lives -> EntryRec]
  <2>1. 0 \in 0..Pool!LEASE_ATTEMPTS BY PoolSets
  <2> QED BY <1>1, <2>1, PoolSets DEF EntryRec
<1>6. outside \in 0..MaxOutside /\ todo \in Seq(Pool!Acts) BY <1>1, PoolSets
<1>7. PoolTypes BY <1>1, <1>2, <1>3, <1>4, <1>5, <1>6 DEF PoolTypes
<1>8. LeasesOK BY <1>1, PoolSets DEF LeasesOK
<1>9. EntriesOK BY <1>1 DEF EntriesOK
<1>10. PreparedOK BY <1>1 DEF PreparedOK
<1>11. Alone /\ WorkSaved /\ SlotKept BY <1>1 DEF Alone, WorkSaved, SlotKept
<1>12. TodoOK BY <1>1 DEF TodoOK, Planned, NoClash
<1>13. ToolOK
  <2>1. op.do = "none" /\ op.at = "idle" BY <1>1, NoOpIs
  <2>2. ASSUME NEW a \in Pool!Acts, InHand(a) PROVE RunOK(a)
    <3>1. a.do = "none" BY <2>1, <2>2 DEF InHand
    <3> QED BY <2>1, <3>1 DEF RunOK
  <2> QED BY <1>1, <2>2 DEF ToolOK
<1> QED BY <1>7, <1>8, <1>9, <1>10, <1>11, <1>12, <1>13 DEF SlotInv, Core

\* A step that changes nothing.
LEMMA SlotStutter ==
  ASSUME SlotInv, UNCHANGED Pool!vars
  PROVE  SlotInv'
<1>1. UNCHANGED <<slot, rec, entry, agents, unseen, todo, op, late, outside, hist>> BY DEF Pool!vars
<1>2. PoolTypes BY DEF SlotInv
<1>3. Core' /\ TodoOK' /\ ToolOK' BY <1>1, SameTool
<1>4. PoolTypes' BY <1>1, <1>2 DEF PoolTypes
<1> QED BY <1>3, <1>4 DEF SlotInv

LEMMA OutsideKept ==
  ASSUME SlotInv, (UNCHANGED outside) \/ Pool!Happens
  PROVE  outside' \in 0..MaxOutside
BY PoolSets DEF SlotInv, PoolTypes, Pool!Happens

LEMMA LoopStep ==
  ASSUME SlotInv, Pool!Loop
  PROVE  SlotInv'
<1>1. CASE Pool!Plan(TRUE) /\ UNCHANGED outside BY <1>1, OutsideKept, PlanStep
<1>2. CASE Pool!Exec_Claim BY <1>2, RecordStep
<1>3. CASE Pool!Exec_Move BY <1>3, MoveStep
<1>4. CASE Pool!Exec_Tool BY <1>4, ToolStep
<1>5. CASE Pool!Exec_Stop(TRUE) /\ UNCHANGED outside BY <1>5, OutsideKept, StopStep
<1>6. CASE Pool!Exec_Spawn BY <1>6, SpawnStep
<1>7. CASE Pool!Check BY <1>7, CheckStep
<1>8. CASE Pool!Get BY <1>8, GetStep
<1>9. CASE Pool!Save BY <1>9, SaveStep
<1>10. CASE Pool!Reset BY <1>10, ResetStep
<1>11. CASE Pool!Mark BY <1>11, MarkStep
<1>12. CASE Pool!Return BY <1>12, ReturnStep
<1>13. CASE Pool!Answer BY <1>13, AnswerStep
<1>14. CASE Pool!Spawned BY <1>14, SpawnedStep
<1> QED BY <1>1, <1>2, <1>3, <1>4, <1>5, <1>6, <1>7, <1>8, <1>9, <1>10, <1>11, <1>12, <1>13, <1>14 DEF Pool!Loop

LEMMA OutsideStep ==
  ASSUME SlotInv, Pool!Outside
  PROVE  SlotInv'
<1>1. CASE Pool!Plan(FALSE) /\ Pool!Happens BY <1>1, OutsideKept, PlanStep
<1>2. CASE Pool!Exec_Stop(FALSE) /\ Pool!Happens BY <1>2, OutsideKept, StopStep
<1>3. CASE Pool!ToolFails BY <1>3, ToolFailsStep
<1>4. CASE Pool!Reload BY <1>4, ReloadStep
<1>5. ASSUME NEW l \in Pool!Lives, Pool!LateGet(l) PROVE SlotInv' BY <1>5, LateGetStep
<1>6. ASSUME NEW l \in Pool!Lives, NEW what \in {"drop", "resume", "timeout"}, Pool!Asked(l, what) PROVE SlotInv'
  BY <1>6, AskedStep
<1>7. ASSUME NEW p \in Pool!Slots, Pool!HandReturn(p) PROVE SlotInv' BY <1>7, HandReturnStep
<1>8. ASSUME NEW p \in Pool!Slots, Pool!HandTake(p) \/ Pool!HandGive(p) PROVE SlotInv' BY <1>8, TakeGive
<1> QED BY <1>1, <1>2, <1>3, <1>4, <1>5, <1>6, <1>7, <1>8 DEF Pool!Outside

LEMMA SlotNext ==
  ASSUME SlotInv, [Pool!Next]_(Pool!vars)
  PROVE  SlotInv'
<1>1. CASE Pool!Loop BY <1>1, LoopStep
<1>2. ASSUME NEW a \in agents, Pool!Write(a) PROVE SlotInv' BY <1>2, WriteStep
<1>3. ASSUME NEW a \in agents, Pool!Ends(a) PROVE SlotInv' BY <1>3, EndsStep
<1>4. ASSUME NEW u \in unseen, Pool!LateSpawn(u) \/ Pool!EndsUnseen(u) PROVE SlotInv' BY <1>4, UnseenStep
<1>5. ASSUME NEW u \in unseen, Pool!WriteUnseen(u) PROVE SlotInv' BY <1>5, WriteUnseenStep
<1>6. CASE Pool!Outside BY <1>6, OutsideStep
<1>7. CASE UNCHANGED Pool!vars BY <1>7, SlotStutter
<1> QED BY <1>1, <1>2, <1>3, <1>4, <1>5, <1>6, <1>7 DEF Pool!Next, Pool!Agents

\* What a planned action, and a run of the tool, may rely on until they are done: the plan is made of
\* the pool as it was read, and every action of it acts on the pool as it is by then.
THEOREM SlotInvHolds == Pool!Spec => []SlotInv
<1>1. Pool!Init => SlotInv BY SlotInit
<1>2. SlotInv /\ [Pool!Next]_(Pool!vars) => SlotInv' BY SlotNext
<1> QED BY <1>1, <1>2, PTL DEF Pool!Spec

\* The pool's state keeps its types (TypeOK of Slots).
THEOREM SlotTypeCorrect == Pool!Spec => []Pool!TypeOK
<1>1. SlotInv => Pool!TypeOK
  <2> SUFFICES ASSUME SlotInv PROVE Pool!TypeOK OBVIOUS
  <2>1. PoolTypes /\ EntriesOK BY DEF SlotInv, Core
  <2>2. op \in {Pool!Run(a, at) : a \in Pool!Acts, at \in Pool!Stages}
    <3>1. PICK a \in Pool!Acts : InHand(a) BY <2>1, HandAct
    <3>2. op \in OpRec BY <2>1 DEF PoolTypes
    <3>3. op = [do |-> op.do, life |-> op.life, slot |-> op.slot, id |-> op.id, at |-> op.at] /\ op.at \in Pool!Stages
      BY <3>2 DEF OpRec
    <3>4. op = Pool!Run(a, op.at) BY <3>1, <3>3 DEF InHand, Pool!Run
    <3> QED BY <3>3, <3>4
  <2>3. \A l \in Pool!Lives : entry[l].step = "running" <=> \E a \in agents : a.life = l /\ a.cur BY <2>1 DEF EntriesOK
  <2> QED BY <2>1, <2>2, <2>3 DEF PoolTypes, SlotRec, LifeRec, EntryRec, AgentRec, UnseenRec, Pool!TypeOK
<1> QED BY <1>1, SlotInvHolds, PTL

\* The loop's agents work only in the slot their life holds on the lease it was prepared on, and one
\* to a slot (Alone of SlotState): rules-slots' W1 and W2, slotLost, the prepare's compare and the
\* marker keep it so, for any number of slots, lives, lost answers, late gets and hands in the pool.
\* It is of the agents the ledger names: one whose spawn was given up before its id came (unseen)
\* is not among them, and does work beside the slot's next agent (MC_Slots_unseen.cfg).
THEOREM AloneHolds == Pool!Spec => []Alone
<1>1. SlotInv => Alone BY DEF SlotInv, Core
<1> QED BY <1>1, SlotInvHolds, PTL

\* No reset of a slot's tree loses work that was not saved (WorkSaved of SlotState): factory-slot saves
\* and then resets, in two steps, and no agent that the ledger names works in the slot in between. The
\* work of one that no entry names is not counted: a free or a prepare may reset it away.
THEOREM WorkSavedHolds == Pool!Spec => []WorkSaved
<1>1. SlotInv => WorkSaved BY DEF SlotInv, Core
<1> QED BY <1>1, SlotInvHolds, PTL

\* An attempt is ended for its slot only when somebody took that slot (SlotKept of SlotState): the
\* plan's slotLost never takes the loop's own slot for lost.
THEOREM SlotKeptHolds == Pool!Spec => []SlotKept
<1>1. SlotInv => SlotKept BY DEF SlotInv, Core
<1> QED BY <1>1, SlotInvHolds, PTL
=============================================================================
