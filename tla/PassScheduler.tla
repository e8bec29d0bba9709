--------------------------- MODULE PassScheduler ---------------------------
(***************************************************************************)
(* When the factory loop runs a pass (rails.ts, driver-pass.ts).           *)
(*                                                                         *)
(* Timer ticks and pings ask for a pass.  A request reads the clock (an    *)
(* await), merges into the one pass queued, reads the clock again and asks *)
(* what to do: start, wait out the gap on a timer, or nothing.  The same   *)
(* question is asked when a pass ends and when a wait's timer fires.  Many *)
(* such tasks are in flight at once, each deciding on the clock it read.   *)
(***************************************************************************)
EXTENDS Naturals, FiniteSets, Bags

CONSTANTS
  Gap,          \* PASS_GAP_MS
  StormPasses,  \* STORM_PASSES
  StormWindow,  \* STORM_WINDOW_MS
  StormQuiet,   \* STORM_QUIET_MS
  None,         \* null
  Tasks,        \* bound: requests and steps in flight at once
  Delay,        \* how old the clock a task read may be when it goes on
  MaxAsks,      \* bound: requests in all
  AskUntil,     \* bound: no request arrives later
  MaxNow        \* bound: the clock stops here

ASSUME GapAssumption == Gap \in Nat \ {0} /\ StormPasses \in Nat
ASSUME StormAssumption == StormWindow \in Nat /\ StormQuiet \in Nat /\ StormWindow <= StormQuiet
ASSUME BoundAssumption == Delay \in Nat /\ MaxAsks \in Nat /\ AskUntil \in Nat /\ MaxNow \in Nat
ASSUME NoneAssumption == None \notin Nat \cup {"ping", "timer"}

VARIABLES
  now,            \* the clock
  running, queued, lastStart, wakeAt, pingStarts, pingsIgnoredUntil,  \* the Scheduler
  task,           \* what is in flight: a request or a step, and the clock it read
  timers,         \* the waits' timers, by when each is due
  bodies,         \* passes whose runPass has not ended
  asked,          \* requests so far
  pings           \* history: when each ping-driven pass started

sched == <<running, queued, lastStart, wakeAt, pingStarts, pingsIgnoredUntil>>
vars == <<now, sched, task, timers, bodies, asked, pings>>

Sources == {"ping", "timer"}
NoTask == [kind |-> "none", source |-> "timer", at |-> 0]
TaskType == [kind : {"none", "request", "step"}, source : Sources, at : Nat]

TypeOK ==
  /\ now \in Nat /\ bodies \in Nat /\ asked \in Nat
  /\ running \in BOOLEAN /\ queued \in Sources \cup {None}
  /\ lastStart \in Nat \cup {None} /\ wakeAt \in Nat \cup {None}
  /\ pingStarts \in SUBSET Nat /\ pingsIgnoredUntil \in Nat \cup {None}
  /\ pings \in SUBSET Nat
  /\ task \in [Tasks -> TaskType]

\* newScheduler
Init ==
  /\ now = 0 /\ bodies = 0 /\ asked = 0 /\ pings = {}
  /\ running = FALSE /\ queued = None /\ lastStart = None /\ wakeAt = None
  /\ pingStarts = {} /\ pingsIgnoredUntil = None
  /\ task = [i \in Tasks |-> NoTask] /\ timers = EmptyBag

\* when a breaker opened at t lets pings in again
OpenUntil(t) == t + StormQuiet

PingsIgnored(t) == pingsIgnoredUntil # None /\ t < pingsIgnoredUntil

Free(i) == task[i].kind = "none"
StepAt(i, t) == task' = [task EXCEPT ![i] = [kind |-> "step", source |-> "timer", at |-> t]]

\* request, up to its clock read: a tick, a ping, the first pass
Ask(i, source) ==
  /\ Free(i) /\ now <= AskUntil /\ asked < MaxAsks
  /\ asked' = asked + 1
  /\ task' = [task EXCEPT ![i] = [kind |-> "request", source |-> source, at |-> now]]
  /\ UNCHANGED <<now, sched, timers, bodies, pings>>

\* mutant: a ping takes the place of a timer tick already queued
RequestPassLast(i) ==
  /\ task[i].kind = "request"
  /\ queued' = IF task[i].source = "ping" /\ PingsIgnored(task[i].at) THEN queued ELSE task[i].source
  /\ StepAt(i, now)
  /\ UNCHANGED <<now, running, lastStart, wakeAt, pingStarts, pingsIgnoredUntil, timers, bodies, asked, pings>>

\* requestPass: a ping is dropped while the breaker is open; a timer tick is not,
\* and the pass queued is the timer's once any tick asked for it
RequestPass(i) ==
  /\ task[i].kind = "request"
  /\ queued' =
       CASE task[i].source = "ping" /\ PingsIgnored(task[i].at) -> queued
         [] task[i].source = "timer" \/ queued = "timer"        -> "timer"
         [] OTHER                                               -> "ping"
  /\ StepAt(i, now)
  /\ UNCHANGED <<now, running, lastStart, wakeAt, pingStarts, pingsIgnoredUntil, timers, bodies, asked, pings>>

\* mutant: a wait already set is judged, a pass that runs is not
IdleAtWaiting(t) == queued = None \/ (wakeAt # None /\ t < wakeAt)

\* nextPass's three answers for the clock t
IdleAt(t) == running \/ queued = None \/ (wakeAt # None /\ t < wakeAt)
InGap(t) == lastStart # None /\ t < lastStart + Gap

\* step, when there is nothing to do now
StepIdle(i) ==
  /\ task[i].kind = "step" /\ IdleAt(task[i].at)
  /\ task' = [task EXCEPT ![i] = NoTask]
  /\ UNCHANGED <<now, sched, timers, bodies, asked, pings>>

\* mutant: the wait is noted and no timer is set
StepWaitNoTimer(i) ==
  /\ task[i].kind = "step" /\ ~IdleAt(task[i].at) /\ InGap(task[i].at)
  /\ wakeAt' = lastStart + Gap
  /\ timers' = timers
  /\ task' = [task EXCEPT ![i] = NoTask]
  /\ UNCHANGED <<now, running, queued, lastStart, pingStarts, pingsIgnoredUntil, bodies, asked, pings>>

\* mutant: the timer waits a whole gap from now
StepWaitWhole(i) ==
  /\ task[i].kind = "step" /\ ~IdleAt(task[i].at) /\ InGap(task[i].at)
  /\ wakeAt' = lastStart + Gap
  /\ timers' = timers (+) SetToBag({now + Gap})
  /\ task' = [task EXCEPT ![i] = NoTask]
  /\ UNCHANGED <<now, running, queued, lastStart, pingStarts, pingsIgnoredUntil, bodies, asked, pings>>

\* step, while the gap lasts: one timer for its end
StepWait(i) ==
  /\ task[i].kind = "step" /\ ~IdleAt(task[i].at) /\ InGap(task[i].at)
  /\ wakeAt' = lastStart + Gap
  /\ timers' = timers (+) SetToBag({now + (lastStart + Gap - task[i].at)})
  /\ task' = [task EXCEPT ![i] = NoTask]
  /\ UNCHANGED <<now, running, queued, lastStart, pingStarts, pingsIgnoredUntil, bodies, asked, pings>>

\* the ping-driven passes that still count at t, and whether one more opens the breaker
InWindow(t) == {u \in pingStarts : t < u + StormWindow}

\* mutant: the storm is counted before the pass that starts is
StormsBefore(t) == Cardinality(InWindow(t)) > StormPasses

Storms(t) == Cardinality(InWindow(t) \cup {t}) > StormPasses

\* step, when a pass starts: the scheduler's next state at the clock t, and runPass
StepStart(i) ==
  LET t == task[i].at IN
  /\ task[i].kind = "step" /\ ~IdleAt(t) /\ ~InGap(t)
  /\ running' = TRUE /\ queued' = None /\ lastStart' = t /\ wakeAt' = None
  /\ IF queued = "ping" /\ Storms(t)
     THEN pingStarts' = {} /\ pingsIgnoredUntil' = OpenUntil(t)
     ELSE /\ pingStarts' = InWindow(t) \cup (IF queued = "ping" THEN {t} ELSE {})
          /\ pingsIgnoredUntil' = IF PingsIgnored(t) THEN pingsIgnoredUntil ELSE None
  /\ pings' = IF queued = "ping" THEN pings \cup {t} ELSE pings
  /\ bodies' = bodies + 1
  /\ task' = [task EXCEPT ![i] = NoTask]
  /\ UNCHANGED <<now, timers, asked>>

\* runPass's finally: passEnded, and a step for what was queued meanwhile
PassEnded(i) ==
  /\ bodies > 0 /\ Free(i)
  /\ bodies' = bodies - 1
  /\ running' = FALSE
  /\ StepAt(i, now)
  /\ UNCHANGED <<now, queued, lastStart, wakeAt, pingStarts, pingsIgnoredUntil, timers, asked, pings>>

\* a wait's timer fires: waitOver, and a step
WaitOver(i, due) ==
  /\ due <= now /\ Free(i)
  /\ timers' = timers (-) SetToBag({due})
  /\ wakeAt' = None
  /\ StepAt(i, now)
  /\ UNCHANGED <<now, running, queued, lastStart, pingStarts, pingsIgnoredUntil, bodies, asked, pings>>

\* the clock; what a task read grows old while it is in flight
Tick ==
  /\ now < MaxNow
  /\ \A i \in Tasks : ~Free(i) => now < task[i].at + Delay
  /\ now' = now + 1
  /\ UNCHANGED <<sched, task, timers, bodies, asked, pings>>

Next ==
  \/ Tick
  \/ \E i \in Tasks :
       \/ \E source \in Sources : Ask(i, source)
       \/ RequestPass(i) \/ StepIdle(i) \/ StepWait(i) \/ StepStart(i)
       \/ PassEnded(i)
       \/ \E due \in BagToSet(timers) : WaitOver(i, due)

\* an await is answered, a pass ends, a timer fires, and time passes
Fairness ==
  /\ WF_vars(Tick)
  /\ \A i \in Tasks : WF_vars(RequestPass(i) \/ StepIdle(i) \/ StepWait(i) \/ StepStart(i))
  /\ WF_vars(\E i \in Tasks : PassEnded(i))
  /\ WF_vars(\E i \in Tasks : \E due \in BagToSet(timers) : WaitOver(i, due))

Spec == Init /\ [][Next]_vars
FairSpec == Spec /\ Fairness

----------------------------------------------------------------------------
(* Properties *)

\* Passes never overlap: the scheduler says one runs exactly while one does, however
\* many requests, ends and timers decide on clocks they read earlier (nextPass).
NoOverlap == bodies = IF running THEN 1 ELSE 0

\* A ping storm is bounded: no window of StormWindow sees more than StormPasses + 1
\* ping-driven passes start, breaker openings and their forgotten counts included.
StormBounded ==
  \A t \in pings : Cardinality({u \in pings : t <= u /\ u < t + StormWindow}) <= StormPasses + 1

\* A queued pass starts: no interleaving of a pass's end, its wait and late timers
\* leaves a request waiting with nothing set to serve it.
QueuedStarts == queued # None ~> queued = None

\* A queued pass waits the gap out and no longer: while none runs, a task in flight asks
\* for it again, or a timer will before the gap is over, though waitOver clears a newer
\* wait, older timers still come and every step decides on a clock it read earlier.
SomethingAsks ==
  queued # None /\ ~running =>
    \/ \E i \in Tasks : ~Free(i)
    \/ \E due \in BagToSet(timers) : lastStart # None /\ due <= lastStart + Gap + Delay

\* A timer tick is never dropped nor taken for a ping: until a pass starts, the one
\* queued is the timer's (requestPass), breaker open or not.
TimerKept == [][queued = "timer" /\ ~(bodies' > bodies) => queued' = "timer"]_vars
============================================================================
