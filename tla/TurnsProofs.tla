---------------------------- MODULE TurnsProofs ----------------------------
(***************************************************************************)
(* Two queues of one module's memory. What PassScheduler promises for      *)
(* every gap, storm limit and number of tasks: its types, passes that      *)
(* never overlap, a queued pass that waits no longer than the gap, and a   *)
(* ping storm that stays bounded. And                                      *)
(* what GateTurns promises for any writers, capacities and restarts: turns *)
(* counted, in order, and no gate of a living agent taken for cut.         *)
(***************************************************************************)
EXTENDS PassScheduler, GateState, TLAPS, FiniteSetTheorems

\* the clock a task goes on with is at most Delay old
Clocks == \A i \in Tasks : ~Free(i) => task[i].at <= now /\ now <= task[i].at + Delay
\* A wait noted in the scheduler is the gap's, and has its timer: what SomethingAsks needs to be inductive.
WaitHasTimer ==
  wakeAt # None =>
    /\ lastStart # None /\ wakeAt = lastStart + Gap
    /\ \E due \in BagToSet(timers) : due <= wakeAt + Delay

AsksInv == Clocks /\ SomethingAsks /\ WaitHasTimer

\* Clock values stay clock values through nextPass (a bound on what StepStart writes).
LEMMA StartTypes ==
  ASSUME TypeOK, NEW i \in Tasks, StepStart(i)
  PROVE  pingStarts' \in SUBSET Nat /\ pingsIgnoredUntil' \in Nat \cup {None} /\ pings' \in SUBSET Nat
<1> DEFINE t == task[i].at
<1>1. t \in Nat
  BY DEF TypeOK, TaskType
<1>2. InWindow(t) \in SUBSET Nat
  BY DEF TypeOK, InWindow
<1>3. OpenUntil(t) \in Nat
  BY <1>1, StormAssumption DEF OpenUntil
<1>4. pings' \in SUBSET Nat
  BY <1>1 DEF TypeOK, StepStart
<1>5. CASE queued = "ping" /\ Storms(t)
  BY <1>3, <1>4, <1>5 DEF TypeOK, StepStart
<1>6. CASE ~(queued = "ping" /\ Storms(t))
  BY <1>1, <1>2, <1>4, <1>6 DEF TypeOK, StepStart
<1> QED BY <1>5, <1>6

\* Every step keeps every variable in its type.
LEMMA TypeStep == TypeOK /\ [Next]_vars => TypeOK'
<1> SUFFICES ASSUME TypeOK, [Next]_vars PROVE TypeOK'
  OBVIOUS
<1> USE DEF TypeOK, TaskType, Sources, NoTask
<1>1. CASE Tick
  BY <1>1 DEF Tick, sched
<1>2. ASSUME NEW i \in Tasks, NEW source \in Sources, Ask(i, source) PROVE TypeOK'
  BY <1>2 DEF Ask, sched
<1>3. ASSUME NEW i \in Tasks, RequestPass(i) PROVE TypeOK'
  BY <1>3 DEF RequestPass, StepAt
<1>4. ASSUME NEW i \in Tasks, StepIdle(i) PROVE TypeOK'
  BY <1>4 DEF StepIdle, sched
<1>5. ASSUME NEW i \in Tasks, StepWait(i) PROVE TypeOK'
  BY <1>5, GapAssumption DEF StepWait, InGap
<1>6. ASSUME NEW i \in Tasks, StepStart(i) PROVE TypeOK'
  <2>1. task' \in [Tasks -> TaskType] /\ task[i].at \in Nat
    BY <1>6 DEF StepStart
  <2>2. UNCHANGED <<now, asked>> /\ running' = TRUE /\ queued' = None /\ lastStart' = task[i].at
        /\ wakeAt' = None /\ bodies' = bodies + 1
    BY <1>6 DEF StepStart
  <2> QED BY <1>6, <2>1, <2>2, StartTypes
<1>7. ASSUME NEW i \in Tasks, PassEnded(i) PROVE TypeOK'
  <2>1. task' \in [Tasks -> TaskType]
    BY <1>7 DEF PassEnded, StepAt
  <2>2. bodies' \in Nat
    BY <1>7 DEF PassEnded
  <2> QED BY <1>7, <2>1, <2>2 DEF PassEnded
<1>8. ASSUME NEW i \in Tasks, NEW due, WaitOver(i, due) PROVE TypeOK'
  BY <1>8 DEF WaitOver, StepAt
<1>9. CASE UNCHANGED vars
  BY <1>9 DEF vars, sched
<1> QED BY <1>1, <1>2, <1>3, <1>4, <1>5, <1>6, <1>7, <1>8, <1>9 DEF Next

\* The scheduler's state keeps its type, whatever order requests, ends and timers come in.
THEOREM TypeCorrect == Spec => []TypeOK
<1>1. ASSUME Init PROVE TypeOK
  <2>1. NoTask \in TaskType
    BY DEF NoTask, TaskType, Sources
  <2>2. task \in [Tasks -> TaskType]
    BY <1>1, <2>1 DEF Init
  <2>3. running \in BOOLEAN
    BY <1>1 DEF Init
  <2>4. /\ now \in Nat /\ bodies \in Nat /\ asked \in Nat
        /\ pingStarts \in SUBSET Nat /\ pings \in SUBSET Nat
    BY <1>1 DEF Init
  <2>5. /\ queued \in Sources \cup {None} /\ lastStart \in Nat \cup {None}
        /\ wakeAt \in Nat \cup {None} /\ pingsIgnoredUntil \in Nat \cup {None}
    BY <1>1 DEF Init
  <2> QED BY <2>2, <2>3, <2>4, <2>5 DEF TypeOK
<1> QED BY <1>1, TypeStep, PTL DEF Spec

\* Two passes never run at once: nextPass starts none while one runs, however old the
\* clock it decided on.
THEOREM PassesNeverOverlap == Spec => []NoOverlap
<1>1. Init => NoOverlap
  BY DEF Init, NoOverlap
<1>2. TypeOK /\ NoOverlap /\ [Next]_vars => NoOverlap'
  <2> SUFFICES ASSUME TypeOK, NoOverlap, [Next]_vars PROVE NoOverlap'
    OBVIOUS
  <2>1. ASSUME NEW i \in Tasks, StepStart(i) PROVE NoOverlap'
    <3>1. ~running /\ running' = TRUE /\ bodies' = bodies + 1
      BY <2>1 DEF StepStart, IdleAt, TypeOK
    <3> QED BY <3>1 DEF NoOverlap
  <2>2. ASSUME NEW i \in Tasks, PassEnded(i) PROVE NoOverlap'
    <3>1. bodies > 0 /\ running' = FALSE /\ bodies' = bodies - 1
      BY <2>2 DEF PassEnded
    <3> QED BY <3>1 DEF NoOverlap
  <2>3. CASE UNCHANGED <<running, bodies>>
    BY <2>3 DEF NoOverlap
  <2> QED BY <2>1, <2>2, <2>3 DEF Next, vars, sched, Tick, Ask, RequestPass, StepIdle, StepWait, WaitOver
<1> QED BY <1>1, <1>2, TypeCorrect, PTL DEF Spec

\* A bag that gets one more element has it, and what it had.
LEMMA BagGrows == ASSUME NEW B, NEW x PROVE BagToSet(B (+) SetToBag({x})) = BagToSet(B) \cup {x}
  BY DEF BagToSet, SetToBag, (+)

\* The clocks tasks read stay young through every step.
LEMMA ClocksStep == ASSUME TypeOK, Clocks, [Next]_vars PROVE Clocks'
<1> USE DEF Clocks, Free, NoTask, TypeOK, TaskType
<1>1. CASE Tick
  <2>1. now' = now + 1 /\ task' = task /\ \A i \in Tasks : ~Free(i) => now < task[i].at + Delay
    BY <1>1 DEF Tick
  <2> QED BY <2>1, BoundAssumption
<1>2. ASSUME NEW i \in Tasks, NEW source \in Sources, Ask(i, source) PROVE Clocks'
  BY <1>2, BoundAssumption DEF Ask
<1>3. ASSUME NEW i \in Tasks, RequestPass(i) \/ PassEnded(i) PROVE Clocks'
  BY <1>3, BoundAssumption DEF RequestPass, PassEnded, StepAt
<1>4. ASSUME NEW i \in Tasks, StepIdle(i) \/ StepWait(i) \/ StepStart(i) PROVE Clocks'
  BY <1>4 DEF StepIdle, StepWait, StepStart
<1>5. ASSUME NEW i \in Tasks, NEW due, WaitOver(i, due) PROVE Clocks'
  BY <1>5, BoundAssumption DEF WaitOver, StepAt
<1>6. CASE UNCHANGED vars
  BY <1>6 DEF vars
<1> QED BY <1>1, <1>2, <1>3, <1>4, <1>5, <1>6 DEF Next

\* A step that leaves the scheduler and the tasks in flight keeps both.
LEMMA AsksKept ==
  ASSUME SomethingAsks, WaitHasTimer, UNCHANGED <<running, queued, lastStart, wakeAt, timers>>,
         \A i \in Tasks : Free(i)' => Free(i)
  PROVE  SomethingAsks' /\ WaitHasTimer'
  BY DEF SomethingAsks, WaitHasTimer, Free

\* A step that waits sets a timer for what is left of the gap, on a clock at most Delay old.
LEMMA WaitAsks ==
  ASSUME TypeOK, Clocks, NEW i \in Tasks, StepWait(i)
  PROVE  SomethingAsks' /\ WaitHasTimer'
<1> DEFINE due == now + (lastStart + Gap - task[i].at)
<1>1. task[i].at \in Nat /\ now \in Nat /\ task[i].at <= now /\ now <= task[i].at + Delay
  BY DEF TypeOK, TaskType, Clocks, StepWait, Free
<1>2. lastStart # None /\ lastStart \in Nat /\ lastStart' = lastStart /\ wakeAt' = lastStart + Gap
      /\ timers' = timers (+) SetToBag({due})
  BY DEF StepWait, InGap, TypeOK
<1>3. due <= lastStart + Gap + Delay
  BY <1>1, <1>2, GapAssumption, BoundAssumption
<1> HIDE DEF due
<1>4. due \in BagToSet(timers')
  BY <1>2, BagGrows
<1> QED BY <1>2, <1>3, <1>4 DEF SomethingAsks, WaitHasTimer

\* A queued pass never waits for nothing, nor longer than the gap: while none runs, a task
\* is in flight, or a timer set for no later than the gap's end and what a clock may lag.
THEOREM QueuedIsServed == Spec => []SomethingAsks
<1>1. Init => AsksInv
  BY DEF Init, AsksInv, SomethingAsks, WaitHasTimer, Clocks, Free, NoTask
<1>2. TypeOK /\ AsksInv /\ [Next]_vars => AsksInv'
  <2> SUFFICES ASSUME TypeOK, Clocks, SomethingAsks, WaitHasTimer, [Next]_vars
               PROVE  SomethingAsks' /\ WaitHasTimer'
    BY ClocksStep DEF AsksInv
  <2>1. CASE Tick
    BY <2>1, AsksKept DEF Tick, sched, Free
  <2>2. ASSUME NEW i \in Tasks, NEW source \in Sources, Ask(i, source)
        PROVE  SomethingAsks' /\ WaitHasTimer'
    BY <2>2, AsksKept DEF Ask, sched, TypeOK, Free
  <2>3. ASSUME NEW i \in Tasks, RequestPass(i) PROVE SomethingAsks' /\ WaitHasTimer'
    BY <2>3 DEF RequestPass, StepAt, TypeOK, SomethingAsks, WaitHasTimer, Free
  <2>4. ASSUME NEW i \in Tasks, StepIdle(i) PROVE SomethingAsks' /\ WaitHasTimer'
    <3>1. running \/ queued = None \/ wakeAt # None
      BY <2>4 DEF StepIdle, IdleAt
    <3>2. UNCHANGED <<running, queued, lastStart, wakeAt, timers>>
      BY <2>4 DEF StepIdle, sched
    <3> QED BY <3>1, <3>2 DEF SomethingAsks, WaitHasTimer
  <2>5. ASSUME NEW i \in Tasks, StepWait(i) PROVE SomethingAsks' /\ WaitHasTimer'
    BY <2>5, WaitAsks
  <2>6. ASSUME NEW i \in Tasks, StepStart(i) PROVE SomethingAsks' /\ WaitHasTimer'
    BY <2>6 DEF StepStart, SomethingAsks, WaitHasTimer
  <2>7. ASSUME NEW i \in Tasks, PassEnded(i) PROVE SomethingAsks' /\ WaitHasTimer'
    BY <2>7 DEF PassEnded, StepAt, TypeOK, SomethingAsks, WaitHasTimer, Free
  <2>8. ASSUME NEW i \in Tasks, NEW due, WaitOver(i, due) PROVE SomethingAsks' /\ WaitHasTimer'
    BY <2>8 DEF WaitOver, StepAt, TypeOK, SomethingAsks, WaitHasTimer, Free
  <2>9. CASE UNCHANGED vars
    BY <2>9, AsksKept DEF vars, sched, Free
  <2> QED BY <2>1, <2>2, <2>3, <2>4, <2>5, <2>6, <2>7, <2>8, <2>9 DEF Next
<1> QED BY <1>1, <1>2, TypeCorrect, PTL DEF Spec, AsksInv

\* A tick queued for a pass is not dropped before a pass starts (breaker or not).
THEOREM TimerTickKept == Spec => TimerKept
<1>1. TypeOK /\ [Next]_vars => [queued = "timer" /\ ~(bodies' > bodies) => queued' = "timer"]_vars
  <2> SUFFICES ASSUME TypeOK, Next, queued = "timer", ~(bodies' > bodies) PROVE queued' = "timer"
    BY DEF vars, sched
  <2>1. ASSUME NEW i \in Tasks, RequestPass(i) PROVE queued' = "timer"
    BY <2>1 DEF RequestPass
  <2>2. ASSUME NEW i \in Tasks, StepStart(i) PROVE FALSE
    BY <2>2 DEF StepStart, TypeOK
  <2>3. CASE UNCHANGED queued
    BY <2>3
  <2> QED BY <2>1, <2>2, <2>3 DEF Next, Tick, Ask, StepIdle, StepWait, PassEnded, WaitOver, sched
<1> QED BY <1>1, TypeCorrect, PTL DEF Spec, TimerKept

----------------------------------------------------------------------------
(* Ping storms.  The bound rests on what the scheduler's counts say of the     *)
(* passes that did start: those counted are the latest, and one no longer      *)
(* counted is out of the window or its storm opened the breaker.               *)

\* ping-driven passes start apart, none after the last pass
PingsApart ==
  /\ IsFiniteSet(pings) /\ pings \subseteq Nat
  /\ \A u \in pings : lastStart # None /\ u <= lastStart
  /\ \A u, v \in pings : u < v => u + Gap <= v
\* those counted are the latest, and no more than the storm's limit
CountedLatest ==
  /\ pingStarts \subseteq pings /\ Cardinality(pingStarts) <= StormPasses
  /\ \A u \in pingStarts, v \in pings : u <= v => v \in pingStarts
\* one no longer counted is out of the window, or its storm opened the breaker
Forgotten ==
  \A u \in pings \ pingStarts :
    u + StormWindow <= lastStart \/ (pingsIgnoredUntil # None /\ OpenUntil(u) <= pingsIgnoredUntil)
\* the breaker opened at a pass of its own, and the next ping's pass starts when it is over, but for the delay
Opened ==
  pingsIgnoredUntil # None =>
    /\ \E o \in pings : /\ pingsIgnoredUntil = OpenUntil(o)
                        /\ \A v \in pings : o < v => pingsIgnoredUntil <= v + Delay
    /\ queued = "ping" => pingsIgnoredUntil <= now
StormInv == Clocks /\ PingsApart /\ CountedLatest /\ Forgotten /\ Opened /\ StormBounded

\* the clock a step goes on with is younger than a gap and what the quiet has over the window
StormDelay == Delay + StormWindow <= StormQuiet + Gap /\ StormPasses >= 1

\* the ping-driven passes of the window that t opens
Window(t) == {u \in pings : t <= u /\ u < t + StormWindow}

\* What a step that starts no pass leaves as it was.
LEMMA StormKept ==
  ASSUME TypeOK, StormInv, Clocks', UNCHANGED <<lastStart, pingStarts, pingsIgnoredUntil, pings>>,
         queued' = "ping" /\ pingsIgnoredUntil # None => pingsIgnoredUntil <= now'
  PROVE  StormInv'
<1>1. PingsApart' /\ CountedLatest' /\ Forgotten'
  BY DEF StormInv, PingsApart, CountedLatest, Forgotten
<1>2. Opened'
  BY DEF StormInv, Opened
<1>3. StormBounded'
  BY DEF StormInv, StormBounded
<1> QED BY <1>1, <1>2, <1>3 DEF StormInv

\* A pass that starts, by the clock t that its step read.
LEMMA StartFields ==
  ASSUME TypeOK, StormInv, NEW i \in Tasks, StepStart(i)
  PROVE  LET t == task[i].at IN
         /\ t \in Nat /\ t <= now /\ now <= t + Delay
         /\ lastStart # None => lastStart \in Nat /\ lastStart + Gap <= t
         /\ \A u \in pings : u \in Nat /\ u + Gap <= t /\ u < t
         /\ queued = "ping" /\ pingsIgnoredUntil # None => pingsIgnoredUntil <= t + Delay
<1> DEFINE t == task[i].at
<1>1. t \in Nat /\ task[i].kind = "step" /\ ~Free(i)
  BY DEF TypeOK, TaskType, StepStart, Free
<1>2. t <= now /\ now <= t + Delay
  BY <1>1 DEF StormInv, Clocks
<1>3. lastStart # None => lastStart \in Nat /\ lastStart + Gap <= t
  BY <1>1, GapAssumption DEF TypeOK, StepStart, InGap
<1>4. \A u \in pings : u \in Nat /\ u + Gap <= t /\ u < t
  <2>1. SUFFICES ASSUME NEW u \in pings PROVE u \in Nat /\ u + Gap <= t /\ u < t
    OBVIOUS
  <2>2. u \in Nat /\ lastStart # None /\ u <= lastStart
    BY DEF StormInv, PingsApart
  <2>3. lastStart \in Nat /\ lastStart + Gap <= t
    BY <2>2, <1>3
  <2> HIDE DEF t
  <2> QED BY <1>1, <2>2, <2>3, GapAssumption
<1>5. queued = "ping" /\ pingsIgnoredUntil # None => pingsIgnoredUntil <= now /\ pingsIgnoredUntil \in Nat
  BY DEF StormInv, Opened, TypeOK
<1>6. now \in Nat /\ Delay \in Nat
  BY BoundAssumption DEF TypeOK
<1>7. queued = "ping" /\ pingsIgnoredUntil # None => pingsIgnoredUntil <= t + Delay
  BY <1>1, <1>2, <1>5, <1>6
<1> QED BY <1>1, <1>2, <1>3, <1>4, <1>7

LEMMA StartApart ==
  ASSUME TypeOK, StormInv, NEW i \in Tasks, StepStart(i)
  PROVE  PingsApart' /\ Clocks'
<1> DEFINE t == task[i].at
<1>1. /\ t \in Nat /\ lastStart' = t /\ (pings' = pings \/ pings' = pings \cup {t})
      /\ task' = [task EXCEPT ![i] = NoTask] /\ now' = now
  BY StartFields DEF StepStart
<1>2. \A u \in pings : u \in Nat /\ u + Gap <= t /\ u < t
  BY StartFields
<1>3. Clocks'
  BY <1>1 DEF StormInv, Clocks, Free, NoTask, TypeOK
<1> HIDE DEF t
<1>4. IsFiniteSet(pings') /\ pings' \subseteq Nat
  BY <1>1, FS_AddElement DEF StormInv, PingsApart
<1>5. \A u \in pings' : lastStart' # None /\ u <= lastStart'
  BY <1>1, <1>2, NoneAssumption
<1>6. \A u, v \in pings' : u < v => u + Gap <= v
  <2>1. pings' \subseteq pings \cup {t} /\ \A u, v \in pings : u < v => u + Gap <= v
    BY <1>1 DEF StormInv, PingsApart
  <2>2. \A v \in pings \cup {t} : ~(t < v)
    BY <1>1, <1>2
  <2> QED BY <1>1, <1>2, <2>1, <2>2
<1> QED BY <1>3, <1>4, <1>5, <1>6 DEF PingsApart

\* The passes still in the window of t, with the one that starts, are at most one above the limit.
LEMMA CountAt ==
  ASSUME StormInv, NEW t
  PROVE  /\ IsFiniteSet(InWindow(t)) /\ Cardinality(InWindow(t)) \in Nat
         /\ Cardinality(InWindow(t)) <= StormPasses
         /\ IsFiniteSet(InWindow(t) \cup {t}) /\ Cardinality(InWindow(t) \cup {t}) \in Nat
         /\ Cardinality(InWindow(t) \cup {t}) <= StormPasses + 1
<1>1. IsFiniteSet(pingStarts) /\ Cardinality(pingStarts) <= StormPasses
  BY FS_Subset DEF StormInv, PingsApart, CountedLatest
<1>2. InWindow(t) \in SUBSET pingStarts
  BY DEF InWindow
<1>3. IsFiniteSet(InWindow(t)) /\ Cardinality(InWindow(t)) <= Cardinality(pingStarts)
  BY <1>1, <1>2, FS_Subset
<1>4. Cardinality(InWindow(t)) \in Nat /\ Cardinality(pingStarts) \in Nat /\ StormPasses \in Nat
  BY <1>1, <1>3, FS_CardinalityType, GapAssumption
<1>5. Cardinality(InWindow(t)) <= StormPasses
  BY <1>1, <1>3, <1>4
<1>6. /\ IsFiniteSet(InWindow(t) \cup {t})
      /\ Cardinality(InWindow(t) \cup {t}) \in {Cardinality(InWindow(t)), Cardinality(InWindow(t)) + 1}
  BY <1>3, FS_AddElement
<1> QED BY <1>3, <1>4, <1>5, <1>6

LEMMA StartCounted ==
  ASSUME TypeOK, StormInv, NEW i \in Tasks, StepStart(i)
  PROVE  CountedLatest'
<1> DEFINE t == task[i].at
<1>1. t \in Nat /\ \A u \in pings : u \in Nat /\ u + Gap <= t /\ u < t
  BY StartFields
<1>2. pings' = IF queued = "ping" THEN pings \cup {t} ELSE pings
  BY DEF StepStart
<1>3. \/ queued = "ping" /\ Storms(t) /\ pingStarts' = {}
      \/ queued = "ping" /\ ~Storms(t) /\ pingStarts' = InWindow(t) \cup {t}
      \/ queued # "ping" /\ pingStarts' = InWindow(t)
  BY DEF StepStart
<1> HIDE DEF t
<1>4. InWindow(t) \subseteq pingStarts /\ pingStarts \subseteq pings
  BY DEF InWindow, StormInv, CountedLatest
<1>5. \A u \in InWindow(t), v \in pings : u <= v => v \in InWindow(t)
  BY <1>1, <1>4, StormAssumption DEF InWindow, StormInv, CountedLatest
<1>6. CASE pingStarts' = {}
  BY <1>6, FS_EmptySet, GapAssumption DEF CountedLatest
<1>7. CASE queued = "ping" /\ ~Storms(t) /\ pingStarts' = InWindow(t) \cup {t}
  <2>1. Cardinality(pingStarts') <= StormPasses
    BY <1>7, CountAt, GapAssumption DEF Storms
  <2>2. pingStarts' \subseteq pings'
    BY <1>2, <1>4, <1>7
  <2>3. \A u \in pingStarts', v \in pings' : u <= v => v \in pingStarts'
    BY <1>1, <1>2, <1>4, <1>5, <1>7
  <2> QED BY <2>1, <2>2, <2>3 DEF CountedLatest
<1>8. CASE queued # "ping" /\ pingStarts' = InWindow(t)
  BY <1>2, <1>4, <1>5, <1>8, CountAt DEF CountedLatest
<1> QED BY <1>3, <1>6, <1>7, <1>8

LEMMA StartForgotten ==
  ASSUME TypeOK, StormInv, NEW i \in Tasks, StepStart(i)
  PROVE  Forgotten'
<1> DEFINE t == task[i].at
<1>1. t \in Nat /\ \A u \in pings : u \in Nat /\ u + Gap <= t /\ u < t
  BY StartFields
<1>2. lastStart' = t /\ pings' = IF queued = "ping" THEN pings \cup {t} ELSE pings
  BY DEF StepStart
<1>3. lastStart # None => lastStart \in Nat /\ lastStart + Gap <= t
  BY StartFields
<1>4. CASE queued = "ping" /\ Storms(t)
  <2>1. pingsIgnoredUntil' = OpenUntil(t) /\ pings' = pings \cup {t}
    BY <1>2, <1>4 DEF StepStart
  <2>2. OpenUntil(t) \in Nat /\ OpenUntil(t) # None
    BY <1>1, StormAssumption, NoneAssumption DEF OpenUntil
  <2>3. \A u \in pings \cup {t} : OpenUntil(u) <= OpenUntil(t)
    BY <1>1, StormAssumption DEF OpenUntil
  <2> QED BY <2>1, <2>2, <2>3 DEF Forgotten
<1>5. CASE ~(queued = "ping" /\ Storms(t))
  <2>1. /\ pingStarts' = InWindow(t) \cup (IF queued = "ping" THEN {t} ELSE {})
        /\ pingsIgnoredUntil' = IF PingsIgnored(t) THEN pingsIgnoredUntil ELSE None
    BY <1>5 DEF StepStart
  <2> HIDE DEF t
  <2>2. \A u \in pings' \ pingStarts' : u \in pings /\ u \notin InWindow(t)
    BY <1>2, <2>1
  <2>3. ASSUME NEW u \in pings, u \notin InWindow(t)
        PROVE  u + StormWindow <= t \/ (pingsIgnoredUntil' # None /\ OpenUntil(u) <= pingsIgnoredUntil')
    <3>1. CASE u \in pingStarts
      BY <1>1, <2>3, <3>1, StormAssumption DEF InWindow
    <3>2. CASE u \notin pingStarts /\ u + StormWindow <= lastStart
      BY <1>1, <1>3, <3>2, StormAssumption, GapAssumption DEF StormInv, PingsApart
    <3>3. CASE u \notin pingStarts /\ pingsIgnoredUntil # None /\ OpenUntil(u) <= pingsIgnoredUntil
      <4>1. CASE PingsIgnored(t)
        BY <2>1, <3>3, <4>1
      <4>2. CASE ~PingsIgnored(t)
        <5>1. pingsIgnoredUntil <= t /\ pingsIgnoredUntil \in Nat
          BY <1>1, <3>3, <4>2 DEF PingsIgnored, TypeOK
        <5> QED BY <1>1, <3>3, <5>1, StormAssumption DEF OpenUntil
      <4> QED BY <4>1, <4>2
    <3> QED BY <3>1, <3>2, <3>3 DEF StormInv, Forgotten
  <2> QED BY <1>2, <2>2, <2>3 DEF Forgotten
<1> QED BY <1>4, <1>5

LEMMA StartOpened ==
  ASSUME TypeOK, StormInv, NEW i \in Tasks, StepStart(i)
  PROVE  Opened'
<1> DEFINE t == task[i].at
<1>1. t \in Nat /\ \A u \in pings : u \in Nat /\ u + Gap <= t /\ u < t
  BY StartFields
<1>2. queued' = None /\ pings' = IF queued = "ping" THEN pings \cup {t} ELSE pings
  BY DEF StepStart
<1>3. queued = "ping" /\ pingsIgnoredUntil # None => pingsIgnoredUntil <= t + Delay
  BY StartFields
<1>4. queued' # "ping"
  BY <1>2, NoneAssumption
<1>5. CASE queued = "ping" /\ Storms(t)
  <2>1. pingsIgnoredUntil' = OpenUntil(t) /\ pings' = pings \cup {t}
    BY <1>2, <1>5 DEF StepStart
  <2>2. ~\E v \in pings' : t < v
    BY <1>1, <2>1
  <2> QED BY <1>4, <2>1, <2>2 DEF Opened
<1>6. CASE ~(queued = "ping" /\ Storms(t))
  <2>1. pingsIgnoredUntil' = IF PingsIgnored(t) THEN pingsIgnoredUntil ELSE None
    BY <1>6 DEF StepStart
  <2> SUFFICES ASSUME pingsIgnoredUntil' # None
               PROVE  \E o \in pings' : /\ pingsIgnoredUntil' = OpenUntil(o)
                                        /\ \A v \in pings' : o < v => pingsIgnoredUntil' <= v + Delay
    BY <1>4 DEF Opened
  <2>2. pingsIgnoredUntil' = pingsIgnoredUntil /\ pingsIgnoredUntil # None
    BY <2>1
  <2>3. PICK o \in pings : /\ pingsIgnoredUntil = OpenUntil(o)
                           /\ \A v \in pings : o < v => pingsIgnoredUntil <= v + Delay
    BY <2>2 DEF StormInv, Opened
  <2> HIDE DEF t
  <2>4. o \in pings' /\ \A v \in pings' : o < v => pingsIgnoredUntil <= v + Delay
    BY <1>2, <1>3, <2>2, <2>3
  <2> QED BY <2>2, <2>3, <2>4
<1> QED BY <1>5, <1>6

\* A ping's pass that starts at t among those of the window of an earlier one, u.
LEMMA StartBounded ==
  ASSUME TypeOK, StormInv, StormDelay, NEW i \in Tasks, StepStart(i)
  PROVE  StormBounded'
<1> DEFINE t == task[i].at
<1>1. t \in Nat /\ \A u \in pings : u \in Nat /\ u + Gap <= t /\ u < t
  BY StartFields
<1>2. pings' = IF queued = "ping" THEN pings \cup {t} ELSE pings
  BY DEF StepStart
<1>3. queued = "ping" /\ pingsIgnoredUntil # None => pingsIgnoredUntil <= t + Delay
  BY StartFields
<1>4. lastStart # None => lastStart \in Nat /\ lastStart + Gap <= t
  BY StartFields
<1> HIDE DEF t
<1>5. CASE queued # "ping"
  BY <1>2, <1>5 DEF StormInv, StormBounded
<1>6. CASE queued = "ping"
  <2> SUFFICES ASSUME NEW u \in pings \cup {t}
               PROVE  Cardinality({v \in pings \cup {t} : u <= v /\ v < u + StormWindow}) <= StormPasses + 1
    BY <1>2, <1>6 DEF StormBounded
  <2> DEFINE W == {v \in pings \cup {t} : u <= v /\ v < u + StormWindow}
  <2>1. /\ IsFiniteSet(InWindow(t) \cup {t}) /\ Cardinality(InWindow(t) \cup {t}) \in Nat
        /\ Cardinality(InWindow(t) \cup {t}) <= StormPasses + 1
    BY CountAt
  <2>2. ASSUME W \subseteq InWindow(t) \cup {t} PROVE Cardinality(W) <= StormPasses + 1
    <3>1. IsFiniteSet(W) /\ Cardinality(W) <= Cardinality(InWindow(t) \cup {t})
      BY <2>1, <2>2, FS_Subset
    <3>2. Cardinality(W) \in Nat
      BY <3>1, FS_CardinalityType
    <3> QED BY <2>1, <3>1, <3>2, GapAssumption
  <2>3. u \in Nat /\ StormWindow \in Nat
    BY <1>1, StormAssumption
  <2>4. CASE u = t
    <3>1. \A v \in W : v = t
      BY <1>1, <2>4
    <3> QED BY <2>2, <3>1
  <2>5. CASE u \in pings /\ u + StormWindow <= t
    <3>1. W = {v \in pings : u <= v /\ v < u + StormWindow}
      BY <1>1, <2>3, <2>5
    <3> QED BY <2>5, <3>1 DEF StormInv, StormBounded
  <2>6. CASE u \in pingStarts /\ t < u + StormWindow
    <3>1. \A v \in pings : v \in Nat /\ (u <= v => v \in pingStarts)
      BY <1>1, <2>6 DEF StormInv, CountedLatest
    <3>2. ASSUME NEW v \in pings, u <= v PROVE v \in InWindow(t)
      <4>1. v \in Nat /\ v \in pingStarts
        BY <3>1, <3>2
      <4> QED BY <1>1, <2>3, <2>6, <3>2, <4>1 DEF InWindow
    <3>3. W \subseteq InWindow(t) \cup {t}
      BY <3>2
    <3> QED BY <2>2, <3>3
  <2>7. CASE u \in pings \ pingStarts /\ t < u + StormWindow
    <3>1. pingsIgnoredUntil # None /\ OpenUntil(u) <= pingsIgnoredUntil
      <4>1. lastStart # None
        BY <2>7 DEF StormInv, PingsApart
      <4>2. ~(u + StormWindow <= lastStart)
        BY <1>1, <1>4, <2>3, <2>7, <4>1, GapAssumption
      <4> QED BY <2>7, <4>2 DEF StormInv, Forgotten
    <3>2. PICK o \in pings : /\ pingsIgnoredUntil = OpenUntil(o)
                             /\ \A v \in pings : o < v => pingsIgnoredUntil <= v + Delay
      BY <3>1 DEF StormInv, Opened
    <3>3. o \in Nat /\ Gap \in Nat \ {0} /\ StormQuiet \in Nat /\ Delay \in Nat /\ StormPasses \in Nat
      BY <1>1, <3>2, GapAssumption, StormAssumption, BoundAssumption
    <3>4. o + StormQuiet <= t + Delay
      BY <1>3, <1>6, <3>1, <3>2 DEF OpenUntil
    <3>5. u <= o
      BY <2>3, <3>1, <3>2, <3>3 DEF OpenUntil
    <3>6. u = o
      <4>1. u < o => u + Gap <= o
        BY <2>7, <3>2 DEF StormInv, PingsApart
      <4> QED BY <1>1, <2>3, <2>7, <3>3, <3>4, <3>5, <4>1 DEF StormDelay
    <3>7. \A v \in pings : ~(o < v)
      <4> SUFFICES ASSUME NEW v \in pings, o < v PROVE FALSE
        OBVIOUS
      <4>1. v \in Nat /\ v + Gap <= t
        BY <1>1
      <4>2. o + StormQuiet <= v + Delay
        BY <3>2 DEF OpenUntil
      <4> QED BY <1>1, <2>3, <2>7, <3>3, <3>6, <4>1, <4>2 DEF StormDelay
    <3>8. W \subseteq {o, t}
      <4>1. \A v \in pings : u <= v => v = o
        BY <1>1, <3>3, <3>6, <3>7
      <4> QED BY <4>1
    <3>9. IsFiniteSet({o, t}) /\ Cardinality({o, t}) <= 2
      <4>1. o < t /\ o # t
        BY <1>1, <3>2, <3>3
      <4>2. IsFiniteSet({t}) /\ Cardinality({t}) = 1
        BY FS_Singleton
      <4>3. {o, t} = {t} \cup {o} /\ o \notin {t}
        BY <4>1
      <4>4. IsFiniteSet({t} \cup {o}) /\ Cardinality({t} \cup {o}) \in {1, 2}
        BY <4>2, <4>3, FS_AddElement
      <4> QED BY <4>3, <4>4
    <3>10. IsFiniteSet(W) /\ Cardinality(W) <= Cardinality({o, t})
      BY <3>8, <3>9, FS_Subset
    <3>11. Cardinality(W) \in Nat /\ Cardinality({o, t}) \in Nat
      BY <3>9, <3>10, FS_CardinalityType
    <3> QED BY <3>3, <3>9, <3>10, <3>11 DEF StormDelay
  <2>8. u = t \/ u \in pings
    OBVIOUS
  <2>9. u \in pings => u + StormWindow <= t \/ t < u + StormWindow
    BY <1>1, <2>3
  <2> QED BY <2>4, <2>5, <2>6, <2>7, <2>8, <2>9
<1> QED BY <1>5, <1>6

\* Every step keeps the storm's counts.
LEMMA StormStep ==
  ASSUME StormDelay
  PROVE  TypeOK /\ StormInv /\ [Next]_vars => StormInv'
<1> SUFFICES ASSUME TypeOK, StormInv, [Next]_vars PROVE StormInv'
  OBVIOUS
<1>0. now \in Nat /\ Delay \in Nat /\ Clocks /\ (queued = "ping" /\ pingsIgnoredUntil # None => pingsIgnoredUntil <= now)
  BY BoundAssumption DEF TypeOK, StormInv, Opened
<1>1. CASE Tick
  <2>1. now' = now + 1 /\ UNCHANGED <<task, lastStart, pingStarts, pingsIgnoredUntil, pings, queued>>
    BY <1>1 DEF Tick, sched
  <2>2. Clocks'
    BY <1>0, <1>1, <2>1 DEF Tick, Clocks, Free, TypeOK, TaskType
  <2>3. queued' = "ping" /\ pingsIgnoredUntil # None => pingsIgnoredUntil <= now'
    BY <1>0, <2>1 DEF TypeOK
  <2> QED BY <2>1, <2>2, <2>3, StormKept
<1>2. ASSUME NEW i \in Tasks, NEW source \in Sources, Ask(i, source) PROVE StormInv'
  <2>1. UNCHANGED <<now, lastStart, pingStarts, pingsIgnoredUntil, pings, queued>>
    BY <1>2 DEF Ask, sched
  <2>2. Clocks'
    BY <1>0, <1>2, <2>1 DEF Ask, Clocks, Free, TypeOK, TaskType
  <2> QED BY <1>0, <2>1, <2>2, StormKept
<1>3. ASSUME NEW i \in Tasks, RequestPass(i) PROVE StormInv'
  <2>1. UNCHANGED <<now, lastStart, pingStarts, pingsIgnoredUntil, pings>>
    BY <1>3 DEF RequestPass
  <2>2. Clocks'
    BY <1>0, <1>3, <2>1 DEF RequestPass, StepAt, Clocks, Free, TypeOK, TaskType
  <2>3. queued' = "ping" /\ pingsIgnoredUntil # None => pingsIgnoredUntil <= now
    <3>1. task[i].at \in Nat /\ task[i].at <= now
      BY <1>0, <1>3 DEF RequestPass, Clocks, Free, TypeOK, TaskType
    <3>2. queued' = "ping" => queued = "ping" \/ (task[i].source = "ping" /\ ~PingsIgnored(task[i].at))
      BY <1>3 DEF RequestPass, TypeOK, TaskType, Sources
    <3> QED BY <1>0, <3>1, <3>2 DEF PingsIgnored, TypeOK
  <2> QED BY <2>1, <2>2, <2>3, StormKept
<1>4. ASSUME NEW i \in Tasks, StepIdle(i) \/ StepWait(i) PROVE StormInv'
  <2>1. UNCHANGED <<now, lastStart, pingStarts, pingsIgnoredUntil, pings, queued>>
    BY <1>4 DEF StepIdle, StepWait, sched
  <2>2. Clocks'
    BY <1>0, <1>4, <2>1 DEF StepIdle, StepWait, NoTask, Clocks, Free, TypeOK, TaskType
  <2> QED BY <1>0, <2>1, <2>2, StormKept
<1>5. ASSUME NEW i \in Tasks, StepStart(i) PROVE StormInv'
  BY <1>5, StartApart, StartCounted, StartForgotten, StartOpened, StartBounded DEF StormInv
<1>6. ASSUME NEW i \in Tasks, PassEnded(i) \/ \E due \in BagToSet(timers) : WaitOver(i, due) PROVE StormInv'
  <2>1. UNCHANGED <<now, lastStart, pingStarts, pingsIgnoredUntil, pings, queued>> /\ StepAt(i, now)
    BY <1>6 DEF PassEnded, WaitOver
  <2>2. Clocks'
    BY <1>0, <2>1 DEF StepAt, Clocks, Free, TypeOK, TaskType
  <2> QED BY <1>0, <2>1, <2>2, StormKept
<1>7. CASE UNCHANGED vars
  BY <1>0, <1>7, StormKept DEF vars, sched, Clocks, Free
<1> QED BY <1>1, <1>2, <1>3, <1>4, <1>5, <1>6, <1>7 DEF Next

\* A ping storm stays bounded for every number of tasks and every limit, if no step goes on
\* with a clock so old that it starts a ping's pass before the quiet is over.
THEOREM StormsBounded ==
  ASSUME StormDelay
  PROVE  Spec => []StormBounded
<1>1. Init => StormInv
  <2> SUFFICES ASSUME Init PROVE StormInv
    OBVIOUS
  <2>1. /\ pings = {} /\ pingStarts = {} /\ pingsIgnoredUntil = None /\ now = 0
        /\ \A i \in Tasks : Free(i)
    BY DEF Init, Free, NoTask
  <2>2. IsFiniteSet({}) /\ Cardinality({}) = 0 /\ StormPasses \in Nat
    BY FS_EmptySet, GapAssumption
  <2> QED BY <2>1, <2>2 DEF StormInv, Clocks, PingsApart, CountedLatest, Forgotten, Opened, StormBounded
<1>2. TypeOK /\ StormInv /\ [Next]_vars => StormInv'
  BY StormStep
<1>3. StormInv => StormBounded
  BY DEF StormInv
<1> QED BY <1>1, <1>2, <1>3, TypeCorrect, PTL DEF Spec

----------------------------------------------------------------------------
(* The stop gates' turns (GateTurns), another queue of one module memory that *)
(* outlives a reload of the module.                                           *)
Gate == INSTANCE GateTurns

\* the instance's copies of the library's operators are the library's
LEMMA SameSets ==
  ASSUME NEW S
  PROVE  (Gate!IsFiniteSet(S) <=> IsFiniteSet(S)) /\ Gate!Cardinality(S) = Cardinality(S)
<1>1. Gate!IsFiniteSet(S) <=> IsFiniteSet(S) BY Zenon DEF Gate!IsFiniteSet, IsFiniteSet
<1>2. Gate!Cardinality(S) = Cardinality(S) BY Zenon DEF Gate!Cardinality, Cardinality
<1> QED BY <1>1, <1>2

RunRec == [at : {"none", "queued", "granted", "slot", "running"}, mem : Gate!Memories, behind : BOOLEAN, cut : BOOLEAN]
Turned == {"granted", "slot", "running"}
\* the runs that hold a turn of a memory, and those that wait for one
Holding(rs, m) == {r \in Gate!Runs : rs[r].mem = m /\ rs[r].at \in Turned}
Waiters(rs, m) == {r \in Gate!Runs : rs[r].mem = m /\ rs[r].at = "queued"}
Once(q) == \A i, j \in 1..Len(q) : q[i] = q[j] => i = j
Listed(q) == {q[i] : i \in 1..Len(q)}
TurnTypes ==
  /\ held \in [Gate!Memories -> Nat] /\ queue \in [Gate!Memories -> Seq(Gate!Runs)]
  /\ run \in [Gate!Runs -> RunRec]
\* the turns counted are the runs that have one; the queue has each waiter once
TurnsOK(h, q, rs) ==
  \A m \in Gate!Memories :
    h[m] = Cardinality(Holding(rs, m)) /\ Once(q[m]) /\ Listed(q[m]) = Waiters(rs, m)
NobodyStranded == \A m \in Gate!Memories : queue[m] # <<>> => held[m] > 0
TurnInv == TurnTypes /\ TurnsOK(held, queue, run) /\ NobodyStranded

LEMMA RunsFinite ==
  /\ IsFiniteSet(Gate!Runs)
  /\ \A m, rs : IsFiniteSet(Holding(rs, m))
<1>1. IsFiniteSet(Gates) /\ MaxMemories \in Nat
  BY SameSets, CapAssumption, BoundsAssumption
<1>2. IsFiniteSet({0} \cup 2..MaxMemories)
  <2>1. 2 \in Int /\ MaxMemories \in Int BY <1>1
  <2>2. IsFiniteSet(2..MaxMemories) BY <2>1, FS_Interval
  <2> QED BY <2>2, FS_Singleton, FS_Union
<1>3. IsFiniteSet(Gate!Runs) BY <1>1, <1>2, FS_Product DEF Gate!Runs
<1>4. \A m, rs : Holding(rs, m) \in SUBSET Gate!Runs BY DEF Holding
<1> QED BY <1>3, <1>4, FS_Subset

LEMMA CapPositive == \A r \in Gate!Runs : Cap[r[1]] \in Nat /\ Cap[r[1]] > 0
BY CapAssumption DEF Gate!Runs

\* as many as the queue's first ones are the first of a sequence without repeats
LEMMA FirstOnes ==
  ASSUME NEW S, NEW q \in Seq(S), Once(q), NEW k \in 0..Len(q)
  PROVE  IsFiniteSet({q[i] : i \in 1..k}) /\ Cardinality({q[i] : i \in 1..k}) = k
<1> DEFINE T == {q[i] : i \in 1..k}
           f == [i \in 1..k |-> q[i]]
<1>1. f \in [1..k -> T] /\ (\A t \in T : \E s \in 1..k : f[s] = t) /\ (\A a, b \in 1..k : f[a] = f[b] => a = b)
  BY DEF Once
<1> HIDE DEF f, T
<1>4. f \in Bijection(1..k, T) BY <1>1 DEF Bijection, Injection, Surjection, IsInjective
<1>2. ExistsBijection(1..k, T) BY <1>4 DEF ExistsBijection
<1>3. IsFiniteSet(1..k) /\ Cardinality(1..k) = k BY FS_Interval
<1>5. IsFiniteSet(T) /\ Cardinality(T) = k BY <1>2, <1>3, FS_Bijection
<1> QED BY <1>5 DEF T

\* the largest of the numbers that begin a run of numbers
LEMMA LargestOf ==
  ASSUME NEW n \in Nat, NEW S \in SUBSET (0..n), 0 \in S, \A x \in S, y \in 0..n : y <= x => y \in S
  PROVE  /\ Gate!Max(S) \in S /\ \A x \in S : x <= Gate!Max(S)
<1> DEFINE k == Cardinality(S) - 1
<1>1. IsFiniteSet(S) /\ Cardinality(S) \in Nat /\ Cardinality(S) # 0
  <2>1. 0 \in Int /\ n \in Int OBVIOUS
  <2>2. IsFiniteSet(0..n) BY <2>1, FS_Interval
  <2>3. IsFiniteSet(S) BY <2>2, FS_Subset
  <2> QED BY <2>3, FS_CardinalityType, FS_EmptySet
<1>2. k \in Nat BY <1>1
<1>3. k \in S
  <2> SUFFICES ASSUME k \notin S PROVE FALSE OBVIOUS
  <2>1. \A x \in S : x < k
    <3> SUFFICES ASSUME NEW x \in S, x >= k PROVE FALSE BY <1>2
    <3>1. k \in 0..n BY <1>2
    <3> QED BY <3>1
  <2>2. S \in SUBSET (0..(k - 1)) BY <2>1, <1>2
  <2>3. k - 1 \in Int BY <1>2
  <2>4. IsFiniteSet(0..(k - 1)) /\ Cardinality(0..(k - 1)) = (IF 0 > k - 1 THEN 0 ELSE k - 1 - 0 + 1)
    BY <2>3, FS_Interval
  <2>5. Cardinality(0..(k - 1)) = k BY <2>4, <1>2
  <2>6. Cardinality(S) <= Cardinality(0..(k - 1)) BY <2>2, <2>4, FS_Subset
  <2> QED BY <2>5, <2>6, <1>1
<1>4. ASSUME NEW x \in S PROVE x <= k
  <2>1. x \in Nat /\ 0..x \in SUBSET S OBVIOUS
  <2>2. Cardinality(0..x) = x + 1 BY <2>1, FS_Interval
  <2>3. x + 1 <= Cardinality(S) BY <2>1, <2>2, <1>1, FS_Subset
  <2> QED BY <2>1, <2>3, <1>1
<1> HIDE DEF k
<1>5. \E x \in S : \A y \in S : x >= y BY <1>3, <1>4, <1>2
<1>6. Gate!Max(S) \in S /\ \A y \in S : Gate!Max(S) >= y BY <1>5, Zenon DEF Gate!Max
<1> QED BY <1>6

\* who of the queue's head may enter
LEMMA AdmittedIs ==
  ASSUME NEW h \in Nat, NEW q \in Seq(Gate!Runs), NEW k, k = Gate!Admitted(h, q)
  PROVE  /\ k \in 0..Len(q) /\ \A i \in 1..k : h + i - 1 < Cap[q[i][1]]
         /\ k < Len(q) => h + k >= Cap[q[k + 1][1]]
<1> DEFINE S == {n \in 0..Len(q) : \A i \in 1..n : h + i - 1 < Cap[q[i][1]]}
<1>1. Len(q) \in Nat /\ S \in SUBSET (0..Len(q)) /\ 0 \in S OBVIOUS
<1>2. \A x \in S, y \in 0..Len(q) : y <= x => y \in S OBVIOUS
<1>3. k = Gate!Max(S) BY DEF Gate!Admitted
<1>4. k \in S /\ \A x \in S : x <= k
  <2> HIDE DEF S
  <2> QED BY <1>1, <1>2, <1>3, LargestOf
<1>5. k < Len(q) => h + k >= Cap[q[k + 1][1]]
  <2> SUFFICES ASSUME k < Len(q), h + k < Cap[q[k + 1][1]] PROVE FALSE
    <3>1. q[k + 1] \in Gate!Runs \/ ~(k < Len(q)) BY <1>4
    <3>2. k < Len(q) => Cap[q[k + 1][1]] \in Nat BY <3>1, CapPositive
    <3> QED BY <1>4, <3>2
  <2>1. k + 1 \in 0..Len(q) BY <1>4
  <2>2. \A i \in 1..(k + 1) : i \in 1..k \/ i = k + 1 BY <1>4
  <2>3. h + (k + 1) - 1 = h + k BY <1>4
  <2>4. k + 1 \in S BY <1>4, <2>1, <2>2, <2>3
  <2> QED BY <1>4, <2>4
<1> QED BY <1>4, <1>5

\* a run that may have been admitted
Let(before, after) == after = before \/ (before.at = "queued" /\ after = [before EXCEPT !.at = "granted"])

\* the head of the queue gets its turns: the counts and the queues stay right, and nobody is stranded
LEMMA AdmitTurns ==
  ASSUME NEW m \in Gate!Memories, NEW h \in Nat, NEW rs \in [Gate!Runs -> RunRec],
         held \in [Gate!Memories -> Nat], queue \in [Gate!Memories -> Seq(Gate!Runs)],
         TurnsOK([held EXCEPT ![m] = h], queue, rs),
         \A n \in Gate!Memories \ {m} : queue[n] # <<>> => held[n] > 0,
         Gate!Admit(m, h, rs)
  PROVE  /\ TurnInv'
         /\ \A r \in Gate!Runs : Let(rs[r], run'[r])
<1>1. PICK k : k = Gate!Admitted(h, queue[m]) OBVIOUS
<1> DEFINE q == queue[m]
           Heads == {q[i] : i \in 1..k}
<1>2. q \in Seq(Gate!Runs) /\ Once(q) /\ Listed(q) = Waiters(rs, m) BY DEF TurnsOK
<1>3. /\ k \in 0..Len(q)
      /\ k < Len(q) => h + k >= Cap[q[k + 1][1]]
  BY <1>1, <1>2, AdmittedIs
<1>4. /\ held' = [held EXCEPT ![m] = h + k]
      /\ queue' = [queue EXCEPT ![m] = SubSeq(q, k + 1, Len(q))]
      /\ run' = [r \in Gate!Runs |-> IF \E i \in 1..k : q[i] = r THEN [rs[r] EXCEPT !.at = "granted"] ELSE rs[r]]
  BY <1>1, <1>3 DEF Gate!Admit
<1>5. Heads \subseteq Waiters(rs, m) BY <1>2, <1>3 DEF Listed
<1>6. \A r \in Gate!Runs : run'[r] = IF r \in Heads THEN [rs[r] EXCEPT !.at = "granted"] ELSE rs[r]
  BY <1>4
<1>7. \A r \in Gate!Runs : rs[r] \in RunRec OBVIOUS
<1>8. \A r \in Gate!Runs : run'[r] \in RunRec /\ run'[r].mem = rs[r].mem
                           /\ run'[r].at = IF r \in Heads THEN "granted" ELSE rs[r].at
  BY <1>6, <1>7 DEF RunRec
<1>9. TurnTypes'
  <2>1. SubSeq(q, k + 1, Len(q)) \in Seq(Gate!Runs) BY <1>2, <1>3
  <2>2. h + k \in Nat BY <1>3
  <2>3. DOMAIN run' = Gate!Runs /\ run' = [r \in Gate!Runs |-> run'[r]] BY <1>4
  <2>4. run' \in [Gate!Runs -> RunRec] BY <1>8, <2>3
  <2> QED BY <1>4, <2>1, <2>2, <2>4 DEF TurnTypes
<1>10. ASSUME NEW n \in Gate!Memories, n # m
       PROVE  held'[n] = Cardinality(Holding(run', n)) /\ Once(queue'[n]) /\ Listed(queue'[n]) = Waiters(run', n)
  <2>1. held'[n] = held[n] /\ queue'[n] = queue[n] BY <1>4, <1>10
  <2>2. Holding(run', n) = Holding(rs, n) /\ Waiters(run', n) = Waiters(rs, n)
    BY <1>5, <1>8, <1>10 DEF Holding, Waiters, Turned
  <2>3. [held EXCEPT ![m] = h][n] = held[n] BY <1>10
  <2> QED BY <2>1, <2>2, <2>3 DEF TurnsOK
<1>11. held'[m] = Cardinality(Holding(run', m))
  <2>1. Holding(run', m) = Holding(rs, m) \cup Heads
    BY <1>5, <1>8 DEF Holding, Waiters, Turned
  <2>2. Holding(rs, m) \cap Heads = {} BY <1>5 DEF Holding, Waiters, Turned
  <2>3. IsFiniteSet(Heads) /\ Cardinality(Heads) = k BY <1>2, <1>3, FirstOnes
  <2>4. IsFiniteSet(Holding(rs, m)) BY RunsFinite
  <2>5. [held EXCEPT ![m] = h][m] = h OBVIOUS
  <2>6. Cardinality(Holding(rs, m)) = h BY <2>5 DEF TurnsOK
  <2> HIDE DEF Heads
  <2>7. Cardinality(Holding(rs, m) \cup Heads) = Cardinality(Holding(rs, m)) + Cardinality(Heads) - Cardinality({})
    BY <2>2, <2>3, <2>4, FS_Union
  <2>8. held'[m] = h + k BY <1>4
  <2> QED BY <2>1, <2>3, <2>6, <2>7, <2>8, <1>3, FS_EmptySet
<1>12. /\ queue'[m] = SubSeq(q, k + 1, Len(q)) /\ Len(queue'[m]) = Len(q) - k
       /\ \A i \in 1..(Len(q) - k) : queue'[m][i] = q[k + i]
  <2>1. queue'[m] = SubSeq(q, k + 1, Len(q)) BY <1>4
  <2>2. Len(q) \in Nat /\ k + 1 \in Nat BY <1>2, <1>3
  <2>3. Len(SubSeq(q, k + 1, Len(q))) = Len(q) - k BY <1>2, <1>3
  <2>4. \A i \in 1..(Len(q) - k) : SubSeq(q, k + 1, Len(q))[i] = q[k + i] BY <1>2, <1>3
  <2> QED BY <2>1, <2>3, <2>4
<1>13. Once(queue'[m]) /\ Listed(queue'[m]) = Waiters(run', m)
  <2>1. Once(queue'[m])
    <3>1. ASSUME NEW i \in 1..(Len(q) - k), NEW j \in 1..(Len(q) - k), q[k + i] = q[k + j] PROVE i = j
      <4>1. k + i \in 1..Len(q) /\ k + j \in 1..Len(q) BY <1>2, <1>3
      <4>2. k + i = k + j BY <4>1, <3>1, <1>2 DEF Once
      <4> QED BY <4>2, <1>3
    <3> QED BY <3>1, <1>12 DEF Once
  <2>2. Listed(queue'[m]) = Listed(q) \ Heads
    <3>1. \A i \in 1..(Len(q) - k) : queue'[m][i] \in Listed(q) /\ queue'[m][i] \notin Heads
      <4> SUFFICES ASSUME NEW i \in 1..(Len(q) - k) PROVE q[k + i] \in Listed(q) /\ q[k + i] \notin Heads
        BY <1>12
      <4>1. k + i \in 1..Len(q) /\ (\A j \in 1..k : j \in 1..Len(q) /\ j # k + i) BY <1>2, <1>3
      <4> QED BY <4>1, <1>2 DEF Listed, Once
    <3>2. ASSUME NEW j \in 1..Len(q), q[j] \notin Heads PROVE q[j] \in Listed(queue'[m])
      <4>1. j > k BY <3>2, <1>3
      <4>2. j - k \in 1..(Len(q) - k) /\ k + (j - k) = j BY <4>1, <1>3
      <4>3. queue'[m][j - k] = q[j] BY <1>12, <4>2
      <4> QED BY <1>12, <4>2, <4>3 DEF Listed
    <3> QED BY <3>1, <3>2, <1>12 DEF Listed
  <2>3. Waiters(run', m) = Waiters(rs, m) \ Heads
    BY <1>8 DEF Waiters
  <2> QED BY <2>1, <2>2, <2>3, <1>2
<1>14. TurnsOK(held', queue', run') BY <1>10, <1>11, <1>13 DEF TurnsOK
<1>15. NobodyStranded'
  <2> SUFFICES ASSUME NEW n \in Gate!Memories, queue'[n] # <<>> PROVE held'[n] > 0
    BY DEF NobodyStranded
  <2>1. CASE n # m BY <2>1, <1>4
  <2>2. CASE n = m
    <3>1. k < Len(q) BY <2>2, <1>12, <1>3
    <3>2. q[k + 1] \in Gate!Runs BY <1>2, <1>3, <3>1
    <3>3. Cap[q[k + 1][1]] \in Nat /\ Cap[q[k + 1][1]] > 0 BY <3>2, CapPositive
    <3> QED BY <2>2, <3>1, <3>3, <1>3, <1>4
  <2> QED BY <2>1, <2>2
<1>16. \A r \in Gate!Runs : Let(rs[r], run'[r]) BY <1>5, <1>6 DEF Waiters, Let
<1> QED BY <1>9, <1>14, <1>15, <1>16 DEF TurnInv

LEMMA RunRecs ==
  Gate!None \in RunRec /\ \A r \in Gate!Runs : r = <<r[1], r[2]>> /\ r[1] \in Gates
<1>1. 1 \in Gate!Memories BY BoundsAssumption DEF Gate!Memories
<1> QED BY <1>1 DEF RunRec, Gate!None, Gate!Runs

\* a step that moves no run into a turn, a queue or out of one
LEMMA SameTurns ==
  ASSUME TurnInv, held' = held, queue' = queue, run' \in [Gate!Runs -> RunRec],
         \A r \in Gate!Runs : \/ run'[r] = run[r]
                              \/ /\ run'[r].mem = run[r].mem /\ (run'[r].at = "queued" <=> run[r].at = "queued")
                                 /\ (run'[r].at \in Turned <=> run[r].at \in Turned)
  PROVE  TurnInv' /\ \A m \in Gate!Memories : Holding(run', m) = Holding(run, m)
<1>1. \A m \in Gate!Memories : Holding(run', m) = Holding(run, m) /\ Waiters(run', m) = Waiters(run, m)
  BY DEF Holding, Waiters
<1>2. TurnsOK(held', queue', run') BY <1>1 DEF TurnInv, TurnsOK
<1> QED BY <1>1, <1>2 DEF TurnInv, TurnTypes, NobodyStranded

\* one that asks
LEMMA AskTurns ==
  ASSUME TurnInv, NEW r \in Gate!Runs, NEW m \in Gate!Memories, Gate!Ask(r, m)
  PROVE  /\ TurnInv'
         /\ \A s \in Gate!Runs : s # r => run'[s] = run[s]
         /\ run'[r].mem = m /\ run'[r].at \in {"queued", "granted"} /\ ~run'[r].cut
         /\ run'[r].at = "granted" => queue[m] = <<>> /\ held[m] < Cap[r[1]] /\ run'[r].at \in Turned
<1>1. run[r] = Gate!None /\ Gate!None.at = "none" BY DEF Gate!Ask, Gate!None
<1>2. \A n : r \notin Holding(run, n) /\ r \notin Waiters(run, n) BY <1>1 DEF Holding, Waiters, Turned
<1>3. \A n \in Gate!Memories : /\ held[n] = Cardinality(Holding(run, n)) /\ Once(queue[n]) /\ Listed(queue[n]) = Waiters(run, n)
                               /\ held[n] \in Nat /\ queue[n] \in Seq(Gate!Runs)
  BY DEF TurnInv, TurnsOK, TurnTypes
<1>4. CASE Gate!Enters(r, m)
  <2>1. /\ queue[m] = <<>> /\ held[m] < Cap[r[1]]
        /\ held' = [held EXCEPT ![m] = @ + 1] /\ queue' = queue
        /\ run' = [run EXCEPT ![r] = [Gate!None EXCEPT !.at = "granted", !.mem = m]]
    BY <1>4 DEF Gate!Ask, Gate!Enters
  <2>2. /\ run'[r] = [at |-> "granted", mem |-> m, behind |-> FALSE, cut |-> FALSE]
        /\ \A s \in Gate!Runs : s # r => run'[s] = run[s]
    BY <2>1 DEF TurnInv, TurnTypes, Gate!None
  <2>3. TurnTypes'
    <3>1. run'[r] \in RunRec BY <2>2 DEF RunRec
    <3>2. run' \in [Gate!Runs -> RunRec] BY <2>1, <2>2, <3>1 DEF TurnInv, TurnTypes
    <3>3. held' \in [Gate!Memories -> Nat] BY <2>1, <1>3 DEF TurnInv, TurnTypes
    <3> QED BY <2>1, <3>2, <3>3 DEF TurnInv, TurnTypes
  <2>4. \A n \in Gate!Memories : Waiters(run', n) = Waiters(run, n) BY <2>2, <1>1 DEF Waiters
  <2>5. \A n \in Gate!Memories : n # m => Holding(run', n) = Holding(run, n) /\ held'[n] = held[n]
    <3>1. \A n \in Gate!Memories : n # m => Holding(run', n) = Holding(run, n) BY <2>2, <1>1 DEF Holding, Turned
    <3>2. \A n \in Gate!Memories : n # m => held'[n] = held[n] BY <2>1 DEF TurnInv, TurnTypes
    <3> QED BY <3>1, <3>2
  <2>6. Holding(run', m) = Holding(run, m) \cup {r} BY <2>2, <1>1 DEF Holding, Turned
  <2>7. Cardinality(Holding(run', m)) = held[m] + 1
    <3>1. IsFiniteSet(Holding(run, m)) BY RunsFinite
    <3> QED BY <3>1, <2>6, <1>2, <1>3, FS_AddElement
  <2>8. held'[m] = held[m] + 1 BY <2>1 DEF TurnInv, TurnTypes
  <2>9. TurnsOK(held', queue', run') BY <2>1, <2>4, <2>5, <2>7, <2>8, <1>3 DEF TurnsOK
  <2>10. NobodyStranded' BY <2>1, <2>5, <2>8, <1>3 DEF NobodyStranded, TurnInv
  <2>11. TurnInv' BY <2>3, <2>9, <2>10 DEF TurnInv
  <2>12. queue[m] = <<>> /\ held[m] < Cap[r[1]] BY <2>1
  <2>13. run'[r].mem = m /\ run'[r].at = "granted" /\ ~run'[r].cut BY <2>2
  <2> QED BY <2>2, <2>11, <2>12, <2>13 DEF Turned
<1>5. CASE ~Gate!Enters(r, m)
  <2>1. /\ queue' = [queue EXCEPT ![m] = Append(@, r)] /\ held' = held
        /\ run' = [run EXCEPT ![r] = [Gate!None EXCEPT !.at = "queued", !.mem = m, !.behind = TRUE]]
    BY <1>5 DEF Gate!Ask
  <2>2. /\ run'[r] = [at |-> "queued", mem |-> m, behind |-> TRUE, cut |-> FALSE]
        /\ \A s \in Gate!Runs : s # r => run'[s] = run[s]
    BY <2>1 DEF TurnInv, TurnTypes, Gate!None
  <2>3. queue'[m] = Append(queue[m], r) /\ \A n \in Gate!Memories : n # m => queue'[n] = queue[n]
    BY <2>1 DEF TurnInv, TurnTypes
  <2>4. TurnTypes'
    <3>1. run'[r] \in RunRec BY <2>2 DEF RunRec
    <3>2. run' \in [Gate!Runs -> RunRec] BY <2>1, <2>2, <3>1 DEF TurnInv, TurnTypes
    <3>3. Append(queue[m], r) \in Seq(Gate!Runs) BY <1>3
    <3>4. queue' \in [Gate!Memories -> Seq(Gate!Runs)] BY <2>1, <3>3 DEF TurnInv, TurnTypes
    <3> QED BY <2>1, <3>2, <3>4 DEF TurnInv, TurnTypes
  <2>5. \A n \in Gate!Memories : Holding(run', n) = Holding(run, n) BY <2>2, <1>1 DEF Holding, Turned
  <2>6. \A n \in Gate!Memories : n # m => Waiters(run', n) = Waiters(run, n) BY <2>2, <1>1 DEF Waiters
  <2>7. Waiters(run', m) = Waiters(run, m) \cup {r} BY <2>2, <1>1 DEF Waiters
  <2>8. Once(queue'[m]) /\ Listed(queue'[m]) = Listed(queue[m]) \cup {r}
    <3>1. queue[m] \in Seq(Gate!Runs) /\ Once(queue[m]) /\ r \notin Listed(queue[m]) BY <1>2, <1>3
    <3>2. /\ Len(queue'[m]) = Len(queue[m]) + 1 /\ Len(queue[m]) \in Nat
          /\ \A i \in 1..Len(queue[m]) : queue'[m][i] = queue[m][i]
          /\ queue'[m][Len(queue[m]) + 1] = r
      BY <3>1, <2>3
    <3>3. 1..Len(queue'[m]) = 1..Len(queue[m]) \cup {Len(queue[m]) + 1} BY <3>2
    <3>4. Listed(queue'[m]) = Listed(queue[m]) \cup {r} BY <3>2, <3>3 DEF Listed
    <3>5. \A i \in 1..Len(queue[m]) : queue[m][i] # r BY <3>1 DEF Listed
    <3>6. Once(queue'[m]) BY <3>1, <3>2, <3>3, <3>5 DEF Once
    <3> QED BY <3>4, <3>6
  <2>9. TurnsOK(held', queue', run') BY <2>1, <2>3, <2>5, <2>6, <2>7, <2>8, <1>3 DEF TurnsOK
  <2>10. queue[m] = <<>> => held[m] > 0
    <3>1. Cap[r[1]] \in Nat /\ Cap[r[1]] > 0 BY CapPositive
    <3> QED BY <3>1, <1>3, <1>5 DEF Gate!Enters
  <2>11. NobodyStranded' BY <2>1, <2>3, <2>10 DEF NobodyStranded, TurnInv
  <2> QED BY <2>2, <2>4, <2>9, <2>11 DEF TurnInv
<1> QED BY <1>4, <1>5

\* a turn given back: without its run the counts are right, and the head of the queue is let in
LEMMA ReleaseIs ==
  ASSUME TurnInv, NEW r \in Gate!Runs, run[r].at \in Turned, Gate!Release(r)
  PROVE  \E m \in Gate!Memories, h \in Nat, rs \in [Gate!Runs -> RunRec] :
           /\ m = run[r].mem /\ rs[r] = Gate!None /\ \A s \in Gate!Runs : s # r => rs[s] = run[s]
           /\ h = Cardinality(Holding(rs, m)) /\ TurnsOK([held EXCEPT ![m] = h], queue, rs)
           /\ Gate!Admit(m, h, rs)
<1>1. PICK m \in Gate!Memories : m = run[r].mem BY DEF TurnInv, TurnTypes, RunRec
<1>13. PICK rs : rs = [run EXCEPT ![r] = Gate!None] OBVIOUS
<1>14. PICK h : h = held[m] - 1 OBVIOUS
<1>2. rs \in [Gate!Runs -> RunRec] /\ rs[r] = Gate!None /\ \A s \in Gate!Runs : s # r => rs[s] = run[s]
  BY <1>13, RunRecs DEF TurnInv, TurnTypes
<1>3. \A n \in Gate!Memories : /\ held[n] = Cardinality(Holding(run, n)) /\ Once(queue[n]) /\ Listed(queue[n]) = Waiters(run, n)
                               /\ held[n] \in Nat /\ queue[n] \in Seq(Gate!Runs)
  BY DEF TurnInv, TurnsOK, TurnTypes
<1>4. Gate!Admit(m, h, rs) BY <1>1, <1>13, <1>14 DEF Gate!Release, Gate!Admit
<1>5. Gate!None.at = "none" BY DEF Gate!None
<1>6. \A n \in Gate!Memories : Waiters(rs, n) = Waiters(run, n) BY <1>2, <1>5 DEF Waiters, Turned
<1>7. \A n \in Gate!Memories : n # m => Holding(rs, n) = Holding(run, n) BY <1>1, <1>2, <1>5 DEF Holding, Turned
<1>8. h \in Nat /\ h = Cardinality(Holding(rs, m))
  <2>1. r \in Holding(run, m) /\ Holding(rs, m) = Holding(run, m) \ {r} BY <1>1, <1>2, <1>5 DEF Holding, Turned
  <2>2. IsFiniteSet(Holding(run, m)) /\ IsFiniteSet(Holding(rs, m)) BY RunsFinite
  <2>3. Cardinality(Holding(rs, m)) = Cardinality(Holding(run, m)) - 1 BY <2>1, <2>2, FS_RemoveElement
  <2>4. Cardinality(Holding(rs, m)) \in Nat BY <2>2, FS_CardinalityType
  <2> QED BY <2>3, <2>4, <1>3, <1>14
<1>9. TurnsOK([held EXCEPT ![m] = h], queue, rs)
  <2>1. \A n \in Gate!Memories : [held EXCEPT ![m] = h][n] = IF n = m THEN h ELSE held[n]
    BY DEF TurnInv, TurnTypes
  <2> QED BY <2>1, <1>3, <1>6, <1>7, <1>8 DEF TurnsOK
<1> QED BY <1>1, <1>2, <1>4, <1>8, <1>9

LEMMA ReleaseTurns ==
  ASSUME TurnInv, NEW r \in Gate!Runs, run[r].at \in Turned, Gate!Release(r)
  PROVE  TurnInv' /\ run'[r] = Gate!None /\ \A s \in Gate!Runs \ {r} : Let(run[s], run'[s])
<1>1. PICK m \in Gate!Memories, h \in Nat, rs \in [Gate!Runs -> RunRec] :
           /\ m = run[r].mem /\ rs[r] = Gate!None /\ \A s \in Gate!Runs : s # r => rs[s] = run[s]
           /\ h = Cardinality(Holding(rs, m)) /\ TurnsOK([held EXCEPT ![m] = h], queue, rs)
           /\ Gate!Admit(m, h, rs)
  BY ReleaseIs
<1>2. held \in [Gate!Memories -> Nat] /\ queue \in [Gate!Memories -> Seq(Gate!Runs)] BY DEF TurnInv, TurnTypes
<1>3. \A n \in Gate!Memories \ {m} : queue[n] # <<>> => held[n] > 0 BY DEF TurnInv, NobodyStranded
<1>4. TurnInv' /\ \A s \in Gate!Runs : Let(rs[s], run'[s]) BY <1>1, <1>2, <1>3, AdmitTurns
<1>5. Gate!None.at = "none" BY DEF Gate!None
<1>6. run'[r] = Gate!None BY <1>1, <1>4, <1>5 DEF Let
<1> QED BY <1>1, <1>4, <1>6

\* whoever gets a turn leaves nobody queued who asked before it, and finds its place under its own capacity
InTurn(m, r) ==
  (r \notin Holding(run, m) /\ r \in Holding(run', m)) =>
    /\ \A q \in Gate!Ahead(m, r) : run'[q].at # "queued"
    /\ Cardinality(Holding(run', m) \cap (Holding(run, m) \cup Gate!Ahead(m, r))) < Cap[r[1]]

LEMMA AskOrder ==
  ASSUME TurnInv, NEW r \in Gate!Runs, NEW m \in Gate!Memories, Gate!Ask(r, m)
  PROVE  \A s \in Gate!Runs, n \in Gate!Memories : InTurn(n, s)
<1> SUFFICES ASSUME NEW s \in Gate!Runs, NEW n \in Gate!Memories, s \notin Holding(run, n), s \in Holding(run', n)
             PROVE  /\ \A q \in Gate!Ahead(n, s) : run'[q].at # "queued"
                    /\ Cardinality(Holding(run', n) \cap (Holding(run, n) \cup Gate!Ahead(n, s))) < Cap[s[1]]
  BY DEF InTurn
<1>1. /\ \A x \in Gate!Runs : x # r => run'[x] = run[x]
      /\ run'[r].mem = m /\ run'[r].at \in {"queued", "granted"}
      /\ run'[r].at = "granted" => queue[m] = <<>> /\ held[m] < Cap[r[1]]
  BY AskTurns
<1>2. s = r /\ n = m /\ queue[m] = <<>> /\ held[m] < Cap[r[1]] BY <1>1 DEF Holding, Turned
<1>3. Gate!Ahead(m, r) = {} BY <1>2 DEF Gate!Ahead
<1>4. Holding(run', m) \cap Holding(run, m) = Holding(run, m)
  <2>1. run[r].at = "none" BY DEF Gate!Ask, Gate!None
  <2> QED BY <1>1, <2>1 DEF Holding, Turned
<1>5. held[m] = Cardinality(Holding(run, m)) BY DEF TurnInv, TurnsOK
<1> QED BY <1>2, <1>3, <1>4, <1>5

\* those before one in a queue without repeats
LEMMA AheadIs ==
  ASSUME TurnTypes, NEW m \in Gate!Memories, Once(queue[m]), NEW j \in 1..Len(queue[m]), NEW s, s = queue[m][j]
  PROVE  Gate!Ahead(m, s) = {queue[m][i] : i \in 1..(j - 1)}
<1> DEFINE q == queue[m]
<1>1. q \in Seq(Gate!Runs) /\ DOMAIN q = 1..Len(q) BY DEF TurnTypes
<1>2. \A k \in 1..Len(q) : q[j] \in Gate!Range(SubSeq(q, 1, k)) <=> j <= k
  <2> SUFFICES ASSUME NEW k \in 1..Len(q) PROVE q[j] \in Gate!Range(SubSeq(q, 1, k)) <=> j <= k OBVIOUS
  <2>1. DOMAIN SubSeq(q, 1, k) = 1..k /\ \A i \in 1..k : SubSeq(q, 1, k)[i] = q[i] BY <1>1
  <2>2. Gate!Range(SubSeq(q, 1, k)) = {q[i] : i \in 1..k} BY <2>1 DEF Gate!Range
  <2>3. (\E i \in 1..k : q[i] = q[j]) <=> j <= k BY <1>1 DEF Once
  <2> QED BY <2>2, <2>3
<1>3. {k \in DOMAIN q : q[j] \notin Gate!Range(SubSeq(q, 1, k))} = 1..(j - 1) BY <1>1, <1>2
<1> QED BY <1>3 DEF Gate!Ahead

LEMMA ReleaseOrder ==
  ASSUME TurnInv, NEW r \in Gate!Runs, run[r].at \in Turned, Gate!Release(r)
  PROVE  \A s \in Gate!Runs, n \in Gate!Memories : InTurn(n, s)
<1> SUFFICES ASSUME NEW s \in Gate!Runs, NEW n \in Gate!Memories, s \notin Holding(run, n), s \in Holding(run', n)
             PROVE  /\ \A q \in Gate!Ahead(n, s) : run'[q].at # "queued"
                    /\ Cardinality(Holding(run', n) \cap (Holding(run, n) \cup Gate!Ahead(n, s))) < Cap[s[1]]
  BY DEF InTurn
<1>1. PICK m \in Gate!Memories, h \in Nat, rs \in [Gate!Runs -> RunRec] :
           /\ m = run[r].mem /\ rs[r] = Gate!None /\ \A x \in Gate!Runs : x # r => rs[x] = run[x]
           /\ h = Cardinality(Holding(rs, m)) /\ TurnsOK([held EXCEPT ![m] = h], queue, rs)
           /\ Gate!Admit(m, h, rs)
  BY ReleaseIs
<1>2. PICK q \in Seq(Gate!Runs) : q = queue[m] BY DEF TurnInv, TurnTypes
<1>3. PICK k : k = Gate!Admitted(h, q) OBVIOUS
<1>4. k \in 0..Len(q) /\ \A i \in 1..k : h + i - 1 < Cap[q[i][1]] BY <1>3, AdmittedIs
<1>5. Once(q) /\ Listed(q) = Waiters(rs, m) BY <1>1, <1>2 DEF TurnsOK
<1>6. run' = [x \in Gate!Runs |-> IF \E i \in 1..k : q[i] = x THEN [rs[x] EXCEPT !.at = "granted"] ELSE rs[x]]
  BY <1>1, <1>2, <1>3 DEF Gate!Admit
<1>7. \A i \in 1..k : i \in 1..Len(q) /\ q[i] \in Gate!Runs /\ q[i] \in Waiters(rs, m) BY <1>4, <1>5 DEF Listed
<1>8. \A i \in 1..k : run'[q[i]].at = "granted" /\ run'[q[i]].mem = m
  <2> SUFFICES ASSUME NEW i \in 1..k PROVE run'[q[i]].at = "granted" /\ run'[q[i]].mem = m OBVIOUS
  <2>1. run'[q[i]] = [rs[q[i]] EXCEPT !.at = "granted"] BY <1>6, <1>7
  <2>2. rs[q[i]] \in RunRec /\ rs[q[i]].mem = m BY <1>7 DEF Waiters
  <2> QED BY <2>1, <2>2 DEF RunRec
<1>9. \A x \in Gate!Runs : (\A i \in 1..k : q[i] # x) => run'[x] = rs[x] BY <1>6
<1>10. Gate!None.at = "none" BY DEF Gate!None
<1>11. PICK j \in 1..k : q[j] = s
  <2> SUFFICES ASSUME \A i \in 1..k : q[i] # s PROVE FALSE OBVIOUS
  <2>1. run'[s] = rs[s] BY <1>9
  <2>2. rs[s] = Gate!None \/ rs[s] = run[s] BY <1>1
  <2> QED BY <2>1, <2>2, <1>10 DEF Holding, Turned
<1>12. n = m BY <1>8, <1>11 DEF Holding
<1> DEFINE A == {q[i] : i \in 1..(j - 1)}
<1>13. Gate!Ahead(n, s) = A
  <2>1. j \in 1..Len(queue[m]) /\ s = queue[m][j] /\ Once(queue[m]) /\ TurnTypes BY <1>2, <1>4, <1>5, <1>11 DEF TurnInv
  <2>2. Gate!Ahead(m, s) = {queue[m][i] : i \in 1..(j - 1)} BY <2>1, AheadIs
  <2> QED BY <2>2, <1>2, <1>12
<1>14. \A x \in A : run'[x].at # "queued"
  <2>1. \A i \in 1..(j - 1) : i \in 1..k BY <1>4
  <2> QED BY <2>1, <1>8
<1>15. Holding(run', m) \cap (Holding(run, m) \cup A) \subseteq Holding(rs, m) \cup A
  <2> SUFFICES ASSUME NEW x \in Holding(run', m), x \in Holding(run, m) PROVE x \in Holding(rs, m) OBVIOUS
  <2>1. CASE x = r
    <3>1. r \notin Waiters(rs, m) BY <1>1, <1>10 DEF Waiters
    <3>2. run'[r] = Gate!None BY <1>1, <1>7, <1>9, <3>1
    <3> QED BY <2>1, <3>2, <1>10 DEF Holding, Turned
  <2>2. CASE x # r BY <2>2, <1>1 DEF Holding
  <2> QED BY <2>1, <2>2
<1>16. IsFiniteSet(A) /\ Cardinality(A) = j - 1
  <2>1. j - 1 \in 0..Len(q) BY <1>4
  <2> QED BY <2>1, <1>5, FirstOnes
<1>17. Holding(rs, m) \cap A = {}
  <2>1. \A i \in 1..(j - 1) : i \in 1..k BY <1>4
  <2> QED BY <2>1, <1>7 DEF Holding, Waiters, Turned
<1>18. IsFiniteSet(Holding(rs, m)) BY RunsFinite
<1> HIDE DEF A
<1>19. IsFiniteSet(Holding(rs, m) \cup A) /\ Cardinality(Holding(rs, m) \cup A) = h + (j - 1)
  <2>1. Cardinality(Holding(rs, m) \cup A) = Cardinality(Holding(rs, m)) + Cardinality(A) - Cardinality({})
    BY <1>16, <1>17, <1>18, FS_Union
  <2>2. IsFiniteSet(Holding(rs, m) \cup A) BY <1>16, <1>18, FS_Union
  <2>3. Cardinality({}) = 0 BY FS_EmptySet
  <2> QED BY <2>1, <2>2, <2>3, <1>1, <1>4, <1>16
<1>20. /\ Cardinality(Holding(run', m) \cap (Holding(run, m) \cup A)) <= h + (j - 1)
       /\ Cardinality(Holding(run', m) \cap (Holding(run, m) \cup A)) \in Nat
  BY <1>15, <1>19, FS_Subset, FS_CardinalityType
<1>21. h + j - 1 < Cap[s[1]] /\ Cap[s[1]] \in Nat BY <1>4, <1>11, CapPositive
<1> QED BY <1>12, <1>13, <1>14, <1>20, <1>21, <1>4

\* one taken out of a sequence without repeats
LEMMA RemovedOnce ==
  ASSUME NEW S, NEW q \in Seq(S), Once(q), NEW j \in 1..Len(q), NEW p, p = Gate!RemoveFirst(q, q[j])
  PROVE  p \in Seq(S) /\ Once(p) /\ Listed(p) = Listed(q) \ {q[j]}
<1> DEFINE n == Len(q)
           a == SubSeq(q, 1, j - 1)
           b == SubSeq(q, j + 1, n)
<1>1. n \in Nat /\ j \in Nat /\ 1 <= j /\ j <= n OBVIOUS
<1>2. Gate!SelectInSeq(q, LAMBDA v : v = q[j]) = j
  <2>1. {i \in 1..Len(q) : q[i] = q[j]} = {j} BY DEF Once
  <2>2. Gate!Min({j}) = j BY <1>1 DEF Gate!Min
  <2> QED BY <2>1, <2>2 DEF Gate!SelectInSeq
<1>3. p = a \o b BY <1>2 DEF Gate!RemoveFirst, Gate!RemoveAt
<1>4. a \in Seq(S) /\ Len(a) = j - 1 /\ \A i \in 1..(j - 1) : a[i] = q[i] BY <1>1
<1>5. b \in Seq(S) /\ Len(b) = n - j /\ \A i \in 1..(n - j) : b[i] = q[j + i] BY <1>1
<1> HIDE DEF a, b
<1>6. p \in Seq(S) /\ Len(p) = n - 1 BY <1>1, <1>3, <1>4, <1>5
<1>7. \A i \in 1..(n - 1) : p[i] = IF i < j THEN q[i] ELSE q[i + 1]
  <2> SUFFICES ASSUME NEW i \in 1..(n - 1) PROVE p[i] = IF i < j THEN q[i] ELSE q[i + 1] OBVIOUS
  <2>1. CASE i < j
    <3>1. i \in 1..(j - 1) BY <2>1, <1>1
    <3>2. p[i] = a[i] BY <1>3, <1>4, <1>5, <3>1, <1>1
    <3> QED BY <3>1, <3>2, <1>4, <2>1
  <2>2. CASE ~(i < j)
    <3>1. i - (j - 1) \in 1..(n - j) /\ j + (i - (j - 1)) = i + 1 BY <2>2, <1>1
    <3>2. p[i] = b[i - (j - 1)] BY <1>3, <1>4, <1>5, <3>1, <1>1
    <3> QED BY <3>1, <3>2, <1>5, <2>2
  <2> QED BY <2>1, <2>2
<1> HIDE DEF n
<1>8. Once(p)
  <2> SUFFICES ASSUME NEW x \in 1..(n - 1), NEW y \in 1..(n - 1), p[x] = p[y] PROVE x = y BY <1>6 DEF Once
  <2>1. PICK u \in 1..n : p[x] = q[u] /\ u = IF x < j THEN x ELSE x + 1 BY <1>1, <1>7
  <2>2. PICK w \in 1..n : p[y] = q[w] /\ w = IF y < j THEN y ELSE y + 1 BY <1>1, <1>7
  <2>3. u = w BY <2>1, <2>2 DEF Once, n
  <2> QED BY <2>1, <2>2, <2>3, <1>1
<1>9. Listed(p) = Listed(q) \ {q[j]}
  <2>1. \A i \in 1..(n - 1) : p[i] \in Listed(q) /\ p[i] # q[j]
    <3> SUFFICES ASSUME NEW i \in 1..(n - 1) PROVE p[i] \in Listed(q) /\ p[i] # q[j] OBVIOUS
    <3>1. PICK u \in 1..n : p[i] = q[u] /\ u # j BY <1>1, <1>7
    <3>2. u \in 1..Len(q) BY DEF n
    <3> QED BY <3>1, <3>2 DEF Listed, Once
  <2>2. ASSUME NEW u \in 1..n, u # j PROVE \E i \in 1..(n - 1) : p[i] = q[u]
    <3>1. CASE u < j
      <4>1. u \in 1..(n - 1) BY <3>1, <1>1
      <4> QED BY <4>1, <3>1, <1>7
    <3>2. CASE u > j
      <4>1. u - 1 \in 1..(n - 1) /\ ~(u - 1 < j) /\ (u - 1) + 1 = u BY <3>2, <1>1
      <4> QED BY <4>1, <1>7
    <3> QED BY <3>1, <3>2, <2>2, <1>1
  <2>3. Listed(p) = {p[i] : i \in 1..(n - 1)} /\ Listed(q) = {q[u] : u \in 1..n} BY <1>6 DEF Listed, n
  <2> QED BY <2>1, <2>2, <2>3
<1> QED BY <1>6, <1>8, <1>9

\* one whose wait ran past its cap
LEMMA WaitedOutTurns ==
  ASSUME TurnInv, NEW r \in Gate!Runs, Gate!WaitedOut(r)
  PROVE  TurnInv' /\ run'[r] = Gate!None /\ \A s \in Gate!Runs \ {r} : run'[s] = run[s]
<1>1. PICK m \in Gate!Memories : m = run[r].mem BY DEF TurnInv, TurnTypes, RunRec
<1>2. /\ run[r].at = "queued" /\ held' = held
      /\ queue' = [queue EXCEPT ![m] = Gate!RemoveFirst(queue[m], r)] /\ run' = [run EXCEPT ![r] = Gate!None]
  BY <1>1 DEF Gate!WaitedOut, Gate!MayLeave
<1>3. \A n \in Gate!Memories : /\ held[n] = Cardinality(Holding(run, n)) /\ Once(queue[n]) /\ Listed(queue[n]) = Waiters(run, n)
                               /\ held[n] \in Nat /\ queue[n] \in Seq(Gate!Runs)
  BY DEF TurnInv, TurnsOK, TurnTypes
<1>4. r \in Waiters(run, m) BY <1>1, <1>2 DEF Waiters
<1>5. PICK j \in 1..Len(queue[m]) : queue[m][j] = r BY <1>3, <1>4 DEF Listed
<1>6. PICK p : p = Gate!RemoveFirst(queue[m], r) OBVIOUS
<1>7. p \in Seq(Gate!Runs) /\ Once(p) /\ Listed(p) = Listed(queue[m]) \ {r} BY <1>3, <1>5, <1>6, RemovedOnce
<1>8. queue'[m] = p /\ (\A n \in Gate!Memories : n # m => queue'[n] = queue[n])
      /\ queue' \in [Gate!Memories -> Seq(Gate!Runs)]
  BY <1>2, <1>6, <1>7 DEF TurnInv, TurnTypes
<1>9. /\ run'[r] = Gate!None /\ Gate!None.at = "none" /\ run' \in [Gate!Runs -> RunRec]
      /\ \A s \in Gate!Runs \ {r} : run'[s] = run[s]
  <2>1. Gate!None.at = "none" BY DEF Gate!None
  <2> QED BY <1>2, <2>1, RunRecs DEF TurnInv, TurnTypes
<1>10. \A n \in Gate!Memories : Holding(run', n) = Holding(run, n)
  BY <1>2, <1>9 DEF Holding, Turned
<1>11. Waiters(run', m) = Waiters(run, m) \ {r} /\ \A n \in Gate!Memories : n # m => Waiters(run', n) = Waiters(run, n)
  BY <1>1, <1>9 DEF Waiters
<1>12. TurnsOK(held', queue', run') BY <1>2, <1>3, <1>7, <1>8, <1>10, <1>11 DEF TurnsOK
<1>13. queue[m] # <<>>
  BY <1>5, <1>3
<1>14. NobodyStranded'
  <2> SUFFICES ASSUME NEW n \in Gate!Memories, queue'[n] # <<>> PROVE held'[n] > 0 BY DEF NobodyStranded
  <2>1. queue[n] # <<>> BY <1>8, <1>13
  <2> QED BY <2>1, <1>2 DEF TurnInv, NobodyStranded
<1>15. TurnTypes' BY <1>2, <1>8, <1>9 DEF TurnInv, TurnTypes
<1> QED BY <1>9, <1>12, <1>14, <1>15 DEF TurnInv

WriterRec == [at : {"working", "stopping", "ended", "dead"}, stops : 0..MaxStops, starting : BOOLEAN]
LineRec == [last : Gate!Causes \cup {"none"}, start : 0..MaxMemories, wrote : 0..MaxMemories, again : Nat]
GateTypes ==
  /\ proc \in Seq(Gate!Memories) /\ Len(proc) \in 1..MaxMemories
  /\ writer \in [Gates -> WriterRec] /\ log \in [Gates -> LineRec]
  /\ slots \in [Gate!SlotFiles -> {Gate!Free} \cup {{c} : c \in Gate!Commands}]
  /\ recover \in [Gate!Memories -> [ran : BOOLEAN, todo : SUBSET Gates]]
  /\ upsets \in 0..MaxUpsets
\* the processes are numbered as they come, the newest memory's last
ProcsOK == proc[1] = 1 /\ Gate!Process <= Gate!Now /\ \A i \in 1..Gate!Now : proc[i] <= Gate!Process
\* a handler is in a memory of the process that runs, a re-run in its own
RunsLive ==
  \A r \in Gate!Runs : run[r] # Gate!None =>
    run[r].at # "none" /\ Gate!Live(run[r].mem) /\ (r[2] # 0 => run[r].mem = r[2])
\* a writer's own handler is its stop, or one the engine cut off
StopsOK ==
  \A g \in Gates : run[<<g, 0>>] # Gate!None =>
    writer[g].at = "stopping" \/ (run[<<g, 0>>].cut /\ writer[g].at = "ended")
\* a run that will not come again
Over(r) == IF r[2] = 0 THEN writer[r[1]].at \in {"ended", "dead"}
                       ELSE r[2] \in 1..Gate!Now /\ proc[r[2]] # Gate!Process
\* a slot file is its running command's, or one's whose handler is gone for good; a command has one at most
SlotsOK ==
  /\ \A r \in Gate!Runs, i \in Gate!SlotFiles :
       slots[i] = {r} => run[r].at = "running" \/ (run[r] = Gate!None /\ Over(r))
  /\ \A i, j \in Gate!SlotFiles : slots[i] = slots[j] /\ slots[i] # Gate!Free => i = j
  /\ \A c \in Gate!Commands, i \in Gate!SlotFiles : slots[i] = {c} => i < Cap[c[1]]
\* an agent that never stopped has no gate
FreshOK ==
  \A g \in Gates : writer[g].stops = 0 =>
    /\ writer[g].at = "working" /\ ~writer[g].starting /\ log[g].start = 0 /\ log[g].last = "none"
    /\ \A r \in Gate!Runs : r[1] = g => run[r] = Gate!None
Alive(g) == writer[g].at \in {"working", "stopping"} \/ run[<<g, 0>>] # Gate!None
\* a gate whose agent is alive has its newest lines from this process
LogOK ==
  \A g \in Gates :
    /\ log[g].start <= Gate!Process /\ log[g].wrote <= Gate!Process /\ (log[g].wrote = 0 => log[g].last = "none")
    /\ Alive(g) => \/ log[g].start = Gate!Process
                   \/ log[g].start = 0 /\ (log[g].last = "none" \/ log[g].wrote = Gate!Process)
\* the recovery's list has gates that began
TodoOK == \A m \in Gate!Memories, g \in Gates : g \in recover[m].todo => log[g].last # "none"
GateInv == GateTypes /\ TurnInv /\ ProcsOK /\ RunsLive /\ StopsOK /\ SlotsOK /\ FreshOK /\ LogOK /\ TodoOK

LEMMA ProcFacts ==
  ASSUME GateTypes
  PROVE  /\ MaxMemories \in Nat /\ MaxMemories > 0 /\ Gate!Memories = 1..MaxMemories
         /\ Gate!Now \in 1..MaxMemories /\ Gate!Now = Len(proc) /\ DOMAIN proc = 1..Gate!Now
         /\ Gate!Process \in 1..MaxMemories /\ Gate!Process = proc[Gate!Now]
         /\ \A i \in 1..Gate!Now : proc[i] \in 1..MaxMemories
         /\ Gate!Now \in Gate!Memories
BY BoundsAssumption DEF GateTypes, Gate!Memories, Gate!Now, Gate!Process

LEMMA RunsAre == \A r \in Gate!Runs : r[1] \in Gates /\ r = <<r[1], r[2]>> /\ (r[2] = 0 => r = <<r[1], 0>>)
BY DEF Gate!Runs

LEMMA OwnRuns ==
  /\ \A g \in Gates : <<g, 0>> \in Gate!Runs
  /\ \A g \in Gates, m \in Gate!Memories : m # 1 => <<g, m>> \in Gate!Runs
BY BoundsAssumption DEF Gate!Runs, Gate!Memories

LEMMA CommandsAre ==
  /\ \A r \in Gate!Runs : r \in Gate!Commands
  /\ \A g \in Gates : <<g, Gate!Own>> \in Gate!Commands /\ <<g, Gate!Own>> \notin Gate!Runs
BY BoundsAssumption DEF Gate!Runs, Gate!Commands, Gate!Own

\* what a step of one handler does: it goes on, gives up or ends, and answers its own agent
HandlerMoves ==
  /\ \A s \in Gate!Runs : run'[s] # run[s] =>
       /\ run[s] # Gate!None
       /\ run'[s] # Gate!None => run'[s].at # "none" /\ run'[s].mem = run[s].mem /\ (run[s].cut => run'[s].cut)
  /\ \A g \in Gates : writer'[g] # writer[g] =>
       /\ writer'[g].stops = writer[g].stops /\ run[<<g, 0>>] # Gate!None
       /\ run'[<<g, 0>>] = Gate!None \/ (writer'[g].at = "ended" /\ run'[<<g, 0>>].cut)
  /\ \A g \in Gates : log'[g] # log[g] =>
       /\ log'[g].last # "none" /\ log'[g].wrote = Gate!Process /\ log'[g].start = log[g].start
       /\ \E r \in Gate!Runs : r[1] = g /\ run[r] # Gate!None
  /\ \A i \in Gate!SlotFiles : slots'[i] # slots[i] =>
       \/ slots'[i] = Gate!Free
       \/ \E r \in Gate!Runs : /\ slots'[i] = {r} /\ slots[i] = Gate!Free /\ i < Cap[r[1]]
                               /\ run[r].at = "slot" /\ run'[r].at = "running"
                               /\ \A j \in Gate!SlotFiles : j # i => slots'[j] = slots[j]
  /\ \A s \in Gate!Runs : run[s].at = "running" => run'[s].at = "running" \/ \A i \in Gate!SlotFiles : slots'[i] # {s}

LEMMA HandlerStep ==
  ASSUME GateInv, TurnInv', GateTypes', HandlerMoves, proc' = proc, recover' = recover
  PROVE  GateInv'
<1>1. /\ Gate!Process' = Gate!Process /\ Gate!Now' = Gate!Now /\ \A m : Gate!Live(m)' <=> Gate!Live(m)
  BY DEF Gate!Process, Gate!Now, Gate!Live
<1>2. ProcsOK' BY <1>1 DEF GateInv, ProcsOK
<1>3. RunsLive' BY <1>1 DEF GateInv, RunsLive, HandlerMoves
<1>4. StopsOK' BY OwnRuns DEF GateInv, StopsOK, HandlerMoves
<1>5. FreshOK'
  <2> SUFFICES ASSUME NEW g \in Gates, writer'[g].stops = 0
               PROVE  /\ writer'[g].at = "working" /\ ~writer'[g].starting /\ log'[g].start = 0 /\ log'[g].last = "none"
                      /\ \A r \in Gate!Runs : r[1] = g => run'[r] = Gate!None
    BY DEF FreshOK
  <2>1. writer[g].stops = 0 BY DEF HandlerMoves
  <2>2. /\ writer[g].at = "working" /\ ~writer[g].starting /\ log[g].start = 0 /\ log[g].last = "none"
        /\ \A r \in Gate!Runs : r[1] = g => run[r] = Gate!None
    BY <2>1 DEF GateInv, FreshOK
  <2>3. <<g, 0>> \in Gate!Runs /\ <<g, 0>>[1] = g BY OwnRuns
  <2>4. writer'[g] = writer[g] /\ log'[g] = log[g] BY <2>2, <2>3 DEF HandlerMoves
  <2>5. \A r \in Gate!Runs : r[1] = g => run'[r] = Gate!None BY <2>2 DEF HandlerMoves
  <2> QED BY <2>2, <2>4, <2>5
<1>6. LogOK'
  <2> SUFFICES ASSUME NEW g \in Gates
               PROVE  /\ log'[g].start <= Gate!Process /\ log'[g].wrote <= Gate!Process /\ (log'[g].wrote = 0 => log'[g].last = "none")
                      /\ Alive(g)' => \/ log'[g].start = Gate!Process
                                      \/ log'[g].start = 0 /\ (log'[g].last = "none" \/ log'[g].wrote = Gate!Process)
    BY <1>1 DEF LogOK
  <2>1. Alive(g)' => Alive(g)
    <3>1. <<g, 0>> \in Gate!Runs BY OwnRuns
    <3>2. run'[<<g, 0>>] # Gate!None => run[<<g, 0>>] # Gate!None BY <3>1 DEF HandlerMoves
    <3>3. writer'[g] = writer[g] \/ run[<<g, 0>>] # Gate!None BY DEF HandlerMoves
    <3> QED BY <3>2, <3>3 DEF Alive
  <2>2. Gate!Process \in 1..MaxMemories BY ProcFacts DEF GateInv
  <2>3. CASE log'[g] = log[g] BY <2>1, <2>3 DEF GateInv, LogOK
  <2>4. CASE log'[g] # log[g]
    <3>1. log'[g].wrote = Gate!Process /\ log'[g].start = log[g].start BY <2>4 DEF HandlerMoves
    <3> QED BY <3>1, <2>1, <2>2 DEF GateInv, LogOK
  <2> QED BY <2>3, <2>4
<1>7. TodoOK' BY DEF GateInv, TodoOK, HandlerMoves
<1>8. \A r \in Gate!Runs : run[r] = Gate!None /\ Over(r) => run'[r] = Gate!None /\ Over(r)'
  <2> SUFFICES ASSUME NEW r \in Gate!Runs, run[r] = Gate!None, Over(r) PROVE run'[r] = Gate!None /\ Over(r)' OBVIOUS
  <2>1. run'[r] = Gate!None BY DEF HandlerMoves
  <2>2. r[2] = 0 => writer'[r[1]] = writer[r[1]] BY RunsAre DEF HandlerMoves
  <2> QED BY <1>1, <2>1, <2>2 DEF Over
<1>9. SlotsOK'
  <2>0. Gate!None.at = "none" BY DEF Gate!None
  <2>1. ASSUME NEW r \in Gate!Runs, NEW i \in Gate!SlotFiles, slots'[i] = {r}
        PROVE  run'[r].at = "running" \/ (run'[r] = Gate!None /\ Over(r)')
    <3>1. CASE slots'[i] = slots[i]
      <4>1. run[r].at = "running" \/ (run[r] = Gate!None /\ Over(r)) BY <2>1, <3>1 DEF GateInv, SlotsOK
      <4> QED BY <4>1, <1>8, <2>1 DEF HandlerMoves
    <3>2. CASE slots'[i] # slots[i] BY <2>1, <3>2 DEF HandlerMoves, Gate!Free
    <3> QED BY <3>1, <3>2
  <2>2. ASSUME NEW i \in Gate!SlotFiles, NEW j \in Gate!SlotFiles, slots'[i] = slots'[j], slots'[i] # Gate!Free, i # j
        PROVE  FALSE
    <3>1. ASSUME NEW a \in Gate!SlotFiles, NEW b \in Gate!SlotFiles, slots'[a] = slots'[b], slots'[a] # Gate!Free, a # b,
                 slots'[a] # slots[a]
          PROVE  FALSE
      <4>1. PICK r \in Gate!Runs : slots'[a] = {r} /\ run[r].at = "slot" /\ \A x \in Gate!SlotFiles : x # a => slots'[x] = slots[x]
        BY <3>1 DEF HandlerMoves
      <4>2. slots[b] = {r} BY <4>1, <3>1
      <4> QED BY <4>1, <4>2, <2>0 DEF GateInv, SlotsOK
    <3>2. slots'[i] = slots[i] /\ slots'[j] = slots[j] BY <3>1, <2>2
    <3> QED BY <3>2, <2>2 DEF GateInv, SlotsOK
  <2>3. ASSUME NEW c \in Gate!Commands, NEW i \in Gate!SlotFiles, slots'[i] = {c} PROVE i < Cap[c[1]]
    <3>1. CASE slots'[i] = slots[i] BY <2>3, <3>1 DEF GateInv, SlotsOK
    <3>2. CASE slots'[i] # slots[i]
      <4>1. PICK r \in Gate!Runs : slots'[i] = {r} /\ i < Cap[r[1]] BY <3>2, <2>3 DEF HandlerMoves, Gate!Free
      <4> QED BY <4>1, <2>3
    <3> QED BY <3>1, <3>2
  <2> QED BY <2>1, <2>2, <2>3 DEF SlotsOK
<1> QED BY <1>2, <1>3, <1>4, <1>5, <1>6, <1>7, <1>9 DEF GateInv

\* a line of a gate
LEMMA LineIs ==
  ASSUME GateTypes, NEW g \in Gates, NEW cause \in Gate!Causes, Gate!Line(g, cause)
  PROVE  /\ log' \in [Gates -> LineRec]
         /\ log'[g].last = cause /\ log'[g].wrote = Gate!Process /\ log'[g].start = log[g].start
         /\ log'[g].again = log[g].again + (IF cause \in {"gate-rerun", "gate-cut"} THEN 1 ELSE 0)
         /\ \A h \in Gates : h # g => log'[h] = log[h]
<1>1. Gate!Process \in 0..MaxMemories BY ProcFacts
<1>2. log[g] \in LineRec /\ log \in [Gates -> LineRec] BY DEF GateTypes
<1>3. DOMAIN log' = Gates /\ \A h \in Gates : h # g => log'[h] = log[h] BY <1>2 DEF Gate!Line
<1>4. /\ log'[g] \in LineRec /\ log'[g].last = cause /\ log'[g].wrote = Gate!Process /\ log'[g].start = log[g].start
      /\ log'[g].again = log[g].again + (IF cause \in {"gate-rerun", "gate-cut"} THEN 1 ELSE 0)
  <2>1. PICK k \in Nat : k = (IF cause \in {"gate-rerun", "gate-cut"} THEN 1 ELSE 0) OBVIOUS
  <2>2. log' = [log EXCEPT ![g].last = cause, ![g].wrote = Gate!Process, ![g].again = @ + k] BY <2>1 DEF Gate!Line
  <2>3. log'[g] = [log[g] EXCEPT !.last = cause, !.wrote = Gate!Process, !.again = log[g].again + k] BY <1>2, <2>2 DEF LineRec
  <2>4. log[g].again + k \in Nat BY <1>2 DEF LineRec
  <2>5. PICK n : n = log[g].again + k OBVIOUS
  <2>6. log'[g] = [log[g] EXCEPT !.last = cause, !.wrote = Gate!Process, !.again = n] BY <2>3, <2>5
  <2> QED BY <1>1, <1>2, <2>1, <2>4, <2>5, <2>6 DEF LineRec
<1>5. log' \in [Gates -> LineRec]
  <2>1. log' = [h \in Gates |-> log'[h]] BY <1>2 DEF Gate!Line
  <2> QED BY <2>1, <1>2, <1>3, <1>4
<1> QED BY <1>3, <1>4, <1>5

\* what a stop's end answers its agent
LEMMA AnswersIs ==
  ASSUME GateTypes, StopsOK, NEW r \in Gate!Runs, run[r] # Gate!None, NEW refused, Gate!Answers(r, refused)
  PROVE  /\ writer' \in [Gates -> WriterRec]
         /\ \A g \in Gates : writer'[g] # writer[g] => r = <<g, 0>> /\ writer'[g].stops = writer[g].stops
<1>1. CASE r[2] = 0 /\ ~run[r].cut
  <2>1. PICK v \in {"working", "ended"} : writer' = [writer EXCEPT ![r[1]] = [writer[r[1]] EXCEPT !.at = v]]
    BY <1>1 DEF Gate!Answers
  <2>2. r[1] \in Gates /\ r = <<r[1], 0>> BY <1>1, RunsAre
  <2>3. writer[r[1]] \in WriterRec /\ writer \in [Gates -> WriterRec] BY <2>2 DEF GateTypes
  <2>4. [writer[r[1]] EXCEPT !.at = v] \in WriterRec /\ [writer[r[1]] EXCEPT !.at = v].stops = writer[r[1]].stops
    BY <2>3 DEF WriterRec
  <2> QED BY <2>1, <2>2, <2>3, <2>4
<1>2. CASE ~(r[2] = 0 /\ ~run[r].cut)
  BY <1>2 DEF Gate!Answers, GateTypes
<1> QED BY <1>1, <1>2

LEMMA WaitedOutStep ==
  ASSUME GateInv, NEW r \in Gate!Runs, Gate!WaitedOut(r)
  PROVE  GateInv'
<1>1. TurnInv' /\ run'[r] = Gate!None /\ \A s \in Gate!Runs \ {r} : run'[s] = run[s] BY WaitedOutTurns DEF GateInv
<1>2. /\ run[r].at = "queued" /\ Gate!Line(r[1], "settled") /\ Gate!Answers(r, FALSE)
      /\ proc' = proc /\ slots' = slots /\ recover' = recover /\ upsets' = upsets
  BY DEF Gate!WaitedOut, Gate!MayLeave
<1>3. run[r] # Gate!None BY <1>2 DEF Gate!None
<1>4. r[1] \in Gates BY RunsAre
<1>5. /\ log' \in [Gates -> LineRec] /\ log'[r[1]].last = "settled" /\ log'[r[1]].wrote = Gate!Process
      /\ log'[r[1]].start = log[r[1]].start /\ \A h \in Gates : h # r[1] => log'[h] = log[h]
  BY <1>2, <1>4, LineIs DEF GateInv, Gate!Causes
<1>6. /\ writer' \in [Gates -> WriterRec]
      /\ \A g \in Gates : writer'[g] # writer[g] => r = <<g, 0>> /\ writer'[g].stops = writer[g].stops
  BY <1>2, <1>3, AnswersIs DEF GateInv
<1>7. GateTypes' BY <1>2, <1>5, <1>6 DEF GateInv, GateTypes
<1>8. HandlerMoves BY <1>1, <1>2, <1>3, <1>5, <1>6 DEF HandlerMoves
<1> QED BY <1>1, <1>2, <1>7, <1>8, HandlerStep

\* a turn taken goes to one that waits: nobody else's handler moves
LEMMA ReleaseMoves ==
  ASSUME GateInv, NEW r \in Gate!Runs, run[r].at \in Turned, Gate!Release(r)
  PROVE  /\ TurnInv' /\ run'[r] = Gate!None /\ run[r] # Gate!None
         /\ \A s \in Gate!Runs : run'[s] # run[s] =>
              /\ run[s] # Gate!None
              /\ run'[s] # Gate!None => run'[s].at # "none" /\ run'[s].mem = run[s].mem /\ (run[s].cut => run'[s].cut)
         /\ \A s \in Gate!Runs : s # r /\ run[s].at = "running" => run'[s].at = "running"
<1>1. TurnInv' /\ run'[r] = Gate!None /\ \A s \in Gate!Runs \ {r} : Let(run[s], run'[s]) BY ReleaseTurns DEF GateInv
<1>2. run[r] # Gate!None BY DEF Gate!None, Turned
<1>3. \A s \in Gate!Runs \ {r} : run'[s] # run[s] =>
        run[s].at = "queued" /\ run'[s].at = "granted" /\ run'[s].mem = run[s].mem /\ run'[s].cut = run[s].cut
  <2> SUFFICES ASSUME NEW s \in Gate!Runs \ {r}, run'[s] # run[s]
               PROVE run[s].at = "queued" /\ run'[s].at = "granted" /\ run'[s].mem = run[s].mem /\ run'[s].cut = run[s].cut
    OBVIOUS
  <2>1. run[s] \in RunRec /\ run'[s] = [run[s] EXCEPT !.at = "granted"] /\ run[s].at = "queued"
    BY <1>1 DEF Let, GateInv, TurnInv, TurnTypes
  <2> QED BY <2>1 DEF RunRec
<1>4. \A s \in Gate!Runs : run[s].at = "queued" => run[s] # Gate!None BY DEF Gate!None
<1> QED BY <1>1, <1>2, <1>3, <1>4

LEMMA TurnCutStep ==
  ASSUME GateInv, NEW r \in Gate!Runs, Gate!TurnCut(r)
  PROVE  GateInv'
<1>1. /\ run[r].at = "granted" /\ run[r].at \in Turned /\ Gate!Release(r)
      /\ proc' = proc /\ writer' = writer /\ slots' = slots /\ log' = log /\ recover' = recover /\ upsets' = upsets
  BY DEF Gate!TurnCut, Turned
<1>2. GateTypes' BY <1>1 DEF GateInv, GateTypes
<1>3. HandlerMoves
  <2>1. \A g \in Gates : writer'[g] = writer[g] /\ log'[g] = log[g] BY <1>1
  <2>2. \A i \in Gate!SlotFiles : slots'[i] = slots[i] BY <1>1
  <2> QED BY <1>1, <2>1, <2>2, ReleaseMoves DEF HandlerMoves
<1> QED BY <1>1, <1>2, <1>3, ReleaseMoves, HandlerStep

LEMMA SettleStep ==
  ASSUME GateInv, NEW r \in Gate!Runs, NEW refused \in BOOLEAN, Gate!Settle(r, refused)
  PROVE  GateInv'
<1>1. /\ run[r].at \in {"slot", "running"} /\ run[r].at \in Turned /\ Gate!Release(r)
      /\ slots' = Gate!Unlocked(r) /\ Gate!Line(r[1], "settled") /\ Gate!Answers(r, refused)
      /\ proc' = proc /\ recover' = recover /\ upsets' = upsets
  BY DEF Gate!Settle, Turned
<1>2. run[r] # Gate!None BY <1>1, ReleaseMoves
<1>4. r[1] \in Gates BY RunsAre
<1>5. /\ log' \in [Gates -> LineRec] /\ log'[r[1]].last = "settled" /\ log'[r[1]].wrote = Gate!Process
      /\ log'[r[1]].start = log[r[1]].start /\ \A h \in Gates : h # r[1] => log'[h] = log[h]
  BY <1>1, <1>4, LineIs DEF GateInv, Gate!Causes
<1>6. /\ writer' \in [Gates -> WriterRec]
      /\ \A g \in Gates : writer'[g] # writer[g] => r = <<g, 0>> /\ writer'[g].stops = writer[g].stops
  BY <1>1, <1>2, AnswersIs DEF GateInv
<1>7. \A i \in Gate!SlotFiles : (slots'[i] = slots[i] \/ slots'[i] = Gate!Free) /\ slots'[i] # {r}
  BY <1>1 DEF Gate!Unlocked, Gate!Free
<1>8. GateTypes'
  <2>1. slots' \in [Gate!SlotFiles -> {Gate!Free} \cup {{c} : c \in Gate!Commands}]
    BY <1>1 DEF Gate!Unlocked, GateInv, GateTypes
  <2> QED BY <1>1, <1>5, <1>6, <2>1 DEF GateInv, GateTypes
<1>9. HandlerMoves
  <2>1. \A s \in Gate!Runs : run[s].at = "running" => run'[s].at = "running" \/ \A i \in Gate!SlotFiles : slots'[i] # {s}
    BY <1>1, <1>7, ReleaseMoves
  <2>2. \A g \in Gates : log'[g] # log[g] => g = r[1] BY <1>5
  <2> QED BY <1>1, <1>2, <1>5, <1>6, <1>7, <2>1, <2>2, ReleaseMoves DEF HandlerMoves
<1> QED BY <1>1, <1>8, <1>9, ReleaseMoves, HandlerStep

LEMMA ThrowsStep ==
  ASSUME GateInv, NEW r \in Gate!Runs, Gate!Throws(r)
  PROVE  GateInv'
<1>1. /\ run[r].at \in {"granted", "slot"} /\ run[r].at \in Turned /\ Gate!Release(r)
      /\ Gate!Line(r[1], "settled") /\ Gate!Answers(r, FALSE)
      /\ proc' = proc /\ recover' = recover /\ slots' = slots /\ upsets < MaxUpsets /\ upsets' = upsets + 1
  BY DEF Gate!Throws, Gate!Upset, Turned
<1>2. run[r] # Gate!None BY <1>1, ReleaseMoves
<1>4. r[1] \in Gates BY RunsAre
<1>5. /\ log' \in [Gates -> LineRec] /\ log'[r[1]].last = "settled" /\ log'[r[1]].wrote = Gate!Process
      /\ log'[r[1]].start = log[r[1]].start /\ \A h \in Gates : h # r[1] => log'[h] = log[h]
  BY <1>1, <1>4, LineIs DEF GateInv, Gate!Causes
<1>6. /\ writer' \in [Gates -> WriterRec]
      /\ \A g \in Gates : writer'[g] # writer[g] => r = <<g, 0>> /\ writer'[g].stops = writer[g].stops
  BY <1>1, <1>2, AnswersIs DEF GateInv
<1>8. GateTypes'
  <2>1. upsets' \in 0..MaxUpsets BY <1>1, BoundsAssumption DEF GateInv, GateTypes
  <2> QED BY <1>1, <1>5, <1>6, <2>1 DEF GateInv, GateTypes
<1>9. HandlerMoves
  <2>1. \A s \in Gate!Runs : run[s].at = "running" => run'[s].at = "running"
    BY <1>1, ReleaseMoves
  <2>2. \A g \in Gates : log'[g] # log[g] => g = r[1] BY <1>5
  <2> QED BY <1>1, <1>2, <1>5, <1>6, <2>1, <2>2, ReleaseMoves DEF HandlerMoves
<1> QED BY <1>1, <1>8, <1>9, ReleaseMoves, HandlerStep

LEMMA TurnTakenStep ==
  ASSUME GateInv, NEW r \in Gate!Runs, Gate!TurnTaken(r)
  PROVE  GateInv'
<1>1. /\ run[r].at = "granted" /\ run' = [run EXCEPT ![r].at = "slot"]
      /\ Gate!Line(r[1], "gate-wait") \/ log' = log
      /\ proc' = proc /\ held' = held /\ queue' = queue /\ writer' = writer /\ slots' = slots
      /\ recover' = recover /\ upsets' = upsets
  BY DEF Gate!TurnTaken
<1>2. /\ run'[r].at = "slot" /\ run'[r].mem = run[r].mem /\ run'[r].cut = run[r].cut /\ run[r] # Gate!None
      /\ run' \in [Gate!Runs -> RunRec] /\ \A s \in Gate!Runs : s # r => run'[s] = run[s]
  <2>1. run[r] # Gate!None BY <1>1 DEF Gate!None
  <2>2. run[r] \in RunRec /\ run \in [Gate!Runs -> RunRec] BY DEF GateInv, TurnInv, TurnTypes
  <2> QED BY <1>1, <2>1, <2>2 DEF RunRec
<1>3. TurnInv' BY <1>1, <1>2, SameTurns DEF GateInv, Turned
<1>4. r[1] \in Gates BY RunsAre
<1>5. CASE Gate!Line(r[1], "gate-wait")
  <2>1. /\ log' \in [Gates -> LineRec] /\ log'[r[1]].last = "gate-wait" /\ log'[r[1]].wrote = Gate!Process
        /\ log'[r[1]].start = log[r[1]].start /\ \A h \in Gates : h # r[1] => log'[h] = log[h]
    BY <1>4, <1>5, LineIs DEF GateInv, Gate!Causes, Gate!Waiting
  <2>2. GateTypes' BY <1>1, <2>1 DEF GateInv, GateTypes
  <2>3. HandlerMoves
    <3>1. \A s \in Gate!Runs : run[s].at = "running" => run'[s].at = "running" BY <1>1, <1>2
    <3> QED BY <1>1, <1>2, <2>1, <3>1 DEF HandlerMoves
  <2> QED BY <1>1, <1>3, <2>2, <2>3, HandlerStep
<1>6. CASE log' = log
  <2>2. GateTypes' BY <1>1, <1>6 DEF GateInv, GateTypes
  <2>3. HandlerMoves
    <3>1. \A s \in Gate!Runs : run[s].at = "running" => run'[s].at = "running" BY <1>1, <1>2
    <3> QED BY <1>1, <1>2, <1>6, <3>1 DEF HandlerMoves
  <2> QED BY <1>1, <1>3, <2>2, <2>3, HandlerStep
<1> QED BY <1>1, <1>5, <1>6

LEMMA TakeSlotStep ==
  ASSUME GateInv, NEW r \in Gate!Runs, Gate!TakeSlot(r)
  PROVE  GateInv'
<1>1. /\ run[r].at = "slot" /\ run' = [run EXCEPT ![r].at = "running"]
      /\ proc' = proc /\ held' = held /\ queue' = queue /\ writer' = writer /\ log' = log
      /\ recover' = recover /\ upsets' = upsets
  BY DEF Gate!TakeSlot
<1>2. /\ run'[r].at = "running" /\ run'[r].mem = run[r].mem /\ run'[r].cut = run[r].cut /\ run[r] # Gate!None
      /\ run' \in [Gate!Runs -> RunRec] /\ \A s \in Gate!Runs : s # r => run'[s] = run[s]
  <2>1. run[r] # Gate!None BY <1>1 DEF Gate!None
  <2>2. run[r] \in RunRec /\ run \in [Gate!Runs -> RunRec] BY DEF GateInv, TurnInv, TurnTypes
  <2> QED BY <1>1, <2>1, <2>2 DEF RunRec
<1>3. TurnInv' BY <1>1, <1>2, SameTurns DEF GateInv, Turned
<1>4. PICK i \in Gate!SlotFiles : slots[i] = Gate!Free /\ i < Cap[r[1]] /\ slots' = [slots EXCEPT ![i] = {r}]
  BY DEF Gate!TakeSlot, Gate!Lowest
<1>5. /\ slots'[i] = {r} /\ \A j \in Gate!SlotFiles : j # i => slots'[j] = slots[j]
      /\ slots' \in [Gate!SlotFiles -> {Gate!Free} \cup {{c} : c \in Gate!Commands}]
  BY <1>4, CommandsAre DEF GateInv, GateTypes
<1>6. GateTypes' BY <1>1, <1>5 DEF GateInv, GateTypes
<1>7. HandlerMoves
  <2>1. \A s \in Gate!Runs : run[s].at = "running" => run'[s].at = "running" BY <1>2
  <2>2. \A j \in Gate!SlotFiles : slots'[j] # slots[j] => j = i BY <1>5
  <2> QED BY <1>1, <1>2, <1>4, <1>5, <2>1, <2>2 DEF HandlerMoves
<1> QED BY <1>1, <1>3, <1>6, <1>7, HandlerStep

LEMMA CutOffStep ==
  ASSUME GateInv, NEW g \in Gates, Gate!CutOff(g)
  PROVE  GateInv'
<1>0. PICK r \in Gate!Runs : r = <<g, 0>> BY OwnRuns
<1>1. /\ run[r] # Gate!None /\ run' = [run EXCEPT ![r].cut = TRUE] /\ Gate!Line(g, "settled")
      /\ writer' = [writer EXCEPT ![g].at = "ended"] /\ upsets < MaxUpsets /\ upsets' = upsets + 1
      /\ proc' = proc /\ held' = held /\ queue' = queue /\ slots' = slots /\ recover' = recover
  BY <1>0 DEF Gate!CutOff, Gate!Upset
<1>2. /\ run'[r].at = run[r].at /\ run'[r].mem = run[r].mem /\ run'[r].cut
      /\ run' \in [Gate!Runs -> RunRec] /\ \A s \in Gate!Runs : s # r => run'[s] = run[s]
  BY <1>1 DEF GateInv, TurnInv, TurnTypes, RunRec
<1>3. TurnInv' BY <1>1, <1>2, SameTurns DEF GateInv
<1>4. run[r].at # "none" BY <1>1 DEF GateInv, RunsLive
<1>5. /\ log' \in [Gates -> LineRec] /\ log'[g].last = "settled" /\ log'[g].wrote = Gate!Process
      /\ log'[g].start = log[g].start /\ \A h \in Gates : h # g => log'[h] = log[h]
  BY <1>1, LineIs DEF GateInv, Gate!Causes
<1>6. /\ writer'[g].at = "ended" /\ writer'[g].stops = writer[g].stops /\ writer' \in [Gates -> WriterRec]
      /\ \A h \in Gates : h # g => writer'[h] = writer[h]
  BY <1>1 DEF GateInv, GateTypes, WriterRec
<1>7. upsets' \in 0..MaxUpsets BY <1>1, BoundsAssumption DEF GateInv, GateTypes
<1>8. GateTypes' BY <1>1, <1>5, <1>6, <1>7 DEF GateInv, GateTypes
<1>9. HandlerMoves
  <2>1. r[1] = g BY <1>0
  <2> QED BY <1>0, <1>1, <1>2, <1>4, <1>5, <1>6, <2>1 DEF HandlerMoves
<1> QED BY <1>1, <1>3, <1>8, <1>9, HandlerStep

\* the end of a command whose slot file nobody waits for
LEMMA OtherEndsStep ==
  ASSUME GateInv, NEW c \in Gate!Commands, Gate!OtherEnds(c)
  PROVE  GateInv'
<1>1. /\ c[2] # Gate!Own => run[c].at # "running"
      /\ slots' = Gate!Unlocked(c) /\ run' = run
      /\ proc' = proc /\ held' = held /\ queue' = queue /\ writer' = writer /\ log' = log
      /\ recover' = recover /\ upsets' = upsets
  BY DEF Gate!OtherEnds
<1>2. TurnInv' BY <1>1 DEF GateInv, TurnInv, TurnTypes, TurnsOK, NobodyStranded
<1>3. \A i \in Gate!SlotFiles : slots'[i] = slots[i] \/ slots'[i] = Gate!Free BY <1>1 DEF Gate!Unlocked
<1>4. slots' \in [Gate!SlotFiles -> {Gate!Free} \cup {{x} : x \in Gate!Commands}]
  BY <1>1 DEF Gate!Unlocked, GateInv, GateTypes
<1>5. GateTypes' BY <1>1, <1>4 DEF GateInv, GateTypes
<1>6. HandlerMoves BY <1>1, <1>3 DEF HandlerMoves
<1> QED BY <1>1, <1>2, <1>5, <1>6, HandlerStep

LEMMA OwnCommandStep ==
  ASSUME GateInv, NEW g \in Gates, Gate!OwnCommand(g)
  PROVE  GateInv'
<1>0. PICK c \in Gate!Commands : c = <<g, Gate!Own>> /\ c \notin Gate!Runs /\ c[1] = g BY CommandsAre
<1>1. /\ \A i \in Gate!SlotFiles : slots[i] # {c}
      /\ upsets < MaxUpsets /\ upsets' = upsets + 1
      /\ proc' = proc /\ held' = held /\ queue' = queue /\ run' = run /\ writer' = writer /\ log' = log
      /\ recover' = recover
  BY <1>0 DEF Gate!OwnCommand, Gate!Upset
<1>2. PICK i \in Gate!SlotFiles : slots[i] = Gate!Free /\ i < Cap[c[1]] /\ slots' = [slots EXCEPT ![i] = {c}]
  BY <1>0 DEF Gate!OwnCommand, Gate!Lowest
<1>3. /\ slots'[i] = {c} /\ \A j \in Gate!SlotFiles : j # i => slots'[j] = slots[j]
      /\ slots' \in [Gate!SlotFiles -> {Gate!Free} \cup {{x} : x \in Gate!Commands}]
  BY <1>2 DEF GateInv, GateTypes
<1>4. TurnInv' BY <1>1 DEF GateInv, TurnInv, TurnTypes, TurnsOK, NobodyStranded
<1>5. upsets' \in 0..MaxUpsets BY <1>1, BoundsAssumption DEF GateInv, GateTypes
<1>6. GateTypes' BY <1>1, <1>3, <1>5 DEF GateInv, GateTypes
<1>7. /\ Gate!Process' = Gate!Process /\ Gate!Now' = Gate!Now /\ \A m : Gate!Live(m)' <=> Gate!Live(m)
      /\ \A r : Over(r)' <=> Over(r)
  BY <1>1 DEF Gate!Process, Gate!Now, Gate!Live, Over
<1>8. ProcsOK' /\ RunsLive' /\ StopsOK' /\ FreshOK' /\ LogOK' /\ TodoOK'
  BY <1>1, <1>7 DEF GateInv, ProcsOK, RunsLive, StopsOK, FreshOK, LogOK, TodoOK, Alive
<1>9. SlotsOK'
  <2>1. \A r \in Gate!Runs, j \in Gate!SlotFiles : slots'[j] = {r} => slots[j] = {r}
    BY <1>0, <1>3
  <2>2. \A j, k \in Gate!SlotFiles : slots'[j] = slots'[k] /\ slots'[j] # Gate!Free => j = k
    BY <1>1, <1>3 DEF GateInv, SlotsOK
  <2>3. \A x \in Gate!Commands, j \in Gate!SlotFiles : slots'[j] = {x} => j < Cap[x[1]]
    BY <1>2, <1>3 DEF GateInv, SlotsOK
  <2> QED BY <1>1, <1>7, <2>1, <2>2, <2>3 DEF GateInv, SlotsOK
<1> QED BY <1>4, <1>6, <1>8, <1>9 DEF GateInv

\* a start line
LEMMA StartedIs ==
  ASSUME GateTypes, NEW g \in Gates, Gate!Started(g)
  PROVE  /\ log' \in [Gates -> LineRec]
         /\ log'[g].last = "gate-start" /\ log'[g].wrote = Gate!Process /\ log'[g].start = Gate!Process /\ log'[g].again = 0
         /\ \A h \in Gates : h # g => log'[h] = log[h]
<1>1. Gate!Process \in 0..MaxMemories BY ProcFacts
<1>2. PICK rec : rec = [last |-> "gate-start", start |-> Gate!Process, wrote |-> Gate!Process, again |-> 0] OBVIOUS
<1>3. log' = [log EXCEPT ![g] = rec] BY <1>2 DEF Gate!Started
<1>4. /\ rec \in LineRec /\ rec.last = "gate-start" /\ rec.wrote = Gate!Process /\ rec.start = Gate!Process
      /\ rec.again = 0
  BY <1>1, <1>2 DEF LineRec, Gate!Causes, Gate!Waiting
<1> QED BY <1>3, <1>4 DEF GateTypes

LEMMA StopStep ==
  ASSUME GateInv, NEW g \in Gates, Gate!Stop(g)
  PROVE  GateInv'
<1>0. PICK r \in Gate!Runs : r = <<g, 0>> /\ r[1] = g /\ r[2] = 0 BY OwnRuns
<1>1. PICK m \in Gate!Memories : m = Gate!Now BY ProcFacts DEF GateInv
<1>2. PICK late \in BOOLEAN :
        /\ writer' = [writer EXCEPT ![g] = [at |-> "stopping", stops |-> @.stops + 1, starting |-> late]]
        /\ IF late THEN Gate!Upset /\ log' = log ELSE Gate!Started(g) /\ upsets' = upsets
  BY DEF Gate!Stop
<1>3. /\ writer[g].at = "working" /\ writer[g].stops < MaxStops /\ Gate!Ask(r, m)
      /\ proc' = proc /\ slots' = slots /\ recover' = recover
  BY <1>0, <1>1 DEF Gate!Stop, Gate!Ask, Gate!Enters
<1>4. /\ writer'[g].at = "stopping" /\ writer'[g].stops # 0 /\ writer' \in [Gates -> WriterRec]
      /\ \A h \in Gates : h # g => writer'[h] = writer[h]
  <2>1. writer[g] \in WriterRec /\ writer \in [Gates -> WriterRec] BY DEF GateInv, GateTypes
  <2>2. writer[g].stops + 1 \in 0..MaxStops /\ writer[g].stops + 1 # 0
    BY <1>3, <2>1, BoundsAssumption DEF WriterRec
  <2>3. PICK rec : rec = [at |-> "stopping", stops |-> writer[g].stops + 1, starting |-> late] OBVIOUS
  <2>4. rec \in WriterRec /\ rec.at = "stopping" /\ rec.stops # 0 BY <2>2, <2>3 DEF WriterRec
  <2>5. writer' = [writer EXCEPT ![g] = rec] BY <1>2, <2>3
  <2> QED BY <2>1, <2>4, <2>5
<1>5. /\ log' \in [Gates -> LineRec] /\ \A h \in Gates : h # g => log'[h] = log[h]
      /\ \/ log'[g] = log[g]
         \/ log'[g].last = "gate-start" /\ log'[g].wrote = Gate!Process /\ log'[g].start = Gate!Process
  BY <1>2, StartedIs DEF GateInv, GateTypes
<1>6. /\ TurnInv' /\ \A s \in Gate!Runs : s # r => run'[s] = run[s]
      /\ run'[r].mem = m /\ run'[r].at \in {"queued", "granted"}
  BY <1>3, AskTurns DEF GateInv
<1>7. run[r] = Gate!None BY <1>3 DEF Gate!Ask
<1>8. /\ Gate!Process' = Gate!Process /\ Gate!Now' = Gate!Now /\ \A n : Gate!Live(n)' <=> Gate!Live(n)
  BY <1>3 DEF Gate!Process, Gate!Now, Gate!Live
<1>9. upsets' \in 0..MaxUpsets
  BY <1>2, BoundsAssumption DEF Gate!Upset, GateInv, GateTypes
<1>10. GateTypes' BY <1>3, <1>4, <1>5, <1>9 DEF GateInv, GateTypes
<1>11. ProcsOK' BY <1>3, <1>8 DEF GateInv, ProcsOK
<1>12. RunsLive'
  <2>1. Gate!Live(m) BY <1>1, ProcFacts DEF GateInv, Gate!Live
  <2> QED BY <1>0, <1>6, <1>8, <2>1 DEF GateInv, RunsLive
<1>13. StopsOK' BY <1>0, <1>4, <1>6, OwnRuns DEF GateInv, StopsOK
<1>14. FreshOK'
  <2> SUFFICES ASSUME NEW h \in Gates, writer'[h].stops = 0
               PROVE  /\ writer'[h].at = "working" /\ ~writer'[h].starting /\ log'[h].start = 0 /\ log'[h].last = "none"
                      /\ \A s \in Gate!Runs : s[1] = h => run'[s] = Gate!None
    BY DEF FreshOK
  <2>1. h # g BY <1>4
  <2> QED BY <2>1, <1>0, <1>4, <1>5, <1>6 DEF GateInv, FreshOK
<1>15. LogOK'
  <2>1. Gate!Process \in 1..MaxMemories BY ProcFacts DEF GateInv
  <2>2. Alive(g) BY <1>3 DEF Alive
  <2>3. \A h \in Gates : h # g => <<h, 0>> # r BY <1>0
  <2>4. \A h \in Gates : h # g => (Alive(h)' <=> Alive(h)) BY <1>4, <1>6, <2>3, OwnRuns DEF Alive
  <2> QED BY <1>5, <1>8, <2>1, <2>2, <2>4 DEF GateInv, LogOK
<1>16. TodoOK' BY <1>3, <1>5 DEF GateInv, TodoOK
<1>17. SlotsOK'
  <2>1. \A i \in Gate!SlotFiles : slots[i] # {r}
    <3>1. ~Over(r) BY <1>0, <1>3 DEF Over
    <3>2. Gate!None.at # "running" BY DEF Gate!None
    <3> QED BY <3>1, <3>2, <1>7 DEF GateInv, SlotsOK
  <2>2. \A s \in Gate!Runs : s # r => (Over(s)' <=> Over(s))
    <3>1. \A s \in Gate!Runs : s # r /\ s[2] = 0 => s[1] # g /\ s[1] \in Gates BY <1>0, RunsAre
    <3> QED BY <3>1, <1>3, <1>4, <1>8 DEF Over
  <2> QED BY <1>3, <1>6, <2>1, <2>2 DEF GateInv, SlotsOK
<1> QED BY <1>6, <1>10, <1>11, <1>12, <1>13, <1>14, <1>15, <1>16, <1>17 DEF GateInv

LEMMA StartLineStep ==
  ASSUME GateInv, NEW g \in Gates, Gate!StartLine(g)
  PROVE  GateInv'
<1>1. /\ writer[g].starting /\ writer' = [writer EXCEPT ![g].starting = FALSE] /\ Gate!Started(g)
      /\ proc' = proc /\ held' = held /\ queue' = queue /\ run' = run /\ slots' = slots /\ recover' = recover /\ upsets' = upsets
  BY DEF Gate!StartLine
<1>2. /\ writer'[g].at = writer[g].at /\ writer'[g].stops = writer[g].stops /\ writer' \in [Gates -> WriterRec]
      /\ \A h \in Gates : h # g => writer'[h] = writer[h]
  BY <1>1 DEF GateInv, GateTypes, WriterRec
<1>3. /\ log' \in [Gates -> LineRec] /\ \A h \in Gates : h # g => log'[h] = log[h]
      /\ log'[g].last = "gate-start" /\ log'[g].wrote = Gate!Process /\ log'[g].start = Gate!Process
  BY <1>1, StartedIs DEF GateInv
<1>4. TurnInv' BY <1>1 DEF GateInv, TurnInv, TurnTypes, TurnsOK, NobodyStranded
<1>5. GateTypes' BY <1>1, <1>2, <1>3 DEF GateInv, GateTypes
<1>6. /\ Gate!Process' = Gate!Process /\ Gate!Now' = Gate!Now /\ \A n : Gate!Live(n)' <=> Gate!Live(n)
  BY <1>1 DEF Gate!Process, Gate!Now, Gate!Live
<1>7. \A h \in Gates : writer'[h].at = writer[h].at /\ writer'[h].stops = writer[h].stops BY <1>2
<1>8. ProcsOK' /\ RunsLive' /\ StopsOK'
  <2>1. ProcsOK' BY <1>1, <1>6 DEF GateInv, ProcsOK
  <2>2. RunsLive' BY <1>1, <1>6 DEF GateInv, RunsLive
  <2>3. StopsOK' BY <1>1, <1>7 DEF GateInv, StopsOK
  <2> QED BY <2>1, <2>2, <2>3
<1>9. SlotsOK'
  <2>1. \A s \in Gate!Runs : Over(s)' <=> Over(s) BY <1>1, <1>6, <1>7 DEF Over
  <2> QED BY <1>1, <2>1 DEF GateInv, SlotsOK
<1>10. FreshOK'
  <2> SUFFICES ASSUME NEW h \in Gates, writer'[h].stops = 0
               PROVE  /\ writer'[h].at = "working" /\ ~writer'[h].starting /\ log'[h].start = 0 /\ log'[h].last = "none"
                      /\ \A s \in Gate!Runs : s[1] = h => run'[s] = Gate!None
    BY DEF FreshOK
  <2>1. h # g BY <1>1, <1>2 DEF GateInv, FreshOK
  <2> QED BY <2>1, <1>1, <1>2, <1>3 DEF GateInv, FreshOK
<1>11. LogOK'
  <2>1. Gate!Process \in 1..MaxMemories BY ProcFacts DEF GateInv
  <2>2. \A h \in Gates : Alive(h)' <=> Alive(h) BY <1>1, <1>7 DEF Alive
  <2> QED BY <1>3, <1>6, <2>1, <2>2 DEF GateInv, LogOK
<1>12. TodoOK' BY <1>1, <1>3 DEF GateInv, TodoOK
<1> QED BY <1>4, <1>5, <1>8, <1>9, <1>10, <1>11, <1>12 DEF GateInv

LEMMA BeatStep ==
  ASSUME GateInv, NEW lease \in BOOLEAN, Gate!Beat(lease)
  PROVE  GateInv'
<1>1. PICK m \in Gate!Memories : m = Gate!Now BY ProcFacts DEF GateInv
<1>2. PICK rec : rec = [ran |-> lease, todo |-> IF lease THEN {g \in Gates : Gate!Open(g)} ELSE {}] OBVIOUS
<1>3. /\ recover' = [recover EXCEPT ![m] = rec]
      /\ proc' = proc /\ held' = held /\ queue' = queue /\ run' = run /\ slots' = slots /\ writer' = writer
      /\ log' = log /\ upsets' = upsets
  BY <1>1, <1>2 DEF Gate!Beat, Gate!Ran
<1>4. rec \in [ran : BOOLEAN, todo : SUBSET Gates] /\ \A g \in rec.todo : g \in Gates /\ log[g].last # "none"
  BY <1>2 DEF Gate!Open, Gate!Waiting
<1>5. recover' \in [Gate!Memories -> [ran : BOOLEAN, todo : SUBSET Gates]]
  BY <1>3, <1>4 DEF GateInv, GateTypes
<1>6. TodoOK' BY <1>3, <1>4 DEF GateInv, GateTypes, TodoOK
<1>7. TurnInv' BY <1>3 DEF GateInv, TurnInv, TurnTypes, TurnsOK, NobodyStranded
<1>8. GateTypes' BY <1>3, <1>5 DEF GateInv, GateTypes
<1>9. /\ Gate!Process' = Gate!Process /\ Gate!Now' = Gate!Now /\ \A n : Gate!Live(n)' <=> Gate!Live(n)
      /\ \A r : Over(r)' <=> Over(r)
  BY <1>3 DEF Gate!Process, Gate!Now, Gate!Live, Over
<1>10. ProcsOK' /\ RunsLive' /\ StopsOK' /\ FreshOK' /\ LogOK' /\ SlotsOK'
  BY <1>3, <1>9 DEF GateInv, ProcsOK, RunsLive, StopsOK, FreshOK, LogOK, SlotsOK, Alive
<1> QED BY <1>6, <1>7, <1>8, <1>10 DEF GateInv

\* a gate the recovery takes for cut: its agent is gone, and it began in an earlier process
LEMMA CutAlone ==
  ASSUME GateInv, NEW m \in Gate!Memories, NEW g \in Gates, g \in recover[m].todo, Gate!Dead(g)
  PROVE  /\ ~Alive(g) /\ log[g].last # "none" /\ writer[g].stops # 0
         /\ Gate!Live(m) /\ log[g].start # 0 => m # 1
<1>1. log[g] \in LineRec /\ Gate!Process \in 1..MaxMemories BY ProcFacts DEF GateInv, GateTypes
<1>2. log[g].last # "none" BY DEF GateInv, TodoOK
<1>3. writer[g].stops # 0 BY <1>2 DEF GateInv, FreshOK
<1>4. ~Alive(g) BY <1>1, <1>2 DEF GateInv, LogOK, Gate!Dead, LineRec
<1>5. Gate!Live(m) /\ log[g].start # 0 => m # 1
  <2>1. Gate!Live(1) => Gate!Process = 1 BY DEF GateInv, ProcsOK, Gate!Live
  <2>2. log[g].start <= Gate!Process BY DEF GateInv, LogOK
  <2> QED BY <2>1, <2>2, <1>1 DEF LineRec, Gate!Dead
<1> QED BY <1>2, <1>3, <1>4, <1>5

LEMMA LookAtStep ==
  ASSUME GateInv, NEW m \in Gate!Memories, NEW g \in Gates, Gate!LookAt(m, g)
  PROVE  GateInv'
<1>1. /\ Gate!Live(m) /\ g \in recover[m].todo
      /\ recover' = [recover EXCEPT ![m].todo = @ \ {g}]
      /\ proc' = proc /\ slots' = slots /\ writer' = writer /\ upsets' = upsets
  BY DEF Gate!LookAt
<1>2. /\ recover' \in [Gate!Memories -> [ran : BOOLEAN, todo : SUBSET Gates]]
      /\ \A n \in Gate!Memories : recover'[n].todo \subseteq recover[n].todo
  BY <1>1 DEF GateInv, GateTypes
<1>3. /\ Gate!Process' = Gate!Process /\ Gate!Now' = Gate!Now /\ \A n : Gate!Live(n)' <=> Gate!Live(n)
      /\ \A r : Over(r)' <=> Over(r)
  BY <1>1 DEF Gate!Process, Gate!Now, Gate!Live, Over
<1>4. ProcsOK' BY <1>1, <1>3 DEF GateInv, ProcsOK
<1>5. \/ held' = held /\ queue' = queue /\ run' = run /\ log' = log
      \/ Gate!Dead(g) /\ Gate!Line(g, "gate-cut") /\ held' = held /\ queue' = queue /\ run' = run
      \/ Gate!Dead(g) /\ log[g].start # 0 /\ Gate!Line(g, "gate-rerun") /\ Gate!Ask(<<g, m>>, m)
  BY DEF Gate!LookAt
<1>6. CASE held' = held /\ queue' = queue /\ run' = run
  <2>1. TurnInv' BY <1>6 DEF GateInv, TurnInv, TurnTypes, TurnsOK, NobodyStranded
  <2>2. RunsLive' /\ StopsOK' /\ SlotsOK'
    BY <1>1, <1>3, <1>6 DEF GateInv, RunsLive, StopsOK, SlotsOK
  <2>3. CASE log' = log
    <3>1. GateTypes' BY <1>1, <1>2, <2>3 DEF GateInv, GateTypes
    <3>2. FreshOK' /\ LogOK' BY <1>1, <1>3, <1>6, <2>3 DEF GateInv, FreshOK, LogOK, Alive
    <3>3. TodoOK' BY <1>2, <2>3 DEF GateInv, TodoOK
    <3> QED BY <1>4, <2>1, <2>2, <3>1, <3>2, <3>3 DEF GateInv
  <2>4. CASE Gate!Dead(g) /\ (Gate!Line(g, "gate-cut") \/ Gate!Line(g, "gate-rerun"))
    <3>1. /\ log' \in [Gates -> LineRec] /\ log'[g].last # "none" /\ log'[g].wrote = Gate!Process
          /\ log'[g].start = log[g].start /\ \A h \in Gates : h # g => log'[h] = log[h]
      BY <2>4, LineIs DEF GateInv, Gate!Causes
    <3>2. GateTypes' BY <1>1, <1>2, <3>1 DEF GateInv, GateTypes
    <3>3. ~Alive(g) /\ log[g].last # "none" /\ writer[g].stops # 0 BY <1>1, <2>4, CutAlone
    <3>4. FreshOK' BY <1>1, <1>6, <3>1, <3>3 DEF GateInv, FreshOK
    <3>5. Gate!Process \in 1..MaxMemories BY ProcFacts DEF GateInv
    <3>6. \A h \in Gates : Alive(h)' <=> Alive(h) BY <1>1, <1>6 DEF Alive
    <3>7. LogOK' BY <1>3, <3>1, <3>3, <3>5, <3>6 DEF GateInv, LogOK
    <3>8. TodoOK' BY <1>2, <3>1 DEF GateInv, TodoOK
    <3> QED BY <1>4, <2>1, <2>2, <3>2, <3>4, <3>7, <3>8 DEF GateInv
  <2> QED BY <1>5, <1>6, <2>3, <2>4
<1>7. CASE Gate!Dead(g) /\ log[g].start # 0 /\ Gate!Line(g, "gate-rerun") /\ Gate!Ask(<<g, m>>, m)
  <2>0. m # 1 /\ ~Alive(g) /\ log[g].last # "none" /\ writer[g].stops # 0 BY <1>1, <1>7, CutAlone
  <2>1. PICK r \in Gate!Runs : r = <<g, m>> /\ r[1] = g /\ r[2] = m /\ r[2] # 0
    <3>1. <<g, m>> \in Gate!Runs /\ <<g, m>>[1] = g /\ <<g, m>>[2] = m BY <2>0, OwnRuns
    <3>2. m # 0 BY ProcFacts DEF GateInv
    <3> QED BY <3>1, <3>2
  <2>2. Gate!Ask(r, m) BY <1>7, <2>1 DEF Gate!Ask, Gate!Enters
  <2>3. /\ log' \in [Gates -> LineRec] /\ log'[g].last # "none" /\ log'[g].wrote = Gate!Process
        /\ log'[g].start = log[g].start /\ \A h \in Gates : h # g => log'[h] = log[h]
    BY <1>7, LineIs DEF GateInv, Gate!Causes
  <2>4. /\ TurnInv' /\ \A s \in Gate!Runs : s # r => run'[s] = run[s]
        /\ run'[r].mem = m /\ run'[r].at \in {"queued", "granted"}
    BY <2>2, AskTurns DEF GateInv
  <2>5. run[r] = Gate!None BY <2>2 DEF Gate!Ask
  <2>6. GateTypes' BY <1>1, <1>2, <2>3 DEF GateInv, GateTypes
  <2>7. RunsLive' BY <1>1, <1>3, <2>1, <2>4 DEF GateInv, RunsLive
  <2>8. \A h \in Gates : <<h, 0>> \in Gate!Runs /\ <<h, 0>> # r BY <2>1, OwnRuns
  <2>9. StopsOK' BY <1>1, <2>4, <2>8 DEF GateInv, StopsOK
  <2>10. FreshOK'
    <3> SUFFICES ASSUME NEW h \in Gates, writer'[h].stops = 0
                 PROVE  /\ writer'[h].at = "working" /\ ~writer'[h].starting /\ log'[h].start = 0 /\ log'[h].last = "none"
                        /\ \A s \in Gate!Runs : s[1] = h => run'[s] = Gate!None
      BY DEF FreshOK
    <3>1. h # g BY <1>1, <2>0
    <3> QED BY <3>1, <1>1, <2>1, <2>3, <2>4 DEF GateInv, FreshOK
  <2>11. LogOK'
    <3>1. Gate!Process \in 1..MaxMemories BY ProcFacts DEF GateInv
    <3>2. \A h \in Gates : Alive(h)' <=> Alive(h) BY <1>1, <2>4, <2>8 DEF Alive
    <3> QED BY <1>3, <2>0, <2>3, <3>1, <3>2 DEF GateInv, LogOK
  <2>12. TodoOK' BY <1>2, <2>3 DEF GateInv, TodoOK
  <2>13. SlotsOK'
    <3>1. \A i \in Gate!SlotFiles : slots[i] # {r}
      <4>1. ~Over(r) BY <2>1, <1>1 DEF Over, Gate!Live
      <4>2. Gate!None.at # "running" BY DEF Gate!None
      <4> QED BY <4>1, <4>2, <2>5 DEF GateInv, SlotsOK
    <3> QED BY <1>1, <1>3, <2>4, <3>1 DEF GateInv, SlotsOK
  <2> QED BY <1>4, <2>4, <2>6, <2>7, <2>9, <2>10, <2>11, <2>12, <2>13 DEF GateInv
<1> QED BY <1>5, <1>6, <1>7

LEMMA ReloadStep ==
  ASSUME GateInv, Gate!Reload
  PROVE  GateInv'
<1>1. /\ Gate!Now < MaxMemories /\ proc' = Append(proc, Gate!Process) /\ upsets < MaxUpsets /\ upsets' = upsets + 1
      /\ held' = held /\ queue' = queue /\ run' = run /\ writer' = writer /\ slots' = slots /\ log' = log /\ recover' = recover
  BY DEF Gate!Reload, Gate!Upset
<1>2. /\ Gate!Now \in 1..MaxMemories /\ Gate!Now = Len(proc) /\ DOMAIN proc = 1..Gate!Now
      /\ Gate!Process \in 1..MaxMemories /\ Gate!Process = proc[Gate!Now] /\ proc \in Seq(Gate!Memories)
      /\ MaxMemories \in Nat /\ Gate!Memories = 1..MaxMemories
  BY ProcFacts DEF GateInv, GateTypes
<1>3. /\ Len(proc') = Gate!Now + 1 /\ proc' \in Seq(Gate!Memories) /\ DOMAIN proc' = 1..(Gate!Now + 1)
      /\ \A i \in 1..Gate!Now : proc'[i] = proc[i]
      /\ proc'[Gate!Now + 1] = Gate!Process
  BY <1>1, <1>2
<1>4. Gate!Now' = Gate!Now + 1 /\ Gate!Process' = Gate!Process BY <1>3 DEF Gate!Now, Gate!Process
<1>5. \A n : Gate!Live(n) => Gate!Live(n)' BY <1>2, <1>3, <1>4 DEF Gate!Live
<1>6. \A r \in Gate!Runs : Over(r) => Over(r)' BY <1>1, <1>2, <1>3, <1>4 DEF Over
<1>7. GateTypes'
  <2>1. Len(proc') \in 1..MaxMemories BY <1>1, <1>2, <1>3
  <2>2. upsets' \in 0..MaxUpsets BY <1>1, BoundsAssumption DEF GateInv, GateTypes
  <2> QED BY <1>1, <1>3, <2>1, <2>2 DEF GateInv, GateTypes
<1>8. TurnInv' BY <1>1 DEF GateInv, TurnInv, TurnTypes, TurnsOK, NobodyStranded
<1>9. ProcsOK'
  <2>1. \A i \in 1..(Gate!Now + 1) : i \in 1..Gate!Now \/ i = Gate!Now + 1 BY <1>2
  <2> QED BY <1>2, <1>3, <1>4, <2>1 DEF GateInv, ProcsOK
<1>10. RunsLive' /\ StopsOK' /\ FreshOK' /\ TodoOK' /\ LogOK'
  <2>1. RunsLive' BY <1>1, <1>5 DEF GateInv, RunsLive
  <2>2. StopsOK' /\ FreshOK' /\ TodoOK' BY <1>1 DEF GateInv, StopsOK, FreshOK, TodoOK
  <2>3. LogOK' BY <1>1, <1>4 DEF GateInv, LogOK, Alive
  <2> QED BY <2>1, <2>2, <2>3
<1>11. SlotsOK' BY <1>1, <1>6 DEF GateInv, SlotsOK
<1> QED BY <1>7, <1>8, <1>9, <1>10, <1>11 DEF GateInv

LEMMA RestartStep ==
  ASSUME GateInv, Gate!Restart
  PROVE  GateInv'
<1>1. /\ Gate!Now < MaxMemories /\ proc' = Append(proc, Gate!Process + 1) /\ upsets < MaxUpsets /\ upsets' = upsets + 1
      /\ run' = [r \in Gate!Runs |-> Gate!None]
      /\ queue' = [m \in Gate!Memories |-> <<>>] /\ held' = [m \in Gate!Memories |-> 0]
      /\ writer' = [g \in Gates |-> [writer[g] EXCEPT !.starting = FALSE,
                      !.at = IF @ = "stopping" \/ (@ = "working" /\ writer[g].stops > 0) THEN "dead" ELSE @]]
      /\ recover' = [m \in Gate!Memories |-> [recover[m] EXCEPT !.todo = {}]]
      /\ log' = log
  BY DEF Gate!Restart, Gate!Upset
<1>0. Gate!Now < MaxMemories /\ proc' = Append(proc, Gate!Process + 1) /\ upsets < MaxUpsets /\ upsets' = upsets + 1
  BY <1>1
<1>2. PICK over \in SUBSET Gate!SlotFiles : slots' = [i \in Gate!SlotFiles |-> IF i \in over THEN slots[i] ELSE Gate!Free]
  BY DEF Gate!Restart
<1>3. /\ Gate!Now \in 1..MaxMemories /\ Gate!Now = Len(proc) /\ DOMAIN proc = 1..Gate!Now
      /\ Gate!Process \in 1..MaxMemories /\ Gate!Process = proc[Gate!Now] /\ proc \in Seq(Gate!Memories)
      /\ MaxMemories \in Nat /\ Gate!Memories = 1..MaxMemories /\ Gate!Process <= Gate!Now
  BY ProcFacts DEF GateInv, GateTypes, ProcsOK
<1>4. /\ Len(proc') = Gate!Now + 1 /\ proc' \in Seq(Gate!Memories) /\ DOMAIN proc' = 1..(Gate!Now + 1)
      /\ \A i \in 1..Gate!Now : proc'[i] = proc[i]
      /\ proc'[Gate!Now + 1] = Gate!Process + 1
  <2>1. Gate!Process + 1 \in Gate!Memories BY <1>0, <1>3
  <2> QED BY <1>0, <1>3, <2>1
<1>5. Gate!Now' = Gate!Now + 1 /\ Gate!Process' = Gate!Process + 1 BY <1>4 DEF Gate!Now, Gate!Process
<1>6. \A g \in Gates :
        /\ writer'[g] \in WriterRec /\ writer'[g].stops = writer[g].stops /\ ~writer'[g].starting
        /\ writer'[g].at = IF writer[g].at = "stopping" \/ (writer[g].at = "working" /\ writer[g].stops > 0)
                             THEN "dead" ELSE writer[g].at
  <2> SUFFICES ASSUME NEW g \in Gates
               PROVE  /\ writer'[g] \in WriterRec /\ writer'[g].stops = writer[g].stops /\ ~writer'[g].starting
                      /\ writer'[g].at = IF writer[g].at = "stopping" \/ (writer[g].at = "working" /\ writer[g].stops > 0)
                                           THEN "dead" ELSE writer[g].at
    OBVIOUS
  <2>1. writer[g] \in WriterRec BY DEF GateInv, GateTypes
  <2>2. PICK at : at = IF writer[g].at = "stopping" \/ (writer[g].at = "working" /\ writer[g].stops > 0)
                         THEN "dead" ELSE writer[g].at
    OBVIOUS
  <2>3. writer'[g] = [writer[g] EXCEPT !.starting = FALSE, !.at = at] BY <1>1, <2>1, <2>2 DEF WriterRec
  <2>4. at \in {"working", "stopping", "ended", "dead"} BY <2>1, <2>2 DEF WriterRec
  <2> QED BY <2>1, <2>2, <2>3, <2>4 DEF WriterRec
<1>7. \A m \in Gate!Memories : recover'[m] \in [ran : BOOLEAN, todo : SUBSET Gates] /\ recover'[m].todo = {}
  BY <1>1 DEF GateInv, GateTypes
<1>8. GateTypes'
  <2>1. Len(proc') \in 1..MaxMemories BY <1>0, <1>3, <1>4
  <2>2. upsets' \in 0..MaxUpsets BY <1>0, BoundsAssumption DEF GateInv, GateTypes
  <2>3. writer' \in [Gates -> WriterRec] BY <1>1, <1>6
  <2>4. recover' \in [Gate!Memories -> [ran : BOOLEAN, todo : SUBSET Gates]] BY <1>1, <1>7
  <2>5. slots' \in [Gate!SlotFiles -> {Gate!Free} \cup {{c} : c \in Gate!Commands}]
    BY <1>2 DEF GateInv, GateTypes
  <2> QED BY <1>1, <1>4, <2>1, <2>2, <2>3, <2>4, <2>5 DEF GateInv, GateTypes
<1>9. \A r \in Gate!Runs : run'[r] = Gate!None BY <1>1
<1>10. Gate!None.at = "none" BY DEF Gate!None
<1>11. TurnInv'
  <2>1. TurnTypes'
    <3>1. run' \in [Gate!Runs -> RunRec] BY <1>1, RunRecs
    <3>2. queue' \in [Gate!Memories -> Seq(Gate!Runs)]
      <4>1. <<>> \in Seq(Gate!Runs) OBVIOUS
      <4>2. queue' = [m \in Gate!Memories |-> <<>>] BY <1>1
      <4> QED BY <4>1, <4>2
    <3>3. held' \in [Gate!Memories -> Nat] BY <1>1
    <3> QED BY <3>1, <3>2, <3>3 DEF TurnTypes
  <2>2. \A m \in Gate!Memories : Holding(run', m) = {} /\ Waiters(run', m) = {}
    BY <1>9, <1>10 DEF Holding, Waiters, Turned
  <2>3. \A m \in Gate!Memories : held'[m] = 0 /\ queue'[m] = <<>> BY <1>1
  <2>4. Once(<<>>) /\ Listed(<<>>) = {} BY DEF Once, Listed
  <2>5. TurnsOK(held', queue', run') BY <2>2, <2>3, <2>4, FS_EmptySet DEF TurnsOK
  <2>6. NobodyStranded' BY <2>3 DEF NobodyStranded
  <2> QED BY <2>1, <2>5, <2>6 DEF TurnInv
<1>12. ProcsOK'
  <2>1. \A i \in 1..(Gate!Now + 1) : i \in 1..Gate!Now \/ i = Gate!Now + 1 BY <1>3
  <2>2. \A i \in 1..Gate!Now : proc[i] \in 1..MaxMemories BY <1>3
  <2> QED BY <1>3, <1>4, <1>5, <2>1, <2>2 DEF GateInv, ProcsOK
<1>13. RunsLive' BY <1>9 DEF RunsLive
<1>14. StopsOK' BY <1>9, OwnRuns DEF StopsOK
<1>15. FreshOK'
  <2>1. log' = log BY <1>1
  <2> QED BY <2>1, <1>6, <1>9 DEF GateInv, FreshOK
<1>16. LogOK'
  <2> SUFFICES ASSUME NEW g \in Gates
               PROVE  /\ log[g].start <= Gate!Process + 1 /\ log[g].wrote <= Gate!Process + 1 /\ (log[g].wrote = 0 => log[g].last = "none")
                      /\ Alive(g)' => log[g].start = 0 /\ log[g].last = "none"
    BY <1>1, <1>5 DEF LogOK
  <2>1. log[g] \in LineRec /\ writer[g] \in WriterRec BY DEF GateInv, GateTypes
  <2>2. Alive(g)' => writer[g].stops = 0
    BY <1>6, <1>9, <2>1, OwnRuns DEF Alive, WriterRec
  <2>3. Alive(g)' => log[g].start = 0 /\ log[g].last = "none" BY <2>2 DEF GateInv, FreshOK
  <2>4. log[g].start <= Gate!Process /\ log[g].wrote <= Gate!Process /\ (log[g].wrote = 0 => log[g].last = "none")
    BY DEF GateInv, LogOK
  <2> QED BY <1>3, <2>1, <2>3, <2>4 DEF LineRec
<1>17. TodoOK' BY <1>7 DEF TodoOK
<1>18. SlotsOK'
  <2>1. ASSUME NEW r \in Gate!Runs, NEW i \in Gate!SlotFiles, slots[i] = {r} PROVE Over(r)'
    <3>1. run[r].at = "running" \/ (run[r] = Gate!None /\ Over(r)) BY <2>1 DEF GateInv, SlotsOK
    <3>2. CASE r[2] = 0
      <4>1. r[1] \in Gates /\ r = <<r[1], 0>> BY <3>2, RunsAre
      <4>2. writer[r[1]] \in WriterRec BY <4>1 DEF GateInv, GateTypes
      <4>3. writer[r[1]].stops = 0 => writer[r[1]].at = "working" /\ run[r] = Gate!None
        BY <4>1 DEF GateInv, FreshOK
      <4>4. run[r] = Gate!None => writer[r[1]].at \in {"ended", "dead"} BY <3>1, <3>2, <1>10 DEF Over
      <4>5. writer'[r[1]].at \in {"ended", "dead"} BY <1>6, <4>1, <4>2, <4>3, <4>4 DEF WriterRec
      <4> QED BY <3>2, <4>5 DEF Over
    <3>3. CASE r[2] # 0
      <4>1. r[2] \in 1..Gate!Now
        <5>1. CASE run[r] = Gate!None BY <5>1, <3>1, <3>3, <1>10 DEF Over
        <5>2. CASE run[r] # Gate!None BY <5>2, <3>3, <1>3 DEF GateInv, RunsLive, Gate!Live
        <5> QED BY <5>1, <5>2
      <4>2. proc'[r[2]] <= Gate!Process /\ proc[r[2]] \in 1..MaxMemories BY <4>1, <1>3, <1>4 DEF GateInv, ProcsOK
      <4> QED BY <3>3, <4>1, <4>2, <1>3, <1>4, <1>5 DEF Over
    <3> QED BY <3>2, <3>3
  <2>2. \A i \in Gate!SlotFiles : slots'[i] # Gate!Free => slots'[i] = slots[i] BY <1>2
  <2>3. \A r : {r} # Gate!Free BY DEF Gate!Free
  <2> QED BY <1>9, <2>1, <2>2, <2>3 DEF GateInv, SlotsOK
<1> QED BY <1>8, <1>11, <1>12, <1>13, <1>14, <1>15, <1>16, <1>17, <1>18 DEF GateInv

LEMMA GateInit ==
  ASSUME Gate!Init
  PROVE  GateInv
<1>1. MaxMemories \in Nat /\ MaxMemories > 0 /\ MaxStops \in Nat /\ MaxUpsets \in Nat BY BoundsAssumption
<1>2. Gate!None.at = "none" BY DEF Gate!None
<1>3. /\ proc = <<1>> /\ held = [m \in Gate!Memories |-> 0] /\ queue = [m \in Gate!Memories |-> <<>>]
      /\ run = [r \in Gate!Runs |-> Gate!None]
      /\ writer = [g \in Gates |-> [at |-> "working", stops |-> 0, starting |-> FALSE]]
      /\ slots = [i \in Gate!SlotFiles |-> Gate!Free]
      /\ log = [g \in Gates |-> [last |-> "none", start |-> 0, wrote |-> 0, again |-> 0]]
      /\ recover = [m \in Gate!Memories |-> [ran |-> FALSE, todo |-> {}]] /\ upsets = 0
  BY DEF Gate!Init
<1>4. /\ proc \in Seq(Gate!Memories) /\ Len(proc) = 1 /\ proc[1] = 1 /\ Gate!Now = 1 /\ Gate!Process = 1
  BY <1>1, <1>3 DEF Gate!Memories, Gate!Now, Gate!Process
<1>5. GateTypes
  <2>1. \A g \in Gates : writer[g] \in WriterRec BY <1>1, <1>3 DEF WriterRec
  <2>2. \A g \in Gates : log[g] \in LineRec BY <1>1, <1>3 DEF LineRec
  <2>3. writer \in [Gates -> WriterRec] /\ log \in [Gates -> LineRec]
    <3>1. writer = [g \in Gates |-> writer[g]] /\ log = [g \in Gates |-> log[g]] BY <1>3
    <3> QED BY <2>1, <2>2, <3>1
  <2>4. slots \in [Gate!SlotFiles -> {Gate!Free} \cup {{c} : c \in Gate!Commands}] BY <1>3
  <2>5. recover \in [Gate!Memories -> [ran : BOOLEAN, todo : SUBSET Gates]] BY <1>3
  <2>6. upsets \in 0..MaxUpsets /\ Len(proc) \in 1..MaxMemories BY <1>1, <1>3, <1>4
  <2> QED BY <1>4, <2>3, <2>4, <2>5, <2>6 DEF GateTypes
<1>6. \A r \in Gate!Runs : run[r] = Gate!None BY <1>3
<1>7. TurnInv
  <2>1. TurnTypes
    <3>1. run \in [Gate!Runs -> RunRec] BY <1>3, RunRecs
    <3>2. queue \in [Gate!Memories -> Seq(Gate!Runs)]
      <4>1. <<>> \in Seq(Gate!Runs) OBVIOUS
      <4>2. queue = [m \in Gate!Memories |-> <<>>] BY <1>3
      <4> QED BY <4>1, <4>2
    <3>3. held \in [Gate!Memories -> Nat] BY <1>3
    <3> QED BY <3>1, <3>2, <3>3 DEF TurnTypes
  <2>2. \A m \in Gate!Memories : Holding(run, m) = {} /\ Waiters(run, m) = {}
    BY <1>6, <1>2 DEF Holding, Waiters, Turned
  <2>3. \A m \in Gate!Memories : held[m] = 0 /\ queue[m] = <<>> BY <1>3
  <2>4. Once(<<>>) /\ Listed(<<>>) = {} BY DEF Once, Listed
  <2>5. TurnsOK(held, queue, run) BY <2>2, <2>3, <2>4, FS_EmptySet DEF TurnsOK
  <2>6. NobodyStranded BY <2>3 DEF NobodyStranded
  <2> QED BY <2>1, <2>5, <2>6 DEF TurnInv
<1>8. ProcsOK BY <1>4 DEF ProcsOK
<1>9. RunsLive /\ StopsOK BY <1>6, OwnRuns DEF RunsLive, StopsOK
<1>10. SlotsOK
  <2>1. \A i \in Gate!SlotFiles : slots[i] = Gate!Free BY <1>3
  <2>2. \A c : {c} # Gate!Free BY DEF Gate!Free
  <2> QED BY <2>1, <2>2 DEF SlotsOK
<1>11. FreshOK BY <1>3, <1>6 DEF FreshOK
<1>12. LogOK BY <1>3, <1>4 DEF LogOK
<1>13. TodoOK BY <1>3 DEF TodoOK
<1> QED BY <1>5, <1>7, <1>8, <1>9, <1>10, <1>11, <1>12, <1>13 DEF GateInv

LEMMA GateNext ==
  ASSUME GateInv, [Gate!Next]_(Gate!vars)
  PROVE  GateInv'
<1>1. ASSUME NEW r \in Gate!Runs, Gate!WaitedOut(r) \/ Gate!GoesOn(r) PROVE GateInv'
  BY <1>1, WaitedOutStep, TurnCutStep, TurnTakenStep, TakeSlotStep, ThrowsStep, SettleStep DEF Gate!GoesOn
<1>2. ASSUME NEW g \in Gates, Gate!OwnCommand(g) \/ Gate!Stop(g) \/ Gate!StartLine(g) \/ Gate!CutOff(g) PROVE GateInv'
  BY <1>2, OwnCommandStep, StopStep, StartLineStep, CutOffStep
<1>3. ASSUME NEW c \in Gate!Commands, Gate!OtherEnds(c) PROVE GateInv' BY <1>3, OtherEndsStep
<1>4. ASSUME Gate!Reload \/ Gate!Restart PROVE GateInv' BY <1>4, ReloadStep, RestartStep
<1>5. ASSUME NEW lease \in BOOLEAN, Gate!Beat(lease) PROVE GateInv' BY <1>5, BeatStep
<1>6. ASSUME NEW m \in Gate!Memories, NEW g \in Gates, Gate!LookAt(m, g) PROVE GateInv' BY <1>6, LookAtStep
<1>7. ASSUME UNCHANGED Gate!vars PROVE GateInv'
  <2>1. /\ proc' = proc /\ held' = held /\ queue' = queue /\ run' = run /\ writer' = writer /\ slots' = slots
        /\ log' = log /\ recover' = recover /\ upsets' = upsets
    BY <1>7 DEF Gate!vars
  <2>2. /\ Gate!Process' = Gate!Process /\ Gate!Now' = Gate!Now /\ \A n : Gate!Live(n)' <=> Gate!Live(n)
        /\ \A r : Over(r)' <=> Over(r)
    BY <2>1 DEF Gate!Process, Gate!Now, Gate!Live, Over
  <2>3. TurnInv' BY <2>1 DEF GateInv, TurnInv, TurnTypes, TurnsOK, NobodyStranded
  <2>4. GateTypes' BY <2>1 DEF GateInv, GateTypes
  <2>5. ProcsOK' /\ RunsLive' /\ StopsOK' /\ FreshOK' /\ LogOK' /\ SlotsOK' /\ TodoOK'
    BY <2>1, <2>2 DEF GateInv, ProcsOK, RunsLive, StopsOK, FreshOK, LogOK, SlotsOK, TodoOK, Alive
  <2> QED BY <2>3, <2>4, <2>5 DEF GateInv
<1> QED BY <1>1, <1>2, <1>3, <1>4, <1>5, <1>6, <1>7 DEF Gate!Next

\* The stop gates' inductive invariant (createTurns, runStopGate, recoverGates), in every reachable state.
THEOREM GateInvHolds == Gate!Spec => []GateInv
<1>1. Gate!Init => GateInv BY GateInit
<1>2. GateInv /\ [Gate!Next]_(Gate!vars) => GateInv' BY GateNext
<1> QED BY <1>1, <1>2, PTL DEF Gate!Spec

LEMMA TypesAre == ASSUME GateInv PROVE Gate!TypeOK
<1>1. proc \in Gate!SeqOf(Gate!Memories, MaxMemories) /\ proc # <<>>
  <2>1. proc \in [1..Len(proc) -> Gate!Memories] /\ Len(proc) \in 0..MaxMemories /\ Len(proc) # 0
    BY DEF GateInv, GateTypes
  <2> QED BY <2>1 DEF Gate!SeqOf
<1>2. held \in [Gate!Memories -> 0..Gate!Cardinality(Gate!Runs)]
  <2>1. \A m \in Gate!Memories : held[m] = Cardinality(Holding(run, m)) /\ held[m] \in Nat
    BY DEF GateInv, TurnInv, TurnTypes, TurnsOK
  <2>2. IsFiniteSet(Gate!Runs) /\ Gate!Cardinality(Gate!Runs) = Cardinality(Gate!Runs) /\ Cardinality(Gate!Runs) \in Nat
    BY RunsFinite, SameSets, FS_CardinalityType
  <2>3. \A m \in Gate!Memories : Holding(run, m) \in SUBSET Gate!Runs BY DEF Holding
  <2>4. \A m \in Gate!Memories : Cardinality(Holding(run, m)) <= Cardinality(Gate!Runs) BY <2>2, <2>3, FS_Subset
  <2> QED BY <2>1, <2>2, <2>4 DEF GateInv, TurnInv, TurnTypes
<1>3. /\ \A m \in Gate!Memories : queue[m] \in Seq(Gate!Runs)
      /\ run \in [Gate!Runs -> [at : {"none", "queued", "granted", "slot", "running"}, mem : Gate!Memories,
                                behind : BOOLEAN, cut : BOOLEAN]]
  BY DEF GateInv, TurnInv, TurnTypes, RunRec
<1>4. /\ writer \in [Gates -> [at : {"working", "stopping", "ended", "dead"}, stops : 0..MaxStops, starting : BOOLEAN]]
      /\ log \in [Gates -> [last : Gate!Causes \cup {"none"}, start : 0..MaxMemories, wrote : 0..MaxMemories, again : Nat]]
      /\ slots \in [Gate!SlotFiles -> {Gate!Free} \cup {{c} : c \in Gate!Commands}]
      /\ recover \in [Gate!Memories -> [ran : BOOLEAN, todo : SUBSET Gates]]
      /\ upsets \in 0..MaxUpsets
  BY DEF GateInv, GateTypes, WriterRec, LineRec
<1> QED BY <1>1, <1>2, <1>3, <1>4 DEF Gate!TypeOK

\* The stop gates' state keeps its type under every order of stops, timers, cut-offs, restarts and recoveries.
THEOREM GateTypeCorrect == Gate!Spec => []Gate!TypeOK
<1>1. GateInv => Gate!TypeOK BY TypesAre
<1> QED BY <1>1, GateInvHolds, PTL

\* the instance's sets of runs and slot files are the state's
LEMMA SameState ==
  /\ Gate!Memories = Memories /\ Gate!Runs = Runs /\ Gate!Commands = Commands /\ Gate!SlotFiles = SlotFiles
  /\ \A m : Holds(m) = Holding(run, m)
<1>1. Gate!Memories = Memories /\ Gate!Runs = Runs /\ Gate!Commands = Commands
  BY DEF Gate!Memories, Memories, Gate!Runs, Runs, Gate!Commands, Commands, Gate!Own, Own
<1>2. Gate!SlotFiles = SlotFiles
  <2>1. \A S : Gate!Max(S) = Max(S) BY Zenon DEF Gate!Max, Max
  <2> QED BY <2>1 DEF Gate!SlotFiles, SlotFiles
<1>3. \A m : Holds(m) = Holding(run, m) BY <1>1 DEF Holds, Holding, Turned
<1> QED BY <1>1, <1>2, <1>3

LEMMA CountedIs == ASSUME GateInv PROVE Counted
<1>1. ASSUME NEW m \in Memories
      PROVE  /\ held[m] = Cardinality(Holds(m))
             /\ IsInjective(queue[m]) /\ Range(queue[m]) = {r \in Runs : run[r].mem = m /\ run[r].at = "queued"}
             /\ queue[m] # <<>> => held[m] > 0
  <2>1. m \in Gate!Memories BY SameState
  <2>2. held[m] = Cardinality(Holds(m)) BY <2>1, SameState DEF GateInv, TurnInv, TurnsOK
  <2>3. queue[m] \in Seq(Gate!Runs) /\ DOMAIN queue[m] = 1..Len(queue[m]) BY <2>1 DEF GateInv, TurnInv, TurnTypes
  <2>4. Once(queue[m]) /\ Listed(queue[m]) = Waiters(run, m) BY <2>1 DEF GateInv, TurnInv, TurnsOK
  <2>5. IsInjective(queue[m]) BY <2>3, <2>4 DEF IsInjective, Once
  <2>6. Range(queue[m]) = Waiters(run, m) BY <2>3, <2>4 DEF Range, Listed
  <2> QED BY <2>1, <2>2, <2>5, <2>6, SameState DEF Waiters, GateInv, TurnInv, NobodyStranded
<1>2. ASSUME NEW c \in Commands
      PROVE  LET its == {i \in SlotFiles : slots[i] = {c}} IN Cardinality(its) <= 1 /\ \A i \in its : i < Cap[c[1]]
  <2> DEFINE its == {i \in SlotFiles : slots[i] = {c}}
  <2>1. \A i \in its : i < Cap[c[1]] BY SameState DEF GateInv, SlotsOK
  <2>2. its = {} \/ \E i : its = {i}
    <3>1. \A i, j \in its : i = j BY SameState DEF GateInv, SlotsOK, Gate!Free
    <3> QED BY <3>1
  <2> HIDE DEF its
  <2>3. Cardinality(its) = 0 \/ Cardinality(its) = 1 BY <2>2, FS_EmptySet, FS_Singleton
  <2> QED BY <2>1, <2>3 DEF its
<1> QED BY <1>1, <1>2 DEF Counted

\* Counted of the stop gates' turns (createTurns: enter, release, admit) and slot files: no turn leaks, no
\* waiter is lost or listed twice, and nobody waits where nobody holds a turn.
THEOREM CountedHolds == Gate!Spec => []Counted
<1>1. GateInv => Counted BY CountedIs
<1> QED BY <1>1, GateInvHolds, PTL

\* every step keeps the queue's order
LEMMA TurnsInOrder ==
  ASSUME GateInv, [Gate!Next]_(Gate!vars), NEW r \in Gate!Runs, NEW m \in Gate!Memories
  PROVE  InTurn(m, r)
<1>1. ASSUME NEW x \in Gate!Runs, run[x].at \in Turned, Gate!Release(x) PROVE InTurn(m, r)
  BY <1>1, ReleaseOrder DEF GateInv
<1>2. ASSUME NEW x \in Gate!Runs, NEW n \in Gate!Memories, Gate!Ask(x, n) PROVE InTurn(m, r)
  BY <1>2, AskOrder DEF GateInv
<1>3. ASSUME \A s \in Gate!Runs : run'[s] = run[s] \/ run'[s].at \notin Turned
                                  \/ (run'[s].mem = run[s].mem /\ run[s].at \in Turned)
      PROVE  InTurn(m, r)
  BY <1>3 DEF InTurn, Holding
<1>4. run \in [Gate!Runs -> RunRec] BY DEF GateInv, TurnInv, TurnTypes
<1>5. Gate!None.at \notin Turned BY DEF Gate!None, Turned
<1>6. ASSUME NEW x \in Gate!Runs, Gate!WaitedOut(x) \/ Gate!GoesOn(x) PROVE InTurn(m, r)
  <2>1. CASE Gate!WaitedOut(x)
    <3>1. run' = [run EXCEPT ![x] = Gate!None] BY <2>1 DEF Gate!WaitedOut
    <3> QED BY <1>3, <1>4, <1>5, <3>1
  <2>2. CASE Gate!TurnCut(x) BY <1>1, <2>2 DEF Gate!TurnCut, Turned
  <2>3. CASE Gate!TurnTaken(x)
    <3>1. run' = [run EXCEPT ![x].at = "slot"] /\ run[x].at = "granted" BY <2>3 DEF Gate!TurnTaken
    <3>2. run'[x].mem = run[x].mem /\ run[x].at \in Turned BY <1>4, <3>1 DEF RunRec, Turned
    <3>3. \A s \in Gate!Runs : s # x => run'[s] = run[s] BY <1>4, <3>1
    <3> QED BY <1>3, <3>2, <3>3
  <2>4. CASE Gate!TakeSlot(x)
    <3>1. run' = [run EXCEPT ![x].at = "running"] /\ run[x].at = "slot" BY <2>4 DEF Gate!TakeSlot
    <3>2. run'[x].mem = run[x].mem /\ run[x].at \in Turned BY <1>4, <3>1 DEF RunRec, Turned
    <3>3. \A s \in Gate!Runs : s # x => run'[s] = run[s] BY <1>4, <3>1
    <3> QED BY <1>3, <3>2, <3>3
  <2>5. CASE Gate!Throws(x) BY <1>1, <2>5 DEF Gate!Throws, Turned
  <2>6. CASE \E refused \in BOOLEAN : Gate!Settle(x, refused) BY <1>1, <2>6 DEF Gate!Settle, Turned
  <2> QED BY <1>6, <2>1, <2>2, <2>3, <2>4, <2>5, <2>6 DEF Gate!GoesOn
<1>7. ASSUME NEW g \in Gates, Gate!OwnCommand(g) \/ Gate!Stop(g) \/ Gate!StartLine(g) \/ Gate!CutOff(g) PROVE InTurn(m, r)
  <2>1. CASE Gate!OwnCommand(g) \/ Gate!StartLine(g) BY <1>3, <2>1 DEF Gate!OwnCommand, Gate!StartLine
  <2>2. CASE Gate!Stop(g)
    <3>1. PICK x \in Gate!Runs : x = <<g, 0>> BY OwnRuns
    <3>2. PICK n \in Gate!Memories : n = Gate!Now BY ProcFacts DEF GateInv
    <3>3. Gate!Ask(x, n) BY <2>2, <3>1, <3>2 DEF Gate!Stop, Gate!Ask, Gate!Enters
    <3> QED BY <3>3, <1>2
  <2>3. CASE Gate!CutOff(g)
    <3>1. PICK x \in Gate!Runs : x = <<g, 0>> BY OwnRuns
    <3>2. run' = [run EXCEPT ![x].cut = TRUE] BY <2>3, <3>1 DEF Gate!CutOff
    <3>3. run'[x].mem = run[x].mem /\ run'[x].at = run[x].at BY <1>4, <3>2 DEF RunRec
    <3>4. \A s \in Gate!Runs : s # x => run'[s] = run[s] BY <1>4, <3>2
    <3> QED BY <1>3, <3>3, <3>4
  <2> QED BY <1>7, <2>1, <2>2, <2>3
<1>8. ASSUME NEW c \in Gate!Commands, Gate!OtherEnds(c) PROVE InTurn(m, r) BY <1>3, <1>8 DEF Gate!OtherEnds
<1>9. ASSUME Gate!Reload PROVE InTurn(m, r) BY <1>3, <1>9 DEF Gate!Reload
<1>10. ASSUME Gate!Restart PROVE InTurn(m, r)
  <2>1. run' = [s \in Gate!Runs |-> Gate!None] BY <1>10 DEF Gate!Restart
  <2> QED BY <2>1, <1>3, <1>5
<1>11. ASSUME NEW lease \in BOOLEAN, Gate!Beat(lease) PROVE InTurn(m, r) BY <1>3, <1>11 DEF Gate!Beat
<1>12. ASSUME NEW n \in Gate!Memories, NEW g \in Gates, Gate!LookAt(n, g) PROVE InTurn(m, r)
  <2>1. CASE run' = run BY <2>1, <1>3
  <2>2. CASE Gate!Dead(g) /\ log[g].start # 0 /\ Gate!Ask(<<g, n>>, n)
    <3>1. n # 1 BY <1>12, <2>2, CutAlone DEF Gate!LookAt
    <3>2. PICK x \in Gate!Runs : x = <<g, n>> BY <3>1, OwnRuns
    <3>3. Gate!Ask(x, n) BY <2>2, <3>2 DEF Gate!Ask, Gate!Enters
    <3> QED BY <3>3, <1>2
  <2> QED BY <1>12, <2>1, <2>2 DEF Gate!LookAt
<1>13. ASSUME UNCHANGED Gate!vars PROVE InTurn(m, r) BY <1>3, <1>13 DEF Gate!vars
<1> QED BY <1>6, <1>7, <1>8, <1>9, <1>10, <1>11, <1>12, <1>13 DEF Gate!Next

\* InOrder of the stop gates' turns (createTurns: admit): first come, first served, each under its own capacity.
THEOREM InOrderHolds == Gate!Spec => InOrder
<1>1. GateInv /\ [Gate!Next]_(Gate!vars) =>
        [\A r \in Runs, m \in Memories :
           (r \notin Holds(m) /\ r \in Holds(m)') =>
             /\ \A q \in Ahead(m, r) : run'[q].at # "queued"
             /\ Cardinality(Holds(m)' \cap (Holds(m) \cup Ahead(m, r))) < Cap[r[1]]]_run
  <2> SUFFICES ASSUME GateInv, [Gate!Next]_(Gate!vars), NEW r \in Runs, NEW m \in Memories,
                      r \notin Holds(m), r \in Holds(m)'
               PROVE  /\ \A q \in Ahead(m, r) : run'[q].at # "queued"
                      /\ Cardinality(Holds(m)' \cap (Holds(m) \cup Ahead(m, r))) < Cap[r[1]]
    OBVIOUS
  <2>1. Holds(m) = Holding(run, m) /\ Holds(m)' = Holding(run', m)
    BY SameState DEF Holds, Holding, Turned
  <2>2. InTurn(m, r) BY SameState, TurnsInOrder
  <2>3. Ahead(m, r) = Gate!Ahead(m, r)
    <3>1. \A q : Range(q) = Gate!Range(q) BY DEF Range, Gate!Range
    <3> QED BY <3>1 DEF Ahead, Gate!Ahead
  <2> QED BY <2>1, <2>2, <2>3 DEF InTurn
<1> QED BY <1>1, GateInvHolds, PTL DEF Gate!Spec, InOrder

\* LiveLeft of the recovery (recoverGates, isLive): a gate is re-run or given up only when its agent's stop is over.
THEOREM LiveLeftHolds == Gate!Spec => LiveLeft
<1>1. GateInv /\ [Gate!Next]_(Gate!vars) =>
        [\A g \in Gates : log'[g].again > log[g].again =>
           writer[g].at \notin {"working", "stopping"} /\ run[<<g, 0>>].at = "none"]_log
  <2> SUFFICES ASSUME GateInv, Gate!Next, NEW g \in Gates, log'[g].again > log[g].again, log' # log
               PROVE  writer[g].at \notin {"working", "stopping"} /\ run[<<g, 0>>].at = "none"
    BY DEF Gate!vars
  <2>1. \A h \in Gates : log[h].again \in Nat BY DEF GateInv, GateTypes, LineRec
  <2>2. ASSUME NEW h \in Gates, NEW cause \in Gate!Causes, Gate!Line(h, cause), cause \notin {"gate-rerun", "gate-cut"} PROVE FALSE
    <3>1. log'[h].again = log[h].again + 0 /\ \A x \in Gates : x # h => log'[x] = log[x]
      BY <2>2, LineIs DEF GateInv
    <3> QED BY <3>1, <2>1
  <2>3. ASSUME NEW h \in Gates, Gate!Started(h) PROVE FALSE
    <3>1. log'[h].again = 0 /\ \A x \in Gates : x # h => log'[x] = log[x] BY <2>3, StartedIs DEF GateInv
    <3> QED BY <3>1, <2>1
  <2>4. ASSUME log' = log PROVE FALSE BY <2>1, <2>4
  <2>5. "settled" \in Gate!Causes /\ "gate-wait" \in Gate!Causes BY DEF Gate!Causes, Gate!Waiting
  <2>6. ASSUME NEW r \in Gate!Runs, Gate!WaitedOut(r) \/ Gate!GoesOn(r) PROVE FALSE
    <3>1. r[1] \in Gates BY RunsAre
    <3>2. Gate!Line(r[1], "settled") \/ Gate!Line(r[1], "gate-wait") \/ log' = log
      BY <2>6 DEF Gate!WaitedOut, Gate!GoesOn, Gate!TurnCut, Gate!TurnTaken, Gate!TakeSlot, Gate!Throws, Gate!Settle
    <3> QED BY <3>1, <3>2, <2>2, <2>4, <2>5
  <2>7. ASSUME NEW h \in Gates, Gate!OwnCommand(h) \/ Gate!Stop(h) \/ Gate!StartLine(h) \/ Gate!CutOff(h) PROVE FALSE
    <3>1. log' = log \/ Gate!Started(h) \/ Gate!Line(h, "settled")
      BY <2>7 DEF Gate!OwnCommand, Gate!Stop, Gate!StartLine, Gate!CutOff
    <3> QED BY <3>1, <2>2, <2>3, <2>4, <2>5
  <2>8. ASSUME NEW m \in Gate!Memories, NEW h \in Gates, Gate!LookAt(m, h)
        PROVE  writer[g].at \notin {"working", "stopping"} /\ run[<<g, 0>>].at = "none"
    <3>1. Gate!Dead(h) /\ (Gate!Line(h, "gate-cut") \/ Gate!Line(h, "gate-rerun")) /\ h \in recover[m].todo
      BY <2>8, <2>4 DEF Gate!LookAt
    <3>2. h = g
      <4>1. \A x \in Gates : x # h => log'[x] = log[x] BY <3>1, LineIs DEF GateInv, Gate!Causes
      <4> QED BY <4>1, <2>1
    <3>3. ~Alive(g) BY <3>1, <3>2, CutAlone
    <3> QED BY <3>3 DEF Alive, Gate!None
  <2>9. ASSUME (\E c \in Gate!Commands : Gate!OtherEnds(c)) \/ Gate!Reload \/ Gate!Restart \/ (\E lease \in BOOLEAN : Gate!Beat(lease))
        PROVE  FALSE
    BY <2>9, <2>4 DEF Gate!OtherEnds, Gate!Reload, Gate!Restart, Gate!Beat
  <2> QED BY <2>6, <2>7, <2>8, <2>9 DEF Gate!Next
<1> QED BY <1>1, GateInvHolds, PTL DEF Gate!Spec, LiveLeft
============================================================================
