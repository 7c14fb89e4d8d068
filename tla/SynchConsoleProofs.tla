-------------------------- MODULE SynchConsoleProofs --------------------------
(***************************************************************************)
(* The console, for any number of threads, lengths of calls and characters *)
(* typed, with and without a timer: what one Write displays and one Read   *)
(* gets is whole, and nobody sleeps for what is there.                     *)
(***************************************************************************)
EXTENDS SynchConsole, SchedulerFacts

\* A step goes to Zenon unless it names the SMT solver.
USE Zenon

Placed == PlacedIn(ThreadIds)
Awake == AwakeIn(ThreadIds)

Sems == SemsOf(ThreadIds)
Points == InP \cup {"user", "w_next", "r_next", "r_get"}

-----------------------------------------------------------------------------
(* The inductive invariant.                                                *)

\* Where a thread is that sleeps in P of semaphore s.
WaitsAt(s) ==
  IF s = "WLineBlock" THEN "w_line"
  ELSE IF s = "RLineBlock" THEN "r_line"
  ELSE IF s = "synchWriteAvail" THEN "w_avail" ELSE "r_avail"

\* A thread in a queue sleeps in P of that semaphore, and is there once.
Queued(s) ==
  /\ Distinct(sem[s].queue)
  /\ \A t \in Elems(sem[s].queue) : pc[t] = WaitsAt(s) /\ t \notin Awake

SyncInv ==
  /\ Placed
  /\ sem \in [Semaphores -> Sems]
  /\ pc \in [ThreadIds -> Points]
  /\ \A s \in Semaphores : Queued(s)

\* Where a thread is that has the line of Write, and of Read.
Lines == {"WLineBlock", "RLineBlock"}
Has(s) == IF s = "WLineBlock" THEN {"w_next", "w_avail"} ELSE {"r_next", "r_avail", "r_get"}

\* One thread has the line, or it is free and a thread that waits for it has
\* been woken.
Line(s) ==
  \/ /\ sem[s].value = 0
     /\ \E t \in ThreadIds : \A u \in ThreadIds : pc[u] \in Has(s) <=> u = t
  \/ /\ sem[s].value = 1
     /\ \A t \in ThreadIds : pc[t] \notin Has(s)
     /\ sem[s].queue # <<>> => \E t \in ThreadIds : pc[t] = WaitsAt(s) /\ t \in Awake

\* The display is busy while the thread that put the last character sleeps
\* for it, and not otherwise; its permit is there for that thread alone.
Display ==
  LET s == sem["synchWriteAvail"]
  IN  IF putBusy
      THEN s.value = 0 /\ \E t \in ThreadIds : pc[t] = "w_avail" /\ s.queue = <<t>>
      ELSE /\ s.queue = <<>>
           /\ s.value = IF \E t \in ThreadIds : pc[t] = "w_avail" THEN 1 ELSE 0

\* How far a call has come, and what the display shows of a Write.
Progress(t) ==
  /\ pc[t] \in {"w_line", "r_line", "r_next"} => loop[t] = 0
  /\ pc[t] \in {"r_avail", "r_get"} => loop[t] < numBytes[t]
  /\ pc[t] \in Has("WLineBlock") =>
       /\ loop[t] <= numBytes[t]
       /\ IF loop[t] = 0 THEN pc[t] = "w_next" /\ shown.i = shown.n
          ELSE shown = [by |-> t, i |-> loop[t], n |-> numBytes[t]]

Shows ==
  /\ \A t \in ThreadIds : Progress(t)
  /\ (\A t \in ThreadIds : pc[t] \notin Has("WLineBlock")) => shown.i = shown.n

\* The device's buffer holds the last character typed, which no Read has.
Buffer ==
  /\ incoming # Empty => incoming = Len(typed) /\ Real(incoming)
  /\ incoming # Empty =>
       sem["synchReadAvail"].value > 0 \/ \E t \in ThreadIds : pc[t] = "r_get"

Ascending(s) == \A j, k \in DOMAIN s : j < k => s[j] < s[k]

\* What a Read got is an unbroken piece of what was typed; while it has the
\* line, what is typed after that is at most in the buffer.
Got(t) ==
  /\ Ascending(line[t])
  /\ Elems(line[t]) \subseteq (1 .. Len(typed)) \ {incoming}
  /\ \A i \in 1 .. Len(typed) :
       Real(i) /\ (\E a, b \in Elems(line[t]) : a < i /\ i < b) => i \in Elems(line[t])
  /\ pc[t] \in Has("RLineBlock") =>
       \A i \in 1 .. Len(typed) :
         Real(i) /\ (\E a \in Elems(line[t]) : a < i) => i \in Elems(line[t]) \cup {incoming}
  /\ pc[t] = "r_line" => line[t] = <<>>

DataTypes ==
  /\ machine \in {"run", "closed"}
  /\ putBusy \in BOOLEAN
  /\ typed \in Seq(Chars) /\ incoming \in 0 .. Len(typed)
  /\ shown \in [by : ThreadIds \cup {NoThread}, i : 0 .. MaxBytes, n : 0 .. MaxBytes]
  /\ numBytes \in [ThreadIds -> 0 .. MaxBytes]
  /\ loop \in [ThreadIds -> 0 .. MaxBytes]
  /\ line \in [ThreadIds -> Seq(Nat)]

ConsoleInv ==
  /\ SyncInv /\ DataTypes
  /\ \A s \in Lines : Line(s)
  /\ Display
  /\ Shows
  /\ Buffer
  /\ \A t \in ThreadIds : Got(t)

-----------------------------------------------------------------------------
(* The CPU and the semaphores.                                             *)

\* Only thread t is at another point, and only semaphore s has changed.
Moved(t, l) ==
  /\ pc' \in [ThreadIds -> Points]
  /\ pc'[t] = l /\ \A u \in ThreadIds : u # t => pc'[u] = pc[u]

OnlySem(s) == \A r \in Semaphores : r # s => sem'[r] = sem[r]

\* A thread that moves on leaves the others where they are.
LEMMA GotoMoves ==
  ASSUME SyncInv, NEW t \in ThreadIds, NEW l \in Points, Goto(t, l)
  PROVE  Moved(t, l)
BY DEF SyncInv, Goto, Moved

\* A queue that a step leaves alone keeps its threads, if those that sleep
\* are left alone.
LEMMA QueuedKept ==
  ASSUME SyncInv, NEW s \in Semaphores, sem'[s].queue = sem[s].queue,
         \A u \in ThreadIds \ Awake : u \notin Awake' /\ pc'[u] = pc[u]
  PROVE  Queued(s)'
<1>1. sem[s] \in Sems /\ Queued(s)
  BY DEF SyncInv
<1>2. Elems(sem[s].queue) \subseteq ThreadIds
  BY <1>1, SMT DEF Sems, SemsOf, Elems
<1> QED BY <1>1, <1>2 DEF Queued

\* The running thread finds a permit in P().
LEMMA TakeSync ==
  ASSUME SyncInv, NEW t \in ThreadIds, NEW s \in Semaphores, NEW done \in Points, NEW wait,
         current = t, TryP(t, s, done, wait), sem[s].value > 0
  PROVE  /\ SyncInv' /\ Awake' = Awake /\ t \in Awake
         /\ sem'[s].value = sem[s].value - 1 /\ sem'[s].queue = sem[s].queue
         /\ OnlySem(s) /\ Moved(t, done)
<1>1. /\ Placed /\ sem \in [Semaphores -> Sems] /\ sem[s] \in Sems /\ pc \in [ThreadIds -> Points]
      /\ NoThread \notin ThreadIds /\ t \in Awake
  BY ConsoleAssumption DEF SyncInv, Awake, AwakeIn
<1>2. sem' = [sem EXCEPT ![s] = PTake(@)] /\ Goto(t, done) /\ Continue(<<>>)
  BY DEF TryP
<1>3. Placed' /\ Awake' = Awake
  BY <1>1, <1>2, ContinueIn DEF Placed, Awake
<1>4. Moved(t, done)
  BY <1>2, GotoMoves
<1>5. /\ sem' \in [Semaphores -> Sems] /\ OnlySem(s)
      /\ sem'[s].value = sem[s].value - 1 /\ sem'[s].queue = sem[s].queue
  <2> DEFINE r == PTake(sem[s])
  <2>1. r \in Sems /\ r.value = sem[s].value - 1 /\ r.queue = sem[s].queue
    BY <1>1, TakeSem DEF Sems
  <2>2. sem' = [sem EXCEPT ![s] = r]
    BY <1>2
  <2> HIDE DEF r
  <2> QED BY <1>1, <2>1, <2>2 DEF OnlySem
<1>6. ASSUME NEW r \in Semaphores PROVE Queued(r)'
  <2>1. sem'[r].queue = sem[r].queue
    BY <1>5 DEF OnlySem
  <2> QED BY <1>1, <1>3, <1>4, <2>1, QueuedKept DEF Moved
<1> QED BY <1>1, <1>3, <1>4, <1>5, <1>6 DEF SyncInv, Moved

\* The running thread finds none, queues and sleeps.
LEMMA QueueSync ==
  ASSUME SyncInv, NEW t \in ThreadIds, NEW s \in Semaphores, NEW done,
         current = t, TryP(t, s, done, WaitsAt(s)), ~(sem[s].value > 0)
  PROVE  /\ SyncInv' /\ Awake' = Awake \ {t} /\ t \in Awake
         /\ sem[s].value = 0 /\ sem'[s].value = 0
         /\ sem'[s].queue = Append(sem[s].queue, t)
         /\ OnlySem(s) /\ Moved(t, WaitsAt(s))
<1> DEFINE l == WaitsAt(s)
<1>0. l \in Points
  BY DEF WaitsAt, Points, InP
<1>1. /\ Placed /\ sem \in [Semaphores -> Sems] /\ sem[s] \in Sems /\ pc \in [ThreadIds -> Points]
      /\ NoThread \notin ThreadIds /\ t \in Awake
      /\ sem[s].value = 0 /\ sem[s].queue \in Seq(ThreadIds)
      /\ Distinct(sem[s].queue) /\ t \notin Elems(sem[s].queue)
  BY ConsoleAssumption, SMT DEF SyncInv, Awake, AwakeIn, Sems, SemsOf, Queued
<1>2. sem' = [sem EXCEPT ![s] = PQueue(@, t)] /\ Goto(t, l) /\ Sleep
  BY DEF TryP
<1> HIDE DEF l
<1>3. Placed' /\ Awake' = Awake \ {t}
  BY <1>1, <1>2, SleepIn DEF Placed, Awake
<1>4. Moved(t, l)
  BY <1>0, <1>2, GotoMoves
<1>5. /\ sem' \in [Semaphores -> Sems] /\ OnlySem(s)
      /\ sem'[s].value = 0 /\ sem'[s].queue = Append(sem[s].queue, t)
  <2> DEFINE r == PQueue(sem[s], t)
  <2>1. r \in Sems /\ r.value = sem[s].value /\ r.queue = Append(sem[s].queue, t)
    <3>1. sem[s] \in SemsOf(ThreadIds)
      BY <1>1 DEF Sems
    <3> QED BY <3>1, QueueSem DEF Sems
  <2>2. sem' = [sem EXCEPT ![s] = r]
    BY <1>2
  <2> HIDE DEF r
  <2> QED BY <1>1, <2>1, <2>2 DEF OnlySem
<1>6. ASSUME NEW r \in Semaphores PROVE Queued(r)'
  <2>1. CASE r # s
    <3>1. sem'[r].queue = sem[r].queue
      BY <1>5, <2>1 DEF OnlySem
    <3> QED BY <1>1, <1>3, <1>4, <3>1, QueuedKept DEF Moved
  <2>2. CASE r = s
    <3>1. /\ Distinct(sem'[s].queue)
          /\ Elems(sem'[s].queue) = Elems(sem[s].queue) \cup {t}
      BY <1>1, <1>5, AppendElems, SMT
    <3>2. \A u \in Elems(sem[s].queue) : u \in ThreadIds /\ pc[u] = l /\ u \notin Awake
      BY <1>1, SMT DEF SyncInv, Queued, Elems, l
    <3> QED BY <1>1, <1>3, <1>4, <2>2, <3>1, <3>2 DEF Queued, Moved, l
  <2> QED BY <2>1, <2>2
<1> QED BY <1>1, <1>3, <1>4, <1>5, <1>6 DEF SyncInv, Moved, l

\* V(), by a thread or a handler: the first waiter is woken.
LEMMA SignalSync ==
  ASSUME SyncInv, NEW s \in Semaphores, V(s),
         pc' \in [ThreadIds -> Points], \A u \in ThreadIds \ Awake : pc'[u] = pc[u]
  PROVE  /\ SyncInv' /\ Awake \subseteq Awake' /\ OnlySem(s)
         /\ sem[s].value \in Nat /\ sem'[s].value = sem[s].value + 1
         /\ sem[s].queue = <<>> => sem'[s].queue = <<>>
         /\ sem[s].queue # <<>> =>
              /\ sem'[s].queue = Tail(sem[s].queue)
              /\ \E u \in ThreadIds : u \in Awake' /\ u \notin Awake /\ pc'[u] = WaitsAt(s)
<1> DEFINE q == sem[s].queue
           h == Head(q)
<1>1. /\ Placed /\ sem \in [Semaphores -> Sems] /\ sem[s] \in Sems /\ NoThread \notin ThreadIds
      /\ sem[s].value \in Nat /\ q \in Seq(ThreadIds) /\ Distinct(q)
      /\ \A u \in Elems(q) : u \in ThreadIds /\ pc[u] = WaitsAt(s) /\ u \notin Awake
  BY ConsoleAssumption, SMT DEF SyncInv, Sems, SemsOf, Queued, Elems
<1>2. sem' = [sem EXCEPT ![s] = VSignal(@)] /\ Continue(VWoken(sem[s]))
  BY DEF V
<1>3. /\ VSignal(sem[s]) \in Sems
      /\ VSignal(sem[s]).value = sem[s].value + 1
      /\ q = <<>> => VSignal(sem[s]).queue = <<>> /\ VWoken(sem[s]) = <<>>
      /\ q # <<>> => VSignal(sem[s]).queue = Tail(q) /\ VWoken(sem[s]) = <<h>>
  BY <1>1, SignalSem DEF Sems
<1>4. /\ sem' \in [Semaphores -> Sems] /\ OnlySem(s)
      /\ sem'[s] = VSignal(sem[s])
  BY <1>1, <1>2, <1>3 DEF OnlySem
<1>5. /\ Placed' /\ Awake \subseteq Awake' /\ Distinct(sem'[s].queue)
      /\ Elems(sem'[s].queue) \subseteq Elems(q) \ Awake'
      /\ Awake' \ Awake \subseteq Elems(q)
      /\ q # <<>> => h \in Awake' /\ h \in Elems(q)
  <2>1. CASE q = <<>>
    <3>1. Placed' /\ Awake' = Awake
      BY <1>1, <1>2, <1>3, <2>1, ContinueIn DEF Placed, Awake
    <3>2. Elems(<<>>) = {} /\ Distinct(<<>>)
      BY SMT DEF Elems, Distinct
    <3> QED BY <1>3, <1>4, <2>1, <3>1, <3>2
  <2>2. CASE q # <<>>
    <3>1. /\ h \in ThreadIds /\ h \in Elems(q) /\ Elems(q) = Elems(Tail(q)) \cup {h}
          /\ Distinct(Tail(q)) /\ h \notin Elems(Tail(q))
      BY <1>1, <2>2, TailElems
    <3> HIDE DEF h, q
    <3>2. Placed' /\ Awake' = Awake \cup {h}
      <4>1. Continue(<<h>>) /\ h \in ThreadIds \ Awake
        BY <1>1, <1>2, <1>3, <2>2, <3>1
      <4> QED BY <1>1, <4>1, ContinueIn DEF Placed, Awake
    <3> QED BY <1>1, <1>3, <1>4, <2>2, <3>1, <3>2
  <2> QED BY <2>1, <2>2
<1> HIDE DEF h
<1>6. ASSUME NEW r \in Semaphores PROVE Queued(r)'
  <2>1. CASE r # s
    <3>1. /\ sem'[r].queue = sem[r].queue /\ Queued(r) /\ sem[r].queue \in Seq(ThreadIds)
      BY <1>4, <2>1 DEF OnlySem, SyncInv, Sems, SemsOf
    <3>2. WaitsAt(r) # WaitsAt(s)
      BY <2>1, SMT DEF WaitsAt, Semaphores
    <3>3. \A u \in Elems(sem[r].queue) : u \in ThreadIds /\ pc[u] = WaitsAt(r) /\ u \notin Awake
      BY <3>1, SMT DEF Queued, Elems
    <3>4. \A u \in Elems(sem[r].queue) : u \notin Awake' /\ pc'[u] = pc[u]
      BY <1>1, <1>5, <3>2, <3>3, SMT
    <3> QED BY <3>1, <3>3, <3>4 DEF Queued
  <2>2. CASE r = s
    BY <1>1, <1>5, <2>2 DEF Queued
  <2> QED BY <2>1, <2>2
<1> QED BY <1>1, <1>3, <1>4, <1>5, <1>6 DEF SyncInv

\* A switch or a yield.
LEMMA SwitchSync ==
  ASSUME SyncInv, Dispatch \/ Yield, UNCHANGED <<sem, pc>>
  PROVE  SyncInv' /\ Awake' = Awake
<1>1. Placed' /\ Awake' = Awake
  BY YieldIn, DispatchIn, ConsoleAssumption DEF SyncInv, Placed, Awake
<1> QED BY <1>1, QueuedKept DEF SyncInv

-----------------------------------------------------------------------------
(* The lines.                                                              *)

\* A line that a step has nothing to do with.
LEMMA LineKept ==
  ASSUME NEW s \in Lines, Line(s), sem'[s] = sem[s],
         \A u \in ThreadIds : pc'[u] \in Has(s) <=> pc[u] \in Has(s),
         \A u \in ThreadIds :
           pc[u] = WaitsAt(s) /\ u \in Awake => pc'[u] = WaitsAt(s) /\ u \in Awake'
  PROVE  Line(s)'
BY DEF Line

\* A thread gets the line.
LEMMA LineTaken ==
  ASSUME NEW s \in Lines, Line(s), NEW t \in ThreadIds, NEW l \in Has(s), Moved(t, l),
         sem[s].value > 0, sem'[s].value = sem[s].value - 1
  PROVE  Line(s)' /\ \A u \in ThreadIds : pc[u] \notin Has(s)
<1>1. sem[s].value = 1 /\ \A u \in ThreadIds : pc[u] \notin Has(s)
  BY SMT DEF Line
<1>2. sem'[s].value = 0 /\ \A u \in ThreadIds : pc'[u] \in Has(s) <=> u = t
  BY <1>1, SMT DEF Moved
<1> QED BY <1>1, <1>2 DEF Line

\* A thread queues for the line, which another one has.
LEMMA LineQueued ==
  ASSUME NEW s \in Lines, Line(s), NEW t \in ThreadIds, Moved(t, WaitsAt(s)),
         pc[t] \notin Has(s), sem[s].value = 0, sem'[s].value = 0
  PROVE  Line(s)'
<1>1. PICK h \in ThreadIds : \A u \in ThreadIds : pc[u] \in Has(s) <=> u = h
  BY SMT DEF Line
<1>2. WaitsAt(s) \notin Has(s)
  BY DEF WaitsAt, Has, Lines
<1>3. \A u \in ThreadIds : pc'[u] \in Has(s) <=> u = h
  BY <1>1, <1>2 DEF Moved
<1> QED BY <1>3 DEF Line

\* The thread that has the line frees it, and wakes a waiter.
LEMMA LineFreed ==
  ASSUME SyncInv, NEW s \in Lines, Line(s), NEW t \in ThreadIds, current = t,
         pc[t] \in Has(s), V(s), Goto(t, "user")
  PROVE  /\ SyncInv' /\ Awake \subseteq Awake' /\ OnlySem(s) /\ Moved(t, "user") /\ t \in Awake
         /\ Line(s)' /\ \A u \in ThreadIds : pc'[u] \notin Has(s)
<1>1. Moved(t, "user") /\ t \in Awake /\ s \in Semaphores /\ "user" \notin Has(s)
  BY GotoMoves DEF Points, Awake, AwakeIn, Lines, Semaphores, Has
<1>2. sem[s].value = 0 /\ \A u \in ThreadIds : pc[u] \in Has(s) <=> u = t
  BY DEF Line
<1>3. /\ SyncInv' /\ Awake \subseteq Awake' /\ OnlySem(s)
      /\ sem[s].value \in Nat /\ sem'[s].value = sem[s].value + 1
      /\ sem[s].queue = <<>> => sem'[s].queue = <<>>
      /\ sem[s].queue # <<>> =>
           \E u \in ThreadIds : u \in Awake' /\ u \notin Awake /\ pc'[u] = WaitsAt(s)
  BY <1>1, SignalSync DEF Moved
<1>4. \A u \in ThreadIds : pc'[u] \notin Has(s)
  BY <1>1, <1>2 DEF Moved
<1>5. Line(s)'
  BY <1>2, <1>3, <1>4, SMT DEF Line
<1> QED BY <1>1, <1>3, <1>4, <1>5

-----------------------------------------------------------------------------
(* The display, the buffer and what the calls got.                         *)

\* What is on the display is kept by a step that writes nothing.
LEMMA DisplayKept ==
  ASSUME Display, putBusy' = putBusy, sem'["synchWriteAvail"] = sem["synchWriteAvail"],
         \A u \in ThreadIds : pc'[u] = "w_avail" <=> pc[u] = "w_avail"
  PROVE  Display'
BY DEF Display

\* A call that has nothing to do with the display goes on.
LEMMA ShowsKept ==
  ASSUME Shows, NEW t \in ThreadIds, shown' = shown, pc[t] \notin Has("WLineBlock"),
         \A u \in ThreadIds \ {t} :
           pc'[u] = pc[u] /\ loop'[u] = loop[u] /\ numBytes'[u] = numBytes[u],
         pc'[t] \in Has("WLineBlock") =>
           pc'[t] = "w_next" /\ \A u \in ThreadIds : pc[u] \notin Has("WLineBlock"),
         pc'[t] \in {"w_line", "r_line", "r_next", "w_next"} => loop'[t] = 0,
         pc'[t] \in {"r_avail", "r_get"} => loop'[t] < numBytes'[t],
         numBytes'[t] \in Nat
  PROVE  Shows'
<1>1. ASSUME NEW u \in ThreadIds, u # t PROVE Progress(u)'
  BY <1>1 DEF Shows, Progress
<1>2. Progress(t)'
  <2>1. pc'[t] \in Has("WLineBlock") => pc'[t] = "w_next" /\ loop'[t] = 0 /\ shown'.i = shown'.n
    BY DEF Shows
  <2> QED BY <2>1, SMT DEF Progress
<1>3. (\A u \in ThreadIds : pc'[u] \notin Has("WLineBlock")) => shown'.i = shown'.n
  <2>1. ASSUME \A u \in ThreadIds : pc'[u] \notin Has("WLineBlock")
        PROVE  \A u \in ThreadIds : pc[u] \notin Has("WLineBlock")
    BY <2>1
  <2> QED BY <2>1 DEF Shows
<1> QED BY <1>1, <1>2, <1>3 DEF Shows

\* Nothing is typed or taken out of the buffer.
LEMMA BufferKept ==
  ASSUME Buffer, UNCHANGED <<incoming, typed>>,
         incoming # Empty =>
           sem'["synchReadAvail"].value > 0 \/ \E t \in ThreadIds : pc'[t] = "r_get"
  PROVE  Buffer'
BY DEF Buffer, Real

\* What a reader has got is kept by a step of another thread.
LEMMA GotKept ==
  ASSUME NEW u \in ThreadIds, Got(u), UNCHANGED <<incoming, typed>>,
         \/ line'[u] = line[u]
         \/ line'[u] = <<>>,
         pc'[u] \in Has("RLineBlock") \cup {"r_line"} =>
           \/ line'[u] = <<>>
           \/ pc[u] \in Has("RLineBlock") /\ pc'[u] \in Has("RLineBlock")
  PROVE  Got(u)'
<1>1. Elems(<<>>) = {} /\ Ascending(<<>>)
  BY SMT DEF Elems, Ascending
<1>2. CASE line'[u] = <<>>
  BY <1>1, <1>2 DEF Got, Real
<1>3. CASE line'[u] # <<>>
  <2>1. "r_line" \notin Has("RLineBlock")
    BY DEF Has
  <2> QED BY <1>3, <2>1 DEF Got, Real
<1> QED BY <1>2, <1>3

-----------------------------------------------------------------------------
(* The beginning of a call, and its wait for the line.                     *)

FirstAt(s) == IF s = "WLineBlock" THEN "w_next" ELSE "r_next"

\* P() on a line, by a thread that does not have it.
LEMMA AskLineSync ==
  ASSUME ConsoleInv, NEW t \in ThreadIds, NEW s \in Lines, current = t,
         pc[t] \in {"user", WaitsAt(s)}, TryP(t, s, FirstAt(s), WaitsAt(s))
  PROVE  /\ SyncInv' /\ Awake \ {t} \subseteq Awake' /\ OnlySem(s) /\ Line(s)'
         /\ \/ /\ Moved(t, FirstAt(s))
               /\ \A u \in ThreadIds : pc[u] \notin Has(s)
            \/ Moved(t, WaitsAt(s))
<1>1. /\ SyncInv /\ Line(s) /\ s \in Semaphores /\ sem[s].value \in Nat
      /\ FirstAt(s) \in Points /\ FirstAt(s) \in Has(s) /\ pc[t] \notin Has(s)
  BY DEF ConsoleInv, SyncInv, Lines, Semaphores, Sems, SemsOf, FirstAt, WaitsAt, Points, InP, Has
<1>2. CASE sem[s].value > 0
  <2>1. /\ SyncInv' /\ Awake' = Awake /\ OnlySem(s) /\ Moved(t, FirstAt(s))
        /\ sem'[s].value = sem[s].value - 1
    BY <1>1, <1>2, TakeSync
  <2> QED BY <1>1, <1>2, <2>1, LineTaken
<1>3. CASE ~(sem[s].value > 0)
  <2>1. /\ SyncInv' /\ Awake' = Awake \ {t} /\ OnlySem(s) /\ Moved(t, WaitsAt(s))
        /\ sem[s].value = 0 /\ sem'[s].value = 0
    BY <1>1, <1>3, QueueSync
  <2> QED BY <1>1, <2>1, LineQueued
<1> QED BY <1>2, <1>3

\* A call of Read or Write that queues for its line.
LEMMA AskLineInv ==
  ASSUME ConsoleInv, NEW t \in ThreadIds, NEW s \in Lines, current = t,
         pc[t] \in {"user", WaitsAt(s)}, TryP(t, s, FirstAt(s), WaitsAt(s)),
         UNCHANGED <<machine, devVars>>, DataTypes',
         \A u \in ThreadIds \ {t} :
           numBytes'[u] = numBytes[u] /\ loop'[u] = loop[u] /\ line'[u] = line[u],
         loop'[t] = 0, line'[t] \in {line[t], <<>>},
         s = "RLineBlock" => line'[t] = <<>>
  PROVE  ConsoleInv'
<1>1. /\ SyncInv' /\ Awake \ {t} \subseteq Awake' /\ OnlySem(s) /\ Line(s)'
      /\ \/ Moved(t, FirstAt(s)) /\ \A u \in ThreadIds : pc[u] \notin Has(s)
         \/ Moved(t, WaitsAt(s))
  BY AskLineSync
<1>2. /\ pc'[t] \in {FirstAt(s), WaitsAt(s)}
      /\ \A u \in ThreadIds \ {t} : pc'[u] = pc[u]
      /\ pc'[t] = FirstAt(s) => \A u \in ThreadIds : pc[u] \notin Has(s)
  <2>1. FirstAt(s) # WaitsAt(s)
    BY DEF FirstAt, WaitsAt, Lines
  <2> QED BY <1>1, <2>1 DEF Moved
<1>3. putBusy' = putBusy /\ shown' = shown /\ incoming' = incoming /\ typed' = typed
  BY DEF devVars
<1>4. s = "WLineBlock" \/ s = "RLineBlock"
  BY DEF Lines
<1>5. ASSUME NEW r \in Lines PROVE Line(r)'
  <2>1. CASE r # s
    <3>1. sem'[r] = sem[r] /\ Line(r)
      BY <1>1, <2>1, SMT DEF OnlySem, Lines, Semaphores, ConsoleInv
    <3>2. /\ pc[t] \notin Has(r) /\ pc'[t] \notin Has(r)
          /\ pc[t] # WaitsAt(r)
      BY <1>2, <1>4, <2>1, SMT DEF Lines, Has, WaitsAt, FirstAt
    <3> QED BY <1>1, <1>2, <3>1, <3>2, LineKept
  <2> QED BY <1>1, <2>1
<1>6. pc[t] \notin {"w_avail", "r_get", "w_next", "r_next", "r_avail"}
      /\ pc'[t] \notin {"w_avail", "r_get", "r_avail"}
  BY <1>2, <1>4 DEF WaitsAt, FirstAt
<1>7. /\ sem'["synchWriteAvail"] = sem["synchWriteAvail"]
      /\ sem'["synchReadAvail"] = sem["synchReadAvail"]
  BY <1>1, <1>4 DEF OnlySem, Semaphores
<1>8. Display'
  <2>1. \A u \in ThreadIds : pc'[u] = "w_avail" <=> pc[u] = "w_avail"
    BY <1>2, <1>6
  <2> QED BY <1>3, <1>7, <2>1, DisplayKept DEF ConsoleInv
<1>9. Shows'
  <2>1. pc[t] \notin Has("WLineBlock")
    BY <1>6 DEF Has
  <2>2. pc'[t] \in Has("WLineBlock") =>
          pc'[t] = "w_next" /\ \A u \in ThreadIds : pc[u] \notin Has("WLineBlock")
    BY <1>2, <1>4 DEF Has, FirstAt, WaitsAt
  <2>3. numBytes'[t] \in Nat
    BY ConsoleAssumption, SMT DEF DataTypes
  <2> QED BY <1>2, <1>3, <1>6, <2>1, <2>2, <2>3, ShowsKept DEF ConsoleInv
<1>10. Buffer'
  <2>1. \A u \in ThreadIds : pc'[u] = "r_get" <=> pc[u] = "r_get"
    BY <1>2, <1>6
  <2>2. incoming # Empty =>
          sem'["synchReadAvail"].value > 0 \/ \E u \in ThreadIds : pc'[u] = "r_get"
    BY <1>7, <2>1 DEF ConsoleInv, Buffer
  <2> QED BY <1>3, <2>2, BufferKept DEF ConsoleInv
<1>11. ASSUME NEW u \in ThreadIds PROVE Got(u)'
  <2>1. CASE u # t
    <3>1. Got(u) /\ line'[u] = line[u] /\ pc'[u] = pc[u]
      BY <1>2, <2>1 DEF ConsoleInv
    <3>2. pc[u] = "r_line" => line'[u] = <<>>
      BY <3>1 DEF Got
    <3> QED BY <1>3, <3>1, <3>2, GotKept
  <2>2. CASE u = t
    <3>1. Got(t) /\ (pc'[t] \in Has("RLineBlock") \cup {"r_line"} => line'[t] = <<>>)
      BY <1>2, <1>4 DEF ConsoleInv, FirstAt, WaitsAt, Has
    <3> QED BY <1>3, <2>2, <3>1, GotKept
  <2> QED BY <2>1, <2>2
<1> QED BY <1>1, <1>5, <1>8, <1>9, <1>10, <1>11 DEF ConsoleInv

\* Write and Read are called.
LEMMA CallInv ==
  ASSUME ConsoleInv, NEW t \in ThreadIds, NEW n \in 0 .. MaxBytes, Write(t, n) \/ Read(t, n)
  PROVE  ConsoleInv'
<1>1. PICK s \in Lines : /\ TryP(t, s, FirstAt(s), WaitsAt(s))
                         /\ Call(t, n) /\ UNCHANGED <<machine, devVars>>
  <2>1. CASE Write(t, n)
    BY <2>1 DEF Write, Lines, FirstAt, WaitsAt
  <2>2. CASE Read(t, n)
    BY <2>2 DEF Read, Lines, FirstAt, WaitsAt
  <2> QED BY <2>1, <2>2
<1>2. /\ current = t /\ pc[t] = "user"
      /\ numBytes' = [numBytes EXCEPT ![t] = n]
      /\ loop' = [loop EXCEPT ![t] = 0]
      /\ line' = [line EXCEPT ![t] = <<>>]
  BY <1>1 DEF Call, Running
<1>3. /\ numBytes \in [ThreadIds -> 0 .. MaxBytes] /\ loop \in [ThreadIds -> 0 .. MaxBytes]
      /\ line \in [ThreadIds -> Seq(Nat)] /\ 0 \in 0 .. MaxBytes
  BY ConsoleAssumption, SMTT(30) DEF ConsoleInv, DataTypes
<1>4. /\ numBytes' \in [ThreadIds -> 0 .. MaxBytes] /\ loop' \in [ThreadIds -> 0 .. MaxBytes]
      /\ line' \in [ThreadIds -> Seq(Nat)] /\ loop'[t] = 0 /\ line'[t] = <<>>
      /\ \A u \in ThreadIds \ {t} :
           numBytes'[u] = numBytes[u] /\ loop'[u] = loop[u] /\ line'[u] = line[u]
  BY <1>2, <1>3, SMT
<1>5. DataTypes'
  BY <1>1, <1>4, SMTT(30) DEF ConsoleInv, DataTypes, devVars
<1> QED BY <1>1, <1>2, <1>4, <1>5, AskLineInv

\* A thread that was woken in P() on a line looks again.
LEMMA LineInv ==
  ASSUME ConsoleInv, NEW t \in ThreadIds, WriteLine(t) \/ ReadLine(t)
  PROVE  ConsoleInv'
<1>1. PICK s \in Lines : /\ TryP(t, s, FirstAt(s), WaitsAt(s))
                         /\ current = t /\ pc[t] = WaitsAt(s)
                         /\ UNCHANGED <<machine, devVars, numBytes, loop, line>>
  <2>1. CASE WriteLine(t)
    BY <2>1 DEF WriteLine, Running, Lines, FirstAt, WaitsAt
  <2>2. CASE ReadLine(t)
    BY <2>2 DEF ReadLine, Running, Lines, FirstAt, WaitsAt
  <2> QED BY <2>1, <2>2
<1>2. DataTypes'
  BY <1>1 DEF ConsoleInv, DataTypes, devVars
<1>3. loop[t] = 0 /\ (s = "RLineBlock" => line[t] = <<>>)
  BY <1>1 DEF ConsoleInv, Shows, Progress, Got, Lines, WaitsAt
<1> QED BY <1>1, <1>2, <1>3, AskLineInv

-----------------------------------------------------------------------------
(* A Write that has the line.                                              *)

\* One thread has a line.
LEMMA OneHolder ==
  ASSUME ConsoleInv, NEW s \in Lines, NEW t \in ThreadIds, pc[t] \in Has(s)
  PROVE  \A u \in ThreadIds : pc[u] \in Has(s) <=> u = t
BY DEF ConsoleInv, Line

\* The running thread is awake, so it is in no queue.
LEMMA RunningAwake ==
  ASSUME ConsoleInv, NEW t \in ThreadIds, current = t
  PROVE  /\ t \in Awake
         /\ \A s \in Semaphores : t \notin Elems(sem[s].queue)
BY DEF ConsoleInv, SyncInv, Queued, Awake, AwakeIn

\* Both lines are as before a step of the thread that has one of them, and
\* that keeps it.
LEMMA BothLinesKept ==
  ASSUME ConsoleInv, NEW t \in ThreadIds, NEW s \in Lines, pc[t] \in Has(s), pc'[t] \in Has(s),
         \A u \in ThreadIds \ {t} : pc'[u] = pc[u], Awake \ {t} \subseteq Awake',
         \A r \in Lines : sem'[r] = sem[r]
  PROVE  \A r \in Lines : Line(r)'
<1>1. ASSUME NEW r \in Lines PROVE Line(r)'
  <2>1. /\ pc'[t] \in Has(r) <=> pc[t] \in Has(r)
        /\ pc[t] # WaitsAt(r)
    BY DEF Lines, Has, WaitsAt
  <2> QED BY <2>1, LineKept DEF ConsoleInv
<1> QED BY <1>1

\* PutChar starts the display on the next character of the line.
LEMMA PutInv ==
  ASSUME ConsoleInv, NEW t \in ThreadIds, WriteNext(t), loop[t] < numBytes[t]
  PROVE  ConsoleInv' /\ NextCharacter
<1> DEFINE s == "synchWriteAvail"
<1>1. /\ current = t /\ pc[t] = "w_next"
      /\ PutChar(t) /\ TryP(t, s, "w_next", "w_avail")
      /\ loop' = [loop EXCEPT ![t] = @ + 1]
      /\ UNCHANGED <<numBytes, incoming, typed, line>>
  BY DEF WriteNext, Running
<1>2. /\ \A u \in ThreadIds : pc[u] \in Has("WLineBlock") <=> u = t
      /\ SyncInv /\ Display /\ Shows /\ DataTypes
      /\ numBytes[t] \in 0 .. MaxBytes /\ loop[t] \in 0 .. MaxBytes /\ MaxBytes \in Nat
  <2>1. "WLineBlock" \in Lines /\ pc[t] \in Has("WLineBlock")
    BY <1>1 DEF Lines, Has
  <2> QED BY <2>1, OneHolder, ConsoleAssumption DEF ConsoleInv, DataTypes
<1>3. ~ putBusy /\ sem[s].value = 0 /\ sem[s].queue = <<>>
  <2>1. \A u \in ThreadIds : pc[u] # "w_avail"
    BY <1>1, <1>2 DEF Has
  <2> QED BY <1>2, <2>1, SMTT(30) DEF Display, DataTypes
<1>4. /\ machine' = "run" /\ putBusy' = TRUE
      /\ shown' = [by |-> t, i |-> loop[t] + 1, n |-> numBytes[t]]
  BY <1>1, <1>3 DEF PutChar
<1>5. /\ SyncInv' /\ Awake' = Awake \ {t} /\ OnlySem(s) /\ Moved(t, "w_avail")
      /\ sem'[s].value = 0 /\ sem'[s].queue = <<t>>
  <2>1. WaitsAt(s) = "w_avail" /\ s \in Semaphores
    BY DEF WaitsAt, Semaphores
  <2>2. /\ SyncInv' /\ Awake' = Awake \ {t} /\ OnlySem(s) /\ Moved(t, "w_avail")
        /\ sem'[s].value = 0 /\ sem'[s].queue = Append(sem[s].queue, t)
    BY <1>1, <1>2, <1>3, <2>1, QueueSync, SMT
  <2>3. Append(<<>>, t) = <<t>>
    BY SMT
  <2> QED BY <1>3, <2>2, <2>3
<1>6. /\ loop' \in [ThreadIds -> 0 .. MaxBytes] /\ loop'[t] = loop[t] + 1
      /\ \A u \in ThreadIds \ {t} : loop'[u] = loop[u]
      /\ loop[t] + 1 \in 0 .. MaxBytes
  BY <1>1, <1>2, SMTT(30) DEF DataTypes
<1>7. DataTypes'
  BY <1>1, <1>2, <1>4, <1>6 DEF DataTypes
<1>8. \A r \in Lines : Line(r)'
  <2>1. \A r \in Lines : sem'[r] = sem[r]
    BY <1>5 DEF OnlySem, Lines, Semaphores
  <2>2. /\ "WLineBlock" \in Lines /\ pc[t] \in Has("WLineBlock") /\ pc'[t] \in Has("WLineBlock")
        /\ \A u \in ThreadIds \ {t} : pc'[u] = pc[u]
    BY <1>1, <1>5 DEF Lines, Has, Moved
  <2> QED BY <1>5, <2>1, <2>2, BothLinesKept
<1>9. Display'
  BY <1>4, <1>5 DEF Display, Moved
<1>10. Shows'
  <2>1. ASSUME NEW u \in ThreadIds, u # t PROVE Progress(u)'
    <3>1. Progress(u) /\ pc'[u] = pc[u] /\ pc[u] \notin Has("WLineBlock")
          /\ loop'[u] = loop[u] /\ numBytes'[u] = numBytes[u]
      BY <1>1, <1>2, <1>5, <1>6, <2>1 DEF Shows, Moved
    <3> QED BY <3>1 DEF Progress
  <2>2. Progress(t)'
    <3>1. pc'[t] = "w_avail" /\ numBytes'[t] = numBytes[t]
      BY <1>1, <1>5 DEF Moved
    <3>2. loop'[t] # 0 /\ loop'[t] <= numBytes[t]
      BY <1>2, <1>6, SMT
    <3> QED BY <1>4, <1>6, <3>1, <3>2 DEF Progress
  <2>3. pc'[t] \in Has("WLineBlock")
    BY <1>5 DEF Moved, Has
  <2> QED BY <2>1, <2>2, <2>3 DEF Shows
<1>11. Buffer'
  <2>1. \A u \in ThreadIds : pc'[u] = "r_get" <=> pc[u] = "r_get"
    BY <1>1, <1>5 DEF Moved
  <2>2. sem'["synchReadAvail"] = sem["synchReadAvail"]
    BY <1>5 DEF OnlySem, Semaphores
  <2> QED BY <1>1, <2>1, <2>2, BufferKept DEF ConsoleInv, Buffer
<1>12. ASSUME NEW u \in ThreadIds PROVE Got(u)'
  <2>1. Got(u) /\ line'[u] = line[u] /\ (pc[u] = "r_line" => line[u] = <<>>)
    BY <1>1 DEF ConsoleInv, Got
  <2>2. pc'[u] \in Has("RLineBlock") \cup {"r_line"} => pc'[u] = pc[u]
    BY <1>5 DEF Moved, Has
  <2> QED BY <1>1, <2>1, <2>2, GotKept
<1>13. NextCharacter
  <2>1. Progress(t) /\ shown \in [by : ThreadIds \cup {NoThread}, i : 0 .. MaxBytes, n : 0 .. MaxBytes]
    BY <1>2 DEF Shows, DataTypes
  <2>2. CASE loop[t] = 0
    BY <1>1, <1>4, <2>1, <2>2, SMT DEF Progress, Has, NextCharacter
  <2>3. CASE loop[t] # 0
    <3>1. shown = [by |-> t, i |-> loop[t], n |-> numBytes[t]]
      BY <1>1, <2>1, <2>3 DEF Progress, Has
    <3>2. shown.i # shown.n /\ shown' = [shown EXCEPT !.i = loop[t] + 1] /\ shown.i = loop[t]
      BY <1>2, <1>4, <3>1, SMT
    <3> QED BY <3>2 DEF NextCharacter
  <2> QED BY <2>2, <2>3
<1> QED BY <1>5, <1>7, <1>8, <1>9, <1>10, <1>11, <1>12, <1>13 DEF ConsoleInv

\* The thread that put the last character finds that it is out.
LEMMA WriteAvailInv ==
  ASSUME ConsoleInv, NEW t \in ThreadIds, WriteAvail(t)
  PROVE  ConsoleInv'
<1> DEFINE s == "synchWriteAvail"
<1>1. /\ current = t /\ pc[t] = "w_avail" /\ TryP(t, s, "w_next", "w_avail")
      /\ UNCHANGED <<machine, putBusy, incoming, typed, shown, numBytes, loop, line>>
  BY DEF WriteAvail, Running, devVars
<1>2. /\ \A u \in ThreadIds : pc[u] \in Has("WLineBlock") <=> u = t
      /\ SyncInv /\ Display /\ Shows /\ DataTypes /\ s \in Semaphores
  <2>1. "WLineBlock" \in Lines /\ pc[t] \in Has("WLineBlock")
    BY <1>1 DEF Lines, Has
  <2> QED BY <2>1, OneHolder DEF ConsoleInv, Semaphores
<1>3. ~ putBusy /\ sem[s].value = 1 /\ sem[s].queue = <<>>
  <2>1. \A u \in ThreadIds : pc[u] = "w_avail" => u = t
    BY <1>2 DEF Has
  <2>2. sem[s].queue # <<t>>
    <3>1. t \in Elems(<<t>>)
      BY SMT DEF Elems
    <3> QED BY <1>1, <1>2, <3>1, RunningAwake
  <2> QED BY <1>1, <1>2, <2>1, <2>2 DEF Display, DataTypes
<1>4. /\ SyncInv' /\ Awake' = Awake /\ OnlySem(s) /\ Moved(t, "w_next")
      /\ sem'[s].value = 0 /\ sem'[s].queue = <<>>
  <2>1. "w_next" \in Points
    BY DEF Points
  <2> QED BY <1>1, <1>2, <1>3, <2>1, TakeSync, SMT
<1>5. DataTypes'
  BY <1>1, <1>2 DEF DataTypes
<1>6. \A r \in Lines : Line(r)'
  <2>1. \A r \in Lines : sem'[r] = sem[r]
    BY <1>4 DEF OnlySem, Lines, Semaphores
  <2>2. /\ "WLineBlock" \in Lines /\ pc[t] \in Has("WLineBlock") /\ pc'[t] \in Has("WLineBlock")
        /\ \A u \in ThreadIds \ {t} : pc'[u] = pc[u]
    BY <1>1, <1>4 DEF Lines, Has, Moved
  <2> QED BY <1>4, <2>1, <2>2, BothLinesKept
<1>7. Display'
  <2>1. \A u \in ThreadIds : pc'[u] # "w_avail"
    BY <1>2, <1>4 DEF Moved, Has
  <2> QED BY <1>1, <1>3, <1>4, <2>1 DEF Display
<1>8. Shows'
  <2>1. ASSUME NEW u \in ThreadIds PROVE Progress(u)'
    <3>1. Progress(u) /\ loop'[u] = loop[u] /\ numBytes'[u] = numBytes[u] /\ shown' = shown
      BY <1>1, <1>2 DEF Shows
    <3>2. CASE u # t
      BY <1>4, <3>1, <3>2 DEF Progress, Moved
    <3>3. CASE u = t
      <4>1. pc[u] = "w_avail" /\ pc'[u] = "w_next"
        BY <1>1, <1>4, <3>3 DEF Moved
      <4> QED BY <3>1, <4>1 DEF Progress, Has
    <3> QED BY <3>2, <3>3
  <2>2. pc'[t] \in Has("WLineBlock")
    BY <1>4 DEF Moved, Has
  <2> QED BY <2>1, <2>2 DEF Shows
<1>9. Buffer'
  <2>1. \A u \in ThreadIds : pc'[u] = "r_get" <=> pc[u] = "r_get"
    BY <1>1, <1>4 DEF Moved
  <2>2. sem'["synchReadAvail"] = sem["synchReadAvail"]
    BY <1>4 DEF OnlySem, Semaphores
  <2> QED BY <1>1, <2>1, <2>2, BufferKept DEF ConsoleInv, Buffer
<1>10. ASSUME NEW u \in ThreadIds PROVE Got(u)'
  <2>1. Got(u) /\ line'[u] = line[u] /\ (pc[u] = "r_line" => line[u] = <<>>)
    BY <1>1 DEF ConsoleInv, Got
  <2>2. pc'[u] \in Has("RLineBlock") \cup {"r_line"} => pc'[u] = pc[u]
    BY <1>4 DEF Moved, Has
  <2> QED BY <1>1, <2>1, <2>2, GotKept
<1> QED BY <1>4, <1>5, <1>6, <1>7, <1>8, <1>9, <1>10 DEF ConsoleInv

\* The end of a call: the line is freed, and the other line and the display
\* are as before.
LEMMA ReturnSync ==
  ASSUME ConsoleInv, NEW t \in ThreadIds, NEW s \in Lines, current = t,
         pc[t] \in Has(s), pc[t] # "w_avail", V(s), Goto(t, "user"), putBusy' = putBusy
  PROVE  /\ SyncInv' /\ OnlySem(s) /\ Moved(t, "user") /\ \A r \in Lines : Line(r)'
         /\ \A u \in ThreadIds : pc'[u] \notin Has(s)
         /\ Display'
<1>1. /\ SyncInv' /\ Awake \subseteq Awake' /\ OnlySem(s) /\ Moved(t, "user")
      /\ Line(s)' /\ \A u \in ThreadIds : pc'[u] \notin Has(s)
  BY LineFreed DEF ConsoleInv
<1>2. ASSUME NEW r \in Lines, r # s PROVE Line(r)'
  <2>1. sem'[r] = sem[r] /\ Line(r)
    BY <1>1, <1>2, SMT DEF OnlySem, Lines, Semaphores, ConsoleInv
  <2>2. pc[t] \notin Has(r) /\ pc'[t] \notin Has(r) /\ pc[t] # WaitsAt(r)
    BY <1>1, <1>2 DEF Moved, Lines, Has, WaitsAt
  <2> QED BY <1>1, <2>1, <2>2, LineKept DEF Moved
<1>3. Display'
  <2>1. sem'["synchWriteAvail"] = sem["synchWriteAvail"]
    BY <1>1 DEF OnlySem, Lines, Semaphores
  <2>2. \A u \in ThreadIds : pc'[u] = "w_avail" <=> pc[u] = "w_avail"
    BY <1>1 DEF Moved
  <2> QED BY <2>1, <2>2, DisplayKept DEF ConsoleInv
<1> QED BY <1>1, <1>2, <1>3

\* What Leaves does to the variables of the call.
LEMMA LeavesTypes ==
  ASSUME DataTypes, NEW t \in ThreadIds, Leaves(t)
  PROVE  /\ numBytes' \in [ThreadIds -> 0 .. MaxBytes] /\ loop' \in [ThreadIds -> 0 .. MaxBytes]
         /\ numBytes'[t] = 0 /\ loop'[t] = 0
         /\ \A u \in ThreadIds \ {t} : numBytes'[u] = numBytes[u] /\ loop'[u] = loop[u]
BY ConsoleAssumption, SMTT(30) DEF DataTypes, Leaves

\* A Write ends after its last character.
LEMMA WriteEndInv ==
  ASSUME ConsoleInv, NEW t \in ThreadIds, WriteNext(t), ~(loop[t] < numBytes[t])
  PROVE  ConsoleInv'
<1> DEFINE s == "WLineBlock"
<1>1. /\ current = t /\ pc[t] = "w_next" /\ V(s) /\ Goto(t, "user") /\ Leaves(t)
      /\ UNCHANGED <<machine, putBusy, shown, incoming, typed, line>>
      /\ s \in Lines /\ pc[t] \in Has(s)
  BY DEF WriteNext, Running, Lines, Has
<1>2. /\ SyncInv' /\ OnlySem(s) /\ Moved(t, "user") /\ \A r \in Lines : Line(r)'
      /\ \A u \in ThreadIds : pc'[u] \notin Has(s)
      /\ Display'
  BY <1>1, ReturnSync
<1>3. DataTypes' /\ DataTypes
  <2>1. DataTypes
    BY DEF ConsoleInv
  <2> QED BY <1>1, <2>1, LeavesTypes, SMTT(30) DEF DataTypes
<1>4. shown.i = shown.n
  <2>1. Progress(t) /\ loop[t] \in Nat /\ numBytes[t] \in Nat
    BY <1>3, ConsoleAssumption, SMT DEF ConsoleInv, Shows, DataTypes
  <2>2. loop[t] = numBytes[t]
    BY <1>1, <2>1, SMT DEF Progress
  <2> QED BY <1>1, <2>1, <2>2, SMT DEF Progress
<1>5. Shows'
  <2>1. ASSUME NEW u \in ThreadIds PROVE Progress(u)'
    <3>1. Progress(u) /\ pc'[u] \notin Has(s)
      BY <1>2 DEF ConsoleInv, Shows
    <3>2. u # t => pc'[u] = pc[u] /\ loop'[u] = loop[u] /\ numBytes'[u] = numBytes[u]
      BY <1>1, <1>2, <1>3, LeavesTypes DEF Moved
    <3>3. u = t => pc'[u] = "user"
      BY <1>2 DEF Moved
    <3> QED BY <3>1, <3>2, <3>3 DEF Progress
  <2> QED BY <1>1, <1>4, <2>1 DEF Shows
<1>6. Buffer'
  <2>1. \A u \in ThreadIds : pc'[u] = "r_get" <=> pc[u] = "r_get"
    BY <1>1, <1>2 DEF Moved
  <2>2. sem'["synchReadAvail"] = sem["synchReadAvail"]
    BY <1>2 DEF OnlySem, Semaphores
  <2> QED BY <1>1, <2>1, <2>2, BufferKept DEF ConsoleInv, Buffer
<1>7. ASSUME NEW u \in ThreadIds PROVE Got(u)'
  <2>1. Got(u) /\ line'[u] = line[u] /\ (pc[u] = "r_line" => line[u] = <<>>)
    BY <1>1 DEF ConsoleInv, Got
  <2>2. pc'[u] \in Has("RLineBlock") \cup {"r_line"} => pc'[u] = pc[u]
    BY <1>2 DEF Moved, Has
  <2> QED BY <1>1, <2>1, <2>2, GotKept
<1> QED BY <1>2, <1>3, <1>5, <1>6, <1>7 DEF ConsoleInv

-----------------------------------------------------------------------------
(* A Read that has the line.                                               *)

\* P() on synchReadAvail: the thread gets a permit, or there is none.
LEMMA AskCharSync ==
  ASSUME ConsoleInv, NEW t \in ThreadIds, current = t, pc[t] \in Has("RLineBlock"),
         TryP(t, "synchReadAvail", "r_get", "r_avail"), putBusy' = putBusy
  PROVE  /\ SyncInv' /\ OnlySem("synchReadAvail") /\ Display'
         /\ \A r \in Lines : Line(r)'
         /\ \/ Moved(t, "r_get")
            \/ Moved(t, "r_avail") /\ sem["synchReadAvail"].value = 0
<1> DEFINE s == "synchReadAvail"
<1>1. s \in Semaphores /\ WaitsAt(s) = "r_avail" /\ "r_get" \in Points /\ SyncInv
  BY DEF Semaphores, WaitsAt, Points, ConsoleInv
<1>2. /\ SyncInv' /\ OnlySem(s) /\ Awake \ {t} \subseteq Awake'
      /\ \/ Moved(t, "r_get")
         \/ Moved(t, "r_avail") /\ sem[s].value = 0
  <2>1. CASE sem[s].value > 0
    <3>1. SyncInv' /\ OnlySem(s) /\ Awake' = Awake /\ Moved(t, "r_get")
      BY <1>1, <2>1, TakeSync
    <3> QED BY <3>1
  <2>2. CASE ~(sem[s].value > 0)
    <3>1. SyncInv' /\ OnlySem(s) /\ Awake' = Awake \ {t} /\ Moved(t, "r_avail") /\ sem[s].value = 0
      BY <1>1, <2>2, QueueSync
    <3> QED BY <3>1
  <2> QED BY <2>1, <2>2
<1>3. \A u \in ThreadIds \ {t} : pc'[u] = pc[u]
  BY <1>2 DEF Moved
<1>4. "RLineBlock" \in Lines /\ pc'[t] \in Has("RLineBlock") /\ \A r \in Lines : sem'[r] = sem[r]
  BY <1>2 DEF Moved, Lines, Has, OnlySem, Semaphores
<1>5. \A r \in Lines : Line(r)'
  BY <1>2, <1>3, <1>4, BothLinesKept
<1>6. Display'
  <2>1. sem'["synchWriteAvail"] = sem["synchWriteAvail"]
    BY <1>2 DEF OnlySem, Semaphores
  <2>2. \A u \in ThreadIds : pc'[u] = "w_avail" <=> pc[u] = "w_avail"
    BY <1>3, <1>4 DEF Has
  <2> QED BY <2>1, <2>2, DisplayKept DEF ConsoleInv
<1> QED BY <1>2, <1>5, <1>6

\* A Read waits for a character, at the head of its loop or woken.
LEMMA AskCharInv ==
  ASSUME ConsoleInv, NEW t \in ThreadIds, current = t, pc[t] \in {"r_next", "r_avail"},
         TryP(t, "synchReadAvail", "r_get", "r_avail"), loop[t] < numBytes[t],
         UNCHANGED <<machine, devVars, numBytes, loop, line>>
  PROVE  ConsoleInv'
<1>1. pc[t] \in Has("RLineBlock") /\ pc[t] \notin Has("WLineBlock")
  BY DEF Has
<1>2. /\ putBusy' = putBusy /\ shown' = shown /\ incoming' = incoming /\ typed' = typed
      /\ machine' = machine /\ numBytes' = numBytes /\ loop' = loop /\ line' = line
  BY DEF devVars
<1>3. /\ SyncInv' /\ OnlySem("synchReadAvail") /\ Display'
      /\ \A r \in Lines : Line(r)'
      /\ \/ Moved(t, "r_get")
         \/ Moved(t, "r_avail") /\ sem["synchReadAvail"].value = 0
  BY <1>1, <1>2, AskCharSync
<1>4. pc'[t] \in {"r_get", "r_avail"} /\ \A u \in ThreadIds \ {t} : pc'[u] = pc[u]
  BY <1>3 DEF Moved
<1>5. DataTypes'
  BY <1>2 DEF ConsoleInv, DataTypes
<1>6. Shows'
  <2>1. pc'[t] \notin Has("WLineBlock")
    BY <1>4 DEF Has
  <2>2. numBytes[t] \in Nat
    BY ConsoleAssumption, SMT DEF ConsoleInv, DataTypes
  <2> QED BY <1>1, <1>2, <1>4, <2>1, <2>2, ShowsKept DEF ConsoleInv
<1>7. Buffer'
  <2>1. ASSUME incoming # Empty PROVE \E u \in ThreadIds : pc'[u] = "r_get"
    <3>1. sem["synchReadAvail"].value # 0 \/ \E u \in ThreadIds : pc[u] = "r_get"
      BY <2>1, SMT DEF ConsoleInv, Buffer
    <3>2. CASE Moved(t, "r_get")
      BY <3>2 DEF Moved
    <3>3. CASE sem["synchReadAvail"].value = 0
      BY <1>4, <3>1, <3>3
    <3> QED BY <1>3, <3>2, <3>3
  <2> QED BY <1>2, <2>1, BufferKept DEF ConsoleInv
<1>8. ASSUME NEW u \in ThreadIds PROVE Got(u)'
  <2>1. Got(u) /\ line'[u] = line[u] /\ (pc[u] = "r_line" => line[u] = <<>>)
    BY <1>2 DEF ConsoleInv, Got
  <2>2. CASE u # t
    BY <1>2, <1>4, <2>1, <2>2, GotKept
  <2>3. CASE u = t
    <3>1. pc[u] \in Has("RLineBlock") /\ pc'[u] \in Has("RLineBlock")
      BY <1>1, <1>4, <2>3 DEF Has
    <3> QED BY <1>2, <2>1, <3>1, GotKept
  <2> QED BY <2>2, <2>3
<1> QED BY <1>3, <1>5, <1>6, <1>7, <1>8 DEF ConsoleInv

\* A reader waits for a character to be available.
LEMMA ReadWaitInv ==
  ASSUME ConsoleInv, NEW t \in ThreadIds,
         ReadAvail(t) \/ (ReadNext(t) /\ numBytes[t] > 0)
  PROVE  ConsoleInv'
<1>1. loop[t] \in Nat /\ numBytes[t] \in Nat /\ Progress(t)
  BY ConsoleAssumption, SMT DEF ConsoleInv, DataTypes, Shows
<1>2. CASE ReadAvail(t)
  BY <1>1, <1>2, AskCharInv DEF ReadAvail, Running, Progress
<1>3. CASE ReadNext(t) /\ numBytes[t] > 0
  BY <1>1, <1>3, AskCharInv DEF ReadNext, Running, Progress
<1> QED BY <1>2, <1>3

\* A Read of no bytes ends.
LEMMA ReadEndInv ==
  ASSUME ConsoleInv, NEW t \in ThreadIds, ReadNext(t), ~(numBytes[t] > 0)
  PROVE  ConsoleInv'
<1> DEFINE s == "RLineBlock"
<1>1. /\ current = t /\ pc[t] = "r_next" /\ V(s) /\ Goto(t, "user") /\ Leaves(t)
      /\ UNCHANGED <<machine, putBusy, shown, incoming, typed, line>>
      /\ s \in Lines /\ pc[t] \in Has(s)
  BY DEF ReadNext, ReadReturn, Running, Lines, Has, devVars
<1>2. /\ SyncInv' /\ OnlySem(s) /\ Moved(t, "user") /\ \A r \in Lines : Line(r)'
      /\ \A u \in ThreadIds : pc'[u] \notin Has(s)
      /\ Display'
  BY <1>1, ReturnSync
<1>3. /\ DataTypes /\ numBytes' \in [ThreadIds -> 0 .. MaxBytes]
      /\ loop' \in [ThreadIds -> 0 .. MaxBytes] /\ numBytes'[t] = 0
      /\ \A u \in ThreadIds \ {t} : numBytes'[u] = numBytes[u] /\ loop'[u] = loop[u]
  BY <1>1, LeavesTypes DEF ConsoleInv
<1>4. DataTypes'
  BY <1>1, <1>3 DEF DataTypes
<1>5. Shows'
  <2>1. pc'[t] = "user" /\ "user" \notin Has("WLineBlock") /\ pc[t] \notin Has("WLineBlock")
    BY <1>1, <1>2 DEF Moved, Has
  <2>2. \A u \in ThreadIds \ {t} : pc'[u] = pc[u]
    BY <1>2 DEF Moved
  <2> QED BY <1>1, <1>3, <2>1, <2>2, ShowsKept, SMT DEF ConsoleInv
<1>6. Buffer'
  <2>1. \A u \in ThreadIds : pc'[u] = "r_get" <=> pc[u] = "r_get"
    BY <1>1, <1>2 DEF Moved
  <2>2. sem'["synchReadAvail"] = sem["synchReadAvail"]
    BY <1>2 DEF OnlySem, Semaphores
  <2> QED BY <1>1, <2>1, <2>2, BufferKept DEF ConsoleInv, Buffer
<1>7. ASSUME NEW u \in ThreadIds PROVE Got(u)'
  <2>1. Got(u) /\ line'[u] = line[u] /\ (pc[u] = "r_line" => line[u] = <<>>)
    BY <1>1 DEF ConsoleInv, Got
  <2>2. pc'[u] \in Has("RLineBlock") \cup {"r_line"} => pc'[u] = pc[u]
    BY <1>2 DEF Moved, Has
  <2> QED BY <1>1, <2>1, <2>2, GotKept
<1> QED BY <1>2, <1>4, <1>5, <1>6, <1>7 DEF ConsoleInv

\* A larger number at the end of an ascending sequence.
LEMMA AppendAscending ==
  ASSUME NEW q \in Seq(Nat), NEW n \in Nat, Ascending(q), \A e \in Elems(q) : e < n
  PROVE  /\ Append(q, n) \in Seq(Nat) /\ Ascending(Append(q, n))
         /\ Elems(Append(q, n)) = Elems(q) \cup {n}
<1> DEFINE a == Append(q, n)
<1>1. /\ DOMAIN a = 1 .. Len(q) + 1 /\ DOMAIN q = 1 .. Len(q) /\ Len(q) \in Nat
      /\ a[Len(q) + 1] = n /\ \A k \in 1 .. Len(q) : a[k] = q[k]
  BY SMT
<1>2. a \in Seq(Nat) /\ Elems(a) = Elems(q) \cup {n}
  BY AppendElems, SMT
<1> HIDE DEF a
<1>3. ASSUME NEW j \in DOMAIN a, NEW k \in DOMAIN a, j < k PROVE a[j] < a[k]
  <2>1. j \in DOMAIN q /\ a[j] = q[j] /\ q[j] \in Elems(q)
    BY <1>1, <1>3, SMT DEF Elems
  <2>2. CASE k = Len(q) + 1
    BY <1>1, <2>1, <2>2
  <2>3. CASE k # Len(q) + 1
    <3>1. k \in DOMAIN q /\ a[k] = q[k]
      BY <1>1, <2>3, SMT
    <3> QED BY <1>3, <2>1, <3>1 DEF Ascending
  <2> QED BY <2>2, <2>3
<1> QED BY <1>2, <1>3 DEF Ascending, a

\* GetChar empties the buffer into what the Read got.
LEMMA GetGot ==
  ASSUME ConsoleInv, NEW t \in ThreadIds, pc[t] = "r_get", typed' = typed, incoming' = Empty,
         line'[t] = IF incoming = Empty THEN line[t] ELSE Append(line[t], incoming),
         pc'[t] # "r_line",
         \A u \in ThreadIds \ {t} : line'[u] = line[u] /\ pc'[u] = pc[u]
  PROVE  \A u \in ThreadIds : Got(u)' /\ line'[u] \in Seq(Nat)
<1> DEFINE n == Len(typed)
<1>1. /\ \A i : Real(i)' = Real(i)
      /\ n \in Nat /\ incoming \in 0 .. n /\ Empty = 0
      /\ \A u \in ThreadIds : line[u] \in Seq(Nat)
      /\ Len(typed') = n
  BY SMT DEF Real, ConsoleInv, DataTypes, Empty
<1>2. \A u \in ThreadIds : pc[u] \in Has("RLineBlock") <=> u = t
  BY OneHolder DEF Lines, Has
<1> HIDE DEF n
<1>3. ASSUME NEW u \in ThreadIds, u # t PROVE Got(u)' /\ line'[u] \in Seq(Nat)
  <2>1. Got(u) /\ line'[u] = line[u] /\ pc'[u] = pc[u] /\ pc[u] \notin Has("RLineBlock")
    BY <1>2, <1>3 DEF ConsoleInv
  <2> QED BY <1>1, <2>1, SMT DEF Got, n
<1>4. Got(t)' /\ line'[t] \in Seq(Nat)
  <2> DEFINE E == Elems(line[t])
  <2>1. /\ Ascending(line[t]) /\ E \subseteq (1 .. n) \ {incoming}
        /\ \A i \in 1 .. n : Real(i) /\ (\E a, b \in E : a < i /\ i < b) => i \in E
        /\ \A i \in 1 .. n : Real(i) /\ (\E a \in E : a < i) => i \in E \cup {incoming}
    BY <1>2 DEF ConsoleInv, Got, n
  <2>2. CASE incoming = Empty
    BY <1>1, <2>1, <2>2 DEF Got, n
  <2>3. CASE incoming # Empty
    <3>1. incoming = n
      BY <2>3 DEF ConsoleInv, Buffer, n
    <3>2. \A e \in E : e \in 1 .. n /\ e < n
      BY <1>1, <2>1, <3>1, SMT
    <3>3. /\ line'[t] \in Seq(Nat) /\ Ascending(line'[t])
          /\ Elems(line'[t]) = E \cup {n}
      BY <1>1, <2>1, <2>3, <3>1, <3>2, AppendAscending, SMT
    <3> HIDE DEF E
    <3>4. E \cup {n} \subseteq (1 .. n) \ {0}
      BY <1>1, <2>3, <3>1, <3>2, SMT
    <3>5. \A i \in 1 .. n : Real(i) /\ (\E a \in E \cup {n} : a < i) => i \in E \cup {n}
      BY <1>1, <2>1, <3>1, <3>2, SMT
    <3> QED BY <1>1, <3>3, <3>4, <3>5 DEF Got, n
  <2> QED BY <2>2, <2>3
<1> QED BY <1>3, <1>4

\* A reader takes the next character, or is done.
LEMMA ReadGetInv ==
  ASSUME ConsoleInv, NEW t \in ThreadIds, ReadGet(t)
  PROVE  ConsoleInv'
<1> DEFINE ch == IF incoming = Empty THEN "EOF" ELSE typed[incoming]
           stored == IF ch = "x" THEN loop[t] + 1 ELSE loop[t]
           ends == ch = "end" \/ stored = numBytes[t]
           s == "RLineBlock"
<1>1. /\ current = t /\ pc[t] = "r_get" /\ incoming' = Empty
      /\ line' = [line EXCEPT ![t] = IF ch = "EOF" THEN @ ELSE Append(@, incoming)]
      /\ IF ends
         THEN V(s) /\ Goto(t, "user") /\ Leaves(t)
         ELSE /\ TryP(t, "synchReadAvail", "r_get", "r_avail")
              /\ loop' = [loop EXCEPT ![t] = stored]
              /\ UNCHANGED numBytes
      /\ machine' = machine /\ putBusy' = putBusy /\ typed' = typed /\ shown' = shown
  BY DEF ReadGet, ReadReturn, Running
<1>2. ch = "EOF" <=> incoming = Empty
  BY DEF ConsoleInv, Buffer, Real
<1>3. /\ DataTypes /\ line \in [ThreadIds -> Seq(Nat)] /\ MaxBytes \in Nat
      /\ loop \in [ThreadIds -> 0 .. MaxBytes] /\ numBytes[t] \in 0 .. MaxBytes
      /\ loop[t] \in Nat /\ loop[t] < numBytes[t]
      /\ s \in Lines /\ pc[t] \in Has(s) /\ pc[t] \notin Has("WLineBlock")
  <2>1. /\ DataTypes /\ line \in [ThreadIds -> Seq(Nat)] /\ MaxBytes \in Nat
        /\ loop \in [ThreadIds -> 0 .. MaxBytes] /\ numBytes[t] \in 0 .. MaxBytes
    BY ConsoleAssumption DEF ConsoleInv, DataTypes
  <2>2. loop[t] \in Nat /\ loop[t] < numBytes[t]
    BY <1>1, <2>1, SMT DEF ConsoleInv, Shows, Progress
  <2>3. s \in Lines /\ pc[t] \in Has(s) /\ pc[t] \notin Has("WLineBlock")
    BY <1>1 DEF Lines, Has
  <2> QED BY <2>1, <2>2, <2>3
<1>4. ~ends => stored \in 0 .. MaxBytes /\ stored < numBytes[t]
  BY <1>3, SMT
<1> HIDE DEF ch, stored, ends
<1>5. /\ line'[t] = IF incoming = Empty THEN line[t] ELSE Append(line[t], incoming)
      /\ \A u \in ThreadIds \ {t} : line'[u] = line[u]
      /\ line' = [u \in ThreadIds |-> line'[u]]
  BY <1>1, <1>2, <1>3
<1>6. ASSUME \A u \in ThreadIds \ {t} : pc'[u] = pc[u], pc'[t] # "r_line",
             loop' \in [ThreadIds -> 0 .. MaxBytes], numBytes' \in [ThreadIds -> 0 .. MaxBytes]
      PROVE  (\A u \in ThreadIds : Got(u)') /\ Buffer' /\ DataTypes'
  <2>1. \A u \in ThreadIds : Got(u)' /\ line'[u] \in Seq(Nat)
    BY <1>1, <1>5, <1>6, GetGot
  <2>2. line' \in [ThreadIds -> Seq(Nat)]
    BY <1>5, <2>1
  <2>3. incoming' \in 0 .. Len(typed')
    BY <1>1, <1>3, SMT DEF DataTypes, Empty
  <2> QED BY <1>1, <1>3, <1>6, <2>1, <2>2, <2>3 DEF DataTypes, Buffer
<1>7. CASE ends
  <2>1. /\ SyncInv' /\ Moved(t, "user") /\ Display' /\ \A r \in Lines : Line(r)'
    BY <1>1, <1>3, <1>7, ReturnSync
  <2>2. /\ numBytes' \in [ThreadIds -> 0 .. MaxBytes]
        /\ loop' \in [ThreadIds -> 0 .. MaxBytes] /\ numBytes'[t] = 0
        /\ \A u \in ThreadIds \ {t} : numBytes'[u] = numBytes[u] /\ loop'[u] = loop[u]
    BY <1>1, <1>3, <1>7, LeavesTypes
  <2>3. pc'[t] = "user" /\ "user" \notin Has("WLineBlock")
        /\ \A u \in ThreadIds \ {t} : pc'[u] = pc[u]
    BY <2>1 DEF Moved, Has
  <2>4. Shows'
    <3>1. Shows /\ shown' = shown /\ pc[t] \notin Has("WLineBlock") /\ numBytes'[t] \in Nat
      BY <1>1, <1>3, <2>2, SMT DEF ConsoleInv
    <3> QED BY <2>2, <2>3, <3>1, ShowsKept
  <2>5. (\A u \in ThreadIds : Got(u)') /\ Buffer' /\ DataTypes'
    BY <1>6, <2>2, <2>3
  <2> QED BY <2>1, <2>4, <2>5 DEF ConsoleInv
<1>8. CASE ~ends
  <2>1. /\ SyncInv' /\ Display' /\ \A r \in Lines : Line(r)'
        /\ Moved(t, "r_get") \/ Moved(t, "r_avail")
    BY <1>1, <1>3, <1>8, AskCharSync
  <2>2. /\ numBytes' = numBytes /\ loop' = [loop EXCEPT ![t] = stored]
        /\ numBytes \in [ThreadIds -> 0 .. MaxBytes]
    BY <1>1, <1>3, <1>8 DEF DataTypes
  <2>3. /\ loop' \in [ThreadIds -> 0 .. MaxBytes] /\ loop'[t] < numBytes'[t]
        /\ \A u \in ThreadIds \ {t} : numBytes'[u] = numBytes[u] /\ loop'[u] = loop[u]
        /\ numBytes'[t] \in Nat
    BY <1>3, <1>4, <1>8, <2>2, SMT
  <2>4. pc'[t] \in {"r_get", "r_avail"} /\ pc'[t] \notin Has("WLineBlock")
        /\ \A u \in ThreadIds \ {t} : pc'[u] = pc[u]
    BY <2>1 DEF Moved, Has
  <2>5. Shows'
    BY <1>1, <1>3, <2>3, <2>4, ShowsKept DEF ConsoleInv
  <2>6. (\A u \in ThreadIds : Got(u)') /\ Buffer' /\ DataTypes'
    BY <1>6, <2>2, <2>3, <2>4
  <2> QED BY <2>1, <2>5, <2>6 DEF ConsoleInv
<1> QED BY <1>7, <1>8

-----------------------------------------------------------------------------
(* The device.                                                             *)

\* A handler calls V() on one of its two semaphores: the lines are as before.
LEMMA HandlerLines ==
  ASSUME ConsoleInv, NEW s \in {"synchReadAvail", "synchWriteAvail"}, V(s), pc' = pc
  PROVE  /\ SyncInv' /\ Awake \subseteq Awake' /\ OnlySem(s)
         /\ \A r \in Lines : Line(r)'
<1>1. SyncInv /\ s \in Semaphores /\ pc' \in [ThreadIds -> Points]
  BY DEF ConsoleInv, SyncInv, Semaphores
<1>2. SyncInv' /\ Awake \subseteq Awake' /\ OnlySem(s)
  BY <1>1, SignalSync
<1>3. ASSUME NEW r \in Lines PROVE Line(r)'
  <2>1. sem'[r] = sem[r] /\ Line(r)
    BY <1>2 DEF OnlySem, Lines, Semaphores, ConsoleInv
  <2> QED BY <1>2, <2>1, LineKept
<1> QED BY <1>2, <1>3

\* The interrupt of the display wakes its writer.
LEMMA WriteDoneInv == ASSUME ConsoleInv, WriteDone PROVE ConsoleInv'
<1> DEFINE s == "synchWriteAvail"
<1>1. /\ putBusy /\ putBusy' = FALSE /\ V(s) /\ s \in Semaphores
      /\ UNCHANGED <<machine, incoming, typed, shown, pc, numBytes, loop, line>>
  BY DEF WriteDone, Semaphores
<1>2. SyncInv' /\ OnlySem(s) /\ \A r \in Lines : Line(r)'
  BY <1>1, HandlerLines
<1>3. PICK t \in ThreadIds : pc[t] = "w_avail" /\ sem[s].queue = <<t>> /\ sem[s].value = 0
  BY <1>1 DEF ConsoleInv, Display
<1>4. sem'[s].value = 1 /\ sem'[s].queue = <<>>
  <2>1. SyncInv /\ pc' \in [ThreadIds -> Points] /\ \A u \in ThreadIds \ Awake : pc'[u] = pc[u]
    BY <1>1 DEF ConsoleInv, SyncInv
  <2>2. sem[s].queue # <<>> /\ Tail(sem[s].queue) = <<>>
    BY <1>3, SMT
  <2>3. /\ sem'[s].value = sem[s].value + 1
        /\ sem[s].queue # <<>> => sem'[s].queue = Tail(sem[s].queue)
    <3>1. V(s) /\ s \in Semaphores
      BY <1>1
    <3> HIDE DEF s
    <3> QED BY <2>1, <3>1, SignalSync
  <2> QED BY <1>3, <2>2, <2>3, SMT
<1>5. Display'
  BY <1>1, <1>3, <1>4 DEF Display
<1>6. DataTypes'
  BY <1>1 DEF ConsoleInv, DataTypes
<1>7. Shows'
  BY <1>1 DEF ConsoleInv, Shows, Progress
<1>8. Buffer'
  <2>1. sem'["synchReadAvail"] = sem["synchReadAvail"]
    BY <1>2 DEF OnlySem, Semaphores
  <2> QED BY <1>1, <2>1, BufferKept DEF ConsoleInv, Buffer
<1>9. \A u \in ThreadIds : Got(u)'
  BY <1>1 DEF ConsoleInv, Got, Real
<1> QED BY <1>2, <1>5, <1>6, <1>7, <1>8, <1>9 DEF ConsoleInv

\* A character is typed while the buffer is empty: every Read has got all
\* that came before it.
LEMMA TypedGot ==
  ASSUME ConsoleInv, NEW c \in Chars, incoming = Empty, typed' = Append(typed, c),
         incoming' = IF c = "EOF" THEN Empty ELSE Len(typed'), UNCHANGED <<pc, line>>
  PROVE  \A u \in ThreadIds : Got(u)'
<1> DEFINE n == Len(typed)
<1>1. /\ n \in Nat /\ Len(typed') = n + 1 /\ typed'[n + 1] = c
      /\ \A i \in 1 .. n : typed'[i] = typed[i]
      /\ incoming' \in {0, n + 1} /\ (c # "EOF" => incoming' = n + 1) /\ incoming = 0
  BY SMT DEF ConsoleInv, DataTypes, Empty
<1>2. ASSUME NEW u \in ThreadIds PROVE Got(u)'
  <2> DEFINE E == Elems(line[u])
  <2>1. /\ Ascending(line[u]) /\ E \subseteq (1 .. n) \ {incoming}
        /\ \A i \in 1 .. n : Real(i) /\ (\E a, b \in E : a < i /\ i < b) => i \in E
        /\ pc[u] \in Has("RLineBlock") =>
             \A i \in 1 .. n : Real(i) /\ (\E a \in E : a < i) => i \in E \cup {incoming}
        /\ pc[u] = "r_line" => line[u] = <<>>
    BY DEF ConsoleInv, Got
  <2> HIDE DEF n, E
  <2>2. \A i \in 1 .. n : Real(i)' <=> Real(i)
    BY <1>1 DEF Real
  <2>3. E \subseteq (1 .. n + 1) \ {incoming'}
    BY <1>1, <2>1, SMT
  <2>4. \A i \in 1 .. n + 1 : Real(i)' /\ (\E a, b \in E : a < i /\ i < b) => i \in E
    <3>1. ASSUME NEW i \in 1 .. n + 1, NEW b \in E, i < b PROVE i \in 1 .. n
      BY <1>1, <2>1, <3>1, SMT
    <3> QED BY <2>1, <2>2, <3>1
  <2>5. ASSUME pc[u] \in Has("RLineBlock"), NEW i \in 1 .. n + 1, Real(i)', NEW a \in E, a < i
        PROVE  i \in E \cup {incoming'}
    <3>1. CASE i = n + 1
      <4>1. typed'[i] = c
        BY <1>1, <3>1
      <4> QED BY <1>1, <2>5, <3>1, <4>1 DEF Real
    <3>2. CASE i # n + 1
      <4>1. i \in 1 .. n /\ i # incoming
        BY <1>1, <3>2, SMT
      <4> QED BY <2>1, <2>2, <2>5, <4>1
    <3> QED BY <3>1, <3>2
  <2>6. Len(typed') = n + 1 /\ line'[u] = line[u] /\ pc'[u] = pc[u]
    BY <1>1
  <2> QED BY <2>1, <2>3, <2>4, <2>5, <2>6 DEF Got, E
<1> QED BY <1>2

\* The interrupt of the keyboard wakes a reader.
LEMMA CheckCharInv ==
  ASSUME ConsoleInv, NEW c \in Chars, CheckCharAvail(c)
  PROVE  ConsoleInv'
<1> DEFINE s == "synchReadAvail"
<1>1. /\ incoming = Empty /\ typed' = Append(typed, c) /\ V(s) /\ s \in Semaphores
      /\ incoming' = IF c = "EOF" THEN Empty ELSE Len(typed')
      /\ UNCHANGED <<machine, putBusy, shown, pc, numBytes, loop, line>>
  BY DEF CheckCharAvail, Semaphores
<1>2. SyncInv' /\ OnlySem(s) /\ \A r \in Lines : Line(r)'
  BY <1>1, HandlerLines
<1>3. sem'[s].value > 0
  <2>1. SyncInv /\ pc' \in [ThreadIds -> Points] /\ \A u \in ThreadIds \ Awake : pc'[u] = pc[u]
    BY <1>1 DEF ConsoleInv, SyncInv
  <2>2. sem[s].value \in Nat /\ sem'[s].value = sem[s].value + 1
    BY <1>1, <2>1, SignalSync
  <2> QED BY <2>2, SMT
<1>4. /\ typed \in Seq(Chars) /\ typed' \in Seq(Chars)
      /\ Len(typed') = Len(typed) + 1 /\ typed'[Len(typed) + 1] = c /\ Len(typed) \in Nat
  BY <1>1, SMT DEF ConsoleInv, DataTypes
<1>5. DataTypes'
  <2>1. incoming' \in 0 .. Len(typed')
    BY <1>1, <1>4, SMT DEF Empty
  <2> QED BY <1>1, <1>4, <2>1 DEF ConsoleInv, DataTypes
<1>6. Display'
  <2>1. sem'["synchWriteAvail"] = sem["synchWriteAvail"]
    BY <1>2 DEF OnlySem, Semaphores
  <2> QED BY <1>1, <2>1, DisplayKept DEF ConsoleInv
<1>7. Shows'
  BY <1>1 DEF ConsoleInv, Shows, Progress
<1>8. Buffer'
  BY <1>1, <1>3, <1>4 DEF Buffer, Real
<1>9. \A u \in ThreadIds : Got(u)'
  BY <1>1, TypedGot
<1> QED BY <1>2, <1>5, <1>6, <1>7, <1>8, <1>9 DEF ConsoleInv

\* The CPU goes to another thread, or idles; the file of the keyboard ends.
LEMMA CpuInv ==
  ASSUME ConsoleInv, UNCHANGED <<sem, devVars, pc, numBytes, loop, line>>,
         machine' \in {"run", "closed"}, Dispatch \/ Yield \/ UNCHANGED schedVars
  PROVE  ConsoleInv'
<1>1. SyncInv' /\ Awake' = Awake
  <2>1. CASE UNCHANGED schedVars
    BY <2>1 DEF ConsoleInv, SyncInv, Placed, PlacedIn, Awake, AwakeIn, Queued, schedVars
  <2>2. CASE Dispatch \/ Yield
    BY <2>2, SwitchSync DEF ConsoleInv
  <2> QED BY <2>1, <2>2
<1>2. \A s \in Lines : Line(s)'
  BY <1>1, LineKept DEF ConsoleInv
<1>3. DataTypes' /\ Display'
  BY DisplayKept DEF ConsoleInv, DataTypes, devVars
<1>4. Shows'
  BY DEF ConsoleInv, Shows, Progress, devVars
<1>5. Buffer'
  <2>1. incoming # Empty =>
          sem["synchReadAvail"].value > 0 \/ \E t \in ThreadIds : pc[t] = "r_get"
    BY DEF ConsoleInv, Buffer
  <2> QED BY <2>1, BufferKept DEF ConsoleInv, devVars
<1>6. \A u \in ThreadIds : Got(u)'
  BY DEF ConsoleInv, Got, Real, devVars
<1> QED BY <1>1, <1>2, <1>3, <1>4, <1>5, <1>6 DEF ConsoleInv

-----------------------------------------------------------------------------
(* The theorems.                                                           *)

INSTANCE FiniteSetTheorems

\* Before the first call nobody waits and nothing is shown.
LEMMA InitInv == Init => ConsoleInv
<1> SUFFICES ASSUME Init PROVE ConsoleInv
  OBVIOUS
<1>1. /\ Elems(<<>>) = {} /\ Distinct(<<>>) /\ <<>> \in Seq(ThreadIds) /\ Len(<<>>) = 0
      /\ DOMAIN <<>> = {}
  BY SMT DEF Elems, Distinct
<1>2. /\ pc \in [ThreadIds -> Points] /\ \A t \in ThreadIds : pc[t] = "user"
      /\ "user" \notin InP \cup {"w_next", "r_next", "r_get"}
  BY DEF Init, Points, InP
<1>3. /\ sem \in [Semaphores -> Sems] /\ \A s \in Semaphores : sem[s].queue = <<>>
      /\ \A s \in Lines : sem[s].value = 1
      /\ sem["synchWriteAvail"].value = 0
  <2>1. \A n \in Nat : Semaphore(n) \in Sems /\ Semaphore(n).queue = <<>> /\ Semaphore(n).value = n
    BY <1>1 DEF Semaphore, Sems, SemsOf
  <2> QED BY <2>1 DEF Init, Semaphores, Lines
<1>4. Placed
  <2> DEFINE n == Cardinality(ThreadIds)
  <2>1. n \in Nat
    BY ConsoleAssumption, FS_CardinalityType
  <2>2. /\ ready \in [1 .. n -> ThreadIds] /\ current = NoThread
        /\ \A i, j \in DOMAIN ready : ready[i] = ready[j] => i = j
    BY DEF Init
  <2> HIDE DEF n
  <2>3. ready \in Seq(ThreadIds)
    BY <2>1, <2>2, SMT
  <2> QED BY <2>2, <2>3, ConsoleAssumption DEF Placed, PlacedIn, Distinct, Elems
<1>5. SyncInv
  BY <1>1, <1>2, <1>3, <1>4 DEF SyncInv, Queued
<1>6. DataTypes
  <2>1. 0 \in 0 .. MaxBytes /\ <<>> \in Seq(Chars) /\ <<>> \in Seq(Nat)
    BY ConsoleAssumption, SMT
  <2>2. typed \in Seq(Chars) /\ incoming \in 0 .. Len(typed)
    BY <1>1, <2>1, SMT DEF Init, Empty
  <2>3. shown \in [by : ThreadIds \cup {NoThread}, i : 0 .. MaxBytes, n : 0 .. MaxBytes]
    BY <2>1 DEF Init
  <2>4. /\ numBytes \in [ThreadIds -> 0 .. MaxBytes] /\ loop \in [ThreadIds -> 0 .. MaxBytes]
        /\ line \in [ThreadIds -> Seq(Nat)]
    BY <2>1 DEF Init
  <2> QED BY <2>2, <2>3, <2>4 DEF Init, DataTypes
<1>7. \A s \in Lines : Line(s)
  BY <1>2, <1>3 DEF Line, Lines, Has, Semaphores, InP
<1>8. Display
  BY <1>2, <1>3 DEF Init, Display, Semaphores
<1>9. Shows /\ Buffer
  BY <1>2 DEF Init, Shows, Progress, Buffer, Has, InP
<1>10. \A t \in ThreadIds : Got(t)
  <2> TAKE t \in ThreadIds
  <2>1. line[t] = <<>> /\ Len(typed) = 0 /\ pc[t] \notin Has("RLineBlock")
    BY <1>1, <1>2 DEF Init, Has, InP
  <2>2. Elems(line[t]) = {} /\ DOMAIN line[t] = {} /\ 1 .. Len(typed) = {}
    BY <1>1, <2>1, SMT
  <2> QED BY <2>1, <2>2 DEF Got, Ascending
<1> QED BY <1>5, <1>6, <1>7, <1>8, <1>9, <1>10 DEF ConsoleInv

\* Every step keeps the invariant, and displays the next character or none.
LEMMA NextInv ==
  ASSUME ConsoleInv, [Next]_vars
  PROVE  ConsoleInv' /\ NextCharacter
<1>1. ASSUME NEW t \in ThreadIds, NEW n \in 0 .. MaxBytes, Write(t, n) \/ Read(t, n)
      PROVE  ConsoleInv' /\ NextCharacter
  BY <1>1, CallInv DEF Write, Read, devVars, NextCharacter
<1>2. ASSUME NEW t \in ThreadIds, Step(t)
      PROVE  ConsoleInv' /\ NextCharacter
  <2>1. CASE WriteLine(t) \/ ReadLine(t)
    BY <2>1, LineInv DEF WriteLine, ReadLine, devVars, NextCharacter
  <2>2. CASE WriteNext(t) /\ loop[t] < numBytes[t]
    BY <2>2, PutInv
  <2>3. CASE WriteNext(t) /\ ~(loop[t] < numBytes[t])
    BY <2>3, WriteEndInv DEF WriteNext, NextCharacter
  <2>4. CASE WriteAvail(t)
    BY <2>4, WriteAvailInv DEF WriteAvail, devVars, NextCharacter
  <2>5. CASE ReadNext(t) /\ numBytes[t] > 0
    BY <2>5, ReadWaitInv DEF ReadNext, devVars, NextCharacter
  <2>6. CASE ReadNext(t) /\ ~(numBytes[t] > 0)
    BY <2>6, ReadEndInv DEF ReadNext, devVars, NextCharacter
  <2>7. CASE ReadAvail(t)
    BY <2>7, ReadWaitInv DEF ReadAvail, devVars, NextCharacter
  <2>8. CASE ReadGet(t)
    BY <2>8, ReadGetInv DEF ReadGet, NextCharacter
  <2> QED BY <1>2, <2>1, <2>2, <2>3, <2>4, <2>5, <2>6, <2>7, <2>8, SMT DEF Step
<1>3. CASE WriteDone
  BY <1>3, WriteDoneInv DEF WriteDone, NextCharacter
<1>4. ASSUME NEW c \in Chars, CheckCharAvail(c) PROVE ConsoleInv' /\ NextCharacter
  BY <1>4, CheckCharInv DEF CheckCharAvail, NextCharacter
<1>5. CASE InputCloses
  BY <1>5, CpuInv DEF InputCloses, devVars, NextCharacter
<1>6. CASE Switch \/ Preempt
  BY <1>6, CpuInv DEF Switch, Preempt, InterruptsOn, TimerYield, devVars, NextCharacter
<1>7. CASE UNCHANGED vars
  BY <1>7, CpuInv DEF ConsoleInv, DataTypes, vars, devVars, schedVars, NextCharacter
<1> QED BY <1>1, <1>2, <1>3, <1>4, <1>5, <1>6, <1>7, SMT DEF Next, Quiet

\* The invariant holds in every reachable state.
THEOREM ConsoleInvHolds == Spec => []ConsoleInv
<1>1. ConsoleInv /\ [Next]_vars => ConsoleInv'
  BY NextInv
<1> QED BY InitInv, <1>1, PTL DEF Spec

\* What one Read got is an unbroken piece of what was typed: RLineBlock keeps
\* other Reads out until it returns, and the device types nothing over a
\* character that is still in its buffer.
THEOREM ReadsAreWhole == Spec => []ReadsWhole
<1>1. ConsoleInv => ReadsWhole
  <2> SUFFICES ASSUME ConsoleInv PROVE ReadsWhole
    OBVIOUS
  <2>1. TypeOK
    BY SMTT(30) DEF ConsoleInv, SyncInv, DataTypes, TypeOK, Placed, PlacedIn, Sems, SemsOf, Points
  <2>2. ASSUME NEW t \in ThreadIds
        PROVE  LET got == {line[t][k] : k \in DOMAIN line[t]}
               IN  /\ \A k \in 1 .. Len(line[t]) - 1 : line[t][k] < line[t][k + 1]
                   /\ \A i \in 1 .. Len(typed) :
                        Real(i) /\ (\E a, b \in got : a < i /\ i < b) => i \in got
    <3>1. {line[t][k] : k \in DOMAIN line[t]} = Elems(line[t])
      BY DEF Elems
    <3>2. line[t] \in Seq(Nat) /\ Got(t)
      BY DEF ConsoleInv, DataTypes
    <3>3. \A k \in 1 .. Len(line[t]) - 1 :
            k \in DOMAIN line[t] /\ k + 1 \in DOMAIN line[t] /\ k < k + 1
      BY <3>2, SMT
    <3>4. \A k \in 1 .. Len(line[t]) - 1 : line[t][k] < line[t][k + 1]
      BY <3>2, <3>3 DEF Got, Ascending
    <3> QED BY <3>1, <3>2, <3>4 DEF Got
  <2> QED BY <2>1, <2>2 DEF ReadsWhole
<1> QED BY ConsoleInvHolds, <1>1, PTL

\* No thread sleeps for the display while it is free, for a line while nobody
\* has it, or for a character while one is in the device's buffer.
THEOREM NobodyWaitsIdly == Spec => []NoIdleWait
<1>1. ConsoleInv => NoIdleWait
  <2> SUFFICES ASSUME ConsoleInv PROVE NoIdleWait
    OBVIOUS
  <2>1. incoming # Empty =>
          sem["synchReadAvail"].value > 0 \/ \E t \in ThreadIds : pc[t] = "r_get"
    BY DEF ConsoleInv, Buffer
  <2>2. sem["synchWriteAvail"].queue # <<>> => putBusy
    BY DEF ConsoleInv, Display
  <2>3. ASSUME NEW s \in Lines, sem[s].queue # <<>>
        PROVE  Woken(WaitsAt(s)) # {} \/ \E t \in ThreadIds : pc[t] \in Has(s)
    BY <2>3 DEF ConsoleInv, Line, Woken, Awake, AwakeIn, Elems
  <2>4. /\ "WLineBlock" \in Lines /\ WaitsAt("WLineBlock") = "w_line"
        /\ "RLineBlock" \in Lines /\ WaitsAt("RLineBlock") = "r_line"
        /\ Has("WLineBlock") = {"w_next", "w_avail"}
        /\ Has("RLineBlock") = {"r_next", "r_avail", "r_get"}
    BY DEF Lines, WaitsAt, Has
  <2> QED BY <2>1, <2>2, <2>3, <2>4 DEF NoIdleWait
<1> QED BY ConsoleInvHolds, <1>1, PTL

\* What one Write displays is not mixed with what another displays, and the
\* assertion of Console::PutChar holds: the thread that has WLineBlock waits
\* for the interrupt of one character before it puts the next.
THEOREM WritesAreWhole == Spec => WritesWhole
<1>1. ConsoleInv /\ [Next]_vars => [NextCharacter /\ machine' # "assert"]_vars
  BY NextInv DEF ConsoleInv, DataTypes
<1> QED BY ConsoleInvHolds, <1>1, PTL DEF Spec, WritesWhole
=============================================================================
