---------------------------- MODULE SchedulerFacts ----------------------------
(***************************************************************************)
(* What the CPU, the ready list and a semaphore of module Scheduler do,    *)
(* for any set T of threads: the facts that the proofs about the           *)
(* components above the scheduler share.                                   *)
(***************************************************************************)
EXTENDS Scheduler, TLAPS

-----------------------------------------------------------------------------
(* Lists without repetitions.                                              *)

Elems(s) == {s[k] : k \in DOMAIN s}

Distinct(s) == \A j, k \in DOMAIN s : s[j] = s[k] => j = k

\* A new element at the end of a list.
LEMMA AppendElems ==
  ASSUME NEW S, NEW s \in Seq(S), NEW x \in S
  PROVE  /\ Append(s, x) \in Seq(S)
         /\ Append(s, x) # <<>>
         /\ Elems(Append(s, x)) = Elems(s) \cup {x}
         /\ Distinct(s) /\ x \notin Elems(s) => Distinct(Append(s, x))
<1> DEFINE a == Append(s, x)
<1>1. /\ a \in Seq(S) /\ Len(a) = Len(s) + 1 /\ DOMAIN a = 1 .. Len(s) + 1
      /\ DOMAIN s = 1 .. Len(s) /\ Len(s) \in Nat
      /\ a[Len(s) + 1] = x
      /\ \A k \in 1 .. Len(s) : a[k] = s[k]
  OBVIOUS
<1> HIDE DEF a
<1>2. a # <<>>
  BY <1>1
<1>3. Elems(a) = Elems(s) \cup {x}
  BY <1>1 DEF Elems
<1>4. Distinct(s) /\ x \notin Elems(s) => Distinct(a)
  BY <1>1 DEF Elems, Distinct
<1> QED BY <1>1, <1>2, <1>3, <1>4 DEF a

\* The first element of a list leaves it.
LEMMA TailElems ==
  ASSUME NEW S, NEW s \in Seq(S), s # <<>>
  PROVE  /\ Head(s) \in S /\ Tail(s) \in Seq(S)
         /\ Head(s) \in Elems(s)
         /\ Elems(s) = Elems(Tail(s)) \cup {Head(s)}
         /\ Distinct(s) => Distinct(Tail(s)) /\ Head(s) \notin Elems(Tail(s))
<1> DEFINE t == Tail(s)
<1>1. /\ t \in Seq(S) /\ Len(t) = Len(s) - 1 /\ DOMAIN t = 1 .. Len(s) - 1
      /\ DOMAIN s = 1 .. Len(s) /\ Len(s) \in Nat /\ Len(s) > 0
      /\ Head(s) = s[1] /\ s[1] \in S
      /\ \A k \in 1 .. Len(s) - 1 : t[k] = s[k + 1]
  OBVIOUS
<1> HIDE DEF t
<1>2. \A k \in 1 .. Len(s) : k = 1 \/ (k - 1 \in 1 .. Len(s) - 1 /\ t[k - 1] = s[k])
  BY <1>1
<1>3. Head(s) \in Elems(s)
  BY <1>1 DEF Elems
<1>4. Elems(s) = Elems(t) \cup {Head(s)}
  <2>1. ASSUME NEW k \in DOMAIN s PROVE s[k] \in Elems(t) \cup {Head(s)}
    BY <1>1, <1>2 DEF Elems
  <2>2. ASSUME NEW k \in DOMAIN t PROVE t[k] \in Elems(s)
    <3>1. k + 1 \in DOMAIN s /\ t[k] = s[k + 1]
      BY <1>1
    <3> QED BY <3>1 DEF Elems
  <2> QED BY <1>3, <2>1, <2>2 DEF Elems
<1>5. ASSUME Distinct(s) PROVE Distinct(t) /\ Head(s) \notin Elems(t)
  <2>1. \A k \in DOMAIN t : k + 1 \in DOMAIN s /\ k + 1 # 1 /\ t[k] = s[k + 1]
    BY <1>1
  <2>2. ASSUME NEW j \in DOMAIN t, NEW k \in DOMAIN t, t[j] = t[k] PROVE j = k
    <3>1. j + 1 = k + 1
      BY <1>5, <2>1, <2>2 DEF Distinct
    <3> QED BY <1>1, <3>1
  <2>3. ASSUME NEW k \in DOMAIN t PROVE t[k] # Head(s)
    BY <1>1, <1>5, <2>1 DEF Distinct
  <2> QED BY <2>2, <2>3 DEF Distinct, Elems
<1> QED BY <1>1, <1>3, <1>4, <1>5 DEF t

-----------------------------------------------------------------------------
(* The CPU and the ready list.                                             *)

PlacedIn(T) ==
  /\ current \in T \cup {NoThread}
  /\ ready \in Seq(T)
  /\ Distinct(ready)
  /\ current \notin Elems(ready)

\* The threads that have the CPU or are ready for it.
AwakeIn(T) == Elems(ready) \cup ({current} \cap T)

\* A thread that goes to sleep gives the CPU to the first ready thread.
LEMMA SleepIn ==
  ASSUME NEW T, NoThread \notin T, PlacedIn(T), current \in T, Sleep
  PROVE  PlacedIn(T)' /\ AwakeIn(T)' = AwakeIn(T) \ {current}
<1>1. NoThread \notin T /\ Elems(<<>>) = {}
  BY DEF Elems
<1>2. CASE ready = <<>>
  BY <1>1, <1>2 DEF Sleep, PlacedIn, AwakeIn
<1>3. CASE ready # <<>>
  <2>1. current' = Head(ready) /\ ready' = Tail(ready)
    BY <1>3 DEF Sleep
  <2> QED BY <1>3, <2>1, TailElems DEF PlacedIn, AwakeIn
<1> QED BY <1>2, <1>3

\* A thread that yields stays awake.
LEMMA YieldIn ==
  ASSUME NEW T, NoThread \notin T, PlacedIn(T), Yield
  PROVE  PlacedIn(T)' /\ AwakeIn(T)' = AwakeIn(T)
<1> DEFINE r == Tail(ready)
<1>1. current \in T /\ ready # <<>> /\ current' = Head(ready)
      /\ ready' = Append(r, current)
  BY DEF Yield, PlacedIn
<1>2. /\ Head(ready) \in T /\ r \in Seq(T)
      /\ Elems(ready) = Elems(r) \cup {Head(ready)}
      /\ Distinct(r) /\ Head(ready) \notin Elems(r)
  BY <1>1, TailElems DEF PlacedIn
<1> HIDE DEF r
<1>3. current \notin Elems(r)
  BY <1>2 DEF PlacedIn
<1>4. /\ Append(r, current) \in Seq(T)
      /\ Elems(Append(r, current)) = Elems(r) \cup {current}
      /\ Distinct(Append(r, current))
  BY <1>1, <1>2, <1>3, AppendElems
<1> QED BY <1>1, <1>2, <1>4 DEF PlacedIn, AwakeIn

\* The idle loop gives the CPU to a thread that is ready.
LEMMA DispatchIn ==
  ASSUME NEW T, NoThread \notin T, PlacedIn(T), Dispatch
  PROVE  PlacedIn(T)' /\ AwakeIn(T)' = AwakeIn(T)
<1>1. current = NoThread /\ NoThread \notin T /\ ready # <<>>
      /\ current' = Head(ready) /\ ready' = Tail(ready)
  BY DEF Dispatch
<1> QED BY <1>1, TailElems DEF PlacedIn, AwakeIn

\* A thread goes on, and may have woken another one.
LEMMA ContinueIn ==
  ASSUME NEW T, NoThread \notin T, PlacedIn(T)
  PROVE  /\ Continue(<<>>) => PlacedIn(T)' /\ AwakeIn(T)' = AwakeIn(T)
         /\ \A t \in T \ AwakeIn(T) :
              Continue(<<t>>) => PlacedIn(T)' /\ AwakeIn(T)' = AwakeIn(T) \cup {t}
<1>1. ready \o <<>> = ready
  BY DEF PlacedIn
<1>2. ASSUME NEW t \in T \ AwakeIn(T), Continue(<<t>>)
      PROVE  PlacedIn(T)' /\ AwakeIn(T)' = AwakeIn(T) \cup {t}
  <2>1. ready \o <<t>> = Append(ready, t)
    BY DEF PlacedIn
  <2>2. current' = current /\ ready' = Append(ready, t)
    BY <1>2, <2>1 DEF Continue, ReadyToRun
  <2> QED BY <2>2, AppendElems DEF PlacedIn, AwakeIn
<1>3. ASSUME Continue(<<>>) PROVE PlacedIn(T)' /\ AwakeIn(T)' = AwakeIn(T)
  BY <1>1, <1>3 DEF Continue, ReadyToRun, PlacedIn, AwakeIn
<1> QED BY <1>2, <1>3

-----------------------------------------------------------------------------
(* Semaphores, and counting the threads that one of them has woken.        *)

SemsOf(T) == [value : Nat, queue : Seq(T)]

\* P() that finds a permit takes it and leaves the queue alone.
LEMMA TakeSem ==
  ASSUME NEW T, NEW s \in SemsOf(T), s.value > 0
  PROVE  /\ PTake(s) \in SemsOf(T)
         /\ PTake(s).value = s.value - 1 /\ PTake(s).queue = s.queue
<1>1. PTake(s) = [value |-> s.value - 1, queue |-> s.queue]
  BY DEF PTake, SemsOf
<1>2. s.value - 1 \in Nat /\ s.queue \in Seq(T)
  BY DEF SemsOf
<1> QED BY <1>1, <1>2 DEF SemsOf

\* P() that finds none queues the thread.
LEMMA QueueSem ==
  ASSUME NEW T, NEW s \in SemsOf(T), NEW t \in T
  PROVE  /\ PQueue(s, t) \in SemsOf(T)
         /\ PQueue(s, t).value = s.value /\ PQueue(s, t).queue = Append(s.queue, t)
<1> DEFINE q == Append(s.queue, t)
<1>1. s.value \in Nat /\ s.queue \in Seq(T)
  BY DEF SemsOf
<1>2. q \in Seq(T)
  BY <1>1, AppendElems
<1>3. PQueue(s, t) = [s EXCEPT !.queue = q]
  BY DEF PQueue
<1> HIDE DEF q
<1>4. PQueue(s, t) = [value |-> s.value, queue |-> q]
  BY <1>3 DEF SemsOf
<1> QED BY <1>1, <1>2, <1>4 DEF SemsOf, q

\* V() gives a permit and wakes the first waiter, if there is one.
LEMMA SignalSem ==
  ASSUME NEW T, NEW s \in SemsOf(T)
  PROVE  /\ VSignal(s) \in SemsOf(T)
         /\ VSignal(s).value = s.value + 1
         /\ s.queue = <<>> => VSignal(s).queue = <<>> /\ VWoken(s) = <<>>
         /\ s.queue # <<>> => /\ VSignal(s).queue = Tail(s.queue)
                              /\ VWoken(s) = <<Head(s.queue)>>
<1>1. s.value \in Nat /\ s.queue \in Seq(T) /\ s.value + 1 \in Nat /\ <<>> \in Seq(T)
  BY DEF SemsOf
<1>2. s.queue # <<>> => Tail(s.queue) \in Seq(T)
  BY <1>1, TailElems
<1> QED BY <1>1, <1>2 DEF VSignal, VWoken, SemsOf
=============================================================================
