---------------------------- MODULE SemTableProofs ----------------------------
(***************************************************************************)
(* Named semaphores keep their promises for any number of threads, names,  *)
(* slots and values, with and without a timer: a name stands for one       *)
(* semaphore, a lock has one holder, and no Signal is lost.                *)
(***************************************************************************)
EXTENDS SemTable, SchedulerFacts, FiniteSetTheorems, WellFoundedInduction

-----------------------------------------------------------------------------
(* The CPU and the ready list.                                             *)

Placed == PlacedIn(ThreadIds)
Awake == AwakeIn(ThreadIds)

\* A thread that goes to sleep gives the CPU to the first ready thread.
LEMMA SleepPlaces ==
  ASSUME Placed, current \in ThreadIds, Sleep
  PROVE  Placed' /\ Awake' = Awake \ {current}
BY SleepIn, SemTableAssumption DEF Placed, Awake

\* A thread that yields, or that the idle loop finds ready, stays awake.
LEMMA YieldPlaces ==
  ASSUME Placed, Yield \/ Dispatch
  PROVE  Placed' /\ Awake' = Awake
BY YieldIn, DispatchIn, SemTableAssumption DEF Placed, Awake

\* A thread goes on, and may have woken another one.
LEMMA ContinuePlaces ==
  ASSUME Placed
  PROVE  /\ Continue(<<>>) => Placed' /\ Awake' = Awake
         /\ \A t \in ThreadIds \ Awake :
              Continue(<<t>>) => Placed' /\ Awake' = Awake \cup {t}
BY ContinueIn, SemTableAssumption DEF Placed, Awake

-----------------------------------------------------------------------------
(* The inductive invariant.                                                *)

\* Who holds a lock: nobody while its value is 1, one thread while it is 0.
LockState(i) ==
  \/ sem[i].value = 1 /\ \A t \in ThreadIds : i \notin held[t]
  \/ /\ sem[i].value = 0
     /\ \E t \in ThreadIds : \A u \in ThreadIds : i \in held[u] <=> u = t

LockInv ==
  /\ \A t \in ThreadIds : held[t] \subseteq LockSlots
  /\ \A i \in LockSlots : LockState(i)

\* A thread in a queue sleeps in Wait on that semaphore, and is there once.
QueueState(i) ==
  /\ Distinct(sem[i].queue)
  /\ \A t \in Elems(sem[i].queue) : pc[t] = "wait" /\ arg[t] = i /\ t \notin Awake

QueueInv ==
  /\ \A i \in Slots : QueueState(i)
  /\ \A t \in ThreadIds : pc[t] = "wait" => arg[t] \in Slots

SemInv == OneSemaphorePerName /\ Placed /\ LockInv /\ QueueInv /\ NoLostSignal

Sems == [value : Nat, queue : Seq(ThreadIds)]

\* What TypeOK says of the variables.
LEMMA SemTypes ==
  ASSUME SemInv
  PROVE  /\ bm \subseteq Slots
         /\ lockTab \in [Slots -> Names \cup {Null}]
         /\ sem \in [Slots -> Sems]
         /\ pc \in [ThreadIds -> {"user", "wait", "gone"}]
         /\ arg \in [ThreadIds -> Slots \cup {Null}]
         /\ held \in [ThreadIds -> SUBSET Slots]
BY DEF SemInv, OneSemaphorePerName, TypeOK, Sems

\* A set of slots that is not empty has a first one.
LEMMA FirstIn == ASSUME NEW S \in SUBSET Slots, S # {} PROVE First(S) \in S
<1>1. S \subseteq Nat
  BY SemTableAssumption DEF Slots
<1>2. \E i \in S : \A j \in S : ~(<<j, i>> \in OpToRel(<, Nat))
  BY <1>1, WFMin, NatLessThanWellFounded
<1>3. \A i, j \in S : ~(<<j, i>> \in OpToRel(<, Nat)) => i <= j
  BY <1>1 DEF OpToRel
<1> QED BY <1>2, <1>3 DEF First

\* The woken threads are those awake in Wait; they are finitely many.
LEMMA WokenAwake ==
  ASSUME NEW i \in Slots, Placed
  PROVE  /\ Woken(i) = {t \in ThreadIds : pc[t] = "wait" /\ arg[t] = i /\ t \in Awake}
         /\ IsFiniteSet(Woken(i)) /\ Cardinality(Woken(i)) \in Nat
<1>1. Woken(i) = {t \in ThreadIds : pc[t] = "wait" /\ arg[t] = i /\ t \in Awake}
  BY DEF Woken, Awake, AwakeIn, Elems
<1>2. IsFiniteSet(ThreadIds) /\ Woken(i) \in SUBSET ThreadIds
  BY SemTableAssumption DEF Woken
<1> QED BY <1>1, <1>2, FS_Subset, FS_CardinalityType

\* A semaphore that a step leaves alone keeps its queue, if the threads in it
\* are left alone, and its signals, if no woken thread is lost.
LEMMA SemKept ==
  ASSUME SemInv, NEW i \in Slots, sem'[i] = sem[i], Placed',
         \A t \in ThreadIds \ Awake : t \notin Awake' /\ pc'[t] = pc[t] /\ arg'[t] = arg[t],
         \A t \in Woken(i) : pc'[t] = "wait" /\ arg'[t] = i /\ t \in Awake'
  PROVE  QueueState(i)' /\ (sem'[i].queue # <<>> => sem'[i].value <= Cardinality(Woken(i)'))
<1>1. sem[i].queue \in Seq(ThreadIds) /\ sem[i].value \in Nat
  BY SemTypes DEF Sems
<1>2. Elems(sem[i].queue) \subseteq ThreadIds
  BY <1>1 DEF Elems
<1>3. QueueState(i)'
  BY <1>2 DEF SemInv, QueueInv, QueueState
<1>4. Woken(i) \in SUBSET Woken(i)'
  <2>1. Woken(i)' = {t \in ThreadIds : pc'[t] = "wait" /\ arg'[t] = i /\ t \in Awake'}
    BY DEF Woken, Awake, AwakeIn, Elems
  <2> QED BY <2>1 DEF Woken
<1>5. IsFiniteSet(Woken(i)') /\ Cardinality(Woken(i)') \in Nat
      /\ Cardinality(Woken(i)) \in Nat
  <2>1. IsFiniteSet(ThreadIds) /\ Woken(i)' \in SUBSET ThreadIds
    BY SemTableAssumption DEF Woken
  <2> QED BY <2>1, FS_Subset, FS_CardinalityType, WokenAwake DEF SemInv
<1>6. Cardinality(Woken(i)) <= Cardinality(Woken(i)')
  BY <1>4, <1>5, FS_Subset
<1> QED BY <1>1, <1>3, <1>5, <1>6 DEF SemInv, NoLostSignal

\* The table is as before, or has one more name.
LEMMA NamesKept ==
  ASSUME SemInv, UNCHANGED <<bm, lockTab>>, Placed',
         sem' \in [Slots -> Sems],
         pc' \in [ThreadIds -> {"user", "wait", "gone"}],
         arg' \in [ThreadIds -> Slots \cup {Null}],
         held' \in [ThreadIds -> SUBSET Slots]
  PROVE  OneSemaphorePerName' /\ LockSlots' = LockSlots
BY DEF SemInv, OneSemaphorePerName, TypeOK, Sems, LockSlots, Placed, PlacedIn

\* What taking a permit does to a semaphore.
LEMMA TakeValue ==
  ASSUME NEW s \in Sems, s.value > 0
  PROVE  PTake(s) \in Sems /\ PTake(s).value = s.value - 1 /\ PTake(s).queue = s.queue
<1>1. PTake(s) = [value |-> s.value - 1, queue |-> s.queue]
  BY DEF PTake, Sems
<1>2. s.value - 1 \in Nat /\ s.queue \in Seq(ThreadIds)
  BY DEF Sems
<1> QED BY <1>1, <1>2 DEF Sems

\* P() by the running thread finds a permit.
LEMMA TakeInv ==
  ASSUME SemInv, NEW t \in ThreadIds, NEW i \in Slots, current = t,
         pc[t] = "user" \/ (pc[t] = "wait" /\ arg[t] = i),
         sem[i].value > 0, TryP(t, i), UNCHANGED <<bm, lockTab>>
  PROVE  SemInv'
<1>0. Placed /\ t \in Awake /\ sem[i] \in Sems /\ sem \in [Slots -> Sems]
  BY SemTypes DEF SemInv, Awake, AwakeIn
<1>1. /\ sem' = [sem EXCEPT ![i] = PTake(@)]
      /\ pc' = [pc EXCEPT ![t] = "user"]
      /\ arg' = [arg EXCEPT ![t] = Null]
      /\ held' = [held EXCEPT ![t] = @ \cup ({i} \cap LockSlots)]
      /\ Continue(<<>>)
  BY DEF TryP, Taken
<1>2. Placed' /\ Awake' = Awake
  BY <1>0, <1>1, ContinuePlaces
<1>3. /\ sem' \in [Slots -> Sems]
      /\ sem'[i].value = sem[i].value - 1 /\ sem'[i].queue = sem[i].queue
      /\ \A j \in Slots : j # i => sem'[j] = sem[j]
  <2> DEFINE r == PTake(sem[i])
  <2>1. r \in Sems /\ r.value = sem[i].value - 1 /\ r.queue = sem[i].queue
    BY <1>0, TakeValue
  <2>2. sem' = [sem EXCEPT ![i] = r]
    BY <1>1
  <2> HIDE DEF r
  <2> QED BY <1>0, <2>1, <2>2
<1>4. /\ pc' \in [ThreadIds -> {"user", "wait", "gone"}]
      /\ pc'[t] = "user" /\ \A u \in ThreadIds : u # t => pc'[u] = pc[u]
      /\ arg' \in [ThreadIds -> Slots \cup {Null}]
      /\ \A u \in ThreadIds : u # t => arg'[u] = arg[u]
  BY <1>1, SemTypes
<1>5. /\ held' \in [ThreadIds -> SUBSET Slots]
      /\ held'[t] = held[t] \cup ({i} \cap LockSlots)
      /\ \A u \in ThreadIds : u # t => held'[u] = held[u]
  BY <1>1, SemTypes
<1>6. OneSemaphorePerName' /\ LockSlots' = LockSlots
  BY <1>2, <1>3, <1>4, <1>5, NamesKept
<1>7. LockInv'
  <2>1. \A u \in ThreadIds : held'[u] \subseteq LockSlots'
    BY <1>5, <1>6 DEF SemInv, LockInv
  <2>2. ASSUME NEW j \in LockSlots, j # i PROVE LockState(j)'
    <3>1. j \in Slots /\ LockState(j) /\ sem'[j] = sem[j]
      BY <1>3, <2>2 DEF SemInv, LockInv, LockSlots
    <3>2. \A u \in ThreadIds : j \in held'[u] <=> j \in held[u]
      BY <1>5, <2>2
    <3> QED BY <3>1, <3>2 DEF LockState
  <2>3. ASSUME i \in LockSlots PROVE LockState(i)'
    <3>1. sem[i].value = 1 /\ \A u \in ThreadIds : i \notin held[u]
      BY <2>3 DEF SemInv, LockInv, LockState
    <3>2. sem'[i].value = 0 /\ \A u \in ThreadIds : i \in held'[u] <=> u = t
      BY <1>3, <1>5, <2>3, <3>1
    <3> QED BY <3>2 DEF LockState
  <2> QED BY <1>6, <2>1, <2>2, <2>3 DEF LockInv
<1>8. ASSUME NEW j \in Slots, j # i
      PROVE  QueueState(j)' /\ (sem'[j].queue # <<>> => sem'[j].value <= Cardinality(Woken(j)'))
  <2>1. \A u \in Woken(j) : u # t /\ u \in ThreadIds /\ u \in Awake /\ pc[u] = "wait" /\ arg[u] = j
    BY <1>0, <1>8, WokenAwake
  <2> QED BY <1>0, <1>2, <1>3, <1>4, <1>8, <2>1, SemKept
<1>9. QueueState(i)'
  <2>1. Elems(sem[i].queue) \subseteq ThreadIds
    BY <1>0 DEF Sems, Elems
  <2> QED BY <1>0, <1>2, <1>3, <1>4, <2>1 DEF SemInv, QueueInv, QueueState
<1>10. ASSUME sem'[i].queue # <<>> PROVE sem'[i].value <= Cardinality(Woken(i)')
  <2>1. sem[i].value <= Cardinality(Woken(i))
    BY <1>3, <1>10 DEF SemInv, NoLostSignal
  <2>2. Woken(i)' = Woken(i) \ {t}
    <3>1. Woken(i)' = {u \in ThreadIds : pc'[u] = "wait" /\ arg'[u] = i /\ u \in Awake'}
      BY DEF Woken, Awake, AwakeIn, Elems
    <3> QED BY <1>0, <1>2, <1>4, <3>1, WokenAwake
  <2>3. IsFiniteSet(Woken(i)) /\ Cardinality(Woken(i)) \in Nat
    BY <1>0, WokenAwake
  <2>4. Cardinality(Woken(i) \ {t}) >= Cardinality(Woken(i)) - 1
    <3>1. Cardinality(Woken(i) \ {t}) =
            IF t \in Woken(i) THEN Cardinality(Woken(i)) - 1 ELSE Cardinality(Woken(i))
      BY <2>3, FS_RemoveElement, Zenon
    <3> QED BY <2>3, <3>1
  <2>5. Cardinality(Woken(i) \ {t}) \in Nat /\ sem[i].value \in Nat
    BY <1>0, <2>3, FS_RemoveElement, FS_CardinalityType DEF Sems
  <2> QED BY <1>3, <2>1, <2>2, <2>3, <2>4, <2>5
<1>11. QueueInv' /\ NoLostSignal'
  BY <1>4, <1>8, <1>9, <1>10, SemTypes DEF SemInv, QueueInv, NoLostSignal
<1> QED BY <1>2, <1>6, <1>7, <1>11 DEF SemInv

\* P() by the running thread finds none: it queues and sleeps.
LEMMA QueueUpInv ==
  ASSUME SemInv, NEW t \in ThreadIds, NEW i \in Slots, current = t,
         pc[t] = "user" \/ (pc[t] = "wait" /\ arg[t] = i),
         ~(sem[i].value > 0), TryP(t, i), UNCHANGED <<bm, lockTab>>
  PROVE  SemInv'
<1>0. /\ Placed /\ t \in Awake /\ sem[i] \in Sems /\ sem \in [Slots -> Sems]
      /\ sem[i].value = 0
  BY SemTypes DEF SemInv, Awake, AwakeIn, Sems
<1>1. /\ sem' = [sem EXCEPT ![i] = PQueue(@, t)]
      /\ pc' = [pc EXCEPT ![t] = "wait"]
      /\ arg' = [arg EXCEPT ![t] = i]
      /\ Sleep
      /\ UNCHANGED held
  BY DEF TryP
<1>2. Placed' /\ Awake' = Awake \ {t}
  BY <1>0, <1>1, SleepPlaces
<1>3. /\ sem[i].queue \in Seq(ThreadIds)
      /\ Append(sem[i].queue, t) \in Seq(ThreadIds)
      /\ Elems(Append(sem[i].queue, t)) = Elems(sem[i].queue) \cup {t}
      /\ t \notin Elems(sem[i].queue)
      /\ Distinct(Append(sem[i].queue, t))
  <2>1. sem[i].queue \in Seq(ThreadIds)
    BY <1>0 DEF Sems
  <2>2. Distinct(sem[i].queue) /\ t \notin Elems(sem[i].queue)
    BY <1>0 DEF SemInv, QueueInv, QueueState
  <2> QED BY <2>1, <2>2, AppendElems
<1>4. /\ sem' \in [Slots -> Sems]
      /\ sem'[i].value = 0 /\ sem'[i].queue = Append(sem[i].queue, t)
      /\ \A j \in Slots : j # i => sem'[j] = sem[j]
  BY <1>0, <1>1, <1>3 DEF PQueue, Sems
<1>5. /\ pc' \in [ThreadIds -> {"user", "wait", "gone"}]
      /\ pc'[t] = "wait" /\ \A u \in ThreadIds : u # t => pc'[u] = pc[u]
      /\ arg' \in [ThreadIds -> Slots \cup {Null}]
      /\ arg'[t] = i /\ \A u \in ThreadIds : u # t => arg'[u] = arg[u]
  BY <1>1, SemTypes
<1>6. OneSemaphorePerName' /\ LockSlots' = LockSlots
  BY <1>1, <1>2, <1>4, <1>5, SemTypes, NamesKept
<1>7. LockInv'
  <2>1. \A j \in LockSlots : j \in Slots /\ sem'[j].value = sem[j].value
    BY <1>0, <1>4 DEF LockSlots
  <2> QED BY <1>1, <1>6, <2>1 DEF SemInv, LockInv, LockState
<1>8. ASSUME NEW j \in Slots, j # i
      PROVE  QueueState(j)' /\ (sem'[j].queue # <<>> => sem'[j].value <= Cardinality(Woken(j)'))
  <2>1. \A u \in Woken(j) : u # t /\ u \in ThreadIds /\ u \in Awake /\ pc[u] = "wait" /\ arg[u] = j
    BY <1>0, <1>8, WokenAwake
  <2> QED BY <1>0, <1>2, <1>4, <1>5, <1>8, <2>1, SemKept
<1>9. QueueState(i)'
  <2>1. Elems(sem[i].queue) \subseteq ThreadIds
    BY <1>3, SMTT(30) DEF Elems
  <2> QED BY <1>2, <1>3, <1>4, <1>5, <2>1, SMTT(30) DEF SemInv, QueueInv, QueueState
<1>10. sem'[i].value <= Cardinality(Woken(i)')
  <2>1. IsFiniteSet(ThreadIds) /\ Woken(i)' \in SUBSET ThreadIds
    BY SemTableAssumption DEF Woken
  <2> QED BY <1>4, <2>1, FS_Subset, FS_CardinalityType, SMTT(30)
<1>11. QueueInv' /\ NoLostSignal'
  BY <1>5, <1>8, <1>9, <1>10, SemTypes DEF SemInv, QueueInv, NoLostSignal
<1> QED BY <1>2, <1>6, <1>7, <1>11 DEF SemInv

\* V(): the first waiter is woken, and the value incremented.
LEMMA SignalInv ==
  ASSUME SemInv, NEW t \in ThreadIds, NEW i \in Slots, current = t,
         i \in LockSlots => i \in held[t],
         sem' = [sem EXCEPT ![i] = VSignal(@)],
         held' = [held EXCEPT ![t] = @ \ {i}],
         Continue(VWoken(sem[i])), UNCHANGED <<bm, lockTab, pc, arg>>
  PROVE  SemInv'
<1> DEFINE s == sem[i]
           q == s.queue
           r == VSignal(s)
<1>0. Placed /\ s \in Sems /\ q \in Seq(ThreadIds) /\ s.value \in Nat /\ sem \in [Slots -> Sems]
  BY SemTypes DEF SemInv, Sems
<1>1. /\ Distinct(q)
      /\ Elems(q) \subseteq ThreadIds
      /\ \A u \in Elems(q) : pc[u] = "wait" /\ arg[u] = i /\ u \notin Awake
  BY <1>0 DEF SemInv, QueueInv, QueueState, Elems
<1>2. /\ r \in Sems /\ r.value = s.value + 1
      /\ q = <<>> => r.queue = <<>>
      /\ q # <<>> => r.queue = Tail(q)
  <2>1. q # <<>> => Tail(q) \in Seq(ThreadIds)
    BY <1>0, TailElems
  <2> QED BY <1>0, <2>1 DEF VSignal, Sems
<1>3. sem' \in [Slots -> Sems] /\ sem'[i] = r /\ \A j \in Slots : j # i => sem'[j] = sem[j]
  BY <1>0, <1>2
<1>4. /\ Placed' /\ Awake \subseteq Awake'
      /\ q = <<>> => Awake' = Awake
      /\ q # <<>> => Awake' = Awake \cup {Head(q)}
  <2>1. CASE q = <<>>
    BY <1>0, <2>1, ContinuePlaces DEF VWoken
  <2>2. CASE q # <<>>
    <3>1. Head(q) \in ThreadIds \ Awake
      BY <1>0, <1>1, <2>2, TailElems
    <3>2. Continue(<<Head(q)>>)
      BY <2>2 DEF VWoken
    <3> QED BY <1>0, <2>2, <3>1, <3>2, ContinuePlaces
  <2> QED BY <2>1, <2>2
<1>5. /\ held' \in [ThreadIds -> SUBSET Slots]
      /\ held'[t] = held[t] \ {i}
      /\ \A u \in ThreadIds : u # t => held'[u] = held[u]
  BY SemTypes
<1> HIDE DEF r
<1>6. OneSemaphorePerName' /\ LockSlots' = LockSlots
  BY <1>3, <1>4, <1>5, SemTypes, NamesKept
<1>7. LockInv'
  <2>1. \A u \in ThreadIds : held'[u] \subseteq LockSlots'
    BY <1>5, <1>6 DEF SemInv, LockInv
  <2>2. ASSUME NEW j \in LockSlots, j # i PROVE LockState(j)'
    <3>1. j \in Slots /\ LockState(j) /\ sem'[j] = sem[j]
      BY <1>3, <2>2 DEF SemInv, LockInv, LockSlots
    <3>2. \A u \in ThreadIds : j \in held'[u] <=> j \in held[u]
      BY <1>5, <2>2
    <3> QED BY <3>1, <3>2 DEF LockState
  <2>3. ASSUME i \in LockSlots PROVE LockState(i)'
    <3>1. sem[i].value = 0 /\ \A u \in ThreadIds : i \in held[u] <=> u = t
      BY <2>3 DEF SemInv, LockInv, LockState
    <3>2. sem'[i].value = 1 /\ \A u \in ThreadIds : i \notin held'[u]
      BY <1>2, <1>3, <1>5, <3>1
    <3> QED BY <3>2 DEF LockState
  <2> QED BY <1>6, <2>1, <2>2, <2>3 DEF LockInv
<1>8. ASSUME NEW j \in Slots, j # i
      PROVE  QueueState(j)' /\ (sem'[j].queue # <<>> => sem'[j].value <= Cardinality(Woken(j)'))
  <2>1. \A u \in Woken(j) : u \in ThreadIds /\ u \in Awake /\ pc[u] = "wait" /\ arg[u] = j
    BY <1>0, <1>8, WokenAwake
  <2>2. Elems(sem[j].queue) \subseteq ThreadIds
    BY SemTypes DEF Sems, Elems
  <2>3. QueueState(j)'
    <3>1. q # <<>> => arg[Head(q)] = i
      BY <1>0, <1>1, TailElems
    <3> QED BY <1>3, <1>4, <1>8, <2>2, <3>1 DEF SemInv, QueueInv, QueueState
  <2>4. Woken(j)' = Woken(j)
    <3>1. Woken(j)' = {u \in ThreadIds : pc'[u] = "wait" /\ arg'[u] = j /\ u \in Awake'}
      BY DEF Woken, Awake, AwakeIn, Elems
    <3>2. q # <<>> => arg[Head(q)] = i
      BY <1>0, <1>1, TailElems
    <3> QED BY <1>0, <1>4, <1>8, <3>1, <3>2, WokenAwake
  <2> QED BY <1>3, <1>8, <2>3, <2>4 DEF SemInv, NoLostSignal
<1>9. QueueState(i)'
  <2>1. CASE q = <<>>
    BY <1>2, <1>3, <2>1 DEF QueueState, Distinct, Elems
  <2>2. CASE q # <<>>
    <3>1. /\ Distinct(Tail(q)) /\ Head(q) \notin Elems(Tail(q))
          /\ Elems(Tail(q)) \subseteq Elems(q)
      BY <1>0, <1>1, <2>2, TailElems
    <3> QED BY <1>1, <1>2, <1>3, <1>4, <2>2, <3>1 DEF QueueState
  <2> QED BY <2>1, <2>2
<1>10. ASSUME sem'[i].queue # <<>> PROVE sem'[i].value <= Cardinality(Woken(i)')
  <2>1. q # <<>> /\ sem'[i].value = s.value + 1
    BY <1>2, <1>3, <1>10
  <2>2. s.value <= Cardinality(Woken(i))
    BY <2>1 DEF SemInv, NoLostSignal
  <2>3. Head(q) \in ThreadIds /\ Head(q) \notin Woken(i) /\ Woken(i)' = Woken(i) \cup {Head(q)}
    <3>1. Woken(i)' = {u \in ThreadIds : pc'[u] = "wait" /\ arg'[u] = i /\ u \in Awake'}
      BY DEF Woken, Awake, AwakeIn, Elems
    <3>2. Head(q) \in Elems(q)
      BY <1>0, <2>1, TailElems
    <3> QED BY <1>0, <1>1, <1>4, <2>1, <3>1, <3>2, WokenAwake
  <2>4. IsFiniteSet(Woken(i)) /\ Cardinality(Woken(i)) \in Nat
    BY <1>0, WokenAwake
  <2>5. Cardinality(Woken(i)') = Cardinality(Woken(i)) + 1
    BY <2>3, <2>4, FS_AddElement, Zenon
  <2> QED BY <1>0, <2>1, <2>2, <2>4, <2>5
<1>11. QueueInv' /\ NoLostSignal'
  BY <1>8, <1>9, <1>10 DEF SemInv, QueueInv, NoLostSignal
<1> QED BY <1>4, <1>6, <1>7, <1>11 DEF SemInv

\* A new semaphore in a free slot.
LEMMA CreateInv ==
  ASSUME SemInv, NEW name \in Names, NEW init \in Nat, name \in Locks => init = 1,
         Matches(name) = {}, NEW id \in Slots \ bm,
         bm' = bm \cup {id},
         lockTab' = [lockTab EXCEPT ![id] = name],
         sem' = [sem EXCEPT ![id] = Semaphore(init)],
         UNCHANGED <<current, ready, pc, arg, held>>
  PROVE  SemInv'
<1>0. /\ lockTab[id] = Null /\ name # Null /\ Null \notin Locks
      /\ lockTab' \in [Slots -> Names \cup {Null}] /\ lockTab'[id] = name
      /\ \A j \in Slots : j # id => lockTab'[j] = lockTab[j] /\ lockTab[j] # name
  BY SemTypes, SemTableAssumption DEF SemInv, OneSemaphorePerName, Matches
<1>1. Semaphore(init) \in Sems /\ Semaphore(init).value = init /\ Semaphore(init).queue = <<>>
  BY DEF Semaphore, Sems
<1>2. /\ sem' \in [Slots -> Sems] /\ sem'[id].value = init /\ sem'[id].queue = <<>>
      /\ \A j \in Slots : j # id => sem'[j] = sem[j]
  <2> DEFINE r == Semaphore(init)
  <2>1. r \in Sems /\ r.value = init /\ r.queue = <<>> /\ sem' = [sem EXCEPT ![id] = r]
    BY <1>1
  <2> HIDE DEF r
  <2> QED BY <2>1, SemTypes
<1>3. Placed' /\ Awake' = Awake
  BY DEF SemInv, Placed, PlacedIn, Awake, AwakeIn
<1>4. OneSemaphorePerName'
  <2>1. TypeOK'
    BY <1>0, <1>2, SemTypes DEF SemInv, OneSemaphorePerName, TypeOK, Sems
  <2>2. \A j, k \in Slots : lockTab'[j] = lockTab'[k] /\ lockTab'[j] # Null => j = k
    BY <1>0 DEF SemInv, OneSemaphorePerName
  <2>3. \A j \in Slots : j \in bm' <=> lockTab'[j] # Null
    BY <1>0 DEF SemInv, OneSemaphorePerName
  <2> QED BY <2>1, <2>2, <2>3 DEF OneSemaphorePerName
<1>5. LockInv'
  <2>1. LockSlots \subseteq LockSlots' /\ id \notin LockSlots /\ LockSlots' \subseteq LockSlots \cup {id}
        /\ (id \in LockSlots' => name \in Locks)
    BY <1>0 DEF LockSlots
  <2>2. \A u \in ThreadIds : held[u] \subseteq LockSlots'
    BY <2>1 DEF SemInv, LockInv
  <2>3. ASSUME NEW j \in LockSlots' PROVE LockState(j)'
    <3>1. CASE j = id
      BY <1>2, <2>1, <2>3, <3>1 DEF SemInv, LockInv, LockState
    <3>2. CASE j # id
      <4>1. j \in LockSlots /\ j \in Slots
        BY <2>1, <2>3, <3>2 DEF LockSlots
      <4> QED BY <1>2, <3>2, <4>1 DEF SemInv, LockInv, LockState
    <3> QED BY <3>1, <3>2
  <2> QED BY <2>2, <2>3 DEF LockInv
<1>6. ASSUME NEW j \in Slots
      PROVE  QueueState(j)' /\ (sem'[j].queue # <<>> => sem'[j].value <= Cardinality(Woken(j)'))
  <2>1. CASE j = id
    BY <1>2, <2>1 DEF QueueState, Distinct, Elems
  <2>2. CASE j # id
    <3>1. \A u \in Woken(j) : u \in Awake /\ pc[u] = "wait" /\ arg[u] = j
      BY WokenAwake DEF SemInv
    <3> QED BY <1>2, <1>3, <2>2, <3>1, SemKept
  <2> QED BY <2>1, <2>2
<1>7. QueueInv' /\ NoLostSignal'
  BY <1>6 DEF SemInv, QueueInv, NoLostSignal
<1> QED BY <1>3, <1>4, <1>5, <1>7 DEF SemInv

\* A process that exits gives up the CPU; nobody else is moved.
LEMMA ExitInv ==
  ASSUME SemInv, NEW t \in ThreadIds, Exit(t)
  PROVE  SemInv'
<1>0. /\ Placed /\ current = t /\ pc[t] = "user"
      /\ pc' = [pc EXCEPT ![t] = "gone"] /\ Sleep
      /\ UNCHANGED <<bm, lockTab, sem, arg, held>>
  BY DEF SemInv, Exit, Running, tableVars
<1>1. Placed' /\ Awake' = Awake \ {t}
  BY <1>0, SleepPlaces
<1>2. /\ pc' \in [ThreadIds -> {"user", "wait", "gone"}]
      /\ pc'[t] = "gone" /\ \A u \in ThreadIds : u # t => pc'[u] = pc[u]
  BY <1>0, SemTypes
<1>3. OneSemaphorePerName' /\ LockSlots' = LockSlots
  BY <1>0, <1>1, <1>2, SemTypes, NamesKept
<1>4. LockInv'
  BY <1>0, <1>3 DEF SemInv, LockInv, LockState
<1>5. ASSUME NEW j \in Slots
      PROVE  QueueState(j)' /\ (sem'[j].queue # <<>> => sem'[j].value <= Cardinality(Woken(j)'))
  <2>1. \A u \in Woken(j) : u # t /\ u \in ThreadIds /\ u \in Awake /\ pc[u] = "wait" /\ arg[u] = j
    BY <1>0, WokenAwake
  <2>2. t \in Awake
    BY <1>0 DEF Awake, AwakeIn
  <2> QED BY <1>0, <1>1, <1>2, <2>1, <2>2, SemKept
<1>6. QueueInv' /\ NoLostSignal'
  BY <1>0, <1>2, <1>5 DEF SemInv, QueueInv, NoLostSignal
<1> QED BY <1>1, <1>3, <1>4, <1>6 DEF SemInv

\* A change of the running thread leaves everybody awake who was.
LEMMA CPUInv ==
  ASSUME SemInv, Placed', Awake' = Awake,
         UNCHANGED <<bm, lockTab, sem, pc, arg, held>>
  PROVE  SemInv'
<1>1. OneSemaphorePerName' /\ LockSlots' = LockSlots
  BY SemTypes, NamesKept
<1>2. LockInv'
  BY <1>1 DEF SemInv, LockInv, LockState
<1>3. ASSUME NEW j \in Slots
      PROVE  QueueState(j)' /\ (sem'[j].queue # <<>> => sem'[j].value <= Cardinality(Woken(j)'))
  <2>1. \A u \in Woken(j) : u \in ThreadIds /\ u \in Awake /\ pc[u] = "wait" /\ arg[u] = j
    BY WokenAwake DEF SemInv
  <2> QED BY <2>1, SemKept
<1>4. QueueInv' /\ NoLostSignal'
  BY <1>3 DEF SemInv, QueueInv, NoLostSignal
<1> QED BY <1>1, <1>2, <1>4 DEF SemInv

\* A step that changes nothing.
LEMMA SameInv == ASSUME SemInv, UNCHANGED vars PROVE SemInv'
<1>1. UNCHANGED <<current, ready, bm, lockTab, sem, pc, arg, held>>
  BY DEF vars, tableVars
<1>2. Placed' /\ Awake' = Awake
  BY <1>1 DEF SemInv, Placed, PlacedIn, Awake, AwakeIn
<1> QED BY <1>1, <1>2, CPUInv

\* Either turn of the loop in P().
LEMMA TryPInv ==
  ASSUME SemInv, NEW t \in ThreadIds, NEW i \in Slots, current = t,
         pc[t] = "user" \/ (pc[t] = "wait" /\ arg[t] = i),
         TryP(t, i), UNCHANGED <<bm, lockTab>>
  PROVE  SemInv'
BY TakeInv, QueueUpInv

\* The three system calls.
LEMMA CallsInv ==
  ASSUME SemInv, NEW t \in ThreadIds, NEW name \in Names \cup {NoName}
  PROVE  /\ \A init \in InitialValues : SyscallCreateSemaphore(t, name, init) => SemInv'
         /\ SyscallWait(t, name) => SemInv'
         /\ SyscallSignal(t, name) => SemInv'
<1>1. Matches(name) \in SUBSET Slots
  BY DEF Matches
<1>2. CASE Refused(t)
  BY <1>2, SameInv DEF Refused
<1>3. ASSUME NEW init \in InitialValues, name # NoName, ~(init < 0), create(t, name, init)
      PROVE  SemInv'
  <2>1. CASE Matches(name) # {} \/ Slots \subseteq bm
    BY <1>3, <2>1, SameInv DEF create, vars, schedVars
  <2>2. CASE ~(Matches(name) # {} \/ Slots \subseteq bm)
    <3> DEFINE id == First(Slots \ bm)
    <3>1. id \in Slots \ bm
      BY <2>2, FirstIn
    <3>2. init \in Nat /\ name \in Names /\ (name \in Locks => init = 1)
      BY <1>3, SemTableAssumption DEF create
    <3>3. /\ bm' = bm \cup {id}
          /\ lockTab' = [lockTab EXCEPT ![id] = name]
          /\ sem' = [sem EXCEPT ![id] = Semaphore(init)]
          /\ UNCHANGED <<current, ready, pc, arg, held>>
      BY <1>3, <2>2 DEF create, Sem, schedVars
    <3> HIDE DEF id
    <3> QED BY <2>2, <3>1, <3>2, <3>3, CreateInv
  <2> QED BY <2>1, <2>2
<1>4. ASSUME wait(t, name) PROVE SemInv'
  <2>1. CASE Matches(name) = {}
    BY <1>4, <2>1, SameInv DEF wait, vars, schedVars, tableVars
  <2>2. CASE Matches(name) # {}
    <3>1. First(Matches(name)) \in Slots
      BY <1>1, <2>2, FirstIn
    <3>2. /\ current = t /\ pc[t] = "user" /\ TryP(t, First(Matches(name)))
          /\ UNCHANGED <<bm, lockTab>>
      BY <1>4, <2>2 DEF wait, Running
    <3> QED BY <3>1, <3>2, TryPInv
  <2> QED BY <2>1, <2>2
<1>5. ASSUME signal(t, name) PROVE SemInv'
  <2>1. CASE Matches(name) = {}
    BY <1>5, <2>1, SameInv DEF signal, vars, schedVars, tableVars
  <2>2. CASE Matches(name) # {}
    <3> DEFINE i == First(Matches(name))
    <3>1. i \in Slots
      BY <1>1, <2>2, FirstIn
    <3>2. /\ current = t
          /\ i \in LockSlots => i \in held[t]
          /\ sem' = [sem EXCEPT ![i] = VSignal(@)]
          /\ held' = [held EXCEPT ![t] = @ \ {i}]
          /\ Continue(VWoken(sem[i]))
          /\ UNCHANGED <<bm, lockTab, pc, arg>>
      BY <1>5, <2>2 DEF signal, Running
    <3> HIDE DEF i
    <3> QED BY <3>1, <3>2, SignalInv
  <2> QED BY <2>1, <2>2
<1> QED BY <1>2, <1>3, <1>4, <1>5
        DEF SyscallCreateSemaphore, SyscallWait, SyscallSignal

-----------------------------------------------------------------------------
\* The invariant holds initially.
LEMMA InitInv == Init => SemInv
<1> SUFFICES ASSUME Init PROVE SemInv
  OBVIOUS
<1>1. /\ current = NoThread /\ bm = {}
      /\ ready \in Seq(ThreadIds) /\ Distinct(ready)
      /\ lockTab = [i \in Slots |-> Null]
      /\ sem = [i \in Slots |-> Semaphore(0)]
      /\ pc = [t \in ThreadIds |-> "user"]
      /\ arg = [t \in ThreadIds |-> Null]
      /\ held = [t \in ThreadIds |-> {}]
  <2>1. Cardinality(ThreadIds) \in Nat
    BY SemTableAssumption, FS_CardinalityType
  <2>2. ready \in Seq(ThreadIds) /\ Distinct(ready)
    BY <2>1 DEF Init, Distinct
  <2> QED BY <2>2 DEF Init
<1>2. Semaphore(0) \in Sems /\ Semaphore(0).queue = <<>>
  BY DEF Semaphore, Sems
<1>3. sem \in [Slots -> Sems] /\ \A i \in Slots : sem[i].queue = <<>>
  BY <1>1, <1>2
<1>4. OneSemaphorePerName
  BY <1>1, <1>3 DEF OneSemaphorePerName, TypeOK, Sems
<1>5. Placed
  BY <1>1, SemTableAssumption DEF Placed, PlacedIn, Elems
<1>6. LockInv
  <2>1. LockSlots = {}
    BY <1>1, SemTableAssumption DEF LockSlots
  <2> QED BY <1>1, <2>1 DEF LockInv
<1>7. QueueInv /\ NoLostSignal
  BY <1>1, <1>3 DEF QueueInv, QueueState, Distinct, Elems, NoLostSignal
<1> QED BY <1>4, <1>5, <1>6, <1>7 DEF SemInv

\* Every step keeps the invariant, one case per action.
LEMMA NextInv == SemInv /\ [Next]_vars => SemInv'
<1> SUFFICES ASSUME SemInv, [Next]_vars PROVE SemInv'
  OBVIOUS
<1>1. ASSUME NEW t \in ThreadIds, NEW name \in Names \cup {NoName},
             \/ \E init \in InitialValues : SyscallCreateSemaphore(t, name, init)
             \/ SyscallWait(t, name)
             \/ SyscallSignal(t, name)
      PROVE  SemInv'
  BY <1>1, CallsInv
<1>2. ASSUME NEW t \in ThreadIds, Retry(t) PROVE SemInv'
  <2>1. current = t /\ pc[t] = "wait" /\ arg[t] \in Slots /\ TryP(t, arg[t])
        /\ UNCHANGED <<bm, lockTab>>
    BY <1>2 DEF Retry, SemInv, QueueInv
  <2> QED BY <2>1, TryPInv
<1>3. ASSUME NEW t \in ThreadIds, Exit(t) PROVE SemInv'
  BY <1>3, ExitInv
<1>4. CASE Switch
  <2>1. Placed' /\ Awake' = Awake
    BY <1>4, YieldPlaces DEF Switch, SemInv
  <2> QED BY <1>4, <2>1, CPUInv DEF Switch, tableVars
<1>5. CASE Preempt
  <2>1. Placed' /\ Awake' = Awake
    BY <1>5, YieldPlaces DEF Preempt, TimerYield, SemInv
  <2> QED BY <1>5, <2>1, CPUInv DEF Preempt, tableVars
<1>6. CASE UNCHANGED vars
  BY <1>6, SameInv
<1> QED BY <1>1, <1>2, <1>3, <1>4, <1>5, <1>6 DEF Next, Quiet

\* The inductive invariant holds in every state that the system calls, the
\* timer and the exits of processes can reach.
THEOREM SemInvHolds == Spec => []SemInv
BY InitInv, NextInv, PTL DEF Spec

\* A name always stands for one semaphore, and the bitmap and the pointers of
\* the table agree.
THEOREM NamesAreUnique == Spec => []OneSemaphorePerName
<1>1. SemInv => OneSemaphorePerName
  BY DEF SemInv
<1> QED BY <1>1, SemInvHolds, PTL

\* No Signal is lost: each permit left while processes sleep in Wait has a
\* woken process on its way to it.
THEOREM SignalsAreKept == Spec => []NoLostSignal
<1>1. SemInv => NoLostSignal
  BY DEF SemInv
<1> QED BY <1>1, SemInvHolds, PTL

\* A semaphore created with 1 and signalled only by a process that waited for
\* it never has two holders.
THEOREM LocksExclude == Spec => []Mutex
<1>1. ASSUME SemInv PROVE Mutex
  <2> SUFFICES ASSUME NEW i \in LockSlots
               PROVE  LET holders == Cardinality({t \in ThreadIds : i \in held[t]})
                      IN  holders <= 1 /\ sem[i].value = 1 - holders
    BY DEF Mutex
  <2> DEFINE H == {t \in ThreadIds : i \in held[t]}
  <2>1. LockState(i)
    BY <1>1 DEF SemInv, LockInv
  <2>2. CASE sem[i].value = 1 /\ \A t \in ThreadIds : i \notin held[t]
    <3>1. H = {}
      BY <2>2
    <3>2. Cardinality(H) = 0
      BY <3>1, FS_EmptySet
    <3> QED BY <2>2, <3>2
  <2>3. CASE /\ sem[i].value = 0
             /\ \E t \in ThreadIds : \A u \in ThreadIds : i \in held[u] <=> u = t
    <3>1. PICK t \in ThreadIds : H = {t}
      BY <2>3
    <3>2. Cardinality(H) = 1
      BY <3>1, FS_Singleton
    <3> QED BY <2>3, <3>2
  <2> QED BY <2>1, <2>2, <2>3 DEF LockState
<1> QED BY <1>1, SemInvHolds, PTL
=============================================================================
