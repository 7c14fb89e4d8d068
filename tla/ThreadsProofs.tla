---------------------------- MODULE ThreadsProofs ----------------------------
(***************************************************************************)
(* Threads, switches and one semaphore, for any number of threads and any  *)
(* initial value: a thread is in one place, the one its status tells, no   *)
(* wakeup is lost, and a switch gives a thread its own context.            *)
(***************************************************************************)
EXTENDS Threads, SchedulerFacts, FiniteSetTheorems

Placed == PlacedIn(ThreadIds)
Awake == AwakeIn(ThreadIds)

Statuses == {"none", "JUST_CREATED", "RUNNING", "READY", "BLOCKED"}
Points == {"body", "P", "finished"}

-----------------------------------------------------------------------------
(* The inductive invariant.                                                *)

Types ==
  /\ status \in [ThreadIds -> Statuses]
  /\ fresh \subseteq ThreadIds
  /\ pc \in [ThreadIds -> Points]
  /\ doomed \in ThreadIds \cup {NoThread}
  /\ sem \in SemsOf(ThreadIds)

\* A thread's status, and how far it has come, tell where it is.
Place(t) ==
  /\ status[t] = "RUNNING" <=> current = t
  /\ status[t] = "READY" <=> t \in Elems(ready)
  /\ status[t] = "BLOCKED" /\ pc[t] = "P" <=> t \in Elems(sem.queue)
  /\ status[t] = "BLOCKED" => pc[t] # "body"
  /\ t \in Awake => pc[t] # "finished"
  /\ status[t] = "JUST_CREATED" => t \in fresh
  /\ t \in fresh => status[t] \in {"JUST_CREATED", "READY"} /\ pc[t] = "body"

Places == Distinct(sem.queue) /\ \A t \in ThreadIds : Place(t)

RunPC(t) == <<"Run", t, "code">>

\* What is in the record and on the stack of a thread that is switched out:
\* what Fork put there, or what the thread had when it called SWITCH.
Saved(t) ==
  t # Old =>
    /\ t \in fresh /\ status[t] = "READY" =>
         record[t] = StackAllocate(t) /\ stack[t] = ThreadRoot(t)
    /\ t \notin fresh /\ status[t] \in {"READY", "BLOCKED"} =>
         record[t] = Frame(t, CallerOf(pc[t])) /\ stack[t] = RunPC(t)

\* The CPU is on the stack of the running thread, or of the last one that
\* ran, which still has its object.
Contexts ==
  /\ Old \in ThreadIds /\ status[Old] # "none" /\ Old \notin fresh
  /\ current \in ThreadIds => Old = current
  /\ record = [t \in ThreadIds |-> record[t]]
  /\ stack = [t \in ThreadIds |-> stack[t]]
  /\ \A t \in ThreadIds : Saved(t)

ThreadsInv ==
  /\ Placed /\ Types /\ Places
  /\ DoomedIsDead
  /\ Contexts
  /\ NoLostWakeup

\* What ThreadsInv says that the steps below use again and again.
LEMMA InvFacts ==
  ASSUME ThreadsInv
  PROVE  /\ NoThread \notin ThreadIds /\ IsFiniteSet(ThreadIds)
         /\ \A t \in ThreadIds : t \in Awake <=> status[t] \in {"READY", "RUNNING"}
         /\ \A t \in ThreadIds : Place(t)
         /\ sem.value \in Nat /\ sem.queue \in Seq(ThreadIds)
         /\ Elems(sem.queue) \subseteq ThreadIds
<1>1. NoThread \notin ThreadIds /\ IsFiniteSet(ThreadIds)
  BY ThreadsAssumption
<1>2. \A t \in ThreadIds : Place(t)
  BY DEF ThreadsInv, Places
<1>3. \A t \in ThreadIds : t \in Awake <=> status[t] \in {"READY", "RUNNING"}
  BY <1>2 DEF Place, Awake, AwakeIn
<1>4. sem.value \in Nat /\ sem.queue \in Seq(ThreadIds)
  BY DEF ThreadsInv, Types, SemsOf
<1>5. Elems(sem.queue) \subseteq ThreadIds
  BY <1>4 DEF Elems
<1> QED BY <1>1, <1>2, <1>3, <1>4, <1>5

-----------------------------------------------------------------------------
(* The switch.                                                             *)

\* The registers of a thread that calls SWITCH, saved and restored.
LEMMA FrameContext ==
  ASSUME NEW t, NEW c
  PROVE  /\ Frame(t, c).esp = StackOf(t) /\ Frame(t, c).esp[2] = t
         /\ Frame(t, c).PC = RunPC(t)
         /\ [Frame(t, c) EXCEPT !.PC = RunPC(t)] = Frame(t, c)
BY DEF Frame, Registers, StackOf, RunPC

\* The registers that Fork prepares, restored.
LEMMA RootContext ==
  ASSUME NEW t
  PROVE  /\ StackAllocate(t).esp = StackOf(t) /\ StackAllocate(t).esp[2] = t
         /\ StackAllocate(t).PC = ThreadRoot(t)
         /\ [StackAllocate(t) EXCEPT !.PC = ThreadRoot(t)] = StackAllocate(t)
         /\ RootCalls(StackAllocate(t)) =
              <<<<"InterruptEnable", t, "code">>, <<"func", t, "code">>,
                <<"arg", t, "data">>, <<"ThreadFinish", t, "code">>>>
BY DEF StackAllocate, Junk, Registers, StackOf, ThreadRoot, RootCalls

\* A switch to a thread that is ready, or back to the thread that idled.
LEMMA SwitchGives ==
  ASSUME Contexts, CallsSWITCH, current' \in ThreadIds,
         current' # Old => status[current'] \in {"READY", "BLOCKED"}
  PROVE  /\ stack' = [stack EXCEPT ![Old] = RunPC(Old)]
         /\ record' = [record EXCEPT ![Old] = Frame(Old, CallerOf(pc'[Old]))]
         /\ current' = Old => cpu' = Frame(Old, CallerOf(pc'[Old]))
         /\ current' # Old /\ current' \in fresh /\ status[current'] = "READY" =>
              cpu' = StackAllocate(current')
         /\ current' # Old /\ current' \notin fresh =>
              cpu' = Frame(current', CallerOf(pc[current']))
<1> DEFINE o == Old
           n == current'
           frame == Frame(o, CallerOf(pc'[o]))
           called == [stack EXCEPT ![o] = frame.PC]
           saved == [record EXCEPT ![o] = Save(frame, called[o])]
<1>1. /\ stack' = called /\ record' = saved
      /\ cpu' = [saved[n] EXCEPT !.PC = called[saved[n].esp[2]]]
  BY DEF CallsSWITCH, SWITCH, Restore
<1>2. o \in ThreadIds /\ n \in ThreadIds
      /\ record = [t \in ThreadIds |-> record[t]] /\ stack = [t \in ThreadIds |-> stack[t]]
      /\ Saved(n)
  BY DEF Contexts
<1>3. frame.PC = RunPC(o) /\ frame.esp[2] = o /\ [frame EXCEPT !.PC = RunPC(o)] = frame
  BY FrameContext
<1> HIDE DEF frame, o
<1>4. called = [stack EXCEPT ![o] = RunPC(o)] /\ called[o] = RunPC(o)
      /\ (n # o => called[n] = stack[n])
  BY <1>2, <1>3
<1> HIDE DEF called
<1>5. Save(frame, called[o]) = frame
  BY <1>3, <1>4 DEF Save
<1>6. saved = [record EXCEPT ![o] = frame] /\ saved[o] = frame
      /\ (n # o => saved[n] = record[n])
  BY <1>2, <1>5
<1> HIDE DEF saved, n
<1>7. ASSUME n = o PROVE cpu' = frame
  BY <1>1, <1>3, <1>4, <1>6, <1>7
<1>8. ASSUME n # o, n \in fresh, status[n] = "READY" PROVE cpu' = StackAllocate(n)
  <2>1. saved[n] = StackAllocate(n) /\ called[n] = ThreadRoot(n)
    BY <1>2, <1>4, <1>6, <1>8 DEF Saved, o
  <2> QED BY <1>1, <2>1, RootContext
<1>9. ASSUME n # o, n \notin fresh PROVE cpu' = Frame(n, CallerOf(pc[n]))
  <2>1. saved[n] = Frame(n, CallerOf(pc[n])) /\ called[n] = RunPC(n)
    BY <1>2, <1>4, <1>6, <1>9 DEF Saved, o, n
  <2> QED BY <1>1, <2>1, FrameContext
<1> QED BY <1>1, <1>4, <1>6, <1>7, <1>8, <1>9 DEF o, n, frame

-----------------------------------------------------------------------------
(* Scheduler::Run.                                                         *)

\* How a thread that gives up the CPU leaves the others and itself.
Left(S, t) ==
  /\ S[t] = "READY" <=> t \in Awake'
  /\ S[t] # "RUNNING"
  /\ S[t] = "BLOCKED" => pc'[t] # "body"
  /\ t \in Awake' => pc'[t] # "finished"
  /\ S[t] = "JUST_CREATED" => t \in fresh
  /\ t \in fresh => S[t] \in {"JUST_CREATED", "READY"} /\ pc'[t] = "body"
  /\ S[t] = "none" <=> status[t] = "none"
  /\ t # Old => S[t] = status[t] /\ pc'[t] = pc[t]

GivesUp(S, d) ==
  /\ Placed'
  /\ S \in [ThreadIds -> Statuses]
  /\ pc' \in [ThreadIds -> Points]
  /\ \A t \in ThreadIds : Left(S, t)
  /\ d \in ThreadIds \cup {NoThread}
  /\ d # NoThread => pc'[d] = "finished" /\ S[d] = "BLOCKED"

\* What Run does to each status.
LEMMA RunStatus ==
  ASSUME ThreadsInv, NEW S, NEW d, GivesUp(S, d), Run(S, d)
  PROVE  /\ status' \in [ThreadIds -> Statuses]
         /\ status' = [t \in ThreadIds |-> status'[t]]
         /\ \A t \in ThreadIds : IF t = current' THEN status'[t] = "RUNNING"
                                 ELSE status'[t] = S[t] \/ (t = d /\ status'[t] = "none")
         /\ fresh' = fresh \ {current'}
         /\ doomed' \in {d, NoThread}
         /\ doomed' # NoThread => status'[doomed'] = S[doomed']
         /\ current' # NoThread => CallsSWITCH
         /\ current' = NoThread => status' = S /\ UNCHANGED contextVars
<1>1. current' \in ThreadIds \cup {NoThread} /\ NoThread \notin ThreadIds
      /\ S \in [ThreadIds -> Statuses] /\ fresh \subseteq ThreadIds
  BY InvFacts DEF GivesUp, Placed, PlacedIn, ThreadsInv, Types
<1>2. current' \in ThreadIds => S[current'] = "READY"
  BY <1>1 DEF GivesUp, Left, Awake, AwakeIn
<1>3. d # NoThread => d \in ThreadIds /\ d # current'
  BY <1>1, <1>2 DEF GivesUp
<1>4. CASE current' = NoThread
  BY <1>1, <1>4 DEF Run, Statuses
<1>5. CASE current' \in ThreadIds
  <2> DEFINE R == [S EXCEPT ![current'] = "RUNNING"]
  <2>1. /\ R \in [ThreadIds -> Statuses]
        /\ \A t \in ThreadIds : R[t] = IF t = current' THEN "RUNNING" ELSE S[t]
    BY <1>1, <1>5 DEF Statuses
  <2>2. current' # NoThread
    BY <1>1, <1>5
  <2>3. /\ CallsSWITCH
        /\ \/ current' \in fresh /\ status' = R /\ doomed' = d /\ fresh' = fresh \ {current'}
           \/ /\ current' \notin fresh
              /\ status' = [t \in ThreadIds |-> IF t = d THEN "none" ELSE R[t]]
              /\ doomed' = NoThread /\ fresh' = fresh
    BY <2>2 DEF Run
  <2> HIDE DEF R
  <2>4. CASE current' \in fresh
    BY <1>1, <1>3, <2>1, <2>2, <2>3, <2>4
  <2>5. CASE current' \notin fresh
    <3>1. status' \in [ThreadIds -> Statuses]
      BY <2>1, <2>3, <2>5 DEF Statuses
    <3>2. \A t \in ThreadIds : status'[t] = IF t = d THEN "none" ELSE R[t]
      BY <2>3, <2>5
    <3> QED BY <1>1, <1>3, <2>1, <2>2, <2>3, <2>5, <3>1, <3>2
  <2> QED BY <2>4, <2>5
<1> QED BY <1>1, <1>4, <1>5

\* Every thread is in its place after Run, if the semaphore's queue has those
\* that are blocked in P.
LEMMA RunPlaces ==
  ASSUME ThreadsInv, NEW S, NEW d, GivesUp(S, d), Run(S, d),
         Distinct(sem'.queue), sem' \in SemsOf(ThreadIds),
         \A t \in ThreadIds : S[t] = "BLOCKED" /\ pc'[t] = "P" <=> t \in Elems(sem'.queue)
  PROVE  Placed' /\ Types' /\ Places' /\ DoomedIsDead'
<1>1. Placed' /\ NoThread \notin ThreadIds /\ fresh \subseteq ThreadIds
      /\ pc' \in [ThreadIds -> Points] /\ d \in ThreadIds \cup {NoThread}
  BY InvFacts DEF GivesUp, ThreadsInv, Types
<1>2. Types'
  BY <1>1, RunStatus DEF Types
<1>3. DoomedIsDead'
  BY RunStatus DEF DoomedIsDead, GivesUp
<1>4. ASSUME NEW t \in ThreadIds PROVE Place(t)'
  <2>1. Left(S, t) /\ (t = d => pc'[t] = "finished" /\ S[t] = "BLOCKED")
    BY <1>1 DEF GivesUp
  <2>2. t \in Awake' <=> t \in Elems(ready') \/ t = current'
    BY DEF Awake, AwakeIn
  <2>3. t = current' => t \notin Elems(ready')
    BY <1>1 DEF Placed, PlacedIn
  <2>4. IF t = current' THEN status'[t] = "RUNNING"
        ELSE status'[t] = S[t] \/ (t = d /\ status'[t] = "none")
    BY RunStatus
  <2>5. t \in fresh' <=> t \in fresh /\ t # current'
    BY RunStatus
  <2> QED BY <2>1, <2>2, <2>3, <2>4, <2>5 DEF Place, Left
<1> QED BY <1>1, <1>2, <1>3, <1>4 DEF Places

\* Run leaves the contexts of the threads that are switched out alone, and
\* gives its own to the one that it switches to.
LEMMA RunContexts ==
  ASSUME ThreadsInv, NEW S, NEW d, GivesUp(S, d), Run(S, d),
         current = NoThread => pc' = pc
  PROVE  Contexts' /\ OwnSwitch
<1> DEFINE o == Old
           n == current'
<1>1. /\ Contexts /\ NoThread \notin ThreadIds /\ o \in ThreadIds
      /\ n \in ThreadIds \cup {NoThread} /\ current \in ThreadIds \cup {NoThread}
      /\ o \notin fresh /\ fresh \subseteq ThreadIds
      /\ \A t \in ThreadIds : Saved(t) /\ Left(S, t)
  BY InvFacts DEF ThreadsInv, Contexts, GivesUp, Placed, PlacedIn, Types
<1>2. CASE n = NoThread
  <2>1. UNCHANGED contextVars /\ Old' = Old /\ status' = S /\ fresh' = fresh
    BY <1>1, <1>2, RunStatus DEF contextVars, Old
  <2>2. ASSUME NEW t \in ThreadIds PROVE Saved(t)'
    <3>1. Saved(t) /\ (t # Old => status'[t] = status[t] /\ pc'[t] = pc[t])
      BY <1>1, <2>1 DEF Left
    <3> QED BY <2>1, <3>1 DEF Saved, contextVars
  <2>3. status'[Old'] # "none"
    BY <1>1, <2>1 DEF Left, Contexts
  <2> QED BY <1>1, <1>2, <2>1, <2>2, <2>3 DEF Contexts, OwnSwitch, contextVars
<1>3. CASE n \in ThreadIds
  <2>0. n # NoThread
    BY <1>1, <1>3
  <2>1. S[n] = "READY" /\ (n # o => status[n] = "READY" /\ pc'[n] = pc[n])
    BY <1>1, <1>3 DEF Left, Awake, AwakeIn
  <2>2. CallsSWITCH
    BY <2>0, RunStatus
  <2>3. /\ stack' = [stack EXCEPT ![o] = RunPC(o)]
        /\ record' = [record EXCEPT ![o] = Frame(o, CallerOf(pc'[o]))]
        /\ n = o => cpu' = Frame(o, CallerOf(pc'[o]))
        /\ n # o /\ n \in fresh => cpu' = StackAllocate(n)
        /\ n # o /\ n \notin fresh => cpu' = Frame(n, CallerOf(pc[n]))
    BY <1>1, <1>3, <2>1, <2>2, SwitchGives
  <2>4. Old' = n
    <3>1. Old' = cpu'.esp[2]
      BY DEF Old
    <3> HIDE DEF o, n
    <3> QED BY <2>3, <3>1, FrameContext, RootContext
  <2>5. OwnSwitch
    <3>1. ASSUME n \notin {current, NoThread}, n \in fresh PROVE cpu' = StackAllocate(n)
      BY <1>1, <2>3, <3>1
    <3>2. ASSUME n \notin {current, NoThread}, n \notin fresh
          PROVE  cpu' = Frame(n, CallerOf(pc[n]))
      <4>1. n = o => current = NoThread
        BY <1>1, <3>2 DEF Contexts
      <4> QED BY <2>3, <3>2, <4>1
    <3> QED BY <3>1, <3>2, RootContext DEF OwnSwitch
  <2>6. /\ \A t \in ThreadIds : record'[t] = IF t = o THEN Frame(o, CallerOf(pc'[o])) ELSE record[t]
        /\ \A t \in ThreadIds : stack'[t] = IF t = o THEN RunPC(o) ELSE stack[t]
        /\ record' = [t \in ThreadIds |-> record'[t]]
        /\ stack' = [t \in ThreadIds |-> stack'[t]]
    <3> HIDE DEF o
    <3>1. record = [t \in ThreadIds |-> record[t]] /\ stack = [t \in ThreadIds |-> stack[t]]
      BY <1>1 DEF Contexts
    <3> QED BY <1>1, <2>3, <3>1
  <2>7. status'[n] = "RUNNING" /\ fresh' = fresh \ {n}
    BY <1>3, RunStatus
  <2>8. ASSUME NEW t \in ThreadIds, t # n PROVE Saved(t)'
    <3>1. status'[t] = S[t] \/ status'[t] = "none"
      BY <2>8, RunStatus
    <3>2. t \in fresh' <=> t \in fresh
      BY <2>7, <2>8
    <3>3. CASE t = o
      BY <1>1, <2>6, <3>2, <3>3 DEF Saved
    <3>4. CASE t # o
      <4>1. S[t] = status[t] /\ pc'[t] = pc[t] /\ record'[t] = record[t] /\ stack'[t] = stack[t]
        BY <1>1, <2>6, <3>4 DEF Left
      <4> QED BY <1>1, <3>1, <3>2, <3>4, <4>1 DEF Saved
    <3> QED BY <3>3, <3>4
  <2>9. ASSUME NEW t \in ThreadIds, t = n PROVE Saved(t)'
    BY <2>4, <2>9 DEF Saved
  <2> QED BY <1>3, <2>4, <2>5, <2>6, <2>7, <2>8, <2>9 DEF Contexts
<1> QED BY <1>1, <1>2, <1>3

-----------------------------------------------------------------------------
(* How a thread loses the CPU.                                             *)

\* In Sleep, called by P or by Finish.
LEMMA SleepGives ==
  ASSUME ThreadsInv, NEW t \in ThreadIds, current = t, Sleep,
         NEW l \in {"P", "finished"}, pc' = [pc EXCEPT ![t] = l],
         NEW d, d = doomed \/ (d = t /\ l = "finished")
  PROVE  /\ GivesUp([status EXCEPT ![t] = "BLOCKED"], d)
         /\ Awake' = Awake \ {t} /\ t \in Awake
<1> DEFINE S == [status EXCEPT ![t] = "BLOCKED"]
<1>1. /\ Placed /\ NoThread \notin ThreadIds /\ Old = t
      /\ status \in [ThreadIds -> Statuses] /\ pc \in [ThreadIds -> Points]
      /\ doomed \in ThreadIds \cup {NoThread}
      /\ status[t] = "RUNNING" /\ pc[t] # "finished" /\ t \in Awake /\ t \notin fresh
  BY InvFacts DEF ThreadsInv, Types, Contexts, Place
<1>2. Placed' /\ Awake' = Awake \ {t}
  BY <1>1, SleepIn DEF Placed, Awake
<1>3. /\ S \in [ThreadIds -> Statuses] /\ S[t] = "BLOCKED"
      /\ \A u \in ThreadIds : u # t => S[u] = status[u]
      /\ pc' \in [ThreadIds -> Points] /\ pc'[t] = l
      /\ \A u \in ThreadIds : u # t => pc'[u] = pc[u]
  BY <1>1 DEF Statuses, Points
<1> HIDE DEF S
<1>4. ASSUME NEW u \in ThreadIds PROVE Left(S, u)
  <2>1. Place(u) /\ (u \in Awake <=> status[u] \in {"READY", "RUNNING"})
    BY InvFacts
  <2>2. u # t => status[u] # "RUNNING"
    BY <2>1 DEF Place
  <2> QED BY <1>1, <1>2, <1>3, <2>1, <2>2 DEF Place, Left
<1>5. d \in ThreadIds \cup {NoThread}
      /\ (d # NoThread => pc'[d] = "finished" /\ S[d] = "BLOCKED")
  BY <1>1, <1>3 DEF ThreadsInv, DoomedIsDead
<1> QED BY <1>1, <1>2, <1>3, <1>4, <1>5 DEF GivesUp, S

\* In Yield, called by the thread or for the timer.
LEMMA YieldGives ==
  ASSUME ThreadsInv, NEW t \in ThreadIds, current = t, Yield, pc' = pc
  PROVE  GivesUp([status EXCEPT ![t] = "READY"], doomed) /\ Awake' = Awake
<1> DEFINE S == [status EXCEPT ![t] = "READY"]
<1>1. /\ Placed /\ NoThread \notin ThreadIds /\ Old = t
      /\ status \in [ThreadIds -> Statuses] /\ pc \in [ThreadIds -> Points]
      /\ doomed \in ThreadIds \cup {NoThread}
      /\ status[t] = "RUNNING" /\ pc[t] # "finished" /\ t \in Awake /\ t \notin fresh
  BY InvFacts DEF ThreadsInv, Types, Contexts, Place
<1>2. Placed' /\ Awake' = Awake
  BY <1>1, YieldIn DEF Placed, Awake
<1>3. /\ S \in [ThreadIds -> Statuses] /\ S[t] = "READY"
      /\ \A u \in ThreadIds : u # t => S[u] = status[u]
  BY <1>1 DEF Statuses
<1> HIDE DEF S
<1>4. ASSUME NEW u \in ThreadIds PROVE Left(S, u)
  <2>1. Place(u) /\ (u \in Awake <=> status[u] \in {"READY", "RUNNING"})
    BY InvFacts
  <2> QED BY <1>1, <1>2, <1>3, <2>1 DEF Place, Left
<1>5. doomed # NoThread => pc'[doomed] = "finished" /\ S[doomed] = "BLOCKED"
  BY <1>1, <1>3 DEF ThreadsInv, DoomedIsDead
<1> QED BY <1>1, <1>2, <1>3, <1>4, <1>5 DEF GivesUp, S

\* The idle loop gives the CPU away on the stack of the thread that slept.
LEMMA DispatchGives ==
  ASSUME ThreadsInv, Dispatch, pc' = pc
  PROVE  GivesUp(status, doomed) /\ Awake' = Awake
<1>1. /\ Placed /\ NoThread \notin ThreadIds /\ current = NoThread
      /\ status \in [ThreadIds -> Statuses] /\ pc \in [ThreadIds -> Points]
      /\ doomed \in ThreadIds \cup {NoThread}
  BY InvFacts DEF ThreadsInv, Types, Dispatch
<1>2. Placed' /\ Awake' = Awake
  BY <1>1, DispatchIn DEF Placed, Awake
<1>3. ASSUME NEW u \in ThreadIds PROVE Left(status, u)
  <2>1. Place(u) /\ (u \in Awake <=> status[u] \in {"READY", "RUNNING"})
    BY InvFacts
  <2> QED BY <1>1, <1>2, <2>1 DEF Place, Left
<1>4. doomed # NoThread => pc'[doomed] = "finished" /\ status[doomed] = "BLOCKED"
  BY DEF ThreadsInv, DoomedIsDead
<1> QED BY <1>1, <1>2, <1>3, <1>4 DEF GivesUp

-----------------------------------------------------------------------------
(* Wakeups.                                                                *)

\* The woken threads are those awake in P; they are finitely many.
LEMMA WokenAwake ==
  ASSUME ThreadsInv
  PROVE  /\ Woken = {t \in ThreadIds : pc[t] = "P" /\ t \in Awake}
         /\ IsFiniteSet(Woken) /\ Cardinality(Woken) \in Nat
<1>1. Woken = {t \in ThreadIds : pc[t] = "P" /\ t \in Awake}
  BY InvFacts DEF Woken
<1>2. IsFiniteSet(ThreadIds) /\ Woken \in SUBSET ThreadIds
  BY InvFacts DEF Woken
<1> QED BY <1>1, <1>2, FS_Subset, FS_CardinalityType

\* A finite set loses at most one element with x.
LEMMA CountWithout ==
  ASSUME NEW S, IsFiniteSet(S), NEW x
  PROVE  /\ Cardinality(S \ {x}) \in Nat /\ Cardinality(S) \in Nat
         /\ Cardinality(S) <= Cardinality(S \ {x}) + 1
<1>1. /\ IsFiniteSet(S \ {x})
      /\ Cardinality(S \ {x}) = IF x \in S THEN Cardinality(S) - 1 ELSE Cardinality(S)
  BY FS_RemoveElement, Zenon
<1>2. Cardinality(S) \in Nat /\ Cardinality(S \ {x}) \in Nat
  BY <1>1, FS_CardinalityType
<1> QED BY <1>1, <1>2

\* A finite set has one element more with a new one.
LEMMA CountWith ==
  ASSUME NEW S, IsFiniteSet(S), NEW x, x \notin S
  PROVE  Cardinality(S) \in Nat /\ Cardinality(S \cup {x}) = Cardinality(S) + 1
<1>1. Cardinality(S \cup {x}) = IF x \in S THEN Cardinality(S) ELSE Cardinality(S) + 1
  BY FS_AddElement, Zenon
<1> QED BY <1>1, FS_CardinalityType

\* After a step the same holds, once every thread is in its place.
LEMMA WokenNext ==
  ASSUME Places'
  PROVE  Woken' = {t \in ThreadIds : pc'[t] = "P" /\ t \in Awake'}
<1>1. \A t \in ThreadIds : t \in Awake' <=> status'[t] \in {"READY", "RUNNING"}
  BY DEF Places, Place, Awake, AwakeIn
<1> QED BY <1>1 DEF Woken

\* A step that leaves the semaphore alone, and those awake in P, loses no
\* wakeup.
LEMMA WakeupsKept ==
  ASSUME ThreadsInv, Places', sem' = sem,
         \A t \in ThreadIds : pc'[t] = "P" /\ t \in Awake' <=> pc[t] = "P" /\ t \in Awake
  PROVE  NoLostWakeup'
<1>1. Woken' = Woken
  BY WokenAwake, WokenNext
<1> QED BY <1>1 DEF ThreadsInv, NoLostWakeup

-----------------------------------------------------------------------------
(* The actions.                                                            *)

\* A thread loses the CPU and the semaphore is left alone.
LEMMA RunInv ==
  ASSUME ThreadsInv, NEW S, NEW d, GivesUp(S, d), Run(S, d), sem' = sem,
         current = NoThread => pc' = pc,
         \A t \in ThreadIds :
           /\ S[t] = "BLOCKED" /\ pc'[t] = "P" <=> status[t] = "BLOCKED" /\ pc[t] = "P"
           /\ pc'[t] = "P" /\ t \in Awake' <=> pc[t] = "P" /\ t \in Awake
  PROVE  ThreadsInv' /\ OwnSwitch
<1>1. \A t \in ThreadIds : S[t] = "BLOCKED" /\ pc'[t] = "P" <=> t \in Elems(sem'.queue)
  BY InvFacts DEF Place
<1>2. Distinct(sem'.queue) /\ sem' \in SemsOf(ThreadIds)
  BY DEF ThreadsInv, Types, Places
<1>3. Placed' /\ Types' /\ Places' /\ DoomedIsDead'
  BY <1>1, <1>2, RunPlaces
<1>4. Contexts' /\ OwnSwitch
  BY RunContexts
<1>5. NoLostWakeup'
  BY <1>3, WakeupsKept
<1> QED BY <1>3, <1>4, <1>5 DEF ThreadsInv

\* Yield, by the thread or for the timer.
LEMMA YieldInv ==
  ASSUME ThreadsInv, NEW t \in ThreadIds, current = t, Yield, UNCHANGED <<pc, sem>>,
         Run([status EXCEPT ![t] = "READY"], doomed)
  PROVE  ThreadsInv' /\ OwnSwitch
<1> DEFINE S == [status EXCEPT ![t] = "READY"]
<1>1. GivesUp(S, doomed) /\ Awake' = Awake /\ Run(S, doomed) /\ pc' = pc /\ sem' = sem
  BY YieldGives
<1>2. \A u \in ThreadIds : S[u] = "BLOCKED" <=> status[u] = "BLOCKED"
  <2>1. status \in [ThreadIds -> Statuses] /\ status[t] = "RUNNING"
    BY InvFacts DEF ThreadsInv, Types, Place
  <2> QED BY <2>1
<1> HIDE DEF S
<1> QED BY <1>1, <1>2, RunInv

\* Finish.
LEMMA FinishInv ==
  ASSUME ThreadsInv, NEW t \in ThreadIds, Finish(t)
  PROVE  ThreadsInv' /\ OwnSwitch
<1> DEFINE S == [status EXCEPT ![t] = "BLOCKED"]
<1>1. /\ current = t /\ pc[t] = "body" /\ pc' = [pc EXCEPT ![t] = "finished"]
      /\ Sleep /\ Run(S, t) /\ sem' = sem
  BY DEF Finish, Running
<1>2. GivesUp(S, t) /\ Awake' = Awake \ {t}
  BY <1>1, SleepGives
<1>3. /\ status \in [ThreadIds -> Statuses] /\ pc \in [ThreadIds -> Points]
      /\ current # NoThread
  BY <1>1, InvFacts DEF ThreadsInv, Types
<1>4. /\ \A u \in ThreadIds : u # t => S[u] = status[u] /\ pc'[u] = pc[u]
      /\ pc'[t] = "finished"
  BY <1>1, <1>3
<1> HIDE DEF S
<1>5. \A u \in ThreadIds :
        /\ S[u] = "BLOCKED" /\ pc'[u] = "P" <=> status[u] = "BLOCKED" /\ pc[u] = "P"
        /\ pc'[u] = "P" /\ u \in Awake' <=> pc[u] = "P" /\ u \in Awake
  BY <1>1, <1>2, <1>4
<1> QED BY <1>1, <1>2, <1>3, <1>5, RunInv

\* The end of the idle loop.
LEMMA WakeUpInv ==
  ASSUME ThreadsInv, WakeUp
  PROVE  ThreadsInv' /\ OwnSwitch
<1>1. Dispatch /\ pc' = pc /\ sem' = sem /\ Run(status, doomed)
  BY DEF WakeUp
<1> QED BY <1>1, DispatchGives, RunInv

\* The constructor.
LEMMA NewInv ==
  ASSUME ThreadsInv, NEW t \in ThreadIds, NEW c \in ThreadIds, New(t, c)
  PROVE  ThreadsInv' /\ current' = current
<1>1. /\ status[c] = "none"
      /\ status' = [status EXCEPT ![c] = "JUST_CREATED"]
      /\ fresh' = fresh \cup {c}
      /\ pc' = [pc EXCEPT ![c] = "body"]
      /\ record' = [record EXCEPT ![c] = Junk(c)]
      /\ stack' = [stack EXCEPT ![c] = Junk(c).PC]
      /\ current' = current /\ ready' = ready /\ doomed' = doomed /\ sem' = sem /\ cpu' = cpu
  BY DEF New, schedVars
<1>2. /\ status \in [ThreadIds -> Statuses] /\ pc \in [ThreadIds -> Points]
      /\ fresh \subseteq ThreadIds
      /\ record = [u \in ThreadIds |-> record[u]] /\ stack = [u \in ThreadIds |-> stack[u]]
  BY DEF ThreadsInv, Types, Contexts
<1>3. /\ status' \in [ThreadIds -> Statuses] /\ pc' \in [ThreadIds -> Points]
      /\ status'[c] = "JUST_CREATED" /\ pc'[c] = "body"
      /\ \A u \in ThreadIds : u # c => status'[u] = status[u] /\ pc'[u] = pc[u]
  BY <1>1, <1>2 DEF Statuses, Points
<1>4. /\ record' = [u \in ThreadIds |-> record'[u]]
      /\ stack' = [u \in ThreadIds |-> stack'[u]]
      /\ \A u \in ThreadIds : u # c => record'[u] = record[u] /\ stack'[u] = stack[u]
  BY <1>1, <1>2
<1>5. Placed' /\ Awake' = Awake
  BY <1>1 DEF ThreadsInv, Placed, PlacedIn, Awake, AwakeIn
<1>6. Types'
  BY <1>1, <1>2, <1>3 DEF ThreadsInv, Types
<1>7. Places'
  <2>1. ASSUME NEW u \in ThreadIds PROVE Place(u)'
    <3>1. Place(u) /\ (u \in Awake <=> status[u] \in {"READY", "RUNNING"})
      BY InvFacts
    <3> QED BY <1>1, <1>3, <1>5, <3>1 DEF Place
  <2> QED BY <1>1, <2>1 DEF Places, ThreadsInv
<1>8. DoomedIsDead'
  <2>1. doomed # NoThread => doomed # c /\ doomed \in ThreadIds
    BY <1>1 DEF ThreadsInv, DoomedIsDead, Types
  <2> QED BY <1>1, <1>3, <2>1 DEF ThreadsInv, DoomedIsDead
<1>9. Contexts'
  <2>1. Old' = Old /\ Old \in ThreadIds /\ Old # c
    BY <1>1 DEF Old, ThreadsInv, Contexts
  <2>2. ASSUME NEW u \in ThreadIds PROVE Saved(u)'
    <3>1. Saved(u) /\ (u \in fresh' <=> u \in fresh \/ u = c)
      BY <1>1 DEF ThreadsInv, Contexts
    <3> QED BY <1>3, <1>4, <2>1, <3>1 DEF Saved
  <2> QED BY <1>1, <1>3, <1>4, <2>1, <2>2 DEF ThreadsInv, Contexts
<1>10. NoLostWakeup'
  <2>1. \A u \in ThreadIds : pc'[u] = "P" /\ u \in Awake' <=> pc[u] = "P" /\ u \in Awake
    BY <1>1, <1>3, <1>5, InvFacts
  <2> QED BY <1>1, <1>7, <2>1, WakeupsKept
<1> QED BY <1>1, <1>5, <1>6, <1>7, <1>8, <1>9, <1>10 DEF ThreadsInv

\* Fork.
LEMMA ForkInv ==
  ASSUME ThreadsInv, NEW t \in ThreadIds, NEW c \in ThreadIds, Fork(t, c)
  PROVE  ThreadsInv' /\ current' = current
<1>1. /\ status[c] = "JUST_CREATED"
      /\ status' = [status EXCEPT ![c] = "READY"]
      /\ record' = [record EXCEPT ![c] = StackAllocate(c)]
      /\ stack' = [stack EXCEPT ![c] = ThreadRoot(c)]
      /\ Continue(<<c>>) /\ current' = current
      /\ fresh' = fresh /\ pc' = pc /\ doomed' = doomed /\ sem' = sem /\ cpu' = cpu
  BY DEF Fork, Continue
<1>2. /\ status \in [ThreadIds -> Statuses]
      /\ record = [u \in ThreadIds |-> record[u]] /\ stack = [u \in ThreadIds |-> stack[u]]
      /\ NoThread \notin ThreadIds
      /\ c \in fresh /\ pc[c] = "body" /\ c \notin Awake /\ current # c
  BY <1>1, InvFacts DEF ThreadsInv, Types, Contexts, Place
<1>3. /\ status' \in [ThreadIds -> Statuses] /\ status'[c] = "READY"
      /\ \A u \in ThreadIds : u # c => status'[u] = status[u]
  BY <1>1, <1>2 DEF Statuses
<1>4. /\ record' = [u \in ThreadIds |-> record'[u]]
      /\ stack' = [u \in ThreadIds |-> stack'[u]]
      /\ record'[c] = StackAllocate(c) /\ stack'[c] = ThreadRoot(c)
      /\ \A u \in ThreadIds : u # c => record'[u] = record[u] /\ stack'[u] = stack[u]
  BY <1>1, <1>2
<1>5. Placed' /\ Awake' = Awake \cup {c}
  BY <1>1, <1>2, ContinueIn DEF ThreadsInv, Placed, Awake
<1>6. Types'
  BY <1>1, <1>3 DEF ThreadsInv, Types
<1>7. Places'
  <2>1. ASSUME NEW u \in ThreadIds PROVE Place(u)'
    <3>1. Place(u) /\ (u \in Awake <=> status[u] \in {"READY", "RUNNING"})
      BY InvFacts
    <3>2. u \in Elems(ready') <=> u \in Awake' /\ u # current'
      BY <1>5 DEF Placed, PlacedIn, Awake, AwakeIn
    <3> QED BY <1>1, <1>2, <1>3, <1>5, <3>1, <3>2 DEF Place
  <2> QED BY <1>1, <2>1 DEF Places, ThreadsInv
<1>8. DoomedIsDead'
  <2>1. doomed # NoThread => doomed # c /\ doomed \in ThreadIds
    BY <1>1 DEF ThreadsInv, DoomedIsDead, Types
  <2> QED BY <1>1, <1>3, <2>1 DEF ThreadsInv, DoomedIsDead
<1>9. Contexts'
  <2>1. Old' = Old /\ Old \in ThreadIds /\ Old # c
    BY <1>1, <1>2 DEF Old, ThreadsInv, Contexts
  <2>2. ASSUME NEW u \in ThreadIds PROVE Saved(u)'
    <3>1. Saved(u)
      BY DEF ThreadsInv, Contexts
    <3> QED BY <1>1, <1>2, <1>3, <1>4, <2>1, <3>1 DEF Saved
  <2> QED BY <1>1, <1>3, <1>4, <2>1, <2>2 DEF ThreadsInv, Contexts
<1>10. NoLostWakeup'
  BY <1>1, <1>2, <1>5, <1>7, WakeupsKept
<1> QED BY <1>1, <1>5, <1>6, <1>7, <1>8, <1>9, <1>10 DEF ThreadsInv

\* P() finds a permit.
LEMMA TakeInv ==
  ASSUME ThreadsInv, NEW t \in ThreadIds, current = t, TryP(t), sem.value > 0
  PROVE  ThreadsInv' /\ current' = current
<1>1. /\ sem' = PTake(sem) /\ pc' = [pc EXCEPT ![t] = "body"] /\ Continue(<<>>)
      /\ status' = status /\ fresh' = fresh /\ doomed' = doomed
      /\ cpu' = cpu /\ record' = record /\ stack' = stack /\ current' = current
  BY DEF TryP, Continue, contextVars
<1>2. /\ NoThread \notin ThreadIds /\ pc \in [ThreadIds -> Points] /\ sem \in SemsOf(ThreadIds)
      /\ Place(t) /\ t \in Awake /\ Old = t
  BY InvFacts DEF ThreadsInv, Types, Place, Contexts
<1>3. /\ pc' \in [ThreadIds -> Points] /\ pc'[t] = "body"
      /\ \A u \in ThreadIds : u # t => pc'[u] = pc[u]
  BY <1>1, <1>2 DEF Points
<1>4. sem' \in SemsOf(ThreadIds) /\ sem'.value = sem.value - 1 /\ sem'.queue = sem.queue
  BY <1>1, <1>2, TakeSem
<1>5. Placed' /\ Awake' = Awake
  BY <1>1, <1>2, ContinueIn DEF ThreadsInv, Placed, Awake
<1>6. Types'
  BY <1>1, <1>3, <1>4 DEF ThreadsInv, Types
<1>7. Places'
  <2>1. ASSUME NEW u \in ThreadIds PROVE Place(u)'
    <3>1. Place(u) /\ (u \in Awake <=> status[u] \in {"READY", "RUNNING"})
      BY InvFacts
    <3>2. u \in Elems(ready') <=> u \in Awake' /\ u # current'
      BY <1>5 DEF Placed, PlacedIn, Awake, AwakeIn
    <3> QED BY <1>1, <1>2, <1>3, <1>4, <1>5, <3>1, <3>2 DEF Place
  <2> QED BY <1>4, <2>1 DEF Places, ThreadsInv
<1>8. DoomedIsDead'
  <2>1. doomed # NoThread => doomed # t /\ doomed \in ThreadIds
    BY <1>2 DEF ThreadsInv, DoomedIsDead, Types, Place
  <2> QED BY <1>1, <1>3, <2>1 DEF ThreadsInv, DoomedIsDead
<1>9. Contexts'
  <2>1. Old' = Old /\ Old = t
    BY <1>1, <1>2 DEF Old
  <2>2. ASSUME NEW u \in ThreadIds PROVE Saved(u)'
    <3>1. Saved(u)
      BY DEF ThreadsInv, Contexts
    <3> QED BY <1>1, <1>3, <2>1, <3>1 DEF Saved
  <2> QED BY <1>1, <2>1, <2>2 DEF ThreadsInv, Contexts
<1>10. ASSUME sem'.queue # <<>> PROVE sem'.value <= Cardinality(Woken')
  <2>1. sem.value <= Cardinality(Woken) /\ sem.value \in Nat
    BY <1>4, <1>10, InvFacts DEF ThreadsInv, NoLostWakeup
  <2>2. Woken' = Woken \ {t}
    BY <1>2, <1>3, <1>5, <1>7, WokenAwake, WokenNext
  <2>3. /\ Cardinality(Woken \ {t}) \in Nat /\ Cardinality(Woken) \in Nat
        /\ Cardinality(Woken) <= Cardinality(Woken \ {t}) + 1
    BY WokenAwake, CountWithout
  <2> QED BY <1>4, <2>1, <2>2, <2>3
<1> QED BY <1>1, <1>5, <1>6, <1>7, <1>8, <1>9, <1>10 DEF ThreadsInv, NoLostWakeup

\* P() finds none: the thread queues and sleeps.
LEMMA QueueInv ==
  ASSUME ThreadsInv, NEW t \in ThreadIds, current = t, TryP(t), ~(sem.value > 0)
  PROVE  ThreadsInv' /\ OwnSwitch
<1> DEFINE S == [status EXCEPT ![t] = "BLOCKED"]
<1>1. /\ sem' = PQueue(sem, t) /\ pc' = [pc EXCEPT ![t] = "P"]
      /\ Sleep /\ Run(S, doomed)
  BY DEF TryP
<1>2. GivesUp(S, doomed)
  BY <1>1, SleepGives
<1>3. /\ status \in [ThreadIds -> Statuses] /\ pc \in [ThreadIds -> Points]
      /\ sem \in SemsOf(ThreadIds) /\ sem.queue \in Seq(ThreadIds) /\ sem.value = 0
      /\ Distinct(sem.queue) /\ current # NoThread
      /\ status[t] = "RUNNING" /\ t \notin Elems(sem.queue)
  BY InvFacts DEF ThreadsInv, Types, Places, Place
<1>4. /\ \A u \in ThreadIds : u # t => S[u] = status[u] /\ pc'[u] = pc[u]
      /\ S[t] = "BLOCKED" /\ pc'[t] = "P"
  BY <1>1, <1>3
<1>5. /\ sem' \in SemsOf(ThreadIds) /\ sem'.value = 0
      /\ sem'.queue = Append(sem.queue, t)
  <2>1. /\ PQueue(sem, t) \in SemsOf(ThreadIds) /\ PQueue(sem, t).value = sem.value
        /\ PQueue(sem, t).queue = Append(sem.queue, t)
    BY <1>3, QueueSem, Zenon
  <2> QED BY <1>1, <1>3, <2>1
<1>6. Distinct(sem'.queue) /\ Elems(sem'.queue) = Elems(sem.queue) \cup {t}
  BY <1>3, <1>5, AppendElems
<1> HIDE DEF S
<1>7. \A u \in ThreadIds : S[u] = "BLOCKED" /\ pc'[u] = "P" <=> u \in Elems(sem'.queue)
  BY <1>4, <1>6, InvFacts DEF Place
<1>8. Placed' /\ Types' /\ Places' /\ DoomedIsDead'
  BY <1>1, <1>2, <1>5, <1>6, <1>7, RunPlaces
<1>9. Contexts' /\ OwnSwitch
  BY <1>1, <1>2, <1>3, RunContexts
<1>10. NoLostWakeup'
  <2>1. IsFiniteSet(ThreadIds) /\ Woken' \in SUBSET ThreadIds
    BY InvFacts DEF Woken
  <2>2. Cardinality(Woken') \in Nat
    BY <2>1, FS_Subset, FS_CardinalityType
  <2> QED BY <1>5, <2>2 DEF NoLostWakeup
<1> QED BY <1>8, <1>9, <1>10 DEF ThreadsInv

\* V(), by a thread or a handler.
LEMMA SignalInv ==
  ASSUME ThreadsInv, Signal
  PROVE  ThreadsInv' /\ current' = current
<1> DEFINE q == sem.queue
           w == {VWoken(sem)[k] : k \in DOMAIN VWoken(sem)}
<1>1. /\ sem' = VSignal(sem) /\ Continue(VWoken(sem)) /\ current' = current
      /\ status' = [t \in ThreadIds |-> IF t \in w THEN "READY" ELSE status[t]]
      /\ fresh' = fresh /\ pc' = pc /\ doomed' = doomed
      /\ cpu' = cpu /\ record' = record /\ stack' = stack
  BY DEF Signal, Continue, contextVars
<1>2. /\ sem \in SemsOf(ThreadIds) /\ q \in Seq(ThreadIds) /\ sem.value \in Nat
      /\ Distinct(q) /\ Elems(q) \subseteq ThreadIds
      /\ status \in [ThreadIds -> Statuses] /\ Placed /\ NoThread \notin ThreadIds
      /\ \A u \in Elems(q) : status[u] = "BLOCKED" /\ pc[u] = "P" /\ u \notin Awake
  BY InvFacts DEF ThreadsInv, Types, Places, Place
<1>3. /\ sem' \in SemsOf(ThreadIds) /\ sem'.value = sem.value + 1
      /\ q = <<>> => sem'.queue = <<>> /\ VWoken(sem) = <<>>
      /\ q # <<>> => sem'.queue = Tail(q) /\ VWoken(sem) = <<Head(q)>>
  BY <1>1, <1>2, SignalSem
<1>4. /\ w \subseteq Elems(q) /\ Distinct(sem'.queue) /\ Elems(sem'.queue) = Elems(q) \ w
      /\ Placed' /\ Awake' = Awake \cup w
      /\ q # <<>> => \E u \in ThreadIds \ Awake : w = {u}
  <2>1. CASE q = <<>>
    <3>1. w = {} /\ Elems(<<>>) = {} /\ Distinct(<<>>)
      BY <1>3, <2>1 DEF Elems, Distinct
    <3>2. Placed' /\ Awake' = Awake
      BY <1>1, <1>2, <1>3, <2>1, ContinueIn DEF Placed, Awake
    <3> QED BY <1>3, <2>1, <3>1, <3>2
  <2>2. CASE q # <<>>
    <3> DEFINE h == Head(q)
    <3>1. w = {h}
      BY <1>3, <2>2
    <3>2. /\ h \in ThreadIds /\ h \in Elems(q) /\ Elems(q) = Elems(Tail(q)) \cup {h}
          /\ Distinct(Tail(q)) /\ h \notin Elems(Tail(q))
      BY <1>2, <2>2, TailElems
    <3> HIDE DEF h, w, q
    <3>3. Placed' /\ Awake' = Awake \cup {h}
      <4>1. Continue(<<h>>) /\ h \in ThreadIds \ Awake
        BY <1>1, <1>2, <1>3, <2>2, <3>2 DEF h
      <4> QED BY <1>2, <4>1, ContinueIn DEF Placed, Awake
    <3> QED BY <1>2, <1>3, <2>2, <3>1, <3>2, <3>3
  <2> QED BY <2>1, <2>2
<1> HIDE DEF w
<1>5. /\ status' \in [ThreadIds -> Statuses]
      /\ \A u \in ThreadIds : status'[u] = IF u \in w THEN "READY" ELSE status[u]
  BY <1>1, <1>2 DEF Statuses
<1> HIDE DEF q
<1>6. Types'
  BY <1>1, <1>3, <1>5 DEF ThreadsInv, Types
<1>7. Places'
  <2>1. ASSUME NEW u \in ThreadIds PROVE Place(u)'
    <3>1. Place(u) /\ (u \in Awake <=> status[u] \in {"READY", "RUNNING"})
      BY InvFacts
    <3>2. u \in Elems(ready') <=> u \in Awake' /\ u # current'
      BY <1>4 DEF Placed, PlacedIn, Awake, AwakeIn
    <3>3. u \in w => status[u] = "BLOCKED" /\ pc[u] = "P" /\ u \notin fresh
      BY <1>2, <1>4, <3>1 DEF Place
    <3>4. u \in Elems(sem'.queue) <=> u \in Elems(sem.queue) /\ u \notin w
      BY <1>4 DEF q
    <3> QED BY <1>1, <1>4, <1>5, <3>1, <3>2, <3>3, <3>4 DEF Place
  <2> QED BY <1>4, <2>1 DEF Places
<1>8. DoomedIsDead'
  <2>1. doomed # NoThread => doomed \notin w /\ doomed \in ThreadIds
    BY <1>2, <1>4 DEF ThreadsInv, DoomedIsDead, Types
  <2> QED BY <1>1, <1>5, <2>1 DEF ThreadsInv, DoomedIsDead
<1>9. Contexts'
  <2>1. Old' = Old
    BY <1>1 DEF Old
  <2>2. ASSUME NEW u \in ThreadIds PROVE Saved(u)'
    <3>1. Saved(u) /\ Place(u) /\ (u \in w => status[u] = "BLOCKED")
      BY <1>2, <1>4, InvFacts DEF ThreadsInv, Contexts
    <3> QED BY <1>1, <1>5, <2>1, <3>1 DEF Saved, Place
  <2> QED BY <1>1, <1>5, <2>1, <2>2 DEF ThreadsInv, Contexts
<1>10. ASSUME sem'.queue # <<>> PROVE sem'.value <= Cardinality(Woken')
  <2>1. PICK u \in ThreadIds \ Awake : w = {u}
    BY <1>3, <1>4, <1>10
  <2>2. sem.value <= Cardinality(Woken) /\ IsFiniteSet(Woken) /\ u \notin Woken
    BY <1>3, <1>10, <2>1, WokenAwake DEF ThreadsInv, NoLostWakeup, q
  <2>3. Woken' = Woken \cup {u}
    BY <1>1, <1>2, <1>4, <1>7, <2>1, WokenAwake, WokenNext
  <2>4. Cardinality(Woken) \in Nat /\ Cardinality(Woken \cup {u}) = Cardinality(Woken) + 1
    BY <2>2, CountWith
  <2> QED BY <1>2, <1>3, <2>2, <2>3, <2>4
<1> QED BY <1>1, <1>4, <1>6, <1>7, <1>8, <1>9, <1>10 DEF ThreadsInv, NoLostWakeup

-----------------------------------------------------------------------------
(* The theorems.                                                           *)

\* Main has the CPU, on its own stack, and nobody waits.
LEMMA InitInv == Init => ThreadsInv
<1> SUFFICES ASSUME Init PROVE ThreadsInv
  OBVIOUS
<1> USE ThreadsAssumption DEF Init
<1>1. Elems(<<>>) = {} /\ Distinct(<<>>) /\ <<>> \in Seq(ThreadIds)
  BY DEF Elems, Distinct
<1>2. sem \in SemsOf(ThreadIds) /\ sem.queue = <<>>
  BY <1>1 DEF Semaphore, SemsOf
<1>3. Old = Main
  BY DEF Old, Junk, Registers, StackOf
<1>4. Placed
  BY <1>1 DEF Placed, PlacedIn
<1>5. Types
  BY <1>2 DEF Types, Statuses, Points
<1>6. Places
  BY <1>1, <1>2 DEF Places, Place, Awake, AwakeIn
<1>7. Contexts
  BY <1>3 DEF Contexts, Saved
<1> QED BY <1>2, <1>4, <1>5, <1>6, <1>7 DEF ThreadsInv, DoomedIsDead, NoLostWakeup

\* Every step keeps the invariant and is what OwnContext allows.
LEMMA NextInv ==
  ASSUME ThreadsInv, [Next]_vars
  PROVE  ThreadsInv' /\ OwnSwitch
<1>0. ASSUME ThreadsInv', current' = current PROVE ThreadsInv' /\ OwnSwitch
  BY <1>0 DEF OwnSwitch
<1>1. ASSUME NEW t \in ThreadIds, NEW c \in ThreadIds, New(t, c) \/ Fork(t, c)
      PROVE  ThreadsInv' /\ OwnSwitch
  BY <1>0, <1>1, NewInv, ForkInv
<1>2. ASSUME NEW t \in ThreadIds, YieldCPU(t) PROVE ThreadsInv' /\ OwnSwitch
  BY <1>2, YieldInv DEF YieldCPU, Running
<1>3. ASSUME NEW t \in ThreadIds, Finish(t) PROVE ThreadsInv' /\ OwnSwitch
  BY <1>3, FinishInv
<1>4. ASSUME NEW t \in ThreadIds, P(t) \/ Retry(t) PROVE ThreadsInv' /\ OwnSwitch
  <2>1. current = t /\ TryP(t)
    BY <1>4 DEF P, Retry, Running
  <2> QED BY <1>0, <2>1, TakeInv, QueueInv
<1>5. ASSUME NEW t \in ThreadIds, V(t) PROVE ThreadsInv' /\ OwnSwitch
  BY <1>0, <1>5, SignalInv DEF V
<1>6. CASE HandlerV
  BY <1>0, <1>6, SignalInv DEF HandlerV
<1>7. CASE Preempt
  <2>1. current \in ThreadIds /\ Yield
    BY <1>7 DEF Preempt, TimerYield, Yield, ThreadsInv, Placed, PlacedIn
  <2> QED BY <1>7, <2>1, YieldInv DEF Preempt
<1>8. CASE WakeUp
  BY <1>8, WakeUpInv
<1>9. CASE Idle \/ UNCHANGED vars
  <2>1. UNCHANGED vars
    BY <1>9 DEF Idle
  <2> QED BY <2>1 DEF vars, contextVars, OwnSwitch, ThreadsInv, Placed, PlacedIn, Types,
            Places, Place, Awake, AwakeIn, DoomedIsDead, Contexts, Saved, Old,
            NoLostWakeup, Woken
<1> QED BY <1>1, <1>2, <1>3, <1>4, <1>5, <1>6, <1>7, <1>8, <1>9 DEF Next

\* The inductive invariant: every thread is in its place, threads that are
\* switched out keep their contexts, and the wakeups on the way cover the
\* semaphore's value.
THEOREM ThreadsInvHolds == Spec => []ThreadsInv
<1>1. Init => ThreadsInv
  BY InitInv
<1>2. ThreadsInv /\ [Next]_vars => ThreadsInv'
  BY NextInv
<1> QED BY <1>1, <1>2, PTL DEF Spec

\* A thread is in one place, the one its status tells: New, Fork, Yield,
\* Sleep, Finish, P, V, the timer and the idle loop never put a thread on two
\* lists, or on a list twice, and never leave one behind on a list.
THEOREM EachInOnePlace == Spec => []OnePlace
<1>1. ThreadsInv => OnePlace
  <2> SUFFICES ASSUME ThreadsInv PROVE OnePlace
    OBVIOUS
  <2>1. TypeOK
    BY DEF ThreadsInv, Placed, PlacedIn, Types, TypeOK, Statuses, Points, SemsOf
  <2>2. Once(ready) /\ Once(sem.queue)
    BY DEF ThreadsInv, Placed, PlacedIn, Places, Distinct, Once
  <2>3. \A t \in ThreadIds : /\ In(t, ready) <=> t \in Elems(ready)
                             /\ In(t, sem.queue) <=> t \in Elems(sem.queue)
    BY DEF In, Elems
  <2> QED BY <2>1, <2>2, <2>3, InvFacts DEF OnePlace, Place
<1> QED BY <1>1, ThreadsInvHolds, PTL

\* V() loses no wakeup: while threads wait in P, there is a woken thread for
\* each unit of the value, whoever takes a unit first.
THEOREM WakeupsAreKept == Spec => []NoLostWakeup
<1>1. ThreadsInv => NoLostWakeup
  BY DEF ThreadsInv
<1> QED BY <1>1, ThreadsInvHolds, PTL

\* The stack that the CPU is on is there, a thread is deleted once and only
\* when it has finished, and SWITCH gives a thread the registers it had, or
\* those that Fork prepared for it.
THEOREM SwitchesGiveOwnContext == Spec => OwnContext
<1>1. ThreadsInv /\ ThreadsInv' /\ [Next]_vars =>
        [DoomedIsDead' /\ status'[Old'] # "none" /\ OwnSwitch]_vars
  BY NextInv DEF ThreadsInv, Contexts
<1> QED BY <1>1, ThreadsInvHolds, PTL DEF Spec, OwnContext
=============================================================================
