------------------------------- MODULE SemTable -------------------------------
(***************************************************************************)
(* Named semaphores: STable (threads/stable.cc), Sem (threads/sem.cc) and  *)
(* the system calls CreateSemaphore, Wait and Signal.                      *)
(*                                                                         *)
(* Names are what is left of them after the copy from user memory, which   *)
(* keeps MAX_SEMNAME_LEN characters.  There is no call that deletes a      *)
(* semaphore, and the exit of a process leaves the table alone.            *)
(***************************************************************************)
EXTENDS Scheduler

CONSTANTS ThreadIds,  \* the threads of the processes
          Names,      \* semaphore names
          NoName,     \* a call with a null pointer for a name
          MaxLock,    \* MAX_LOCK
          InitialValues, \* values programs pass to CreateSemaphore
          MaxValue,   \* bound: Signal is called only below this value
          Locks       \* the names that programs use as locks

Slots == 0 .. MaxLock - 1
Null == -1

ASSUME SemTableAssumption ==
  /\ ThreadIds # {} /\ IsFiniteSet(ThreadIds) /\ NoThread \notin ThreadIds
  /\ NoName \notin Names /\ Null \notin Names
  /\ MaxLock \in Nat /\ MaxValue \in Nat
  /\ InitialValues \subseteq Int
  /\ Locks \subseteq Names

VARIABLES bm,       \* STable::bm, the slots whose bit is set
          lockTab,  \* STable::lockTab, the name of each Sem, or Null
          sem,      \* the Semaphore of each Sem
          pc,       \* "user", "wait" (asleep or woken in P) or "gone"
          arg,      \* the slot whose semaphore a "wait" is in
          held      \* history: the locks that a thread has waited for and
                    \* not signalled since

tableVars == <<bm, lockTab, sem>>
vars == <<current, ready, tableVars, pc, arg, held>>

Running(t) == current = t /\ pc[t] = "user"

\* The slots that a scan for name finds; it stops at the first.
Matches(name) == {i \in Slots : lockTab[i] = name}
First(S) == CHOOSE i \in S : \A j \in S : i <= j

\* The slots that programs use as locks.
LockSlots == {i \in Slots : lockTab[i] \in Locks}

\* A thread is past Wait on slot i.
Taken(t, i) == held' = [held EXCEPT ![t] = @ \cup ({i} \cap LockSlots)]

-----------------------------------------------------------------------------
\* The constructor of Sem tests its own member array, which is never NULL:
\* there is always a Semaphore.
Sem(init) == Semaphore(init)

\* Fault: create does not look whether the name is taken.
create_NoScan(t, name, init) ==
  /\ Running(t)
  /\ name \in Locks => init = 1
  /\ IF Slots \subseteq bm
     THEN UNCHANGED tableVars
     ELSE LET id == First(Slots \ bm)
          IN  /\ bm' = bm \cup {id}
              /\ lockTab' = [lockTab EXCEPT ![id] = name]
              /\ sem' = [sem EXCEPT ![id] = Sem(init)]
  /\ UNCHANGED <<schedVars, pc, arg, held>>

\* Fault: create gives a name that exists a new Sem.
create_Again(t, name, init) ==
  LET id == IF Matches(name) # {} THEN First(Matches(name)) ELSE First(Slots \ bm)
  IN  /\ Running(t)
      /\ name \in Locks => init = 1
      /\ IF Slots \subseteq bm
         THEN UNCHANGED tableVars
         ELSE /\ bm' = bm \cup {id}
              /\ lockTab' = [lockTab EXCEPT ![id] = name]
              /\ sem' = [sem EXCEPT ![id] = Sem(init)]
      /\ UNCHANGED <<schedVars, pc, arg, held>>

\* STable::create; the path for a Sem that does not exist is never taken.
\* Programs create a lock with the value 1.
create(t, name, init) ==
  /\ Running(t)
  /\ name \in Locks => init = 1
  /\ IF Matches(name) # {} \/ Slots \subseteq bm
     THEN UNCHANGED tableVars
     ELSE LET id == First(Slots \ bm)
          IN  /\ bm' = bm \cup {id}
              /\ lockTab' = [lockTab EXCEPT ![id] = name]
              /\ sem' = [sem EXCEPT ![id] = Sem(init)]
  /\ UNCHANGED <<schedVars, pc, arg, held>>

\* One turn of the loop in Semaphore::P of the Sem in slot i.
TryP(t, i) ==
  IF sem[i].value > 0
  THEN /\ sem' = [sem EXCEPT ![i] = PTake(@)]
       /\ pc' = [pc EXCEPT ![t] = "user"]
       /\ arg' = [arg EXCEPT ![t] = Null]
       /\ Taken(t, i)
       /\ Continue(<<>>)
  ELSE /\ sem' = [sem EXCEPT ![i] = PQueue(@, t)]
       /\ pc' = [pc EXCEPT ![t] = "wait"]
       /\ arg' = [arg EXCEPT ![t] = i]
       /\ Sleep
       /\ UNCHANGED held

\* STable::wait; a program does not take a lock that it has.
wait(t, name) ==
  /\ Running(t)
  /\ Matches(name) \cap held[t] = {}
  /\ IF Matches(name) = {}
     THEN UNCHANGED <<schedVars, sem, pc, arg, held>>
     ELSE TryP(t, First(Matches(name)))
  /\ UNCHANGED <<bm, lockTab>>

Retry(t) ==
  /\ current = t /\ pc[t] = "wait"
  /\ TryP(t, arg[t])
  /\ UNCHANGED <<bm, lockTab>>

\* Fault: signal wakes nobody.
signal_WakesNobody(t, name) ==
  /\ Running(t)
  /\ IF Matches(name) = {}
     THEN UNCHANGED <<sem, held>>
     ELSE LET i == First(Matches(name))
          IN  /\ i \in LockSlots => i \in held[t]
              /\ sem[i].value < MaxValue
              /\ sem' = [sem EXCEPT ![i].value = @ + 1]
              /\ held' = [held EXCEPT ![t] = @ \ {i}]
  /\ UNCHANGED <<schedVars, bm, lockTab, pc, arg>>

\* STable::signal; a program frees only a lock that it has.
signal(t, name) ==
  /\ Running(t)
  /\ IF Matches(name) = {}
     THEN UNCHANGED <<schedVars, sem, held>>
     ELSE LET i == First(Matches(name))
          IN  /\ i \in LockSlots => i \in held[t]
              /\ sem[i].value < MaxValue
              /\ sem' = [sem EXCEPT ![i] = VSignal(@)]
              /\ held' = [held EXCEPT ![t] = @ \ {i}]
              /\ Continue(VWoken(sem[i]))
  /\ UNCHANGED <<bm, lockTab, pc, arg>>

-----------------------------------------------------------------------------
(* The system calls: a null pointer, or a negative value, is refused.      *)

Refused(t) == Running(t) /\ UNCHANGED vars

SyscallCreateSemaphore(t, name, init) ==
  IF name = NoName \/ init < 0 THEN Refused(t) ELSE create(t, name, init)

SyscallWait(t, name) == IF name = NoName THEN Refused(t) ELSE wait(t, name)

SyscallSignal(t, name) == IF name = NoName THEN Refused(t) ELSE signal(t, name)

\* The process exits; what it has locked stays locked.
Exit(t) ==
  /\ Running(t)
  /\ pc' = [pc EXCEPT ![t] = "gone"]
  /\ Sleep
  /\ UNCHANGED <<tableVars, arg, held>>

-----------------------------------------------------------------------------
Init ==
  /\ current = NoThread
  /\ ready \in {s \in [1 .. Cardinality(ThreadIds) -> ThreadIds] :
                  \A i, j \in DOMAIN s : s[i] = s[j] => i = j}
  /\ bm = {}
  /\ lockTab = [i \in Slots |-> Null]
  /\ sem = [i \in Slots |-> Semaphore(0)]
  /\ pc = [t \in ThreadIds |-> "user"]
  /\ arg = [t \in ThreadIds |-> Null]
  /\ held = [t \in ThreadIds |-> {}]

Switch == Dispatch /\ UNCHANGED <<tableVars, pc, arg, held>>

Preempt ==
  /\ TimerYield
  /\ pc[current] # "wait"
  /\ UNCHANGED <<tableVars, pc, arg, held>>

\* Nothing can run: every process has exited or waits.
Quiet == current = NoThread /\ ready = <<>> /\ UNCHANGED vars

Next ==
  \/ \E t \in ThreadIds, name \in Names \cup {NoName} :
       \/ \E init \in InitialValues : SyscallCreateSemaphore(t, name, init)
       \/ SyscallWait(t, name)
       \/ SyscallSignal(t, name)
  \/ \E t \in ThreadIds : Retry(t) \/ Exit(t)
  \/ Switch
  \/ Preempt
  \/ Quiet

Spec == Init /\ [][Next]_vars

\* Code with interrupts off runs on; the timer goes off again and again.
Fairness ==
  /\ \A t \in ThreadIds : WF_vars(Retry(t))
  /\ WF_vars(Switch)
  /\ SF_vars(Preempt)

FairSpec == Spec /\ Fairness

-----------------------------------------------------------------------------
(* Properties.                                                             *)

TypeOK ==
  /\ current \in ThreadIds \cup {NoThread}
  /\ ready \in Seq(ThreadIds)
  /\ bm \subseteq Slots
  /\ lockTab \in [Slots -> Names \cup {Null}]
  /\ sem \in [Slots -> [value : Nat, queue : Seq(ThreadIds)]]
  /\ pc \in [ThreadIds -> {"user", "wait", "gone"}]
  /\ arg \in [ThreadIds -> Slots \cup {Null}]
  /\ held \in [ThreadIds -> SUBSET Slots]

\* A name stands for one semaphore: the scans of wait and signal, which stop
\* at the first match, always mean the same one, and the bitmap and the
\* pointers they follow agree.
OneSemaphorePerName ==
  /\ TypeOK
  /\ \A i, j \in Slots : lockTab[i] = lockTab[j] /\ lockTab[i] # Null => i = j
  /\ \A i \in Slots : i \in bm <=> lockTab[i] # Null

Woken(i) == {t \in ThreadIds : /\ pc[t] = "wait" /\ arg[t] = i
                               /\ \/ current = t
                                  \/ \E k \in DOMAIN ready : ready[k] = t}

\* No Signal is lost: while processes sleep in Wait, each permit left has a
\* woken process on its way to it.
NoLostSignal ==
  \A i \in Slots :
    sem[i].queue # <<>> => sem[i].value <= Cardinality(Woken(i))

\* A semaphore created with value 1 and used as a lock (test/sinhvien.c and
\* test/voinuoc.c) has one holder at a time, however the timer cuts Wait and
\* Signal; and it is free when nobody has it.
Mutex ==
  \A i \in LockSlots :
    LET holders == Cardinality({t \in ThreadIds : i \in held[t]})
    IN  holders <= 1 /\ sem[i].value = 1 - holders

\* A permit that processes wait for is taken.
PermitTaken ==
  \A i \in Slots :
    sem[i].value > 0 /\ sem[i].queue # <<>>
      ~> sem[i].value = 0 \/ sem[i].queue = <<>>
=============================================================================
