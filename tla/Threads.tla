------------------------------- MODULE Threads -------------------------------
(***************************************************************************)
(* Threads (threads/thread.cc), the dispatcher (threads/scheduler.cc) and  *)
(* one semaphore (threads/synch.cc) that threads and interrupt handlers    *)
(* use.                                                                    *)
(*                                                                         *)
(* A step is the code of one thread between two points where it can lose   *)
(* the CPU (module Scheduler).  A switch includes what Scheduler::Run does *)
(* after SWITCH returns, in the context of the thread that gets the CPU: a *)
(* thread that was switched out before deletes threadToBeDestroyed there,  *)
(* a thread that runs for the first time starts in ThreadRoot and does     *)
(* not.                                                                    *)
(***************************************************************************)
EXTENDS Scheduler, Switch

CONSTANTS ThreadIds,  \* addresses that Thread objects can have
          Main,       \* the thread that Initialize makes of main()
          InitialValue, \* the semaphore's initial value
          MaxValue    \* bound: V is called only below this value

ASSUME ThreadsAssumption ==
  /\ IsFiniteSet(ThreadIds)
  /\ Main \in ThreadIds
  /\ NoThread \notin ThreadIds
  /\ InitialValue \in Nat
  /\ MaxValue \in Nat

VARIABLES status,  \* Thread::status, or "none" where there is no object
          fresh,   \* the threads that have never had the CPU
          pc,      \* "body", "P" (in Semaphore::P) or "finished"
          doomed,  \* threadToBeDestroyed, or NoThread
          sem,     \* the semaphore
          cpu,     \* the registers, as the last SWITCH left them
          record,  \* each thread's machineState and stackTop
          stack    \* the return address on top of each thread's stack

contextVars == <<cpu, record, stack>>
vars == <<current, ready, status, fresh, pc, doomed, sem, contextVars>>

\* The thread that has the CPU, in its own code.
Running(t) == current = t /\ pc[t] = "body"

-----------------------------------------------------------------------------
(* Scheduler::Run, once Sleep, Yield or Dispatch (module Scheduler) have   *)
(* chosen current': S are the statuses and d is threadToBeDestroyed as the *)
(* thread that gives up the CPU leaves them.                               *)

\* currentThread, also while the CPU idles: it does so on that thread's stack.
Old == cpu.esp[2]

\* The registers of a thread that calls SWITCH, from Run called by Yield or
\* by Sleep.
Frame(t, caller) ==
  [r \in Registers \cup {"PC"} |->
     IF r = "esp" THEN StackOf(t)
     ELSE IF r = "PC" THEN <<"Run", t, "code">> ELSE <<r, t, caller>>]

CallerOf(l) == IF l = "body" THEN "Yield" ELSE "Sleep"

\* The call of SWITCH; the caller has set pc'.
CallsSWITCH ==
  LET frame == Frame(Old, CallerOf(pc'[Old]))
      called == [stack EXCEPT ![Old] = frame.PC]
      done == SWITCH(frame, record, called, Old, current')
  IN  cpu' = done.cpu /\ record' = done.record /\ stack' = called

Run(S, d) ==
  LET R == [S EXCEPT ![current'] = "RUNNING"]
  IN  IF current' = NoThread
      THEN status' = S /\ doomed' = d /\ UNCHANGED <<fresh, contextVars>>
      ELSE /\ CallsSWITCH
           /\ IF current' \in fresh
              THEN status' = R /\ doomed' = d /\ fresh' = fresh \ {current'}
              ELSE /\ status' = [t \in ThreadIds |-> IF t = d THEN "none" ELSE R[t]]
                   /\ doomed' = NoThread
                   /\ UNCHANGED fresh

-----------------------------------------------------------------------------
(* Threads.                                                                *)

\* The constructor.
New(t, c) ==
  /\ Running(t)
  /\ status[c] = "none"
  /\ status' = [status EXCEPT ![c] = "JUST_CREATED"]
  /\ fresh' = fresh \cup {c}
  /\ pc' = [pc EXCEPT ![c] = "body"]
  /\ record' = [record EXCEPT ![c] = Junk(c)]
  /\ stack' = [stack EXCEPT ![c] = Junk(c).PC]
  /\ UNCHANGED <<schedVars, doomed, sem, cpu>>

Fork(t, c) ==
  /\ Running(t)
  /\ status[c] = "JUST_CREATED"
  /\ status' = [status EXCEPT ![c] = "READY"]
  /\ record' = [record EXCEPT ![c] = StackAllocate(c)]
  /\ stack' = [stack EXCEPT ![c] = ThreadRoot(c)]
  /\ Continue(<<c>>)
  /\ UNCHANGED <<fresh, pc, doomed, sem, cpu>>

\* Yield, called by the thread itself: without another ready thread it keeps
\* the CPU.
YieldCPU(t) ==
  /\ Running(t)
  /\ Yield
  /\ UNCHANGED <<pc, sem>>
  /\ Run([status EXCEPT ![t] = "READY"], doomed)

\* Finish: the thread sleeps for ever, and its object is left to the next
\* thread that comes back from SWITCH.
Finish(t) ==
  /\ Running(t)
  /\ pc' = [pc EXCEPT ![t] = "finished"]
  /\ Sleep
  /\ Run([status EXCEPT ![t] = "BLOCKED"], t)
  /\ UNCHANGED sem

-----------------------------------------------------------------------------
(* The semaphore.                                                          *)

\* One turn of the loop in P.
TryP(t) ==
  IF sem.value > 0
  THEN /\ sem' = PTake(sem)
       /\ pc' = [pc EXCEPT ![t] = "body"]
       /\ Continue(<<>>)
       /\ UNCHANGED <<status, fresh, doomed, contextVars>>
  ELSE /\ sem' = PQueue(sem, t)
       /\ pc' = [pc EXCEPT ![t] = "P"]
       /\ Sleep
       /\ Run([status EXCEPT ![t] = "BLOCKED"], doomed)

P(t) == Running(t) /\ TryP(t)

Retry(t) == current = t /\ pc[t] = "P" /\ TryP(t)

\* Fault: V wakes a waiter only when the value was zero.
Signal_OnlyAtZero ==
  LET woken == IF sem.value = 0 THEN VWoken(sem) ELSE <<>>
  IN  /\ sem.value < MaxValue
      /\ sem' = IF sem.value = 0 THEN VSignal(sem) ELSE [sem EXCEPT !.value = @ + 1]
      /\ Continue(woken)
      /\ status' = [t \in ThreadIds |-> IF woken = <<t>> THEN "READY" ELSE status[t]]
      /\ UNCHANGED <<fresh, pc, doomed, contextVars>>

\* V wakes the first waiter with ReadyToRun.
Signal ==
  /\ sem.value < MaxValue
  /\ sem' = VSignal(sem)
  /\ Continue(VWoken(sem))
  /\ status' = [t \in ThreadIds |->
                  IF t \in {VWoken(sem)[i] : i \in DOMAIN VWoken(sem)}
                  THEN "READY" ELSE status[t]]
  /\ UNCHANGED <<fresh, pc, doomed, contextVars>>

V(t) == Running(t) /\ Signal

InterruptsOn == current # NoThread => pc[current] = "body"

\* V called by an interrupt handler: while the CPU idles, or on a tick of a
\* thread that has interrupts enabled.
HandlerV == InterruptsOn /\ Signal

\* The timer makes the running thread yield.
Preempt ==
  /\ TimerYield
  /\ InterruptsOn
  /\ UNCHANGED <<pc, sem>>
  /\ Run([status EXCEPT ![current] = "READY"], doomed)

\* The loop of Thread::Sleep, after a handler made a thread ready.
WakeUp == Dispatch /\ UNCHANGED <<pc, sem>> /\ Run(status, doomed)

\* Nothing to run: the CPU idles, or Interrupt::Idle halts the machine.
Idle == current = NoThread /\ ready = <<>> /\ UNCHANGED vars

-----------------------------------------------------------------------------
Init ==
  /\ current = Main
  /\ ready = <<>>
  /\ status = [t \in ThreadIds |-> IF t = Main THEN "RUNNING" ELSE "none"]
  /\ fresh = {}
  /\ pc = [t \in ThreadIds |-> "body"]
  /\ doomed = NoThread
  /\ sem = Semaphore(InitialValue)
  /\ cpu = [Junk(Main) EXCEPT !.esp = StackOf(Main)]
  /\ record = [t \in ThreadIds |-> Junk(t)]
  /\ stack = [t \in ThreadIds |-> Junk(t).PC]

Next ==
  \/ \E t, c \in ThreadIds : New(t, c) \/ Fork(t, c)
  \/ \E t \in ThreadIds : \/ YieldCPU(t)
                          \/ Finish(t)
                          \/ P(t)
                          \/ Retry(t)
                          \/ V(t)
  \/ HandlerV
  \/ Preempt
  \/ WakeUp
  \/ Idle

Spec == Init /\ [][Next]_vars

\* Code that runs with interrupts off runs on, and the timer goes off again
\* and again.  Nothing is assumed of what threads do in their own code, nor
\* of the handlers.
Fairness ==
  /\ \A t \in ThreadIds : WF_vars(Retry(t))
  /\ WF_vars(WakeUp)
  /\ SF_vars(Preempt)

FairSpec == Spec /\ Fairness

-----------------------------------------------------------------------------
(* Properties.                                                             *)

TypeOK ==
  /\ current \in ThreadIds \cup {NoThread}
  /\ ready \in Seq(ThreadIds)
  /\ status \in [ThreadIds ->
                   {"none", "JUST_CREATED", "RUNNING", "READY", "BLOCKED"}]
  /\ fresh \subseteq ThreadIds
  /\ pc \in [ThreadIds -> {"body", "P", "finished"}]
  /\ doomed \in ThreadIds \cup {NoThread}
  /\ sem \in [value : Nat, queue : Seq(ThreadIds)]

Once(s) == \A i, j \in DOMAIN s : s[i] = s[j] => i = j

In(t, s) == \E i \in DOMAIN s : s[i] = t

\* A thread is in one place, the one its status tells: on the CPU, once on
\* the ready list, or once in the semaphore's queue.  The lists hold
\* pointers, so an entry left behind would run a thread twice, or a thread
\* whose object is gone.
OnePlace ==
  /\ TypeOK
  /\ Once(ready) /\ Once(sem.queue)
  /\ \A t \in ThreadIds :
       /\ status[t] = "RUNNING" <=> current = t
       /\ status[t] = "READY" <=> In(t, ready)
       /\ status[t] = "BLOCKED" /\ pc[t] = "P" <=> In(t, sem.queue)
       /\ status[t] = "BLOCKED" => pc[t] # "body"

\* threadToBeDestroyed is a thread that has finished and still has its
\* object, never one that can run again: the assertion of ~Thread holds, and
\* nothing is deleted twice.
DoomedIsDead ==
  doomed # NoThread => pc[doomed] = "finished" /\ status[doomed] = "BLOCKED"

\* A switch gives a thread its own context: a new one starts in ThreadRoot,
\* which finds what Fork was given, and another one goes on in Run with the
\* registers it had when it gave up the CPU, also when it is switched to from
\* itself.
OwnSwitch ==
  current' \notin {current, NoThread} =>
    IF current' \in fresh
    THEN /\ cpu'.PC = ThreadRoot(current')
         /\ cpu'.esp = StackOf(current')
         /\ RootCalls(cpu') =
              <<<<"InterruptEnable", current', "code">>, <<"func", current', "code">>,
                <<"arg", current', "data">>, <<"ThreadFinish", current', "code">>>>
    ELSE cpu' = Frame(current', CallerOf(pc[current']))

\* Whatever threads are switched to, finish and are deleted, the stack that
\* the CPU is on, idling or not, is there, and a switch gives a thread its
\* own context.
OwnContext == [][DoomedIsDead' /\ status'[Old'] # "none" /\ OwnSwitch]_vars

\* The threads that V() has made ready and that have not yet looked at the
\* value.
Woken == {t \in ThreadIds : pc[t] = "P" /\ status[t] \in {"READY", "RUNNING"}}

\* No wakeup is lost: while threads wait in P, each unit of the value has a
\* woken thread that is on its way to take it, although a thread that was
\* not waiting can take it first.
NoLostWakeup ==
  sem.queue # <<>> => sem.value <= Cardinality(Woken)

\* Round robin: with the timer, every ready thread gets the CPU.
ReadyRuns ==
  \A t \in ThreadIds : status[t] = "READY" ~> status[t] = "RUNNING"
=============================================================================
