------------------------------ MODULE Scheduler ------------------------------
(***************************************************************************)
(* The uniprocessor kernel that every component above it runs on: the CPU, *)
(* the FIFO ready list of threads/scheduler.cc, and the counting semaphore *)
(* of threads/synch.cc as a value that the components keep in their own    *)
(* variables.                                                              *)
(*                                                                         *)
(* Kernel code loses the CPU only where interrupts are enabled again (the  *)
(* SetLevel at the end of P, V, Fork and Yield, which ticks the clock) and *)
(* where it goes to sleep.  One step of a component is therefore the code  *)
(* between two such points, and is taken by the thread that has the CPU.   *)
(***************************************************************************)
EXTENDS Integers, Sequences, FiniteSets

CONSTANTS NoThread,  \* what has the CPU while Thread::Sleep idles
          RandomYield \* TRUE when the kernel runs with a timer (flag -rs)

ASSUME RandomYieldAssumption == RandomYield \in BOOLEAN

VARIABLES current,  \* currentThread, or NoThread
          ready     \* Scheduler::readyList, first thread to run first

schedVars == <<current, ready>>

-----------------------------------------------------------------------------
(* Semaphores.                                                             *)

Semaphore(initialValue) == [value |-> initialValue, queue |-> <<>>]

\* P() by a thread that finds the value positive.
PTake(s) == [s EXCEPT !.value = @ - 1]

\* P() by a thread that finds it zero: it queues, and then sleeps.
PQueue(s, t) == [s EXCEPT !.queue = Append(@, t)]

\* Fault: the waiter that V() wakes is not removed from the queue.
VSignal_KeepsWaiter(s) == [s EXCEPT !.value = @ + 1]

\* V(): the first waiter leaves the queue, and the value is incremented
\* whether or not there was one.
VSignal(s) ==
  [value |-> s.value + 1,
   queue |-> IF s.queue = <<>> THEN <<>> ELSE Tail(s.queue)]

\* The threads V() hands to ReadyToRun: the first waiter, if any.
VWoken(s) == IF s.queue = <<>> THEN <<>> ELSE <<Head(s.queue)>>

-----------------------------------------------------------------------------
(* The CPU.                                                                *)

\* Scheduler::ReadyToRun on each of the threads ts.
ReadyToRun(ts) == ready \o ts

\* The running thread goes on, having made the threads ts ready.
Continue(ts) == ready' = ReadyToRun(ts) /\ UNCHANGED current

\* Thread::Sleep: the first ready thread gets the CPU; without one the CPU
\* idles until an interrupt handler makes a thread ready.
Sleep ==
  IF ready = <<>>
  THEN current' = NoThread /\ UNCHANGED ready
  ELSE current' = Head(ready) /\ ready' = Tail(ready)

\* Fault: the yielding thread goes behind only the first of the ready list.
Yield_Prepends ==
  /\ current # NoThread
  /\ ready # <<>>
  /\ current' = Head(ready)
  /\ ready' = <<current>> \o Tail(ready)

\* Thread::Yield: the running thread goes to the end of the ready list.
Yield ==
  /\ current # NoThread
  /\ ready # <<>>
  /\ current' = Head(ready)
  /\ ready' = Append(Tail(ready), current)

\* A timer interrupt that is due when interrupts are enabled again makes the
\* interrupted thread yield; there is a timer only under -rs.
TimerYield == RandomYield /\ Yield

\* The idle loop of Thread::Sleep finds a thread that a handler made ready.
Dispatch ==
  /\ current = NoThread
  /\ ready # <<>>
  /\ current' = Head(ready)
  /\ ready' = Tail(ready)
=============================================================================
