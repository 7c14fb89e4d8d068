------------------------------ MODULE Interrupts ------------------------------
(***************************************************************************)
(* Simulated time and interrupts (machine/interrupt.cc) with the timer     *)
(* (machine/timer.cc) and its handler and the console's poll for a         *)
(* character, under threads that run on the CPU.                           *)
(*                                                                         *)
(* step says what the simulator is doing:                                  *)
(*   "code"            the current thread runs, interrupts enabled         *)
(*   "tick"            the loop of OneTick                                 *)
(*   "idle", "idling"  Idle, before and after its first CheckIfDue         *)
(*   "resume"          a thread has got the CPU, in Yield, Sleep or        *)
(*                     ThreadRoot, and will enable interrupts              *)
(***************************************************************************)
EXTENDS Scheduler, Lists

CONSTANTS UserTick, SystemTick, TimerTicks, ConsoleTime,
          MaxTicks  \* bound on the length of a run

ASSUME InterruptsAssumption ==
  /\ {UserTick, SystemTick, TimerTicks, ConsoleTime} \subseteq Nat \ {0}
  /\ MaxTicks \in Nat

VARIABLES machine,      \* "run", "halted" or "assert"
          step,
          totalTicks,
          pending,      \* a list of interrupt types, sorted by time
          yieldOnReturn,
          fired         \* the last interrupt: type, when it was due and when
                        \* its handler was called

\* Interrupt::Interrupt; first has what the devices schedule when they are
\* made.  Interrupts are off until a thread enables them.
InterruptInit(first) ==
  /\ machine = "run" /\ step = "resume" /\ totalTicks = 0
  /\ pending = first
  /\ yieldOnReturn = FALSE
  /\ fired = [type |-> "none", due |-> 0, at |-> 0]

\* Called by a handler.
YieldOnReturn == yieldOnReturn' = TRUE

Going(s) == machine = "run" /\ step = s /\ totalTicks <= MaxTicks

Schedule(p, type, now, fromNow) == SortedInsert(p, type, now + fromNow)

\* TimeOfNextInterrupt of a timer that is randomized, as it always is.
TimeOfNextInterrupt == 1 .. 2 * TimerTicks

-----------------------------------------------------------------------------
(* CheckIfDue, called from OneTick and from Idle.                          *)

Rest == SortedRemove(pending)

\* While idle, a timer interrupt that is alone is no reason to go on.
OnlyTimer == First(pending).item = "timer" /\ IsEmpty(Rest)

\* Fault: an interrupt that is due now is not seen.
Due_Before ==
  /\ ~IsEmpty(pending)
  /\ step # "idle" => First(pending).key < totalTicks
  /\ step \in {"idle", "idling"} => ~OnlyTimer

\* It calls a handler: the time has come, or the clock is advanced to it.
Due ==
  /\ ~IsEmpty(pending)
  /\ step # "idle" => First(pending).key <= totalTicks
  /\ step \in {"idle", "idling"} => ~OnlyTimer

Advanced ==
  IF First(pending).key > totalTicks THEN First(pending).key ELSE totalTicks

\* What CheckIfDue does around the handler for an interrupt of this type.
Fires(type) ==
  /\ machine = "run" /\ totalTicks <= MaxTicks
  /\ step \in {"tick", "idle", "idling"} /\ Due
  /\ First(pending).item = type
  /\ totalTicks' = Advanced
  /\ step' = IF step = "idle" THEN "idling" ELSE step
  /\ fired' = [type |-> type, due |-> First(pending).key, at |-> totalTicks']

\* An interrupt that is not due goes back, behind those of the same time.
PutBack ==
  IF IsEmpty(pending) THEN pending
  ELSE SortedInsert(Rest, First(pending).item, First(pending).key)

\* TimerExpired and TimerInterruptHandler.  CheckIfDue has set the status to
\* SystemMode, so the handler asks for a yield also when the CPU idles.
TimerExpired(delay) ==
  /\ Fires("timer")
  /\ pending' = Schedule(Rest, "timer", totalTicks', delay)
  /\ YieldOnReturn
  /\ UNCHANGED <<machine, current, ready>>

\* Console::CheckCharAvail finds no character.
CheckCharAvail ==
  /\ Fires("console")
  /\ pending' = Schedule(Rest, "console", totalTicks', ConsoleTime)
  /\ UNCHANGED <<machine, yieldOnReturn, current, ready>>

-----------------------------------------------------------------------------
(* OneTick and Idle.                                                       *)

Tick(n) == step' = "tick" /\ totalTicks' = totalTicks + n

\* OneTick returns: the thread goes on, or yields.  Yield enables interrupts
\* again also when no other thread is ready.
EndTick ==
  /\ Going("tick") /\ ~Due
  /\ pending' = PutBack
  /\ yieldOnReturn' = FALSE
  /\ IF ~yieldOnReturn
     THEN step' = "code" /\ UNCHANGED schedVars
     ELSE /\ step' = "resume"
          /\ IF ready = <<>> THEN UNCHANGED schedVars ELSE Yield
  /\ UNCHANGED <<machine, totalTicks, fired>>

\* Thread::Sleep by the current thread, which has the CPU no more.
SleepNow == Sleep /\ step' = IF ready = <<>> THEN "idle" ELSE "resume"

\* Idle returns to Thread::Sleep.
EndIdle ==
  /\ Going("idling") /\ ~Due
  /\ pending' = PutBack
  /\ yieldOnReturn' = FALSE
  /\ SleepNow
  /\ UNCHANGED <<machine, totalTicks, fired>>

\* Idle finds nothing to wait for, and halts the machine.
IdleHalt ==
  /\ Going("idle") /\ ~Due
  /\ pending' = PutBack
  /\ totalTicks' = IF IsEmpty(pending) THEN totalTicks ELSE Advanced
  /\ machine' = "halted"
  /\ UNCHANGED <<schedVars, step, yieldOnReturn, fired>>
=============================================================================
