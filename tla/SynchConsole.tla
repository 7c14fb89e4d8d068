----------------------------- MODULE SynchConsole -----------------------------
(***************************************************************************)
(* The console: the device of machine/console.cc, which reads and writes   *)
(* one character at a time and interrupts, and SynchConsole                *)
(* (threads/synchcons.cc), whose Write and Read wait for it, as threads    *)
(* call them from the console system calls.                                *)
(*                                                                         *)
(* pc[t] names the point where thread t can lose the CPU:                  *)
(*   "user"                between two calls                               *)
(*   "w_line", "r_line"    asleep or woken in WLineBlock, RLineBlock->P()  *)
(*   "w_next", "r_next"    at the head of the loop of Write, Read          *)
(*   "w_avail", "r_avail"  asleep or woken in synchWriteAvail->P(),        *)
(*                         synchReadAvail->P()                             *)
(*   "r_get"               after synchReadAvail->P()                       *)
(*                                                                         *)
(* A typed character is named by its position in typed.  A char of value   *)
(* 255 is equal to EOF, so a buffer that holds it counts as empty.         *)
(***************************************************************************)
EXTENDS Scheduler

CONSTANTS ThreadIds,
          MaxBytes,      \* bound on numBytes
          MaxTyped,      \* bound on the characters typed
          InputMayClose  \* TRUE: the host may close the keyboard file

ASSUME ConsoleAssumption ==
  /\ ThreadIds # {} /\ IsFiniteSet(ThreadIds) /\ NoThread \notin ThreadIds
  /\ MaxBytes \in Nat /\ MaxTyped \in Nat
  /\ InputMayClose \in BOOLEAN

\* A terminator ('\012' or '\001'), the char that equals EOF, and any other.
Chars == {"end", "EOF", "x"}
Empty == 0  \* incoming == EOF

Semaphores == {"synchReadAvail", "synchWriteAvail", "RLineBlock", "WLineBlock"}

VARIABLES machine,   \* "run", "assert" or "closed"
          sem,       \* the four semaphores
          putBusy,   \* Console::putBusy: a WriteDone interrupt is due
          incoming,  \* Console::incoming, a position in typed or Empty
          typed,     \* what the device has read from the keyboard
          shown,     \* the last character displayed, who wrote it and the
                     \* length of what it is part of
          pc,
          numBytes, loop, \* argument and local of Write and Read
          line       \* the characters the call got, terminator included,
                     \* until the next call

devVars == <<putBusy, incoming, typed, shown>>
vars == <<machine, current, ready, sem, devVars, pc, numBytes, loop, line>>

Running(t, l) == machine = "run" /\ current = t /\ pc[t] = l

Goto(t, l) == pc' = [pc EXCEPT ![t] = l]

-----------------------------------------------------------------------------
(* Semaphores.                                                             *)

\* One turn of the loop in s->P(): done is where t goes on, wait where it
\* sleeps.
TryP(t, s, done, wait) ==
  IF sem[s].value > 0
  THEN /\ sem' = [sem EXCEPT ![s] = PTake(@)]
       /\ Goto(t, done) /\ Continue(<<>>)
  ELSE /\ sem' = [sem EXCEPT ![s] = PQueue(@, t)]
       /\ Goto(t, wait) /\ Sleep

V(s) ==
  /\ sem' = [sem EXCEPT ![s] = VSignal(@)]
  /\ Continue(VWoken(sem[s]))

InP == {"w_line", "r_line", "w_avail", "r_avail"}

\* A handler runs while the CPU idles, or on a tick of a thread that has
\* interrupts enabled.
InterruptsOn ==
  machine = "run" /\ (current # NoThread => pc[current] \notin InP)

-----------------------------------------------------------------------------
(* The device.                                                             *)

\* PutChar asserts that the last character is out.
PutChar(t) ==
  /\ machine' = IF putBusy THEN "assert" ELSE "run"
  /\ putBusy' = TRUE
  /\ shown' = [by |-> t, i |-> loop[t] + 1, n |-> numBytes[t]]

\* Fault: the interrupt of PutChar is looked for only while the CPU idles.
WriteDone_WhenIdle ==
  /\ machine = "run" /\ current = NoThread
  /\ putBusy
  /\ putBusy' = FALSE
  /\ V("synchWriteAvail")
  /\ UNCHANGED <<machine, incoming, typed, shown, pc, numBytes, loop, line>>

\* The interrupt of PutChar: WriteDone and the handler SynchWriteFunct.
WriteDone ==
  /\ InterruptsOn
  /\ putBusy
  /\ putBusy' = FALSE
  /\ V("synchWriteAvail")
  /\ UNCHANGED <<machine, incoming, typed, shown, pc, numBytes, loop, line>>

\* The poll finds a character: CheckCharAvail and SynchReadFunct.
CheckCharAvail(c) ==
  /\ InterruptsOn
  /\ incoming = Empty
  /\ Len(typed) < MaxTyped
  /\ typed' = Append(typed, c)
  /\ incoming' = IF c = "EOF" THEN Empty ELSE Len(typed')
  /\ V("synchReadAvail")
  /\ UNCHANGED <<machine, putBusy, shown, pc, numBytes, loop, line>>

\* The keyboard file is at its end: select says readable, and the assertion
\* of Read in machine/sysdep.cc fails.
InputCloses ==
  /\ InputMayClose
  /\ InterruptsOn
  /\ incoming = Empty
  /\ machine' = "closed"
  /\ UNCHANGED <<schedVars, sem, devVars, pc, numBytes, loop, line>>

-----------------------------------------------------------------------------
(* SynchConsole::Write.                                                    *)

Call(t, n) ==
  /\ Running(t, "user")
  /\ numBytes' = [numBytes EXCEPT ![t] = n]
  /\ loop' = [loop EXCEPT ![t] = 0]
  /\ line' = [line EXCEPT ![t] = <<>>]

Leaves(t) ==
  /\ numBytes' = [numBytes EXCEPT ![t] = 0]
  /\ loop' = [loop EXCEPT ![t] = 0]

\* Fault: Write does not take the line.
Write_NoLine(t, n) ==
  /\ Call(t, n)
  /\ Goto(t, "w_next")
  /\ UNCHANGED <<machine, schedVars, sem, devVars>>

Write(t, n) ==
  /\ Call(t, n)
  /\ TryP(t, "WLineBlock", "w_next", "w_line")
  /\ UNCHANGED <<machine, devVars>>

WriteLine(t) ==
  /\ Running(t, "w_line")
  /\ TryP(t, "WLineBlock", "w_next", "w_line")
  /\ UNCHANGED <<machine, devVars, numBytes, loop, line>>

\* Fault: Write returns without freeing the line.
WriteNext_KeepsLine(t) ==
  /\ Running(t, "w_next")
  /\ IF loop[t] < numBytes[t]
     THEN /\ PutChar(t)
          /\ TryP(t, "synchWriteAvail", "w_next", "w_avail")
          /\ loop' = [loop EXCEPT ![t] = @ + 1]
     ELSE /\ Goto(t, "user")
          /\ UNCHANGED <<schedVars, sem, machine, putBusy, shown, loop>>
  /\ UNCHANGED <<incoming, typed, numBytes, line>>

\* A turn of the loop puts a character and waits until it is out; after the
\* last one the line is freed.
WriteNext(t) ==
  /\ Running(t, "w_next")
  /\ IF loop[t] < numBytes[t]
     THEN /\ PutChar(t)
          /\ TryP(t, "synchWriteAvail", "w_next", "w_avail")
          /\ loop' = [loop EXCEPT ![t] = @ + 1]
          /\ UNCHANGED numBytes
     ELSE /\ V("WLineBlock")
          /\ Goto(t, "user")
          /\ Leaves(t)
          /\ UNCHANGED <<machine, putBusy, shown>>
  /\ UNCHANGED <<incoming, typed, line>>

WriteAvail(t) ==
  /\ Running(t, "w_avail")
  /\ TryP(t, "synchWriteAvail", "w_next", "w_avail")
  /\ UNCHANGED <<machine, devVars, numBytes, loop, line>>

-----------------------------------------------------------------------------
(* SynchConsole::Read.                                                     *)

\* Fault: Read does not take the line.
Read_NoLine(t, n) ==
  /\ Call(t, n)
  /\ Goto(t, "r_next")
  /\ UNCHANGED <<machine, schedVars, sem, devVars>>

Read(t, n) ==
  /\ Call(t, n)
  /\ TryP(t, "RLineBlock", "r_next", "r_line")
  /\ UNCHANGED <<machine, devVars>>

ReadLine(t) ==
  /\ Running(t, "r_line")
  /\ TryP(t, "RLineBlock", "r_next", "r_line")
  /\ UNCHANGED <<machine, devVars, numBytes, loop, line>>

\* RLineBlock->V().  What Read returns is ConsoleCount of module Utilities;
\* a Read of no bytes looks at an uninitialised ch for it.
ReadReturn(t) ==
  /\ V("RLineBlock")
  /\ Goto(t, "user")
  /\ Leaves(t)

ReadNext(t) ==
  /\ Running(t, "r_next")
  /\ IF numBytes[t] > 0
     THEN TryP(t, "synchReadAvail", "r_get", "r_avail") /\ UNCHANGED <<numBytes, loop>>
     ELSE ReadReturn(t)
  /\ UNCHANGED <<machine, devVars, line>>

ReadAvail(t) ==
  /\ Running(t, "r_avail")
  /\ TryP(t, "synchReadAvail", "r_get", "r_avail")
  /\ UNCHANGED <<machine, devVars, numBytes, loop, line>>

\* GetChar empties the buffer.  On EOF Read waits again; a terminator ends
\* it; another char is stored, and Read ends when the buffer is full.
ReadGet(t) ==
  LET ch == IF incoming = Empty THEN "EOF" ELSE typed[incoming]
      stored == IF ch = "x" THEN loop[t] + 1 ELSE loop[t]
      ends == ch = "end" \/ stored = numBytes[t]
  IN  /\ Running(t, "r_get")
      /\ incoming' = Empty
      /\ line' = [line EXCEPT ![t] = IF ch = "EOF" THEN @
                                     ELSE Append(@, incoming)]
      /\ IF ends
         THEN ReadReturn(t)
         ELSE /\ TryP(t, "synchReadAvail", "r_get", "r_avail")
              /\ loop' = [loop EXCEPT ![t] = stored]
              /\ UNCHANGED numBytes
      /\ UNCHANGED <<machine, putBusy, typed, shown>>

-----------------------------------------------------------------------------
\* The threads are ready in some order; the semaphores are as the
\* constructor leaves them.
Init ==
  /\ machine = "run"
  /\ current = NoThread
  /\ ready \in {s \in [1 .. Cardinality(ThreadIds) -> ThreadIds] :
                  \A i, j \in DOMAIN s : s[i] = s[j] => i = j}
  /\ sem = [s \in Semaphores |->
              Semaphore(IF s \in {"RLineBlock", "WLineBlock"} THEN 1 ELSE 0)]
  /\ putBusy = FALSE
  /\ incoming = Empty
  /\ typed = <<>>
  /\ shown = [by |-> NoThread, i |-> 0, n |-> 0]
  /\ pc = [t \in ThreadIds |-> "user"]
  /\ numBytes = [t \in ThreadIds |-> 0]
  /\ loop = [t \in ThreadIds |-> 0]
  /\ line = [t \in ThreadIds |-> <<>>]

\* The steps of a thread inside a call.
Step(t) ==
  \/ WriteLine(t)
  \/ WriteNext(t)
  \/ WriteAvail(t)
  \/ ReadLine(t)
  \/ ReadNext(t)
  \/ ReadAvail(t)
  \/ ReadGet(t)

Switch ==
  /\ machine = "run"
  /\ Dispatch
  /\ UNCHANGED <<machine, sem, devVars, pc, numBytes, loop, line>>

Preempt ==
  /\ InterruptsOn
  /\ TimerYield
  /\ UNCHANGED <<machine, sem, devVars, pc, numBytes, loop, line>>

\* The CPU idles and polls the keyboard, or the machine has stopped.
Quiet ==
  /\ machine # "run" \/ (current = NoThread /\ ready = <<>>)
  /\ UNCHANGED vars

Next ==
  \/ \E t \in ThreadIds, n \in 0 .. MaxBytes : Write(t, n) \/ Read(t, n)
  \/ \E t \in ThreadIds : Step(t)
  \/ WriteDone
  \/ \E c \in Chars : CheckCharAvail(c)
  \/ InputCloses
  \/ Switch
  \/ Preempt
  \/ Quiet

Spec == Init /\ [][Next]_vars

\* A thread inside a call that is given the CPU again and again goes on; the
\* interrupt that PutChar scheduled comes, as soon as interrupts are on; the
\* timer goes off again and again.  Nothing is assumed of the programs and
\* of the keyboard.
Fairness ==
  /\ \A t \in ThreadIds : SF_vars(Step(t))
  /\ SF_vars(WriteDone)
  /\ WF_vars(Switch)
  /\ SF_vars(Preempt)

FairSpec == Spec /\ Fairness

-----------------------------------------------------------------------------
(* Properties.                                                             *)

TypeOK ==
  /\ machine \in {"run", "assert", "closed"}
  /\ current \in ThreadIds \cup {NoThread}
  /\ ready \in Seq(ThreadIds)
  /\ sem \in [Semaphores -> [value : Nat, queue : Seq(ThreadIds)]]
  /\ putBusy \in BOOLEAN
  /\ typed \in Seq(Chars)
  /\ incoming \in 0 .. Len(typed)
  /\ shown \in [by : ThreadIds \cup {NoThread}, i : 0 .. MaxBytes,
                n : 0 .. MaxBytes]
  /\ pc \in [ThreadIds -> InP \cup {"user", "w_next", "r_next", "r_get"}]
  /\ numBytes \in [ThreadIds -> 0 .. MaxBytes]
  /\ loop \in [ThreadIds -> 0 .. MaxBytes]
  /\ line \in [ThreadIds -> Seq(Nat)]

\* The next character displayed is the next one of the same call, or the
\* first of a call when the last one is complete.
NextCharacter ==
  shown' # shown =>
    IF shown.i = shown.n THEN shown'.i = 1 ELSE shown' = [shown EXCEPT !.i = @ + 1]

\* What one Write displays is not mixed with what another one displays, and
\* no character is put while the device is busy, as Console::PutChar asserts.
WritesWhole == [][NextCharacter /\ machine' # "assert"]_vars

Real(i) == typed[i] # "EOF"

\* What one Read got is an unbroken piece of what was typed: no other Read
\* takes a character out of the middle of it, and none is skipped.
ReadsWhole ==
  /\ TypeOK
  /\ \A t \in ThreadIds :
       LET got == {line[t][k] : k \in DOMAIN line[t]}
       IN  /\ \A k \in 1 .. Len(line[t]) - 1 : line[t][k] < line[t][k + 1]
           /\ \A i \in 1 .. Len(typed) :
                Real(i) /\ (\E a, b \in got : a < i /\ i < b) => i \in got

\* Threads that V() made ready and that have not yet looked at the value.
Woken(l) == {t \in ThreadIds : /\ pc[t] = l
                               /\ \/ current = t
                                  \/ \E i \in DOMAIN ready : ready[i] = t}

\* No thread sleeps for what is there: for the display while it is free, for
\* a line while nobody has it, or for a character while one is in the
\* device's buffer (some Read has taken, or can take, the permit for it).
NoIdleWait ==
  /\ incoming # Empty =>
       sem["synchReadAvail"].value > 0 \/ \E t \in ThreadIds : pc[t] = "r_get"
  /\ sem["synchWriteAvail"].queue # <<>> => putBusy
  /\ sem["WLineBlock"].queue # <<>> =>
       \/ Woken("w_line") # {}
       \/ \E t \in ThreadIds : pc[t] \in {"w_next", "w_avail"}
  /\ sem["RLineBlock"].queue # <<>> =>
       \/ Woken("r_line") # {}
       \/ \E t \in ThreadIds : pc[t] \in {"r_next", "r_avail", "r_get"}

\* A call does not stay where it is: a Write that has the line ends, and a
\* Read that waits while a character is there gets one.
CallsGoOn ==
  \A t \in ThreadIds :
    LET Ahead == pc[t] \in {"w_next", "w_avail"} \/ (pc[t] = "r_avail" /\ incoming # Empty)
    IN  (machine = "run" /\ Ahead)
          ~> (machine # "run" \/ pc[t] = "user" \/ (pc[t] = "r_avail" /\ incoming = Empty))
=============================================================================
