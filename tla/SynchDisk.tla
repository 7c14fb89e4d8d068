------------------------------ MODULE SynchDisk ------------------------------
(***************************************************************************)
(* The disk as threads use it: SynchDisk (filesys/synchdisk.cc) over Disk  *)
(* (machine/disk.cc), whose interrupt goes through the simulated           *)
(* interrupts, under the timer.  The Lock of threads/synch.cc does         *)
(* nothing, so SynchDisk's keeps no thread out.                            *)
(*                                                                         *)
(* pc[t]: "new", "user", "asleep" (in semaphore->P()), "finished"          *)
(***************************************************************************)
EXTENDS Interrupts, Disk, SequencesExt

CONSTANTS ThreadIds,
          DiskUsers    \* the threads that call ReadSector and WriteSector

ASSUME SynchDiskAssumption ==
  DiskUsers \subseteq ThreadIds /\ NoThread \notin ThreadIds

VARIABLES pc,
          disk,      \* lastSector and bufferInit
          active,
          semaphore,
          request    \* the last request, and when it was made

vars == <<machine, step, totalTicks, pending, yieldOnReturn, fired, current,
          ready, pc, disk, active, semaphore, request>>

Running(t) == Going("code") /\ current = t

-----------------------------------------------------------------------------
\* A user instruction.
Instruction(t) ==
  /\ Running(t) /\ pc[t] = "user"
  /\ Tick(UserTick)
  /\ UNCHANGED <<machine, pending, yieldOnReturn, fired, current, ready, pc,
                 disk, active, semaphore, request>>

\* ReadSector and WriteSector: the request, which asserts that the disk is
\* not active, and semaphore->P(), in which the thread sleeps.
Sector(t, sector, writing) ==
  /\ Running(t) /\ pc[t] = "user" /\ t \in DiskUsers
  /\ IF active
     THEN /\ machine' = "assert"
          /\ UNCHANGED <<step, totalTicks, pending, current, ready, pc, disk,
                         active, semaphore, request>>
     ELSE /\ active' = TRUE
          /\ pending' = Schedule(pending, "disk", totalTicks,
                          ComputeLatency(disk, sector, writing, totalTicks))
          /\ disk' = UpdateLast(disk, sector, totalTicks)
          /\ request' = [sector |-> sector, writing |-> writing, at |-> totalTicks]
          /\ pc' = [pc EXCEPT ![t] = "asleep"]
          /\ semaphore' = PQueue(semaphore, t)
          /\ SleepNow
          /\ UNCHANGED <<machine, totalTicks>>
  /\ UNCHANGED <<yieldOnReturn, fired>>

\* The thread that has got the CPU goes on.  In P() it takes the permit, or
\* sleeps again; a new thread leaves ThreadRoot.
Resume(t) ==
  /\ Going("resume") /\ current = t
  /\ IF pc[t] = "asleep" /\ semaphore.value = 0
     THEN /\ semaphore' = PQueue(semaphore, t)
          /\ SleepNow
          /\ UNCHANGED <<totalTicks, pc>>
     ELSE /\ semaphore' = IF pc[t] = "asleep" THEN PTake(semaphore) ELSE semaphore
          /\ pc' = [pc EXCEPT ![t] = "user"]
          /\ Tick(SystemTick)
          /\ UNCHANGED schedVars
  /\ UNCHANGED <<machine, pending, yieldOnReturn, fired, disk, active, request>>

\* Fault: the handler does not signal.
HandleInterrupt_Silent ==
  /\ Fires("disk")
  /\ pending' = Rest
  /\ active' = FALSE
  /\ UNCHANGED <<machine, yieldOnReturn, schedVars, pc, disk, semaphore, request>>

\* Disk::HandleInterrupt and SynchDisk::RequestDone.
HandleInterrupt ==
  /\ Fires("disk")
  /\ pending' = Rest
  /\ active' = FALSE
  /\ semaphore' = VSignal(semaphore)
  /\ Continue(VWoken(semaphore))
  /\ UNCHANGED <<machine, yieldOnReturn, pc, disk, request>>

\* Thread::Finish.
Finish(t) ==
  /\ Running(t) /\ pc[t] = "user"
  /\ pc' = [pc EXCEPT ![t] = "finished"]
  /\ SleepNow
  /\ UNCHANGED <<machine, totalTicks, pending, yieldOnReturn, fired, disk, active, semaphore,
                 request>>

-----------------------------------------------------------------------------
\* The threads are ready in some order, and the timer is set.  There may be
\* a console, which was made before.
Init ==
  /\ \E d \in TimeOfNextInterrupt, console \in BOOLEAN :
       LET old == IF console THEN Schedule(NewList, "console", 0, ConsoleTime)
                  ELSE NewList
       IN  InterruptInit(Schedule(old, "timer", 0, d))
  /\ \E s \in SetToSeqs(ThreadIds) : current = Head(s) /\ ready = Tail(s)
  /\ pc = [t \in ThreadIds |-> "new"]
  /\ disk = [lastSector |-> 0, bufferInit |-> 0]
  /\ active = FALSE
  /\ semaphore = Semaphore(0)
  /\ request = [sector |-> 0, writing |-> FALSE, at |-> 0]

Device == pc' = pc /\ UNCHANGED <<disk, active, semaphore, request>>

Stopped ==
  /\ machine # "run" \/ totalTicks > MaxTicks
  /\ UNCHANGED vars

Next ==
  \/ \E t \in ThreadIds :
       \/ Instruction(t) \/ Resume(t) \/ Finish(t)
       \/ \E s \in 0 .. NumSectors - 1, w \in BOOLEAN : Sector(t, s, w)
  \/ HandleInterrupt
  \/ Device /\ ((\E d \in TimeOfNextInterrupt : TimerExpired(d))
                 \/ CheckCharAvail \/ EndTick \/ EndIdle \/ IdleHalt)
  \/ Stopped

Spec == Init /\ [][Next]_vars

-----------------------------------------------------------------------------
(* Properties.                                                             *)

TypeOK ==
  /\ machine \in {"run", "halted", "assert"}
  /\ step \in {"code", "tick", "idle", "idling", "resume"}
  /\ {c.item : c \in {pending.cell[a] : a \in DOMAIN pending.cell}}
       \subseteq {"timer", "disk", "console"}
  /\ current \in ThreadIds \cup {NoThread}
  /\ step \in {"code", "tick", "resume"} <=> current # NoThread
  /\ semaphore.value \in 0 .. 1
  /\ disk.lastSector \in 0 .. NumSectors - 1

\* The list of pending interrupts loses no element and stays sorted by time
\* through the scheduling, the firing and the putting back of interrupts.
PendingSorted ==
  LET p == Mapcar(pending)
  IN  /\ WellLinked(pending)
      /\ \A i, j \in DOMAIN p : i < j => p[i].key <= p[j].key

\* Interrupts come in the order of their times, none before its time, and
\* none later than the tick in which it is due; the timer, which Idle leaves
\* when it is alone, one tick later.
Punctual ==
  [][fired' # fired =>
       LET late == fired'.at - fired'.due
       IN  /\ \A a \in DOMAIN pending'.cell : fired'.due <= pending'.cell[a].key
           /\ late >= 0
           /\ late < SystemTick \/ (fired'.type = "timer" /\ late = SystemTick)]_vars

\* The time by which the whole of a sector has turned past the head.
EndOfSector(time, sector) ==
  /\ time % RotationTime = 0
  /\ ((time \div RotationTime) - 1) % SectorsPerTrack = sector % SectorsPerTrack

Distance(a, b) == IF a < b THEN b - a ELSE a - b

\* A request ends when the sector has turned past the head for the first
\* time since the seek ended.  A read of a sector that has done so since the
\* head came to the track takes the time of one sector.
LatencyExact ==
  [][active' /\ ~active =>
       LET s == request'.sector
           seek == Distance(s \div SectorsPerTrack, disk.lastSector \div SectorsPerTrack)
                     * SeekTime
           after == totalTicks + seek + RotationTime
           done == CHOOSE n \in after .. after + (SectorsPerTrack + 1) * RotationTime :
                     /\ EndOfSector(n, s)
                     /\ \A m \in after .. n - 1 : ~EndOfSector(m, s)
           buffered == /\ ~request'.writing /\ seek = 0
                       /\ \E n \in disk.bufferInit + RotationTime
                                       .. totalTicks + RotationTime - 1 : EndOfSector(n, s)
       IN  \E a \in DOMAIN pending'.cell :
             /\ pending'.cell[a].item = "disk"
             /\ pending'.cell[a].key = IF buffered THEN totalTicks + RotationTime
                                        ELSE done]_vars

\* The machine halts by itself only when every thread has finished: Idle
\* never gives up while a thread waits for the disk, or with a console.
HaltsWhenDone ==
  /\ TypeOK
  /\ machine = "halted" =>
       /\ \A t \in ThreadIds : pc[t] = "finished"
       /\ \A a \in DOMAIN pending.cell : pending.cell[a].item = "timer"
=============================================================================
