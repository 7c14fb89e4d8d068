------------------------------ MODULE ProcTable ------------------------------
(***************************************************************************)
(* Process management: PTable (threads/ptable.cc), PCB (threads/pcb.cc)    *)
(* and the system calls Exec, Join and Exit that use them.                 *)
(*                                                                         *)
(* A process is named by its slot in the process table; so is its thread,  *)
(* which PCB::Exec creates and which ends in the step that frees the slot. *)
(* A step runs a thread from one point where it can lose the CPU to the    *)
(* next one (module Scheduler); pc[p] names the point where p now is:      *)
(*   "user"        in its program, between two system calls                *)
(*   "exec_P"      asleep or woken in bmsem->P()                           *)
(*   "exec_check"  after bmsem->P()                                        *)
(*   "exec_load"   after mutex->P() in PCB::Exec                           *)
(*   "exec_space"  after addrLock->P() in the AddrSpace constructor        *)
(*   "exec_fork"   after addrLock->V()                                     *)
(*   "exec_unlock" after the child was put on the ready list               *)
(*   "exec_count"  after mutex->V()                                        *)
(*   "exec_fail"   after mutex->V() on the error path of PCB::Exec         *)
(*   "join_P"      asleep or woken in joinsem->P()                         *)
(*   "join_ret"    after joinsem->P()                                      *)
(*   "exit_P"      asleep or woken in exitsem->P()                         *)
(*   "exit_rel"    after exitsem->P()                                      *)
(*   "exit_dec"    after joinsem->V() of the parent                        *)
(*   "exit_free"   after exitsem->V() of the parent                        *)
(*   "none"        there is no such thread                                 *)
(* mutex and addrLock are only used while bmsem is held, so they are never *)
(* contended and their values follow from pc.                              *)
(***************************************************************************)
EXTENDS Scheduler

CONSTANTS MaxProcess,   \* MAX_PROCESS
          Files,        \* executables that exist
          NoFile,       \* a name that fileSystem->Open cannot open
          Pages,        \* Pages[f]: pages the AddrSpace of f needs
          NumPhysPages, \* physical memory
          Codes,        \* exit codes programs use
          HostMayRemove \* TRUE: a file may vanish between two opens of it

Slots == 0 .. MaxProcess - 1
NoPid == -1
Failed == -1            \* what a failed system call returns
Root == 0
NoCode == -2            \* not an exit code

ASSUME ProcAssumption ==
  /\ MaxProcess \in Nat \ {0}
  /\ NoFile \notin Files
  /\ Pages \in [Files -> Nat]
  /\ NumPhysPages \in Nat
  /\ Codes \subseteq Nat
  /\ HostMayRemove \in BOOLEAN
  /\ NoThread \notin Slots

VARIABLES machine,  \* "boot", "run", "halted", "aborted" or "undefined"
          bm,       \* PTable::bm, the slots whose bit is set
          ptr,      \* the pointer PTable::pcb[i]: "null", "live", "dangling"
          pcb,      \* the object it points to while it is "live"
          bmsem,    \* PTable::bmsem
          pc,
          call,     \* the arguments and locals of the system call in progress
          ret,      \* what the last Join returned, and what it had to return
          exited    \* history: exited[p][c] is the code that the child c of p
                    \* passed to Exit, until p has called Join for it

tableVars == <<bm, ptr, pcb, bmsem>>
vars == <<machine, current, ready, tableVars, pc, call, ret, exited>>

NoCall == [file |-> NoFile, id |-> NoPid, code |-> 0]
NoRet == [val |-> Failed, code |-> NoCode]

\* The PCB constructor.  thread says whether the Thread object exists; space
\* is the number of pages of its address space.
NewPCB ==
  [parentID |-> NoPid, numwait |-> 0, joinID |-> NoPid, joinExitcode |-> 0,
   isExit |-> FALSE, thread |-> FALSE, file |-> NoFile, space |-> 0,
   joinsem |-> Semaphore(0), exitsem |-> Semaphore(0)]

Running(p) == machine = "run" /\ current = p

Goto(p, l) == pc' = [pc EXCEPT ![p] = l]

\* A failed ASSERT, a Halt, or code that has no defined meaning.
Stop(how) ==
  /\ machine' = how
  /\ UNCHANGED <<schedVars, tableVars, pc, call, ret, exited>>

FreePages ==
  LET used[i \in 0 .. MaxProcess] ==
        IF i = 0 THEN 0 ELSE used[i - 1] + pcb[i - 1].space
  IN  NumPhysPages - used[MaxProcess]

-----------------------------------------------------------------------------
(* StartProcess: the main thread, alone, runs ExecUpdate on the first      *)
(* program.  PCB::Exec replaces the main thread by the new one, which then *)
(* has the CPU.  A failed ExecUpdate is not noticed: machine->Run() finds  *)
(* no page table and an ASSERT of Machine::Translate aborts.               *)

\* The last access, pcb[-1]->IncNumWait(), is outside the array: either it
\* hits nothing that matters or the run has no defined continuation.
Boot(f) ==
  /\ machine = "boot"
  /\ IF f \in Files /\ Pages[f] <= FreePages
     THEN /\ machine' \in {"run", "undefined"}
          /\ bm' = {Root}
          /\ ptr' = [ptr EXCEPT ![Root] = "live"]
          /\ pcb' = [pcb EXCEPT ![Root] =
                       [NewPCB EXCEPT !.thread = TRUE, !.file = f,
                                      !.space = Pages[f]]]
          /\ current' = Root
          /\ Goto(Root, "user")
          /\ UNCHANGED <<ready, bmsem, call, ret, exited>>
     ELSE Stop("aborted")

-----------------------------------------------------------------------------
(* Exec: PTable::ExecUpdate and PCB::Exec.                                 *)

BmsemP(p) ==
  IF bmsem.value > 0
  THEN bmsem' = PTake(bmsem) /\ Goto(p, "exec_check") /\ Continue(<<>>)
  ELSE bmsem' = PQueue(bmsem, p) /\ Goto(p, "exec_P") /\ Sleep

SysExec(p, f) ==
  /\ Running(p) /\ pc[p] = "user"
  /\ call' = [call EXCEPT ![p].file = f]
  /\ ret' = [ret EXCEPT ![p] = NoRet]
  /\ BmsemP(p)
  /\ UNCHANGED <<machine, bm, ptr, pcb, exited>>

ExecP(p) ==
  /\ Running(p) /\ pc[p] = "exec_P"
  /\ BmsemP(p)
  /\ UNCHANGED <<machine, bm, ptr, pcb, call, ret, exited>>

\* bmsem->V(), and back to the program.
ExecReturn(p) ==
  /\ bmsem' = VSignal(bmsem)
  /\ Continue(VWoken(bmsem))
  /\ Goto(p, "user")
  /\ call' = [call EXCEPT ![p] = NoCall]

\* BitMap::Find: the first clear bit.
Find == CHOOSE i \in Slots \ bm : \A j \in Slots \ bm : i <= j

\* Everything up to mutex->P(): open the file, refuse the caller's own
\* program, take a slot.
ExecCheck(p) ==
  /\ Running(p) /\ pc[p] = "exec_check"
  /\ IF \/ call[p].file \notin Files
        \/ call[p].file = pcb[p].file
        \/ Slots \subseteq bm
     THEN ExecReturn(p) /\ UNCHANGED <<bm, ptr, pcb>>
     ELSE /\ bm' = bm \cup {Find}
          /\ ptr' = [ptr EXCEPT ![Find] = "live"]
          /\ pcb' = [pcb EXCEPT ![Find] = NewPCB]
          /\ call' = [call EXCEPT ![p].id = Find]
          /\ Goto(p, "exec_load")
          /\ Continue(<<>>)
          /\ UNCHANGED bmsem
  /\ UNCHANGED <<machine, ret, exited>>

\* The second open of the file, the Thread object, and addrLock->P().
ExecLoad(p) ==
  /\ Running(p) /\ pc[p] = "exec_load"
  /\ \/ /\ HostMayRemove
        /\ Goto(p, "exec_fail")
        /\ UNCHANGED pcb
     \/ /\ pcb' = [pcb EXCEPT ![call[p].id] =
                     [@ EXCEPT !.parentID = p, !.thread = TRUE,
                               !.file = call[p].file]]
        /\ Goto(p, "exec_space")
  /\ Continue(<<>>)
  /\ UNCHANGED <<machine, bm, ptr, bmsem, call, ret, exited>>

\* PCB::Exec returned -1: the bit is cleared and the PCB deleted, but the
\* pointer in the table is kept.
ExecFail(p) ==
  /\ Running(p) /\ pc[p] = "exec_fail"
  /\ bm' = bm \ {call[p].id}
  /\ ptr' = [ptr EXCEPT ![call[p].id] = "dangling"]
  /\ pcb' = [pcb EXCEPT ![call[p].id] = NewPCB]
  /\ ExecReturn(p)
  /\ UNCHANGED <<machine, ret, exited>>

\* The rest of the AddrSpace constructor, which asserts that memory is left.
ExecSpace(p) ==
  /\ Running(p) /\ pc[p] = "exec_space"
  /\ IF Pages[call[p].file] <= FreePages
     THEN /\ pcb' = [pcb EXCEPT ![call[p].id].space = Pages[call[p].file]]
          /\ Goto(p, "exec_fork")
          /\ Continue(<<>>)
          /\ UNCHANGED <<machine, bm, ptr, bmsem, call, ret, exited>>
     ELSE Stop("aborted")

\* Fault: Fork gives the CPU to the child at once.
ExecFork_RunsChild(p) ==
  /\ Running(p) /\ pc[p] = "exec_fork"
  /\ pc' = [pc EXCEPT ![p] = "exec_unlock", ![call[p].id] = "user"]
  /\ current' = call[p].id
  /\ ready' = ReadyToRun(<<p>>)
  /\ exited' = [exited EXCEPT ![call[p].id] = [c \in Slots |-> NoCode],
                              ![p][call[p].id] = NoCode]
  /\ UNCHANGED <<machine, tableVars, call, ret>>

\* thread->Fork(exec_func, 0): the child is ready to run its program.
ExecFork(p) ==
  /\ Running(p) /\ pc[p] = "exec_fork"
  /\ pc' = [pc EXCEPT ![p] = "exec_unlock", ![call[p].id] = "user"]
  /\ Continue(<<call[p].id>>)
  /\ exited' = [exited EXCEPT ![call[p].id] = [c \in Slots |-> NoCode],
                              ![p][call[p].id] = NoCode]
  /\ UNCHANGED <<machine, tableVars, call, ret>>

\* mutex->V() and the reading of pID are member accesses of the child's PCB.
\* When the child has already exited the object is gone: its memory may
\* still be intact, or the run has no defined continuation.
ExecUnlock(p) ==
  /\ Running(p) /\ pc[p] = "exec_unlock"
  /\ \/ /\ Goto(p, "exec_count")
        /\ Continue(<<>>)
        /\ UNCHANGED <<machine, tableVars, call, ret, exited>>
     \/ ptr[call[p].id] # "live" /\ Stop("undefined")

\* Fault: the parent does not count the child.
ExecCount_Forgets(p) ==
  /\ Running(p) /\ pc[p] = "exec_count"
  /\ \/ ExecReturn(p) /\ UNCHANGED <<machine, bm, ptr, pcb, ret, exited>>
     \/ ptr[call[p].id] # "live" /\ Stop("undefined")

ExecCount(p) ==
  /\ Running(p) /\ pc[p] = "exec_count"
  /\ \/ /\ pcb' = [pcb EXCEPT ![p].numwait = @ + 1]
        /\ ExecReturn(p)
        /\ UNCHANGED <<machine, bm, ptr, ret, exited>>
     \/ ptr[call[p].id] # "live" /\ Stop("undefined")

-----------------------------------------------------------------------------
(* Join: PTable::JoinUpdate and PCB::JoinWait.                             *)

\* Fault: a Join that fails answers with the code of an earlier one.
JoinReturn_Stale(p, id, val) ==
  /\ Goto(p, "user")
  /\ call' = [call EXCEPT ![p] = NoCall]
  /\ ret' = [ret EXCEPT ![p] = [val |-> pcb[p].joinExitcode, code |-> exited[p][id]]]
  /\ exited' = [exited EXCEPT ![p][id] = NoCode]

JoinReturn(p, id, val) ==
  /\ Goto(p, "user")
  /\ call' = [call EXCEPT ![p] = NoCall]
  /\ ret' = [ret EXCEPT ![p] = [val |-> val, code |-> exited[p][id]]]
  /\ exited' = [exited EXCEPT ![p][id] = NoCode]

\* joinsem->P() on the caller's own semaphore, with the PCBs in state P.
JoinsemP(p, P) ==
  IF P[p].joinsem.value > 0
  THEN /\ pcb' = [P EXCEPT ![p].joinsem = PTake(@)]
       /\ Goto(p, "join_ret") /\ Continue(<<>>)
  ELSE /\ pcb' = [P EXCEPT ![p].joinsem = PQueue(@, p)]
       /\ Goto(p, "join_P") /\ Sleep

SysJoin(p, id) ==
  /\ Running(p) /\ pc[p] = "user"
  /\ IF id \notin Slots
     THEN /\ ret' = [ret EXCEPT ![p] = NoRet]
          /\ Continue(<<>>) /\ UNCHANGED <<pcb, pc, call, exited>>
     ELSE IF id \notin bm \/ pcb[id].parentID # p
     THEN JoinReturn(p, id, Failed) /\ Continue(<<>>) /\ UNCHANGED pcb
     ELSE IF pcb[p].joinID # NoPid
     THEN /\ JoinReturn(p, id, pcb[p].joinExitcode)
          /\ Continue(<<>>) /\ UNCHANGED pcb
     ELSE /\ JoinsemP(p, [pcb EXCEPT ![p].joinID = id])
          /\ call' = [call EXCEPT ![p].id = id]
          /\ ret' = [ret EXCEPT ![p] = NoRet]
          /\ UNCHANGED exited
  /\ UNCHANGED <<machine, bm, ptr, bmsem>>

JoinP(p) ==
  /\ Running(p) /\ pc[p] = "join_P"
  /\ JoinsemP(p, pcb)
  /\ UNCHANGED <<machine, bm, ptr, bmsem, call, ret, exited>>

JoinRet(p) ==
  /\ Running(p) /\ pc[p] = "join_ret"
  /\ JoinReturn(p, call[p].id, pcb[p].joinExitcode)
  /\ Continue(<<>>)
  /\ UNCHANGED <<machine, tableVars>>

-----------------------------------------------------------------------------
(* Exit: PTable::ExitUpdate, PCB::ExitWait, JoinRelease and ExitRelease.   *)
(* The code after ExitWait runs on until a V() that it really performs, so *)
(* its parts are operators on the PCBs P that the parts before them left.  *)

\* Delete the PCB, free the slot and the address space, Thread::Finish.
ExitFreed(p, P) ==
  /\ pcb' = [P EXCEPT ![p] = NewPCB]
  /\ ptr' = [ptr EXCEPT ![p] = "null"]
  /\ bm' = bm \ {p}
  /\ Goto(p, "none")
  /\ call' = [call EXCEPT ![p] = NoCall]
  /\ Sleep
  /\ UNCHANGED machine

\* Fault: the last child does not release its parent.
ExitCounted_NoRelease(p, P) ==
  ExitFreed(p, [P EXCEPT ![P[p].parentID].numwait = @ - 1])

\* DecNumWait and ExitRelease on the parent.
ExitCounted(p, P) ==
  LET par == P[p].parentID
      D == [P EXCEPT ![par].numwait = @ - 1]
  IN  IF D[par].numwait = 0 /\ D[par].isExit
      THEN /\ pcb' = [D EXCEPT ![par].exitsem = VSignal(@)]
           /\ Continue(VWoken(D[par].exitsem))
           /\ Goto(p, "exit_free")
           /\ UNCHANGED <<machine, bm, ptr, call>>
      ELSE ExitFreed(p, D)

\* Fault: a child releases its parent from a Join on another child.
ExitReleased_AnyChild(p, P, ec) ==
  LET par == P[p].parentID
  IN  IF par = NoPid
      THEN /\ machine' = "halted"
           /\ pcb' = P
           /\ UNCHANGED <<schedVars, bm, ptr, pc, call>>
      ELSE IF P[par].joinID # NoPid
      THEN /\ pcb' = [P EXCEPT ![par].joinID = NoPid,
                               ![par].joinExitcode = ec,
                               ![par].joinsem = VSignal(@)]
           /\ Continue(VWoken(P[par].joinsem))
           /\ Goto(p, "exit_dec")
           /\ call' = [call EXCEPT ![p].code = ec]
           /\ UNCHANGED <<machine, bm, ptr>>
      ELSE ExitCounted(p, P)

\* Fault: the child notes its code but does not wake its parent.
ExitReleased_Silent(p, P, ec) ==
  LET par == P[p].parentID
  IN  IF par = NoPid
      THEN /\ machine' = "halted"
           /\ pcb' = P
           /\ UNCHANGED <<schedVars, bm, ptr, pc, call>>
      ELSE ExitCounted(p, IF P[par].joinID = p
                          THEN [P EXCEPT ![par].joinID = NoPid,
                                         ![par].joinExitcode = ec]
                          ELSE P)

\* From the return of ExitWait: Halt, or JoinRelease on the parent.
ExitReleased(p, P, ec) ==
  LET par == P[p].parentID
  IN  IF par = NoPid
      THEN /\ machine' = "halted"
           /\ pcb' = P
           /\ UNCHANGED <<schedVars, bm, ptr, pc, call>>
      ELSE IF ptr[par] # "live"
      THEN /\ machine' = "undefined"
           /\ pcb' = P
           /\ UNCHANGED <<schedVars, bm, ptr, pc, call>>
      ELSE IF P[par].joinID = p
      THEN /\ pcb' = [P EXCEPT ![par].joinID = NoPid,
                               ![par].joinExitcode = ec,
                               ![par].joinsem = VSignal(@)]
           /\ Continue(VWoken(P[par].joinsem))
           /\ Goto(p, "exit_dec")
           /\ call' = [call EXCEPT ![p].code = ec]
           /\ UNCHANGED <<machine, bm, ptr>>
      ELSE ExitCounted(p, P)

\* exitsem->P() on the caller's own semaphore, with the PCBs in state P.
ExitsemP(p, P) ==
  IF P[p].exitsem.value > 0
  THEN /\ pcb' = [P EXCEPT ![p].exitsem = PTake(@)]
       /\ Goto(p, "exit_rel") /\ Continue(<<>>)
  ELSE /\ pcb' = [P EXCEPT ![p].exitsem = PQueue(@, p)]
       /\ Goto(p, "exit_P") /\ Sleep

RecordExit(p, ec) ==
  IF pcb[p].parentID = NoPid
  THEN UNCHANGED exited
  ELSE exited' = [exited EXCEPT ![pcb[p].parentID][p] = ec]

\* Fault: Exit does not wait for the children.
SysExit_NoWait(p, ec) ==
  /\ Running(p) /\ pc[p] = "user"
  /\ RecordExit(p, ec)
  /\ ExitReleased(p, pcb, ec)
  /\ ret' = [ret EXCEPT ![p] = NoRet]
  /\ UNCHANGED bmsem

SysExit(p, ec) ==
  /\ Running(p) /\ pc[p] = "user"
  /\ RecordExit(p, ec)
  /\ IF pcb[p].numwait > 0
     THEN /\ ExitsemP(p, [pcb EXCEPT ![p].isExit = TRUE])
          /\ call' = [call EXCEPT ![p].code = ec]
          /\ UNCHANGED <<machine, bm, ptr>>
     ELSE ExitReleased(p, pcb, ec)
  /\ ret' = [ret EXCEPT ![p] = NoRet]
  /\ UNCHANGED bmsem

ExitP(p) ==
  /\ Running(p) /\ pc[p] = "exit_P"
  /\ ExitsemP(p, pcb)
  /\ UNCHANGED <<machine, bm, ptr, bmsem, call, ret, exited>>

ExitRel(p) ==
  /\ Running(p) /\ pc[p] = "exit_rel"
  /\ ExitReleased(p, pcb, call[p].code)
  /\ UNCHANGED <<bmsem, ret, exited>>

ExitDec(p) ==
  /\ Running(p) /\ pc[p] = "exit_dec"
  /\ ExitCounted(p, pcb)
  /\ UNCHANGED <<bmsem, ret, exited>>

ExitFree(p) ==
  /\ Running(p) /\ pc[p] = "exit_free"
  /\ ExitFreed(p, pcb)
  /\ UNCHANGED <<bmsem, ret, exited>>

-----------------------------------------------------------------------------
\* Exec, Join and Exit scan the table for the caller's PCB and follow every
\* pointer before it.  One that a failed Exec left dangling is most often
\* read without harm (the actions above); else the run has no defined
\* continuation.
ScanDangling(p) ==
  /\ Running(p) /\ pc[p] \in {"user", "exec_check"}
  /\ \E i \in Slots : i < p /\ ptr[i] = "dangling"
  /\ Stop("undefined")

-----------------------------------------------------------------------------
Init ==
  /\ machine = "boot"
  /\ current = NoThread
  /\ ready = <<>>
  /\ bm = {}
  /\ ptr = [i \in Slots |-> "null"]
  /\ pcb = [i \in Slots |-> NewPCB]
  /\ bmsem = Semaphore(1)
  /\ pc = [i \in Slots |-> "none"]
  /\ call = [i \in Slots |-> NoCall]
  /\ ret = [i \in Slots |-> NoRet]
  /\ exited = [p \in Slots |-> [c \in Slots |-> NoCode]]

Step(p) ==
  \/ \E f \in Files \cup {NoFile} : SysExec(p, f)
  \/ \E id \in -1 .. MaxProcess : SysJoin(p, id)
  \/ \E ec \in Codes : SysExit(p, ec)
  \/ ExecP(p)
  \/ ExecCheck(p)
  \/ ExecLoad(p)
  \/ ExecFail(p)
  \/ ExecSpace(p)
  \/ ExecFork(p)
  \/ ExecUnlock(p)
  \/ ExecCount(p)
  \/ JoinP(p)
  \/ JoinRet(p)
  \/ ExitP(p)
  \/ ExitRel(p)
  \/ ExitDec(p)
  \/ ExitFree(p)
  \/ ScanDangling(p)

\* Interrupts are off from the return of Sleep in P() to the next test of the
\* value: a woken thread is not preempted before it has looked.
Preempt ==
  /\ machine = "run"
  /\ TimerYield
  /\ pc[current] \notin {"exec_P", "join_P", "exit_P"}
  /\ UNCHANGED <<machine, tableVars, pc, call, ret, exited>>

\* The machine stopped, or the CPU idles and only the console poll is left.
Quiet ==
  /\ machine \in {"halted", "aborted", "undefined"} \/ current = NoThread
  /\ machine # "boot"
  /\ UNCHANGED vars

Next ==
  \/ \E f \in Files \cup {NoFile} : Boot(f)
  \/ \E p \in Slots : Step(p)
  \/ Preempt
  \/ Quiet

Spec == Init /\ [][Next]_vars

KernelStep(p) == pc[p] # "user" /\ Step(p)

\* A thread in the kernel that is given the CPU again and again gets to its
\* next yield point: the timer interval is random, so it does not go off at
\* the same point for ever.  The timer goes off again and again, and its
\* interrupt stays pending while interrupts are off.  Programs may compute
\* for ever: nothing is assumed of their steps.
Fairness ==
  /\ \A p \in Slots : SF_vars(KernelStep(p))
  /\ SF_vars(Preempt)

FairSpec == Spec /\ Fairness

-----------------------------------------------------------------------------
(* Properties.                                                             *)

Sem == [value : Nat, queue : Seq(Slots)]

PCBs ==
  [parentID : Slots \cup {NoPid}, numwait : Int, joinID : Slots \cup {NoPid},
   joinExitcode : Nat, isExit : BOOLEAN, thread : BOOLEAN,
   file : Files \cup {NoFile}, space : Nat, joinsem : Sem, exitsem : Sem]

InExec == {"exec_check", "exec_load", "exec_space", "exec_fork",
           "exec_unlock", "exec_count", "exec_fail"}

Labels == InExec \cup {"none", "user", "exec_P", "join_P", "join_ret",
                       "exit_P", "exit_rel", "exit_dec", "exit_free"}

Calls == [file : Files \cup {NoFile}, id : Slots \cup {NoPid}, code : Nat]

Rets == [val : Nat \cup {Failed}, code : Codes \cup {NoCode}]

TypeOK ==
  /\ machine \in {"boot", "run", "halted", "aborted", "undefined"}
  /\ current \in Slots \cup {NoThread}
  /\ ready \in Seq(Slots)
  /\ bm \subseteq Slots
  /\ ptr \in [Slots -> {"null", "live", "dangling"}]
  /\ pcb \in [Slots -> PCBs]
  /\ bmsem \in Sem
  /\ pc \in [Slots -> Labels]
  /\ call \in [Slots -> Calls]
  /\ ret \in [Slots -> Rets]
  /\ exited \in [Slots -> [Slots -> Codes \cup {NoCode}]]

\* The bitmap and the pointers agree: a slot has a PCB exactly when its bit is
\* set, wherever Exec and Exit lose the CPU.  (A clear slot may have a pointer
\* to a deleted PCB: see ExecFail.)
SlotsAgree == \A i \in Slots : i \in bm <=> ptr[i] = "live"

\* Children of p that still have their DecNumWait on p ahead of them.
Pending(p) ==
  {c \in Slots : pc[c] \notin {"none", "exit_free"} /\ pcb[c].parentID = p}

\* The parent's PCB is there for as long as a child can still reach it
\* through pcb[parentid] in ExitUpdate: a parent gets past ExitWait, frees
\* its PCB or halts the machine only after its last child has counted down.
ParentOutlivesChild ==
  \A c \in Slots :
    pc[c] \notin {"none", "exit_free"} /\ c # Root =>
      LET par == pcb[c].parentID
      IN  /\ par \in Slots
          /\ ptr[par] = "live"
          /\ pc[par] \notin {"none", "exit_rel", "exit_dec", "exit_free"}
          /\ par = Root => machine # "halted"

\* Where the parent is between Fork and IncNumWait.
Counting == {"exec_unlock", "exec_count"}

Counted(p) ==
  pcb[p].numwait = IF pc[p] \in Counting
                   THEN Cardinality(Pending(p)) - 1
                   ELSE Cardinality(Pending(p))

\* numwait counts the children that have yet to count down, although the
\* child runs before its parent counts it: the count is one short exactly
\* while the parent is between Fork and IncNumWait.
NumWaitCounts == \A p \in Slots : Counted(p)

\* An exit code that Join returns is the one that this child passed to Exit:
\* joinExitcode is not overwritten by another child, by a later process in
\* the same slot, or read before the child has exited.
JoinAnswersTruly ==
  \A p \in Slots :
    ret[p].val # Failed => ret[p].val = ret[p].code

\* "Return the exit status" (userprog/syscall.h, Join): a Join on a child
\* that has called Exit and was not joined before returns its exit code.
JoinReturnsStatus ==
  \A p \in Slots : ret[p].code \in {NoCode, ret[p].val}

\* "Only return once the user program id has finished" (userprog/syscall.h,
\* Join): a joiner is not left asleep when that program has finished, and
\* the waits of Exec, Join and Exit never leave every process asleep.
JoinNotStranded ==
  /\ \A p \in Slots :
       pc[p] = "join_P" /\ pcb[p].joinsem.value = 0 =>
         /\ ptr[call[p].id] = "live"
         /\ pcb[call[p].id].parentID = p
  /\ machine = "run" => current # NoThread

\* A PCB, and with it its semaphores, is deleted only when no longer needed:
\* the child's PCB is there until PCB::Exec, which runs on it, has returned.
PCBOutlivesExec ==
  \A p \in Slots :
    pc[p] \in Counting => ptr[call[p].id] = "live"

-----------------------------------------------------------------------------
(* The inductive invariant behind these properties.                        *)

\* bmsem admits one process into ExecUpdate.  Until Fork the new slot is
\* marked, and idle.
ExecInv ==
  /\ bmsem.value \in {0, 1}
  /\ \A p \in Slots :
       pc[p] \in InExec =>
         bmsem.value = 0 /\ \A q \in Slots : pc[q] \in InExec => q = p
  /\ \A p \in Slots :
       pc[p] \in {"exec_load", "exec_space", "exec_fork", "exec_fail"} =>
         call[p].id \in bm /\ pc[call[p].id] = "none" /\ call[p].file \in Files
  /\ \A p \in Slots :
       pc[p] \in {"exec_space", "exec_fork"} => pcb[call[p].id].parentID = p
  /\ \A p \in Slots :
       pc[p] \in {"exec_unlock", "exec_count"} => call[p].id \in Slots

\* Every thread has its PCB; the first process is there while the machine
\* runs and is the only one without a parent.
RootInv ==
  /\ machine = "boot" => \A p \in Slots : pc[p] = "none" /\ ptr[p] = "null"
  /\ machine = "run" => pc[Root] # "none"
  /\ pc[Root] \notin {"exit_dec", "exit_free"}
  /\ pc[Root] # "none" => pcb[Root].parentID = NoPid
  /\ \A p \in Slots : pc[p] # "none" => ptr[p] = "live"

\* exitsem is signalled once, for a process that waits for it and has no
\* child left.  A slot without a thread has a fresh PCB.
ExitInv ==
  \A p \in Slots :
    /\ pcb[p].exitsem.value > 0 =>
         /\ pcb[p].exitsem.value = 1
         /\ pc[p] = "exit_P"
         /\ pcb[p].numwait = 0
    /\ pcb[p].isExit => pc[p] \in {"exit_P", "exit_rel", "exit_dec", "exit_free"}
    /\ pc[p] \in {"exit_P"} => pcb[p].isExit

\* Children of p that have yet to pass JoinRelease.
Unreleased(p) ==
  {c \in Slots : /\ pc[c] \notin {"none", "exit_dec", "exit_free"}
                 /\ pcb[c].parentID = p}

\* joinID names the child a joiner waits for; once released, the joiner
\* holds that child's code, and no child in that slot can exit again.
JoinState(p) ==
  /\ pcb[p].joinID # NoPid => pc[p] = "join_P"
  /\ pc[p] \in {"join_P", "join_ret"} => call[p].id \in Slots
  /\ pc[p] = "join_P" => pcb[p].joinID \in {NoPid, call[p].id}
  /\ pcb[p].joinsem.value > 0 =>
       /\ pcb[p].joinsem.value = 1
       /\ pc[p] = "join_P"
       /\ pcb[p].joinID = NoPid
  /\ \/ pc[p] = "join_P" /\ pcb[p].joinID = NoPid
     \/ pc[p] = "join_ret"
     => /\ pcb[p].joinExitcode = exited[p][call[p].id]
        /\ pcb[p].joinExitcode \in Codes
        /\ call[p].id \notin Unreleased(p)

\* Between its Exit and JoinRelease a process still has its code.
CodeKept(c) ==
  pc[c] \in {"exit_P", "exit_rel"} =>
    /\ call[c].code \in Codes
    /\ exited[pcb[c].parentID][c] = call[c].code

JoinInv ==
  /\ \A p \in Slots : JoinState(p)
  /\ \A c \in Slots \ {Root} : CodeKept(c)

TableInv ==
  /\ TypeOK
  /\ SlotsAgree
  /\ ExecInv
  /\ RootInv
  /\ ExitInv
  /\ ParentOutlivesChild
  /\ NumWaitCounts
  /\ JoinInv

\* A process in Exit whose last child has counted down is not forgotten: it
\* frees its slot, or the machine stops.  And a joiner whose child released
\* it gets its answer.
CallsComplete ==
  \A p \in Slots :
    /\ (machine = "run" /\ pc[p] = "exit_P" /\ pcb[p].numwait = 0)
         ~> (machine # "run" \/ pc[p] = "none")
    /\ (machine = "run" /\ pc[p] = "join_P" /\ pcb[p].joinID = NoPid)
         ~> (machine # "run" \/ pc[p] = "user")
=============================================================================
