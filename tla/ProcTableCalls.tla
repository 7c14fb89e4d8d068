-------------------------- MODULE ProcTableCalls ----------------------------
(***************************************************************************)
(* Exec, Join and Exit keep the invariant TableInv of the process table,   *)
(* and Exec and Exit keep NoTimerInv in a kernel without a timer: one      *)
(* lemma per action or per part that several actions share. Before them,   *)
(* the facts that all the proofs about the process table share.            *)
(***************************************************************************)
EXTENDS ProcTable, SchedulerFacts

\* A step goes to Zenon unless it names the SMT solver.
USE Zenon

-----------------------------------------------------------------------------
(* Types, what a small step preserves, and the children of a process.      *)

\* What the steps need to know of sets of slots: lemma CountLawsHold of
\* module ProcTableProofs has it from the library, once for all of them.
CountLaws ==
  /\ Cardinality({}) = 0
  /\ \A S \in SUBSET Slots :
       /\ Cardinality(S) \in Nat
       /\ Cardinality(S) = 0 => S = {}
       /\ S # {} => \E i \in S : \A j \in S : i <= j
       /\ \A x \in Slots \ S : Cardinality(S \cup {x}) = Cardinality(S) + 1
       /\ \A x \in S : Cardinality(S \ {x}) = Cardinality(S) - 1

\* What the assumptions on the constants say of the values the table uses.
LEMMA ConstTypes ==
  /\ Root \in Slots
  /\ NoPid \notin Slots
  /\ NoThread \notin Slots
  /\ Failed \notin Codes /\ NoCode \notin Codes
  /\ Slots \subseteq Int
  /\ \A f \in Files : Pages[f] \in Nat
BY ProcAssumption, SMT DEF Root, Slots, NoPid, Failed, NoCode

\* P() and V() keep a semaphore a semaphore.
LEMMA SemTypes ==
  ASSUME NEW s \in Sem, NEW t \in Slots
  PROVE  /\ s.value > 0 => PTake(s) \in Sem
         /\ PQueue(s, t) \in Sem
         /\ VSignal(s) \in Sem
         /\ VWoken(s) \in Seq(Slots)
<1>1. s.value > 0 => PTake(s) \in Sem
  BY SMT DEF Sem, PTake
<1>2. PQueue(s, t) \in Sem
  <2>1. Append(s.queue, t) \in Seq(Slots)
    BY SMT DEF Sem
  <2> QED BY <2>1 DEF Sem, PQueue
<1>3. s.queue # <<>> => Tail(s.queue) \in Seq(Slots) /\ Head(s.queue) \in Slots
  BY SMT DEF Sem
<1>4. VSignal(s) \in Sem
  BY <1>3, SMT DEF Sem, VSignal
<1>5. VWoken(s) \in Seq(Slots)
  BY <1>3, SMT DEF VWoken
<1> QED BY <1>1, <1>2, <1>4, <1>5

\* What the constructors make is well typed.
LEMMA FreshTypes ==
  /\ Semaphore(0) \in Sem /\ Semaphore(1) \in Sem
  /\ NewPCB \in PCBs
  /\ NoCall \in Calls
  /\ NoRet \in Rets
<1>1. Semaphore(0) \in Sem /\ Semaphore(1) \in Sem /\ NewPCB \in PCBs
  BY ConstTypes, SMT DEF Semaphore, Sem, NewPCB, PCBs
<1>2. NoCall \in Calls /\ NoRet \in Rets
  BY DEF NoCall, Calls, NoRet, Rets
<1> QED BY <1>1, <1>2

SchedType == ready \in Seq(Slots) /\ current \in Slots \cup {NoThread}

\* Sleep, Yield and ReadyToRun keep the CPU and the ready list well typed.
LEMMA SchedTypes ==
  ASSUME SchedType
  PROVE  /\ Sleep => SchedType'
         /\ Yield => SchedType'
         /\ \A ts \in Seq(Slots) : Continue(ts) => SchedType'
         /\ Continue(<<>>) => SchedType'
<1>1. ready # <<>> => Head(ready) \in Slots /\ Tail(ready) \in Seq(Slots)
  BY SMT DEF SchedType
<1>2. Sleep => SchedType'
  BY <1>1 DEF Sleep, SchedType
<1>3. Yield => SchedType'
  BY <1>1, SMT DEF Yield, SchedType
<1>4. ASSUME NEW ts \in Seq(Slots), Continue(ts) PROVE SchedType'
  BY <1>4, SMT DEF SchedType, Continue, ReadyToRun
<1>5. Continue(<<>>) => SchedType'
  <2>1. <<>> \in Seq(Slots)
    BY SMT
  <2> QED BY <2>1, <1>4
<1> QED BY <1>2, <1>3, <1>4, <1>5

\* BitMap::Find returns a clear slot when there is one.
LEMMA FindType ==
  ASSUME CountLaws, ~(Slots \subseteq bm)
  PROVE  Find \in Slots \ bm
<1>1. Slots \ bm # {} /\ Slots \ bm \in SUBSET Slots
  OBVIOUS
<1>2. \E i \in Slots \ bm : \A j \in Slots \ bm : i <= j
  BY <1>1 DEF CountLaws
<1> QED BY <1>2 DEF Find

\* The initial state is well typed.
LEMMA InitType == Init => TypeOK
BY ConstTypes, FreshTypes, SMT
   DEF Init, TypeOK, Labels

\* A count of children does not change when no child does.
LEMMA SameCount ==
  ASSUME \A q \in Slots : Pending(q)' = Pending(q),
         \A q \in Slots : pcb'[q].numwait = pcb[q].numwait,
         \A q \in Slots : pc'[q] \in Counting <=> pc[q] \in Counting,
         NumWaitCounts
  PROVE  NumWaitCounts'
BY DEF NumWaitCounts, Counted

\* What a process in Join relies on is its own PCB, and the code on record for
\* a child that cannot exit again.
LEMMA JoinStateKept ==
  ASSUME NEW q \in Slots, JoinState(q),
         pc'[q] = pc[q], call'[q] = call[q],
         pcb'[q].joinID = pcb[q].joinID,
         pcb'[q].joinExitcode = pcb[q].joinExitcode,
         pcb'[q].joinsem = pcb[q].joinsem,
         Unreleased(q)' \subseteq Unreleased(q),
         \A c \in Slots : c \in Unreleased(q) \/ exited'[q][c] = exited[q][c]
  PROVE  JoinState(q)'
BY DEF JoinState

\* A process between Exit and JoinRelease keeps its code if nobody touches it.
LEMMA CodeKeptKept ==
  ASSUME NEW c \in Slots, CodeKept(c),
         pc'[c] = pc[c], call'[c] = call[c],
         pcb'[c].parentID = pcb[c].parentID,
         pc[c] \in {"exit_P", "exit_rel"} =>
           exited'[pcb[c].parentID][c] = exited[pcb[c].parentID][c]
  PROVE  CodeKept(c)'
BY DEF CodeKept

\* The children yet to pass JoinRelease change only with pc and parentID.
LEMMA UnreleasedKept ==
  ASSUME \A c \in Slots : pcb'[c].parentID = pcb[c].parentID,
         \A c \in Slots : pc'[c] \in {"none", "exit_dec", "exit_free"}
                           <=> pc[c] \in {"none", "exit_dec", "exit_free"}
  PROVE  \A q \in Slots : Unreleased(q)' = Unreleased(q)
BY DEF Unreleased

\* A process that leaves is no longer among its parent's children.
LEMMA PendingWithout ==
  ASSUME NEW p \in Slots, pc'[p] \in {"none", "exit_free"},
         \A q \in Slots : q # p =>
           pc'[q] = pc[q] /\ pcb'[q].parentID = pcb[q].parentID
  PROVE  \A q \in Slots : Pending(q)' = Pending(q) \ {p}
BY DEF Pending

\* The count of a process stays right when it and its children stay.
LEMMA CountedKept ==
  ASSUME NEW q \in Slots, Counted(q), Pending(q)' = Pending(q),
         pcb'[q].numwait = pcb[q].numwait, pc'[q] = pc[q]
  PROVE  Counted(q)'
BY DEF Counted

\* A step that leaves the PCBs and all control points alone.
LEMMA SameWaits ==
  ASSUME NumWaitCounts, JoinInv, UNCHANGED <<pcb, pc, call, exited>>
  PROVE  NumWaitCounts' /\ JoinInv'
<1>1. NumWaitCounts'
  BY SameCount DEF Pending
<1>2. \A q \in Slots : Unreleased(q)' = Unreleased(q)
  BY UnreleasedKept
<1>3. ASSUME NEW q \in Slots PROVE JoinState(q)'
  <2>1. JoinState(q)
    BY DEF JoinInv
  <2> QED BY <1>2, <2>1, JoinStateKept
<1>4. ASSUME NEW c \in Slots \ {Root} PROVE CodeKept(c)'
  <2>1. CodeKept(c)
    BY DEF JoinInv
  <2> QED BY <2>1, CodeKeptKept
<1> QED BY <1>1, <1>3, <1>4 DEF JoinInv

\* What TypeOK says of a PCB and of the locals of a system call.
LEMMA Types ==
  ASSUME TableInv
  PROVE  /\ SchedType
         /\ pcb \in [Slots -> PCBs]
         /\ pc \in [Slots -> Labels]
         /\ call \in [Slots -> Calls]
         /\ ret \in [Slots -> Rets]
         /\ bmsem \in Sem
BY DEF TableInv, TypeOK, SchedType

\* The fields of a PCB that the invariant looks at.
SameFields(q) ==
  /\ pcb'[q].parentID = pcb[q].parentID
  /\ pcb'[q].numwait = pcb[q].numwait
  /\ pcb'[q].joinID = pcb[q].joinID
  /\ pcb'[q].joinExitcode = pcb[q].joinExitcode
  /\ pcb'[q].isExit = pcb[q].isExit
  /\ pcb'[q].joinsem.value = pcb[q].joinsem.value
  /\ pcb'[q].exitsem.value = pcb[q].exitsem.value

\* Steps of Exec that neither create nor count a child.
LEMMA ExecStepInv ==
  ASSUME TableInv, TypeOK', ExecInv', NEW p \in Slots,
         pc[p] \in InExec \cup {"user", "exec_P"},
         pc'[p] \in InExec \cup {"user", "exec_P"},
         pc[p] \in Counting <=> pc'[p] \in Counting,
         \A q \in Slots : q # p => pc'[q] = pc[q] /\ call'[q] = call[q],
         \A q \in Slots : SameFields(q),
         UNCHANGED <<machine, bm, ptr, exited>>
  PROVE  TableInv'
<1>1. SlotsAgree'
  BY DEF TableInv, SlotsAgree
<1>2. RootInv'
  BY ConstTypes, SMT DEF TableInv, RootInv, InExec, SameFields
<1>3. ExitInv'
  BY SMT DEF TableInv, ExitInv, InExec, SameFields
<1>4. ParentOutlivesChild'
  BY SMT DEF TableInv, ParentOutlivesChild, InExec, SameFields
<1>5. NumWaitCounts'
  <2>1. \A q \in Slots : Pending(q)' = Pending(q)
    BY DEF Pending, InExec, SameFields
  <2> QED BY <2>1, SameCount DEF TableInv, Counting, SameFields
<1>6. JoinInv'
  <2>1. \A q \in Slots : Unreleased(q)' = Unreleased(q)
    BY DEF Unreleased, InExec, SameFields
  <2> QED BY <2>1, SMT DEF TableInv, JoinInv, JoinState, CodeKept, InExec, SameFields
<1> QED BY <1>1, <1>2, <1>3, <1>4, <1>5, <1>6 DEF TableInv

\* A stop of the machine disturbs nothing but the machine.
LEMMA StopInv ==
  ASSUME TableInv, NEW how \in {"aborted", "undefined"}, Stop(how)
  PROVE  TableInv'
<1>1. UNCHANGED <<current, ready, bm, ptr, pcb, bmsem, pc, call, ret, exited>>
      /\ machine' = how
  BY DEF Stop, schedVars, tableVars
<1>2. TypeOK'
  BY <1>1 DEF TableInv, TypeOK
<1>3. SlotsAgree' /\ ExecInv' /\ RootInv' /\ ExitInv'
  BY <1>1 DEF TableInv, SlotsAgree, ExecInv, RootInv, ExitInv
<1>4. ParentOutlivesChild'
  BY <1>1 DEF TableInv, ParentOutlivesChild
<1>5. NumWaitCounts' /\ JoinInv'
  BY <1>1, SMT DEF TableInv, NumWaitCounts, Counted, Counting, Pending, JoinInv, JoinState, CodeKept, Unreleased
<1> QED BY <1>2, <1>3, <1>4, <1>5 DEF TableInv

\* The fields of a new PCB.
LEMMA FreshFields ==
  /\ NewPCB.parentID = NoPid /\ NewPCB.numwait = 0 /\ NewPCB.joinID = NoPid
  /\ NewPCB.isExit = FALSE
  /\ NewPCB.joinsem.value = 0 /\ NewPCB.exitsem.value = 0
BY DEF NewPCB, Semaphore

\* A slot without a thread has no child, and its PCB waits for nothing.
LEMMA IdleSlot ==
  ASSUME CountLaws, TableInv, NEW i \in Slots, pc[i] = "none"
  PROVE  /\ pcb[i].numwait = 0
         /\ pcb[i].joinID = NoPid
         /\ pcb[i].isExit = FALSE
         /\ pcb[i].joinsem.value = 0
         /\ pcb[i].exitsem.value = 0
         /\ Pending(i) = {}
<1>0. pcb[i] \in PCBs
  BY Types
<1>1. Pending(i) = {}
  BY ConstTypes DEF TableInv, ParentOutlivesChild, RootInv, Pending
<1>2. pcb[i].numwait = 0
  <2>1. Cardinality(Pending(i)) = 0
    BY <1>1 DEF CountLaws
  <2> QED BY <2>1 DEF TableInv, NumWaitCounts, Counted, Counting
<1>3. pcb[i].exitsem.value = 0 /\ pcb[i].isExit = FALSE
  BY <1>0, SMT DEF TableInv, ExitInv, PCBs, Sem
<1>4. pcb[i].joinID = NoPid /\ pcb[i].joinsem.value = 0
  BY <1>0, SMT DEF TableInv, JoinInv, JoinState, CodeKept, PCBs, Sem
<1> QED BY <1>1, <1>2, <1>3, <1>4

\* The children to wait for can be counted.
LEMMA FinitePending ==
  ASSUME CountLaws, NEW q \in Slots
  PROVE  Pending(q) \in SUBSET Slots /\ Cardinality(Pending(q)) \in Nat
<1>1. Pending(q) \in SUBSET Slots
  BY DEF Pending
<1> QED BY <1>1 DEF CountLaws

\* A step of a process that is not in Exec does not disturb one that is.
LEMMA ExecKept ==
  ASSUME TableInv, NEW p \in Slots,
         pc[p] \notin InExec \cup {"none"}, pc'[p] \notin InExec,
         \A q \in Slots : q # p => pc'[q] = pc[q] /\ call'[q] = call[q],
         \A q \in Slots : q # p => pcb'[q].parentID = pcb[q].parentID,
         bm \ {p} \subseteq bm', UNCHANGED bmsem
  PROVE  ExecInv'
<1>1. bm \subseteq Slots
  BY DEF TableInv, TypeOK
<1>2. \A q \in Slots : pc'[q] \in InExec => q # p /\ pc'[q] = pc[q] /\ call'[q] = call[q]
  OBVIOUS
<1>3. ASSUME NEW q \in Slots,
             pc'[q] \in {"exec_load", "exec_space", "exec_fork", "exec_fail"}
      PROVE  /\ call'[q].id \in bm' /\ pc'[call'[q].id] = "none"
             /\ call'[q].file \in Files
             /\ pc'[q] \in {"exec_space", "exec_fork"} => pcb'[call'[q].id].parentID = q
  <2>1. pc[q] = pc'[q] /\ call'[q] = call[q]
    BY <1>2, <1>3 DEF InExec
  <2>2. /\ call[q].id \in bm /\ pc[call[q].id] = "none" /\ call[q].file \in Files
        /\ pc[q] \in {"exec_space", "exec_fork"} => pcb[call[q].id].parentID = q
    BY <1>3, <2>1 DEF TableInv, ExecInv
  <2>3. call[q].id \in Slots /\ call[q].id # p
    BY <1>1, <2>2
  <2> QED BY <2>1, <2>2, <2>3
<1>4. \A q \in Slots : pc'[q] \in {"exec_unlock", "exec_count"} => call'[q].id \in Slots
  BY <1>2 DEF TableInv, ExecInv, InExec
<1>5. bmsem'.value \in {0, 1} /\ \A q \in Slots : pc'[q] \in InExec =>
         bmsem'.value = 0 /\ \A r \in Slots : pc'[r] \in InExec => r = q
  BY <1>2 DEF TableInv, ExecInv
<1> QED BY <1>3, <1>4, <1>5 DEF ExecInv

\* A process without a child to wait for, before and after the V() calls.
LEMMA NoChild ==
  ASSUME CountLaws, TableInv, NEW p \in Slots
  PROVE  /\ pc[p] \in {"exit_rel", "exit_dec", "exit_free"} => Pending(p) = {}
         /\ pc[p] \in {"user", "exit_P"} /\ ~(pcb[p].numwait > 0) => Pending(p) = {}
<1>1. pc[p] \in {"exit_rel", "exit_dec", "exit_free"} => Pending(p) = {}
  BY ConstTypes DEF TableInv, ParentOutlivesChild, RootInv, Pending
<1>2. ASSUME pc[p] \in {"user", "exit_P"}, ~(pcb[p].numwait > 0) PROVE Pending(p) = {}
  <2>1. Cardinality(Pending(p)) = 0
    BY <1>2, FinitePending, SMT DEF TableInv, NumWaitCounts, Counted, Counting
  <2> QED BY <2>1, FinitePending DEF CountLaws
<1> QED BY <1>1, <1>2

-----------------------------------------------------------------------------
(* Exec.                                                                   *)

\* bmsem->P() at the start of ExecUpdate.
LEMMA BmsemPInv ==
  ASSUME TableInv, NEW p \in Slots, NEW f \in Files \cup {NoFile},
         SysExec(p, f) \/ ExecP(p)
  PROVE  TableInv'
<1>1. /\ pc[p] \in {"user", "exec_P"}
      /\ BmsemP(p)
      /\ call' \in {call, [call EXCEPT ![p].file = f]}
      /\ ret' \in {ret, [ret EXCEPT ![p] = NoRet]}
      /\ UNCHANGED <<machine, bm, ptr, pcb, exited>>
  BY DEF SysExec, ExecP
<1>2. SchedType'
  BY <1>1, Types, SchedTypes DEF BmsemP
<1>3. /\ bmsem' \in Sem
      /\ pc' \in [Slots -> Labels]
      /\ \/ bmsem.value > 0 /\ bmsem'.value = bmsem.value - 1 /\ pc'[p] = "exec_check"
         \/ bmsem'.value = bmsem.value /\ pc'[p] = "exec_P"
      /\ \A q \in Slots : q # p => pc'[q] = pc[q]
  <2>1. bmsem \in Sem
    BY DEF TableInv, TypeOK
  <2>2. bmsem.value > 0 => PTake(bmsem) \in Sem /\ PTake(bmsem).value = bmsem.value - 1
    BY <2>1, SemTypes DEF PTake, Sem
  <2>3. PQueue(bmsem, p) \in Sem /\ PQueue(bmsem, p).value = bmsem.value
    BY <2>1, SemTypes DEF PQueue, Sem
  <2> QED BY <1>1, <2>2, <2>3, Types, SMT DEF BmsemP, Goto, Labels, InExec
<1>4. /\ call' \in [Slots -> Calls]
      /\ \A q \in Slots : q # p => call'[q] = call[q]
  BY <1>1, Types, SMT DEF Calls
<1>5. ret' \in [Slots -> Rets]
  BY <1>1, Types, FreshTypes
<1>6. TypeOK'
  BY <1>1, <1>2, <1>3, <1>4, <1>5 DEF TableInv, TypeOK, SchedType
<1>7. ExecInv'
  BY <1>1, <1>3, <1>4, ConstTypes, SMT DEF TableInv, ExecInv, InExec, TypeOK
<1>8. \A q \in Slots : SameFields(q)
  BY <1>1 DEF SameFields
<1> QED BY <1>1, <1>3, <1>4, <1>6, <1>7, <1>8, ExecStepInv DEF InExec, Counting

\* The second open of the executable and the new Thread object.
LEMMA ExecLoadInv ==
  ASSUME TableInv, NEW p \in Slots, ExecLoad(p)
  PROVE  TableInv'
<1> DEFINE id == call[p].id
<1> DEFINE f == call[p].file
<1>1. id \in Slots /\ id \in bm /\ pc[id] = "none" /\ f \in Files /\ id # p
  BY DEF ExecLoad, TableInv, ExecInv, TypeOK
<1>2. SchedType'
  BY Types, SchedTypes DEF ExecLoad
<1> DEFINE new == [pcb[id] EXCEPT !.parentID = p, !.thread = TRUE, !.file = f]
<1>3. \/ pcb' = pcb /\ pc' = [pc EXCEPT ![p] = "exec_fail"]
      \/ pcb' = [pcb EXCEPT ![id] = new] /\ pc' = [pc EXCEPT ![p] = "exec_space"]
  BY DEF ExecLoad, Goto
<1>4. pc[p] = "exec_load" /\ UNCHANGED <<machine, bm, ptr, bmsem, call, ret, exited>>
  BY DEF ExecLoad
<1>5. /\ new \in PCBs
      /\ new.parentID = p
      /\ new.numwait = pcb[id].numwait
      /\ new.joinID = pcb[id].joinID
      /\ new.joinExitcode = pcb[id].joinExitcode
      /\ new.isExit = pcb[id].isExit
      /\ new.joinsem = pcb[id].joinsem
      /\ new.exitsem = pcb[id].exitsem
  <2>1. pcb[id] \in PCBs
    BY <1>1, Types
  <2> QED BY <2>1, <1>1 DEF PCBs
<1> HIDE DEF id, f, new
<1>6. /\ pcb' \in [Slots -> PCBs]
      /\ pc' \in [Slots -> Labels]
      /\ \A q \in Slots : q # id => pcb'[q] = pcb[q]
      /\ \A q \in Slots : q # p => pc'[q] = pc[q]
      /\ pc'[p] \in {"exec_fail", "exec_space"}
      /\ pcb'[id] \in {pcb[id], new}
      /\ pc'[p] = "exec_space" => pcb'[id] = new
  BY <1>1, <1>3, <1>5, Types, SMT DEF Labels, InExec
<1>7. TypeOK'
  BY <1>2, <1>6, <1>4 DEF TableInv, TypeOK, SchedType
<1>8. SlotsAgree'
  BY <1>4 DEF TableInv, SlotsAgree
<1>9. ExecInv'
  BY <1>1, <1>4, <1>5, <1>6, SMT DEF TableInv, ExecInv, InExec, id, f
<1>10. RootInv' /\ ExitInv'
  BY <1>1, <1>4, <1>5, <1>6, ConstTypes, SMT DEF TableInv, RootInv, ExitInv
<1>11. ParentOutlivesChild'
  BY <1>1, <1>4, <1>5, <1>6, SMT DEF TableInv, ParentOutlivesChild
<1>12. NumWaitCounts'
  <2>1. \A q \in Slots : Pending(q)' = Pending(q)
    BY <1>1, <1>4, <1>5, <1>6, SMT DEF Pending
  <2> QED BY <2>1, <1>1, <1>4, <1>5, <1>6, SameCount DEF TableInv, Counting
<1>13. JoinInv'
  <2>1. \A q \in Slots : Unreleased(q)' = Unreleased(q)
    BY <1>1, <1>4, <1>5, <1>6 DEF Unreleased
  <2> QED BY <2>1, <1>1, <1>4, <1>5, <1>6, SMT DEF TableInv, JoinInv, JoinState, CodeKept
<1> QED BY <1>7, <1>8, <1>9, <1>10, <1>11, <1>12, <1>13 DEF TableInv

\* bmsem->V() at the end of ExecUpdate.
LEMMA ExecReturns ==
  ASSUME TableInv, NEW p \in Slots, ExecReturn(p), pc[p] \in InExec
  PROVE  /\ SchedType'
         /\ bmsem' \in Sem
         /\ bmsem.value = 0 /\ bmsem'.value = 1
         /\ pc' \in [Slots -> Labels]
         /\ pc'[p] = "user"
         /\ \A q \in Slots : q # p => pc'[q] = pc[q] /\ pc[q] \notin InExec
         /\ call' \in [Slots -> Calls]
         /\ \A q \in Slots : q # p => call'[q] = call[q]
<1>1. SchedType'
  BY Types, SchedTypes, SemTypes DEF ExecReturn
<1>2. bmsem' \in Sem /\ bmsem'.value = bmsem.value + 1
  BY Types, SemTypes DEF ExecReturn, VSignal
<1>3. bmsem.value = 0 /\ \A q \in Slots : q # p => pc[q] \notin InExec
  BY DEF TableInv, ExecInv
<1>4. /\ pc' \in [Slots -> Labels]
      /\ pc'[p] = "user"
      /\ \A q \in Slots : q # p => pc'[q] = pc[q]
  BY Types DEF ExecReturn, Goto, Labels
<1>5. /\ call' \in [Slots -> Calls]
      /\ \A q \in Slots : q # p => call'[q] = call[q]
  BY Types, FreshTypes DEF ExecReturn
<1> QED BY <1>1, <1>2, <1>3, <1>4, <1>5, SMT

\* The tests of ExecUpdate and the choice of a slot.
LEMMA ExecCheckInv ==
  ASSUME CountLaws, TableInv, NEW p \in Slots, ExecCheck(p)
  PROVE  TableInv'
<1>1. pc[p] = "exec_check" /\ UNCHANGED <<machine, ret, exited>>
  BY DEF ExecCheck
<1>2. CASE ExecReturn(p) /\ UNCHANGED <<bm, ptr, pcb>>
  <2>1. TypeOK'
    BY <1>1, <1>2, ExecReturns DEF TableInv, TypeOK, SchedType, InExec
  <2>2. ExecInv'
    BY <1>1, <1>2, ExecReturns, SMT DEF TableInv, ExecInv, InExec
  <2>3. \A q \in Slots : SameFields(q)
    BY <1>2 DEF SameFields
  <2> QED BY <1>1, <1>2, <2>1, <2>2, <2>3, ExecReturns, ExecStepInv DEF InExec, Counting
<1>3. CASE ~(ExecReturn(p) /\ UNCHANGED <<bm, ptr, pcb>>)
  <2> DEFINE i == Find
  <2>1. /\ i \in Slots \ bm
        /\ bm' = bm \cup {i}
        /\ ptr' = [ptr EXCEPT ![i] = "live"]
        /\ pcb' = [pcb EXCEPT ![i] = NewPCB]
        /\ call' = [call EXCEPT ![p].id = i]
        /\ pc' = [pc EXCEPT ![p] = "exec_load"]
        /\ Continue(<<>>)
        /\ UNCHANGED bmsem
        /\ call[p].file \in Files
    BY <1>3, FindType DEF ExecCheck, Goto
  <2> HIDE DEF i
  <2>2. SchedType'
    BY <2>1, Types, SchedTypes
  <2>3. pc[i] = "none" /\ i # p
    BY <2>1, <1>1 DEF TableInv, SlotsAgree, RootInv
  <2>4. /\ pc' \in [Slots -> Labels]
        /\ pc'[p] = "exec_load"
        /\ \A q \in Slots : q # p => pc'[q] = pc[q]
        /\ pcb' \in [Slots -> PCBs]
        /\ pcb'[i] = NewPCB
        /\ \A q \in Slots : q # i => pcb'[q] = pcb[q]
    BY <2>1, Types, FreshTypes DEF Labels, InExec
  <2>5. /\ call' \in [Slots -> Calls]
        /\ call'[p].id = i /\ call'[p].file = call[p].file
        /\ \A q \in Slots : q # p => call'[q] = call[q]
    BY <2>1, Types DEF Calls
  <2>6. ptr' \in [Slots -> {"null", "live", "dangling"}]
        /\ ptr'[i] = "live" /\ \A q \in Slots : q # i => ptr'[q] = ptr[q]
    BY <2>1 DEF TableInv, TypeOK
  <2>7. TypeOK'
    BY <1>1, <2>1, <2>2, <2>4, <2>5, <2>6 DEF TableInv, TypeOK, SchedType
  <2>8. SlotsAgree'
    BY <2>1, <2>6 DEF TableInv, SlotsAgree
  <2>9. ExecInv'
    BY <1>1, <2>1, <2>3, <2>4, <2>5, SMT DEF TableInv, ExecInv, InExec
  <2>10. RootInv'
    BY <1>1, <2>3, <2>4, <2>6, ConstTypes, SMTT(30) DEF TableInv, RootInv, ExecCheck, Running
  <2>11. ExitInv'
    BY <1>1, <2>3, <2>4, FreshFields, SMT DEF TableInv, ExitInv
  <2>12. ParentOutlivesChild'
    BY <1>1, <2>1, <2>3, <2>4, <2>6, SMT DEF TableInv, ParentOutlivesChild
  <2>13. NumWaitCounts'
    <3>1. \A q \in Slots : Pending(q)' = Pending(q)
      BY <1>1, <2>1, <2>3, <2>4 DEF Pending
    <3>2. \A q \in Slots : pcb'[q].numwait = pcb[q].numwait
      BY <2>1, <2>3, <2>4, IdleSlot, FreshFields, ZenonT(30)
    <3> QED BY <3>1, <3>2, <1>1, <2>4, SameCount DEF TableInv, Counting
  <2>14. JoinInv'
    <3>1. \A q \in Slots : Unreleased(q)' = Unreleased(q)
      BY <1>1, <2>1, <2>3, <2>4 DEF Unreleased
    <3> QED BY <3>1, <1>1, <2>3, <2>4, <2>5, FreshFields, SMT DEF TableInv, JoinInv, JoinState, CodeKept
  <2> QED BY <2>7, <2>8, <2>9, <2>10, <2>11, <2>12, <2>13, <2>14 DEF TableInv
<1> QED BY <1>2, <1>3

\* The error path after PCB::Exec.
LEMMA ExecFailInv ==
  ASSUME CountLaws, TableInv, NEW p \in Slots, ExecFail(p)
  PROVE  TableInv'
<1> DEFINE i == call[p].id
<1>1. /\ pc[p] = "exec_fail"
      /\ bm' = bm \ {i}
      /\ ptr' = [ptr EXCEPT ![i] = "dangling"]
      /\ pcb' = [pcb EXCEPT ![i] = NewPCB]
      /\ ExecReturn(p)
      /\ UNCHANGED <<machine, ret, exited>>
  BY DEF ExecFail
<1>2. i \in Slots /\ i \in bm /\ pc[i] = "none" /\ i # p
  BY <1>1 DEF TableInv, ExecInv, TypeOK
<1>3. /\ SchedType'
      /\ bmsem' \in Sem
      /\ bmsem'.value = 1
      /\ pc' \in [Slots -> Labels]
      /\ pc'[p] = "user"
      /\ \A q \in Slots : q # p => pc'[q] = pc[q] /\ pc[q] \notin InExec
      /\ call' \in [Slots -> Calls]
      /\ \A q \in Slots : q # p => call'[q] = call[q]
  BY <1>1, ExecReturns DEF InExec
<1> HIDE DEF i
<1>4. /\ pcb' \in [Slots -> PCBs]
      /\ pcb'[i] = NewPCB
      /\ \A q \in Slots : q # i => pcb'[q] = pcb[q]
  BY <1>1, <1>2, Types, FreshTypes
<1>5. ptr' \in [Slots -> {"null", "live", "dangling"}]
      /\ ptr'[i] = "dangling" /\ \A q \in Slots : q # i => ptr'[q] = ptr[q]
  BY <1>1, <1>2 DEF TableInv, TypeOK
<1>6. TypeOK'
  BY <1>1, <1>3, <1>4, <1>5 DEF TableInv, TypeOK, SchedType
<1>7. SlotsAgree'
  BY <1>1, <1>2, <1>5 DEF TableInv, SlotsAgree
<1>8. ExecInv'
  BY <1>3 DEF ExecInv, InExec
<1>9. RootInv'
  BY <1>1, <1>2, <1>3, <1>4, <1>5, ConstTypes, SMT DEF TableInv, RootInv, ExecFail, Running
<1>10. ExitInv'
  <2>1. /\ pcb'[i] = NewPCB /\ pc'[i] = "none"
        /\ pcb'[p] = pcb[p] /\ pc[p] = "exec_fail" /\ pc'[p] = "user"
        /\ \A q \in Slots \ {i, p} : pcb'[q] = pcb[q] /\ pc'[q] = pc[q]
    BY <1>1, <1>2, <1>3, <1>4
  <2> QED BY <2>1, FreshFields, SMT DEF TableInv, ExitInv
<1>11. ParentOutlivesChild'
  BY <1>1, <1>2, <1>3, <1>4, <1>5, SMT DEF TableInv, ParentOutlivesChild
<1>12. NumWaitCounts'
  <2>1. \A q \in Slots : Pending(q)' = Pending(q)
    BY <1>1, <1>2, <1>3, <1>4 DEF Pending
  <2>2. \A q \in Slots : pcb'[q].numwait = pcb[q].numwait
    BY <1>2, <1>4, IdleSlot, FreshFields
  <2> QED BY <2>1, <2>2, <1>1, <1>3, SameCount DEF TableInv, Counting
<1>13. JoinInv'
  <2>1. \A q \in Slots : Unreleased(q)' = Unreleased(q)
    BY <1>1, <1>2, <1>3, <1>4 DEF Unreleased
  <2> QED BY <2>1, <1>1, <1>2, <1>3, <1>4, FreshFields, SMT DEF TableInv, JoinInv, JoinState, CodeKept
<1> QED BY <1>6, <1>7, <1>8, <1>9, <1>10, <1>11, <1>12, <1>13 DEF TableInv

\* The AddrSpace constructor.
LEMMA ExecSpaceInv ==
  ASSUME TableInv, NEW p \in Slots, ExecSpace(p)
  PROVE  TableInv'
<1>1. CASE Stop("aborted")
  BY <1>1, StopInv
<1>2. CASE ~Stop("aborted")
  <2> DEFINE i == call[p].id
  <2> DEFINE n == Pages[call[p].file]
  <2>1. /\ pc[p] = "exec_space"
        /\ pcb' = [pcb EXCEPT ![i].space = n]
        /\ pc' = [pc EXCEPT ![p] = "exec_fork"]
        /\ Continue(<<>>)
        /\ UNCHANGED <<machine, bm, ptr, bmsem, call, ret, exited>>
    BY <1>2 DEF ExecSpace, Goto
  <2>2. i \in Slots /\ pc[i] = "none" /\ n \in Nat /\ i # p
    BY <2>1, ConstTypes DEF TableInv, ExecInv, TypeOK
  <2> HIDE DEF i, n
  <2>3. SchedType'
    BY <2>1, Types, SchedTypes
  <2>4. pcb' \in [Slots -> PCBs] /\ \A q \in Slots : SameFields(q)
    <3>1. pcb \in [Slots -> PCBs]
      BY Types
    <3>2. pcb[i] \in PCBs
      BY <3>1, <2>2
    <3>3. [pcb[i] EXCEPT !.space = n] \in PCBs
      BY <3>2, <2>2 DEF PCBs
    <3>4. pcb' \in [Slots -> PCBs]
      BY <3>1, <3>3, <2>1, <2>2
    <3>5. ASSUME NEW q \in Slots PROVE SameFields(q)
      BY <3>1, <3>2, <2>1, <2>2 DEF PCBs, SameFields
    <3> QED BY <3>4, <3>5
  <2>5. pc' \in [Slots -> Labels] /\ pc'[p] = "exec_fork"
        /\ \A q \in Slots : q # p => pc'[q] = pc[q]
    BY <2>1, Types DEF Labels, InExec
  <2>6. TypeOK'
    BY <2>1, <2>3, <2>4, <2>5 DEF TableInv, TypeOK, SchedType
  <2>7. ExecInv'
    <3>1. /\ bmsem'.value = 0 /\ i \in bm' /\ pc'[i] = "none"
          /\ call'[p].id = i /\ call'[p].file \in Files /\ pcb'[i].parentID = p
      <4>1. bmsem.value = 0 /\ i \in bm /\ call[p].file \in Files /\ pcb[i].parentID = p
        BY <2>1 DEF TableInv, ExecInv, InExec, i
      <4>2. pcb'[i].parentID = pcb[i].parentID
        BY <2>2, <2>4 DEF SameFields
      <4> QED BY <2>1, <2>2, <2>5, <4>1, <4>2 DEF i
    <3>2. \A q \in Slots : q # p => pc'[q] = pc[q] /\ pc[q] \notin InExec
      BY <2>1, <2>5 DEF TableInv, ExecInv, InExec
    <3>3. \A q \in Slots : pc[q] \in {"exec_unlock", "exec_count"} => call'[q].id \in Slots
      BY <2>1 DEF TableInv, ExecInv
    <3> QED BY <2>5, <3>1, <3>2, <3>3 DEF ExecInv, InExec
  <2> QED BY <2>1, <2>4, <2>5, <2>6, <2>7, ExecStepInv DEF InExec, Counting
<1> QED BY <1>1, <1>2

\* mutex->V() at the end of PCB::Exec.
LEMMA ExecUnlockInv ==
  ASSUME TableInv, NEW p \in Slots, ExecUnlock(p)
  PROVE  TableInv'
<1>1. CASE Stop("undefined")
  BY <1>1, StopInv
<1>2. CASE ~Stop("undefined")
  <2>1. /\ pc[p] = "exec_unlock"
        /\ pc' = [pc EXCEPT ![p] = "exec_count"]
        /\ Continue(<<>>)
        /\ UNCHANGED <<machine, bm, ptr, pcb, bmsem, call, ret, exited>>
    BY <1>2 DEF ExecUnlock, Goto, tableVars
  <2>2. SchedType'
    BY <2>1, Types, SchedTypes
  <2>3. pc' \in [Slots -> Labels] /\ pc'[p] = "exec_count"
        /\ \A q \in Slots : q # p => pc'[q] = pc[q]
    BY <2>1, Types DEF Labels, InExec
  <2>4. TypeOK'
    BY <2>1, <2>2, <2>3 DEF TableInv, TypeOK, SchedType
  <2>5. ExecInv'
    BY <2>1, <2>3, SMT DEF TableInv, ExecInv, InExec
  <2>6. \A q \in Slots : SameFields(q)
    BY <2>1 DEF SameFields
  <2> QED BY <2>1, <2>3, <2>4, <2>5, <2>6, ExecStepInv DEF InExec, Counting
<1> QED BY <1>1, <1>2

\* Fork adds a child that its parent has not counted yet.
LEMMA ExecForkInv ==
  ASSUME CountLaws, TableInv, NEW p \in Slots, ExecFork(p)
  PROVE  TableInv'
<1> DEFINE i == call[p].id
<1>1. /\ pc[p] = "exec_fork" /\ machine = "run"
      /\ pc' = [pc EXCEPT ![p] = "exec_unlock", ![i] = "user"]
      /\ Continue(<<i>>)
      /\ exited' = [exited EXCEPT ![i] = [c \in Slots |-> NoCode], ![p][i] = NoCode]
      /\ UNCHANGED <<machine, bm, ptr, pcb, bmsem, call, ret>>
  BY DEF ExecFork, tableVars, Running
<1>2. i \in Slots /\ i \in bm /\ pc[i] = "none" /\ i # p /\ pcb[i].parentID = p
  BY <1>1 DEF TableInv, ExecInv, TypeOK
<1>3. i # Root /\ ptr[p] = "live" /\ ptr[i] = "live"
  BY <1>1, <1>2 DEF TableInv, RootInv, SlotsAgree
<1> HIDE DEF i
<1>4. SchedType'
  <2>1. <<i>> \in Seq(Slots)
    BY <1>2, SMT
  <2> QED BY <1>1, <2>1, Types, SchedTypes
<1>5. /\ pc' \in [Slots -> Labels]
      /\ pc'[p] = "exec_unlock" /\ pc'[i] = "user"
      /\ \A q \in Slots : q # p /\ q # i => pc'[q] = pc[q]
  BY <1>1, <1>2, Types DEF Labels, InExec
<1>6. /\ exited' \in [Slots -> [Slots -> Codes \cup {NoCode}]]
      /\ \A q, c \in Slots : q # i /\ (q = p => c # i) => exited'[q][c] = exited[q][c]
  <2>1. exited \in [Slots -> [Slots -> Codes \cup {NoCode}]]
    BY DEF TableInv, TypeOK
  <2>2. [c \in Slots |-> NoCode] \in [Slots -> Codes \cup {NoCode}]
    OBVIOUS
  <2>3. exited' \in [Slots -> [Slots -> Codes \cup {NoCode}]]
    BY <1>1, <1>2, <2>1, <2>2
  <2>4. ASSUME NEW q \in Slots, NEW c \in Slots, q # i, q = p => c # i
        PROVE  exited'[q][c] = exited[q][c]
    BY <1>1, <1>2, <2>1, <2>4
  <2> QED BY <2>3, <2>4
<1>7. TypeOK'
  BY <1>1, <1>4, <1>5, <1>6 DEF TableInv, TypeOK, SchedType
<1>8. SlotsAgree'
  BY <1>1 DEF TableInv, SlotsAgree
<1>9. ExecInv'
  BY <1>1, <1>2, <1>5, SMT DEF TableInv, ExecInv, InExec, i
<1>10. RootInv'
  BY <1>1, <1>2, <1>3, <1>5, ConstTypes DEF TableInv, RootInv
<1>11. ExitInv'
  BY <1>1, <1>2, <1>5, IdleSlot DEF TableInv, ExitInv
<1>12. ParentOutlivesChild'
  BY <1>1, <1>2, <1>3, <1>5 DEF TableInv, ParentOutlivesChild
<1>13. NumWaitCounts'
  <2>1. Pending(p)' = Pending(p) \cup {i} /\ i \notin Pending(p)
    BY <1>1, <1>2, <1>5 DEF Pending
  <2>2. \A q \in Slots : q # p => Pending(q)' = Pending(q)
    BY <1>1, <1>2, <1>5 DEF Pending
  <2>3. Cardinality(Pending(p)') = Cardinality(Pending(p)) + 1
    BY <1>2, <2>1, FinitePending, SMT DEF CountLaws
  <2>4. pcb'[p].numwait = Cardinality(Pending(p)') - 1
    BY <1>1, <2>3, FinitePending, SMT DEF TableInv, NumWaitCounts, Counted, Counting
  <2>5. \A q \in Slots : q # p => (pc'[q] \in Counting <=> pc[q] \in Counting)
    BY <1>2, <1>5 DEF Counting
  <2>6. ASSUME NEW q \in Slots, q # p
        PROVE  Counted(q)'
    BY <1>1, <2>2, <2>5, <2>6 DEF TableInv, NumWaitCounts, Counted, Counting
  <2>7. Counted(p)'
    BY <1>5, <2>4 DEF Counted, Counting
  <2> QED BY <2>6, <2>7 DEF NumWaitCounts
<1>14. JoinInv'
  <2>1. \A q \in Slots : q # p => Unreleased(q)' = Unreleased(q)
    BY <1>1, <1>2, <1>5 DEF Unreleased
  <2>2. \A c \in Slots \ {Root} : pc[c] \in {"exit_P", "exit_rel"} => pcb[c].parentID # i
    BY <1>2, IdleSlot DEF Pending
  <2>3. \A c \in Slots \ {Root} : pc[c] \in {"exit_P", "exit_rel"} => pcb[c].parentID \in Slots
    BY DEF TableInv, ParentOutlivesChild
  <2>4. \A c \in Slots \ {Root} : CodeKept(c)'
    BY <1>1, <1>2, <1>5, <1>6, <2>2, <2>3, SMT DEF TableInv, JoinInv, CodeKept
  <2>5. ASSUME NEW q \in Slots, q = i PROVE JoinState(q)'
    <3>1. pcb[q].joinID = NoPid /\ pcb[q].joinsem.value = 0
      BY <1>2, <2>5, IdleSlot
    <3> QED BY <1>1, <1>5, <2>5, <3>1, SMT DEF JoinState
  <2>6. JoinState(p)'
    BY <1>1, <1>2, <1>5 DEF TableInv, JoinInv, JoinState
  <2>7. ASSUME NEW q \in Slots, q # p, q # i PROVE JoinState(q)'
    <3>1. JoinState(q)
      BY DEF TableInv, JoinInv
    <3>2. pc'[q] = pc[q] /\ call'[q] = call[q] /\ pcb'[q] = pcb[q]
      BY <1>1, <1>5, <2>7
    <3>3. \A c \in Slots : exited'[q][c] = exited[q][c]
      BY <1>6, <2>7
    <3> QED BY <2>1, <2>7, <3>1, <3>2, <3>3, JoinStateKept
  <2> QED BY <2>4, <2>5, <2>6, <2>7 DEF JoinInv
<1> QED BY <1>7, <1>8, <1>9, <1>10, <1>11, <1>12, <1>13, <1>14 DEF TableInv

\* IncNumWait makes the count exact again.
LEMMA ExecCountInv ==
  ASSUME CountLaws, TableInv, NEW p \in Slots, ExecCount(p)
  PROVE  TableInv'
<1>1. CASE Stop("undefined")
  BY <1>1, StopInv
<1>2. CASE ~Stop("undefined")
  <2>1. /\ pc[p] = "exec_count"
        /\ pcb' = [pcb EXCEPT ![p].numwait = @ + 1]
        /\ ExecReturn(p)
        /\ UNCHANGED <<machine, bm, ptr, ret, exited>>
    BY <1>2 DEF ExecCount
  <2>2. /\ SchedType'
        /\ bmsem' \in Sem
        /\ bmsem'.value = 1
        /\ pc' \in [Slots -> Labels]
        /\ pc'[p] = "user"
        /\ \A q \in Slots : q # p => pc'[q] = pc[q] /\ pc[q] \notin InExec
        /\ call' \in [Slots -> Calls]
        /\ \A q \in Slots : q # p => call'[q] = call[q]
    BY <2>1, ExecReturns DEF InExec
  <2>3. /\ pcb' \in [Slots -> PCBs]
        /\ \A q \in Slots : q # p => pcb'[q] = pcb[q]
        /\ pcb'[p].parentID = pcb[p].parentID
        /\ pcb'[p].numwait = pcb[p].numwait + 1
        /\ pcb'[p].joinID = pcb[p].joinID
        /\ pcb'[p].joinExitcode = pcb[p].joinExitcode
        /\ pcb'[p].isExit = pcb[p].isExit
        /\ pcb'[p].joinsem = pcb[p].joinsem
        /\ pcb'[p].exitsem = pcb[p].exitsem
    <3>1. pcb \in [Slots -> PCBs] /\ pcb[p] \in PCBs
      BY Types
    <3> QED BY <2>1, <3>1, SMT DEF PCBs
  <2>4. TypeOK'
    BY <2>1, <2>2, <2>3 DEF TableInv, TypeOK, SchedType
  <2>5. SlotsAgree'
    BY <2>1 DEF TableInv, SlotsAgree
  <2>6. ExecInv'
    BY <2>2 DEF ExecInv, InExec
  <2>7. RootInv'
    BY <2>1, <2>2, <2>3, ConstTypes, SMT DEF TableInv, RootInv
  <2>8. ExitInv'
    BY <2>1, <2>2, <2>3, SMT DEF TableInv, ExitInv
  <2>9. ParentOutlivesChild'
    BY <2>1, <2>2, <2>3, SMT DEF TableInv, ParentOutlivesChild
  <2>10. NumWaitCounts'
    <3>1. \A q \in Slots : Pending(q)' = Pending(q)
      BY <2>1, <2>2, <2>3, SMT DEF Pending
    <3>2. pcb'[p].numwait = Cardinality(Pending(p))
      BY <2>1, <2>3, FinitePending, SMT DEF TableInv, NumWaitCounts, Counted, Counting
    <3>3. ASSUME NEW q \in Slots, q # p
          PROVE  Counted(q)'
      BY <3>1, <3>3, <2>2, <2>3, SMT DEF TableInv, NumWaitCounts, Counted, Counting
    <3>4. Counted(p)'
      BY <3>1, <3>2, <2>2 DEF Counted, Counting
    <3> QED BY <3>3, <3>4 DEF NumWaitCounts
  <2>11. JoinInv'
    <3>1. \A q \in Slots : Unreleased(q)' = Unreleased(q)
      BY <2>1, <2>2, <2>3, SMT DEF Unreleased
    <3> QED BY <3>1, <2>1, <2>2, <2>3, SMT DEF TableInv, JoinInv, JoinState, CodeKept
  <2> QED BY <2>4, <2>5, <2>6, <2>7, <2>8, <2>9, <2>10, <2>11 DEF TableInv
<1> QED BY <1>1, <1>2

-----------------------------------------------------------------------------
(* Join.                                                                   *)

InJoin == {"user", "join_P", "join_ret"}

\* What a step of Join leaves alone.
LEMMA JoinStepInv ==
  ASSUME TableInv, TypeOK', JoinInv', NEW p \in Slots,
         pc[p] \in InJoin, pc'[p] \in InJoin,
         \A q \in Slots : q # p => pc'[q] = pc[q] /\ call'[q] = call[q],
         \A q \in Slots : /\ pcb'[q].parentID = pcb[q].parentID
                          /\ pcb'[q].numwait = pcb[q].numwait
                          /\ pcb'[q].isExit = pcb[q].isExit
                          /\ pcb'[q].exitsem.value = pcb[q].exitsem.value,
         UNCHANGED <<machine, bm, ptr, bmsem>>
  PROVE  TableInv'
<1>1. SlotsAgree'
  BY DEF TableInv, SlotsAgree
<1>2. ExecInv'
  BY ExecKept DEF InJoin, InExec
<1>3. RootInv'
  BY ConstTypes DEF TableInv, RootInv, InJoin
<1>4. ExitInv'
  BY SMT DEF TableInv, ExitInv, InJoin
<1>5. ParentOutlivesChild'
  BY SMT DEF TableInv, ParentOutlivesChild, InJoin
<1>6. NumWaitCounts'
  <2>1. \A q \in Slots : Pending(q)' = Pending(q)
    BY DEF Pending, InJoin
  <2> QED BY <2>1, SameCount DEF TableInv, Counting, InJoin
<1> QED BY <1>1, <1>2, <1>3, <1>4, <1>5, <1>6 DEF TableInv

\* The return of Join to the program.
LEMMA JoinReturnInv ==
  ASSUME TableInv, NEW p \in Slots, NEW id \in Slots, NEW v \in Nat \cup {Failed},
         pc[p] \in {"user", "join_ret"}, id \notin Unreleased(p),
         JoinReturn(p, id, v), Continue(<<>>),
         UNCHANGED <<machine, bm, ptr, pcb, bmsem>>
  PROVE  TableInv'
<1>1. SchedType'
  BY Types, SchedTypes
<1>2. /\ pc' \in [Slots -> Labels]
      /\ pc'[p] = "user"
      /\ \A q \in Slots : q # p => pc'[q] = pc[q]
  BY Types DEF JoinReturn, Goto, Labels
<1>3. /\ call' \in [Slots -> Calls]
      /\ \A q \in Slots : q # p => call'[q] = call[q]
  BY Types, FreshTypes DEF JoinReturn
<1>4. exited \in [Slots -> [Slots -> Codes \cup {NoCode}]]
  BY DEF TableInv, TypeOK
<1>5. ret' \in [Slots -> Rets]
  <2>1. [val |-> v, code |-> exited[p][id]] \in Rets
    BY <1>4 DEF Rets
  <2> QED BY <2>1, Types DEF JoinReturn
<1>6. /\ exited' \in [Slots -> [Slots -> Codes \cup {NoCode}]]
      /\ \A q, c \in Slots : q # p \/ c # id => exited'[q][c] = exited[q][c]
  BY <1>4 DEF JoinReturn
<1>7. TypeOK'
  BY <1>1, <1>2, <1>3, <1>5, <1>6 DEF TableInv, TypeOK, SchedType
<1>8. JoinInv'
  <2>1. \A q \in Slots : Unreleased(q)' = Unreleased(q)
    BY <1>2 DEF Unreleased
  <2>2. JoinState(p)'
    BY <1>2, ZenonT(30) DEF TableInv, JoinInv, JoinState
  <2>3. ASSUME NEW q \in Slots, q # p PROVE JoinState(q)'
    <3>1. /\ JoinState(q) /\ Unreleased(q)' \subseteq Unreleased(q)
          /\ pc'[q] = pc[q] /\ call'[q] = call[q] /\ pcb' = pcb
      BY <1>2, <1>3, <2>1, <2>3 DEF TableInv, JoinInv
    <3>2. \A c \in Slots : exited'[q][c] = exited[q][c]
      BY <1>6, <2>3
    <3> QED BY <3>1, <3>2, JoinStateKept
  <2>4. ASSUME NEW c \in Slots \ {Root} PROVE CodeKept(c)'
    <3>1. SUFFICES ASSUME pc[c] \in {"exit_P", "exit_rel"}, c # p
                   PROVE  CodeKept(c)'
      BY <1>2 DEF CodeKept
    <3>2. pcb[c].parentID \in Slots /\ (pcb[c].parentID = p => c # id)
      BY <3>1 DEF TableInv, ParentOutlivesChild, Unreleased
    <3> QED BY <1>2, <1>3, <1>6, <3>1, <3>2 DEF TableInv, JoinInv, CodeKept
  <2> QED BY <2>2, <2>3, <2>4 DEF JoinInv
<1> QED BY <1>2, <1>3, <1>7, <1>8, JoinStepInv DEF InJoin

\* The return of a Join that waited.
LEMMA JoinRetInv ==
  ASSUME TableInv, NEW p \in Slots, JoinRet(p)
  PROVE  TableInv'
<1>1. /\ pc[p] = "join_ret"
      /\ JoinReturn(p, call[p].id, pcb[p].joinExitcode)
      /\ Continue(<<>>)
      /\ UNCHANGED <<machine, bm, ptr, pcb, bmsem>>
  BY DEF JoinRet, tableVars
<1>2. call[p].id \in Slots /\ call[p].id \notin Unreleased(p)
  BY <1>1 DEF TableInv, JoinInv, JoinState
<1>3. pcb[p].joinExitcode \in Nat
  BY Types DEF PCBs
<1> QED BY <1>1, <1>2, <1>3, JoinReturnInv

\* joinsem->P().
LEMMA JoinPInv ==
  ASSUME TableInv, NEW p \in Slots, JoinP(p)
  PROVE  TableInv'
<1> DEFINE s == pcb[p].joinsem
<1>1. /\ pc[p] = "join_P"
      /\ \/ s.value > 0 /\ pcb' = [pcb EXCEPT ![p].joinsem = PTake(@)]
            /\ pc' = [pc EXCEPT ![p] = "join_ret"] /\ Continue(<<>>)
         \/ pcb' = [pcb EXCEPT ![p].joinsem = PQueue(@, p)]
            /\ pc' = [pc EXCEPT ![p] = "join_P"] /\ Sleep
      /\ UNCHANGED <<machine, bm, ptr, bmsem, call, ret, exited>>
  BY DEF JoinP, JoinsemP, Goto
<1>2. SchedType'
  BY <1>1, Types, SchedTypes
<1>3. s \in Sem /\ pcb \in [Slots -> PCBs] /\ pcb[p] \in PCBs
  BY Types DEF PCBs
<1>4. /\ s.value > 0 => PTake(s) \in Sem /\ PTake(s).value = s.value - 1
      /\ PQueue(s, p) \in Sem /\ PQueue(s, p).value = s.value
  BY <1>3, SemTypes DEF PTake, PQueue, Sem
<1>5. /\ pcb' \in [Slots -> PCBs]
      /\ \A q \in Slots : q # p => pcb'[q] = pcb[q]
      /\ pcb'[p].parentID = pcb[p].parentID
      /\ pcb'[p].numwait = pcb[p].numwait
      /\ pcb'[p].joinID = pcb[p].joinID
      /\ pcb'[p].joinExitcode = pcb[p].joinExitcode
      /\ pcb'[p].isExit = pcb[p].isExit
      /\ pcb'[p].exitsem = pcb[p].exitsem
      /\ \/ s.value > 0 /\ pcb'[p].joinsem.value = s.value - 1 /\ pc'[p] = "join_ret"
         \/ pcb'[p].joinsem.value = s.value /\ pc'[p] = "join_P"
  <2>1. pc \in [Slots -> Labels]
    BY Types
  <2>2. CASE s.value > 0 /\ pcb' = [pcb EXCEPT ![p].joinsem = PTake(s)]
             /\ pc' = [pc EXCEPT ![p] = "join_ret"]
    BY <1>3, <1>4, <2>1, <2>2 DEF PCBs
  <2>3. CASE pcb' = [pcb EXCEPT ![p].joinsem = PQueue(s, p)]
             /\ pc' = [pc EXCEPT ![p] = "join_P"]
    BY <1>3, <1>4, <2>1, <2>3 DEF PCBs
  <2> QED BY <1>1, <2>2, <2>3
<1>6. pc' \in [Slots -> Labels] /\ \A q \in Slots : q # p => pc'[q] = pc[q]
  BY <1>1, Types DEF Labels
<1>7. TypeOK'
  BY <1>1, <1>2, <1>5, <1>6 DEF TableInv, TypeOK, SchedType
<1>8. JoinInv'
  <2>1. \A q \in Slots : Unreleased(q)' = Unreleased(q)
    BY <1>1, <1>5, <1>6, SMT DEF Unreleased
  <2>2. JoinState(p)'
    BY <1>1, <1>3, <1>5, <2>1, SMT DEF TableInv, JoinInv, JoinState, Sem
  <2>3. ASSUME NEW q \in Slots, q # p PROVE JoinState(q)'
    BY <1>1, <1>5, <1>6, <2>1, <2>3, SMT DEF TableInv, JoinInv, JoinState
  <2>4. \A c \in Slots \ {Root} : CodeKept(c)'
    BY <1>1, <1>5, <1>6, SMT DEF TableInv, JoinInv, CodeKept
  <2> QED BY <2>2, <2>3, <2>4 DEF JoinInv
<1> QED BY <1>1, <1>5, <1>6, <1>7, <1>8, JoinStepInv DEF InJoin

\* The call of Join.
LEMMA SysJoinInv ==
  ASSUME TableInv, NEW p \in Slots, NEW id \in Int, SysJoin(p, id)
  PROVE  TableInv'
<1>1. pc[p] = "user" /\ UNCHANGED <<machine, bm, ptr, bmsem>>
  BY DEF SysJoin
<1>2. CASE id \notin Slots
  <2>1. /\ ret' = [ret EXCEPT ![p] = NoRet]
        /\ Continue(<<>>) /\ UNCHANGED <<pcb, pc, call, exited>>
    BY <1>2 DEF SysJoin
  <2>2. SchedType' /\ ret' \in [Slots -> Rets]
    BY <2>1, Types, SchedTypes, FreshTypes
  <2>3. TypeOK'
    BY <1>1, <2>1, <2>2 DEF TableInv, TypeOK, SchedType
  <2>4. JoinInv'
    BY <2>1 DEF TableInv, JoinInv, JoinState, CodeKept, Unreleased
  <2> QED BY <1>1, <2>1, <2>3, <2>4, JoinStepInv DEF InJoin
<1>3. CASE id \in Slots /\ (id \notin bm \/ pcb[id].parentID # p)
  <2>1. JoinReturn(p, id, Failed) /\ Continue(<<>>) /\ UNCHANGED pcb
    BY <1>3 DEF SysJoin
  <2>2. id \notin Unreleased(p)
    BY <1>3 DEF TableInv, RootInv, SlotsAgree, Unreleased
  <2> QED BY <1>1, <1>3, <2>1, <2>2, JoinReturnInv
<1>4. CASE id \in Slots /\ id \in bm /\ pcb[id].parentID = p
  <2>1. pcb[p] \in PCBs /\ pcb \in [Slots -> PCBs] /\ pcb[p].joinsem \in Sem
    BY Types DEF PCBs
  <2>2. pcb[p].joinID = NoPid /\ pcb[p].joinsem.value = 0
    BY <1>1, <2>1, SMT DEF TableInv, JoinInv, JoinState, Sem
  <2> DEFINE P == [pcb EXCEPT ![p].joinID = id]
  <2>3. /\ P \in [Slots -> PCBs] /\ P[p] \in PCBs
        /\ P[p].joinsem = pcb[p].joinsem
        /\ P[p].joinID = id
        /\ P[p].parentID = pcb[p].parentID
        /\ P[p].numwait = pcb[p].numwait
        /\ P[p].isExit = pcb[p].isExit
        /\ P[p].exitsem = pcb[p].exitsem
        /\ \A q \in Slots : q # p => P[q] = pcb[q]
    BY <1>4, <2>1 DEF PCBs
  <2>4. /\ JoinsemP(p, P)
        /\ call' = [call EXCEPT ![p].id = id]
        /\ ret' = [ret EXCEPT ![p] = NoRet]
        /\ UNCHANGED exited
    BY <1>4, <2>2 DEF SysJoin
  <2> HIDE DEF P
  <2> DEFINE s == PQueue(pcb[p].joinsem, p)
  <2>5. pcb' = [P EXCEPT ![p].joinsem = s] /\ pc' = [pc EXCEPT ![p] = "join_P"] /\ Sleep
    BY <2>2, <2>3, <2>4, SMT DEF JoinsemP, Goto
  <2>6. s \in Sem /\ s.value = 0
    BY <2>1, <2>2, SemTypes DEF PQueue, Sem
  <2> HIDE DEF s
  <2>7. /\ pcb' \in [Slots -> PCBs]
        /\ pcb'[p].joinsem = s
        /\ pcb'[p].joinID = id
        /\ pcb'[p].parentID = pcb[p].parentID
        /\ pcb'[p].numwait = pcb[p].numwait
        /\ pcb'[p].isExit = pcb[p].isExit
        /\ pcb'[p].exitsem = pcb[p].exitsem
        /\ \A q \in Slots : q # p => pcb'[q] = pcb[q]
    BY <2>3, <2>5, <2>6 DEF PCBs
  <2>8. /\ pc' \in [Slots -> Labels] /\ pc'[p] = "join_P"
        /\ \A q \in Slots : q # p => pc'[q] = pc[q]
    BY <2>5, Types DEF Labels
  <2>9. /\ call' \in [Slots -> Calls] /\ call'[p].id = id
        /\ \A q \in Slots : q # p => call'[q] = call[q]
    BY <1>4, <2>4, Types, SMT DEF Calls
  <2>10. SchedType' /\ ret' \in [Slots -> Rets]
    BY <2>4, <2>5, Types, SchedTypes, FreshTypes
  <2>11. TypeOK'
    BY <1>1, <2>4, <2>7, <2>8, <2>9, <2>10 DEF TableInv, TypeOK, SchedType
  <2>12. JoinInv'
    <3>1. \A q \in Slots : Unreleased(q)' = Unreleased(q)
      BY <1>1, <2>7, <2>8, SMT DEF Unreleased
    <3>2. JoinState(p)'
      BY <1>4, <2>6, <2>7, <2>8, <2>9, ConstTypes, SMT DEF JoinState
    <3>3. ASSUME NEW q \in Slots, q # p PROVE JoinState(q)'
      BY <2>4, <2>7, <2>8, <2>9, <3>1, <3>3, SMT DEF TableInv, JoinInv, JoinState
    <3>4. \A c \in Slots \ {Root} : CodeKept(c)'
      BY <2>4, <2>7, <2>8, <2>9, SMT DEF TableInv, JoinInv, CodeKept
    <3> QED BY <3>2, <3>3, <3>4 DEF JoinInv
  <2> QED BY <1>1, <2>7, <2>8, <2>9, <2>11, <2>12, JoinStepInv DEF InJoin
<1> QED BY <1>2, <1>3, <1>4

-----------------------------------------------------------------------------
(* A kernel without a timer (no flag -rs): a process keeps the CPU until   *)
(* it sleeps or finishes.                                                  *)

\* The processes that run or are in the ready list.
Awake == AwakeIn(Slots)

\* Where a process is while another one has the CPU.
Resting == {"none", "user", "join_P", "exit_P"}

\* The caller of Exec has a slot for a child that has no thread yet.
Starting == {"exec_load", "exec_space", "exec_fork", "exec_fail"}

\* A marked slot has a thread, or will have one.
Marked ==
  \A i \in bm :
    pc[i] # "none" \/ \E r \in Slots : pc[r] \in Starting /\ call[r].id = i

\* Its own semaphores have nobody else in their queues.
OwnQueues(p) ==
  Elems(pcb[p].joinsem.queue) \subseteq {p} /\ Elems(pcb[p].exitsem.queue) \subseteq {p}

\* A joiner that was not yet released waits for a child that will release it,
\* and is where V() finds it.
Joins(p) ==
  pc[p] = "join_P" =>
    IF pcb[p].joinsem.value > 0 THEN p \in Awake
    ELSE /\ p \in Awake \/ pcb[p].joinsem.queue # <<>>
         /\ pcb[p].joinID = call[p].id
         /\ call[p].id \in Unreleased(p)

\* The same for a process that waits in Exit for its children.
Exits(p) ==
  pc[p] = "exit_P" =>
    IF pcb[p].exitsem.value > 0 THEN p \in Awake
    ELSE /\ p \in Awake \/ pcb[p].exitsem.queue # <<>>
         /\ pcb[p].numwait # 0

\* The processes form a tree: a rank grows from child to parent.
Ranked ==
  \E rank \in [Slots -> Nat] :
    \A p \in Slots : \A c \in Pending(p) : rank[c] < rank[p]

\* The inductive invariant.
NoTimerInv ==
  /\ \A p \in Slots : pc[p] # "exec_P" /\ (pc[p] \notin Resting => current = p)
  /\ \A p \in Slots : pc[p] = "user" => p \in Awake
  /\ current = NoThread => ready = <<>>
  /\ bmsem.value = 1 \/ \E p \in Slots : pc[p] \in InExec
  /\ Marked
  /\ PCBOutlivesExec
  /\ \A p \in Slots : OwnQueues(p) /\ Joins(p) /\ Exits(p)
  /\ Ranked

-----------------------------------------------------------------------------
(* The CPU and the semaphores of a PCB.                                    *)

\* Only the thread that goes to sleep loses the CPU.
LEMMA SleepAwake ==
  ASSUME SchedType, Sleep
  PROVE  /\ \A q \in Awake : q # current => q \in Awake'
         /\ current' = NoThread => ready' = <<>>
<1>1. CASE ready = <<>>
  <2>1. Elems(ready) = {}
    BY <1>1, SMT DEF Elems
  <2> QED BY <1>1, <2>1 DEF Sleep, Awake, AwakeIn
<1>2. CASE ready # <<>>
  <2>1. /\ current' = Head(ready) /\ ready' = Tail(ready)
        /\ Head(ready) \in Slots /\ Elems(ready) = Elems(Tail(ready)) \cup {Head(ready)}
    BY <1>2, TailElems DEF Sleep, SchedType
  <2>2. current' # NoThread
    BY <2>1, ConstTypes
  <2> QED BY <2>1, <2>2 DEF Awake, AwakeIn
<1> QED BY <1>1, <1>2

\* A process goes on, and may have woken another one.
LEMMA ContinueAwake ==
  ASSUME SchedType
  PROVE  /\ Continue(<<>>) => Awake \subseteq Awake' /\ current' = current
         /\ \A h \in Slots :
              Continue(<<h>>) => Awake \cup {h} \subseteq Awake' /\ current' = current
<1>1. ready \o <<>> = ready
  BY SMT DEF SchedType
<1>2. ASSUME NEW h \in Slots, Continue(<<h>>)
      PROVE  Awake \cup {h} \subseteq Awake' /\ current' = current
  <2>1. ready \o <<h>> = Append(ready, h)
    BY SMT DEF SchedType
  <2>2. current' = current /\ ready' = Append(ready, h)
    BY <1>2, <2>1 DEF Continue, ReadyToRun
  <2> QED BY <2>2, AppendElems, SMT DEF SchedType, Awake, AwakeIn
<1> QED BY <1>1, <1>2 DEF Continue, ReadyToRun, Awake, AwakeIn

\* V() leaves in the queue who was there, and wakes the first.
LEMMA SignalOwn ==
  ASSUME SchedType, NEW p \in Slots, NEW s \in Sem, Elems(s.queue) \subseteq {p}, Continue(VWoken(s))
  PROVE  /\ Elems(VSignal(s).queue) \subseteq {p}
         /\ s.value \in Nat /\ VSignal(s).value = s.value + 1
         /\ Awake \subseteq Awake' /\ current' = current
         /\ s.queue # <<>> => p \in Awake'
<1> DEFINE q == s.queue
<1>1. s \in SemsOf(Slots) /\ q \in Seq(Slots)
  BY DEF Sem, SemsOf
<1>2. /\ s.value \in Nat /\ VSignal(s).value = s.value + 1
      /\ q = <<>> => VSignal(s).queue = <<>> /\ VWoken(s) = <<>>
      /\ q # <<>> => VSignal(s).queue = Tail(q) /\ VWoken(s) = <<Head(q)>>
  BY <1>1, SignalSem DEF SemsOf
<1>3. CASE q = <<>>
  BY <1>2, <1>3, ContinueAwake
<1>4. CASE q # <<>>
  <2>1. Head(q) = p /\ Elems(Tail(q)) \subseteq {p}
    BY <1>1, <1>4, TailElems, SMT
  <2>2. Continue(<<p>>)
    BY <1>2, <1>4, <2>1
  <2> QED BY <1>2, <1>4, <2>1, <2>2, ContinueAwake
<1> QED BY <1>3, <1>4

\* P() queues the caller, or takes a permit.
LEMMA WaitOwn ==
  ASSUME NEW p \in Slots, NEW s \in Sem, Elems(s.queue) \subseteq {p}
  PROVE  /\ PQueue(s, p) \in Sem /\ PQueue(s, p).queue # <<>>
         /\ Elems(PQueue(s, p).queue) \subseteq {p} /\ PQueue(s, p).value = s.value
         /\ s.value > 0 => Elems(PTake(s).queue) \subseteq {p}
<1>1. s \in SemsOf(Slots) /\ s.queue \in Seq(Slots) /\ Sem = SemsOf(Slots)
  BY DEF Sem, SemsOf
<1>2. /\ PQueue(s, p) \in Sem
      /\ PQueue(s, p).value = s.value /\ PQueue(s, p).queue = Append(s.queue, p)
      /\ s.value > 0 => PTake(s).queue = s.queue
  BY <1>1, QueueSem, TakeSem
<1>3. Append(s.queue, p) # <<>> /\ Elems(Append(s.queue, p)) = Elems(s.queue) \cup {p}
  BY <1>1, AppendElems, SMT
<1> QED BY <1>2, <1>3

-----------------------------------------------------------------------------
(* What a step of the running process preserves.                           *)

\* The processes stay a tree when none of them gets a child.
LEMMA RankedKept ==
  ASSUME Ranked, \A q \in Slots : Pending(q)' \subseteq Pending(q)
  PROVE  Ranked'
BY DEF Ranked

\* Nobody waits on the semaphores of a new PCB.
LEMMA FreshQueues ==
  Elems(NewPCB.joinsem.queue) = {} /\ Elems(NewPCB.exitsem.queue) = {}
BY SMT DEF NewPCB, Semaphore, Elems

\* A waiting process that the step does not touch.
LEMMA WaitsKept ==
  ASSUME NEW q \in Slots, OwnQueues(q), Joins(q), Exits(q),
         pc'[q] = pc[q], call'[q] = call[q], q \in Awake => q \in Awake',
         pc[q] # "none" => /\ pcb'[q].joinsem = pcb[q].joinsem
                           /\ pcb'[q].exitsem = pcb[q].exitsem
                           /\ pcb'[q].joinID = pcb[q].joinID
                           /\ pcb'[q].numwait = pcb[q].numwait,
         pc[q] = "none" => pcb'[q] \in {pcb[q], NewPCB}
                           \/ (/\ pcb'[q].joinsem = pcb[q].joinsem
                               /\ pcb'[q].exitsem = pcb[q].exitsem),
         Unreleased(q) \subseteq Unreleased(q)'
  PROVE  OwnQueues(q)' /\ Joins(q)' /\ Exits(q)'
<1>1. OwnQueues(q)'
  BY FreshQueues DEF OwnQueues
<1>2. Joins(q)'
  BY DEF Joins
<1>3. Exits(q)'
  BY DEF Exits
<1> QED BY <1>1, <1>2, <1>3

\* Nobody but the running process is inside Exec.
LEMMA OthersRest ==
  ASSUME NoTimerInv, NEW p \in Slots, current = p
  PROVE  /\ \A q \in Slots : q # p => pc[q] \in Resting /\ pc[q] \notin InExec
         /\ pc[p] \notin InExec => bmsem.value = 1 /\ \A i \in bm : pc[i] # "none"
<1>1. \A q \in Slots : q # p => pc[q] \in Resting /\ pc[q] \notin InExec
  BY DEF NoTimerInv, Resting, InExec
<1>2. Starting \subseteq InExec
  BY DEF Starting, InExec
<1> QED BY <1>1, <1>2 DEF NoTimerInv, Marked

\* A step of the running process p that leaves the others where they are.
LEMMA StepKeeps ==
  ASSUME NoTimerInv, NEW p \in Slots, current = p,
         \A q \in Slots : q # p => pc'[q] = pc[q],
         \A q \in Awake : q # p => q \in Awake',
         pc'[p] # "exec_P", pc'[p] \in Resting \/ current' = p,
         pc'[p] = "user" => p \in Awake', current' = NoThread => ready' = <<>>,
         \A q \in Slots : pc'[q] \notin {"none", "exit_free"} =>
           pc[q] \notin {"none", "exit_free"} /\ pcb'[q].parentID = pcb[q].parentID,
         bmsem'.value = 1 \/ pc'[p] \in InExec, Marked',
         pc'[p] \in Counting => ptr'[call'[p].id] = "live",
         \A q \in Slots : OwnQueues(q)' /\ Joins(q)' /\ Exits(q)'
  PROVE  NoTimerInv'
<1>1. \A q \in Slots : pc'[q] # "exec_P" /\ (pc'[q] \notin Resting => current' = q)
  BY OthersRest DEF NoTimerInv
<1>2. \A q \in Slots : pc'[q] = "user" => q \in Awake'
  BY DEF NoTimerInv
<1>3. PCBOutlivesExec'
  <2>1. \A q \in Slots : pc'[q] \in Counting => q = p
    BY OthersRest DEF Counting, InExec
  <2> QED BY <2>1 DEF PCBOutlivesExec
<1>4. Ranked'
  <2>1. \A q \in Slots : Pending(q)' \subseteq Pending(q)
    BY DEF Pending
  <2> QED BY <2>1, RankedKept DEF NoTimerInv
<1> QED BY <1>1, <1>2, <1>3, <1>4 DEF NoTimerInv

-----------------------------------------------------------------------------
(* Exec without a timer.                                                   *)

\* The machine stops, or nothing happens.
LEMMA NothingMoves ==
  ASSUME NoTimerInv, UNCHANGED <<current, ready, bm, ptr, pcb, bmsem, pc, call>>
  PROVE  NoTimerInv'
<1>1. \A q \in Slots : Pending(q)' = Pending(q) /\ Unreleased(q)' = Unreleased(q)
  BY DEF Pending, Unreleased
<1>2. Ranked'
  BY <1>1, RankedKept DEF NoTimerInv
<1>3. \A q \in Slots : OwnQueues(q)' /\ Joins(q)' /\ Exits(q)'
  BY <1>1 DEF NoTimerInv, OwnQueues, Joins, Exits, Awake, AwakeIn
<1>4. Marked' /\ PCBOutlivesExec'
  BY DEF NoTimerInv, Marked, PCBOutlivesExec
<1> QED BY <1>2, <1>3, <1>4 DEF NoTimerInv, Awake, AwakeIn

\* The fields of a PCB that Exec and Join leave alone while its process waits.
SameWaiting(q) ==
  /\ pcb'[q].joinsem = pcb[q].joinsem /\ pcb'[q].exitsem = pcb[q].exitsem
  /\ pcb'[q].joinID = pcb[q].joinID /\ pcb'[q].parentID = pcb[q].parentID

\* A step of a call after which its process goes on.
LEMMA GoesOn ==
  ASSUME NoTimerInv, NEW p \in Slots, current = p, current' = p, Awake \subseteq Awake',
         pc[p] \notin {"none", "exit_free"}, pc'[p] \in InExec \cup {"user"},
         \A q \in Slots : q # p => pc'[q] = pc[q] /\ call'[q] = call[q],
         \A q \in Slots : pc[q] # "none" => SameWaiting(q),
         \A q \in Slots : pc[q] # "none" /\ q # p => pcb'[q].numwait = pcb[q].numwait,
         \A q \in Slots : pc[q] = "none" =>
           \/ pcb'[q] = NewPCB
           \/ pcb'[q].joinsem = pcb[q].joinsem /\ pcb'[q].exitsem = pcb[q].exitsem,
         bmsem'.value = 1 \/ pc'[p] \in InExec, Marked',
         pc'[p] \in Counting => ptr'[call'[p].id] = "live"
  PROVE  NoTimerInv'
<1>1. pc'[p] \notin {"none", "exec_P", "join_P", "exit_P", "exit_dec", "exit_free"}
  BY DEF InExec
<1>2. \A q \in Slots : Unreleased(q) \subseteq Unreleased(q)'
  <2>1. ASSUME NEW q \in Slots, NEW c \in Unreleased(q) PROVE c \in Unreleased(q)'
    <3>1. /\ c \in Slots /\ pc[c] \notin {"none", "exit_dec", "exit_free"}
          /\ pcb[c].parentID = q
      BY <2>1 DEF Unreleased
    <3>2. pcb'[c].parentID = q /\ pc'[c] \notin {"none", "exit_dec", "exit_free"}
      BY <1>1, <3>1 DEF SameWaiting
    <3> QED BY <3>1, <3>2 DEF Unreleased
  <2> QED BY <2>1
<1>3. ASSUME NEW q \in Slots PROVE OwnQueues(q)' /\ Joins(q)' /\ Exits(q)'
  <2>1. CASE q = p
    BY <1>1, <2>1 DEF NoTimerInv, OwnQueues, Joins, Exits, SameWaiting
  <2>2. CASE q # p
    <3>1. /\ pc[q] # "none" => SameWaiting(q) /\ pcb'[q].numwait = pcb[q].numwait
          /\ OwnQueues(q) /\ Joins(q) /\ Exits(q)
          /\ pc'[q] = pc[q] /\ call'[q] = call[q] /\ (q \in Awake => q \in Awake')
          /\ pc[q] = "none" =>
               \/ pcb'[q] = NewPCB
               \/ pcb'[q].joinsem = pcb[q].joinsem /\ pcb'[q].exitsem = pcb[q].exitsem
      BY <2>2 DEF NoTimerInv
    <3> QED BY <1>2, <3>1, WaitsKept DEF SameWaiting
  <2> QED BY <2>1, <2>2
<1>4. p \in Awake'
  BY DEF Awake, AwakeIn
<1>5. \A q \in Slots : pc'[q] \notin {"none", "exit_free"} =>
        pc[q] \notin {"none", "exit_free"} /\ pcb'[q].parentID = pcb[q].parentID
  BY DEF SameWaiting
<1>6. \A q \in Slots : q # p => pc'[q] = pc[q]
  OBVIOUS
<1>7. \A q \in Awake : q # p => q \in Awake'
  OBVIOUS
<1>8. current' # NoThread
  BY ConstTypes
<1> QED BY <1>1, <1>3, <1>4, <1>5, <1>6, <1>7, <1>8, StepKeeps

\* Exec takes the free bmsem at once, and only the caller goes on.
LEMMA SysExecKeeps ==
  ASSUME TableInv, NoTimerInv, NEW p \in Slots, NEW f, SysExec(p, f)
  PROVE  NoTimerInv'
<1>1. /\ current = p /\ pc[p] = "user" /\ BmsemP(p) /\ UNCHANGED <<bm, ptr, pcb>>
      /\ \A q \in Slots : q # p => call'[q] = call[q]
  BY Types DEF SysExec, Running
<1>2. bmsem.value = 1 /\ \A i \in bm : pc[i] # "none"
  BY <1>1, OthersRest DEF InExec
<1>3. Continue(<<>>) /\ Goto(p, "exec_check")
  BY <1>1, <1>2, SMT DEF BmsemP
<1>4. pc'[p] = "exec_check" /\ \A q \in Slots : q # p => pc'[q] = pc[q]
  BY <1>3, Types DEF Goto
<1>5. Awake \subseteq Awake' /\ current' = p
  BY <1>1, <1>3, ContinueAwake, Types
<1>6. Marked'
  BY <1>1, <1>2, <1>4, Types DEF Marked, TableInv, TypeOK
<1>7. \A q \in Slots : SameWaiting(q) /\ pcb'[q].numwait = pcb[q].numwait
  BY <1>1 DEF SameWaiting
<1> QED BY <1>1, <1>4, <1>5, <1>6, <1>7, GoesOn DEF SameWaiting, InExec, Counting

\* bmsem->V().
LEMMA ReturnAwake ==
  ASSUME TableInv, NEW p \in Slots, current = p, pc[p] \in InExec, ExecReturn(p)
  PROVE  /\ Awake \subseteq Awake' /\ current' = p /\ bmsem'.value = 1 /\ pc'[p] = "user"
         /\ \A q \in Slots : q # p => pc'[q] = pc[q] /\ call'[q] = call[q]
<1>1. bmsem \in Sem /\ SchedType /\ Continue(VWoken(bmsem))
  BY Types DEF ExecReturn
<1>2. CASE bmsem.queue = <<>>
  BY <1>1, <1>2, ContinueAwake, ExecReturns DEF VWoken
<1>3. CASE bmsem.queue # <<>>
  <2>1. Head(bmsem.queue) \in Slots
    BY <1>1, <1>3, SMT DEF Sem
  <2>2. Continue(<<Head(bmsem.queue)>>)
    BY <1>1, <1>3 DEF VWoken
  <2> QED BY <1>1, <2>1, <2>2, ContinueAwake, ExecReturns
<1> QED BY <1>2, <1>3

\* A marked slot is one that the caller of Exec has just taken.
LEMMA ExecCheckKeeps ==
  ASSUME CountLaws, TableInv, NoTimerInv, NEW p \in Slots, ExecCheck(p)
  PROVE  NoTimerInv'
<1>1. current = p /\ pc[p] = "exec_check" /\ pc[p] \in InExec
  BY DEF ExecCheck, Running, InExec
<1>2. /\ \A i \in bm : i \in Slots /\ pc[i] # "none"
      /\ \A i \in Slots \ bm : pc[i] = "none"
  <2>1. \A r \in Slots : pc[r] \notin Starting
    BY <1>1, OthersRest DEF Starting, InExec
  <2> QED BY <2>1 DEF NoTimerInv, Marked, TableInv, TypeOK, SlotsAgree, RootInv
<1>3. CASE ExecReturn(p) /\ UNCHANGED <<bm, ptr, pcb>>
  <2>1. /\ Awake \subseteq Awake' /\ current' = p /\ bmsem'.value = 1 /\ pc'[p] = "user"
        /\ \A q \in Slots : q # p => pc'[q] = pc[q] /\ call'[q] = call[q]
    BY <1>1, <1>3, ReturnAwake
  <2>2. Marked'
    BY <1>2, <1>3, <2>1 DEF Marked
  <2>3. \A q \in Slots : SameWaiting(q) /\ pcb'[q].numwait = pcb[q].numwait
    BY <1>3 DEF SameWaiting
  <2> QED BY <1>1, <2>1, <2>2, <2>3, GoesOn DEF SameWaiting, Counting
<1>4. CASE ~(ExecReturn(p) /\ UNCHANGED <<bm, ptr, pcb>>)
  <2> DEFINE i == Find
  <2>1. /\ ~(Slots \subseteq bm)
        /\ bm' = bm \cup {i} /\ pcb' = [pcb EXCEPT ![i] = NewPCB]
        /\ call' = [call EXCEPT ![p].id = i] /\ Goto(p, "exec_load") /\ Continue(<<>>)
    BY <1>4 DEF ExecCheck
  <2>2. i \in Slots \ bm /\ pc[i] = "none"
    BY <1>2, <2>1, FindType
  <2> HIDE DEF i
  <2>3. /\ pc'[p] = "exec_load" /\ call'[p].id = i
        /\ \A q \in Slots : q # p => pc'[q] = pc[q] /\ call'[q] = call[q]
    BY <2>1, Types DEF Goto, Calls
  <2>4. pcb'[i] = NewPCB /\ \A q \in Slots : q # i => pcb'[q] = pcb[q]
    BY <2>1, <2>2, Types
  <2>5. Awake \subseteq Awake' /\ current' = p
    BY <1>1, <2>1, ContinueAwake, Types
  <2>6. Marked'
    BY <1>2, <2>1, <2>3, SMT DEF Marked, Starting
  <2>7. /\ \A q \in Slots : pc[q] # "none" => SameWaiting(q) /\ pcb'[q].numwait = pcb[q].numwait
        /\ \A q \in Slots : pc[q] = "none" =>
             \/ pcb'[q] = NewPCB
             \/ pcb'[q].joinsem = pcb[q].joinsem /\ pcb'[q].exitsem = pcb[q].exitsem
    BY <2>2, <2>4 DEF SameWaiting
  <2> QED BY <1>1, <2>3, <2>5, <2>6, <2>7, GoesOn DEF InExec, Counting
<1> QED BY <1>3, <1>4

\* The slot that the caller of Exec has taken.
LEMMA TakenSlot ==
  ASSUME TableInv, NoTimerInv, NEW p \in Slots, current = p, pc[p] \in Starting
  PROVE  /\ call[p].id \in Slots /\ call[p].id \in bm /\ pc[call[p].id] = "none" /\ call[p].id # p
         /\ \A j \in bm : j \in Slots /\ (pc[j] # "none" \/ j = call[p].id)
<1>1. \A r \in Slots : pc[r] \in Starting => r = p
  BY OthersRest DEF Starting, InExec
<1>2. call[p].id \in bm /\ pc[call[p].id] = "none"
  BY DEF TableInv, ExecInv, Starting
<1>3. bm \subseteq Slots /\ pc[p] # "none"
  BY DEF TableInv, TypeOK, Starting
<1> QED BY <1>1, <1>2, <1>3 DEF NoTimerInv, Marked

\* A step of Exec on the PCB of the child, which has no thread yet.
LEMMA ChildStep ==
  ASSUME TableInv, NoTimerInv, NEW p \in Slots, current = p, pc[p] \in Starting,
         NEW l \in Starting, Goto(p, l), Continue(<<>>), UNCHANGED <<bm, call>>,
         \A q \in Slots : q # call[p].id => pcb'[q] = pcb[q],
         \/ pcb'[call[p].id] = NewPCB
         \/ /\ pcb'[call[p].id].joinsem = pcb[call[p].id].joinsem
            /\ pcb'[call[p].id].exitsem = pcb[call[p].id].exitsem
  PROVE  NoTimerInv'
<1> DEFINE i == call[p].id
<1>1. i \in Slots /\ pc[i] = "none" /\ i # p
      /\ \A j \in bm : j \in Slots /\ (pc[j] # "none" \/ j = i)
  BY TakenSlot
<1>2. /\ pc'[p] = l /\ call'[p].id = i
      /\ \A q \in Slots : q # p => pc'[q] = pc[q] /\ call'[q] = call[q]
  BY Types DEF Goto
<1>3. Awake \subseteq Awake' /\ current' = p
  BY ContinueAwake, Types
<1>4. Marked'
  <2>1. bm' = bm /\ pc'[p] \in Starting /\ pc'[p] # "none" /\ call'[p].id = i
    BY <1>2 DEF Starting
  <2> QED BY <1>1, <1>2, <2>1 DEF Marked
<1>5. /\ \A q \in Slots : pc[q] # "none" => SameWaiting(q) /\ pcb'[q].numwait = pcb[q].numwait
      /\ \A q \in Slots : pc[q] = "none" =>
           \/ pcb'[q] = NewPCB
           \/ pcb'[q].joinsem = pcb[q].joinsem /\ pcb'[q].exitsem = pcb[q].exitsem
  BY <1>1 DEF SameWaiting
<1>6. l \in InExec /\ l \notin Counting /\ pc[p] \notin {"none", "exit_free"}
  BY DEF Starting, InExec, Counting
<1> QED BY <1>2, <1>3, <1>4, <1>5, <1>6, GoesOn

\* The child gets its PCB while the caller keeps the CPU.
LEMMA ExecLoadKeeps ==
  ASSUME TableInv, NoTimerInv, NEW p \in Slots, ExecLoad(p)
  PROVE  NoTimerInv'
<1> DEFINE i == call[p].id
<1>1. current = p /\ pc[p] \in Starting /\ Continue(<<>>) /\ UNCHANGED <<bm, call>>
  BY DEF ExecLoad, Running, Starting
<1>2. i \in Slots /\ pcb[i] \in PCBs
  BY <1>1, TakenSlot, Types
<1>3. CASE Goto(p, "exec_fail") /\ UNCHANGED pcb
  <2>1. "exec_fail" \in Starting
    BY DEF Starting
  <2> QED BY <1>1, <1>3, <2>1, ChildStep
<1>4. CASE ~(Goto(p, "exec_fail") /\ UNCHANGED pcb)
  <2>1. /\ Goto(p, "exec_space") /\ "exec_space" \in Starting
        /\ pcb' = [pcb EXCEPT ![i] = [@ EXCEPT !.parentID = p, !.thread = TRUE,
                                               !.file = call[p].file]]
    BY <1>4 DEF ExecLoad, Starting
  <2>2. \A q \in Slots : q # i => pcb'[q] = pcb[q]
    BY <1>2, <2>1, Types
  <2>3. pcb'[i].joinsem = pcb[i].joinsem /\ pcb'[i].exitsem = pcb[i].exitsem
    BY <1>2, <2>1, Types DEF PCBs
  <2> QED BY <1>1, <2>1, <2>2, <2>3, ChildStep
<1> QED BY <1>3, <1>4

\* The child gets its address space while the caller keeps the CPU.
LEMMA ExecSpaceKeeps ==
  ASSUME TableInv, NoTimerInv, NEW p \in Slots, ExecSpace(p)
  PROVE  NoTimerInv'
<1> DEFINE i == call[p].id
<1>1. CASE Stop("aborted")
  BY <1>1, NothingMoves DEF Stop, schedVars, tableVars
<1>2. CASE ~Stop("aborted")
  <2>1. /\ current = p /\ pc[p] \in Starting /\ Continue(<<>>) /\ UNCHANGED <<bm, call>>
        /\ pcb' = [pcb EXCEPT ![i].space = Pages[call[p].file]]
        /\ Goto(p, "exec_fork") /\ "exec_fork" \in Starting
    BY <1>2 DEF ExecSpace, Running, Starting
  <2>2. i \in Slots /\ pcb[i] \in PCBs
    BY <2>1, TakenSlot, Types
  <2>3. \A q \in Slots : q # i => pcb'[q] = pcb[q]
    BY <2>1, <2>2, Types
  <2>4. pcb'[i].joinsem = pcb[i].joinsem /\ pcb'[i].exitsem = pcb[i].exitsem
    BY <2>1, <2>2, Types DEF PCBs
  <2> QED BY <2>1, <2>3, <2>4, ChildStep
<1> QED BY <1>1, <1>2

\* A failed Exec gives the slot back before anyone else runs.
LEMMA ExecFailKeeps ==
  ASSUME TableInv, NoTimerInv, NEW p \in Slots, ExecFail(p)
  PROVE  NoTimerInv'
<1> DEFINE i == call[p].id
<1>1. /\ current = p /\ pc[p] = "exec_fail" /\ bm' = bm \ {i} /\ ExecReturn(p)
      /\ pcb' = [pcb EXCEPT ![i] = NewPCB]
  BY DEF ExecFail, Running
<1>2. i \in Slots /\ pc[i] = "none" /\ i # p
      /\ \A j \in bm : j \in Slots /\ (pc[j] # "none" \/ j = i)
  BY <1>1, TakenSlot DEF Starting
<1> HIDE DEF i
<1>3. /\ Awake \subseteq Awake' /\ current' = p /\ bmsem'.value = 1 /\ pc'[p] = "user"
      /\ \A q \in Slots : q # p => pc'[q] = pc[q] /\ call'[q] = call[q]
  BY <1>1, ReturnAwake DEF InExec
<1>4. pcb'[i] = NewPCB /\ \A q \in Slots : q # i => pcb'[q] = pcb[q]
  BY <1>1, <1>2, Types
<1>5. Marked'
  BY <1>1, <1>2, <1>3 DEF Marked
<1>6. /\ \A q \in Slots : pc[q] # "none" => SameWaiting(q) /\ pcb'[q].numwait = pcb[q].numwait
      /\ \A q \in Slots : pc[q] = "none" =>
           \/ pcb'[q] = NewPCB
           \/ pcb'[q].joinsem = pcb[q].joinsem /\ pcb'[q].exitsem = pcb[q].exitsem
  BY <1>2, <1>4 DEF SameWaiting
<1> QED BY <1>1, <1>3, <1>5, <1>6, GoesOn DEF Counting

\* The caller returns from Fork, unlocks and counts the child in one go.
LEMMA CountingKeeps ==
  ASSUME TableInv, NoTimerInv, NEW p \in Slots, ExecUnlock(p) \/ ExecCount(p)
  PROVE  NoTimerInv'
<1>1. CASE Stop("undefined")
  BY <1>1, NothingMoves DEF Stop, schedVars, tableVars
<1>2. CASE ~Stop("undefined")
  <2>1. /\ current = p /\ pc[p] \in Counting /\ pc[p] \in InExec /\ pc[p] \notin Starting
        /\ UNCHANGED <<bm, ptr>>
    BY <1>2 DEF ExecUnlock, ExecCount, Running, Counting, InExec, Starting, tableVars
  <2>2. \A j \in bm : j \in Slots /\ pc[j] # "none"
    <3>1. \A r \in Slots : pc[r] \notin Starting
      BY <2>1, OthersRest DEF Starting, InExec
    <3> QED BY <3>1 DEF NoTimerInv, Marked, TableInv, TypeOK
  <2>3. ptr[call[p].id] = "live"
    BY <2>1 DEF NoTimerInv, PCBOutlivesExec
  <2>4. CASE ExecUnlock(p)
    <3>1. Goto(p, "exec_count") /\ Continue(<<>>) /\ UNCHANGED <<pcb, bmsem, call>>
      BY <1>2, <2>4 DEF ExecUnlock, tableVars
    <3>2. pc'[p] = "exec_count" /\ \A q \in Slots : q # p => pc'[q] = pc[q]
      BY <3>1, Types DEF Goto
    <3>3. Awake \subseteq Awake' /\ current' = p
      BY <2>1, <3>1, ContinueAwake, Types
    <3>4. Marked'
      BY <2>1, <2>2, <3>2 DEF Marked
    <3>5. \A q \in Slots : SameWaiting(q) /\ pcb'[q].numwait = pcb[q].numwait
      BY <3>1 DEF SameWaiting
    <3>6. pc[p] \notin {"none", "exit_free"} /\ pc'[p] \in InExec
      BY <2>1, <3>2 DEF InExec
    <3> QED BY <2>1, <2>3, <3>1, <3>2, <3>3, <3>4, <3>5, <3>6, GoesOn DEF SameWaiting
  <2>5. CASE ExecCount(p)
    <3>1. ExecReturn(p) /\ pcb' = [pcb EXCEPT ![p].numwait = @ + 1]
      BY <1>2, <2>5 DEF ExecCount
    <3>2. /\ Awake \subseteq Awake' /\ current' = p /\ bmsem'.value = 1 /\ pc'[p] = "user"
          /\ \A q \in Slots : q # p => pc'[q] = pc[q] /\ call'[q] = call[q]
      BY <2>1, <3>1, ReturnAwake
    <3>3. Marked'
      BY <2>1, <2>2, <3>2 DEF Marked
    <3>4. \A q \in Slots : q # p => pcb'[q] = pcb[q]
      BY <3>1, Types
    <3>5. SameWaiting(p)
      BY <3>1, Types DEF SameWaiting, PCBs
    <3>6. pc[p] \notin {"none", "exit_free"} /\ "user" \notin Counting
      BY <2>1 DEF Counting
    <3>7. \A q \in Slots : SameWaiting(q) /\ (q # p => pcb'[q].numwait = pcb[q].numwait)
      BY <3>4, <3>5 DEF SameWaiting
    <3> QED BY <2>1, <3>2, <3>3, <3>6, <3>7, GoesOn DEF SameWaiting
  <2> QED BY <2>4, <2>5
<1> QED BY <1>1, <1>2

\* The child is put on the ready list.
LEMMA ExecForkKeeps ==
  ASSUME CountLaws, TableInv, NoTimerInv, NEW p \in Slots, ExecFork(p)
  PROVE  NoTimerInv'
<1> DEFINE i == call[p].id
<1>1. /\ current = p /\ pc[p] = "exec_fork" /\ Continue(<<i>>)
      /\ pc' = [pc EXCEPT ![p] = "exec_unlock", ![i] = "user"]
      /\ UNCHANGED <<bm, ptr, pcb, bmsem, call>>
  BY DEF ExecFork, Running, tableVars
<1>2. i \in Slots /\ i \in bm /\ pc[i] = "none" /\ i # p
      /\ \A j \in bm : j \in Slots /\ (pc[j] # "none" \/ j = i)
  BY <1>1, TakenSlot DEF Starting
<1>3. pcb[i].parentID = p /\ ptr[i] = "live" /\ Pending(i) = {}
  BY <1>1, <1>2, IdleSlot DEF TableInv, ExecInv, SlotsAgree
<1>4. /\ pc'[p] = "exec_unlock" /\ pc'[i] = "user"
      /\ \A q \in Slots : q # p /\ q # i => pc'[q] = pc[q]
  BY <1>1, <1>2, Types
<1>5. Awake \cup {i} \subseteq Awake' /\ current' = p
  BY <1>1, <1>2, ContinueAwake, Types
<1>6. call'[p].id = i
  BY <1>1
<1> HIDE DEF i
<1>7. \A q \in Slots : pc'[q] # "exec_P" /\ (pc'[q] \notin Resting => current' = q)
  BY <1>1, <1>4, <1>5, OthersRest DEF Resting
<1>8. \A q \in Slots : pc'[q] = "user" => q \in Awake'
  BY <1>4, <1>5 DEF NoTimerInv
<1>9. \E q \in Slots : pc'[q] \in InExec
  BY <1>4 DEF InExec
<1>10. Marked'
  BY <1>1, <1>2, <1>4 DEF Marked
<1>11. PCBOutlivesExec'
  <2>1. \A q \in Slots : pc'[q] \in Counting => q = p
    BY <1>1, <1>4, OthersRest DEF Counting, InExec
  <2> QED BY <1>1, <1>3, <1>6, <2>1 DEF PCBOutlivesExec
<1>12. ASSUME NEW q \in Slots PROVE OwnQueues(q)' /\ Joins(q)' /\ Exits(q)'
  <2>1. Unreleased(q) \subseteq Unreleased(q)'
    BY <1>1, <1>2, <1>4 DEF Unreleased
  <2>2. OwnQueues(q) /\ Joins(q) /\ Exits(q) /\ (q \in Awake => q \in Awake')
    BY <1>5 DEF NoTimerInv
  <2>3. CASE q \in {p, i}
    BY <1>1, <1>4, <2>2, <2>3 DEF OwnQueues, Joins, Exits
  <2>4. CASE q \notin {p, i}
    BY <1>1, <1>4, <2>1, <2>2, <2>4, WaitsKept
  <2> QED BY <2>3, <2>4
<1>13. Ranked'
  <2>1. PICK rank \in [Slots -> Nat] : \A q \in Slots : \A c \in Pending(q) : rank[c] < rank[q]
    BY DEF NoTimerInv, Ranked
  <2> DEFINE new == [q \in Slots |-> IF q = i THEN 0 ELSE rank[q] + 1]
  <2>2. new \in [Slots -> Nat]
    BY <2>1, SMT
  <2>3. ASSUME NEW q \in Slots, NEW c \in Pending(q)' PROVE new[c] < new[q]
    <3>1. c \in Slots /\ (c \in Pending(q) \/ (c = i /\ q = p))
      BY <1>1, <1>3, <1>4, <2>3 DEF Pending
    <3>2. q # i
      BY <1>2, <1>3, <3>1
    <3>3. CASE c = i
      <4>1. rank[q] \in Nat
        BY <2>1
      <4> QED BY <3>1, <3>2, <3>3, <4>1, SMT
    <3>4. CASE c # i
      <4>1. rank[c] < rank[q] /\ rank[c] \in Nat /\ rank[q] \in Nat
        BY <2>1, <3>1, <3>4
      <4> QED BY <3>1, <3>2, <3>4, <4>1, SMT
    <3> QED BY <3>3, <3>4
  <2> HIDE DEF new
  <2> QED BY <2>2, <2>3 DEF Ranked
<1>14. current' # NoThread
  BY <1>5, ConstTypes
<1> QED BY <1>7, <1>8, <1>9, <1>10, <1>11, <1>12, <1>13, <1>14 DEF NoTimerInv

-----------------------------------------------------------------------------
(* The end of Exit: DecNumWait, ExitRelease, and the release of the slot.  *)

\* The process leaves: its slot, its PCB and its thread are gone.
LEMMA LeaveInv ==
  ASSUME TableInv, TypeOK', NumWaitCounts', NEW p \in Slots, p # Root,
         pc[p] # "none", pc[p] \notin InExec, Pending(p) = {},
         pcb'[p] = NewPCB,
         \A q \in Slots : q # p =>
           /\ pcb'[q].parentID = pcb[q].parentID
           /\ pcb'[q].joinID = pcb[q].joinID
           /\ pcb'[q].joinExitcode = pcb[q].joinExitcode
           /\ pcb'[q].isExit = pcb[q].isExit
           /\ pcb'[q].joinsem = pcb[q].joinsem
           /\ pcb'[q].exitsem = pcb[q].exitsem
           /\ pcb[q].exitsem.value > 0 => pcb'[q].numwait = pcb[q].numwait,
         pc'[p] = "none",
         \A q \in Slots : q # p => pc'[q] = pc[q] /\ call'[q] = call[q],
         ptr'[p] = "null", \A q \in Slots : q # p => ptr'[q] = ptr[q],
         bm' = bm \ {p},
         UNCHANGED <<machine, bmsem>>,
         \A q, c \in Slots : q # pcb[p].parentID \/ c # p => exited'[q][c] = exited[q][c],
         pc[p] \in {"exit_dec", "exit_free"} => exited' = exited
  PROVE  TableInv'
<1>1. SlotsAgree'
  BY SMT DEF TableInv, SlotsAgree
<1>2. ExecInv'
  BY ExecKept DEF InExec
<1>3. RootInv'
  <2>1. pc'[Root] = pc[Root] /\ pcb'[Root].parentID = pcb[Root].parentID
    BY ConstTypes
  <2>2. \A q \in Slots : pc'[q] # "none" => pc[q] # "none" /\ ptr'[q] = ptr[q]
    OBVIOUS
  <2>3. machine' # "boot"
    BY DEF TableInv, RootInv
  <2> QED BY <2>1, <2>2, <2>3 DEF TableInv, RootInv
<1>4. ExitInv'
  BY FreshFields, SMT DEF TableInv, ExitInv
<1>5. ParentOutlivesChild'
  BY SMT DEF TableInv, ParentOutlivesChild, Pending
<1>6. JoinInv'
  <2>1. \A q \in Slots : Unreleased(q)' = Unreleased(q) \ {p}
    BY SMT DEF Unreleased
  <2>2. JoinState(p)'
    BY FreshFields, SMT DEF JoinState
  <2>3. ASSUME NEW q \in Slots, q # p PROVE JoinState(q)'
    <3>1. JoinState(q)
      BY DEF TableInv, JoinInv
    <3>2. \A c \in Slots : c \in Unreleased(q) \/ exited'[q][c] = exited[q][c]
      <4>1. CASE pc[p] \in {"exit_dec", "exit_free"}
        BY <4>1
      <4>2. CASE pc[p] \notin {"exit_dec", "exit_free"}
        <5>1. q = pcb[p].parentID => p \in Unreleased(q)
          BY <4>2 DEF Unreleased
        <5> QED BY <5>1
      <4> QED BY <4>1, <4>2
    <3> QED BY <2>1, <2>3, <3>1, <3>2, JoinStateKept
  <2>4. ASSUME NEW c \in Slots \ {Root} PROVE CodeKept(c)'
    <3>1. SUFFICES ASSUME pc[c] \in {"exit_P", "exit_rel"}, c # p
                   PROVE  CodeKept(c)'
      BY DEF CodeKept
    <3>2. pcb[c].parentID \in Slots /\ CodeKept(c)
      BY <3>1 DEF TableInv, ParentOutlivesChild, JoinInv
    <3> QED BY <3>1, <3>2, CodeKeptKept
  <2> QED BY <2>2, <2>3, <2>4 DEF JoinInv
<1> QED BY <1>1, <1>2, <1>3, <1>4, <1>5, <1>6 DEF TableInv

\* The release of a slot after ExitRelease.
LEMMA ExitFreeInv ==
  ASSUME CountLaws, TableInv, NEW p \in Slots, ExitFree(p)
  PROVE  TableInv'
<1>1. /\ pc[p] = "exit_free"
      /\ pcb' = [pcb EXCEPT ![p] = NewPCB]
      /\ ptr' = [ptr EXCEPT ![p] = "null"]
      /\ bm' = bm \ {p}
      /\ pc' = [pc EXCEPT ![p] = "none"]
      /\ call' = [call EXCEPT ![p] = NoCall]
      /\ Sleep
      /\ UNCHANGED <<machine, bmsem, ret, exited>>
  BY DEF ExitFree, ExitFreed, Goto
<1>2. p # Root /\ Pending(p) = {}
  BY <1>1, NoChild DEF TableInv, RootInv
<1>3. SchedType'
  BY <1>1, Types, SchedTypes
<1>4. /\ pcb' \in [Slots -> PCBs] /\ pcb'[p] = NewPCB
      /\ \A q \in Slots : q # p => pcb'[q] = pcb[q]
      /\ pc' \in [Slots -> Labels] /\ pc'[p] = "none"
      /\ \A q \in Slots : q # p => pc'[q] = pc[q]
  BY <1>1, Types, FreshTypes DEF Labels
<1>5. /\ call' \in [Slots -> Calls]
      /\ \A q \in Slots : q # p => call'[q] = call[q]
  BY <1>1, Types, FreshTypes
<1>6. ptr' \in [Slots -> {"null", "live", "dangling"}]
      /\ ptr'[p] = "null" /\ \A q \in Slots : q # p => ptr'[q] = ptr[q]
  BY <1>1 DEF TableInv, TypeOK
<1>7. TypeOK'
  BY <1>1, <1>3, <1>4, <1>5, <1>6 DEF TableInv, TypeOK, SchedType
<1>8. NumWaitCounts'
  <2>1. \A q \in Slots : Pending(q)' = Pending(q)
    BY <1>1, <1>2, <1>4 DEF Pending
  <2>2. pcb'[p].numwait = pcb[p].numwait
    <3>1. Cardinality(Pending(p)) = 0
      BY <1>2 DEF CountLaws
    <3> QED BY <1>1, <1>4, <3>1, FreshFields DEF TableInv, NumWaitCounts, Counted, Counting
  <2> QED BY <2>1, <2>2, <1>1, <1>4, SameCount DEF TableInv, Counting
<1> QED BY <1>1, <1>2, <1>4, <1>5, <1>6, <1>7, <1>8, LeaveInv DEF InExec

\* The fields of the parent after DecNumWait.
LEMMA DecFields ==
  ASSUME NEW P \in [Slots -> PCBs], NEW q \in Slots
  PROVE  LET D == [P EXCEPT ![q].numwait = @ - 1]
         IN  /\ D \in [Slots -> PCBs] /\ D[q] \in PCBs
             /\ D[q].parentID = P[q].parentID
             /\ D[q].numwait = P[q].numwait - 1
             /\ D[q].joinID = P[q].joinID
             /\ D[q].joinExitcode = P[q].joinExitcode
             /\ D[q].isExit = P[q].isExit
             /\ D[q].joinsem = P[q].joinsem
             /\ D[q].exitsem = P[q].exitsem
             /\ \A r \in Slots : r # q => D[r] = P[r]
<1>1. P[q] \in PCBs
  OBVIOUS
<1> QED BY <1>1, SMT DEF PCBs

\* V() on a process's exitsem.
LEMMA SignalFields ==
  ASSUME NEW P \in [Slots -> PCBs], NEW q \in Slots
  PROVE  LET D == [P EXCEPT ![q].exitsem = VSignal(@)]
         IN  /\ D \in [Slots -> PCBs]
             /\ D[q].parentID = P[q].parentID
             /\ D[q].numwait = P[q].numwait
             /\ D[q].joinID = P[q].joinID
             /\ D[q].joinExitcode = P[q].joinExitcode
             /\ D[q].isExit = P[q].isExit
             /\ D[q].joinsem = P[q].joinsem
             /\ D[q].exitsem.value = P[q].exitsem.value + 1
             /\ \A r \in Slots : r # q => D[r] = P[r]
<1> DEFINE s == VSignal(P[q].exitsem)
<1>1. P[q] \in PCBs /\ P[q].exitsem \in Sem
  BY DEF PCBs
<1>2. s \in Sem /\ s.value = P[q].exitsem.value + 1
  BY <1>1, SemTypes DEF VSignal
<1> HIDE DEF s
<1>3. [P EXCEPT ![q].exitsem = VSignal(@)] = [P EXCEPT ![q].exitsem = s]
  BY DEF s
<1> QED BY <1>1, <1>2, <1>3 DEF PCBs

\* DecNumWait and ExitRelease.
LEMMA ExitCountedInv ==
  ASSUME CountLaws, TableInv, NEW p \in Slots, p # Root,
         pc[p] \in {"user", "exit_rel", "exit_dec"}, Pending(p) = {},
         ExitCounted(p, pcb), ret' \in [Slots -> Rets], UNCHANGED bmsem,
         exited' \in [Slots -> [Slots -> Codes \cup {NoCode}]],
         \A q, c \in Slots : q # pcb[p].parentID \/ c # p => exited'[q][c] = exited[q][c],
         pc[p] = "exit_dec" => exited' = exited
  PROVE  TableInv'
<1> DEFINE par == pcb[p].parentID
<1> DEFINE D == [pcb EXCEPT ![par].numwait = @ - 1]
<1>1. /\ par \in Slots /\ par # p
      /\ pc[par] \notin {"none", "exit_rel", "exit_dec", "exit_free"}
      /\ p \in Pending(par)
  <2>1. par \in Slots /\ pc[par] \notin {"none", "exit_rel", "exit_dec", "exit_free"}
    BY DEF TableInv, ParentOutlivesChild
  <2>2. p \in Pending(par)
    BY DEF Pending
  <2> QED BY <2>1, <2>2
<1>2. /\ D \in [Slots -> PCBs] /\ D[par] \in PCBs
      /\ D[par].parentID = pcb[par].parentID
      /\ D[par].numwait = pcb[par].numwait - 1
      /\ D[par].joinID = pcb[par].joinID
      /\ D[par].joinExitcode = pcb[par].joinExitcode
      /\ D[par].isExit = pcb[par].isExit
      /\ D[par].joinsem = pcb[par].joinsem
      /\ D[par].exitsem = pcb[par].exitsem
      /\ \A q \in Slots : q # par => D[q] = pcb[q]
  <2> HIDE DEF par
  <2> QED BY <1>1, Types, DecFields
<1>3. \/ /\ D[par].numwait = 0 /\ D[par].isExit
         /\ pcb' = [D EXCEPT ![par].exitsem = VSignal(@)]
         /\ Continue(VWoken(D[par].exitsem))
         /\ pc' = [pc EXCEPT ![p] = "exit_free"]
         /\ UNCHANGED <<machine, bm, ptr, call>>
      \/ ExitFreed(p, D)
  BY DEF ExitCounted, Goto
<1> HIDE DEF D, par
<1>4. /\ Cardinality(Pending(par)) \in Nat \ {0}
      /\ Cardinality(Pending(par) \ {p}) = Cardinality(Pending(par)) - 1
  <2>1. Pending(par) \in SUBSET Slots /\ Cardinality(Pending(par)) \in Nat
    BY <1>1, FinitePending
  <2>2. Cardinality(Pending(par) \ {p}) = Cardinality(Pending(par)) - 1
    BY <1>1, <2>1 DEF CountLaws
  <2>3. Cardinality(Pending(par)) # 0
    BY <1>1, <2>1 DEF CountLaws
  <2> QED BY <2>1, <2>2, <2>3
<1>5. D[par].numwait = IF pc[par] \in Counting
                       THEN Cardinality(Pending(par) \ {p}) - 1
                       ELSE Cardinality(Pending(par) \ {p})
  BY <1>1, <1>2, <1>4 DEF TableInv, NumWaitCounts, Counted, Counting
<1>6. CASE ExitFreed(p, D)
  <2>1. /\ pcb' = [D EXCEPT ![p] = NewPCB]
        /\ ptr' = [ptr EXCEPT ![p] = "null"]
        /\ bm' = bm \ {p}
        /\ pc' = [pc EXCEPT ![p] = "none"]
        /\ call' = [call EXCEPT ![p] = NoCall]
        /\ Sleep
        /\ UNCHANGED machine
    BY <1>6 DEF ExitFreed, Goto
  <2>2. SchedType'
    BY <2>1, Types, SchedTypes
  <2>3. /\ pcb' \in [Slots -> PCBs] /\ pcb'[p] = NewPCB
        /\ \A q \in Slots : q # p => pcb'[q] = D[q]
        /\ pc' \in [Slots -> Labels] /\ pc'[p] = "none"
        /\ \A q \in Slots : q # p => pc'[q] = pc[q]
    BY <1>2, <2>1, Types, FreshTypes DEF Labels
  <2>4. /\ call' \in [Slots -> Calls]
        /\ \A q \in Slots : q # p => call'[q] = call[q]
    BY <2>1, Types, FreshTypes
  <2>5. ptr' \in [Slots -> {"null", "live", "dangling"}]
        /\ ptr'[p] = "null" /\ \A q \in Slots : q # p => ptr'[q] = ptr[q]
    BY <2>1 DEF TableInv, TypeOK
  <2>6. TypeOK'
    BY <2>1, <2>2, <2>3, <2>4, <2>5 DEF TableInv, TypeOK, SchedType
  <2>7. NumWaitCounts'
    <3>1. \A q \in Slots : Pending(q)' = Pending(q) \ {p}
      <4>1. \A q \in Slots : q # p =>
              pc'[q] = pc[q] /\ pcb'[q].parentID = pcb[q].parentID
        BY <1>2, <2>3
      <4> QED BY <2>3, <4>1, PendingWithout
    <3>2. \A q \in Slots : q # par => p \notin Pending(q)
      BY DEF Pending, par
    <3>3. ASSUME NEW q \in Slots, q # par, q # p
          PROVE  Counted(q)'
      <4>1. Pending(q)' = Pending(q)
        BY <3>1, <3>2, <3>3, ZenonT(60)
      <4>2. Counted(q) /\ pcb'[q].numwait = pcb[q].numwait /\ pc'[q] = pc[q]
        BY <1>2, <2>3, <3>3 DEF TableInv, NumWaitCounts
      <4> QED BY <4>1, <4>2, CountedKept
    <3>4. ASSUME NEW q \in Slots, q = par
          PROVE  Counted(q)'
      BY <1>1, <1>5, <2>3, <3>1, <3>4 DEF Counted
    <3>5. Counted(p)'
      <4>1. Cardinality(Pending(p)') = 0
        BY <3>1 DEF CountLaws
      <4>2. pc'[p] \notin Counting /\ pcb'[p].numwait = 0
        BY <2>3, FreshFields DEF Counting
      <4> QED BY <4>1, <4>2 DEF Counted
    <3> QED BY <3>3, <3>4, <3>5 DEF NumWaitCounts
  <2>8. pcb[par].exitsem.value > 0 => FALSE
    <3>1. pcb[par].exitsem.value > 0 => pcb[par].numwait = 0 /\ pc[par] = "exit_P"
      BY <1>1 DEF TableInv, ExitInv
    <3>2. Counted(par)
      BY <1>1 DEF TableInv, NumWaitCounts
    <3>3. "exit_P" \notin Counting
      BY DEF Counting
    <3> QED BY <1>4, <3>1, <3>2, <3>3 DEF Counted
  <2>9. \A q \in Slots : q # p =>
           /\ pcb'[q].parentID = pcb[q].parentID
           /\ pcb'[q].joinID = pcb[q].joinID
           /\ pcb'[q].joinExitcode = pcb[q].joinExitcode
           /\ pcb'[q].isExit = pcb[q].isExit
           /\ pcb'[q].joinsem = pcb[q].joinsem
           /\ pcb'[q].exitsem = pcb[q].exitsem
           /\ pcb[q].exitsem.value > 0 => pcb'[q].numwait = pcb[q].numwait
    BY <1>2, <2>3, <2>8, SMT
  <2> QED BY <2>1, <2>3, <2>4, <2>5, <2>6, <2>7, <2>9, LeaveInv DEF InExec
<1>7. CASE ~ExitFreed(p, D)
  <2>1. /\ D[par].numwait = 0 /\ D[par].isExit
        /\ pcb' = [D EXCEPT ![par].exitsem = VSignal(@)]
        /\ Continue(VWoken(D[par].exitsem))
        /\ pc' = [pc EXCEPT ![p] = "exit_free"]
        /\ UNCHANGED <<machine, bm, ptr, call>>
    BY <1>3, <1>7
  <2>2. pc[par] = "exit_P" /\ pcb[par].exitsem.value = 0
    <3>1. pc[par] = "exit_P"
      BY <1>1, <1>2, <2>1 DEF TableInv, ExitInv
    <3>2. pcb[par].numwait # 0
      BY <1>1, <1>4, <3>1 DEF TableInv, NumWaitCounts, Counted, Counting
    <3>3. pcb[par].exitsem.value \in Nat
      BY <1>1, Types DEF PCBs, Sem
    <3> QED BY <1>1, <3>1, <3>2, <3>3, SMT DEF TableInv, ExitInv
  <2>3. SchedType'
    <3>1. D[par].exitsem \in Sem
      BY <1>2 DEF PCBs
    <3> QED BY <1>1, <2>1, <3>1, Types, SchedTypes, SemTypes
  <2>4. /\ pcb' \in [Slots -> PCBs]
        /\ pcb'[par].parentID = pcb[par].parentID
        /\ pcb'[par].numwait = 0
        /\ pcb'[par].joinID = pcb[par].joinID
        /\ pcb'[par].joinExitcode = pcb[par].joinExitcode
        /\ pcb'[par].isExit = pcb[par].isExit
        /\ pcb'[par].joinsem = pcb[par].joinsem
        /\ pcb'[par].exitsem.value = 1
        /\ \A r \in Slots : r # par => pcb'[r] = pcb[r]
    <3> DEFINE E == [D EXCEPT ![par].exitsem = VSignal(@)]
    <3>1. /\ E \in [Slots -> PCBs]
          /\ E[par].parentID = D[par].parentID
          /\ E[par].numwait = D[par].numwait
          /\ E[par].joinID = D[par].joinID
          /\ E[par].joinExitcode = D[par].joinExitcode
          /\ E[par].isExit = D[par].isExit
          /\ E[par].joinsem = D[par].joinsem
          /\ E[par].exitsem.value = D[par].exitsem.value + 1
          /\ \A r \in Slots : r # par => E[r] = D[r]
      BY <1>1, <1>2, SignalFields
    <3>2. pcb' = E
      BY <2>1
    <3> HIDE DEF E
    <3>3. E[par].exitsem.value = 1 /\ E[par].numwait = 0
      BY <1>2, <2>1, <2>2, <3>1, SMT
    <3>4. \A r \in Slots : r # par => E[r] = pcb[r]
      BY <1>2, <3>1
    <3> QED BY <1>2, <3>1, <3>2, <3>3, <3>4
  <2>40. \A q \in Slots : /\ pcb'[q].parentID = pcb[q].parentID
                          /\ pcb'[q].joinID = pcb[q].joinID
                          /\ pcb'[q].joinExitcode = pcb[q].joinExitcode
                          /\ pcb'[q].isExit = pcb[q].isExit
                          /\ pcb'[q].joinsem = pcb[q].joinsem
    BY <2>4
  <2>5. /\ pc' \in [Slots -> Labels] /\ pc'[p] = "exit_free"
        /\ \A q \in Slots : q # p => pc'[q] = pc[q]
    BY <2>1, Types DEF Labels
  <2>6. TypeOK'
    BY <2>1, <2>3, <2>4, <2>5 DEF TableInv, TypeOK, SchedType
  <2>7. SlotsAgree'
    BY <2>1 DEF TableInv, SlotsAgree
  <2>8. ExecInv'
    BY <2>1, <2>40, <2>5, ExecKept DEF InExec
  <2>9. RootInv'
    BY <1>1, <2>1, <2>4, <2>5, ConstTypes, SMT DEF TableInv, RootInv
  <2>10. ExitInv'
    BY <1>1, <2>2, <2>4, <2>5, SMT DEF TableInv, ExitInv
  <2>11. ParentOutlivesChild'
    BY <2>1, <2>4, <2>5, SMT DEF TableInv, ParentOutlivesChild, Pending
  <2>12. NumWaitCounts'
    <3>1. \A q \in Slots : Pending(q)' = Pending(q) \ {p}
      <4>1. \A q \in Slots : q # p =>
              pc'[q] = pc[q] /\ pcb'[q].parentID = pcb[q].parentID
        BY <2>40, <2>5
      <4> QED BY <2>5, <4>1, PendingWithout
    <3>2. ASSUME NEW q \in Slots, q # par
          PROVE  Counted(q)'
      <4>1. Pending(q)' = Pending(q)
        BY <3>1, <3>2 DEF Pending, par
      <4>2. pc'[q] \in Counting <=> pc[q] \in Counting
        BY <2>5 DEF Counting
      <4> QED BY <2>4, <3>2, <4>1, <4>2 DEF TableInv, NumWaitCounts, Counted, Counting
    <3>3. ASSUME NEW q \in Slots, q = par
          PROVE  Counted(q)'
      <4>1. pc'[q] \notin Counting /\ pc[par] \notin Counting
        BY <1>1, <2>2, <2>5, <3>3 DEF Counting
      <4>2. Cardinality(Pending(q)') = 0
        BY <1>5, <2>1, <3>1, <3>3, <4>1
      <4> QED BY <2>4, <3>3, <4>1, <4>2 DEF Counted
    <3> QED BY <3>2, <3>3 DEF NumWaitCounts
  <2>13. JoinInv'
    <3>1. \A q \in Slots : Unreleased(q)' = Unreleased(q) \ {p}
      BY <2>4, <2>5, SMT DEF Unreleased
    <3>2. ASSUME NEW q \in Slots PROVE JoinState(q)'
      <4>1. JoinState(q)
        BY DEF TableInv, JoinInv
      <4>2. CASE q = p
        BY <2>40, <2>5, <4>1, <4>2 DEF JoinState
      <4>3. CASE q # p
        <5>1. \A c \in Slots : c \in Unreleased(q) \/ exited'[q][c] = exited[q][c]
          <6>1. CASE pc[p] = "exit_dec"
            BY <6>1
          <6>2. CASE pc[p] # "exit_dec"
            <7>1. q = par => p \in Unreleased(q)
              BY <6>2 DEF Unreleased, par
            <7> QED BY <7>1 DEF par
          <6> QED BY <6>1, <6>2
        <5>2. pc'[q] = pc[q] /\ call'[q] = call[q]
          BY <2>1, <2>5, <4>3
        <5> QED BY <2>40, <3>1, <4>1, <5>1, <5>2, JoinStateKept
      <4> QED BY <4>2, <4>3
    <3>3. ASSUME NEW c \in Slots \ {Root} PROVE CodeKept(c)'
      <4>1. SUFFICES ASSUME pc[c] \in {"exit_P", "exit_rel"}, c # p
                     PROVE  CodeKept(c)'
        BY <2>5 DEF CodeKept
      <4>2. pcb[c].parentID \in Slots /\ CodeKept(c)
        BY <4>1 DEF TableInv, ParentOutlivesChild, JoinInv
      <4>3. exited'[pcb[c].parentID][c] = exited[pcb[c].parentID][c]
        BY <4>1, <4>2
      <4>4. pc'[c] = pc[c] /\ call'[c] = call[c]
        BY <2>1, <2>5, <4>1
      <4> QED BY <2>40, <4>2, <4>3, <4>4, CodeKeptKept
    <3> QED BY <3>2, <3>3 DEF JoinInv
  <2> QED BY <2>6, <2>7, <2>8, <2>9, <2>10, <2>11, <2>12, <2>13 DEF TableInv
<1> QED BY <1>6, <1>7

-----------------------------------------------------------------------------
(* Exit: ExitWait, JoinRelease, and what follows.                          *)

\* JoinRelease, or Halt, and what follows.
LEMMA ExitReleasedInv ==
  ASSUME CountLaws, TableInv, NEW p \in Slots, NEW ec \in Codes, machine = "run",
         pc[p] \in {"user", "exit_rel"}, Pending(p) = {},
         ExitReleased(p, pcb, ec), ret' \in [Slots -> Rets], UNCHANGED bmsem,
         p = Root => exited' = exited,
         p # Root => exited' = [exited EXCEPT ![pcb[p].parentID][p] = ec]
  PROVE  TableInv'
<1> DEFINE par == pcb[p].parentID
<1>0. exited \in [Slots -> [Slots -> Codes \cup {NoCode}]]
  BY DEF TableInv, TypeOK
<1>1. CASE p = Root
  <2>1. par = NoPid
    BY <1>1 DEF TableInv, RootInv
  <2>2. UNCHANGED <<current, ready, bm, ptr, pcb, pc, call, bmsem, exited>> /\ machine' = "halted"
    BY <1>1, <2>1 DEF ExitReleased, schedVars
  <2>3. TypeOK'
    BY <2>2 DEF TableInv, TypeOK
  <2>4. SlotsAgree' /\ ExecInv' /\ RootInv' /\ ExitInv'
    BY <2>2 DEF TableInv, SlotsAgree, ExecInv, RootInv, ExitInv
  <2>5. ParentOutlivesChild'
    BY <1>1, <2>2 DEF TableInv, ParentOutlivesChild, Pending
  <2>6. NumWaitCounts' /\ JoinInv'
    BY <2>2, SameWaits DEF TableInv
  <2> QED BY <2>3, <2>4, <2>5, <2>6 DEF TableInv
<1>2. CASE p # Root
  <2>1. /\ par \in Slots /\ par # p /\ ptr[par] = "live" /\ par # NoPid
        /\ pc[par] \notin {"none", "exit_rel", "exit_dec", "exit_free"}
        /\ p \in Unreleased(par)
    <3>1. par \in Slots /\ ptr[par] = "live"
          /\ pc[par] \notin {"none", "exit_rel", "exit_dec", "exit_free"}
      BY <1>2 DEF TableInv, ParentOutlivesChild
    <3>2. p \in Unreleased(par) /\ p \in Pending(par)
      BY DEF Unreleased, Pending
    <3> QED BY <3>1, <3>2, ConstTypes
  <2> HIDE DEF par
  <2>2. /\ exited' \in [Slots -> [Slots -> Codes \cup {NoCode}]]
        /\ \A q, c \in Slots : q # par \/ c # p => exited'[q][c] = exited[q][c]
        /\ exited'[par][p] = ec
    <3>1. exited' = [exited EXCEPT ![par][p] = ec]
      BY <1>2 DEF par
    <3> QED BY <1>0, <2>1, <3>1
  <2>3. CASE pcb[par].joinID # p
    <3>1. ExitCounted(p, pcb)
      BY <2>1, <2>3 DEF ExitReleased, par
    <3> QED BY <1>2, <2>2, <3>1, ExitCountedInv DEF par
  <2>4. CASE pcb[par].joinID = p
    <3> DEFINE s == VSignal(pcb[par].joinsem)
    <3>1. /\ pcb' = [pcb EXCEPT ![par].joinID = NoPid, ![par].joinExitcode = ec,
                                ![par].joinsem = VSignal(@)]
          /\ Continue(VWoken(pcb[par].joinsem))
          /\ pc' = [pc EXCEPT ![p] = "exit_dec"]
          /\ call' = [call EXCEPT ![p].code = ec]
          /\ UNCHANGED <<machine, bm, ptr>>
      BY <2>1, <2>4 DEF ExitReleased, par, Goto
    <3>2. /\ pc[par] = "join_P" /\ call[par].id = p
          /\ pcb[par].joinsem.value = 0 /\ pcb[par].joinsem \in Sem
      <4>1. JoinState(par) /\ pcb[par].joinsem \in Sem
        BY <2>1, Types DEF TableInv, JoinInv, PCBs
      <4> QED BY <2>1, <2>4, <4>1, ConstTypes, SMT DEF JoinState, Sem
    <3>3. s \in Sem /\ s.value = 1
      <4>1. s \in Sem
        BY <3>2, SemTypes
      <4>2. s.value = pcb[par].joinsem.value + 1
        BY DEF VSignal
      <4> QED BY <3>2, <4>1, <4>2, SMT
    <3>4. SchedType'
      BY <2>1, <3>1, <3>2, Types, SchedTypes, SemTypes
    <3> HIDE DEF s
    <3>5. /\ pcb' \in [Slots -> PCBs]
          /\ pcb'[par].parentID = pcb[par].parentID
          /\ pcb'[par].numwait = pcb[par].numwait
          /\ pcb'[par].joinID = NoPid
          /\ pcb'[par].joinExitcode = ec
          /\ pcb'[par].isExit = pcb[par].isExit
          /\ pcb'[par].exitsem = pcb[par].exitsem
          /\ pcb'[par].joinsem = s
          /\ \A q \in Slots : q # par => pcb'[q] = pcb[q]
      <4>1. pcb' = [pcb EXCEPT ![par].joinID = NoPid, ![par].joinExitcode = ec,
                               ![par].joinsem = s]
        BY <2>1, <3>1, Types DEF s
      <4>2. pcb[par] \in PCBs /\ ec \in Nat /\ pcb \in [Slots -> PCBs]
        BY <2>1, Types, ProcAssumption
      <4> QED BY <2>1, <3>3, <4>1, <4>2 DEF PCBs
    <3>6. /\ pc' \in [Slots -> Labels] /\ pc'[p] = "exit_dec"
          /\ \A q \in Slots : q # p => pc'[q] = pc[q]
      BY <3>1, Types DEF Labels
    <3>7. /\ call' \in [Slots -> Calls]
          /\ \A q \in Slots : call'[q].id = call[q].id /\ call'[q].file = call[q].file
          /\ \A q \in Slots : q # p => call'[q] = call[q]
      <4>1. call \in [Slots -> Calls] /\ ec \in Nat
        BY Types, ProcAssumption
      <4> QED BY <3>1, <4>1, SMT DEF Calls
    <3>8. TypeOK'
      BY <2>2, <3>1, <3>4, <3>5, <3>6, <3>7 DEF TableInv, TypeOK, SchedType
    <3>9. SlotsAgree'
      BY <3>1 DEF TableInv, SlotsAgree
    <3>50. \A q \in Slots : /\ pcb'[q].parentID = pcb[q].parentID
                            /\ pcb'[q].numwait = pcb[q].numwait
                            /\ pcb'[q].isExit = pcb[q].isExit
                            /\ pcb'[q].exitsem = pcb[q].exitsem
      BY <3>5
    <3>10. ExecInv'
      BY <3>1, <3>50, <3>6, <3>7, ExecKept, ZenonT(60) DEF InExec
    <3>11. RootInv'
      BY <1>2, <3>1, <3>50, <3>6, ConstTypes DEF TableInv, RootInv
    <3>12. ExitInv'
      BY <3>50, <3>6, SMT DEF TableInv, ExitInv
    <3>13. ParentOutlivesChild'
      <4>1. \A c \in Slots : pc[c] \notin {"none", "exit_free"} => pcb[c].parentID # p
        BY DEF Pending
      <4>2. ASSUME NEW c \in Slots, pc'[c] \notin {"none", "exit_free"}, c # Root
            PROVE  LET par2 == pcb[c].parentID
                   IN  /\ par2 \in Slots
                       /\ ptr[par2] = "live"
                       /\ pc'[par2] \notin {"none", "exit_rel", "exit_dec", "exit_free"}
        <5>1. pc[c] \notin {"none", "exit_free"}
          BY <3>6, <4>2
        <5> QED BY <3>6, <4>1, <4>2, <5>1 DEF TableInv, ParentOutlivesChild
      <4> QED BY <3>1, <3>50, <4>2, ZenonT(60) DEF ParentOutlivesChild
    <3>14. NumWaitCounts'
      <4>1. \A q \in Slots : Pending(q)' = Pending(q)
        BY <3>50, <3>6 DEF Pending
      <4> QED BY <4>1, <3>50, <3>6, SameCount DEF TableInv, Counting
    <3>15. JoinInv'
      <4>1. \A q \in Slots : Unreleased(q)' = Unreleased(q) \ {p}
        BY <3>50, <3>6 DEF Unreleased
      <4>2. ASSUME NEW q \in Slots, q = par PROVE JoinState(q)'
        BY <2>1, <2>2, <3>2, <3>3, <3>5, <3>6, <3>7, <4>1, <4>2, SMT DEF JoinState
      <4>3. ASSUME NEW q \in Slots, q # par PROVE JoinState(q)'
        <5>1. JoinState(q) /\ pcb'[q] = pcb[q]
          BY <3>5, <4>3 DEF TableInv, JoinInv
        <5>2. CASE q = p
          BY <3>6, <5>1, <5>2 DEF JoinState
        <5>3. CASE q # p
          BY <2>2, <3>6, <3>7, <4>1, <4>3, <5>1, <5>3, SMT DEF JoinState
        <5> QED BY <5>2, <5>3
      <4>4. ASSUME NEW c \in Slots \ {Root} PROVE CodeKept(c)'
        <5>1. SUFFICES ASSUME pc[c] \in {"exit_P", "exit_rel"}, c # p
                       PROVE  CodeKept(c)'
          BY <3>6 DEF CodeKept
        <5>2. pcb[c].parentID \in Slots
          BY <5>1 DEF TableInv, ParentOutlivesChild
        <5>3. exited'[pcb[c].parentID][c] = exited[pcb[c].parentID][c]
          BY <2>2, <5>1, <5>2
        <5> QED BY <3>50, <3>6, <3>7, <5>1, <5>3 DEF TableInv, JoinInv, CodeKept
      <4> QED BY <4>2, <4>3, <4>4 DEF JoinInv
    <3> QED BY <3>8, <3>9, <3>10, <3>11, <3>12, <3>13, <3>14, <3>15 DEF TableInv
  <2> QED BY <2>3, <2>4
<1> QED BY <1>1, <1>2

\* Steps that stay between ExitWait's entry and its return.
LEMMA ExitWaitInv ==
  ASSUME TableInv, TypeOK', NEW p \in Slots,
         pc[p] \in {"user", "exit_P"}, pc'[p] \in {"exit_P", "exit_rel"},
         pc'[p] = "exit_rel" => Pending(p) = {} /\ pcb'[p].exitsem.value = 0,
         pc'[p] = "exit_P" => pcb'[p].isExit
                              /\ pcb'[p].exitsem.value = pcb[p].exitsem.value,
         \A q \in Slots : q # p => pc'[q] = pc[q] /\ pcb'[q] = pcb[q] /\ call'[q] = call[q],
         pcb'[p].parentID = pcb[p].parentID,
         pcb'[p].numwait = pcb[p].numwait,
         pcb'[p].joinID = pcb[p].joinID,
         pcb'[p].joinExitcode = pcb[p].joinExitcode,
         pcb'[p].joinsem = pcb[p].joinsem,
         UNCHANGED <<machine, bm, ptr, bmsem>>,
         \A q, c \in Slots : q # pcb[p].parentID \/ c # p => exited'[q][c] = exited[q][c],
         p # Root => call'[p].code \in Codes
                     /\ exited'[pcb[p].parentID][p] = call'[p].code
  PROVE  TableInv'
<1>1. SlotsAgree'
  BY DEF TableInv, SlotsAgree
<1>2. ExecInv'
  BY ExecKept DEF InExec
<1>3. RootInv'
  <2>1. RootInv
    BY DEF TableInv
  <2>2. \A q \in Slots :
          /\ pcb'[q].parentID = pcb[q].parentID
          /\ pc'[q] = "none" <=> pc[q] = "none"
          /\ pc'[q] \in {"exit_dec", "exit_free"} => pc[q] \in {"exit_dec", "exit_free"}
    OBVIOUS
  <2>3. UNCHANGED <<machine, ptr>>
    OBVIOUS
  <2> QED BY <2>1, <2>2, <2>3, ConstTypes, SMT DEF RootInv
<1>4. ExitInv'
  BY SMT DEF TableInv, ExitInv
<1>5. ParentOutlivesChild'
  <2>1. ASSUME NEW c \in Slots, pc'[c] \notin {"none", "exit_free"}, c # Root
        PROVE  LET par == pcb[c].parentID
               IN  /\ par \in Slots
                   /\ ptr[par] = "live"
                   /\ pc'[par] \notin {"none", "exit_rel", "exit_dec", "exit_free"}
                   /\ par = Root => machine # "halted"
    <3>1. pc[c] \notin {"none", "exit_free"} /\ (pc'[p] = "exit_rel" => pcb[c].parentID # p)
      BY <2>1 DEF Pending
    <3> QED BY <2>1, <3>1 DEF TableInv, ParentOutlivesChild
  <2>2. /\ \A c \in Slots : pcb'[c].parentID = pcb[c].parentID
        /\ UNCHANGED <<machine, ptr>>
    OBVIOUS
  <2> QED BY ONLY <2>1, <2>2 DEF ParentOutlivesChild
<1>6. NumWaitCounts'
  <2>1. \A q \in Slots : Pending(q)' = Pending(q)
    BY SMT DEF Pending
  <2> QED BY <2>1, SameCount DEF TableInv, Counting
<1>7. JoinInv'
  <2>1. \A q \in Slots : Unreleased(q)' = Unreleased(q)
    <3>1. \A c \in Slots : pcb'[c].parentID = pcb[c].parentID
      OBVIOUS
    <3>2. \A c \in Slots : pc'[c] \in {"none", "exit_dec", "exit_free"}
                            <=> pc[c] \in {"none", "exit_dec", "exit_free"}
      OBVIOUS
    <3> QED BY <3>1, <3>2, UnreleasedKept
  <2>2. JoinState(p)'
    BY DEF TableInv, JoinInv, JoinState
  <2>3. ASSUME NEW q \in Slots, q # p PROVE JoinState(q)'
    <3>1. q = pcb[p].parentID => p \in Unreleased(q)
      BY DEF Unreleased
    <3>2. JoinState(q)
      BY DEF TableInv, JoinInv
    <3>3. \A c \in Slots : c \in Unreleased(q) \/ exited'[q][c] = exited[q][c]
      BY <3>1
    <3> QED BY <2>1, <2>3, <3>2, <3>3, JoinStateKept
  <2>4. ASSUME NEW c \in Slots \ {Root} PROVE CodeKept(c)'
    <3>1. CASE c = p
      BY <3>1 DEF CodeKept
    <3>2. CASE c # p /\ pc[c] \in {"exit_P", "exit_rel"}
      <4>1. pcb[c].parentID \in Slots /\ CodeKept(c)
        BY <3>2 DEF TableInv, ParentOutlivesChild, JoinInv
      <4> QED BY <3>2, <4>1, CodeKeptKept, SMT
    <3>3. CASE c # p /\ pc[c] \notin {"exit_P", "exit_rel"}
      BY <3>3 DEF CodeKept
    <3> QED BY <3>1, <3>2, <3>3
  <2> QED BY <2>2, <2>3, <2>4 DEF JoinInv
<1> QED BY <1>1, <1>2, <1>3, <1>4, <1>5, <1>6, <1>7, ZenonT(30) DEF TableInv

\* The fields of a PCB after a turn of the loop in exitsem->P().
LEMMA ExitsemFields ==
  ASSUME NEW P \in [Slots -> PCBs], NEW p \in Slots, NEW s \in Sem
  PROVE  LET Q == [P EXCEPT ![p].exitsem = s]
         IN  /\ Q \in [Slots -> PCBs]
             /\ Q[p].exitsem = s
             /\ Q[p].parentID = P[p].parentID
             /\ Q[p].numwait = P[p].numwait
             /\ Q[p].joinID = P[p].joinID
             /\ Q[p].joinExitcode = P[p].joinExitcode
             /\ Q[p].isExit = P[p].isExit
             /\ Q[p].joinsem = P[p].joinsem
             /\ \A q \in Slots : q # p => Q[q] = P[q]
<1>1. P[p] \in PCBs
  OBVIOUS
<1> QED BY <1>1 DEF PCBs

\* A woken process tests exitsem again.
LEMMA ExitPInv ==
  ASSUME CountLaws, TableInv, NEW p \in Slots, ExitP(p)
  PROVE  TableInv'
<1> DEFINE s == pcb[p].exitsem
<1>1. /\ pc[p] = "exit_P"
      /\ \/ s.value > 0 /\ pcb' = [pcb EXCEPT ![p].exitsem = PTake(@)]
            /\ pc' = [pc EXCEPT ![p] = "exit_rel"] /\ Continue(<<>>)
         \/ pcb' = [pcb EXCEPT ![p].exitsem = PQueue(@, p)]
            /\ pc' = [pc EXCEPT ![p] = "exit_P"] /\ Sleep
      /\ UNCHANGED <<machine, bm, ptr, bmsem, call, ret, exited>>
  BY DEF ExitP, ExitsemP, Goto
<1>2. SchedType'
  BY <1>1, Types, SchedTypes
<1>3. s \in Sem /\ pcb \in [Slots -> PCBs] /\ pcb[p] \in PCBs /\ pc \in [Slots -> Labels]
  BY Types DEF PCBs
<1>4. /\ s.value > 0 => PTake(s) \in Sem /\ PTake(s).value = s.value - 1
      /\ PQueue(s, p) \in Sem /\ PQueue(s, p).value = s.value
  BY <1>3, SemTypes DEF PTake, PQueue, Sem
<1>5. PICK t \in Sem : /\ pcb' = [pcb EXCEPT ![p].exitsem = t]
                       /\ \/ /\ s.value > 0 /\ t.value = s.value - 1
                             /\ pc' = [pc EXCEPT ![p] = "exit_rel"]
                          \/ /\ t.value = s.value
                             /\ pc' = [pc EXCEPT ![p] = "exit_P"]
  BY <1>1, <1>3, <1>4
<1>6. /\ pcb' \in [Slots -> PCBs]
      /\ pcb'[p].exitsem = t
      /\ pcb'[p].parentID = pcb[p].parentID
      /\ pcb'[p].numwait = pcb[p].numwait
      /\ pcb'[p].joinID = pcb[p].joinID
      /\ pcb'[p].joinExitcode = pcb[p].joinExitcode
      /\ pcb'[p].isExit = pcb[p].isExit
      /\ pcb'[p].joinsem = pcb[p].joinsem
      /\ \A q \in Slots : q # p => pcb'[q] = pcb[q]
  BY <1>3, <1>5, ExitsemFields, SMT
<1>7. /\ pc' \in [Slots -> Labels] /\ \A q \in Slots : q # p => pc'[q] = pc[q]
      /\ pc'[p] \in {"exit_P", "exit_rel"}
      /\ pc'[p] = "exit_rel" => s.value > 0 /\ t.value = s.value - 1
      /\ pc'[p] = "exit_P" => t.value = s.value
  BY <1>3, <1>5 DEF Labels
<1>8. TypeOK'
  BY <1>1, <1>2, <1>6, <1>7 DEF TableInv, TypeOK, SchedType
<1>9. pc'[p] = "exit_rel" => Pending(p) = {} /\ t.value = 0
  <2>1. SUFFICES ASSUME pc'[p] = "exit_rel" PROVE Pending(p) = {} /\ t.value = 0
    OBVIOUS
  <2>2. s.value = 1 /\ pcb[p].numwait = 0
    BY <1>7, <2>1 DEF TableInv, ExitInv
  <2> QED BY <1>1, <1>7, <2>1, <2>2, NoChild, SMT
<1>10. pcb[p].isExit /\ (p # Root => CodeKept(p))
  BY <1>1 DEF TableInv, ExitInv, JoinInv
<1>11. p # Root => call'[p].code \in Codes /\ exited'[pcb[p].parentID][p] = call'[p].code
  BY <1>1, <1>10 DEF CodeKept
<1> HIDE DEF s
<1> QED BY <1>1, <1>6, <1>7, <1>8, <1>9, <1>10, <1>11, ExitWaitInv DEF s

\* From the return of exitsem->P().
LEMMA ExitRelInv ==
  ASSUME CountLaws, TableInv, NEW p \in Slots, ExitRel(p)
  PROVE  TableInv'
<1>1. /\ pc[p] = "exit_rel" /\ machine = "run"
      /\ ExitReleased(p, pcb, call[p].code)
      /\ UNCHANGED <<bmsem, ret, exited>>
  BY DEF ExitRel, Running
<1>2. CASE p # Root
  <2>1. /\ call[p].code \in Codes
        /\ exited[pcb[p].parentID][p] = call[p].code
        /\ pcb[p].parentID \in Slots
    BY <1>1, <1>2 DEF TableInv, JoinInv, CodeKept, ParentOutlivesChild
  <2>2. exited' = [exited EXCEPT ![pcb[p].parentID][p] = call[p].code]
    <3>1. exited \in [Slots -> [Slots -> Codes \cup {NoCode}]]
      BY DEF TableInv, TypeOK
    <3> QED BY <1>1, <2>1, <3>1
  <2> QED BY <1>1, <1>2, <2>1, <2>2, NoChild, Types, ExitReleasedInv
<1>3. CASE p = Root
  <2>1. pcb[p].parentID = NoPid
    BY <1>1, <1>3 DEF TableInv, RootInv
  <2>2. UNCHANGED <<current, ready, bm, ptr, pcb, pc, call, bmsem, ret, exited>>
        /\ machine' = "halted"
    BY <1>1, <2>1 DEF ExitReleased, schedVars
  <2>3. TypeOK' /\ SlotsAgree' /\ ExecInv' /\ RootInv' /\ ExitInv'
    BY <2>2, SMT DEF TableInv, TypeOK, SlotsAgree, ExecInv, RootInv, ExitInv
  <2>5. ParentOutlivesChild'
    <3>1. Pending(Root) = {}
      BY <1>1, <1>3, NoChild
    <3>2. ParentOutlivesChild
      BY DEF TableInv
    <3> QED BY <2>2, <3>1, <3>2 DEF ParentOutlivesChild, Pending
  <2>6. NumWaitCounts' /\ JoinInv'
    BY <2>2, SameWaits DEF TableInv
  <2> QED BY <2>3, <2>5, <2>6 DEF TableInv
<1> QED BY <1>2, <1>3

\* From the return of joinsem->V().
LEMMA ExitDecInv ==
  ASSUME CountLaws, TableInv, NEW p \in Slots, ExitDec(p)
  PROVE  TableInv'
<1>1. /\ pc[p] = "exit_dec"
      /\ ExitCounted(p, pcb)
      /\ UNCHANGED <<bmsem, ret, exited>>
  BY DEF ExitDec
<1>2. p # Root
  BY <1>1 DEF TableInv, RootInv
<1>3. exited \in [Slots -> [Slots -> Codes \cup {NoCode}]]
  BY DEF TableInv, TypeOK
<1> QED BY <1>1, <1>2, <1>3, NoChild, Types, ExitCountedInv

\* The call of Exit.
LEMMA SysExitInv ==
  ASSUME CountLaws, TableInv, NEW p \in Slots, NEW ec \in Codes, SysExit(p, ec)
  PROVE  TableInv'
<1>1. /\ pc[p] = "user" /\ machine = "run"
      /\ RecordExit(p, ec)
      /\ ret' = [ret EXCEPT ![p] = NoRet]
      /\ UNCHANGED bmsem
  BY DEF SysExit, Running
<1>2. ret' \in [Slots -> Rets]
  BY <1>1, Types, FreshTypes
<1>3. exited \in [Slots -> [Slots -> Codes \cup {NoCode}]]
  BY DEF TableInv, TypeOK
<1>4. /\ p = Root => exited' = exited
      /\ p # Root => /\ exited' = [exited EXCEPT ![pcb[p].parentID][p] = ec]
                     /\ pcb[p].parentID \in Slots
  BY <1>1, ConstTypes DEF TableInv, RootInv, ParentOutlivesChild, RecordExit
<1>5. CASE ~(pcb[p].numwait > 0)
  <2>1. ExitReleased(p, pcb, ec)
    BY <1>5 DEF SysExit
  <2> QED BY <1>1, <1>2, <1>4, <1>5, <2>1, NoChild, ExitReleasedInv
<1>6. CASE pcb[p].numwait > 0
  <2> DEFINE P == [pcb EXCEPT ![p].isExit = TRUE]
  <2>1. /\ ExitsemP(p, P)
        /\ call' = [call EXCEPT ![p].code = ec]
        /\ UNCHANGED <<machine, bm, ptr>>
    BY <1>6 DEF SysExit
  <2>2. pcb[p] \in PCBs /\ pcb \in [Slots -> PCBs] /\ pcb[p].exitsem \in Sem
    BY Types DEF PCBs
  <2>3. pcb[p].exitsem.value = 0
    BY <1>1, <2>2, SMT DEF TableInv, ExitInv, Sem
  <2>4. /\ P \in [Slots -> PCBs]
        /\ P[p].exitsem = pcb[p].exitsem
        /\ P[p].isExit = TRUE
        /\ P[p].parentID = pcb[p].parentID
        /\ P[p].numwait = pcb[p].numwait
        /\ P[p].joinID = pcb[p].joinID
        /\ P[p].joinExitcode = pcb[p].joinExitcode
        /\ P[p].joinsem = pcb[p].joinsem
        /\ \A q \in Slots : q # p => P[q] = pcb[q]
    BY <2>2 DEF PCBs
  <2> HIDE DEF P
  <2> DEFINE t == PQueue(pcb[p].exitsem, p)
  <2>5. /\ pcb' = [P EXCEPT ![p].exitsem = t]
        /\ pc' = [pc EXCEPT ![p] = "exit_P"]
        /\ Sleep
    BY <2>1, <2>3, <2>4, SMT DEF ExitsemP, Goto
  <2>6. t \in Sem /\ t.value = 0
    BY <2>2, <2>3, SemTypes DEF PQueue, Sem
  <2> HIDE DEF t
  <2>7. /\ pcb' \in [Slots -> PCBs]
        /\ pcb'[p].exitsem = t
        /\ pcb'[p].parentID = pcb[p].parentID
        /\ pcb'[p].numwait = pcb[p].numwait
        /\ pcb'[p].joinID = pcb[p].joinID
        /\ pcb'[p].joinExitcode = pcb[p].joinExitcode
        /\ pcb'[p].isExit = TRUE
        /\ pcb'[p].joinsem = pcb[p].joinsem
        /\ \A q \in Slots : q # p => pcb'[q] = pcb[q]
    BY <2>4, <2>5, <2>6, ExitsemFields, SMT
  <2>8. /\ pc' \in [Slots -> Labels] /\ pc'[p] = "exit_P"
        /\ \A q \in Slots : q # p => pc'[q] = pc[q]
    BY <2>5, Types DEF Labels
  <2>9. /\ call' \in [Slots -> Calls] /\ call'[p].code = ec
        /\ \A q \in Slots : q # p => call'[q] = call[q]
    <3>1. call \in [Slots -> Calls] /\ ec \in Nat
      BY Types, ProcAssumption
    <3> QED BY <2>1, <3>1 DEF Calls
  <2>10. SchedType'
    BY <2>5, Types, SchedTypes
  <2>11. /\ exited' \in [Slots -> [Slots -> Codes \cup {NoCode}]]
         /\ \A q, c \in Slots : q # pcb[p].parentID \/ c # p => exited'[q][c] = exited[q][c]
         /\ p # Root => exited'[pcb[p].parentID][p] = ec
    BY <1>3, <1>4, SMT
  <2>12. TypeOK'
    BY <1>1, <1>2, <2>1, <2>7, <2>8, <2>9, <2>10, <2>11 DEF TableInv, TypeOK, SchedType
  <2> QED BY <1>1, <2>1, <2>3, <2>6, <2>7, <2>8, <2>9, <2>11, <2>12, ExitWaitInv, SMT
<1> QED BY <1>5, <1>6

-----------------------------------------------------------------------------
(* Exit without a timer.                                                   *)

\* P() on its own joinsem or exitsem: the process waits, or has its permit.
LEMMA OwnWait ==
  ASSUME TableInv, NoTimerInv, NEW p \in Slots, current = p,
         pc[p] \in {"user", "join_P", "exit_P"},
         pc'[p] \in {"join_P", "join_ret", "exit_P", "exit_rel"},
         \A q \in Slots : q # p => pc'[q] = pc[q] /\ call'[q] = call[q] /\ pcb'[q] = pcb[q],
         pcb'[p].parentID = pcb[p].parentID, UNCHANGED <<bm, ptr, bmsem>>,
         \/ pc'[p] \in {"join_P", "exit_P"} /\ Sleep
         \/ Continue(<<>>),
         OwnQueues(p)', Joins(p)', Exits(p)'
  PROVE  NoTimerInv'
<1>1. bmsem.value = 1 /\ \A i \in bm : i \in Slots /\ pc[i] # "none"
  BY OthersRest DEF InExec, TableInv, TypeOK
<1>2. /\ \A q \in Awake : q # p => q \in Awake'
      /\ current' = NoThread => ready' = <<>>
      /\ pc'[p] \in Resting \/ current' = p
  BY ContinueAwake, SleepAwake, Types, ConstTypes DEF Resting
<1>3. Marked'
  BY <1>1 DEF Marked
<1>4. \A q \in Slots : pcb'[q].parentID = pcb[q].parentID
  OBVIOUS
<1>5. \A q \in Slots : Unreleased(q) \subseteq Unreleased(q)'
  BY <1>4 DEF Unreleased
<1>6. ASSUME NEW q \in Slots PROVE OwnQueues(q)' /\ Joins(q)' /\ Exits(q)'
  <2>1. CASE q # p
    <3>1. OwnQueues(q) /\ Joins(q) /\ Exits(q) /\ (q \in Awake => q \in Awake')
      BY <1>2, <2>1 DEF NoTimerInv
    <3> QED BY <1>5, <2>1, <3>1, WaitsKept
  <2> QED BY <2>1
<1>7. \A q \in Slots : pc'[q] \notin {"none", "exit_free"} =>
        pc[q] \notin {"none", "exit_free"} /\ pcb'[q].parentID = pcb[q].parentID
  BY <1>4
<1>8. \A q \in Slots : q # p => pc'[q] = pc[q]
  OBVIOUS
<1>9. pc'[p] \notin Counting /\ pc'[p] \notin {"exec_P", "user"} /\ bmsem'.value = 1
  BY <1>1 DEF Counting
<1> QED BY <1>2, <1>3, <1>6, <1>7, <1>8, <1>9, StepKeeps

\* ExitWait.
LEMMA ExitWaitKeeps ==
  ASSUME TableInv, NoTimerInv, NEW p \in Slots, current = p,
         NEW P \in [Slots -> PCBs], ExitsemP(p, P),
         \/ pc[p] = "exit_P" /\ P = pcb
         \/ pc[p] = "user" /\ pcb[p].numwait # 0 /\ P = [pcb EXCEPT ![p].isExit = TRUE],
         \A q \in Slots : q # p => call'[q] = call[q], UNCHANGED <<bm, ptr, bmsem>>
  PROVE  NoTimerInv'
<1> DEFINE s == pcb[p].exitsem
<1>1. s \in Sem /\ s.value \in Nat /\ pcb[p] \in PCBs /\ pcb \in [Slots -> PCBs]
  BY Types DEF PCBs, Sem
<1>2. /\ P[p].exitsem = s /\ P[p].joinsem = pcb[p].joinsem /\ P[p].numwait = pcb[p].numwait
      /\ P[p].parentID = pcb[p].parentID /\ \A q \in Slots : q # p => P[q] = pcb[q]
  BY <1>1, SMT DEF PCBs
<1>3. Elems(s.queue) \subseteq {p} /\ OwnQueues(p) /\ Exits(p)
  BY DEF NoTimerInv, OwnQueues
<1>4. s.value = 0 => pcb[p].numwait # 0
  BY <1>3, SMT DEF Exits
<1>5. PICK t : /\ pcb' = [P EXCEPT ![p].exitsem = t] /\ Elems(t.queue) \subseteq {p}
               /\ \/ Goto(p, "exit_rel") /\ Continue(<<>>)
                  \/ /\ Goto(p, "exit_P") /\ Sleep
                     /\ s.value = 0 /\ t.value = 0 /\ t.queue # <<>>
  <2>1. CASE s.value > 0
    <3>1. /\ pcb' = [P EXCEPT ![p].exitsem = PTake(s)] /\ Goto(p, "exit_rel") /\ Continue(<<>>)
          /\ Elems(PTake(s).queue) \subseteq {p}
      BY <1>1, <1>2, <1>3, <2>1, WaitOwn DEF ExitsemP
    <3> QED BY <3>1
  <2>2. CASE ~(s.value > 0)
    <3>1. s.value = 0 /\ PQueue(s, p).value = 0 /\ PQueue(s, p).queue # <<>>
          /\ Elems(PQueue(s, p).queue) \subseteq {p}
      <4>1. s.value = 0
        BY <1>1, <2>2, SMT
      <4> QED BY <1>1, <1>3, <4>1, WaitOwn
    <3>2. pcb' = [P EXCEPT ![p].exitsem = PQueue(s, p)] /\ Goto(p, "exit_P") /\ Sleep
      BY <1>2, <2>2 DEF ExitsemP
    <3> QED BY <3>1, <3>2
  <2> QED BY <2>1, <2>2, SMTT(30)
<1>6. /\ pcb'[p].exitsem = t /\ pcb'[p].numwait = pcb[p].numwait
      /\ pcb'[p].parentID = pcb[p].parentID /\ pcb'[p].joinsem = pcb[p].joinsem
      /\ \A q \in Slots : q # p => pcb'[q] = pcb[q]
  <2>1. P[p] \in PCBs
    OBVIOUS
  <2> QED BY <1>2, <1>5, <2>1 DEF PCBs
<1>7. /\ \A q \in Slots : q # p => pc'[q] = pc[q]
      /\ \/ pc'[p] = "exit_rel" /\ Continue(<<>>)
         \/ pc'[p] = "exit_P" /\ Sleep /\ s.value = 0 /\ t.value = 0 /\ t.queue # <<>>
  BY <1>5, Types DEF Goto
<1> HIDE DEF s
<1>8. OwnQueues(p)'
  BY <1>3, <1>5, <1>6 DEF OwnQueues
<1>9. Joins(p)' /\ Exits(p)'
  BY <1>4, <1>6, <1>7, SMT DEF Joins, Exits
<1>10. pc[p] \in {"user", "join_P", "exit_P"}
  OBVIOUS
<1> QED BY <1>6, <1>7, <1>8, <1>9, <1>10, OwnWait

\* A step of Exit after ExitWait.
LEMMA LeaveKeeps ==
  ASSUME TableInv, NoTimerInv, NEW p \in Slots, current = p,
         pc[p] \in {"user", "exit_rel", "exit_dec", "exit_free"},
         pc'[p] \in {"exit_dec", "exit_free", "none"}, pc[p] = "exit_free" => pc'[p] = "none",
         \A q \in Slots : q # p =>
           pc'[q] = pc[q] /\ call'[q] = call[q] /\ pcb'[q].parentID = pcb[q].parentID,
         pcb'[p].parentID = pcb[p].parentID \/ pc'[p] = "none",
         \A q \in Awake : q # p => q \in Awake',
         current' = p \/ pc'[p] = "none", current' = NoThread => ready' = <<>>,
         bm' \subseteq bm, pc'[p] = "none" => p \notin bm', UNCHANGED bmsem,
         OwnQueues(p)', \A q \in Slots \ {p} : OwnQueues(q)' /\ Joins(q)' /\ Exits(q)'
  PROVE  NoTimerInv'
<1>1. bmsem'.value = 1 /\ \A i \in bm : i \in Slots /\ pc[i] # "none"
  BY OthersRest DEF InExec, TableInv, TypeOK
<1>2. Marked'
  BY <1>1 DEF Marked
<1>3. \A q \in Slots : OwnQueues(q)' /\ Joins(q)' /\ Exits(q)'
  BY DEF Joins, Exits
<1>4. \A q \in Slots : pc'[q] \notin {"none", "exit_free"} =>
        pc[q] \notin {"none", "exit_free"} /\ pcb'[q].parentID = pcb[q].parentID
  OBVIOUS
<1>5. /\ \A q \in Slots : q # p => pc'[q] = pc[q]
      /\ pc'[p] \notin {"exec_P", "user"} /\ pc'[p] \notin Counting
      /\ pc'[p] \in Resting \/ current' = p
  BY DEF Counting, Resting
<1> QED BY <1>1, <1>2, <1>3, <1>4, <1>5, StepKeeps

\* A process that waits while another one, which it does not join, leaves.
LEMMA OthersWait ==
  ASSUME NoTimerInv, NEW p \in Slots, NEW q \in Slots, q # p,
         \A c \in Slots : c # p => pc'[c] = pc[c] /\ pcb'[c].parentID = pcb[c].parentID,
         call'[q] = call[q], q \in Awake => q \in Awake',
         pcb'[q].joinsem = pcb[q].joinsem, pcb'[q].joinID = pcb[q].joinID,
         p \in Unreleased(q) => pcb[q].joinID # p
  PROVE  Joins(q)'
<1>1. \A c \in Unreleased(q) : c # p => c \in Unreleased(q)'
  BY DEF Unreleased
<1>2. Joins(q) /\ pc'[q] = pc[q]
  BY DEF NoTimerInv
<1> QED BY <1>1, <1>2 DEF Joins

\* The slot is freed; of the others at most the parent is touched.
LEMMA FreedKeeps ==
  ASSUME TableInv, NoTimerInv, NEW p \in Slots, current = p,
         pc[p] \in {"user", "exit_rel", "exit_dec", "exit_free"},
         NEW P \in [Slots -> PCBs], ExitFreed(p, P), UNCHANGED bmsem,
         \A q \in Slots : q # p =>
           /\ P[q].joinsem = pcb[q].joinsem /\ P[q].exitsem = pcb[q].exitsem
           /\ P[q].joinID = pcb[q].joinID /\ P[q].parentID = pcb[q].parentID
           /\ pc[q] = "exit_P" => P[q].numwait = pcb[q].numwait \/ P[q].numwait # 0
           /\ p \in Unreleased(q) => pcb[q].joinID # p
  PROVE  NoTimerInv'
<1>1. /\ pc'[p] = "none" /\ \A q \in Slots : q # p => pc'[q] = pc[q] /\ call'[q] = call[q]
      /\ bm' = bm \ {p} /\ Sleep
  BY Types DEF ExitFreed, Goto
<1>2. pcb'[p] = NewPCB /\ \A q \in Slots : q # p => pcb'[q] = P[q]
  BY DEF ExitFreed
<1>3. /\ \A q \in Awake : q # p => q \in Awake'
      /\ current' = NoThread => ready' = <<>>
  BY <1>1, SleepAwake, Types
<1>4. OwnQueues(p)'
  BY <1>2, FreshQueues DEF OwnQueues
<1>5. ASSUME NEW q \in Slots \ {p} PROVE OwnQueues(q)' /\ Joins(q)' /\ Exits(q)'
  <2>1. /\ pcb'[q].joinsem = pcb[q].joinsem /\ pcb'[q].exitsem = pcb[q].exitsem
        /\ pcb'[q].joinID = pcb[q].joinID
        /\ pc[q] = "exit_P" => pcb'[q].numwait = pcb[q].numwait \/ pcb'[q].numwait # 0
        /\ p \in Unreleased(q) => pcb[q].joinID # p
    BY <1>2
  <2>2. pc'[q] = pc[q] /\ call'[q] = call[q] /\ (q \in Awake => q \in Awake') /\ q # p
        /\ OwnQueues(q) /\ Exits(q)
    BY <1>1, <1>3 DEF NoTimerInv
  <2>3. \A c \in Slots : c # p => pc'[c] = pc[c] /\ pcb'[c].parentID = pcb[c].parentID
    BY <1>1, <1>2
  <2>4. Joins(q)'
    BY <2>1, <2>2, <2>3, OthersWait
  <2>5. OwnQueues(q)' /\ Exits(q)'
    BY <2>1, <2>2 DEF OwnQueues, Exits
  <2> QED BY <2>4, <2>5
<1>6. \A q \in Slots : q # p => pc'[q] = pc[q] /\ call'[q] = call[q]
                                /\ pcb'[q].parentID = pcb[q].parentID
  BY <1>1, <1>2
<1>7. bm' \subseteq bm /\ p \notin bm'
  BY <1>1
<1> QED BY <1>1, <1>3, <1>4, <1>5, <1>6, <1>7, LeaveKeeps

\* DecNumWait and ExitRelease.
LEMMA CountedKeeps ==
  ASSUME TableInv, NoTimerInv, NEW p \in Slots, p # Root, current = p,
         pc[p] \in {"user", "exit_rel", "exit_dec"}, Pending(p) = {},
         ExitCounted(p, pcb), UNCHANGED bmsem,
         pc[p] = "exit_dec" \/ pcb[pcb[p].parentID].joinID # p
  PROVE  NoTimerInv'
<1> DEFINE par == pcb[p].parentID
           D == [pcb EXCEPT ![par].numwait = @ - 1]
           s == pcb[par].exitsem
           t == VSignal(s)
<1>1. /\ p \notin Unreleased(par) \/ pcb[par].joinID # p
      /\ \A q \in Slots : q # par => p \notin Unreleased(q)
  <2>1. par \in Slots /\ p \in Pending(par)
    BY DEF TableInv, ParentOutlivesChild, Pending
  <2> QED BY <2>1 DEF Unreleased
<1>2. par \in Slots /\ par # p
  <2>1. par \in Slots /\ p \in Pending(par)
    BY DEF TableInv, ParentOutlivesChild, Pending
  <2> QED BY <2>1
<1>3. \/ /\ D[par].numwait = 0 /\ D[par].isExit
         /\ pcb' = [D EXCEPT ![par].exitsem = VSignal(@)]
         /\ Continue(VWoken(D[par].exitsem))
         /\ pc' = [pc EXCEPT ![p] = "exit_free"]
         /\ UNCHANGED <<bm, ptr, call>>
      \/ /\ ~(D[par].numwait = 0 /\ D[par].isExit)
         /\ ExitFreed(p, D)
  BY DEF ExitCounted, Goto
<1> HIDE DEF par
<1>4. /\ D \in [Slots -> PCBs] /\ D[par] \in PCBs
      /\ D[par].parentID = pcb[par].parentID /\ D[par].joinID = pcb[par].joinID
      /\ D[par].isExit = pcb[par].isExit
      /\ D[par].joinsem = pcb[par].joinsem /\ D[par].exitsem = s
      /\ \A q \in Slots : q # par => D[q] = pcb[q]
  BY <1>2, Types, DecFields
<1> HIDE DEF D
<1>5. CASE ~(D[par].numwait = 0 /\ D[par].isExit) /\ ExitFreed(p, D)
  <2>1. pc[par] = "exit_P" => D[par].numwait # 0
    BY <1>2, <1>4, <1>5 DEF TableInv, ExitInv
  <2>2. ASSUME NEW q \in Slots, q # p
        PROVE  /\ D[q].joinsem = pcb[q].joinsem /\ D[q].exitsem = pcb[q].exitsem
               /\ D[q].joinID = pcb[q].joinID /\ D[q].parentID = pcb[q].parentID
               /\ pc[q] = "exit_P" => D[q].numwait = pcb[q].numwait \/ D[q].numwait # 0
               /\ p \in Unreleased(q) => pcb[q].joinID # p
    BY <1>1, <1>4, <2>1
  <2>3. pc[p] \in {"user", "exit_rel", "exit_dec", "exit_free"}
    OBVIOUS
  <2> QED BY <1>4, <1>5, <2>2, <2>3, FreedKeeps
<1>6. CASE ~(~(D[par].numwait = 0 /\ D[par].isExit) /\ ExitFreed(p, D))
  <2>1. s \in Sem /\ OwnQueues(par) /\ Elems(s.queue) \subseteq {par}
    BY <1>2, Types DEF NoTimerInv, OwnQueues, PCBs
  <2>2. /\ D[par].isExit /\ Continue(VWoken(s)) /\ pc' = [pc EXCEPT ![p] = "exit_free"]
        /\ UNCHANGED <<bm, call>> /\ pcb' = [D EXCEPT ![par].exitsem = t]
    BY <1>2, <1>3, <1>4, <1>6
  <2>3. /\ Elems(t.queue) \subseteq {par} /\ s.value \in Nat /\ t.value = s.value + 1
        /\ Awake \subseteq Awake' /\ current' = current
        /\ s.queue # <<>> => par \in Awake'
    BY <1>2, <2>1, <2>2, Types, SignalOwn
  <2> HIDE DEF t
  <2>4. /\ pcb'[par].exitsem = t /\ pcb'[par].joinsem = pcb[par].joinsem
        /\ pcb'[par].joinID = pcb[par].joinID /\ pcb'[par].parentID = pcb[par].parentID
        /\ \A q \in Slots : q # par => pcb'[q] = pcb[q]
    BY <1>2, <1>4, <2>2 DEF PCBs
  <2>5. /\ pc'[p] = "exit_free" /\ \A q \in Slots : q # p => pc'[q] = pc[q]
    BY <2>2, Types
  <2>6. ASSUME NEW q \in Slots \ {p} PROVE OwnQueues(q)' /\ Joins(q)' /\ Exits(q)'
    <3>1. OwnQueues(q) /\ Exits(q) /\ q # p /\ pc'[q] = pc[q] /\ (q \in Awake => q \in Awake')
      BY <2>3, <2>5 DEF NoTimerInv
    <3>2. Joins(q)'
      <4>1. \A c \in Slots : c # p => pc'[c] = pc[c] /\ pcb'[c].parentID = pcb[c].parentID
        BY <2>4, <2>5
      <4>2. /\ pcb'[q].joinsem = pcb[q].joinsem /\ pcb'[q].joinID = pcb[q].joinID
            /\ p \in Unreleased(q) => pcb[q].joinID # p
        BY <1>1, <2>4
      <4> QED BY <2>2, <3>1, <4>1, <4>2, OthersWait
    <3>3. CASE q = par
      <4>1. OwnQueues(q)'
        BY <2>3, <2>4, <3>1, <3>3, SMTT(30) DEF OwnQueues
      <4>2. pc[par] = "exit_P" => par \in Awake'
        BY <2>3, <3>1, <3>3 DEF Exits, s
      <4> QED BY <2>3, <2>4, <3>1, <3>2, <3>3, <4>1, <4>2, SMT DEF Exits
    <3>4. CASE q # par
      BY <2>4, <3>1, <3>2, <3>4 DEF OwnQueues, Exits
    <3> QED BY <3>3, <3>4
  <2>7. OwnQueues(p)'
    BY <1>2, <2>4 DEF NoTimerInv, OwnQueues
  <2>8. /\ \A q \in Slots : q # p => pc'[q] = pc[q] /\ call'[q] = call[q]
                                     /\ pcb'[q].parentID = pcb[q].parentID
        /\ pcb'[p].parentID = pcb[p].parentID
    BY <1>2, <2>2, <2>4, <2>5
  <2>9. \A q \in Awake : q # p => q \in Awake'
    BY <2>3
  <2>10. current' # NoThread /\ bm' \subseteq bm
    BY <2>2, <2>3, ConstTypes
  <2> QED BY <2>3, <2>5, <2>6, <2>7, <2>8, <2>9, <2>10, LeaveKeeps
<1> QED BY <1>5, <1>6

=============================================================================
