-------------------------- MODULE ProcTableProofs ---------------------------
(***************************************************************************)
(* The process table keeps its invariant TableInv, for every size of the   *)
(* table and of memory, any executables and exit codes, with and without a *)
(* timer; and it implements the process tree of module ProcTree. In a      *)
(* kernel without a timer PCB::Exec never runs on a deleted PCB, and while *)
(* processes wait in Join or Exit, one of them can run.                    *)
(***************************************************************************)
EXTENDS ProcTableTree, ProcTableCalls

\* A step goes to Zenon unless it names the SMT solver.
USE Zenon

-----------------------------------------------------------------------------
(* Boot, and the steps that only move the CPU.                             *)

\* The start of the first program.
LEMMA BootInv ==
  ASSUME CountLaws, TableInv, NEW f, Boot(f)
  PROVE  TableInv'
<1>1. CASE Stop("aborted")
  BY <1>1, StopInv
<1>2. CASE ~Stop("aborted")
  <2> DEFINE r == [NewPCB EXCEPT !.thread = TRUE, !.file = f, !.space = Pages[f]]
  <2>1. /\ machine = "boot" /\ f \in Files
        /\ machine' \in {"run", "undefined"}
        /\ bm' = {Root}
        /\ ptr' = [ptr EXCEPT ![Root] = "live"]
        /\ pcb' = [pcb EXCEPT ![Root] = r]
        /\ current' = Root
        /\ pc' = [pc EXCEPT ![Root] = "user"]
        /\ UNCHANGED <<ready, bmsem, call, ret, exited>>
    BY <1>2 DEF Boot, Goto
  <2>2. /\ r \in PCBs
        /\ r.parentID = NoPid /\ r.numwait = 0 /\ r.joinID = NoPid
        /\ r.isExit = FALSE
        /\ r.joinsem.value = 0 /\ r.exitsem.value = 0
    <3>1. NewPCB \in PCBs /\ Pages[f] \in Nat
      BY <2>1, FreshTypes, ConstTypes
    <3>2. r \in PCBs
      BY <2>1, <3>1 DEF PCBs
    <3> QED BY <3>2 DEF NewPCB, Semaphore
  <2> HIDE DEF r
  <2>3. \A q \in Slots : pc[q] = "none" /\ ptr[q] = "null"
    BY <2>1 DEF TableInv, RootInv
  <2>4. /\ pcb' \in [Slots -> PCBs] /\ pcb'[Root] = r
        /\ \A q \in Slots : q # Root => pcb'[q] = pcb[q]
        /\ pc' \in [Slots -> Labels] /\ pc'[Root] = "user"
        /\ \A q \in Slots : q # Root => pc'[q] = "none"
    BY <2>1, <2>2, <2>3, Types, ConstTypes DEF Labels
  <2>5. ptr' \in [Slots -> {"null", "live", "dangling"}] /\ ptr'[Root] = "live"
        /\ \A q \in Slots : q # Root => ptr'[q] = "null"
    BY <2>1, <2>3, ConstTypes DEF TableInv, TypeOK
  <2>6. TypeOK'
    BY <2>1, <2>4, <2>5, ConstTypes DEF TableInv, TypeOK
  <2>7. SlotsAgree' /\ ExecInv' /\ RootInv'
    <3>1. SlotsAgree'
      BY <2>1, <2>5 DEF SlotsAgree
    <3>2. ExecInv'
      BY <2>1, <2>4 DEF TableInv, ExecInv, InExec
    <3>3. RootInv'
      BY <2>1, <2>2, <2>4, <2>5, ConstTypes DEF RootInv
    <3> QED BY <3>1, <3>2, <3>3
  <2>8. ASSUME NEW q \in Slots
        PROVE  /\ pcb'[q].numwait = 0 /\ pcb'[q].joinID = NoPid /\ pcb'[q].isExit = FALSE
               /\ pcb'[q].joinsem.value = 0 /\ pcb'[q].exitsem.value = 0
               /\ pc'[q] \in {"none", "user"}
    <3>1. pc[q] = "none"
      BY <2>3
    <3> QED BY <2>2, <2>4, <3>1, IdleSlot
  <2>9. ExitInv'
    <3>1. ASSUME NEW q \in Slots
          PROVE  ~(pcb'[q].exitsem.value > 0) /\ pcb'[q].isExit = FALSE /\ pc'[q] # "exit_P"
      <4>1. pcb'[q].exitsem.value = 0 /\ pcb'[q].isExit = FALSE /\ pc'[q] \in {"none", "user"}
        BY <2>8, ZenonT(30)
      <4> QED BY <4>1, SMT
    <3> QED BY <3>1 DEF ExitInv
  <2>10. ParentOutlivesChild'
    BY <2>4 DEF ParentOutlivesChild
  <2>11. NumWaitCounts'
    <3>1. ASSUME NEW q \in Slots, NEW c \in Slots
          PROVE  pc'[c] = "none" \/ pcb'[c].parentID # q
      <4>1. CASE c = Root
        <5>1. pcb'[c].parentID = NoPid /\ NoPid # q
          BY <2>2, <2>4, <4>1, ConstTypes
        <5> QED BY <5>1
      <4>2. CASE c # Root
        BY <2>4, <4>2
      <4> QED BY <4>1, <4>2
    <3>2. \A q \in Slots : Pending(q)' = {}
      BY <3>1 DEF Pending
    <3>3. ASSUME NEW q \in Slots PROVE Counted(q)'
      BY <2>8, <3>2 DEF CountLaws, Counted, Counting
    <3> QED BY <3>3 DEF NumWaitCounts
  <2>12. JoinInv'
    <3>1. ASSUME NEW q \in Slots PROVE ~(pcb'[q].joinsem.value > 0)
      <4>1. pcb'[q].joinsem.value = 0
        BY <2>8
      <4> QED BY <4>1, SMT
    <3> QED BY <2>8, <3>1 DEF JoinInv, JoinState, CodeKept
  <2> QED BY <2>6, <2>7, <2>9, <2>10, <2>11, <2>12 DEF TableInv
<1> QED BY <1>1, <1>2

\* A change of the running thread disturbs nothing in the table.
LEMMA CPUInv ==
  ASSUME TableInv, SchedType',
         UNCHANGED <<machine, bm, ptr, pcb, bmsem, pc, call, ret, exited>>
  PROVE  TableInv'
<1>1. TypeOK' /\ SlotsAgree' /\ ExecInv' /\ RootInv' /\ ExitInv' /\ ParentOutlivesChild'
  BY DEF TableInv, TypeOK, SlotsAgree, ExecInv, RootInv, ExitInv, ParentOutlivesChild, SchedType
<1>2. NumWaitCounts' /\ JoinInv'
  BY SameWaits DEF TableInv
<1> QED BY <1>1, <1>2 DEF TableInv

\* The invariant holds initially.
LEMMA InitInv ==
  ASSUME CountLaws, Init
  PROVE  TableInv
<1>1. TypeOK
  BY InitType
<1>2. /\ machine = "boot" /\ bm = {} /\ bmsem.value = 1
      /\ \A q \in Slots : pc[q] = "none" /\ ptr[q] = "null" /\ pcb[q] = NewPCB
  BY DEF Init, Semaphore
<1>3. SlotsAgree /\ ExecInv /\ RootInv
  <2>1. SlotsAgree
    BY <1>2 DEF SlotsAgree
  <2>2. ExecInv
    BY <1>2 DEF ExecInv, InExec
  <2>3. RootInv
    BY <1>2, ConstTypes DEF RootInv
  <2> QED BY <2>1, <2>2, <2>3
<1>4. ExitInv
  BY <1>2, FreshFields, SMT DEF ExitInv
<1>5. ParentOutlivesChild
  BY <1>2 DEF ParentOutlivesChild
<1>6. NumWaitCounts
  <2>1. \A q \in Slots : Pending(q) = {}
    BY <1>2 DEF Pending
  <2>2. \A q \in Slots : Cardinality(Pending(q)) = 0
    BY <2>1 DEF CountLaws
  <2> QED BY <1>2, <2>2, FreshFields DEF NumWaitCounts, Counted, Counting
<1>7. JoinInv
  BY <1>2, FreshFields, SMT DEF JoinInv, JoinState, CodeKept
<1> QED BY <1>1, <1>3, <1>4, <1>5, <1>6, <1>7 DEF TableInv

\* Every step keeps the invariant, one case per action.
LEMMA NextInv ==
  ASSUME CountLaws, TableInv, [Next]_vars
  PROVE  TableInv'
<1>1. ASSUME NEW f, Boot(f) PROVE TableInv'
  BY <1>1, BootInv
<1>2. ASSUME NEW p \in Slots, Step(p) PROVE TableInv'
  <2>1. ASSUME NEW f \in Files \cup {NoFile}, SysExec(p, f) PROVE TableInv'
    BY <2>1, BmsemPInv
  <2>2. ASSUME NEW id \in -1 .. MaxProcess, SysJoin(p, id) PROVE TableInv'
    BY <2>2, SysJoinInv, SMT
  <2>3. ASSUME NEW ec \in Codes, SysExit(p, ec) PROVE TableInv'
    BY <2>3, SysExitInv
  <2>4. CASE ExecP(p)
    BY <2>4, BmsemPInv
  <2>5. CASE ExecCheck(p)
    BY <2>5, ExecCheckInv
  <2>6. CASE ExecLoad(p)
    BY <2>6, ExecLoadInv
  <2>7. CASE ExecFail(p)
    BY <2>7, ExecFailInv
  <2>8. CASE ExecSpace(p)
    BY <2>8, ExecSpaceInv, SMT
  <2>9. CASE ExecFork(p)
    BY <2>9, ExecForkInv
  <2>10. CASE ExecUnlock(p)
    BY <2>10, ExecUnlockInv
  <2>11. CASE ExecCount(p)
    BY <2>11, ExecCountInv
  <2>12. CASE JoinP(p)
    BY <2>12, JoinPInv
  <2>13. CASE JoinRet(p)
    BY <2>13, JoinRetInv
  <2>14. CASE ExitP(p)
    BY <2>14, ExitPInv
  <2>15. CASE ExitRel(p)
    BY <2>15, ExitRelInv
  <2>16. CASE ExitDec(p)
    BY <2>16, ExitDecInv
  <2>17. CASE ExitFree(p)
    BY <2>17, ExitFreeInv
  <2>18. CASE ScanDangling(p)
    BY <2>18, StopInv DEF ScanDangling
  <2> QED BY <1>2, <2>1, <2>2, <2>3, <2>4, <2>5, <2>6, <2>7, <2>8, <2>9, <2>10,
             <2>11, <2>12, <2>13, <2>14, <2>15, <2>16, <2>17, <2>18 DEF Step
<1>3. CASE Preempt
  <2>1. SchedType'
    BY <1>3, Types, SchedTypes DEF Preempt, TimerYield
  <2> QED BY <1>3, <2>1, CPUInv DEF Preempt, tableVars
<1>4. CASE UNCHANGED vars
  <2>1. SchedType'
    BY <1>4, Types DEF vars, SchedType
  <2> QED BY <1>4, <2>1, CPUInv DEF vars, tableVars
<1> QED BY <1>1, <1>2, <1>3, <1>4 DEF Next, Quiet

\* An answer that is a failure or true keeps the answers true.
LEMMA AnswerKept ==
  ASSUME TypeOK, JoinAnswersTruly, NEW p \in Slots, NEW r,
         ret' = [ret EXCEPT ![p] = r],
         r.val # Failed => r.val = r.code
  PROVE  JoinAnswersTruly'
<1>1. DOMAIN ret = Slots
  BY DEF TypeOK
<1>2. \A q \in Slots : ret'[q] = IF q = p THEN r ELSE ret[q]
  BY <1>1
<1> QED BY <1>2 DEF JoinAnswersTruly

\* Forgetting the last answer keeps the answers true.
LEMMA AnswerForgotten ==
  ASSUME TypeOK, JoinAnswersTruly, NEW p \in Slots,
         ret' = [ret EXCEPT ![p] = NoRet]
  PROVE  JoinAnswersTruly'
<1>1. NoRet.val = Failed
  BY DEF NoRet
<1> QED BY <1>1, AnswerKept

\* The return of Join with a failure or with the code that is on record.
LEMMA JoinReturnAnswers ==
  ASSUME TypeOK, JoinAnswersTruly, NEW p \in Slots, NEW id, NEW val,
         JoinReturn(p, id, val),
         val # Failed => val = exited[p][id]
  PROVE  JoinAnswersTruly'
<1> DEFINE r == [val |-> val, code |-> exited[p][id]]
<1>1. ret' = [ret EXCEPT ![p] = r]
  BY DEF JoinReturn
<1>2. r.val # Failed => r.val = r.code
  OBVIOUS
<1> HIDE DEF r
<1> QED BY <1>1, <1>2, AnswerKept

\* Only the start of a system call and the return of Join change an answer.
LEMMA NextAnswers ==
  TableInv /\ JoinAnswersTruly /\ [Next]_vars => JoinAnswersTruly'
<1> SUFFICES ASSUME TableInv, JoinAnswersTruly, [Next]_vars
             PROVE  JoinAnswersTruly'
  OBVIOUS
<1>1. TypeOK
  BY DEF TableInv
<1>2. UNCHANGED ret => JoinAnswersTruly'
  BY DEF JoinAnswersTruly
<1>3. ASSUME NEW p \in Slots, Step(p) PROVE JoinAnswersTruly'
  <2>1. ASSUME NEW f, SysExec(p, f) PROVE JoinAnswersTruly'
    BY <2>1, <1>1, AnswerForgotten DEF SysExec
  <2>2. ASSUME NEW id, SysJoin(p, id) PROVE JoinAnswersTruly'
    <3>1. pcb[p].joinID = NoPid
      BY <2>2 DEF TableInv, JoinInv, JoinState, SysJoin
    <3>2. \/ ret' = [ret EXCEPT ![p] = NoRet]
          \/ JoinReturn(p, id, Failed)
      BY <2>2, <3>1 DEF SysJoin
    <3>3. CASE ret' = [ret EXCEPT ![p] = NoRet]
      BY <3>3, <1>1, AnswerForgotten
    <3>4. CASE JoinReturn(p, id, Failed)
      BY <3>4, <1>1, JoinReturnAnswers
    <3> QED BY <3>2, <3>3, <3>4
  <2>3. ASSUME NEW ec, SysExit(p, ec) PROVE JoinAnswersTruly'
    BY <2>3, <1>1, AnswerForgotten DEF SysExit
  <2>4. CASE JoinRet(p)
    <3>1. pcb[p].joinExitcode = exited[p][call[p].id]
      BY <2>4 DEF TableInv, JoinInv, JoinState, JoinRet
    <3>2. JoinReturn(p, call[p].id, pcb[p].joinExitcode)
      BY <2>4 DEF JoinRet
    <3> QED BY <3>1, <3>2, <1>1, JoinReturnAnswers
  <2>5. CASE \/ ExecP(p) \/ ExecCheck(p) \/ ExecLoad(p) \/ ExecFail(p)
             \/ ExecFork(p) \/ JoinP(p)
    BY <2>5, <1>2 DEF ExecP, ExecCheck, ExecLoad, ExecFail, ExecFork, JoinP
  <2>6. CASE \/ ExecSpace(p) \/ ExecUnlock(p) \/ ExecCount(p) \/ ScanDangling(p)
    BY <2>6, <1>2 DEF ExecSpace, ExecUnlock, ExecCount, ScanDangling, Stop
  <2>7. CASE ExitP(p) \/ ExitRel(p) \/ ExitDec(p) \/ ExitFree(p)
    BY <2>7, <1>2 DEF ExitP, ExitRel, ExitDec, ExitFree
  <2> QED BY <1>3, <2>1, <2>2, <2>3, <2>4, <2>5, <2>6, <2>7, SMT DEF Step
<1>4. ASSUME NEW f, Boot(f) PROVE JoinAnswersTruly'
  BY <1>4, <1>2 DEF Boot, Stop
<1>5. CASE Preempt \/ UNCHANGED vars
  BY <1>5, <1>2 DEF Preempt, vars
<1> QED BY <1>3, <1>4, <1>5 DEF Next, Quiet

-----------------------------------------------------------------------------
(* Join without a timer.                                                   *)

\* Outside Exec every marked slot has a thread, so a child that can be joined
\* has its JoinRelease ahead of it.
LEMMA JoinReturnKeeps ==
  ASSUME TableInv, NoTimerInv, NEW p \in Slots, NEW id, NEW val, current = p,
         pc[p] \in {"user", "join_ret"}, JoinReturn(p, id, val), Continue(<<>>),
         UNCHANGED <<bm, ptr, pcb, bmsem>>
  PROVE  NoTimerInv'
<1>1. bmsem.value = 1 /\ \A i \in bm : i \in Slots /\ pc[i] # "none"
  BY OthersRest DEF InExec, TableInv, TypeOK
<1>2. /\ pc'[p] = "user"
      /\ \A q \in Slots : q # p => pc'[q] = pc[q] /\ call'[q] = call[q]
  BY Types DEF JoinReturn, Goto
<1>3. Awake \subseteq Awake' /\ current' = p
  BY ContinueAwake, Types
<1>4. Marked'
  BY <1>1, <1>2 DEF Marked
<1>5. \A q \in Slots : SameWaiting(q) /\ pcb'[q].numwait = pcb[q].numwait
  BY DEF SameWaiting
<1> QED BY <1>1, <1>2, <1>3, <1>4, <1>5, GoesOn DEF SameWaiting, Counting

\* Join refuses at once, or waits for a child that is still to release it.
LEMMA SysJoinKeeps ==
  ASSUME TableInv, NoTimerInv, NEW p \in Slots, NEW id \in Int, SysJoin(p, id)
  PROVE  NoTimerInv'
<1>1. current = p /\ pc[p] = "user" /\ UNCHANGED <<bm, ptr, bmsem>>
  BY DEF SysJoin, Running
<1>2. CASE id \notin Slots
  <2>1. Continue(<<>>) /\ UNCHANGED <<pcb, pc, call>>
    BY <1>2 DEF SysJoin
  <2>2. UNCHANGED <<current, ready>>
    BY <2>1, Types, SMT DEF Continue, ReadyToRun, SchedType
  <2> QED BY <1>1, <2>1, <2>2, NothingMoves
<1>3. CASE id \in Slots /\ (id \notin bm \/ pcb[id].parentID # p)
  <2>1. JoinReturn(p, id, Failed) /\ Continue(<<>>) /\ UNCHANGED pcb
    BY <1>3 DEF SysJoin
  <2> QED BY <1>1, <2>1, JoinReturnKeeps
<1>4. CASE id \in Slots /\ id \in bm /\ pcb[id].parentID = p
  <2> DEFINE s == pcb[p].joinsem
             P == [pcb EXCEPT ![p].joinID = id]
             t == PQueue(s, p)
  <2>1. pcb[p] \in PCBs /\ pcb \in [Slots -> PCBs] /\ s \in Sem /\ pcb[p].joinID = NoPid /\ s.value = 0
    <3>1. pcb[p] \in PCBs /\ s \in Sem /\ pcb \in [Slots -> PCBs]
      BY Types DEF PCBs
    <3> QED BY <1>1, <3>1, SMT DEF TableInv, JoinInv, JoinState, Sem
  <2>2. Elems(s.queue) \subseteq {p} /\ OwnQueues(p)
    BY DEF NoTimerInv, OwnQueues
  <2>3. t \in Sem /\ t.queue # <<>> /\ Elems(t.queue) \subseteq {p} /\ t.value = 0
    BY <2>1, <2>2, WaitOwn
  <2>4. JoinsemP(p, P) /\ call' = [call EXCEPT ![p].id = id]
    BY <1>4, <2>1 DEF SysJoin
  <2>5. /\ P \in [Slots -> PCBs] /\ P[p] \in PCBs /\ P[p].joinsem = s /\ P[p].joinID = id
        /\ P[p].parentID = pcb[p].parentID /\ P[p].exitsem = pcb[p].exitsem
        /\ \A q \in Slots : q # p => P[q] = pcb[q]
    BY <1>4, <2>1 DEF PCBs
  <2> HIDE DEF P
  <2>6. pcb' = [P EXCEPT ![p].joinsem = t] /\ Goto(p, "join_P") /\ Sleep
    BY <2>1, <2>4, <2>5, SMT DEF JoinsemP
  <2> HIDE DEF t, s
  <2>7. /\ pcb'[p].joinsem = t /\ pcb'[p].joinID = id
        /\ pcb'[p].parentID = pcb[p].parentID /\ pcb'[p].exitsem = pcb[p].exitsem
        /\ \A q \in Slots : q # p => pcb'[q] = pcb[q]
    BY <2>5, <2>6 DEF PCBs
  <2>8. pc'[p] = "join_P" /\ \A q \in Slots : q # p => pc'[q] = pc[q]
    BY <2>6, Types DEF Goto
  <2>9. call'[p].id = id /\ \A q \in Slots : q # p => call'[q] = call[q]
    BY <2>4, Types DEF Calls
  <2>10. id \in Unreleased(p)'
    <3>1. pc[id] # "none" /\ (id # p => pc[id] \in Resting)
      BY <1>1, <1>4, OthersRest, ZenonT(30) DEF InExec
    <3>2. pc'[id] \notin {"none", "exit_dec", "exit_free"} /\ pcb'[id].parentID = p
      BY <1>4, <2>7, <2>8, <3>1 DEF Resting
    <3> QED BY <1>4, <3>2 DEF Unreleased
  <2>11. OwnQueues(p)'
    BY <2>2, <2>3, <2>7 DEF OwnQueues
  <2>12. Joins(p)' /\ Exits(p)'
    BY <2>3, <2>7, <2>8, <2>9, <2>10, SMT DEF Joins, Exits
  <2> QED BY <1>1, <2>6, <2>7, <2>8, <2>9, <2>11, <2>12, OwnWait, SMT
<1> QED BY <1>2, <1>3, <1>4

\* A joiner that is woken finds its permit, or sleeps again.
LEMMA JoinPKeeps ==
  ASSUME TableInv, NoTimerInv, NEW p \in Slots, JoinP(p)
  PROVE  NoTimerInv'
<1> DEFINE s == pcb[p].joinsem
<1>1. /\ current = p /\ pc[p] = "join_P" /\ JoinsemP(p, pcb)
      /\ UNCHANGED <<bm, ptr, bmsem, call>>
  BY DEF JoinP, Running
<1>2. s \in Sem /\ s.value \in Nat /\ pcb[p] \in PCBs /\ pcb \in [Slots -> PCBs]
  BY Types, SMTT(30) DEF PCBs, Sem
<1>3. Elems(s.queue) \subseteq {p} /\ OwnQueues(p) /\ Joins(p)
  BY DEF NoTimerInv, OwnQueues
<1>4. PICK t : /\ pcb' = [pcb EXCEPT ![p].joinsem = t] /\ Elems(t.queue) \subseteq {p}
               /\ \/ Goto(p, "join_ret") /\ Continue(<<>>)
                  \/ /\ Goto(p, "join_P") /\ Sleep
                     /\ s.value = 0 /\ t.value = 0 /\ t.queue # <<>>
  <2>1. CASE s.value > 0
    <3>1. /\ pcb' = [pcb EXCEPT ![p].joinsem = PTake(s)] /\ Goto(p, "join_ret") /\ Continue(<<>>)
          /\ Elems(PTake(s).queue) \subseteq {p}
      BY <1>1, <1>2, <1>3, <2>1, WaitOwn DEF JoinsemP
    <3> QED BY <3>1
  <2>2. CASE ~(s.value > 0)
    <3>1. s.value = 0 /\ PQueue(s, p).value = 0 /\ PQueue(s, p).queue # <<>>
          /\ Elems(PQueue(s, p).queue) \subseteq {p}
      <4>1. s.value = 0
        BY <1>2, <2>2, SMT
      <4> QED BY <1>2, <1>3, <4>1, WaitOwn
    <3>2. pcb' = [pcb EXCEPT ![p].joinsem = PQueue(s, p)] /\ Goto(p, "join_P") /\ Sleep
      BY <1>1, <2>2 DEF JoinsemP
    <3> QED BY <3>1, <3>2
  <2> QED BY <2>1, <2>2
<1>5. /\ pcb'[p].joinsem = t /\ pcb'[p].joinID = pcb[p].joinID
      /\ pcb'[p].parentID = pcb[p].parentID /\ pcb'[p].exitsem = pcb[p].exitsem
      /\ \A q \in Slots : q # p => pcb'[q] = pcb[q]
  BY <1>2, <1>4 DEF PCBs
<1>6. /\ \A q \in Slots : q # p => pc'[q] = pc[q]
      /\ \/ pc'[p] = "join_ret" /\ Continue(<<>>)
         \/ pc'[p] = "join_P" /\ Sleep /\ s.value = 0 /\ t.value = 0 /\ t.queue # <<>>
  BY <1>4, Types DEF Goto
<1> HIDE DEF s
<1>7. Unreleased(p) \subseteq Unreleased(p)'
  BY <1>1, <1>5, <1>6 DEF Unreleased
<1>8. OwnQueues(p)'
  BY <1>3, <1>4, <1>5 DEF OwnQueues
<1>9. Joins(p)' /\ Exits(p)'
  BY <1>1, <1>3, <1>5, <1>6, <1>7, SMT DEF Joins, Exits, s
<1> QED BY <1>1, <1>5, <1>6, <1>8, <1>9, OwnWait

\* Join returns to the program of the caller.
LEMMA JoinRetKeeps ==
  ASSUME TableInv, NoTimerInv, NEW p \in Slots, JoinRet(p)
  PROVE  NoTimerInv'
BY JoinReturnKeeps DEF JoinRet, Running, tableVars

-----------------------------------------------------------------------------
(* ExitUpdate as a whole, without a timer.                                *)

\* JoinRelease, or Halt, and what follows.
LEMMA ReleasedKeeps ==
  ASSUME TableInv, NoTimerInv, NEW p \in Slots, NEW ec, current = p,
         pc[p] \in {"user", "exit_rel"}, Pending(p) = {},
         ExitReleased(p, pcb, ec), UNCHANGED bmsem
  PROVE  NoTimerInv'
<1> DEFINE par == pcb[p].parentID
           s == pcb[par].joinsem
           t == VSignal(s)
<1>1. CASE par = NoPid \/ ptr[par] # "live"
  BY <1>1, NothingMoves DEF ExitReleased, schedVars
<1>2. CASE par # NoPid /\ ptr[par] = "live"
  <2>1. p # Root
    BY <1>2 DEF TableInv, RootInv
  <2>2. par \in Slots /\ par # p /\ p \in Unreleased(par)
        /\ \A q \in Slots : q # par => p \notin Unreleased(q)
    <3>1. par \in Slots /\ p \in Pending(par)
      BY <2>1 DEF TableInv, ParentOutlivesChild, Pending
    <3> QED BY <3>1 DEF Unreleased
  <2>3. CASE pcb[par].joinID # p
    <3>1. ExitCounted(p, pcb)
      BY <1>2, <2>3 DEF ExitReleased
    <3> QED BY <2>1, <2>3, <3>1, CountedKeeps
  <2>4. CASE pcb[par].joinID = p
    <3>1. /\ pcb' = [pcb EXCEPT ![par].joinID = NoPid, ![par].joinExitcode = ec,
                                ![par].joinsem = VSignal(@)]
          /\ Continue(VWoken(s)) /\ Goto(p, "exit_dec")
          /\ call' = [call EXCEPT ![p].code = ec] /\ UNCHANGED bm
      BY <1>2, <2>4 DEF ExitReleased
    <3> HIDE DEF par
    <3>2. s \in Sem /\ OwnQueues(par) /\ Elems(s.queue) \subseteq {par} /\ Joins(par)
          /\ pcb \in [Slots -> PCBs] /\ pcb[par] \in PCBs
      BY <2>2, Types DEF NoTimerInv, OwnQueues, PCBs
    <3>3. pc[par] = "join_P"
      BY <2>2, <2>4, ConstTypes, SMT DEF TableInv, JoinInv, JoinState
    <3>4. /\ Elems(t.queue) \subseteq {par} /\ s.value \in Nat /\ t.value = s.value + 1
          /\ Awake \subseteq Awake' /\ current' = current
          /\ s.queue # <<>> => par \in Awake'
      BY <2>2, <3>1, <3>2, Types, SignalOwn
    <3>5. pcb' = [pcb EXCEPT ![par].joinID = NoPid, ![par].joinExitcode = ec, ![par].joinsem = t]
      BY <2>2, <3>1, <3>2
    <3> HIDE DEF t
    <3>6. /\ pcb'[par].joinsem = t /\ pcb'[par].exitsem = pcb[par].exitsem
          /\ pcb'[par].parentID = pcb[par].parentID
          /\ \A q \in Slots : q # par => pcb'[q] = pcb[q]
      BY <2>2, <3>2, <3>5 DEF PCBs
    <3>7. /\ pc'[p] = "exit_dec"
          /\ \A q \in Slots : q # p => pc'[q] = pc[q] /\ call'[q] = call[q]
      BY <3>1, Types DEF Goto
    <3>8. par \in Awake' /\ t.value > 0
      BY <3>2, <3>3, <3>4, SMT DEF Joins, s
    <3>9. ASSUME NEW q \in Slots \ {p} PROVE OwnQueues(q)' /\ Joins(q)' /\ Exits(q)'
      <4>1. OwnQueues(q) /\ Exits(q) /\ q # p /\ pc'[q] = pc[q] /\ (q \in Awake => q \in Awake')
        BY <3>4, <3>7 DEF NoTimerInv
      <4>2. CASE q = par
        <5>1. OwnQueues(q)' /\ Exits(q)'
          BY <3>2, <3>3, <3>4, <3>6, <4>1, <4>2 DEF OwnQueues, Exits
        <5>2. Joins(q)'
          BY <3>6, <3>8, <4>2 DEF Joins
        <5> QED BY <5>1, <5>2
      <4>3. CASE q # par
        <5>1. \A c \in Slots : c # p => pc'[c] = pc[c] /\ pcb'[c].parentID = pcb[c].parentID
          BY <3>6, <3>7
        <5>2. pcb'[q] = pcb[q] /\ p \notin Unreleased(q) /\ call'[q] = call[q]
          BY <2>2, <3>6, <3>7, <4>3
        <5>3. Joins(q)'
          BY <4>1, <5>1, <5>2, OthersWait
        <5> QED BY <4>1, <5>2, <5>3 DEF OwnQueues, Exits
      <4> QED BY <4>2, <4>3
    <3>10. OwnQueues(p)'
      BY <2>2, <3>6, ZenonT(30) DEF NoTimerInv, OwnQueues
    <3>11. /\ \A q \in Slots : q # p => pc'[q] = pc[q] /\ call'[q] = call[q]
                                        /\ pcb'[q].parentID = pcb[q].parentID
           /\ pcb'[p].parentID = pcb[p].parentID
      BY <2>2, <3>6, <3>7
    <3>12. \A q \in Awake : q # p => q \in Awake'
      BY <3>4
    <3>13. current' # NoThread /\ bm' \subseteq bm
      BY <3>1, <3>4, ConstTypes
    <3> QED BY <3>4, <3>7, <3>9, <3>10, <3>11, <3>12, <3>13, LeaveKeeps
  <2> QED BY <2>3, <2>4
<1> QED BY <1>1, <1>2

\* Every step of Exit, by what it still has to do.
LEMMA ExitKeeps ==
  ASSUME CountLaws, TableInv, NoTimerInv, NEW p \in Slots, NEW ec,
         SysExit(p, ec) \/ ExitP(p) \/ ExitRel(p) \/ ExitDec(p) \/ ExitFree(p)
  PROVE  NoTimerInv'
<1>1. current = p /\ UNCHANGED bmsem /\ pcb \in [Slots -> PCBs] /\ pcb[p] \in PCBs
  BY Types DEF SysExit, ExitP, ExitRel, ExitDec, ExitFree, Running
<1>2. CASE SysExit(p, ec) /\ pcb[p].numwait > 0
  <2> DEFINE P == [pcb EXCEPT ![p].isExit = TRUE]
  <2>1. /\ pc[p] = "user" /\ ExitsemP(p, P) /\ call' = [call EXCEPT ![p].code = ec]
        /\ UNCHANGED <<bm, ptr>>
    BY <1>2 DEF SysExit
  <2>2. P \in [Slots -> PCBs]
    BY <1>1 DEF PCBs
  <2>3. \A q \in Slots : q # p => call'[q] = call[q]
    BY <2>1, Types
  <2>4. pcb[p].numwait # 0
    BY <1>2, SMT
  <2> HIDE DEF P
  <2>5. P = [pcb EXCEPT ![p].isExit = TRUE]
    BY DEF P
  <2> QED BY <1>1, <2>1, <2>2, <2>3, <2>4, <2>5, ExitWaitKeeps
<1>3. CASE SysExit(p, ec) /\ ~(pcb[p].numwait > 0)
  <2>1. pc[p] = "user" /\ ExitReleased(p, pcb, ec) /\ Pending(p) = {}
    BY <1>3, NoChild DEF SysExit
  <2> QED BY <1>1, <2>1, ReleasedKeeps
<1>4. CASE ExitP(p)
  BY <1>1, <1>4, ExitWaitKeeps DEF ExitP
<1>5. CASE ExitRel(p)
  <2>1. pc[p] = "exit_rel" /\ ExitReleased(p, pcb, call[p].code) /\ Pending(p) = {}
    BY <1>5, NoChild DEF ExitRel
  <2> QED BY <1>1, <2>1, ReleasedKeeps
<1>6. CASE ExitDec(p)
  <2>1. pc[p] = "exit_dec" /\ ExitCounted(p, pcb) /\ Pending(p) = {}
    BY <1>6, NoChild DEF ExitDec
  <2>2. p # Root
    BY <2>1 DEF TableInv, RootInv
  <2> QED BY <1>1, <2>1, <2>2, CountedKeeps
<1>7. CASE ExitFree(p)
  <2>1. pc[p] = "exit_free" /\ ExitFreed(p, pcb)
    BY <1>7 DEF ExitFree
  <2>2. \A q \in Slots : p \notin Unreleased(q)
    BY <2>1 DEF Unreleased
  <2> QED BY <1>1, <2>1, <2>2, FreedKeeps
<1> QED BY <1>2, <1>3, <1>4, <1>5, <1>6, <1>7

-----------------------------------------------------------------------------
(* The other steps without a timer.                                        *)

\* The first program is alone.
LEMMA BootKeeps ==
  ASSUME TableInv, NoTimerInv, NEW f, Boot(f)
  PROVE  NoTimerInv'
<1>1. CASE Stop("aborted")
  BY <1>1, NothingMoves DEF Stop, schedVars, tableVars
<1>2. CASE ~Stop("aborted")
  <2> DEFINE new == [NewPCB EXCEPT !.thread = TRUE, !.file = f, !.space = Pages[f]]
  <2>1. /\ machine = "boot" /\ bm' = {Root} /\ pcb' = [pcb EXCEPT ![Root] = new]
        /\ current' = Root /\ pc' = [pc EXCEPT ![Root] = "user"] /\ UNCHANGED <<bmsem, call>>
    BY <1>2 DEF Boot, Goto
  <2>2. new.parentID = NoPid /\ new.joinsem = Semaphore(0) /\ new.exitsem = Semaphore(0)
    BY DEF NewPCB
  <2> HIDE DEF new
  <2>3. /\ Root \in Slots /\ pc'[Root] = "user" /\ pcb'[Root] = new
        /\ \A q \in Slots : q # Root => pc'[q] = "none" /\ pcb'[q] = pcb[q]
    BY <2>1, Types, ConstTypes, SMT DEF TableInv, RootInv
  <2>4. Root \in Awake' /\ current' # NoThread
    BY <2>1, ConstTypes DEF Awake, AwakeIn
  <2>5. bmsem'.value = 1
    BY <2>1 DEF NoTimerInv, TableInv, RootInv, InExec
  <2>6. Marked' /\ PCBOutlivesExec'
    BY <2>1, <2>3 DEF Marked, PCBOutlivesExec, Counting
  <2>7. ASSUME NEW q \in Slots PROVE OwnQueues(q)' /\ Joins(q)' /\ Exits(q)'
    <3>1. Joins(q)' /\ Exits(q)'
      BY <2>3 DEF Joins, Exits
    <3>2. Elems(Semaphore(0).queue) = {}
      BY SMT DEF Semaphore, Elems
    <3>3. OwnQueues(q)'
      BY <2>2, <2>3, <3>2 DEF NoTimerInv, OwnQueues
    <3> QED BY <3>1, <3>3
  <2>8. Ranked'
    <3>1. \A q \in Slots : Pending(q)' = {}
      BY <2>2, <2>3, ConstTypes DEF Pending
    <3> QED BY <3>1, RankedKept DEF NoTimerInv
  <2> QED BY <2>3, <2>4, <2>5, <2>6, <2>7, <2>8 DEF NoTimerInv, Resting
<1> QED BY <1>1, <1>2

\* Before the boot there is no process.
LEMMA InitNoTimer == Init => NoTimerInv
<1> SUFFICES ASSUME Init PROVE NoTimerInv
  OBVIOUS
<1>1. /\ current = NoThread /\ ready = <<>> /\ bm = {} /\ bmsem.value = 1
      /\ \A q \in Slots : pc[q] = "none" /\ pcb[q] = NewPCB
  BY DEF Init, Semaphore
<1>2. Marked /\ PCBOutlivesExec
  BY <1>1 DEF Marked, PCBOutlivesExec, Counting
<1>3. ASSUME NEW q \in Slots PROVE OwnQueues(q) /\ Joins(q) /\ Exits(q)
  <2>1. Elems(NewPCB.joinsem.queue) = {} /\ Elems(NewPCB.exitsem.queue) = {}
    BY SMT DEF NewPCB, Semaphore, Elems
  <2> QED BY <1>1, <2>1 DEF OwnQueues, Joins, Exits
<1>4. Ranked
  <2>1. [q \in Slots |-> 0] \in [Slots -> Nat]
    OBVIOUS
  <2>2. \A q \in Slots : Pending(q) = {}
    BY <1>1 DEF Pending
  <2> QED BY <2>1, <2>2 DEF Ranked
<1> QED BY <1>1, <1>2, <1>3, <1>4 DEF NoTimerInv, Resting

\* Without a timer no step but its own takes a process out of the kernel.
LEMMA NextNoTimer ==
  ASSUME CountLaws, ~RandomYield, TableInv, NoTimerInv, [Next]_vars
  PROVE  NoTimerInv'
<1>1. ASSUME NEW f, Boot(f) PROVE NoTimerInv'
  BY <1>1, BootKeeps
<1>2. ASSUME NEW p \in Slots, Step(p) PROVE NoTimerInv'
  <2>1. ASSUME NEW f, SysExec(p, f) PROVE NoTimerInv'
    BY <2>1, SysExecKeeps
  <2>2. ASSUME NEW id \in -1 .. MaxProcess, SysJoin(p, id) PROVE NoTimerInv'
    <3>1. id \in Int
      BY ProcAssumption, SMT
    <3> QED BY <2>2, <3>1, SysJoinKeeps
  <2>3. ASSUME NEW ec \in Codes, SysExit(p, ec) PROVE NoTimerInv'
    BY <2>3, ExitKeeps
  <2>4. CASE ExecP(p)
    BY <2>4 DEF NoTimerInv, ExecP
  <2>5. CASE ExecCheck(p)
    BY <2>5, ExecCheckKeeps
  <2>6. CASE ExecLoad(p)
    BY <2>6, ExecLoadKeeps
  <2>7. CASE ExecFail(p)
    BY <2>7, ExecFailKeeps
  <2>8. CASE ExecSpace(p)
    BY <2>8, ExecSpaceKeeps
  <2>9. CASE ExecFork(p)
    BY <2>9, ExecForkKeeps
  <2>10. CASE ExecUnlock(p) \/ ExecCount(p)
    BY <2>10, CountingKeeps, SMT
  <2>11. CASE JoinP(p)
    BY <2>11, JoinPKeeps
  <2>12. CASE JoinRet(p)
    BY <2>12, JoinRetKeeps
  <2>13. CASE ExitP(p) \/ ExitRel(p) \/ ExitDec(p) \/ ExitFree(p)
    BY <2>13, ExitKeeps
  <2>14. CASE ScanDangling(p)
    BY <2>14, NothingMoves DEF ScanDangling, Stop, schedVars, tableVars
  <2> QED BY <1>2, <2>1, <2>2, <2>3, <2>4, <2>5, <2>6, <2>7, <2>8, <2>9, <2>10, <2>11, <2>12,
             <2>13, <2>14, SMT DEF Step
<1>3. CASE Preempt
  BY <1>3 DEF Preempt, TimerYield
<1>4. CASE UNCHANGED vars
  BY <1>4, NothingMoves DEF vars, tableVars
<1> QED BY <1>1, <1>2, <1>3, <1>4 DEF Next, Quiet

-----------------------------------------------------------------------------
(* The process tree.                                                       *)

\* What the mapping makes of the parents.
TreeParent == [c \in Slots |-> IF c \in Live THEN pcb[c].parentID ELSE NoPid]

-----------------------------------------------------------------------------
(* The steps of the tree, in terms of the table.                           *)

\* A step that the tree does not see.
LEMMA TreeSame ==
  ASSUME Live' = Live, TreeParent' = TreeParent, UNCHANGED <<exited, ret>>,
         machine # "halted", machine' # "halted"
  PROVE  UNCHANGED Tree!treeVars
BY DEF Tree!treeVars, TreeParent

\* The first program.
LEMMA TreeStart ==
  ASSUME Live = {}, Live' = {Root}, TreeParent' = TreeParent,
         UNCHANGED <<exited, ret>>, machine # "halted", machine' # "halted"
  PROVE  Tree!TreeNext
<1>1. Tree!Start
  BY DEF Tree!Start, TreeParent
<1> QED BY <1>1 DEF Tree!TreeNext

\* Fork makes the child a live process.
LEMMA TreeSpawn ==
  ASSUME NEW p \in Live, NEW c \in Slots \ Live, p \in Slots,
         Live' = Live \cup {c}, TreeParent' = [TreeParent EXCEPT ![c] = p],
         exited' = [exited EXCEPT ![c] = [d \in Slots |-> NoCode],
                                  ![p][c] = NoCode],
         UNCHANGED ret, machine # "halted", machine' # "halted"
  PROVE  Tree!TreeNext
<1>1. Tree!Spawn(p, c)
  BY DEF Tree!Spawn, TreeParent
<1> QED BY <1>1 DEF Tree!TreeNext

\* A system call makes its caller forget the last answer.
LEMMA TreeForget ==
  ASSUME NEW p \in Live, p \in Slots, Live' = Live, TreeParent' = TreeParent,
         ret' = [ret EXCEPT ![p] = NoRet],
         UNCHANGED exited, machine # "halted", machine' # "halted"
  PROVE  Tree!TreeNext
<1>1. Tree!Forget(p)
  BY DEF Tree!Forget, TreeParent, Tree!NoAnswer, NoRet
<1> QED BY <1>1 DEF Tree!TreeNext

\* Join answers.
LEMMA TreeAnswer ==
  ASSUME NEW p \in Live, p \in Slots, NEW c \in Slots,
         NEW v \in Codes \cup {Failed},
         v # Failed => v = exited[p][c],
         Live' = Live, TreeParent' = TreeParent,
         ret' = [ret EXCEPT ![p] = [val |-> v, code |-> exited[p][c]]],
         exited' = [exited EXCEPT ![p][c] = NoCode],
         machine # "halted", machine' # "halted"
  PROVE  Tree!TreeNext
<1>1. v # NoCode
  BY ConstTypes, SMT DEF Failed, NoCode
<1>2. Tree!Answer(p, c, v)
  BY <1>1 DEF Tree!Answer, TreeParent
<1> QED BY <1>2 DEF Tree!TreeNext

\* Exit puts the code on record, where there is a parent.
LEMMA TreeTell ==
  ASSUME NEW c \in Live, c \in Slots, NEW ec \in Codes,
         RecordExit(c, ec), ret' = [ret EXCEPT ![c] = NoRet],
         machine # "halted"
  PROVE  Tree!Tell(c, ec)
<1>1. TreeParent[c] = pcb[c].parentID
  BY DEF TreeParent
<1> QED BY <1>1 DEF Tree!Tell, TreeParent, RecordExit, Tree!NoAnswer, NoRet

\* A process without children to wait for has none in the tree.
LEMMA TreeChildless ==
  ASSUME NEW p \in Slots, Pending(p) = {}
  PROVE  Tree!Childless(p)
<1>1. \A c \in Live : c \in Slots /\ TreeParent[c] = pcb[c].parentID
  BY DEF Live, TreeParent
<1>2. \A c \in Live : pcb[c].parentID # p
  BY DEF Live, Pending
<1> QED BY <1>1, <1>2 DEF Tree!Childless, TreeParent

\* A process leaves the tree.
LEMMA TreeRemoved ==
  ASSUME NEW c \in Live, c \in Slots, c # Root, Pending(c) = {},
         Live' = Live \ {c}, TreeParent' = [TreeParent EXCEPT ![c] = NoPid],
         machine # "halted", machine' # "halted"
  PROVE  Tree!Removed(c)
<1>1. Tree!Childless(c)
  BY TreeChildless
<1> QED BY <1>1 DEF Tree!Removed, TreeParent

-----------------------------------------------------------------------------
(* Who is live, and who is whose child, after a step.                      *)

\* Only a live process has a parent that counts.
LEMMA FamilyKept ==
  ASSUME \A q \in Slots : q \in Live' <=> q \in Live,
         \A q \in Live : pcb'[q].parentID = pcb[q].parentID
  PROVE  Live' = Live /\ TreeParent' = TreeParent
<1>1. Live' = Live
  BY DEF Live
<1> QED BY <1>1 DEF TreeParent

\* A step of p that moves it from one point in a system call to another.
LEMMA FamilyKeptBy ==
  ASSUME NEW p \in Slots, \A q \in Slots : q # p => pc'[q] = pc[q],
         pc[p] \notin {"none", "exit_free"}, pc'[p] \notin {"none", "exit_free"},
         \A q \in Slots : pc[q] # "none" => pcb'[q].parentID = pcb[q].parentID
  PROVE  p \in Live /\ Live' = Live /\ TreeParent' = TreeParent
<1>1. \A q \in Slots : q \in Live' <=> q \in Live
  BY DEF Live
<1>2. \A q \in Live : pcb'[q].parentID = pcb[q].parentID
  BY DEF Live
<1> QED BY <1>1, <1>2, FamilyKept DEF Live

\* Where the processes are after a step of p.
LEMMA Moved ==
  ASSUME TableInv, NEW p \in Slots, NEW l, Goto(p, l)
  PROVE  pc'[p] = l /\ \A q \in Slots : q # p => pc'[q] = pc[q]
BY Types DEF Goto

\* The process p counted down at its parent, and leaves the tree.
LEMMA FamilyWithout ==
  ASSUME NEW p \in Live, p \in Slots, pc'[p] \in {"none", "exit_free"},
         \A q \in Slots : q # p =>
           pc'[q] = pc[q] /\ pcb'[q].parentID = pcb[q].parentID
  PROVE  Live' = Live \ {p} /\ TreeParent' = [TreeParent EXCEPT ![p] = NoPid]
<1>1. Live' = Live \ {p}
  BY DEF Live
<1>2. \A q \in Slots : TreeParent'[q] = IF q = p THEN NoPid ELSE TreeParent[q]
  BY <1>1 DEF TreeParent, Live
<1>3. TreeParent' = [q \in Slots |-> TreeParent'[q]]
      /\ TreeParent = [q \in Slots |-> TreeParent[q]]
  BY DEF TreeParent
<1> QED BY <1>1, <1>2, <1>3

-----------------------------------------------------------------------------
(* The actions.                                                            *)

TreeStep == Tree!TreeNext \/ UNCHANGED Tree!treeVars

\* A stop is not a halt.
LEMMA StopTree ==
  ASSUME machine # "halted", NEW how \in {"aborted", "undefined"}, Stop(how)
  PROVE  TreeStep
<1>1. Live' = Live /\ TreeParent' = TreeParent
  BY FamilyKept DEF Stop, tableVars, Live
<1> QED BY <1>1, TreeSame DEF Stop, TreeStep

\* The wait for bmsem, at the start of Exec and after a wakeup.
LEMMA BmsemPTree ==
  ASSUME TableInv, NEW p \in Slots, pc[p] \in {"user", "exec_P"},
         BmsemP(p), UNCHANGED pcb
  PROVE  p \in Live /\ Live' = Live /\ TreeParent' = TreeParent
<1>1. Goto(p, "exec_check") \/ Goto(p, "exec_P")
  BY DEF BmsemP
<1>2. pc'[p] \in {"exec_check", "exec_P"} /\ \A q \in Slots : q # p => pc'[q] = pc[q]
  BY <1>1, Moved
<1> QED BY <1>2, FamilyKeptBy

\* The steps of Exec: only Fork is seen, as Spawn.
LEMMA ExecTree ==
  ASSUME CountLaws, TableInv, NEW p \in Slots
  PROVE  /\ \A f \in Files \cup {NoFile} : SysExec(p, f) => TreeStep
         /\ ExecP(p) => TreeStep
         /\ ExecCheck(p) => TreeStep
         /\ ExecLoad(p) => TreeStep
         /\ ExecFail(p) => TreeStep
         /\ ExecSpace(p) => TreeStep
         /\ ExecFork(p) => TreeStep
         /\ ExecUnlock(p) => TreeStep
         /\ ExecCount(p) => TreeStep
<1>1. ASSUME NEW f \in Files \cup {NoFile}, SysExec(p, f) PROVE TreeStep
  <2>1. p \in Live /\ Live' = Live /\ TreeParent' = TreeParent
    BY <1>1, BmsemPTree DEF SysExec
  <2> QED BY <1>1, <2>1, TreeForget DEF SysExec, Running, TreeStep
<1>2. ASSUME ExecP(p) PROVE TreeStep
  <2>1. Live' = Live /\ TreeParent' = TreeParent
    BY <1>2, BmsemPTree DEF ExecP
  <2> QED BY <1>2, <2>1, TreeSame DEF ExecP, Running, TreeStep
<1>3. ASSUME ExecCheck(p) PROVE TreeStep
  <2>1. /\ machine = "run" /\ pc[p] = "exec_check" /\ UNCHANGED <<machine, ret, exited>>
        /\ \/ Goto(p, "user") /\ UNCHANGED pcb
           \/ /\ ~(Slots \subseteq bm)
              /\ pcb' = [pcb EXCEPT ![Find] = NewPCB]
              /\ Goto(p, "exec_load")
    BY <1>3 DEF ExecCheck, ExecReturn, Running
  <2>2. ~(Slots \subseteq bm) => Find \in Slots /\ pc[Find] = "none"
    BY FindType DEF TableInv, SlotsAgree, RootInv
  <2>3. \A q \in Slots : pc[q] # "none" => pcb'[q].parentID = pcb[q].parentID
    BY <2>1, <2>2, Types
  <2>4. pc'[p] \in {"user", "exec_load"} /\ \A q \in Slots : q # p => pc'[q] = pc[q]
    BY <2>1, Moved
  <2>5. Live' = Live /\ TreeParent' = TreeParent
    BY <2>1, <2>3, <2>4, FamilyKeptBy
  <2> QED BY <2>1, <2>5, TreeSame DEF TreeStep
<1>4. ASSUME NEW l \in InExec \cup {"user"},
             pc[p] \in {"exec_load", "exec_space", "exec_fail"}, machine = "run",
             \A q \in Slots : q # call[p].id => pcb'[q].parentID = pcb[q].parentID,
             Goto(p, l), UNCHANGED <<machine, ret, exited>>
      PROVE  TreeStep
  <2>1. pc[call[p].id] = "none"
    BY <1>4 DEF TableInv, ExecInv
  <2>2. pc'[p] = l /\ \A q \in Slots : q # p => pc'[q] = pc[q]
    BY <1>4, Moved
  <2>3. Live' = Live /\ TreeParent' = TreeParent
    BY <1>4, <2>1, <2>2, FamilyKeptBy DEF InExec
  <2> QED BY <1>4, <2>3, TreeSame DEF TreeStep
<1>5. ASSUME NEW r, pcb' = [pcb EXCEPT ![call[p].id] = r]
      PROVE  \A q \in Slots : q # call[p].id => pcb'[q].parentID = pcb[q].parentID
  BY <1>5, Types
<1>6. ASSUME ExecLoad(p) PROVE TreeStep
  <2>1. \A q \in Slots : q # call[p].id => pcb'[q].parentID = pcb[q].parentID
    BY <1>5, <1>6 DEF ExecLoad
  <2> QED BY <1>4, <1>6, <2>1 DEF ExecLoad, Running, InExec
<1>7. ASSUME ExecFail(p) PROVE TreeStep
  <2>1. \A q \in Slots : q # call[p].id => pcb'[q].parentID = pcb[q].parentID
    BY <1>5, <1>7 DEF ExecFail
  <2> QED BY <1>4, <1>7, <2>1 DEF ExecFail, Running, ExecReturn
<1>8. ASSUME ExecSpace(p) PROVE TreeStep
  <2>1. CASE Stop("aborted")
    BY <1>8, <2>1, StopTree DEF ExecSpace, Running
  <2>2. CASE pcb' = [pcb EXCEPT ![call[p].id].space = Pages[call[p].file]]
             /\ Goto(p, "exec_fork") /\ UNCHANGED <<machine, ret, exited>>
    <3>1. \A q \in Slots : q # call[p].id => pcb'[q].parentID = pcb[q].parentID
      BY <1>5, <2>2
    <3> QED BY <1>4, <1>8, <2>2, <3>1 DEF ExecSpace, Running, InExec
  <2> QED BY <1>8, <2>1, <2>2 DEF ExecSpace
<1>9. ASSUME ExecFork(p) PROVE TreeStep
  <2> DEFINE c == call[p].id
  <2>1. /\ machine = "run" /\ pc[p] = "exec_fork"
        /\ pc' = [pc EXCEPT ![p] = "exec_unlock", ![c] = "user"]
        /\ exited' = [exited EXCEPT ![c] = [d \in Slots |-> NoCode], ![p][c] = NoCode]
        /\ UNCHANGED <<machine, pcb, ret>>
    BY <1>9 DEF ExecFork, Running, tableVars
  <2>2. c \in Slots /\ pc[c] = "none" /\ pcb[c].parentID = p
    BY <2>1 DEF TableInv, ExecInv, TypeOK
  <2> HIDE DEF c
  <2>3. p \in Live /\ c \in Slots \ Live /\ Live' = Live \cup {c}
    BY <2>1, <2>2, Types DEF Live
  <2>4. TreeParent' = [TreeParent EXCEPT ![c] = p]
    BY <2>1, <2>2, <2>3 DEF TreeParent
  <2> QED BY <2>1, <2>3, <2>4, TreeSpawn DEF TreeStep
<1>10. ASSUME ExecUnlock(p) PROVE TreeStep
  <2>1. CASE Stop("undefined")
    BY <1>10, <2>1, StopTree DEF ExecUnlock, Running
  <2>2. CASE Goto(p, "exec_count") /\ UNCHANGED <<machine, pcb, ret, exited>>
    <3>1. pc'[p] = "exec_count" /\ \A q \in Slots : q # p => pc'[q] = pc[q]
      BY <2>2, Moved
    <3>2. Live' = Live /\ TreeParent' = TreeParent
      BY <1>10, <2>2, <3>1, FamilyKeptBy DEF ExecUnlock
    <3> QED BY <1>10, <2>2, <3>2, TreeSame DEF ExecUnlock, Running, TreeStep
  <2> QED BY <1>10, <2>1, <2>2 DEF ExecUnlock, tableVars
<1>11. ASSUME ExecCount(p) PROVE TreeStep
  <2>1. CASE Stop("undefined")
    BY <1>11, <2>1, StopTree DEF ExecCount, Running
  <2>2. CASE /\ pcb' = [pcb EXCEPT ![p].numwait = @ + 1]
             /\ Goto(p, "user")
             /\ UNCHANGED <<machine, ret, exited>>
    <3>1. \A q \in Slots : pcb'[q].parentID = pcb[q].parentID
      BY <2>2, Types DEF PCBs
    <3>2. pc'[p] = "user" /\ \A q \in Slots : q # p => pc'[q] = pc[q]
      BY <2>2, Moved
    <3>3. pc[p] = "exec_count"
      BY <1>11 DEF ExecCount
    <3>4. Live' = Live /\ TreeParent' = TreeParent
      BY <3>1, <3>2, <3>3, FamilyKeptBy
    <3> QED BY <1>11, <2>2, <3>4, TreeSame DEF ExecCount, Running, TreeStep
  <2> QED BY <1>11, <2>1, <2>2 DEF ExecCount, ExecReturn
<1> QED BY <1>1, <1>2, <1>3, <1>6, <1>7, <1>8, <1>9, <1>10, <1>11, SMT

\* The steps of Join: the start forgets the last answer, the return gives one.
LEMMA JoinTree ==
  ASSUME TableInv, NEW p \in Slots
  PROVE  /\ \A id \in -1 .. MaxProcess : SysJoin(p, id) => TreeStep
         /\ JoinP(p) => TreeStep
         /\ JoinRet(p) => TreeStep
<1>1. ASSUME NEW id \in Slots, NEW v \in Codes \cup {Failed},
             v # Failed => v = exited[p][id],
             machine = "run", pc[p] \in {"user", "join_ret"},
             JoinReturn(p, id, v), UNCHANGED <<machine, pcb>>
      PROVE  TreeStep
  <2>1. /\ Goto(p, "user")
        /\ ret' = [ret EXCEPT ![p] = [val |-> v, code |-> exited[p][id]]]
        /\ exited' = [exited EXCEPT ![p][id] = NoCode]
    BY <1>1 DEF JoinReturn
  <2>2. p \in Live /\ Live' = Live /\ TreeParent' = TreeParent
    <3>1. pc'[p] = "user" /\ \A q \in Slots : q # p => pc'[q] = pc[q]
      BY <2>1, Moved
    <3> QED BY <1>1, <3>1, FamilyKeptBy
  <2> QED BY <1>1, <2>1, <2>2, TreeAnswer DEF TreeStep
<1>2. ASSUME pc[p] \in {"user", "join_P"}, NEW P \in [Slots -> PCBs],
             \A q \in Slots : P[q].parentID = pcb[q].parentID,
             JoinsemP(p, P)
      PROVE  p \in Live /\ Live' = Live /\ TreeParent' = TreeParent
  <2>1. \A q \in Slots : pcb'[q].parentID = P[q].parentID
    <3>1. P[p] \in PCBs
      BY <1>2
    <3>2. \/ pcb' = [P EXCEPT ![p].joinsem = PTake(@)]
          \/ pcb' = [P EXCEPT ![p].joinsem = PQueue(@, p)]
      BY <1>2 DEF JoinsemP
    <3> QED BY <1>2, <3>1, <3>2, SMT DEF PCBs
  <2>2. Goto(p, "join_ret") \/ Goto(p, "join_P")
    BY <1>2 DEF JoinsemP
  <2>3. pc'[p] \in {"join_ret", "join_P"} /\ \A q \in Slots : q # p => pc'[q] = pc[q]
    BY <2>2, Moved
  <2> QED BY <1>2, <2>1, <2>3, FamilyKeptBy
<1>3. ASSUME NEW id \in -1 .. MaxProcess, SysJoin(p, id) PROVE TreeStep
  <2>1. machine = "run" /\ pc[p] = "user" /\ UNCHANGED machine
    BY <1>3 DEF SysJoin, Running
  <2>2. CASE id \notin Slots
    <3>1. ret' = [ret EXCEPT ![p] = NoRet] /\ UNCHANGED <<pcb, pc, exited>>
      BY <1>3, <2>2 DEF SysJoin
    <3>2. p \in Live /\ Live' = Live /\ TreeParent' = TreeParent
      BY <2>1, <3>1, FamilyKept DEF Live
    <3> QED BY <2>1, <3>1, <3>2, TreeForget DEF TreeStep
  <2>3. CASE id \in Slots /\ (id \notin bm \/ pcb[id].parentID # p)
    <3>1. JoinReturn(p, id, Failed) /\ UNCHANGED pcb
      BY <1>3, <2>3 DEF SysJoin
    <3> QED BY <1>1, <2>1, <2>3, <3>1
  <2>4. CASE id \in Slots /\ id \in bm /\ pcb[id].parentID = p
    <3>1. pcb[p].joinID = NoPid
      BY <2>1 DEF TableInv, JoinInv, JoinState
    <3> DEFINE P == [pcb EXCEPT ![p].joinID = id]
    <3>2. /\ JoinsemP(p, P)
          /\ ret' = [ret EXCEPT ![p] = NoRet]
          /\ UNCHANGED exited
      BY <1>3, <2>4, <3>1 DEF SysJoin
    <3>3. P \in [Slots -> PCBs] /\ \A q \in Slots : P[q].parentID = pcb[q].parentID
      BY <2>4, Types, SMT DEF PCBs
    <3> HIDE DEF P
    <3>4. p \in Live /\ Live' = Live /\ TreeParent' = TreeParent
      BY <1>2, <2>1, <3>2, <3>3
    <3> QED BY <2>1, <3>2, <3>4, TreeForget DEF TreeStep
  <2> QED BY <2>2, <2>3, <2>4
<1>4. ASSUME JoinP(p) PROVE TreeStep
  <2>1. /\ machine = "run" /\ pc[p] = "join_P" /\ JoinsemP(p, pcb)
        /\ UNCHANGED <<machine, ret, exited>>
    BY <1>4 DEF JoinP, Running
  <2>2. Live' = Live /\ TreeParent' = TreeParent
    BY <1>2, <2>1, Types
  <2> QED BY <2>1, <2>2, TreeSame DEF TreeStep
<1>5. ASSUME JoinRet(p) PROVE TreeStep
  <2>1. /\ machine = "run" /\ pc[p] = "join_ret"
        /\ JoinReturn(p, call[p].id, pcb[p].joinExitcode)
        /\ UNCHANGED <<machine, pcb>>
    BY <1>5 DEF JoinRet, Running, tableVars
  <2>2. /\ call[p].id \in Slots
        /\ pcb[p].joinExitcode \in Codes
        /\ pcb[p].joinExitcode = exited[p][call[p].id]
    BY <2>1 DEF TableInv, JoinInv, JoinState
  <2> QED BY <1>1, <2>1, <2>2
<1> QED BY <1>3, <1>4, <1>5

-----------------------------------------------------------------------------
(* Exit and the other steps in the process tree.                           *)

\* The start of the first program.
LEMMA BootTree ==
  ASSUME TableInv, NEW f, Boot(f)
  PROVE  TreeStep
<1>1. machine = "boot" /\ Live = {}
  BY DEF Boot, TableInv, RootInv, Live
<1>2. CASE Stop("aborted")
  BY <1>1, <1>2, StopTree
<1>3. CASE ~Stop("aborted")
  <2>1. /\ machine' # "halted"
        /\ pc' = [pc EXCEPT ![Root] = "user"]
        /\ pcb'[Root].parentID = NoPid
        /\ UNCHANGED <<exited, ret>>
    <3>1. pcb' = [pcb EXCEPT ![Root] =
                    [NewPCB EXCEPT !.thread = TRUE, !.file = f, !.space = Pages[f]]]
      BY <1>3 DEF Boot
    <3>2. pcb'[Root].parentID = NoPid
      BY <3>1, Types, ConstTypes DEF NewPCB
    <3> QED BY <1>3, <3>2 DEF Boot, Goto
  <2>2. Live' = {Root}
    BY <1>1, <2>1, Types, ConstTypes, SMT DEF Live
  <2>3. TreeParent' = TreeParent
    BY <1>1, <2>1, <2>2 DEF TreeParent
  <2> QED BY <1>1, <2>1, <2>2, <2>3, TreeStart DEF TreeStep
<1> QED BY <1>2, <1>3

\* DecNumWait, ExitRelease and the end: the process has left the tree.
LEMMA ExitCountedTree ==
  ASSUME TableInv, NEW p \in Slots, p # Root, machine = "run",
         pc[p] \in {"user", "exit_rel", "exit_dec"}, ExitCounted(p, pcb)
  PROVE  /\ p \in Live
         /\ Live' = Live \ {p}
         /\ TreeParent' = [TreeParent EXCEPT ![p] = NoPid]
         /\ UNCHANGED machine
<1> DEFINE par == pcb[p].parentID
           D == [pcb EXCEPT ![par].numwait = @ - 1]
           S == [D EXCEPT ![par].exitsem = VSignal(@)]
<1>1. par \in Slots
  BY DEF TableInv, ParentOutlivesChild
<1>2. /\ D \in [Slots -> PCBs]
      /\ \A q \in Slots : D[q].parentID = pcb[q].parentID
  <2>1. pcb \in [Slots -> PCBs]
    BY Types
  <2> QED BY <1>1, <2>1, DecFields, SMT
<1>3. \/ pcb' = S /\ Goto(p, "exit_free") /\ UNCHANGED machine
      \/ pcb' = [D EXCEPT ![p] = NewPCB] /\ Goto(p, "none") /\ UNCHANGED machine
  BY DEF ExitCounted, ExitFreed
<1> HIDE DEF D
<1>4. \A q \in Slots : S[q].parentID = pcb[q].parentID
  BY <1>1, <1>2, SignalFields, SMT
<1> HIDE DEF S
<1>5. \A q \in Slots : q # p => pcb'[q].parentID = pcb[q].parentID
  BY <1>2, <1>3, <1>4
<1>6. pc'[p] \in {"none", "exit_free"} /\ \A q \in Slots : q # p => pc'[q] = pc[q]
  BY <1>3, Types DEF Goto
<1>7. p \in Live
  BY DEF Live
<1> QED BY <1>3, <1>5, <1>6, <1>7, FamilyWithout

\* The wait for exitsem is not seen.
LEMMA ExitsemPTree ==
  ASSUME TableInv, NEW p \in Slots, pc[p] \in {"user", "exit_P"},
         NEW P \in [Slots -> PCBs],
         \A q \in Slots : P[q].parentID = pcb[q].parentID,
         ExitsemP(p, P)
  PROVE  p \in Live /\ Live' = Live /\ TreeParent' = TreeParent
<1>1. \A q \in Slots : pcb'[q].parentID = P[q].parentID
  <2>1. P[p] \in PCBs
    OBVIOUS
  <2>2. \/ pcb' = [P EXCEPT ![p].exitsem = PTake(@)]
        \/ pcb' = [P EXCEPT ![p].exitsem = PQueue(@, p)]
    BY DEF ExitsemP
  <2> QED BY <2>1, <2>2, SMT DEF PCBs
<1>2. Goto(p, "exit_rel") \/ Goto(p, "exit_P")
  BY DEF ExitsemP
<1>3. pc'[p] \in {"exit_rel", "exit_P"} /\ \A q \in Slots : q # p => pc'[q] = pc[q]
  BY <1>2, Moved
<1> QED BY <1>1, <1>3, FamilyKeptBy

\* After ExitWait: the first process halts the machine; another one wakes its
\* parent and is still there, or counts down and has left the tree.
LEMMA ExitReleasedTree ==
  ASSUME TableInv, NEW p \in Slots, NEW ec, machine = "run",
         pc[p] \in {"user", "exit_rel"}, ExitReleased(p, pcb, ec)
  PROVE  /\ p \in Live
         /\ \/ /\ p = Root /\ machine' = "halted"
               /\ Live' = Live /\ TreeParent' = TreeParent
            \/ /\ p # Root /\ machine' = "run"
               /\ Live' = Live /\ TreeParent' = TreeParent
            \/ /\ p # Root /\ machine' = "run"
               /\ Live' = Live \ {p}
               /\ TreeParent' = [TreeParent EXCEPT ![p] = NoPid]
<1> DEFINE par == pcb[p].parentID
<1>0. p \in Live
  BY DEF Live
<1>1. CASE p = Root
  <2>1. par = NoPid
    BY <1>1 DEF TableInv, RootInv
  <2>2. machine' = "halted" /\ UNCHANGED <<pcb, pc>>
    BY <2>1 DEF ExitReleased
  <2>3. Live' = Live /\ TreeParent' = TreeParent
    BY <2>2, FamilyKept DEF Live
  <2> QED BY <1>0, <1>1, <2>2, <2>3
<1>2. CASE p # Root
  <2>1. par \in Slots /\ ptr[par] = "live"
    BY <1>2 DEF TableInv, ParentOutlivesChild
  <2>2. CASE pcb[par].joinID = p
    <3>1. /\ pcb' = [pcb EXCEPT ![par].joinID = NoPid,
                                ![par].joinExitcode = ec,
                                ![par].joinsem = VSignal(@)]
          /\ Goto(p, "exit_dec")
          /\ UNCHANGED machine
      BY <2>1, <2>2, ConstTypes DEF ExitReleased
    <3>2. \A q \in Slots : pcb'[q].parentID = pcb[q].parentID
      <4>1. pcb \in [Slots -> PCBs] /\ pcb[par] \in PCBs
        BY <2>1, Types
      <4> QED BY <2>1, <3>1, <4>1 DEF PCBs
    <3>3. pc'[p] = "exit_dec" /\ \A q \in Slots : q # p => pc'[q] = pc[q]
      BY <3>1, Moved
    <3>4. Live' = Live /\ TreeParent' = TreeParent
      BY <3>2, <3>3, FamilyKeptBy
    <3> QED BY <1>0, <1>2, <3>1, <3>4
  <2>3. CASE pcb[par].joinID # p
    <3>1. ExitCounted(p, pcb)
      BY <2>1, <2>3, ConstTypes DEF ExitReleased
    <3> QED BY <1>0, <1>2, <3>1, ExitCountedTree
  <2> QED BY <2>2, <2>3
<1> QED BY <1>1, <1>2

\* The steps of Exit: the call puts the code on record; the step that counts
\* down at the parent, or halts the machine, is the one that leaves.
LEMMA ExitTree ==
  ASSUME CountLaws, TableInv, NEW p \in Slots
  PROVE  /\ \A ec \in Codes : SysExit(p, ec) => TreeStep
         /\ ExitP(p) => TreeStep
         /\ ExitRel(p) => TreeStep
         /\ ExitDec(p) => TreeStep
         /\ ExitFree(p) => TreeStep
<1>1. ASSUME NEW ec \in Codes, SysExit(p, ec) PROVE TreeStep
  <2>1. /\ machine = "run" /\ pc[p] = "user"
        /\ RecordExit(p, ec) /\ ret' = [ret EXCEPT ![p] = NoRet]
    BY <1>1 DEF SysExit, Running
  <2>2. p \in Live
    BY <2>1 DEF Live
  <2>3. Tree!Tell(p, ec)
    BY <2>1, <2>2, TreeTell
  <2>4. ASSUME Live' = Live, TreeParent' = TreeParent, machine' = "run" PROVE TreeStep
    <3>1. Tree!Exiting(p, ec)
      BY <2>1, <2>3, <2>4 DEF Tree!Exiting, TreeParent
    <3> QED BY <3>1 DEF Tree!TreeNext, TreeStep
  <2>5. CASE pcb[p].numwait > 0
    <3> DEFINE P == [pcb EXCEPT ![p].isExit = TRUE]
    <3>1. ExitsemP(p, P) /\ UNCHANGED machine
      BY <1>1, <2>5 DEF SysExit
    <3>2. P \in [Slots -> PCBs] /\ \A q \in Slots : P[q].parentID = pcb[q].parentID
      BY Types, ZenonT(30) DEF PCBs
    <3> HIDE DEF P
    <3> QED BY <2>1, <2>4, <3>1, <3>2, ExitsemPTree
  <2>6. CASE ~(pcb[p].numwait > 0)
    <3>1. ExitReleased(p, pcb, ec)
      BY <1>1, <2>6 DEF SysExit
    <3>2. Pending(p) = {}
      BY <2>1, <2>6, NoChild
    <3>3. CASE p = Root /\ machine' = "halted" /\ Live' = Live /\ TreeParent' = TreeParent
      <4>1. Tree!Childless(Root)
        BY <3>2, <3>3, TreeChildless
      <4>2. Tree!HaltAtOnce(ec)
        BY <2>1, <2>2, <2>3, <3>3, <4>1 DEF Tree!HaltAtOnce, Tree!Halted, TreeParent
      <4> QED BY <4>2 DEF Tree!TreeNext, TreeStep
    <3>4. CASE p # Root /\ machine' = "run" /\ Live' = Live \ {p}
               /\ TreeParent' = [TreeParent EXCEPT ![p] = NoPid]
      <4>1. Tree!Removed(p)
        BY <2>1, <2>2, <3>2, <3>4, TreeRemoved
      <4>2. Tree!ExitAtOnce(p, ec)
        BY <2>3, <4>1 DEF Tree!ExitAtOnce
      <4> QED BY <4>2 DEF Tree!TreeNext, TreeStep
    <3> QED BY <2>1, <2>4, <3>1, <3>3, <3>4, ExitReleasedTree
  <2> QED BY <2>5, <2>6
<1>2. ASSUME ExitP(p) PROVE TreeStep
  <2>1. /\ machine = "run" /\ pc[p] = "exit_P" /\ ExitsemP(p, pcb)
        /\ UNCHANGED <<machine, ret, exited>>
    BY <1>2 DEF ExitP, Running
  <2>2. Live' = Live /\ TreeParent' = TreeParent
    BY <2>1, Types, ExitsemPTree
  <2> QED BY <2>1, <2>2, TreeSame DEF TreeStep
<1>3. ASSUME p \in Live, Pending(p) = {}, p # Root, machine = "run", machine' = "run",
             Live' = Live \ {p}, TreeParent' = [TreeParent EXCEPT ![p] = NoPid],
             UNCHANGED <<ret, exited>>
      PROVE  TreeStep
  <2>1. Tree!Removed(p)
    BY <1>3, TreeRemoved
  <2>2. Tree!Leave(p)
    BY <1>3, <2>1 DEF Tree!Leave
  <2> QED BY <2>2 DEF Tree!TreeNext, TreeStep
<1>4. ASSUME ExitRel(p) PROVE TreeStep
  <2>1. /\ machine = "run" /\ pc[p] = "exit_rel"
        /\ ExitReleased(p, pcb, call[p].code) /\ UNCHANGED <<ret, exited>>
    BY <1>4 DEF ExitRel, Running
  <2>2. Pending(p) = {}
    BY <2>1, NoChild
  <2>3. CASE p = Root /\ machine' = "halted" /\ Live' = Live /\ TreeParent' = TreeParent
    <3>1. Root \in Live /\ Tree!Childless(Root)
      BY <2>1, <2>2, <2>3, TreeChildless, SMT DEF Live
    <3>2. Tree!Halt
      BY <2>1, <2>3, <3>1 DEF Tree!Halt, Tree!Halted, TreeParent
    <3> QED BY <3>2 DEF Tree!TreeNext, TreeStep
  <2>4. CASE machine' = "run" /\ Live' = Live /\ TreeParent' = TreeParent
    BY <2>1, <2>4, TreeSame DEF TreeStep
  <2> QED BY <1>3, <2>1, <2>2, <2>3, <2>4, ExitReleasedTree, SMT
<1>5. ASSUME ExitDec(p) PROVE TreeStep
  <2>1. /\ machine = "run" /\ pc[p] = "exit_dec" /\ ExitCounted(p, pcb)
        /\ UNCHANGED <<ret, exited>>
    BY <1>5 DEF ExitDec, Running
  <2>2. p # Root /\ Pending(p) = {}
    BY <2>1, NoChild, SMT DEF TableInv, RootInv
  <2> QED BY <1>3, <2>1, <2>2, ExitCountedTree, SMT
<1>6. ASSUME ExitFree(p) PROVE TreeStep
  <2>1. /\ machine = "run" /\ pc[p] = "exit_free" /\ Goto(p, "none")
        /\ pcb' = [pcb EXCEPT ![p] = NewPCB]
        /\ UNCHANGED <<machine, ret, exited>>
    BY <1>6 DEF ExitFree, ExitFreed, Running
  <2>2. /\ pc'[p] = "none" /\ \A q \in Slots : q # p => pc'[q] = pc[q]
        /\ \A q \in Slots : q # p => pcb'[q] = pcb[q]
    BY <2>1, Moved, Types
  <2>3. Live' = Live /\ TreeParent' = TreeParent
    BY <2>1, <2>2, FamilyKept DEF Live
  <2> QED BY <2>1, <2>3, TreeSame DEF TreeStep
<1> QED BY <1>1, <1>2, <1>4, <1>5, <1>6, SMT

\* A step that moves only the CPU, or nothing.
LEMMA CPUTree ==
  ASSUME UNCHANGED <<machine, pcb, pc, ret, exited>>
  PROVE  UNCHANGED Tree!treeVars
<1>1. Live' = Live /\ TreeParent' = TreeParent
  BY FamilyKept DEF Live
<1> QED BY <1>1 DEF Tree!treeVars, TreeParent

\* The initial states map to the empty tree.
LEMMA InitTree == Init => Tree!TreeInit
<1> SUFFICES ASSUME Init PROVE Tree!TreeInit
  OBVIOUS
<1>1. Live = {}
  BY DEF Init, Live
<1>2. TreeParent = [c \in Slots |-> NoPid]
  BY <1>1 DEF TreeParent
<1> QED BY <1>1, <1>2 DEF Init, Tree!TreeInit, TreeParent, Tree!NoAnswer, NoRet

\* Every step is a step of the tree or leaves it alone, one case per action.
LEMMA NextTree ==
  ASSUME CountLaws, TableInv, [Next]_vars
  PROVE  TreeStep
<1>1. ASSUME NEW f, Boot(f) PROVE TreeStep
  BY <1>1, BootTree
<1>2. ASSUME NEW p \in Slots, Step(p) PROVE TreeStep
  <2>1. CASE ScanDangling(p)
    BY <2>1, StopTree DEF ScanDangling, Running
  <2> QED BY <1>2, <2>1, ExecTree, JoinTree, ExitTree, SMT DEF Step
<1>3. CASE Preempt \/ UNCHANGED vars
  BY <1>3, CPUTree DEF Preempt, vars, tableVars, TreeStep
<1> QED BY <1>1, <1>2, <1>3 DEF Next, Quiet

-----------------------------------------------------------------------------
(* The theorems.                                                           *)

INSTANCE FiniteSetTheorems

\* What the steps need to know of sets of slots holds for a table of any size.
LEMMA CountLawsHold == CountLaws
<1>1. Cardinality({}) = 0
  BY FS_EmptySet
<1>2. ASSUME NEW S \in SUBSET Slots
      PROVE  IsFiniteSet(S) /\ Cardinality(S) \in Nat /\ (Cardinality(S) = 0 => S = {})
  <2>1. IsFiniteSet(Slots)
    BY ProcAssumption, FS_Interval, SMT DEF Slots
  <2>2. IsFiniteSet(S)
    BY <2>1, FS_Subset
  <2> QED BY <2>2, FS_CardinalityType, FS_EmptySet, SMT
<1>3. ASSUME NEW S \in SUBSET Slots, S # {} PROVE \E i \in S : \A j \in S : i <= j
  <2>1. S \subseteq Nat
    BY SMT DEF Slots
  <2>2. PICK i \in S : \A j \in S : ~(<<j, i>> \in OpToRel(<, Nat))
    BY <1>3, <2>1, WFMin, NatLessThanWellFounded
  <2>3. ASSUME NEW j \in S PROVE i <= j
    <3>1. i \in Nat /\ j \in Nat /\ ~(j < i)
      BY <2>1, <2>2, <2>3 DEF OpToRel
    <3> QED BY <3>1, SMT
  <2> QED BY <2>3
<1>4. ASSUME NEW S \in SUBSET Slots, NEW x \in Slots \ S
      PROVE  Cardinality(S \cup {x}) = Cardinality(S) + 1
  <2>1. Cardinality(S \cup {x}) = IF x \in S THEN Cardinality(S) ELSE Cardinality(S) + 1
    BY <1>2, FS_AddElement
  <2> QED BY <2>1
<1>5. ASSUME NEW S \in SUBSET Slots, NEW x \in S
      PROVE  Cardinality(S \ {x}) = Cardinality(S) - 1
  <2>1. Cardinality(S \ {x}) = IF x \in S THEN Cardinality(S) - 1 ELSE Cardinality(S)
    BY <1>2, FS_RemoveElement
  <2> QED BY <2>1
<1> QED BY <1>1, <1>2, <1>3, <1>4, <1>5, SMT DEF CountLaws

\* The inductive invariant holds in every state that Exec, Join and Exit can
\* reach, for any size of the table and of memory, with or without a timer.
THEOREM TableInvHolds == Spec => []TableInv
<1>1. Init => TableInv
  BY InitInv, CountLawsHold
<1>2. TableInv /\ [Next]_vars => TableInv'
  BY NextInv, CountLawsHold
<1> QED BY <1>1, <1>2, PTL DEF Spec

\* Every variable of the table keeps its type.
THEOREM TypeCorrect == Spec => []TypeOK
<1>1. TableInv => TypeOK
  BY SMT DEF TableInv
<1> QED BY <1>1, TableInvHolds, PTL

\* The bitmap of used slots and the PCB pointers never disagree.
THEOREM SlotsAlwaysAgree == Spec => []SlotsAgree
<1>1. TableInv => SlotsAgree
  BY SMT DEF TableInv
<1> QED BY <1>1, TableInvHolds, PTL

\* A parent's PCB is there whenever a child can still reach it in ExitUpdate.
THEOREM ParentsOutliveChildren == Spec => []ParentOutlivesChild
<1>1. TableInv => ParentOutlivesChild
  BY DEF TableInv
<1> QED BY <1>1, TableInvHolds, PTL

\* numwait is the number of children still to count down, less one exactly
\* between Fork and IncNumWait.
THEOREM NumWaitAlwaysCounts == Spec => []NumWaitCounts
<1>1. TableInv => NumWaitCounts
  BY DEF TableInv
<1> QED BY <1>1, TableInvHolds, PTL

\* A code that Join returns is the one this child passed to Exit, whatever
\* other children and later processes in the same slot have done.
THEOREM JoinsAnswerTruly == Spec => []JoinAnswersTruly
<1>1. Init => JoinAnswersTruly
  BY SMT DEF Init, JoinAnswersTruly, NoRet
<1> QED BY <1>1, NextAnswers, TableInvHolds, PTL DEF Spec

\* The table, its PCBs and semaphores implement the process tree, for every
\* size of the table and of memory, with and without a timer.
THEOREM TableImplementsTree == Spec => ImplementsTree
<1>1. TableInv /\ [Next]_vars => [Tree!TreeNext]_(Tree!treeVars)
  BY NextTree, CountLawsHold DEF TreeStep
<1> QED BY <1>1, InitTree, TableInvHolds, PTL DEF Spec, ImplementsTree, Tree!TreeSpec

\* Some process can run: one that waits has a child, and a child that waits
\* has one of its own, of a smaller rank.
LEMMA SomeoneRuns ==
  ASSUME TableInv, NoTimerInv, machine = "run"
  PROVE  current # NoThread
<1> SUFFICES ASSUME current = NoThread PROVE FALSE
  OBVIOUS
<1>1. Awake = {}
  BY ConstTypes, SMT DEF NoTimerInv, Awake, AwakeIn, Elems
<1>2. ASSUME NEW p \in Slots, pc[p] # "none" PROVE Pending(p) # {}
  <2>1. pc[p] \in {"join_P", "exit_P"}
    BY <1>1, <1>2, ConstTypes DEF NoTimerInv, Resting
  <2>2. CASE pc[p] = "join_P"
    <3>1. call[p].id \in Unreleased(p)
      BY <1>1, <2>2 DEF NoTimerInv, Joins
    <3> QED BY <3>1 DEF Unreleased, Pending
  <2>3. CASE pc[p] = "exit_P"
    <3>1. pcb[p].numwait # 0
      BY <1>1, <2>3 DEF NoTimerInv, Exits
    <3>2. Cardinality(Pending(p)) # 0
      BY <2>3, <3>1 DEF TableInv, NumWaitCounts, Counted, Counting
    <3> QED BY <3>2, FS_EmptySet
  <2> QED BY <2>1, <2>2, <2>3
<1>3. PICK rank \in [Slots -> Nat] : \A p \in Slots : \A c \in Pending(p) : rank[c] < rank[p]
  BY DEF NoTimerInv, Ranked
<1> DEFINE R == {rank[p] : p \in {q \in Slots : pc[q] # "none"}}
<1>4. R # {} /\ R \subseteq Nat
  BY ConstTypes DEF TableInv, RootInv
<1>5. PICK n \in R : \A m \in R : ~(<<m, n>> \in OpToRel(<, Nat))
  BY <1>4, WFMin, NatLessThanWellFounded, ZenonT(30)
<1>6. PICK p \in Slots : pc[p] # "none" /\ n = rank[p]
  OBVIOUS
<1>7. PICK c \in Slots : c \in Pending(p) /\ pc[c] # "none"
  BY <1>2, <1>6, SMT DEF Pending
<1>8. rank[c] \in R /\ rank[c] \in Nat /\ rank[p] \in Nat /\ rank[c] < rank[p]
  BY <1>3, <1>6, <1>7
<1> QED BY <1>5, <1>6, <1>8 DEF OpToRel

\* The invariant of a kernel without a timer: inside the kernel only the
\* running process is anywhere but at a wait, and every wait is for a child
\* or already over.
THEOREM NoTimerInvHolds == ASSUME ~RandomYield PROVE Spec => []NoTimerInv
<1>1. TableInv /\ NoTimerInv /\ [Next]_vars => NoTimerInv'
  BY NextNoTimer, CountLawsHold
<1> QED BY <1>1, InitNoTimer, TableInvHolds, PTL DEF Spec

\* Without a timer the child's PCB is there until PCB::Exec, which runs on
\* it, has returned: the parent keeps the CPU from Fork to IncNumWait.
THEOREM PCBsOutliveExec == ASSUME ~RandomYield PROVE Spec => []PCBOutlivesExec
<1>1. NoTimerInv => PCBOutlivesExec
  BY DEF NoTimerInv
<1> QED BY <1>1, NoTimerInvHolds, PTL

\* Without a timer no joiner sleeps for a child that has released its parent
\* or is gone, and the waits of Exec, Join and Exit never leave every
\* process asleep.
THEOREM JoinersAreNotStranded == ASSUME ~RandomYield PROVE Spec => []JoinNotStranded
<1>1. TableInv /\ NoTimerInv => JoinNotStranded
  <2> SUFFICES ASSUME TableInv, NoTimerInv PROVE JoinNotStranded
    OBVIOUS
  <2>1. ASSUME NEW p \in Slots, pc[p] = "join_P", pcb[p].joinsem.value = 0
        PROVE  ptr[call[p].id] = "live" /\ pcb[call[p].id].parentID = p
    <3>1. call[p].id \in Unreleased(p)
      BY <2>1, SMT DEF NoTimerInv, Joins
    <3> QED BY <3>1 DEF TableInv, RootInv, Unreleased
  <2> QED BY <2>1, SomeoneRuns DEF JoinNotStranded
<1> QED BY <1>1, NoTimerInvHolds, TableInvHolds, PTL
=============================================================================
