-------------------------------- MODULE Switch --------------------------------
(***************************************************************************)
(* The context switch of threads/switch.c on the i386, with the record of  *)
(* registers that threads/switch.h lays over a Thread object, and          *)
(* Thread::StackAllocate, which makes the first one.                       *)
(*                                                                         *)
(* A word is <<what, thread, where>>.  A record has the registers and PC;  *)
(* its esp is stackTop.  Of a stack only the word on top is modelled, the  *)
(* return address: SWITCH's arguments below it are dead when it returns,   *)
(* and so is the copy of PC that it puts over the first of them.           *)
(***************************************************************************)
EXTENDS Naturals

Registers == {"eax", "ebx", "ecx", "edx", "esi", "edi", "ebp", "esp"}

StackOf(t) == <<"stack", t, "top">>
ThreadRoot(t) == <<"ThreadRoot", t, "code">>

\* What is in a record, or in the registers, before they are set.
Junk(t) == [r \in Registers \cup {"PC"} |-> <<"junk", t, r>>]

\* func and arg are the thread's own.  ThreadRoot is also put on top of the
\* stack.
StackAllocate(t) ==
  [Junk(t) EXCEPT !.esp = StackOf(t),
                  !.PC = ThreadRoot(t),
                  !.ecx = <<"InterruptEnable", t, "code">>,
                  !.esi = <<"func", t, "code">>,
                  !.edx = <<"arg", t, "data">>,
                  !.edi = <<"ThreadFinish", t, "code">>]

\* What the calls of ThreadRoot find, in their order: StartupPC, InitialPC
\* with InitialArg, and WhenDonePC.
RootCalls(cpu) == <<cpu.ecx, cpu.esi, cpu.edx, cpu.edi>>

\* Fault: ebx is saved after it was used to move eax.
Save_EbxLate(cpu, top) == [cpu EXCEPT !.ebx = cpu.eax, !.PC = top]

\* The first half of SWITCH: the record of t1.
Save(cpu, top) == [cpu EXCEPT !.PC = top]

\* The second half: the registers from the record of t2, and the jump to
\* the word on top of the stack that has become the CPU's.
Restore(record, stack) == [record EXCEPT !.PC = stack[record.esp[2]]]

SWITCH(cpu, record, stack, t1, t2) ==
  LET saved == [record EXCEPT ![t1] = Save(cpu, stack[t1])]
  IN  [record |-> saved, cpu |-> Restore(saved[t2], stack)]
=============================================================================
