------------------------------- MODULE Machine -------------------------------
(***************************************************************************)
(* User programs on the simulated machine: Machine::Run, the exceptions of *)
(* machine/machine.cc and userprog/exception.cc, the registers and page    *)
(* tables that the context switch of threads/scheduler.cc changes, and the *)
(* address spaces that Exec and Exit make and delete.                      *)
(*                                                                         *)
(* status[t] of a thread that runs a user program:                         *)
(*   "none", "new" (forked), "starting" (in ThreadRoot, interrupts on),    *)
(*   "user", "kernel" (in the handler of a system call), "done"            *)
(*                                                                         *)
(* What the calls do elsewhere is left to the other modules; here a call   *)
(* gives a value to register 2.  solo[t] is the program of t on a machine  *)
(* of its own, with the object file loaded by load_program.                *)
(***************************************************************************)
EXTENDS Execute, AddrSpace

CONSTANTS ThreadIds,  \* numbered from 1, the root program
          Coff,       \* the object files, by name
          Roots,      \* names that the machine may be started with
          Children,   \* names that Exec may be given
          Values      \* what a call may return

ASSUME MachineAssumption ==
  /\ 1 \in ThreadIds /\ ThreadIds \subseteq Nat
  /\ Roots \cup Children \subseteq DOMAIN Coff
  /\ Values \subseteq Word

VARIABLES machine,           \* "run", "halted" or "aborted"
          registers, mainMemory,
          pageTable,         \* the thread whose page table the machine has
          gPhysPageBitMap,   \* the marked frames
          current, status,
          space,             \* the page table of each thread's space
          userRegisters, program, solo

vars == <<machine, registers, mainMemory, pageTable, gPhysPageBitMap, current,
          status, space, userRegisters, program, solo>>

Noff(name) == coff2noff(Coff[name])
Cpu == [reg |-> registers, mem |-> mainMemory, pt |-> space[pageTable]]
Live == {t \in ThreadIds : status[t] \notin {"none", "done"}}
Others == Live \ {current}

\* AddrSpace::InitRegisters.
InitRegisters(pages) ==
  [r \in Registers |-> CASE r = NextPCReg -> 4
                         [] r = 29 -> pages * PageSize - 16
                         [] OTHER -> 0]

\* The program alone: one frame for each of its pages, in order.
Alone(name) ==
  LET n == numPages(Noff(name))
  IN  [reg |-> InitRegisters(n), mem |-> load_program(Coff[name], n * PageSize),
       pt |-> [k \in 1 .. n |-> Entry(k - 1)]]

-----------------------------------------------------------------------------
(* Machine::Run in user mode.                                              *)

Running(t, st) == machine = "run" /\ current = t /\ status[t] = st

\* The state after OneInstruction, up to the call of ExceptionHandler.
AfterInstruction(m, out) ==
  IF out.exc = "No" THEN out.s
  ELSE [out.s EXCEPT !.reg = RaiseException(@, out.bad)]

\* ExceptionHandler prints and halts on everything but a system call.
Instruction(t) ==
  LET out == OneInstruction(Cpu)
      after == AfterInstruction(Cpu, out)
  IN  /\ Running(t, "user")
      /\ registers' = after.reg
      /\ mainMemory' = after.mem
      /\ space' = [space EXCEPT ![pageTable] = after.pt]
      /\ status' = [status EXCEPT ![t] = IF out.exc = "Syscall" THEN "kernel"
                                         ELSE @]
      /\ machine' = CASE out.exc \in {"No", "Syscall"} -> "run"
                      [] out.exc = "Assert" -> "aborted"
                      [] OTHER -> "halted"
      /\ solo' = [solo EXCEPT ![t] = AfterInstruction(@, OneInstruction(@))]
      /\ UNCHANGED <<pageTable, gPhysPageBitMap, current, userRegisters, program>>

\* An interrupt handler runs after an instruction (CheckIfDue).
Interrupted(t) ==
  /\ Running(t, "user")
  /\ registers[LoadReg] # 0
  /\ registers' = DelayedLoad(registers, 0, 0)
  /\ UNCHANGED <<machine, mainMemory, pageTable, gPhysPageBitMap, current,
                 status, space, userRegisters, program, solo>>

-----------------------------------------------------------------------------
(* Scheduler::Run.                                                         *)

\* Fault: the page table of the last thread stays in use.
RunThread_KeepsTable(u, r) ==
  /\ userRegisters' = [userRegisters EXCEPT ![current] = r]
  /\ current' = u
  /\ registers' = IF status[u] = "new" THEN r ELSE userRegisters[u]
  /\ UNCHANGED pageTable

\* The CPU goes from a thread with registers r to thread u: SaveUserState,
\* RestoreUserState and RestoreState.  A thread that runs for the first time
\* begins in ThreadRoot, and nothing is restored.
RunThread(u, r) ==
  /\ userRegisters' = [userRegisters EXCEPT ![current] = r]
  /\ current' = u
  /\ IF status[u] = "new"
     THEN registers' = r /\ UNCHANGED pageTable
     ELSE registers' = userRegisters[u] /\ pageTable' = u

Starts(st, u) ==
  IF st[u] = "new" THEN [st EXCEPT ![u] = "starting"] ELSE st

\* A timer interrupt in user mode, or a wait or an interrupt in the kernel.
Switch(t, u) ==
  /\ machine = "run" /\ current = t /\ u \in Others
  /\ RunThread(u, IF status[t] = "user" THEN DelayedLoad(registers, 0, 0)
                  ELSE registers)
  /\ status' = Starts(status, u)
  /\ UNCHANGED <<machine, mainMemory, gPhysPageBitMap, space, program, solo>>

\* exec_func: InitRegisters, RestoreState, and Machine::Run.
Start(t) ==
  /\ Running(t, "starting")
  /\ registers' = InitRegisters(Len(space[t]))
  /\ pageTable' = t
  /\ status' = [status EXCEPT ![t] = "user"]
  /\ UNCHANGED <<machine, mainMemory, gPhysPageBitMap, current, space,
                 userRegisters, program, solo>>

-----------------------------------------------------------------------------
(* System calls, by the number in register 2.                              *)

SC_Halt == 0
SC_Exit == 1
SC_Exec == 2
NotImplemented == {9, 10}        \* SC_Fork, SC_Yield
Silent == {12, 22}               \* SC_PrintInt, SC_Close: no return value
Returning == {3} \cup ((11 .. 25) \ Silent)

\* Back to the user program with register 2 = v.
Resume(t, v) ==
  /\ registers' = AdjustPCRegs([registers EXCEPT ![2] = v])
  /\ status' = [status EXCEPT ![t] = "user"]
  /\ solo' = [solo EXCEPT ![t].reg = AdjustPCRegs([@ EXCEPT ![2] = v])]

Call(t) == Running(t, "kernel")

\* The calls that other modules describe.
Return(t, v) ==
  /\ Call(t)
  /\ registers[2] \in Returning \cup Silent
  /\ registers[2] \in Silent => v = registers[2]
  /\ Resume(t, v)
  /\ UNCHANGED <<machine, mainMemory, pageTable, gPhysPageBitMap, current,
                 space, userRegisters, program>>

\* Halt, the calls that are not implemented, and a number that is none.
HaltCall(t) ==
  /\ Call(t)
  /\ registers[2] \notin {SC_Exit, SC_Exec} \cup Returning \cup Silent
  /\ machine' = IF registers[2] \in {SC_Halt} \cup NotImplemented
                THEN "halted" ELSE "aborted"
  /\ UNCHANGED <<registers, mainMemory, pageTable, gPhysPageBitMap, current,
                 status, space, userRegisters, program, solo>>

\* PCB::Exec of program name in a new thread u; the assertion on the number
\* of clear bits stops the machine.
Exec(t, u, name) ==
  LET noff == Noff(name)
      new == NewSpace(noff, gPhysPageBitMap, mainMemory)
  IN  /\ Call(t)
      /\ registers[2] = SC_Exec
      /\ status[u] = "none"
      /\ noff.ok
      /\ IF numPages(noff) > NumClear(gPhysPageBitMap)
         THEN /\ machine' = "aborted"
              /\ UNCHANGED <<registers, mainMemory, gPhysPageBitMap, status,
                             space, program, solo>>
         ELSE /\ mainMemory' = new.mem
              /\ gPhysPageBitMap' = new.map
              /\ space' = [space EXCEPT ![u] = new.pt]
              /\ program' = [program EXCEPT ![u] = name]
              /\ registers' = AdjustPCRegs([registers EXCEPT ![2] = u])
              /\ solo' = [solo EXCEPT
                            ![u] = Alone(name),
                            ![t].reg = AdjustPCRegs([@ EXCEPT ![2] = u])]
              /\ status' = [status EXCEPT ![t] = "user", ![u] = "new"]
              /\ UNCHANGED machine
      /\ UNCHANGED <<pageTable, current, userRegisters>>

\* Exec fails: coff2noff has removed its output, or no process is free.
ExecFails(t, name) ==
  /\ Call(t)
  /\ registers[2] = SC_Exec
  /\ ~Noff(name).ok \/ \A u \in ThreadIds : status[u] # "none"
  /\ Resume(t, Wrap(-1))
  /\ UNCHANGED <<machine, mainMemory, pageTable, gPhysPageBitMap, current,
                 space, userRegisters, program>>

\* PTable::ExitUpdate, once the children are gone: the root halts the
\* machine; another thread deletes its space, and the next one runs.
Exit(t) ==
  /\ Call(t)
  /\ registers[2] = SC_Exit
  /\ IF t = 1
     THEN /\ Others = {}
          /\ machine' = "halted"
          /\ UNCHANGED <<registers, pageTable, gPhysPageBitMap, current, status,
                         space, userRegisters>>
     ELSE \E u \in Others :
            /\ gPhysPageBitMap' = DeleteSpace(space[t], gPhysPageBitMap)
            /\ space' = [space EXCEPT ![t] = <<>>]
            /\ RunThread(u, registers)
            /\ status' = Starts([status EXCEPT ![t] = "done"], u)
            /\ UNCHANGED machine
  /\ UNCHANGED <<mainMemory, program, solo>>

-----------------------------------------------------------------------------
(* test/start.s, which every program is linked with.  The assembler puts a *)
(* nop behind a jump.                                                      *)

I(op, rt, rs, imm) == [op |-> op, rs |-> rs, rt |-> rt, rd |-> 0, funct |-> "", imm |-> imm]
R(f, rd, rs, rt, sh) == [op |-> "SPECIAL", rs |-> rs, rt |-> rt, rd |-> rd, funct |-> f, imm |-> sh]

\* __start, with the places of main and Exit in words.
Startup(main, exit) ==
  <<I("JAL", 0, 0, main), Nop, R("ADDU", 4, 0, 0, 0), I("JAL", 0, 0, exit), Nop>>

\* The stub of a system call.
Stub(code) ==
  <<I("ADDIU", 2, 0, code), R("SYSCALL", 0, 0, 0, 0), R("JR", 0, 31, 0, 0), Nop>>

-----------------------------------------------------------------------------
\* Machine::Machine.
NewMachine == [registers |-> [r \in Registers |-> 0],
               mainMemory |-> [a \in 0 .. NumPhysPages * PageSize - 1 |-> 0]]

\* The root program is loaded into a new machine, and its thread takes the
\* place of the thread that main() began in.
Init ==
  \E name \in Roots :
    LET new == NewSpace(Noff(name), BitMap, NewMachine.mainMemory)
    IN  /\ machine = "run"
        /\ mainMemory = new.mem
        /\ gPhysPageBitMap = new.map
        /\ registers = InitRegisters(Len(new.pt))
        /\ pageTable = 1 /\ current = 1
        /\ status = [t \in ThreadIds |-> IF t = 1 THEN "user" ELSE "none"]
        /\ space = [t \in ThreadIds |-> IF t = 1 THEN new.pt ELSE <<>>]
        /\ userRegisters = [t \in ThreadIds |-> NewMachine.registers]
        /\ program = [t \in ThreadIds |-> name]
        /\ solo = [t \in ThreadIds |-> Alone(name)]

Stopped == machine # "run" /\ UNCHANGED vars

Next ==
  \/ \E t \in ThreadIds :
       \/ Instruction(t) \/ Interrupted(t) \/ Start(t)
       \/ \E v \in Values : Return(t, v)
       \/ HaltCall(t) \/ Exit(t)
       \/ \E u \in ThreadIds : Switch(t, u)
       \/ \E name \in Children :
            ExecFails(t, name) \/ \E u \in ThreadIds : Exec(t, u, name)
  \/ Stopped

Spec == Init /\ [][Next]_vars

-----------------------------------------------------------------------------
(* Properties.                                                             *)

TypeOK ==
  /\ machine \in {"run", "halted", "aborted"}
  /\ registers \in [Registers -> Word]
  /\ DOMAIN mainMemory = 0 .. NumPhysPages * PageSize - 1
  /\ gPhysPageBitMap \subseteq FrameNumbers
  /\ \A t \in ThreadIds : \A k \in DOMAIN space[t] :
       space[t][k].physicalPage \in FrameNumbers
  /\ current \in Live /\ pageTable \in ThreadIds
  /\ status \in [ThreadIds -> {"none", "new", "starting", "user", "kernel", "done"}]
  /\ userRegisters \in [ThreadIds -> [Registers -> Word]]

Frames(t) == {space[t][k].physicalPage : k \in DOMAIN space[t]}

\* A frame belongs to one page of one program, and the bit map marks exactly
\* the frames that some program has: Exec never hands out a frame twice, and
\* Exit gives back all it had.
FramesOwned ==
  /\ TypeOK
  /\ \A t \in ThreadIds : Cardinality(Frames(t)) = Len(space[t])
  /\ \A t, u \in ThreadIds : t # u => Frames(t) \cap Frames(u) = {}
  /\ gPhysPageBitMap = UNION {Frames(t) : t \in ThreadIds}

\* What thread t has in memory, by virtual address.
View(t) ==
  [v \in 0 .. Len(space[t]) * PageSize - 1 |->
     mainMemory[space[t][(v \div PageSize) + 1].physicalPage * PageSize
                  + (v % PageSize)]]

\* The program that Exec loaded page by page, through the NOFF file and into
\* whatever frames were free, is the object file section by section: every
\* byte at its address, and zero elsewhere, also in frames used before, until
\* its first instruction.
LoadedWhole ==
  \A t \in ThreadIds :
    t \in Live /\ solo[t].reg = InitRegisters(Len(space[t])) =>
      LET flat == coff2flat(Coff[program[t]])
      IN  /\ View(t) = load_program(Coff[program[t]], Len(space[t]) * PageSize)
          /\ DOMAIN flat \subseteq DOMAIN View(t)
          /\ \A a \in DOMAIN flat : flat[a] = View(t)[a]

Settled(r) == DelayedLoad(r, 0, 0)

\* A program cannot tell that others run: at any switch, interrupt, call,
\* Exec and Exit, its registers and its memory are what they are when it has
\* the machine to itself, but for a load that an interrupt completes early.
RunsAsAlone ==
  machine = "run" =>
    \A t \in Live \ {u \in ThreadIds : status[u] \in {"new", "starting"}} :
      /\ Settled(IF t = current THEN registers ELSE userRegisters[t])
           = Settled(solo[t].reg)
      /\ View(t) = solo[t].mem

Stepped(t) == status[t] = "user" /\ solo'[t] # solo[t]

\* The instruction that solo[t] executes next.
NextRaw(t) == Raw(ReadMem(solo[t], solo[t].reg[PCReg], 4))

\* The step of solo[t] leaves what execute.c leaves: registers and memory,
\* but for the high word of a product, which execute.c does not compute.
AsInExecute(t) ==
  LET reg == Settled(solo[t].reg)
      out == runprogram(reg, solo[t].mem, NextRaw(t))
      HighOf == IF NextRaw(t).funct \in {"MULT", "MULTU"} THEN {HiReg} ELSE {}
  IN  /\ solo'[t].mem = out.mem
      /\ \A k \in (GPRegs \cup HiReg .. NextPCReg) \ ({0} \cup HighOf) :
           Settled(solo'[t].reg)[k] = out.reg[k]

\* The double-length product of the operands, signed or not.
IsProduct(t) ==
  LET raw == NextRaw(t)
      a == solo[t].reg[raw.rs]
      b == solo[t].reg[raw.rt]
      double == solo'[t].reg[HiReg] * 2 ^ W + solo'[t].reg[LoReg]
  IN  /\ OpCode(raw) = "MULT" => double = (Signed(a) * Signed(b)) % 2 ^ (2 * W)
      /\ OpCode(raw) = "MULTU" => double = a * b

\* Both interpreters compute the same, but for the known differences: when
\* an instruction completes, mipssim.cc leaves what execute.c leaves.  And
\* Mult, with its shifts and carries, computes the product of its operands.
InterpretersAgree ==
  [][\A t \in ThreadIds :
       Stepped(t) =>
         /\ /\ OneInstruction(solo[t]).exc = "No"
            /\ solo[t].reg[LoadReg] = 0
            /\ ~KnownToDiffer(NextRaw(t), Settled(solo[t].reg))
            => AsInExecute(t)
         /\ IsProduct(t)]_vars
=============================================================================
