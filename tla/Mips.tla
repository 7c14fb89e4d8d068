-------------------------------- MODULE Mips --------------------------------
(***************************************************************************)
(* The simulated MIPS R2000 of machine/mipssim.cc with the address         *)
(* translation of machine/translate.cc, as functions on the part of the    *)
(* machine one instruction can see:                                        *)
(*   s.reg  Machine::registers, numbered as in machine.h                   *)
(*   s.mem  mainMemory, byte by byte                                       *)
(*   s.pt   the page table in use (pages are numbered from 1)              *)
(*                                                                         *)
(* A byte has ByteBits bits and a word four bytes; the 32-bit constants of *)
(* the code are scaled to it.  The byte of an instruction in memory is     *)
(* 2^ByteBits or more and says which instruction of Text it belongs to and *)
(* which byte of it it is; a program that reads it as data gets its value  *)
(* modulo 2^ByteBits.                                                      *)
(***************************************************************************)
EXTENDS PhysMem, Sequences, Bitwise

CONSTANTS ByteBits,     \* 8 in the code
          JumpRegion,   \* 2^28: what the target of J and JAL spans
          GPRegs,       \* the general registers programs use, 0 and 31 in it
          Text          \* the instructions that programs are made of

ASSUME MipsAssumption ==
  /\ ByteBits \in Nat \ {0}
  /\ {0, 31} \subseteq GPRegs /\ GPRegs \subseteq 0 .. 31

W == 4 * ByteBits
Half == 2 * ByteBits
Word == 0 .. 2 ^ W - 1
Wrap(x) == x % 2 ^ W

\* A register as a C int, and a field of the given width as a word.
Signed(x) == IF x < 2 ^ (W - 1) THEN x ELSE x - 2 ^ W
SignExtend(x, bits) ==
  LET field == x % 2 ^ bits
  IN  Wrap(IF field < 2 ^ (bits - 1) THEN field ELSE field - 2 ^ bits)
LowHalf(x) == x % 2 ^ Half
Negative(x) == x >= 2 ^ (W - 1)
Complement(x) == 2 ^ W - 1 - x
Truth(b) == IF b THEN 1 ELSE 0

HiReg == 32
LoReg == 33
PCReg == 34
NextPCReg == 35
PrevPCReg == 36
LoadReg == 37
LoadValueReg == 38
BadVAddrReg == 39
Registers == GPRegs \cup HiReg .. BadVAddrReg

-----------------------------------------------------------------------------
(* Memory.                                                                 *)

\* With the page table (there is no TLB in this build).
Translate(s, addr, size, writing) ==
  LET vpn == addr \div PageSize + 1
      entry == s.pt[vpn]
      Fails(e) == [exc |-> e, phys |-> 0, pt |-> s.pt]
  IN  IF addr % size # 0 \/ vpn > Len(s.pt) THEN Fails("AddressError")
      ELSE IF ~entry.valid THEN Fails("PageFault")
      ELSE IF entry.readOnly /\ writing THEN Fails("ReadOnly")
      ELSE IF entry.physicalPage >= NumPhysPages THEN Fails("BusError")
      ELSE [exc |-> "No",
            phys |-> entry.physicalPage * PageSize + (addr % PageSize),
            pt |-> [s.pt EXCEPT ![vpn].use = TRUE,
                                ![vpn].dirty = @ \/ writing]]

\* The value of size bytes of memory, least significant first.
Assemble(mem, phys, size) ==
  LET from[k \in 0 .. size] ==
        IF k = size THEN 0
        ELSE (mem[phys + k] % 2 ^ ByteBits) + 2 ^ ByteBits * from[k + 1]
  IN  from[0]

ReadMem(s, addr, size) ==
  LET t == Translate(s, addr, size, FALSE)
  IN  [exc |-> t.exc, bad |-> addr, s |-> [s EXCEPT !.pt = t.pt],
       first |-> s.mem[t.phys],
       value |-> IF t.exc # "No" THEN 0 ELSE Assemble(s.mem, t.phys, size)]

WriteMem(s, addr, size, value) ==
  LET t == Translate(s, addr, size, TRUE)
      ByteOf(a) == (value \div 2 ^ (ByteBits * (a - t.phys))) % 2 ^ ByteBits
  IN  [exc |-> t.exc, bad |-> addr,
       s |-> IF t.exc # "No" THEN s
             ELSE [s EXCEPT !.pt = t.pt,
                     !.mem = [a \in DOMAIN @ |->
                                IF a \in t.phys .. t.phys + size - 1
                                THEN ByteOf(a) ELSE @[a]]]]

-----------------------------------------------------------------------------
(* Instruction::Decode.  An instruction of Text has the fields op (the     *)
(* name opTable gives its upper bits), rs, rt, rd, funct (the name         *)
(* specialTable gives its lower bits) and imm: the immediate, the shift    *)
(* amount or the target, whichever its format has.                         *)

\* Only I-format immediates have a sign.
Extra(raw) ==
  IF raw.op \in {"SPECIAL", "J", "JAL"} THEN raw.imm
  ELSE SignExtend(raw.imm, Half)

OpCode(raw) ==
  CASE raw.op = "SPECIAL" -> raw.funct
    [] raw.op = "BCOND" -> CASE raw.rt = 0 -> "BLTZ"
                             [] raw.rt = 1 -> "BGEZ"
                             [] raw.rt = 16 -> "BLTZAL"
                             [] raw.rt = 17 -> "BGEZAL"
                             [] OTHER -> "UNIMP"
    [] OTHER -> raw.op

\* The instructions that the simulator tells apart; it does nothing for UNIMP
\* and RES but raise an exception, and opTable and specialTable give RFE to
\* no instruction.
OpCodes ==
  {"ADD", "ADDI", "ADDIU", "ADDU", "AND", "ANDI", "BEQ", "BGEZ", "BGEZAL", "BGTZ",
   "BLEZ", "BLTZ", "BLTZAL", "BNE", "DIV", "DIVU", "J", "JAL", "JALR", "JR", "LB",
   "LBU", "LH", "LHU", "LUI", "LW", "LWL", "LWR", "MFHI", "MFLO", "MTHI", "MTLO",
   "MULT", "MULTU", "NOR", "OR", "ORI", "RFE", "SB", "SH", "SLL", "SLLV", "SLT",
   "SLTI", "SLTIU", "SLTU", "SRA", "SRAV", "SRL", "SRLV", "SUB", "SUBU", "SW",
   "SWL", "SWR", "XOR", "XORI", "SYSCALL", "UNIMP", "RES"}

ASSUME TextAssumption == \A k \in DOMAIN Text : OpCode(Text[k]) \in OpCodes \ {"RFE"}

Nop == [op |-> "SPECIAL", funct |-> "SLL", rs |-> 0, rt |-> 0, rd |-> 0, imm |-> 0]

\* The instruction that ReadMem found.  Of the words that are none of Text, 0
\* is SLL r0,r0,0 and the others are taken to be reserved.
Raw(m) == IF m.first >= 2 ^ ByteBits THEN Text[(m.first - 2 ^ ByteBits) \div 4]
          ELSE IF m.value = 0 THEN Nop ELSE [Nop EXCEPT !.funct = "RES"]

Decode(m) ==
  LET raw == Raw(m)
  IN  [op |-> OpCode(raw), rs |-> raw.rs, rt |-> raw.rt, rd |-> raw.rd,
       extra |-> Extra(raw)]

-----------------------------------------------------------------------------
(* Mult: shift and add on the absolute values, then the sign.              *)

\* lo += bLo, with the carry into hi, and hi += bHi.
MultAdd(acc, bHi, bLo) ==
  LET lo == Wrap(acc.lo + bLo)
  IN  [lo |-> lo, hi |-> Wrap(acc.hi + Truth(lo < bLo) + bHi)]

Mult(a, b, signedArith) ==
  LET Abs(x) == IF signedArith /\ Negative(x) THEN Wrap(-x) ELSE x
      negative == signedArith /\ (Negative(a) # Negative(b))
      \* turn[i] is the state at the head of turn i of the loop
      turn[i \in 0 .. W] ==
        IF i = 0 THEN [a |-> Abs(a), bLo |-> Abs(b), bHi |-> 0,
                       acc |-> [lo |-> 0, hi |-> 0], stop |-> FALSE]
        ELSE LET p == turn[i - 1]
                 odd == p.a % 2 = 1
             IN  IF p.stop THEN p
                 ELSE [a |-> Wrap(Signed(p.a) \div 2),
                       bLo |-> Wrap(2 * p.bLo),
                       bHi |-> Wrap(2 * p.bHi) + Truth(Negative(p.bLo)),
                       acc |-> IF odd THEN MultAdd(p.acc, p.bHi, p.bLo)
                               ELSE p.acc,
                       stop |-> odd /\ p.a < 2]
      r == turn[W].acc
      lo == Wrap(Complement(r.lo) + 1)
  IN  IF a = 0 \/ b = 0 THEN [hi |-> 0, lo |-> 0]
      ELSE IF ~negative THEN r
      ELSE [lo |-> lo, hi |-> Wrap(Complement(r.hi) + Truth(lo = 0))]

\* C's division truncates towards zero; the code gives 0, 0 for a divisor 0.
Div(a, b) ==
  LET Abs(x) == IF x < 0 THEN -x ELSE x
      q == IF (a < 0) = (b < 0) THEN Abs(a) \div Abs(b)
           ELSE -(Abs(a) \div Abs(b))
  IN  IF b = 0 THEN [lo |-> 0, hi |-> 0]
      ELSE [lo |-> Wrap(q), hi |-> Wrap(a - b * q)]

-----------------------------------------------------------------------------
(* Machine::OneInstruction.                                                *)

ImmediateOps ==
  {"ADDI", "ADDIU", "ANDI", "LUI", "ORI", "SLTI", "SLTIU", "XORI"}
LinkOps == {"JAL", "BGEZAL", "BLTZAL"}
LoadOps == {"LB", "LBU", "LH", "LHU", "LW", "LWL", "LWR"}
StoreOps == {"SB", "SH", "SW", "SWL", "SWR"}
BranchOps == {"BEQ", "BNE", "BGEZ", "BGEZAL", "BGTZ", "BLEZ", "BLTZ", "BLTZAL"}

\* The sign tests of ADD, ADDI and SUB.
Overflows(i, s, t) ==
  CASE i.op = "ADD" -> /\ Negative(s) = Negative(t)
                       /\ Negative(s) # Negative(Wrap(s + t))
    [] i.op = "ADDI" -> /\ Negative(s) = Negative(i.extra)
                        /\ Negative(i.extra) # Negative(Wrap(s + i.extra))
    [] i.op = "SUB" -> /\ Negative(s) # Negative(t)
                       /\ Negative(s) # Negative(Wrap(s - t))
    [] OTHER -> FALSE

ShiftLeft(x, n) == Wrap(x * 2 ^ n)
ShiftRight(x, n) == Wrap(Signed(x) \div 2 ^ n)  \* of an int: the sign is kept

\* What an instruction without a memory access puts in rd or rt.  OR reads rs
\* twice, and SRL and SRLV shift an int.
Result(i, s, t, r) ==
  CASE i.op \in {"ADD", "ADDU"} -> Wrap(s + t)
    [] i.op \in {"ADDI", "ADDIU"} -> Wrap(s + i.extra)
    [] i.op \in {"SUB", "SUBU"} -> Wrap(s - t)
    [] i.op = "AND" -> s & t
    [] i.op = "ANDI" -> s & LowHalf(i.extra)
    [] i.op = "OR" -> s | s
    [] i.op = "ORI" -> s | LowHalf(i.extra)
    [] i.op = "XOR" -> s ^^ t
    [] i.op = "XORI" -> s ^^ LowHalf(i.extra)
    [] i.op = "NOR" -> Complement(s | t)
    [] i.op = "LUI" -> Wrap(i.extra * 2 ^ Half)
    [] i.op = "SLL" -> ShiftLeft(t, i.extra)
    [] i.op = "SLLV" -> ShiftLeft(t, s % W)
    [] i.op \in {"SRA", "SRL"} -> ShiftRight(t, i.extra)
    [] i.op \in {"SRAV", "SRLV"} -> ShiftRight(t, s % W)
    [] i.op = "SLT" -> Truth(Signed(s) < Signed(t))
    [] i.op = "SLTI" -> Truth(Signed(s) < Signed(i.extra))
    [] i.op = "SLTU" -> Truth(s < t)
    [] i.op = "SLTIU" -> Truth(s < i.extra)
    [] i.op = "MFHI" -> r[HiReg]
    [] i.op = "MFLO" -> r[LoReg]
    [] i.op = "JALR" -> Wrap(r[NextPCReg] + 4)

\* The pair that the multiplications and divisions, MTHI and MTLO leave.
HiLo(i, s, t, r) ==
  CASE i.op = "MULT" -> Mult(s, t, TRUE)
    [] i.op = "MULTU" -> Mult(s, t, FALSE)
    [] i.op = "DIV" -> Div(Signed(s), Signed(t))
    [] i.op = "DIVU" -> Div(s, t)
    [] i.op = "MTHI" -> [hi |-> s, lo |-> r[LoReg]]
    [] i.op = "MTLO" -> [hi |-> r[HiReg], lo |-> s]
    [] OTHER -> [hi |-> r[HiReg], lo |-> r[LoReg]]

\* The registers after such an instruction, before the delayed load.
Compute(i, r) ==
  LET s == r[i.rs]
      t == r[i.rt]
      hilo == HiLo(i, s, t, r)
  IN  IF i.op \in {"MULT", "MULTU", "DIV", "DIVU", "MTHI", "MTLO"}
      THEN [r EXCEPT ![HiReg] = hilo.hi, ![LoReg] = hilo.lo]
      ELSE IF i.op \in LinkOps THEN [r EXCEPT ![31] = Wrap(r[NextPCReg] + 4)]
      ELSE IF i.op \in BranchOps \cup {"J", "JR"} THEN r
      ELSE [r EXCEPT ![IF i.op \in ImmediateOps THEN i.rt ELSE i.rd] =
                       Result(i, s, t, r)]

Taken(i, r) ==
  LET s == r[i.rs]
  IN  CASE i.op = "BEQ" -> s = r[i.rt]
        [] i.op = "BNE" -> s # r[i.rt]
        [] i.op \in {"BGEZ", "BGEZAL"} -> ~Negative(s)
        [] i.op \in {"BLTZ", "BLTZAL"} -> Negative(s)
        [] i.op = "BGTZ" -> Signed(s) > 0
        [] i.op = "BLEZ" -> Signed(s) <= 0
        [] OTHER -> FALSE

\* Fault: a branch is relative to the instruction after the delay slot.
PcAfter_DelaySlot(i, r) ==
  LET next == Wrap(r[NextPCReg] + 4)
  IN  CASE i.op \in {"J", "JAL"} ->
             (next - (next % JumpRegion)) + 4 * i.extra
        [] i.op \in {"JR", "JALR"} -> r[i.rs]
        [] Taken(i, r) -> Wrap(next + 4 * i.extra)
        [] OTHER -> next

\* r has what the instruction wrote, as JALR reads rs after it wrote rd.
PcAfter(i, r) ==
  LET next == Wrap(r[NextPCReg] + 4)
  IN  CASE i.op \in {"J", "JAL"} ->
             (next - (next % JumpRegion)) + 4 * i.extra
        [] i.op \in {"JR", "JALR"} -> r[i.rs]
        [] Taken(i, r) -> Wrap(r[NextPCReg] + 4 * i.extra)
        [] OTHER -> next

\* The load in progress is done, and another one begins.
DelayedLoad(r, nextReg, nextValue) ==
  [[r EXCEPT ![r[LoadReg]] = r[LoadValueReg]]
     EXCEPT ![LoadReg] = nextReg, ![LoadValueReg] = nextValue, ![0] = 0]

\* An instruction that completes: the delayed load, then the PCs.
Retire(s, loadReg, loadValue, pcAfter) ==
  LET r == DelayedLoad(s.reg, loadReg, loadValue)
  IN  [exc |-> "No", bad |-> 0,
       s |-> [s EXCEPT !.reg = [r EXCEPT ![PrevPCReg] = r[PCReg],
                                         ![PCReg] = r[NextPCReg],
                                         ![NextPCReg] = pcAfter]]]

Stop(s, exc, bad) == [exc |-> exc, bad |-> bad, s |-> s]

Size(op) == IF op \in {"LB", "LBU", "SB"} THEN 1
            ELSE IF op \in {"LH", "LHU", "SH"} THEN 2 ELSE 4

\* What a load brings: LWL the whole word and LWR its upper byte in the lower
\* byte of what rt has or is about to get, as both are aligned.
Loaded(i, value, r) ==
  LET old == IF r[LoadReg] = i.rt THEN r[LoadValueReg] ELSE r[i.rt]
  IN  CASE i.op = "LB" -> SignExtend(value, ByteBits)
        [] i.op = "LH" -> SignExtend(value, Half)
        [] i.op = "LWR" -> (old - (old % 2 ^ ByteBits))
                             + (value \div 2 ^ (3 * ByteBits))
        [] OTHER -> value

\* LWL, LWR, SWL and SWR assert that the address is aligned.
Load(s, i, addr) ==
  LET m == ReadMem(s, addr, Size(i.op))
  IN  IF i.op \in {"LWL", "LWR"} /\ addr % 4 # 0 THEN Stop(s, "Assert", addr)
      ELSE IF m.exc # "No" THEN m
      ELSE Retire(m.s, i.rt, Loaded(i, m.value, s.reg), PcAfter(i, s.reg))

\* SWL and SWR read the word they write; SWR stores the lower byte of rt as
\* the upper byte of the word.
Store(s, i, addr) ==
  LET m == IF i.op \in {"SWL", "SWR"} THEN ReadMem(s, addr, 4)
           ELSE [exc |-> "No", s |-> s, value |-> 0]
      v == IF i.op = "SWR"
           THEN (m.value % 2 ^ (3 * ByteBits))
                  + 2 ^ (3 * ByteBits) * (s.reg[i.rt] % 2 ^ ByteBits)
           ELSE s.reg[i.rt]
      n == WriteMem(m.s, addr, Size(i.op), v)
  IN  IF i.op \in {"SWL", "SWR"} /\ addr % 4 # 0 THEN Stop(s, "Assert", addr)
      ELSE IF m.exc # "No" THEN m
      ELSE IF n.exc # "No" THEN n
      ELSE Retire(n.s, 0, 0, PcAfter(i, s.reg))

OneInstruction(st) ==
  LET f == ReadMem(st, st.reg[PCReg], 4)
      i == Decode(f)
      r == st.reg
      addr == Wrap(r[i.rs] + i.extra)
  IN  IF f.exc # "No" THEN f
      ELSE IF i.op = "SYSCALL" THEN Stop(f.s, "Syscall", 0)
      ELSE IF i.op \in {"RES", "UNIMP"} THEN Stop(f.s, "IllegalInstr", 0)
      ELSE IF Overflows(i, r[i.rs], r[i.rt]) THEN Stop(f.s, "Overflow", 0)
      ELSE IF i.op \in LoadOps THEN Load(f.s, i, addr)
      ELSE IF i.op \in StoreOps THEN Store(f.s, i, addr)
      ELSE LET c == Compute(i, r)
           IN  Retire([f.s EXCEPT !.reg = c], 0, 0, PcAfter(i, c))

\* Machine::RaiseException, up to the call of the handler.
RaiseException(r, badVAddr) ==
  DelayedLoad([r EXCEPT ![BadVAddrReg] = badVAddr], 0, 0)

\* Machine::AdjustPCRegs: the handler of a system call steps over it.
AdjustPCRegs(r) ==
  [r EXCEPT ![PrevPCReg] = r[PCReg],
            ![PCReg] = r[NextPCReg],
            ![NextPCReg] = Wrap(r[NextPCReg] + 4)]
=============================================================================
