------------------------------- MODULE Execute -------------------------------
(***************************************************************************)
(* The other MIPS interpreter of the repository, bin/execute.c: one turn   *)
(* of the loop of runprogram, on the same instructions and the same        *)
(* register numbers as Mips (HI, LO, pc and npc are HiReg, LoReg, PCReg    *)
(* and NextPCReg).  Its memory is flat, and it has no delayed loads, no    *)
(* overflow exception and no address check.                                *)
(***************************************************************************)
EXTENDS Mips

\* immed(instr) of instr.h.
Immed(raw) == SignExtend(raw.imm, Half)

\* cfetch, ucfetch, sfetch, usfetch and fetch of int.h.
Fetch(mem, op, addr) ==
  LET v == Assemble(mem, addr, Size(op))
  IN  IF op = "LB" THEN SignExtend(v, ByteBits)
      ELSE IF op = "LH" THEN SignExtend(v, Half) ELSE v

\* HI of MULT and MULTU, from the halves: the product of the lower halves and
\* the carries between the partial products are left out.
HighProduct(t1, t2) ==
  LET h1 == t1 \div 2 ^ Half
      h2 == t2 \div 2 ^ Half
      Cross(h, l) == Signed(Wrap(h * LowHalf(l))) \div 2 ^ Half
  IN  Wrap(h1 * h2 + Cross(h1, t2) + Cross(h2, t1))

\* The signs are taken off before, and the double word negated after.
SignedProduct(s, t) ==
  LET Abs(x) == IF Negative(x) THEN Wrap(-x) ELSE x
      lo == Wrap(Abs(s) * Abs(t))
      hi == HighProduct(Abs(s), Abs(t))
      nlo == Wrap(Complement(lo) + 1)
  IN  IF Negative(s) = Negative(t) THEN [lo |-> lo, hi |-> hi]
      ELSE [lo |-> nlo, hi |-> Wrap(Complement(hi) + Truth(nlo = 0))]

\* The cases of I_SPECIAL that write rd.
Special(op, s, t, raw, r) ==
  CASE op = "SLL" -> ShiftLeft(t, raw.imm)
    [] op = "SRL" -> t \div 2 ^ raw.imm
    [] op = "SRA" -> ShiftRight(t, raw.imm)
    [] op = "SLLV" -> ShiftLeft(t, s)
    [] op = "SRLV" -> t \div 2 ^ s
    [] op = "SRAV" -> ShiftRight(t, s)
    [] op = "MFHI" -> r[HiReg]
    [] op = "MFLO" -> r[LoReg]
    [] op \in {"ADD", "ADDU"} -> Wrap(s + t)
    [] op \in {"SUB", "SUBU"} -> Wrap(s - t)
    [] op = "AND" -> s & t
    [] op = "OR" -> s | t
    [] op = "XOR" -> s ^^ t
    [] op = "NOR" -> Complement(s | t)
    [] op = "SLT" -> Truth(Signed(s) < Signed(t))
    [] op = "SLTU" -> Truth(s < t)
    [] op = "JALR" -> Wrap(r[PCReg] + 8)

\* The cases that write HI and LO.
SetHiLo(op, s, t, r) ==
  LET q == CASE op = "MULT" -> SignedProduct(s, t)
             [] op = "MULTU" -> [lo |-> Wrap(s * t), hi |-> HighProduct(s, t)]
             [] op = "DIV" -> Div(Signed(s), Signed(t))
             [] op = "DIVU" -> Div(s, t)
             [] op = "MTHI" -> [lo |-> r[LoReg], hi |-> s]
             [] op = "MTLO" -> [lo |-> s, hi |-> r[HiReg]]
  IN  [r EXCEPT ![HiReg] = q.hi, ![LoReg] = q.lo]

\* The cases of the outer switch that write rt.
Immediate(op, s, t, raw, mem) ==
  LET x == Immed(raw)
      addr == Wrap(s + x)
      word == Assemble(mem, addr - (addr % 4), 4)
  IN  CASE op \in {"ADDI", "ADDIU"} -> Wrap(s + x)
        [] op = "SLTI" -> Truth(Signed(s) < Signed(x))
        [] op = "SLTIU" -> Truth(s < x)
        [] op = "ANDI" -> s & x
        [] op = "ORI" -> s | x
        [] op = "XORI" -> s ^^ x
        [] op = "LUI" -> Wrap(raw.imm * 2 ^ Half)
        [] op = "LWL" -> t | ShiftLeft(word, ByteBits * (addr % 4))
        [] op = "LWR" ->
             (IF addr % 4 = 0 THEN 0 ELSE t - (t % 2 ^ (ByteBits * (addr % 4))))
               | ShiftRight(word, ByteBits * ((-addr) % 4))
        [] op \in LoadOps -> Fetch(mem, op, addr)

\* npc after the instruction: branches and jumps set it from xpc, the address
\* of the instruction.
Npc(op, raw, r) ==
  LET xpc == r[PCReg]
  IN  CASE op \in {"J", "JAL"} -> (xpc - (xpc % JumpRegion)) + 4 * raw.imm
        [] op \in {"JR", "JALR"} -> r[raw.rs]
        [] Taken([op |-> op, rs |-> raw.rs, rt |-> raw.rt], r) ->
             Wrap(xpc + 4 + 4 * Immed(raw))
        [] OTHER -> Wrap(r[NextPCReg] + 4)

\* One turn of the loop, for an instruction that is neither a SYSCALL nor
\* unimplemented there.
runprogram(reg, mem, raw) ==
  LET op == OpCode(raw)
      r == [reg EXCEPT ![0] = 0]
      s == r[raw.rs]
      t == r[raw.rt]
      written ==
        IF op \in {"MULT", "MULTU", "DIV", "DIVU", "MTHI", "MTLO"}
        THEN SetHiLo(op, s, t, r)
        ELSE IF op \in LinkOps THEN [r EXCEPT ![31] = Wrap(r[PCReg] + 8)]
        ELSE IF op \in BranchOps \cup StoreOps \cup {"J", "JR"} THEN r
        ELSE IF op \in ImmediateOps \cup LoadOps
        THEN [r EXCEPT ![raw.rt] = Immediate(op, s, t, raw, mem)]
        ELSE [r EXCEPT ![raw.rd] = Special(op, s, t, raw, r)]
      base == Wrap(s + Immed(raw))
      ByteOf(a) == (t \div 2 ^ (ByteBits * (a - base))) % 2 ^ ByteBits
  IN  [reg |-> [written EXCEPT ![PCReg] = r[NextPCReg],
                               ![NextPCReg] = Npc(op, raw, r)],
       mem |-> IF op \notin StoreOps THEN mem
               ELSE [a \in DOMAIN mem |->
                       IF a \in base .. base + Size(op) - 1
                       THEN ByteOf(a) ELSE mem[a]]]

\* Where the two interpreters differ by design or by omission: an arithmetic
\* overflow aside, which stops only Mips,
\*   OR, SRL, SRLV    wrong in mipssim.cc
\*   ANDI, ORI, XORI  with a negative immediate, wrong in execute.c
\*   LWL, LWR         neither is right; SWL, SWR are missing in execute.c
\*   shifts by a register that is not below the width of a word
\*   a division by zero, JALR to the register it writes, and branches in a
\*   delay slot
KnownToDiffer(raw, r) ==
  LET op == OpCode(raw)
  IN  \/ op \in {"OR", "SRL", "SRLV", "LWL", "LWR", "SWL", "SWR"}
      \/ op \in {"ANDI", "ORI", "XORI"} /\ Negative(Immed(raw))
      \/ op \in {"SLLV", "SRAV"} /\ r[raw.rs] >= W
      \/ op \in {"DIV", "DIVU"} /\ r[raw.rt] = 0
      \/ op = "JALR" /\ raw.rd = raw.rs
      \/ r[NextPCReg] # Wrap(r[PCReg] + 4)
=============================================================================
