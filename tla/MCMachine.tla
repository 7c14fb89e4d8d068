------------------------------ MODULE MCMachine ------------------------------
(***************************************************************************)
(* Machine with words of 8 bits and three kinds of root programs: one for  *)
(* each instruction, which applies it to two values that calls return; one *)
(* that starts children, which load and store while they are switched; and *)
(* one that is linked with start.s.                                        *)
(***************************************************************************)
EXTENDS Machine

Arithmetic == <<"ADD", "ADDU", "SUB", "SUBU", "AND", "OR", "XOR", "NOR", "SLT",
                "SLTU", "SLLV", "SRAV", "SRLV", "MULT", "MULTU", "DIV", "DIVU",
                "MTHI", "MTLO", "MFHI", "MFLO", "JR", "JALR", "RES">>
Shifts == <<"SLL", "SRA", "SRL">>
Immediates == <<"ADDI", "ADDIU", "ANDI", "ORI", "XORI", "SLTI", "SLTIU", "LUI">>
Loads == <<"LB", "LBU", "LH", "LHU", "LW", "LWL", "LWR">>
Stores == <<"SB", "SH", "SW", "SWL", "SWR">>
Branches == <<"BEQ", "BNE", "BGTZ", "BLEZ">>
BConds == <<0, 1, 16, 17, 5>>

\* The instructions under test: r3 from r1 and r2.
Tested ==
  [k \in DOMAIN Arithmetic |-> R(Arithmetic[k], 3, 1, 2, 0)]
    \o [k \in DOMAIN Shifts |-> R(Shifts[k], 3, 0, 2, 3)]
    \o [k \in DOMAIN Immediates |-> I(Immediates[k], 3, 1, 5)]
    \o [k \in DOMAIN Immediates |-> I(Immediates[k], 3, 1, -3)]
    \o [k \in DOMAIN Loads |-> I(Loads[k], 3, 1, 4)]
    \o [k \in DOMAIN Stores |-> I(Stores[k], 2, 1, 4)]
    \o [k \in DOMAIN Branches |-> I(Branches[k], 2, 1, 1)]
    \o [k \in DOMAIN BConds |-> I("BCOND", BConds[k], 1, 1)]
    \o <<I("J", 0, 0, 7), I("JAL", 0, 0, 7)>>

\* What the programs are made of besides.
Frame ==
  <<I("ORI", 2, 0, 11), R("SYSCALL", 0, 0, 0, 0), R("ADDU", 1, 2, 0, 0),
    I("ORI", 2, 0, 0), I("ORI", 2, 0, 1), I("ORI", 2, 0, 2), I("LUI", 3, 0, 2),
    I("LW", 1, 3, 4), I("ADDIU", 31, 0, 7), R("ADDU", 1, 1, 2, 0),
    I("SW", 1, 29, 4), I("LBU", 31, 3, 1), I("LUI", 3, 0, 3), I("LW", 1, 3, 0)>>

\* A program as it is linked: start.s with two stubs, and a main that calls
\* Join.
Linked ==
  Startup(13, 5) \o Stub(SC_Exit) \o Stub(3)
    \o <<I("SW", 31, 29, 4), I("JAL", 0, 0, 9), Nop, I("LW", 31, 29, 4), Nop,
         R("JR", 0, 31, 0, 0), Nop>>

MCText == Frame \o Tested \o Linked

\* The bytes of a sequence of instructions, given by their places in Text.
Code(ns) ==
  [a \in 1 .. 4 * Len(ns) |->
     2 ^ ByteBits + 4 * ns[(a + 3) \div 4] + ((a - 1) % 4)]
Sec(name, paddr, bytes) == [name |-> name, paddr |-> paddr, bytes |-> bytes]
Zeros(n) == [k \in 1 .. n |-> 0]

\* Reads two values, executes instruction n, and halts.
TestOf(n) ==
  <<Sec(".text", 0, Code(<<1, 2, 3, 1, 2, n, 4, 2>>)),
    Sec(".data", 32, <<1, 2, 3, 0, 2, 1, 3, 3>>)>>

Start_s == <<Sec(".text", 0, Code([k \in DOMAIN Linked |-> Len(Frame \o Tested) + k]))>>

\* Starts two children, loads, stores and exits.
Parent ==
  <<Sec(".text", 0, Code(<<6, 2, 6, 2, 13, 14, 9, 11, 5, 2>>)),
    Sec(".data", 40, <<1, 2, 3, 1, 2, 3, 1, 2, 3>>), Sec(".bss", 49, Zeros(2))>>

\* Load, store and exit: the data crosses a page, fills one, or is of both
\* kinds that coff2noff does not take.
ChildA == <<Sec(".text", 0, Code(<<7, 14, 9, 11, 5, 2>>)),
            Sec(".rdata", 24, <<1, 3, 2, 1, 3, 2, 1, 3, 2, 1>>)>>
ChildB == <<Sec(".text", 0, Code(<<7, 12, 11, 5, 2>>)), Sec(".rdata", 20, <<>>),
            Sec(".data", 20, [k \in 1 .. 30 |-> 1 + (k % 3)]),
            Sec(".sbss", 50, Zeros(3))>>
ChildC == <<Sec(".text", 0, Code(<<4, 2>>)), Sec(".bss", 8, Zeros(2)),
            Sec(".sbss", 10, Zeros(2))>>

MCCoff ==
  LET tests == [n \in Len(Frame) + 1 .. Len(Frame \o Tested) |-> TestOf(n)]
      apps == <<Parent, ChildA, ChildB, ChildC, Start_s>>
  IN  [n \in 1 .. Len(MCText) |-> IF n \in DOMAIN tests THEN tests[n]
                                  ELSE IF n <= 5 THEN apps[n] ELSE <<>>]
MCRoots == {1, 5} \cup Len(Frame) + 1 .. Len(Frame \o Tested)
MCChildren == {2, 3, 4}
=============================================================================
