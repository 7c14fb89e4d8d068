------------------------------ MODULE Utilities ------------------------------
(***************************************************************************)
(* The console calls of userprog/exception.cc that are made of several     *)
(* characters, and the programs of test/ that use them: sort, copy,        *)
(* reverse, cat, echo, readchar, readstring and createfile.  ReadInt reads *)
(* a character at a time, and another program may read between two of      *)
(* them.  Characters are ASCII codes; prompts and messages are left out.   *)
(***************************************************************************)
EXTENDS UserProcs, SequencesExt

CONSTANTS WordBits,  \* bits of an int, 32 in the code
          BufLen,    \* MAX_LEN and BUF_LEN of the programs
          BlockSize, \* BLOCK_SIZE of SyscallPrintString
          MaxBlock   \* MAX_BLOCK

ASSUME UtilityAssumption ==
  {WordBits, BufLen, BlockSize, MaxBlock} \subseteq Nat \ {0}

VARIABLE calls     \* ReadInt of each program: its phase, its result, and the
                   \* characters it got, terminators included

Half == 2 ^ (WordBits - 1)
Wrap(x) == ((x + Half) % (2 * Half)) - Half

-----------------------------------------------------------------------------
(* SynchConsole::Read, as module SynchConsole implements it: k is where the *)
(* line or the buffer ends.                                                *)

LineEnds(n) ==
  {k \in 1 .. Len(keys) : keys[k] \in {LF, SOH} \/ k = n}

ConsoleRead(k) ==
  IF keys[k] \in {LF, SOH} THEN SubSeq(keys, 1, k - 1) ELSE SubSeq(keys, 1, k)

ConsoleCount(k) == IF k = 1 /\ keys[1] = SOH THEN -1 ELSE Len(ConsoleRead(k))

Takes(k) == keys' = SubSeq(keys, k + 1, Len(keys))

-----------------------------------------------------------------------------
(* ReadInt and PrintInt.                                                   *)

NewInt == [phase |-> "skip", res |-> 0, took |-> <<>>]
Finished(r, res) == [r EXCEPT !.phase = "done", !.res = res]

\* Fault: a digit is added where a negative number needs it taken away.
AddDigit_Adds(r, c) == [r EXCEPT !.res = Wrap(@ * 10 + c - 48)]

\* Once the sign is wrong, digits are skipped.
AddDigit(r, c) ==
  IF r.phase = "neg"
  THEN [r EXCEPT !.res = IF @ <= 0 THEN Wrap(@ * 10 - (c - 48)) ELSE @]
  ELSE [r EXCEPT !.res = IF @ >= 0 THEN Wrap(@ * 10 + c - 48) ELSE @]

\* What SyscallReadInt does with count and c of one Read; c is NUL unless
\* count is 1.
IntChar(r, count, c) ==
  IF r.phase = "skip"
  THEN IF count = 0 \/ c = SP THEN r
       ELSE IF c = DASH THEN [r EXCEPT !.phase = "neg"]
       ELSE IF IsDigit(c) THEN AddDigit([r EXCEPT !.phase = "pos"], c)
       ELSE Finished(r, 0)
  ELSE IF IsDigit(c) THEN AddDigit(r, c)
  ELSE Finished(r, IF (r.phase = "neg" /\ r.res > 0) \/ (r.phase = "pos" /\ r.res < 0)
                   THEN 0 ELSE r.res)

ReadInt(p) ==
  /\ ~aborted
  /\ pc[p] \in {"sort", "sort_a"} /\ calls[p].phase # "done"
  /\ keys # <<>>
  /\ LET c == IF ConsoleRead(1) = <<>> THEN NUL ELSE keys[1]
     IN  calls' = [calls EXCEPT ![p] = [IntChar(@, ConsoleCount(1), c) EXCEPT
                                          !.took = Append(@, keys[1])]]
  /\ Takes(1)
  /\ UNCHANGED <<vars, pc, reg, code, lock, screen>>

\* The digits of a number of which neg is the sign: C's / and % cut toward 0.
RECURSIVE DigitsOf(_)
DigitsOf(n) ==
  LET abs == IF n < 0 THEN -n ELSE n
      quo == IF n < 0 THEN -(abs \div 10) ELSE abs \div 10
  IN  (IF quo = 0 THEN <<>> ELSE DigitsOf(quo)) \o <<48 + (abs % 10)>>

PrintInt(n) == (IF n < 0 THEN <<DASH>> ELSE <<>>) \o DigitsOf(n)

\* SyscallPrintChar and SyscallReadChar; a terminator is read as NUL.
PrintChar(p, l, c, next) ==
  /\ At(p, l)
  /\ screen' = Append(screen, c)
  /\ Goto(p, next)
  /\ UNCHANGED <<vars, lock, keys, calls>>

ReadChar(p, l, next) ==
  /\ At(p, l) /\ keys # <<>>
  /\ reg' = [reg EXCEPT ![p].c = IF ConsoleRead(1) = <<>> THEN NUL ELSE keys[1]]
  /\ Takes(1)
  /\ Goto(p, next)
  /\ UNCHANGED <<vars, lock, screen, calls>>

-----------------------------------------------------------------------------
(* sort.                                                                   *)

Swap(a, i, j) == [a EXCEPT ![i] = a[j], ![j] = a[i]]


Inner(a, i) ==
  FoldLeft(LAMBDA b, j : IF b[i] > b[j] THEN Swap(b, i, j) ELSE b,
           a, [j \in 1 .. (Len(a) - i) |-> i + j])

Sorted(a) == FoldLeft(Inner, a, [i \in 1 .. Len(a) |-> i])

\* What is left to do with n elements to read: the array is sorted after the
\* last one.
SortGets(p, n, a) ==
  /\ pc' = [pc EXCEPT ![p] = IF Len(a) < n THEN "sort_a" ELSE "sort_p"]
  /\ reg' = [reg EXCEPT ![p].n = n, ![p].i = 1, ![p].buf = a,
                        ![p].a = IF Len(a) < n THEN a ELSE Sorted(a)]
  /\ calls' = [calls EXCEPT ![p] = NewInt]
  /\ UNCHANGED <<vars, code, lock, consoleVars>>

Sort(p) ==
  LET r == reg[p]
  IN  \/ At(p, "sort") /\ calls[p].phase = "done" /\ SortGets(p, calls[p].res, <<>>)
      \/ /\ At(p, "sort_a") /\ calls[p].phase = "done"
         /\ SortGets(p, r.n, Append(r.a, calls[p].res))
      \/ /\ At(p, "sort_p")
         /\ IF r.i <= Len(r.a)
            THEN Goto(p, "sort_s") /\ screen' = screen \o PrintInt(r.a[r.i])
            ELSE Ends(p, 0) /\ UNCHANGED screen
         /\ UNCHANGED <<vars, reg, lock, keys, calls>>
      \/ /\ PrintChar(p, "sort_s", IF r.i = Len(r.a) THEN LF ELSE SP, "sort_p")
         /\ reg' = [reg EXCEPT ![p].i = @ + 1]

-----------------------------------------------------------------------------
(* copy, reverse and cat.                                                  *)

\* A string in user memory, up to its NUL.
CString(s) == IF Nuls(s) = {} THEN s ELSE SubSeq(s, 1, Least(Nuls(s)) - 1)

\* The file that a string names; the empty name is a bad one.
NameOf(s) ==
  CASE CString(s) = <<115>> -> "src" [] CString(s) = <<100>> -> "dst" [] OTHER -> ""

Name(p, k) == NameOf(reg[p].name[k])

\* SyscallReadString: a line and its NUL; after ^A nothing is copied, and
\* the memory stays as it is.
StringRead(old, e) ==
  LET s == Append(ConsoleRead(e), NUL)
  IN  IF ConsoleCount(e) = -1 THEN old ELSE s \o SubSeq(old, Len(s) + 1, Len(old))

ReadString(p, l, k, next) ==
  /\ At(p, l) /\ LineEnds(BufLen) # {}
  /\ LET e == Least(LineEnds(BufLen))
     IN  Takes(e) /\ reg' = [reg EXCEPT ![p].name[k] = StringRead(@, e)]
  /\ Goto(p, next)
  /\ UNCHANGED <<vars, lock, screen, calls>>

\* Halt; what a program says before is its exit code here.
Copies(p, l) ==
  \/ /\ ReadsBlock(p, l, 1, BufLen)
     /\ IF last'.ret > 0 THEN Goto(p, "copy_w") ELSE Ends(p, IF last'.ret = -1 THEN -1 ELSE 0)
  \/ /\ At(p, "copy_w")
     /\ Write(p, Id(p, 2), reg[p].buf)
     /\ IF last'.ret = Len(reg[p].buf) THEN Goto(p, l) ELSE Ends(p, -1)
     /\ UNCHANGED <<reg, lock, consoleVars>>

PrePos(pos) == IF pos > BufLen THEN pos - BufLen ELSE 0

\* i is curPos.
SeeksEnd(p) ==
  /\ At(p, "rev")
  /\ Seek(p, -1, Id(p, 1))
  /\ Goto(p, "rev_s")
  /\ reg' = [reg EXCEPT ![p].i = last'.ret]
  /\ UNCHANGED <<lock, consoleVars>>

Reverses(p) ==
  LET pos == reg[p].i
  IN  \/ SeeksEnd(p)
      \/ /\ At(p, "rev_s") /\ pos <= 0
         /\ Ends(p, 0)
         /\ UNCHANGED <<vars, reg, lock, consoleVars>>
      \/ /\ At(p, "rev_s") /\ pos > 0
         /\ Seek(p, PrePos(pos), Id(p, 1))
         /\ IF last'.ret = -1 THEN Ends(p, -1) ELSE Goto(p, "rev_r")
         /\ UNCHANGED <<reg, lock, consoleVars>>
      \/ /\ ReadsBlock(p, "rev_r", 1, pos - PrePos(pos))
         /\ IF last'.ret = pos - PrePos(pos) THEN Goto(p, "rev_w") ELSE Ends(p, -1)
      \/ /\ At(p, "rev_w")
         /\ Write(p, Id(p, 2), Reverse(reg[p].buf))
         /\ IF last'.ret = Len(reg[p].buf) THEN Goto(p, "rev_s") ELSE Ends(p, -1)
         /\ reg' = [reg EXCEPT ![p].i = PrePos(pos)]
         /\ UNCHANGED <<lock, consoleVars>>

\* copy and reverse begin in the same way.
TwoNames(p) ==
  \/ ReadString(p, "copy", 1, "two")
  \/ ReadString(p, "two", 2, "src")
  \/ /\ \/ Opens(p, "src", 1, Name(p, 1), 1, "dst")
        \/ Creates(p, "dst", Name(p, 2), "open")
        \/ Opens(p, "open", 2, Name(p, 2), 0, IF prog.name = "copy" THEN "copy_r" ELSE "rev")
        \/ Copies(p, "copy_r")
        \/ Reverses(p)
     /\ UNCHANGED calls

\* A file that cannot be opened has the id -1, from which Read gives -1.
Cat(p) ==
  \/ ReadString(p, "cat", 1, "cat_o")
  \/ /\ \/ /\ At(p, "cat_o")
           /\ Open(p, Name(p, 1), 1)
           /\ reg' = [reg EXCEPT ![p].f[1] = last'.ret]
           /\ Goto(p, "cat_r")
           /\ UNCHANGED <<lock, consoleVars>>
        \/ /\ ReadsBlock(p, "cat_r", 1, BufLen)
           /\ Goto(p, IF last'.ret > 0 THEN "cat_w" ELSE "cat_c")
        \/ /\ At(p, "cat_w")
           /\ screen' = screen \o reg[p].buf
           /\ Goto(p, "cat_r")
           /\ UNCHANGED <<vars, reg, lock, keys>>
        \/ /\ At(p, "cat_c")
           /\ Close(p, Id(p, 1))
           /\ Ends(p, 0)
           /\ UNCHANGED <<reg, lock, consoleVars>>
     /\ UNCHANGED calls

\* An empty line ends echo, like ^A.
Echo(p) ==
  /\ At(p, "echo") /\ LineEnds(BufLen) # {}
  /\ LET k == Least(LineEnds(BufLen))
     IN  /\ Takes(k)
         /\ IF ConsoleCount(k) > 0
            THEN Goto(p, "echo_w") /\ reg' = [reg EXCEPT ![p].buf = Append(ConsoleRead(k), LF)]
            ELSE Ends(p, 0) /\ UNCHANGED reg
  /\ UNCHANGED <<vars, lock, screen, calls>>

EchoWrites(p) ==
  /\ At(p, "echo_w")
  /\ screen' = screen \o reg[p].buf
  /\ Goto(p, "echo")
  /\ UNCHANGED <<vars, reg, lock, keys, calls>>

-----------------------------------------------------------------------------
(* readchar, readstring and createfile.                                    *)

ReadCharTest(p) ==
  \/ ReadChar(p, "readchar", "rc2")
  \/ PrintChar(p, "rc2", reg[p].c, "rc3") /\ UNCHANGED reg
  \/ ReadChar(p, "rc3", "rc4")
  \/ PrintChar(p, "rc4", reg[p].c, "halt") /\ UNCHANGED reg

Unfinished(cnt, i) == cnt = BlockSize /\ i + 1 < MaxBlock

\* A block of SyscallPrintString; i counts the blocks, and is 0 again after.
PrintString(p, l, s, next) ==
  LET i == reg[p].i
      block == SubSeq(s, i * BlockSize + 1, Least({(i + 1) * BlockSize, Len(s)}))
      more == Unfinished(Len(block), i)
  IN  /\ At(p, l)
      /\ screen' = screen \o block
      /\ Goto(p, IF more THEN l ELSE next)
      /\ reg' = [reg EXCEPT ![p].i = IF more THEN i + 1 ELSE 0]
      /\ UNCHANGED <<vars, lock, keys, calls>>

ReadStringTest(p) ==
  \/ ReadString(p, "readstring", 1, "rs2")
  \/ PrintString(p, "rs2", CString(reg[p].name[1]), "rs3")
  \/ ReadString(p, "rs3", 1, "rs4")
  \/ PrintString(p, "rs4", CString(reg[p].name[1]), "halt")

CreateFileTest(p) ==
  \/ ReadString(p, "createfile", 1, "cf2")
  \/ Creates(p, "cf2", Name(p, 1), "halt") /\ UNCHANGED calls

Halt(p) ==
  /\ At(p, "halt")
  /\ Ends(p, 0)
  /\ UNCHANGED <<vars, reg, lock, consoleVars, calls>>

UtilityNext ==
  \E p \in Procs :
    \/ ReadInt(p) \/ Sort(p) \/ TwoNames(p) \/ Cat(p) \/ Echo(p) \/ EchoWrites(p)
    \/ ReadCharTest(p) \/ ReadStringTest(p) \/ CreateFileTest(p) \/ Halt(p)
=============================================================================
