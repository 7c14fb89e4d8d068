------------------------------ MODULE UserProcs ------------------------------
(***************************************************************************)
(* User programs as sequences of system calls: their points of control,    *)
(* their variables, and the forms of step that the programs of test/ are   *)
(* written in.  A step is one call, with the code of the program up to the *)
(* next one; a program may lose the CPU between any two calls.             *)
(*                                                                         *)
(* The calls on files are those of module FileTable.  A semaphore is what  *)
(* SemTable keeps of it, its value.  A call on the console is whole, as    *)
(* SynchConsole keeps it: a Read gets a line or a full buffer.             *)
(***************************************************************************)
EXTENDS FileTable

VARIABLES prog,    \* the program that main is, and what is typed to it
          pc,      \* the next call of each program; "none" and "done" too
          reg,     \* the variables of each program
          code,    \* the exit code of a program that is done
          lock,    \* the value of the semaphore "lock_file"
          keys,    \* what will be typed at the console
          screen   \* what has been displayed

consoleVars == <<keys, screen>>
userVars == <<prog, pc, reg, code, lock, keys, screen>>

LF == 10
SOH == 1
SP == 32
DASH == 45
Digit(d) == 48 + d
IsDigit(c) == c \in 48 .. 57

\* f: the ids of its open files; c, n, i: a character and two numbers; buf:
\* its buffer; a: its numbers; s: two sums; name: two strings.
NewReg == [f |-> <<-1, -1, -1>>, c |-> 0, n |-> -1, i |-> 0, buf |-> <<>>, a |-> <<>>,
           s |-> <<0, 0>>, name |-> <<<<NUL>>, <<NUL>>>>]

At(p, l) == ~aborted /\ pc[p] = l
Goto(p, l) == pc' = [pc EXCEPT ![p] = l] /\ UNCHANGED code
Ends(p, k) ==
  /\ pc' = [pc EXCEPT ![p] = "done"]
  /\ code' = [code EXCEPT ![p] = k]
Id(p, k) == reg[p].f[k]

-----------------------------------------------------------------------------
(* Steps.  next is where the program goes on; when a file cannot be        *)
(* created or opened it exits with -1.                                     *)

Creates(p, l, name, next) ==
  /\ At(p, l)
  /\ CreateFile(p, name)
  /\ IF last'.ret = 0 THEN Goto(p, next) ELSE Ends(p, -1)
  /\ UNCHANGED <<reg, lock, consoleVars>>

Opens(p, l, k, name, type, next) ==
  /\ At(p, l)
  /\ Open(p, name, type)
  /\ IF last'.ret = Failed
     THEN Ends(p, -1) /\ UNCHANGED reg
     ELSE Goto(p, next) /\ reg' = [reg EXCEPT ![p].f[k] = last'.ret]
  /\ UNCHANGED <<lock, consoleVars>>

Closes(p, l, k, next) ==
  /\ At(p, l)
  /\ Close(p, Id(p, k))
  /\ Goto(p, next)
  /\ UNCHANGED <<reg, lock, consoleVars>>

Writes(p, l, k, data, next) ==
  /\ At(p, l)
  /\ Write(p, Id(p, k), data)
  /\ Goto(p, next)
  /\ UNCHANGED <<reg, lock, consoleVars>>

\* Reads one character into c; i is what Read returned.  Got: the character,
\* or NUL at the end of the file.
Got == IF last'.ret = 1 THEN last'.user[1] ELSE NUL

Reads(p, l, k) ==
  /\ At(p, l)
  /\ Read(p, Id(p, k), 1)
  /\ reg' = [reg EXCEPT ![p].c = Got, ![p].i = last'.ret]
  /\ UNCHANGED <<lock, consoleVars>>

\* Reads as much as fits into the buffer.
ReadsBlock(p, l, k, size) ==
  /\ At(p, l)
  /\ Read(p, Id(p, k), size)
  /\ reg' = [reg EXCEPT ![p].buf = last'.user]
  /\ UNCHANGED <<lock, consoleVars>>

\* A character of read_unsigned_integer: n is -1 before the first digit.
\* stop: a character that ends it there.
ReadsNumber(p, l, k, stop, next) ==
  LET n == reg[p].n
  IN  /\ At(p, l)
      /\ Read(p, Id(p, k), 1)
      /\ LET digit == IsDigit(Got)
             ends == IF n = -1 THEN Got \in {NUL, stop} ELSE ~digit
         IN  /\ reg' = [reg EXCEPT ![p].c = Got,
                                   ![p].n = IF digit THEN 10 * (IF n = -1 THEN 0 ELSE n) + Got - 48
                                            ELSE IF ends /\ n = -1 /\ Got # stop THEN 0
                                            ELSE n]
             /\ Goto(p, IF ends THEN next ELSE l)
      /\ UNCHANGED <<lock, consoleVars>>

Waits(p, l, next) ==
  /\ At(p, l)
  /\ lock > 0
  /\ lock' = lock - 1
  /\ Goto(p, next)
  /\ UNCHANGED <<vars, reg, consoleVars>>

Signals(p, l, next) ==
  /\ At(p, l)
  /\ lock' = lock + 1
  /\ Goto(p, next)
  /\ UNCHANGED <<vars, reg, consoleVars>>
=============================================================================
