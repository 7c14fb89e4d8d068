------------------------------- MODULE Programs -------------------------------
(***************************************************************************)
(* The programs of test/ on the kernel's files and console: the            *)
(* demonstration of module Demo, or one of module Utilities; sort may run  *)
(* twice at once, on the one console.  And those of c++example/, which run *)
(* on the host: module Stacks.                                             *)
(***************************************************************************)
EXTENDS Demo, Utilities, Stacks

CONSTANTS Inputs,    \* contents of input.txt
          Sources,   \* contents of the file to be copied
          IntKeys,   \* what may be typed to sort
          NameKeys   \* what may be typed to the other programs

allVars == <<vars, userVars, demoVars, calls, tests>>

\* The flag -x starts the program; two of them have a parent that ran Exec
\* twice and waits.
Starting(name, start, typed) ==
  /\ TableInit
  /\ prog = [name |-> name, typed |-> typed]
  /\ keys = typed
  /\ pc = [p \in Procs |-> IF p \in DOMAIN start THEN start[p] ELSE "none"]
  /\ reg = [p \in Procs |-> NewReg]
  /\ code = [p \in Procs |-> 0]
  /\ calls = [p \in Procs |-> NewInt]
  /\ lock = 0 /\ screen = <<>>
  /\ got = <<>> /\ late = FALSE
  /\ tests = CASE name = "stack" -> StackTests
               [] name = "inheritstack" -> InheritTests
               [] name = "templatestack" -> TemplateTests
               [] OTHER -> <<>>

With(f, s) ==
  /\ host = [g \in FileNames |-> IF g = f THEN s ELSE <<>>]
  /\ exists = {f}

ProgramsInit ==
  \/ \E s \in Inputs : Starting("demo", [main |-> "main"], <<>>) /\ With("input", s)
  \/ \E name \in {"stack", "inheritstack", "templatestack"} :
       Starting(name, [main |-> "push"], <<>>) /\ With("input", <<>>)
  \/ \E t \in IntKeys :
       Starting("sort", [main |-> "sort", voinuoc |-> "sort"], t) /\ With("input", <<>>)
  \/ \E s \in Sources, t \in NameKeys :
       /\ With("src", s)
       /\ \/ \E name \in {"copy", "reverse"} : Starting(name, [main |-> "copy"], t)
          \/ \E name \in {"cat", "echo", "readchar", "readstring", "createfile"} :
               Starting(name, [main |-> name], t)

\* All programs are done, or wait for the keyboard.
Rest ==
  /\ \/ aborted
     \/ \A p \in Procs :
          \/ pc[p] \in {"none", "done"}
          \/ pc[p] \in {"sort", "sort_a"} /\ calls[p].phase # "done" /\ keys = <<>>
          \/ pc[p] \in {"readchar", "rc3"} /\ keys = <<>>
          \/ pc[p] \in {"copy", "two", "cat", "echo", "readstring", "rs3", "createfile"} /\ LineEnds(BufLen) = {}
  /\ UNCHANGED allVars

ProgramsNext ==
  \/ DemoNext /\ UNCHANGED <<prog, calls, tests>>
  \/ UtilityNext /\ UNCHANGED <<prog, demoVars, tests>>
  \/ StacksNext /\ UNCHANGED <<prog, calls, demoVars>>
  \/ Rest

ProgramsSpec == ProgramsInit /\ [][ProgramsNext]_allVars

-----------------------------------------------------------------------------
(* What the programs are for.                                              *)

\* The numbers of a text.
RECURSIVE Number(_, _)
Number(s, n) ==
  IF s = <<>> \/ ~IsDigit(Head(s)) THEN n ELSE Number(Tail(s), 10 * n + Head(s) - 48)

Numbers(s) ==
  LET starts == {k \in DOMAIN s : IsDigit(s[k]) /\ (k = 1 \/ ~IsDigit(s[k - 1]))}
      all == [i \in 1 .. Cardinality(starts) |->
                Number(SubSeq(s, SetToSortSeq(starts, <)[i], Len(s)), 0)]
  IN  SelectSeq(all, LAMBDA n : n > 0)

\* The taps that the numbers of a line go to.
RECURSIVE Taps(_, _, _)
Taps(ns, s1, s2) ==
  IF ns = <<>> THEN <<LF>>
  ELSE IF s1 <= s2 THEN <<Digit(1), SP>> \o Taps(Tail(ns), s1 + Head(ns), s2)
  ELSE <<Digit(2), SP>> \o Taps(Tail(ns), s1, s2 + Head(ns))

\* The lines of a text.
RECURSIVE Lines(_)
Lines(s) ==
  IF s = <<>> THEN <<>>
  ELSE LET ends == {k \in DOMAIN s : s[k] = LF}
           e == IF ends = {} THEN Len(s) ELSE Least(ends)
       IN  <<SubSeq(s, 1, e)>> \o Lines(SubSeq(s, e + 1, Len(s)))

Answer(s) ==
  FlattenSeq([i \in 1 .. Numbers(s)[1] |-> Taps(Numbers(Lines(s)[i + 1]), 0, 0)])

-----------------------------------------------------------------------------
(* Properties.                                                             *)

\* voinuoc gets the numbers of the line, in their order and whole, however
\* the two programs and their busy waiting interleave: no number is cut
\* where sinhvien had only written a part of it, and none comes twice.
NumbersWhole ==
  prog.name = "demo" /\ pc["voinuoc"] \notin {"none", "done"} =>
    IsPrefix(got, Numbers(host["sv_inp"]))


\* The value of the digits a ReadInt got.
ValueOf(s) ==
  LET sign == {k \in DOMAIN s : s[k] = DASH /\ \A j \in 1 .. k - 1 : ~IsDigit(s[j])}
      text == SelectSeq(s, IsDigit)
  IN  IF sign # {} THEN -Number(text, 0) ELSE Number(text, 0)

Fits(v) == -Half <= v /\ v < Half

\* ReadInt gives the value of the digits it got, if an int can hold it, also
\* the smallest one, and whoever else reads in between; and it reads what
\* PrintInt displays as the number that was printed.
IntsExact ==
  /\ \A p \in Procs :
       calls[p].phase = "done" =>
         LET v == ValueOf(calls[p].took)
         IN  Fits(v) => calls[p].res = v
  /\ \A p \in Procs : pc[p] = "sort_p" =>
       \A k \in DOMAIN reg[p].a :
         LET text == Append(PrintInt(reg[p].a[k]), LF)
         IN  FoldLeft(LAMBDA r, c : IF c = LF THEN IntChar(r, 0, NUL) ELSE IntChar(r, 1, c),
                      NewInt, text).res = reg[p].a[k]

=============================================================================
