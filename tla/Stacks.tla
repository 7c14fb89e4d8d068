-------------------------------- MODULE Stacks --------------------------------
(***************************************************************************)
(* The programs of c++example/: stack, inheritstack and templatestack.     *)
(* Each makes its stacks, of an array or of a linked list, and lets        *)
(* SelfTest fill and empty one after the other.  The array stack of the    *)
(* three programs is the same.                                             *)
(***************************************************************************)
EXTENDS UserProcs

LOCAL INSTANCE Lists

CONSTANT StackSize   \* 10 in the three programs

ASSUME StacksAssumption == StackSize \in Nat \ {0}

VARIABLE tests   \* the stacks to test: each with the first value to push, how
                 \* many (or until it is full), and what went in and came out

UntilFull == -1
SelfTestOf(s, start, num) ==
  [obj |-> s, start |-> start, num |-> num, pushed |-> <<>>, popped |-> <<>>]

-----------------------------------------------------------------------------
(* The array; its elements are not initialised, and not read before they   *)
(* are written.                                                            *)

ArrayStack(sz) == [kind |-> "array", size |-> sz, top |-> 0,
                   stack |-> [i \in 0 .. sz - 1 |-> 0]]

ArrayFull(s) == s.top = s.size
ArrayEmpty(s) == s.top = 0
ArrayPush(s, value) == [s EXCEPT !.stack[s.top] = value, !.top = @ + 1]
ArrayPop(s) == [value |-> s.stack[s.top - 1], s |-> [s EXCEPT !.top = @ - 1]]

-----------------------------------------------------------------------------
(* The list.                                                               *)

Prepend(l, value) == AtFront(l, value, 0)

ListRemove(l) ==
  LET element == l.cell[l.first]
      only == l.first = l.last
  IN  [value |-> element.item,
       l |-> [first |-> IF only THEN NULL ELSE element.next,
              last |-> IF only THEN NULL ELSE l.last,
              cell |-> [a \in DOMAIN l.cell \ {l.first} |-> l.cell[a]]]]

ListEmpty(l) == l.first = NULL

ListStack == [kind |-> "list", list |-> NewList]
ListPush(s, value) == [s EXCEPT !.list = Prepend(@, value)]
ListPop(s) ==
  LET r == ListRemove(s.list)
  IN  [value |-> r.value, s |-> [s EXCEPT !.list = r.l]]

-----------------------------------------------------------------------------
(* The virtual functions, and SelfTest.                                    *)

Full(s) == IF s.kind = "array" THEN ArrayFull(s) ELSE FALSE
Empty(s) == IF s.kind = "array" THEN ArrayEmpty(s) ELSE ListEmpty(s.list)
Push(s, value) == IF s.kind = "array" THEN ArrayPush(s, value) ELSE ListPush(s, value)
Pop(s) == IF s.kind = "array" THEN ArrayPop(s) ELSE ListPop(s)

\* Whether the first loop goes on: until the stack is full, or numToPush times.
PushesOn(t) == IF t.num = UntilFull THEN ~Full(t.obj) ELSE Len(t.pushed) < t.num

\* A turn of the first loop, with the ASSERT of Push.
SelfTestPush ==
  LET t == Head(tests)
      count == t.start + Len(t.pushed)
  IN  /\ At("main", "push")
      /\ IF ~PushesOn(t)
         THEN Goto("main", "pop") /\ UNCHANGED <<aborted, tests>>
         ELSE /\ aborted' = Full(t.obj)
              /\ tests' = IF Full(t.obj) THEN tests
                          ELSE [tests EXCEPT ![1].obj = Push(@, count),
                                             ![1].pushed = Append(@, count)]
              /\ UNCHANGED <<pc, code>>
      /\ UNCHANGED <<host, exists, desc, table, opened, last, reg, lock, consoleVars>>

\* A turn of the second loop, or the next stack.
SelfTestPop ==
  LET t == Head(tests)
      r == Pop(t.obj)
  IN  /\ At("main", "pop")
      /\ IF ~Empty(t.obj)
         THEN /\ tests' = [tests EXCEPT ![1].obj = r.s, ![1].popped = Append(@, r.value)]
              /\ UNCHANGED <<pc, code>>
         ELSE IF Len(tests) > 1
         THEN Goto("main", "push") /\ tests' = Tail(tests)
         ELSE Ends("main", 0) /\ UNCHANGED tests
      /\ UNCHANGED <<vars, reg, lock, consoleVars>>

StacksNext == SelfTestPush \/ SelfTestPop

-----------------------------------------------------------------------------
(* What the three main functions test.                                     *)

StackTests == <<SelfTestOf(ArrayStack(StackSize), 17, UntilFull)>>
InheritTests == <<SelfTestOf(ArrayStack(StackSize), 17, StackSize),
                  SelfTestOf(ListStack, 17, StackSize)>>
TemplateTests == <<SelfTestOf(ArrayStack(StackSize), 17, UntilFull),
                   SelfTestOf(ArrayStack(StackSize), 97, UntilFull)>>

\* What was pushed comes out, last in first out; the list leaves no element.
LastInFirstOut(t) ==
  /\ \A k \in DOMAIN t.popped : t.popped[k] = t.pushed[Len(t.pushed) - k + 1]
  /\ Empty(t.obj) => Len(t.popped) = Len(t.pushed)
  /\ t.obj.kind = "list" => WellLinked(t.obj.list)
=============================================================================
