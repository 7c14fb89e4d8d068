------------------------------ MODULE ProcTree -------------------------------
(***************************************************************************)
(* What process management promises, without semaphores, bitmaps or PCBs:  *)
(* the live processes form a tree under the first one, a process leaves    *)
(* only when it has no live child, the machine halts only when the first   *)
(* process is alone among its children, and Join answers with the code the *)
(* child passed to Exit or reports failure.                                *)
(***************************************************************************)
EXTENDS Integers

CONSTANTS Slots, Root, NoPid, Codes, NoCode, Failed

VARIABLES live,    \* the processes that are running or waiting
          parent,  \* parent[c], NoPid for the first process and the dead
          told,    \* told[p][c]: the code c passed to Exit, not yet fetched
          answer,  \* the last Join's answer, and the code it should carry
          halted

treeVars == <<live, parent, told, answer, halted>>

NoAnswer == [val |-> Failed, code |-> NoCode]

Childless(p) == \A c \in live : parent[c] # p

TreeInit ==
  /\ live = {}
  /\ parent = [c \in Slots |-> NoPid]
  /\ told = [p \in Slots |-> [c \in Slots |-> NoCode]]
  /\ answer = [p \in Slots |-> NoAnswer]
  /\ halted = FALSE

Start ==
  /\ live = {} /\ ~halted
  /\ live' = {Root}
  /\ UNCHANGED <<parent, told, answer, halted>>

Spawn(p, c) ==
  /\ p \in live /\ c \in Slots \ live /\ ~halted
  /\ live' = live \cup {c}
  /\ parent' = [parent EXCEPT ![c] = p]
  /\ told' = [told EXCEPT ![c] = [d \in Slots |-> NoCode], ![p][c] = NoCode]
  /\ UNCHANGED <<answer, halted>>

\* Starting another system call makes the caller forget its last answer.
Forget(p) ==
  /\ p \in live
  /\ answer' = [answer EXCEPT ![p] = NoAnswer]
  /\ UNCHANGED <<live, parent, told, halted>>

\* Exit: the code is on record at once, but the process stays while it has
\* children.
Tell(c, ec) ==
  /\ c \in live /\ ~halted
  /\ told' = IF parent[c] = NoPid THEN told
             ELSE [told EXCEPT ![parent[c]][c] = ec]
  /\ answer' = [answer EXCEPT ![c] = NoAnswer]

Exiting(c, ec) == Tell(c, ec) /\ UNCHANGED <<live, parent, halted>>

Removed(c) ==
  /\ c \in live \ {Root} /\ Childless(c) /\ ~halted
  /\ live' = live \ {c}
  /\ parent' = [parent EXCEPT ![c] = NoPid]
  /\ UNCHANGED halted

Leave(c) == Removed(c) /\ UNCHANGED <<told, answer>>

ExitAtOnce(c, ec) == Tell(c, ec) /\ Removed(c)

Halted == Root \in live /\ Childless(Root) /\ ~halted /\ halted' = TRUE

Halt == Halted /\ UNCHANGED <<live, parent, told, answer>>

HaltAtOnce(ec) == Tell(Root, ec) /\ Halted /\ UNCHANGED <<live, parent>>

Answer(p, c, v) ==
  /\ p \in live /\ ~halted
  /\ v \in {Failed, told[p][c]} /\ v # NoCode
  /\ answer' = [answer EXCEPT ![p] = [val |-> v, code |-> told[p][c]]]
  /\ told' = [told EXCEPT ![p][c] = NoCode]
  /\ UNCHANGED <<live, parent, halted>>

TreeNext ==
  \/ Start
  \/ \E p, c \in Slots : Spawn(p, c)
  \/ \E p \in Slots : Forget(p)
  \/ \E c \in Slots, ec \in Codes : Exiting(c, ec) \/ ExitAtOnce(c, ec)
  \/ \E c \in Slots : Leave(c)
  \/ \E ec \in Codes : HaltAtOnce(ec)
  \/ Halt
  \/ \E p, c \in Slots : \E v \in Codes \cup {Failed} : Answer(p, c, v)

TreeSpec == TreeInit /\ [][TreeNext]_treeVars
=============================================================================
