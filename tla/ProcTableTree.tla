--------------------------- MODULE ProcTableTree ----------------------------
(***************************************************************************)
(* The process table seen as the process tree of module ProcTree.          *)
(***************************************************************************)
EXTENDS ProcTable

\* Processes that have not yet counted down in their parent.
Live == {c \in Slots : pc[c] \notin {"none", "exit_free"}}

Tree == INSTANCE ProcTree WITH
          live <- Live,
          parent <- [c \in Slots |-> IF c \in Live THEN pcb[c].parentID
                                     ELSE NoPid],
          told <- exited,
          answer <- ret,
          halted <- machine = "halted"

\* The table, its PCBs and semaphores implement the process tree: no step of
\* Exec, Join or Exit, wherever the timer cuts it, does more than one step
\* of the tree.
ImplementsTree == Tree!TreeSpec
=============================================================================
