----------------------------- MODULE MCProcTable -----------------------------
(***************************************************************************)
(* The process table for TLC: every executable needs one page.             *)
(***************************************************************************)
EXTENDS ProcTableTree, TLC

MCPages == [f \in Files |-> 1]

FileSymmetry == Permutations(Files)
=============================================================================
