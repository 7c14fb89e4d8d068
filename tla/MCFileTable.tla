----------------------------- MODULE MCFileTable -----------------------------
(***************************************************************************)
(* Files for TLC.                                                          *)
(***************************************************************************)
EXTENDS FileTable, TLC

Symmetry == Permutations(FileNames) \cup Permutations(Procs)
=============================================================================
