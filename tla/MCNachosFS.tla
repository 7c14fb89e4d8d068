----------------------------- MODULE MCNachosFS -----------------------------
(* NachosFS on a disk of nine sectors of two bytes.  Five are the system's, *)
(* so that two files of three bytes do not fit; the directory has two       *)
(* entries for three names, and the second one straddles.                   *)
EXTENDS NachosFS, TLC

CONSTANTS a, b, c

MCNames == {a, b, c}
Symmetry == Permutations(MCNames)
=============================================================================
