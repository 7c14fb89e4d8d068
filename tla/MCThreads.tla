------------------------------ MODULE MCThreads ------------------------------
(***************************************************************************)
(* Threads for TLC.                                                        *)
(***************************************************************************)
EXTENDS Threads
=============================================================================
