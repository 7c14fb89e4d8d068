----------------------------- MODULE MCSynchDisk -----------------------------
(***************************************************************************)
(* The disk for TLC: the times of machine/stats.h and the geometry of      *)
(* machine/disk.h, made small in the same order.                           *)
(***************************************************************************)
EXTENDS SynchDisk
=============================================================================
