---------------------------- MODULE MCSynchConsole ----------------------------
(***************************************************************************)
(* The console for TLC.                                                    *)
(***************************************************************************)
EXTENDS SynchConsole
=============================================================================
