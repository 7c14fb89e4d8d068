------------------------------ MODULE MCSemTable ------------------------------
(***************************************************************************)
(* Named semaphores for TLC.                                               *)
(***************************************************************************)
EXTENDS SemTable

AnyValue == {-1, 0, 1}
=============================================================================
