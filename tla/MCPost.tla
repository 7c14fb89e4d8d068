-------------------------------- MODULE MCPost --------------------------------
(* A ring of machines.                                                      *)
EXTENDS Post

MCFar == [m \in Machines |-> (m % Cardinality(Machines)) + 1]
=============================================================================
