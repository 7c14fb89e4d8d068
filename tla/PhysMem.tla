------------------------------- MODULE PhysMem -------------------------------
(***************************************************************************)
(* The frames of physical memory (machine.h), and userprog/bitmap.cc on    *)
(* the bit map of the frames, kept as the set of the marked ones.          *)
(***************************************************************************)
EXTENDS Integers, FiniteSets

CONSTANTS PageSize, NumPhysPages

ASSUME PhysMemAssumption ==
  PageSize \in Nat \ {0} /\ NumPhysPages \in Nat \ {0}

FrameNumbers == 0 .. NumPhysPages - 1

BitMap == {}
Mark(map, which) == map \cup {which}
Clear(map, which) == map \ {which}
Test(map, which) == which \in map

NumClear(map) == NumPhysPages - Cardinality(map)

\* -1 when every bit is set.
FirstClear(map) ==
  IF \A b \in FrameNumbers : Test(map, b) THEN -1
  ELSE CHOOSE b \in FrameNumbers \ map : \A c \in FrameNumbers \ map : b <= c

\* Fault: the bit that is found is not marked.
Find_NoMark(map) == [bit |-> FirstClear(map), map |-> map]

\* The first clear bit, which it marks.
Find(map) ==
  [bit |-> FirstClear(map),
   map |-> IF FirstClear(map) = -1 THEN map ELSE Mark(map, FirstClear(map))]
=============================================================================
