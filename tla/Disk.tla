--------------------------------- MODULE Disk ---------------------------------
(***************************************************************************)
(* How long the simulated disk of machine/disk.cc takes: the head seeks to *)
(* the track and waits for the sector to turn past it; a track buffer has  *)
(* what turned past since the last seek.                                   *)
(* d.lastSector and d.bufferInit are the fields of Disk, now is totalTicks.*)
(***************************************************************************)
EXTENDS Integers

CONSTANTS SectorsPerTrack, NumTracks, RotationTime, SeekTime

ASSUME DiskAssumption ==
  {SectorsPerTrack, NumTracks, RotationTime, SeekTime} \subseteq Nat \ {0}

NumSectors == SectorsPerTrack * NumTracks

\* TimeToSeek: the seek and, in rotation, the rest of the sector that is
\* under the head when the seek ends.
SeekTicks(d, newSector) ==
  LET tracks == (newSector \div SectorsPerTrack) - (d.lastSector \div SectorsPerTrack)
  IN  (IF tracks < 0 THEN 0 - tracks ELSE tracks) * SeekTime

RotationTicks(d, newSector, now) ==
  LET over == (now + SeekTicks(d, newSector)) % RotationTime
  IN  IF over > 0 THEN RotationTime - over ELSE 0

ModuloDiff(to, from) ==
  (((to % SectorsPerTrack) - (from % SectorsPerTrack)) + SectorsPerTrack)
    % SectorsPerTrack

InTrackBuffer(d, newSector, timeAfter) ==
  /\ SeekTicks(d, newSector) = 0
  /\ (timeAfter - d.bufferInit) \div RotationTime
       > ModuloDiff(newSector, d.bufferInit \div RotationTime)

\* Fault: the distance is counted from where the head is before it is at a
\* sector boundary.
ComputeLatency_Early(d, newSector, writing, now) ==
  LET seek == SeekTicks(d, newSector)
      rotation == RotationTicks(d, newSector, now)
  IN  IF ~writing /\ InTrackBuffer(d, newSector, now + seek + rotation)
      THEN RotationTime
      ELSE seek + rotation + RotationTime
             + ModuloDiff(newSector, (now + seek) \div RotationTime) * RotationTime

ComputeLatency(d, newSector, writing, now) ==
  LET seek == SeekTicks(d, newSector)
      rotation == RotationTicks(d, newSector, now)
      timeAfter == now + seek + rotation
  IN  IF ~writing /\ InTrackBuffer(d, newSector, timeAfter)
      THEN RotationTime
      ELSE seek + rotation + RotationTime
             + ModuloDiff(newSector, timeAfter \div RotationTime) * RotationTime

UpdateLast(d, newSector, now) ==
  LET seek == SeekTicks(d, newSector)
  IN  [lastSector |-> newSector,
       bufferInit |-> IF seek # 0 THEN now + seek + RotationTicks(d, newSector, now)
                      ELSE d.bufferInit]
=============================================================================
