CONSTANTS
  NumSectors = 9
  SectorSize = 2
  NumDirEntries = 2
  Straddle = 2
  TransferSize = 1
  a = a
  b = b
  c = c
  Names <- MCNames
  Handles = {1}
  MaxSize = 3
  MaxOps = 4
  MaxCrashes = 1
SYMMETRY Symmetry
SPECIFICATION Spec
  
PROPERTIES CopyWhole
