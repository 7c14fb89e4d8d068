SPECIFICATION Spec
CONSTANTS
  Procs = {p}
  FileNames = {f, g}
  NoName = NoName
  BadNames = {bad}
  TableSize = 4
  Bytes = {0, 1}
  MaxLen = 2
  MaxCount = 2
SYMMETRY Symmetry
INVARIANTS DescriptorsOwned IdStandsForFile
PROPERTIES AppendKeeps
