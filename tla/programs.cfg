SPECIFICATION ProgramsSpec
CONSTANTS
  Procs <- MCProcs
  FileNames <- MCFiles
  NoName = NoName
  BadNames <- MCBad
  TableSize = 10
  Bytes = {}
  MaxLen = 40
  MaxCount = 0
  WordBits = 5
  BufLen = 3
  BlockSize = 2
  MaxBlock = 3
  StackSize = 10
  Inputs <- MCInputs
  Sources <- MCSources
  IntKeys <- MCIntKeys
  NameKeys <- MCNameKeys
INVARIANTS NumbersWhole  IntsExact 
