SPECIFICATION Spec
CONSTANTS
  NoThread = NoThread
  RandomYield = FALSE
  MaxProcess = 5
  NumPhysPages = 4
  Files = {a, b}
  NoFile = NoFile
  Codes = {0, 1}
  HostMayRemove = FALSE
  Pages <- MCPages
SYMMETRY FileSymmetry
INVARIANTS JoinNotStranded PCBOutlivesExec JoinAnswersTruly
