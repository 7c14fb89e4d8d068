SPECIFICATION Spec
CONSTANTS
  NoThread = NoThread
  RandomYield = FALSE
  MaxProcess = 3
  NumPhysPages = 3
  Files = {a, b}
  NoFile = NoFile
  Codes = {0}
  HostMayRemove = FALSE
  Pages <- MCPages
INVARIANTS JoinReturnsStatus
