SPECIFICATION FairSpec
CONSTANTS
  NoThread = NoThread
  RandomYield = TRUE
  MaxProcess = 3
  NumPhysPages = 3
  Files = {a, b}
  NoFile = NoFile
  Codes = {0}
  HostMayRemove = TRUE
  Pages <- MCPages
INVARIANTS ParentOutlivesChild TableInv
PROPERTIES ImplementsTree CallsComplete
