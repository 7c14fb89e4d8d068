SPECIFICATION FairSpec
CONSTANTS
  NoThread = NoThread
  RandomYield = TRUE
  ThreadIds = {a, b, c, d}
  Names = {x, y, z}
  NoName = NoName
  MaxLock = 2
  InitialValues <- AnyValue
  MaxValue = 2
  Locks = {x}
INVARIANTS OneSemaphorePerName NoLostSignal Mutex
PROPERTY PermitTaken
