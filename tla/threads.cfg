SPECIFICATION FairSpec
CONSTANTS
  NoThread = NoThread
  RandomYield = TRUE
  ThreadIds = {m, a, b, c}
  Main = m
  InitialValue = 1
  MaxValue = 3
INVARIANTS OnePlace NoLostWakeup
PROPERTIES OwnContext ReadyRuns
