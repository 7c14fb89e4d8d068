SPECIFICATION FairSpec
CONSTANTS
  NoThread = NoThread
  RandomYield = TRUE
  ThreadIds = {a, b}
  MaxBytes = 2
  MaxTyped = 3
  InputMayClose = TRUE
INVARIANTS ReadsWhole NoIdleWait
PROPERTIES WritesWhole CallsGoOn
