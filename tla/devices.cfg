SPECIFICATION Spec
CONSTANTS
  NoThread = NoThread
  RandomYield = TRUE
  UserTick = 1
  SystemTick = 2
  TimerTicks = 2
  ConsoleTime = 3
  MaxTicks = 24
  SectorsPerTrack = 3
  NumTracks = 2
  RotationTime = 4
  SeekTime = 4
  ThreadIds = {a, b}
  DiskUsers = {a}
INVARIANTS PendingSorted HaltsWhenDone
PROPERTIES Punctual LatencyExact
