SPECIFICATION Spec
CONSTANTS
  ByteBits = 2
  JumpRegion = 128
  PageSize = 16
  NumPhysPages = 13
  UserStackSize = 16
  GPRegs = {0, 1, 2, 3, 4, 29, 31}
  Text <- MCText
  ThreadIds = {1, 2, 3}
  Coff <- MCCoff
  Roots <- MCRoots
  Children <- MCChildren
  Values = {0, 1, 3, 32, 127, 128, 255}
INVARIANTS FramesOwned LoadedWhole RunsAsAlone
PROPERTIES InterpretersAgree
