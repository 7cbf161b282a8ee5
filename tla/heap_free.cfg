CONSTANTS
  NPages = 7
  ZonePages = 2
  Classes = {a, b}
  NMax = 3
  FreeLimit = 1
  MaxRegion = 3
  Words = {0}
  ZoneSize = 32768
  ChunkLimit = 8192
  HeadSize = 48
SYMMETRY Symmetry
SPECIFICATION Spec
INVARIANT
  OneOwner
CHECK_DEADLOCK FALSE
