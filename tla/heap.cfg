CONSTANTS
  NPages = 7
  ZonePages = 2
  Classes = {a, b}
  NMax = 2
  FreeLimit = 1
  MaxRegion = 3
  Words <- MCWords
  ZoneSize = 32768
  ChunkLimit = 8192
  HeadSize = 48
SYMMETRY Symmetry
SPECIFICATION Spec
INVARIANTS
  PagesApart
  ChunksOnce
  ListsExact
  UsageLeadsHome
PROPERTIES
  JoinedOnTheLeft
CHECK_DEADLOCK FALSE
