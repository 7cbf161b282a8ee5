CONSTANTS
  Procs = {p1, p2}
  Frames = {f1, f2, f3, f4}
  NoFrame = NoFrame
  Values = {0, 1}
  Zero = 0
  PageSize = 3
  MaxVpn = 7
  Image <- MCImage
  ImageEnd <- MCImageEnd
  StackSize = 3
  BrkMax = 3
  Addrs <- VAs
  MmapSizes = {1, 3}
SYMMETRY Symmetry
SPECIFICATION Spec
INVARIANTS EveryStoreServed
