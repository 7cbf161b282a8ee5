CONSTANTS
  Procs = {p1, p2, p3}
  Frames = {f1, f2, f3, f4}
  NoFrame = NoFrame
  Values = {0, 1}
  Zero = 0
  PageSize = 3
  MaxVpn = 7
  Image <- MCImage
  ImageEnd <- MCImageEnd
  StackSize = 3
  BrkMax = 3
  Addrs <- VAs
  MmapSizes = {1}
SYMMETRY Symmetry
SPECIFICATION Spec
INVARIANTS PteTracks NoSharedWrite WritableServed AssertsHold
PROPERTIES ImplementsPrivateMemory
