CONSTANTS
  Procs = {p1, p2}
  Frames = {f1, f2, f3, f4}
  NoFrame = NoFrame
  Values = {0}
  Zero = 0
  PageSize = 2
  MaxVpn = 4
  Image <- MCDataImage
  ImageEnd <- MCDataImageEnd
  StackSize = 2
  BrkMax = 2
  Addrs = {2, 3, 6}
  MmapSizes = {2}
SYMMETRY Symmetry
SPECIFICATION SpecAny
INVARIANTS FrameAccounting AreasMapped
