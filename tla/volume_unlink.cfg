CONSTANTS
  Names = {f, g}
  Blank = blank
  Clusters = {c1, c2, c3}
  ClusterSize = 2
  MaxSize = 3
SYMMETRY Symmetry
SPECIFICATION SpecUnlink
INVARIANT ChainsApart
