CONSTANTS
  Procs = {p, q}
  Root = root
  Dir = dir
  Names = {file, alias}
  Std = 1
  MaxFd = 3
  Descs = {d, e}
  Spare = {s}
  MaxSize = 1
SYMMETRY Symmetry
CHECK_DEADLOCK FALSE
SPECIFICATION SpecAny
INVARIANT DropAssertion
