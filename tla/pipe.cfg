CONSTANTS
  MaxTid = 3
  MaxChildren = 2
  Pids = {0}
  Programs = 1
  None = none
  ReadLen = 2
  WriteLen = 1
  MaxBytes = 2
SPECIFICATION PipeSpec
CONSTRAINT ThirdThread
INVARIANTS
  PipeFifo
  ReaderWillWake
