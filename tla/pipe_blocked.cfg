CONSTANTS
  MaxTid = 2
  MaxChildren = 1
  Pids = {0}
  Programs = 1
  None = none
  ReadLen = 2
  WriteLen = 1
  MaxBytes = 2
SPECIFICATION PipeFairSpec
PROPERTIES
  BlockedReadReturns
