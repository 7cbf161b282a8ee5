CONSTANTS
  MaxTid = 3
  MaxChildren = 1
  Pids = {0}
  Programs = 1
  None = none
SPECIFICATION FairSpec
PROPERTIES
  ReadyRuns
  WaitReturns
