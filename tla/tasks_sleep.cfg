CONSTANTS
  MaxTid = 2
  MaxChildren = 1
  Pids = {0}
  Programs = 1
  None = none
SPECIFICATION FairSpec
PROPERTIES
  SleepReturns
