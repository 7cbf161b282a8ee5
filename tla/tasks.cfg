CONSTANTS
  MaxTid = 3
  MaxChildren = 2
  Pids = {0, 1, 2, 3}
  Programs = 1
  None = none
SPECIFICATION Spec
INVARIANTS
  TidAccounting
  WaiterWillWake
  CallbacksLive
  IdleInterruptible
PROPERTIES
  RunsOnLiveStack
