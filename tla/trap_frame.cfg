CONSTANTS
  Threads = {t1, t2, t3}
  Sched = sched
  None = none
SPECIFICATION Spec
INVARIANTS
  RestoredMasked
