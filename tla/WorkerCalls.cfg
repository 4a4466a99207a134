\* Four calls, one of them on bad input, and threads that fail, end or are ended.
SPECIFICATION FairSpec
CONSTANTS
  Tasks = {t1, t2, t3, t4}
  Good = {t1, t2, t3}
  MaxPending = 2
  MaxWorkers = 3
INVARIANTS PendingAnswerable IdleWorkerReleased
PROPERTIES HealthyWorkKept ImplementsCalls
CHECK_DEADLOCK FALSE
