SPECIFICATION Spec
CONSTANTS
  t3 = t3
  PLAT_CPU_NUM = 2
  Threads = {t1, t2, t3}
  NO_AFF = NO_AFF
  Affinities <- Together
  NewAffinities = {}
  OtherIrqs = TRUE
  Notifiers = {t1, t2}
  TimedWaiters = {t1, t2}
  Sleepers = {t1, t2}
  SameTimeout = FALSE
  MaxPending = 1
INVARIANTS
  
  NoMissedNotification
  
  ListedOnce
  
