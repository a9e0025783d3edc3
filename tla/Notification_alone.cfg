SPECIFICATION FairSpec
CONSTANTS
  t3 = t3
  PLAT_CPU_NUM = 2
  Threads = {t1, t3}
  NO_AFF = NO_AFF
  Affinities <- Together
  NewAffinities = {}
  OtherIrqs = FALSE
  Notifiers = {}
  TimedWaiters = {t1, t3}
  Sleepers = {t1, t3}
  SameTimeout = TRUE
  MaxPending = 1
PROPERTIES
  KernelExits
  TimedWaitEnds
