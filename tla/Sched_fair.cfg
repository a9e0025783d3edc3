SPECIFICATION FairSchedSpec
CONSTANTS
  PLAT_CPU_NUM = 2
  Threads = {t1, t2}
  NO_AFF = NO_AFF
  Affinities <- AnyAffinity
  NewAffinities = {0, 1, NO_AFF}
  OtherIrqs = FALSE
INVARIANTS
  StackExclusive
  OnePlace
PROPERTIES
  ReadyRuns
