SPECIFICATION Spec
CONSTANTS
  a = a
  PLAT_CPU_NUM = 2
  Threads = {a, b, r, h, g}
  NO_AFF = NO_AFF
  Affinities <- Apart
  NewAffinities = {}
  OtherIrqs = FALSE
  Clients = {a, b}
  Nested = {h}
  Handlers = {h, g}
  register_cb = r
  FlexHandlers = {}
INVARIANTS
  StackExclusive
  WaitingIsServed
  ServedAlone
