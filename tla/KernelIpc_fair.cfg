SPECIFICATION FairSpec
CONSTANTS
  a = a
  PLAT_CPU_NUM = 2
  Threads = {a, b, r, h, f}
  NO_AFF = NO_AFF
  Affinities <- Apart
  NewAffinities = {}
  OtherIrqs = FALSE
  Clients = {a, b}
  Nested = {}
  Handlers = {h, f}
  register_cb = r
  FlexHandlers = {f}
PROPERTY IpcReturns
