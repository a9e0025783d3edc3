SPECIFICATION FairSpec
CONSTANTS
  c1 = c1
  c2 = c2
  h1 = h1
  h2 = h2
  Coroutines <- TwoCoroutines
  NoCoroutine = NoCoroutine
  MAX_FLEX_IPC_COUNT = 1
  Handlers <- TwoHandlers
  Ordered = FALSE
  MaxCalls = 1
PROPERTIES
  CallReturns
