SPECIFICATION FairSpec
CONSTANTS
  c1 = c1
  c2 = c2
  h1 = h1
  h2 = h2
  Coroutines <- TwoCoroutines
  NoCoroutine = NoCoroutine
  MAX_FLEX_IPC_COUNT = 2
  Handlers <- OneHandler
  Ordered = TRUE
  MaxCalls = 2
INVARIANTS
  
  
  
  
  NoFault

  
