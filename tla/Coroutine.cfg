SPECIFICATION FairSpec
CONSTANTS
  MAX_COROUTINE = 3
  NoId = NoId
  MaxCreate = 5
CHECK_DEADLOCK FALSE
INVARIANTS
  QueueIsLive
  ContextIsOwn
  TableBound
PROPERTIES
  RoundRobin
  ResumesFairly
