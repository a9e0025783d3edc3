SPECIFICATION Spec
CONSTANTS
  p1 = p1
  p2 = p2
  p3 = p3
  b1 = b1
  b2 = b2
  b3 = b3
  b4 = b4
  v1 = v1
  v2 = v2
  Proc = {p1, p2, p3}
  NoProc = NoProc
  Block = {b1, b2, b3, b4}
  Val = {v1, v2}
  MAXOPBLOCKS = 1
  LOGSIZE = 2
  NLOG = 3
SYMMETRY Interchangeable
INVARIANTS SleeperHasWaker PinnedUntilHome 
PROPERTY IsGroupCommit
