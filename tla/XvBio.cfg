SPECIFICATION Spec
CONSTANTS
  p1 = p1
  p2 = p2
  p3 = p3
  s1 = s1
  s2 = s2
  Proc = {p1, p2, p3}
  Slot = {s1, s2}
  Block = {0, 2, 4}
  BUCKET_SIZE = 2
  Val = {0, 1}
  Zero = 0
  NoProc = NoProc
  NoBlock = NoBlock
  NoBuf = NoBuf
SYMMETRY Interchangeable
INVARIANTS CachedOnce RefExact
PROPERTY IsBlockStore
