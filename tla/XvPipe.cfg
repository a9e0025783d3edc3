SPECIFICATION PipeSpec
CONSTANTS
  writer = writer
  reader = reader
  both = both
  Proc = {writer, reader, both}
  NoProc = NoProc
  NoChan = NoChan
  Byte = {a, b}
  PIPESIZE = 2
  UINT = 4
  Length = {1, 2}
  Ends <- MCEnds
INVARIANTS
  SleepsForCause
  FreedOnce

  
SYMMETRY Interchangeable
CHECK_DEADLOCK FALSE
