SPECIFICATION FairSpec
CONSTANTS
  NPROC = 3
  Proc = {1, 2, 3}
  initproc = 1
  NoProc = 0
  NoChan = 0
INVARIANTS WaitMissesNoChild FreedIsGone NoOrphan
PROPERTY KilledExits
