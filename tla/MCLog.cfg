CONSTANTS
  Procs = {p1, p2, p3}
  LOGSIZE = 4
  LogSize = 4
  MAXOPBLOCKS = 2
  OpBlocks = 1
  NHome = 3
  Vals = {0, 1}
SPECIFICATION FairSpec
 
PROPERTIES AtomicCommit Admitted
