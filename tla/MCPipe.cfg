CONSTANTS
  Procs = {p1, p2}
  None = None
  PIPESIZE = 2
  Wrap = 4
  MaxN = 2
  Bytes = {0, 1}
SPECIFICATION FairSpec
CHECK_DEADLOCK FALSE
INVARIANTS FreedLast 
PROPERTIES IsFifo EndIsNoticed
