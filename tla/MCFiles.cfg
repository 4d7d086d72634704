CONSTANTS
  Procs = {p1, p2}
  NInodes = 2
  NBlocks = 5
  BSIZE = 2
  NDIRECT = 1
  NINDIRECT = 2
  BPB = 4
  MAXOPBLOCKS = 6
  NFILE = 2
  NOFILE = 2
  Programs <- MCPrograms
  Modes <- MCModes
SYMMETRY ProcSymmetry
SPECIFICATION Spec
CHECK_DEADLOCK FALSE
INVARIANTS BitmapExact TransactionFits
PROPERTIES IsFlat
