CONSTANTS
  Procs = {1, 2}
  NFrames = 24
  PGSIZE = 8
  NPTENTRIES = 3
  NPDENTRIES = 4
  MAXARG = 2
  Programs <- MCPrograms
SPECIFICATION Spec
VIEW Shapes
CHECK_DEADLOCK FALSE
INVARIANTS OneUse SizeMapped ArgumentsPresent
PROPERTIES IsPrivate
