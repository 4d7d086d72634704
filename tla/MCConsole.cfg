CONSTANTS
  Procs = {"p1", "p2"}
  COLS = 3
  ROWS = 3
  Recent = 3
  INPUT_BUF = 3
  Modulus = 6
  KbdQueue = 2
  Programs <- AllPrograms
SPECIFICATION Spec
CHECK_DEADLOCK FALSE
INVARIANTS ScreenShows ModifiersExact EchoMatches
PROPERTIES IsLines 
