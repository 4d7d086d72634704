CONSTANTS
  MAXARGS = 3
  NPROC = 6
  NOFILE = 6
  Sessions <- AllSessions
SPECIFICATION Spec
CHECK_DEADLOCK FALSE
INVARIANTS ParsesRight FdsAsWritten PromptWaits
PROPERTIES PromptReturns
