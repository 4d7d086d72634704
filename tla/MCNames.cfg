CONSTANTS
  a = a
  b = b
  Procs = {p1, p2}
  None = None
  NInodes = 3
  NSlots = 3
  MaxLinks = 3
  Elems = {a, b}
  Programs <- MCPrograms
SYMMETRY ProcSymmetry
SPECIFICATION Spec
CHECK_DEADLOCK FALSE
INVARIANTS SlotsExact LinksExact InUse CircleInIput
