CONSTANTS
  Procs = {p1, p2}
  None = None
  Bufs = {b1, b2, b3}
  Blocks = {1, 2, 3, 4}
  Faulty = {4}
  Written = {2}
  Values = {v0, v1}
  Depth = 2
  MaxPinned = 1
SPECIFICATION Spec
SYMMETRY BufferSymmetry
INVARIANTS RefsExact SleepersServed
PROPERTIES IsStore
