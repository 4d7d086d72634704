CONSTANTS
  W = 6
  H = 4
SPECIFICATION Spec
INVARIANTS LinesClose FillExact
