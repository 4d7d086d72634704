CONSTANTS
  Procs = {1, 2, 3}
  MAX_PROCESSES = 2
  Coords = {1}
  Indices = {1, 2, 3, 4}
  FirstPen = 2
  NColours = 4
  Colours = {"red", "white"}
  TooBright = {"white"}
SPECIFICATION Spec
CONSTRAINT NoOverlap
INVARIANTS PrivateContext 
