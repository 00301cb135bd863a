SPECIFICATION Spec
CONSTANTS
  Fields = 4
  Shape <- MCShape
  Values = {v1}
  MaxSubinputs = 14
  MaxMoves = 1
  Fitting = TRUE
  Closed = TRUE
INVARIANTS
  NoDangling
PROPERTIES
  SameForm
