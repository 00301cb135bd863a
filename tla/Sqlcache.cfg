SPECIFICATION Spec
CONSTANTS
  t1 = t1
  t2 = t2
  a = a
  b = b
  x = x
  y = y
  Threads = {t1, t2}
  Keys = {a}
  NumKeys <- MCNumKeys
  Contents = {x, y}
  ReadThenWrite = FALSE
  MaxQueries = 1
  MaxTime = 3
SYMMETRY MCSymmetry

INVARIANTS
  Coherent
  NoLockCycle
PROPERTIES
  Invisible
CHECK_DEADLOCK FALSE
