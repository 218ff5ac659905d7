\* A rotated token is used again while its successor is live.
SPECIFICATION Spec
CONSTANTS
  Requests = {q1, q2}
  MaxRows = 3
  MaxActs = 1
SYMMETRY RequestSymmetry
INVARIANTS ReuseSignsOut
CHECK_DEADLOCK FALSE
