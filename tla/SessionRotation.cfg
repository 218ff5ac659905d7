\* Refreshes, revocations and step-ups of up to two families at once.
SPECIFICATION Spec
CONSTANTS
  Requests = {q1, q2}
  MaxRows = 3
  MaxActs = 2
SYMMETRY RequestSymmetry
INVARIANTS TypeOK OneLivePerFamily NeverRenewed
PROPERTIES DeadFamilyStaysDead
CHECK_DEADLOCK FALSE
