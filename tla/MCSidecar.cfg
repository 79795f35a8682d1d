SPECIFICATION Spec
CONSTANTS
  Workers = {w1, w2, w3}
  Requests = {r1, r2, r3}
  None = none
SYMMETRY PoolSymmetry
INVARIANTS
  PoolConsistent
  OneLoad
  QuietBeforeClose
  ReturnMeansReaped
PROPERTY
  SlotsKept
CHECK_DEADLOCK FALSE
