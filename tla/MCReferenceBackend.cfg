SPECIFICATION Spec
CONSTANTS
  Jobs = {j1, j2}
  MaxStop = 1
  MaxOutage = 1
  MaxCrash = 1
SYMMETRY JobSymmetry
INVARIANTS NothingLeft ReturnedMeansDone ShutdownQuiet
CHECK_DEADLOCK FALSE
