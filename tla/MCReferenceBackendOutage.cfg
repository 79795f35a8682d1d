SPECIFICATION Spec
CONSTANTS
  Jobs = {j1}
  MaxStop = 1
  MaxOutage = 1
  MaxCrash = 0
INVARIANT AbsentMeansGone
CHECK_DEADLOCK FALSE
