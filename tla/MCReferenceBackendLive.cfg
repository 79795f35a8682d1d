SPECIFICATION FairSpec
CONSTANTS
  Jobs = {j1}
  MaxStop = 2
  MaxOutage = 1
  MaxCrash = 1
PROPERTIES CallsEnd ShutdownCompletes
CHECK_DEADLOCK FALSE
