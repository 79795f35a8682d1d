SPECIFICATION FairSpec
CONSTANTS
  Files = {socket}
  Scratches = {s1, s2}
  MaxBoot = 3
  MaxKill = 1
  MaxSession = 2
INVARIANTS NoOverlap DurablyRecorded Retained
PROPERTIES LaunchEmpty RecoveryCompletes
CHECK_DEADLOCK FALSE
