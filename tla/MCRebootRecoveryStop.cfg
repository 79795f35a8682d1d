SPECIFICATION Spec
CONSTANTS
  Files = {socket}
  Scratches = {s1}
  MaxBoot = 2
  MaxKill = 0
  MaxSession = 1
INVARIANT CleanRestarts
CHECK_DEADLOCK FALSE
