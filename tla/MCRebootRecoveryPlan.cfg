SPECIFICATION FairSpec
CONSTANTS
  Files = {socket}
  Scratches = {s1}
  MaxBoot = 3
  MaxKill = 1
  MaxSession = 1
PROPERTY PlanResumed
CHECK_DEADLOCK FALSE
