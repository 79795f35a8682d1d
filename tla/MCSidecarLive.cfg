SPECIFICATION FairSpec
CONSTANTS
  Workers = {w1, w2}
  Requests = {r1, r2}
  None = none
PROPERTIES
  RequestsEnd
  ServiceEnds
  WorkersComeBack
CHECK_DEADLOCK FALSE
