SPECIFICATION FairSpec
CONSTANTS
  Calls = {c1, c2}
  Closer = closer
  None = none
INVARIANTS
  OneChild
  OwnTranscript
  VerifiedBeforeAsked
  CloseMeansDead
PROPERTIES
  CleanLaunch
  Contract
  CallsReturn
  CloseEnds
CHECK_DEADLOCK FALSE
