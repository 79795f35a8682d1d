SPECIFICATION EitherSpec
CONSTANTS
  Calls = {c1, c2}
  Requests <- SomeRequests
  None = none
  Whole = whole
  Clip = clip
  MaxChange = 1
  MaxFault = 1
  Intakes = {i1, i2}
  Releases <- SomeReleases
  MaxEdit = 2
  MaxFailure = 1
SYMMETRY CallSymmetry
INVARIANTS ResultFaithful MountFate IntakeWhole
PROPERTY SampleSettles
CHECK_DEADLOCK FALSE
