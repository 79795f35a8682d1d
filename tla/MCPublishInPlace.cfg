SPECIFICATION EitherSpec
CONSTANTS
  Conversions = {c1, c2, c3}
  Payloads = {b1, b2}
  Builds = {b1, b2}
  Rebinds = {r1, r2}
  Exports = {e1}
  None = none
  Nobody = nobody
  Files = {1, 2}
  Versions = {0, 1}
  MaxKill = 1
  MaxBoot = 1
  MaxCut = 1
  MaxEdit = 2
SYMMETRY CallSymmetry
INVARIANTS BundleStays ImageIsPinned
PROPERTY ArtifactSettles
CHECK_DEADLOCK FALSE
