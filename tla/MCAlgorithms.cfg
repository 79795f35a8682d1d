SPECIFICATION EitherSpec
CONSTANTS
  Calls <- Searches
  VocabularySize = 5
  TokenCount = 5
  Network <- SomeNetwork
  Impossible <- Nothing
  Videos <- SomeVideos
  Tick = 4
  Second = 2
  Milli = 1
  TargetRate = 1
  MaximumRate = 3
  MinimumFrames = 2
  MaximumFrames = 3
  MinimumClip = 3
  MaximumClip = 5
  MaximumCandidates = 9
  Distances <- SomeDistances
  Ambiguity = 1
  Maximum = 3
  FrameCount = 1
  Kinds = {"baseline", "public"}
  Versions = {0, 1}
  MaxEdit = 2
  MaxCommit = 4
  MaxCreate = 1
  SampleCount = 2
  Words <- WordCounts
  Unit = 2
  Predictions <- SomePredictions
  EpochCount = 2
  ScaleCount = 2
  Baseline = 2
  Authorities = {1, 2}
  States = {1, 2}
  Revisions = {1, 2}
  Evaluated = 1
  Vocabularies <- SomeVocabularies
  Fed <- SomeTokens
  MaximumTokens = 4
  MaximumBytes = 9
INVARIANTS
  DetectorOrdered
  ReceiptAgrees
  HandsAssigned
  BeamsAreBest
  TextFaithful
  EvidenceTrue
  VerifiedChain
CHECK_DEADLOCK FALSE
