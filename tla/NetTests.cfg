SPECIFICATION FairSpec
CONSTANTS
  NumProcs = 2
  MaxStarts = 3
  MaxLimit = 18
INVARIANTS PassTells FailsOnlyByNeighbour CleanBetween
PROPERTY ConformingPasses
