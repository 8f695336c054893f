SPECIFICATION FairSpec
CONSTANTS
  MaxRuns = 3
INVARIANTS
  BlockedNeverPasses
  PassTells
  CleanBetween
  PassHeals
PROPERTIES
  ConformingPasses
  ReadmeKept
