\* A conforming library, and each of the faulty ones.
CONSTANTS
  WriterYields = 2
  ReaderYields = 1
SPECIFICATION FairSpec
INVARIANTS
  TypeOK NoThreadLeft PassTells
  StageTellsHolders WaitFollowsFlag FailureTells
PROPERTIES ConformingPasses CaughtInTheAct
\* A test waits for ever on a faulty library.
CHECK_DEADLOCK FALSE
