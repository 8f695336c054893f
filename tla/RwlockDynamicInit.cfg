\* A lock that excludes; yield loops long enough for every overlap of the two
\* loops with the main thread's polling.
CONSTANTS
  WriterYields = 9
  ReaderYields = 6
  LockKinds = {"exclusive"}
SPECIFICATION FairSpec
INVARIANTS TypeOK NeverBothInside OnlySpinCheckFails
PROPERTIES EndsOnceWriterSeen ImplementsRwLock
