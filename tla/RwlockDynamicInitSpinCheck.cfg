CONSTANTS
  WriterYields = 3
  ReaderYields = 2
  LockKinds = {"exclusive"}
SPECIFICATION FairSpec
INVARIANT SpinCheckHolds
