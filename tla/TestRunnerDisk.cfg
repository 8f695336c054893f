\* Nobody stops a run, but the disk may be full: the copy stays behind.
CONSTANTS
  TestableSuites = {"thread-c"}
  InfrastructureSuites = {"file-c"}
  LoaderSuites = {}
  MaxRuns = 2
  MaxStops = 0
  DiskFails = TRUE
SPECIFICATION Spec
INVARIANT CopyIsTemporary
