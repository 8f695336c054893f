\* Two runs, one of which may be interrupted, killed, or out of disk space.
CONSTANTS
  TestableSuites = {"thread-c"}
  InfrastructureSuites = {"file-c"}
  LoaderSuites = {"dlfcn-c"}
  MaxRuns = 2
  MaxStops = 1
  DiskFails = TRUE
SPECIFICATION FairSpec
INVARIANTS TypeOK PassedMeansOk TestedInRun
PROPERTIES UserFileKept LeavesNoTrace RunEnds
