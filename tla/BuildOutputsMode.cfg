\* A native build, another mode, then a build in Docker.
CONSTANTS
  Suites = {"file-c", "thread-c"}
  Modes = {"standalone", "single-process"}
  Toolchains = {"native", "docker"}
  UsesMake = FALSE
  MaxChanges = 1
  MaxKills = 0
SPECIFICATION Spec
INVARIANT BuiltForMode
