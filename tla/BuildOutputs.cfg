\* Every command of both flows in one checkout, with failures and kills.
CONSTANTS
  Suites = {"file-c", "thread-c"}
  Modes = {"standalone", "single-process"}
  Toolchains = {"native", "docker"}
  UsesMake = TRUE
  MaxChanges = 3
  MaxKills = 2
SPECIFICATION Spec
INVARIANTS TypeOK SourceEditsReach CleanBuildIsCurrent FallbackIsLastBuild
