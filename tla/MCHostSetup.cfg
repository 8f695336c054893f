\* Two of everything; the tool or the sysroot varies (module MCHostSetup).
SPECIFICATION Spec
CONSTANTS
  Versions = {v1, v2}
  Trees = {t1, t2}
  MaxKills = 2
  Locals = {d1, d2}
  MaxBuilds = 2
  Windows = TRUE
SYMMETRY Symmetry
CONSTRAINT OneAtATime
INVARIANTS
  TypeOK
  ToolIsRight
  TestsRunLocal
  OneBuild
  RequiredOnceSetUp
