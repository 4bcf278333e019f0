SPECIFICATION DatabasesSpec
CONSTANTS
  root = root
  out = out
  Dirs <- RootThenBuild
  Sources = {s1, s2}
  MaxTime = 1
  None = None
SYMMETRY SourceSymmetry
CHECK_DEADLOCK FALSE
INVARIANTS
  DatabasesTypeOK
  RegisterServesCurrent
