SPECIFICATION Spec
CONSTANTS
  outer = outer
  sub = sub
  inner = inner
  l1 = l1
  m1 = m1
  Dirs = {outer, sub, inner}
  Parent <- MCParent
  MaxLevels = 2
  None = None
  Installed = {"java", "c", "rust", "python"}
  Trees <- MCTrees
  Becomes <- MCBecomes
  Options <- MCOptions
  Sessions = {l1, m1}
  Tokens = {k1, k2}
  Proxies = {l1}
  Root <- MCRoot
SYMMETRY TokenSymmetry
CHECK_DEADLOCK FALSE
INVARIANTS
  TypeOK
  RoutedToItsLanguage
  ConfiguredAsDetected
  ShutdownLetsGo
