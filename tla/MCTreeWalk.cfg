SPECIFICATION FairSpec
CONSTANTS
  Symbols = {a, b, c, d}
  Root = a
  Hierarchies <- AllHierarchies
  MaxFan = 2
  MaxDepth = 2
  MaxNodes = 4
  Concurrency = 2
CHECK_DEADLOCK FALSE
INVARIANTS
  TypeOK
  AskedOnce
  NothingIsHidden
PROPERTY WalkEnds
