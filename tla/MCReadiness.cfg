SPECIFICATION FairSpec
CONSTANTS
  Tokens = {t1, t2}
  Queries = {s1, x1}
  SingleFile = {s1}
  Kinds = {"base", "progress", "clangd", "jdtls"}
  MaxRetries = 2
CHECK_DEADLOCK FALSE
INVARIANTS
  TypeOK
PROPERTIES
  ReadyIsIdle
  IndexingEnds
  QueriesReturn
