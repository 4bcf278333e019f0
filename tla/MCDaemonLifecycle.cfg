SPECIFICATION FairSpec
CONSTANTS
  Frontends = {f1, f2, f3}
  Daemons = {d1, d2}
  None = None
  Faults = {"signal", "crash"}
  WaitsForConnections = TRUE
CHECK_DEADLOCK FALSE
INVARIANTS
  TypeOK
  OneDaemon
PROPERTIES
  DaemonsSpareEachOther
  SessionsAreKept
  DaemonsEnd
