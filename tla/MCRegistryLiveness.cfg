SPECIFICATION FairSpec
CONSTANTS
  Projects = {p1}
  Tasks = {t1, t2}
  Tokens = {k1, k2, k3}
  Clients = {c1, c2}
  None = None
  Faults = {}
CHECK_DEADLOCK FALSE
INVARIANTS
  RegisteredIsServed
  EveryServerIsOwned
PROPERTIES
  CallsReturn
  ImplementsLease
