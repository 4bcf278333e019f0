SPECIFICATION Spec
CONSTANTS
  Projects = {p1, p2}
  Tasks = {t1, t2}
  Tokens = {k1, k2, k3}
  Clients = {c1, c2, c3}
  None = None
  Faults = {"cancel", "configure", "startError"}
SYMMETRY Symmetry
CHECK_DEADLOCK FALSE
INVARIANTS
  TypeOK
  TokenNamesEntry
PROPERTIES
  SameServerWhileRegistered
