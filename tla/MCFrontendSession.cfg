SPECIFICATION FairSpec
CONSTANTS
  f1 = f1
  f2 = f2
  c1 = c1
  c2 = c2
  c3 = c3
  Frontends = {f1, f2}
  Calls = {c1, c2, c3}
  Owner <- TwoAndOne
  Workloads <- Mixed
  None = None
  Scenarios = {{"cancel", "timeout"}, {"signal"}, {"crash"}}
CHECK_DEADLOCK FALSE
INVARIANTS
  TypeOK
  SessionsHoldRegistrations
PROPERTIES
  RegistrationsAreRespected
  GoneFrontendsLetGo
