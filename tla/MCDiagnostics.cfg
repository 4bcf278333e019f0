SPECIFICATION Spec
CONSTANTS
  p = p
  q = q
  r = r
  f = f
  g = g
  Files = {f, g}
  Positions = {p, q, r}
  In <- MCIn
  Servers <- MCServers
  MaxVersion = 1
  None = None
INVARIANT DiagnosticsFollowChanges
