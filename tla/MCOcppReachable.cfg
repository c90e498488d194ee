SPECIFICATION Spec
CONSTANTS
  c1 = c1
  c2 = c2
  r1 = r1
  r2 = r2
  None = None
  MaxSockets = 2
  Code = {c1, c2}
  Request = {r1, r2}
  Target <- MCTarget
  Supported = {r1, r2}
  Keyed = {r1}
  MaxCalls = 1
  MaxFaults = 0
INVARIANT ConnectedChargerIsReachable
CHECK_DEADLOCK FALSE
