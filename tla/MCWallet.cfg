SPECIFICATION Spec
CONSTANTS
  u1 = u1
  u2 = u2
  None = None
  User = {u1, u2}
  Job = {j1, j2}
  Call <- MCCall
  MaxOpening = 2
  MaxFaults = 1
INVARIANTS TypeOK HistoryExplainsBalance  LockedIsNotDebited
PROPERTY EveryCallEnds
CHECK_DEADLOCK FALSE
