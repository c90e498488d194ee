SPECIFICATION Spec
CONSTANTS
  None = None
  Txn = {t1}
  Resolvable = {t1}
  MaxMeter = 2
  MaxFaults = 1
INVARIANTS TypeOK ActiveListAgrees StoppedIsClosed
PROPERTIES  EveryMessageIsConsumed
CHECK_DEADLOCK FALSE
