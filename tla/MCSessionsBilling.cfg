SPECIFICATION Spec
CONSTANTS
  None = None
  Txn = {t1}
  Resolvable = {t1}
  MaxMeter = 2
  MaxFaults = 0
INVARIANT BilledAtRate
CHECK_DEADLOCK FALSE
