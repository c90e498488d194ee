SPECIFICATION Spec
CONSTANTS
  None = None
  Whole = Whole
  Job = {j1, j2, j3}
  Connector = {c1}
  Priority = {1}
  MaxTime = 2
SYMMETRY JobSymmetry
INVARIANTS TypeOK ClashIsExplained FinalUnlessRaced
CHECK_DEADLOCK FALSE
