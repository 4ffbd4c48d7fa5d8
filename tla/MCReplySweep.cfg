CONSTANTS
  MaxRows = 3
  MaxPid = 2
  m1 = m1
  Mids = {m1}
  NoRow = NoRow
  Faults = {}
SPECIFICATION Spec
PROPERTIES ReadsOnlyUpToTheAnchor
CHECK_DEADLOCK FALSE
