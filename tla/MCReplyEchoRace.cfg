CONSTANTS
  MaxRows = 2
  MaxPid = 1
  m1 = m1
  Mids = {m1}
  NoRow = NoRow
  Faults = {}
SPECIFICATION Spec
INVARIANTS EchoDoesNotDuplicate
CHECK_DEADLOCK FALSE
