CONSTANTS
  MaxRows = 3
  MaxPid = 2
  m1 = m1
  Mids = {m1}
  NoRow = NoRow
  Faults = {"answer"}
SPECIFICATION FairSpec
INVARIANTS OutcomeShown
PROPERTIES DeliveryEnds ReadReachesTheRow
CHECK_DEADLOCK FALSE
