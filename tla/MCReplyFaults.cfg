CONSTANTS
  MaxRows = 3
  MaxPid = 2
  m1 = m1
  m2 = m2
  Mids = {m1, m2}
  NoRow = NoRow
  Faults = {"crash", "database", "answer"}
SPECIFICATION Spec
SYMMETRY Symmetry
INVARIANTS TypeOK IInv ProviderIdNamesItsMessage ReceiptSettles StoredTwiceOnlyAfterAdoption
PROPERTIES RenamedOnce KeepsReplyLife
CHECK_DEADLOCK FALSE
