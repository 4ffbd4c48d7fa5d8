CONSTANTS
  q1 = q1
  q2 = q2
  q3 = q3
  Requests = {q1, q2, q3}
  MaxChannels = 2
  Provider = "telegram"
  Ops = {"create", "update", "delete", "register"}
  Faults = {"answer", "crash", "database"}
SPECIFICATION Spec
SYMMETRY Symmetry
INVARIANTS TypeOK NeverWorkedIsRemoved
PROPERTIES DeletedStaysDeleted OnlyStaleReadsSteal
CHECK_DEADLOCK FALSE
