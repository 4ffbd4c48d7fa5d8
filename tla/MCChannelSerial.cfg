CONSTANTS
  q1 = q1
  Requests = {q1}
  MaxChannels = 3
  Provider = "instagram"
  Ops = {"create", "login", "update", "delete", "register"}
  Faults = {"answer", "database"}
SPECIFICATION Spec
INVARIANTS DeafIsReported
CHECK_DEADLOCK FALSE
