CONSTANTS
  q1 = q1
  q2 = q2
  Requests = {q1, q2}
  MaxChannels = 2
  Provider = "instagram"
  Ops = {"login"}
  Faults = {}
SPECIFICATION Spec
INVARIANTS ConnectedIsKept
CHECK_DEADLOCK FALSE
