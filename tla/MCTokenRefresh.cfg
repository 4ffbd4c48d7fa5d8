CONSTANTS
  r1 = r1
  r2 = r2
  q1 = q1
  Replicas = {r1, r2}
  Requests = {q1}
  Lifetime = 4
  Threshold = 2
  MinAge = 1
  MaxOutage = 1
  MaxTime = 5
  MaxTokens = 4
SPECIFICATION Spec
SYMMETRY Symmetry
INVARIANTS TypeOK ExpiryIsTheTokens OutagesAreOutlived ReconnectHeals
PROPERTIES RefreshRevivesNothing
CHECK_DEADLOCK FALSE
