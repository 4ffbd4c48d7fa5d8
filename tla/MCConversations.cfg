CONSTANTS
  d1 = d1
  d2 = d2
  r1 = r1
  r2 = r2
  n1 = n1
  n2 = n2
  none = none
  Deliveries = {d1, d2}
  Replicas = {r1, r2}
  Instagram = {"ann"}
  Telegram = {"tom"}
  Numbers = {n1, n2}
  Faults = {"crash", "database", "profile", "redis"}
  None = none
SPECIFICATION Spec
SYMMETRY Symmetry
INVARIANTS TypeOK OneConversation FiledUnlessFailed NameComesBack CopiesAreCurrent
CHECK_DEADLOCK FALSE
