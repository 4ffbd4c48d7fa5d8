CONSTANTS
  r1 = r1
  r2 = r2
  c1 = c1
  k1 = k1
  k2 = k2
  l1 = l1
  l2 = l2
  w1 = w1
  none = none
  Replicas = {r1, r2}
  Channels = {c1}
  Keys = {k1, k2}
  Lookups = {l1, l2}
  Mutations = {w1}
  MaxVersion = 2
  None = none
SPECIFICATION Spec
SYMMETRY Symmetry
INVARIANTS TypeOK OutdatedOnlyWhenOvertaken
CHECK_DEADLOCK FALSE
