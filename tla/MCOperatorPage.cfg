CONSTANTS
  c1 = c1
  c2 = c2
  none = none
  Chats = {c1, c2}
  NoChat = none
  Writers = {"client", "app"}
  MaxRows = 2
  MaxSends = 1
  MaxSelects = 2
  MaxFaults = 1
  MaxActs = 3
SPECIFICATION Spec
SYMMETRY Symmetry
INVARIANTS TypeOK ViewSettles TicksAreTrue ReadMeansShown SeenIsHonest
CHECK_DEADLOCK FALSE
