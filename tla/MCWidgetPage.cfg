CONSTANTS
  MaxRows = 3
  MaxSends = 1
  MaxEdits = 1
  MaxFaults = 1
SPECIFICATION FairSpec
INVARIANTS TypeOK NothingMissed OnceUnlessOvertaken BubblesSettle TicksAreTrue ReadMeansShown
PROPERTIES RepliesAreShown
CHECK_DEADLOCK FALSE
