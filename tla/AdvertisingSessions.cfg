SPECIFICATION FairSpec

CONSTANTS
  Slots = {"r1", "r2"}
  MaxFilter = 2
  MaxStarts = 3
  MaxStray = 0

INVARIANTS
  TypeOK
  RoutineRuns
PROPERTIES
  InfoCatchesUp
CHECK_DEADLOCK FALSE
