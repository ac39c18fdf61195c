SPECIFICATION FairSpec

CONSTANTS
  Tag = {}
  AutoDownload = TRUE
  Busy = {1}
  Followed = {"content"}
  MaxOpens = 1
  MaxStarts = 2
  MaxHalts = 0

CHECK_DEADLOCK FALSE
PROPERTIES
  StopEnds
