SPECIFICATION Spec

CONSTANTS
  Tag = {"t"}
  AutoDownload = FALSE
  Busy = {1, 2}
  Followed = {"peer", "content"}
  MaxOpens = 2
  MaxStarts = 2
  MaxHalts = 1

CHECK_DEADLOCK FALSE
INVARIANTS
  TypeOK
  LockedWhileOpen
  TornOnlyByDeath
PROPERTIES
  MatrixNeverRegresses
