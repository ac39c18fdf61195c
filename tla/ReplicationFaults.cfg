SPECIFICATION Spec

CONSTANTS
  a = a
  b = b
  x = x
  y = y
  Node = {a, b}
  Content = {1}
  Tag = {"t"}
  Hash = {x}
  TagOf <- OneTagOnly
  HashOf <- OneHashOnly
  OwnerOf <- OneOwnerOnly
  Directory = {}
  AutoDownload = TRUE
  Refuses = TRUE
  Slots = {1}
  Reserved = 0
  MaxHalts = 2
  MaxFails = 1
  MaxDeletes = 1

INVARIANTS
  TypeOK
  AdvertisedWasHeld
  FinishedWasHeld
  OwnTagsShown
PROPERTIES
  Implements
CHECK_DEADLOCK FALSE
