SPECIFICATION FairSpec

CONSTANTS
  Host = h
  Client = {c}
  Tag = {t}
  MaxWatchers = 1
  MaxCallers = 1
  MaxPending = 1
  h = h
  c = c
  t = t

INVARIANTS
  TypeOK
  NoOrphanHotspot
  ConnectedHasLink
PROPERTIES
  LinksEnd
