SPECIFICATION FairSpec

CONSTANTS
  a = a
  b = b
  x = x
  y = y
  Node = {a, b}
  Content = {1, 2}
  Tag = {"t", "u"}
  Hash = {x, y}
  TagOf <- OneTag
  HashOf <- TwoHashes
  OwnerOf <- OneOwner
  Directory = {2}
  AutoDownload = TRUE
  Refuses = FALSE
  Slots = {1, 2}
  Reserved = 1
  MaxHalts = 0
  MaxFails = 1
  MaxDeletes = 0

INVARIANTS
  NoLostDownload
PROPERTIES
  EveryTagSpreads
