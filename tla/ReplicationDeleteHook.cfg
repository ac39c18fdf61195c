SPECIFICATION Spec

CONSTANTS
  a = a
  b = b
  x = x
  y = y
  Node = {a, b}
  Content = {1, 2}
  Tag = {"t", "u"}
  Hash = {x, y}
  TagOf <- TwoTags
  HashOf <- TwoHashes
  OwnerOf <- OneOwner
  Directory = {}
  AutoDownload = TRUE
  Refuses = FALSE
  Slots = {1, 2}
  Reserved = 0
  MaxHalts = 0
  MaxFails = 0
  MaxDeletes = 1

INVARIANTS
  OwnTagsShown
