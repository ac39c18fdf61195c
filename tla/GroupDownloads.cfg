SPECIFICATION FairSpec

CONSTANTS
  a = a
  b = b
  g1 = g1
  t = t
  u = u
  Plain = Plain
  Node = {a, b}
  Group = {g1}
  Content = {1, 2}
  Tag = {t}
  Open = {}
  CreatorOf <- ByA
  GroupOf <- GroupAndPlain
  OwnerOf <- BothOwners
  TagOf <- OneTag
  AutoDownload = TRUE
  MaxHalts = 0
  MaxFails = 1

PROPERTIES
  MembersGetContent
CHECK_DEADLOCK FALSE
