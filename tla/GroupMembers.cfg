SPECIFICATION Spec

CONSTANTS
  a = a
  b = b
  g1 = g1
  t = t
  u = u
  Plain = Plain
  Node = {a, b}
  Group = {g1}
  Content = {1, 2}
  Tag = {t, u}
  Open = {g1}
  CreatorOf <- ByA
  GroupOf <- OneGroup
  OwnerOf <- BothOwners
  TagOf <- TwoTags
  AutoDownload = TRUE
  MaxHalts = 1
  MaxFails = 1

INVARIANTS
  TypeOK
  MemberStateComplete
  NonMembersBlind
  MembersAgree
CHECK_DEADLOCK FALSE
