SPECIFICATION Spec

CONSTANTS
  k1 = k1
  k2 = k2
  r1 = r1
  r2 = r2
  mid = mid
  leaf = leaf
  t = t
  u = u
  None = None
  Client = {k1, k2}
  Content = {1, 2}
  Tag = {t, u}
  Block = {r1, r2, mid, leaf}
  Links <- TwoFiles
  Root <- TwoRoots
  Remote = {r2}

SYMMETRY Clients
INVARIANTS
  TypeOK
  WholeUntilDeleted
