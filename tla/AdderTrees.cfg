SPECIFICATION Spec

CONSTANTS
  Tree <- MCTree
  Hidden <- MCHidden
  LiveCacheSize = 2

INVARIANTS
  TypeOK
  MirrorsTree
  RootIsWhole
PROPERTY
  Returns
