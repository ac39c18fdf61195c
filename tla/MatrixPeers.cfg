SPECIFICATION Spec

CONSTANTS
  None = None
  Peer = {p}
  Medium = {"ble"}
  MaxLinks = 2
  MaxTime = 3
  MaxFlushes = 2
  MaxConnects = 2
  MaxHalts = 1

INVARIANTS
  TypeOK
  AliveIsOpen
  HistoryOrdered
  ConnectionsCounted
  FlushedSurvives
