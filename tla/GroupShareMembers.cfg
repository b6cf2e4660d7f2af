CONSTANTS
  Nodes = {a, b}
  Fibers = {f1}
  Ids = {i1}
  Topics = {t1, t2}
  Subs = {{t1}, {t1, t2}}
  Unknown = Unknown
  Writers = {a, b}
  Readers = {a, b}
  Calls = {"put", "delete", "subscribe", "dump", "restore", "purge", "restart"}
  Retention = 1
  TwoLayer = {b}
  Ahead = {a}
  Lossy = TRUE
  MaxTime = 3
  MaxCalls = 3
SPECIFICATION FairSpec
INVARIANT TypeOK PutAccounted LeftOutAsDeclared
PROPERTY KeptUntilExpired SubsConverge
CHECK_DEADLOCK FALSE
