CONSTANTS
  Peers = {p1, p2}
  Derived = p1
  Messages = {m1, m2}
  Senders = {s1}
  Flushers = {f1, f2}
  MaxFailures = 1
  MaxDrops = 2
SPECIFICATION FairSpec
INVARIANT TypeOK Accounted NoDuplicates
PROPERTY QueuedArrives
CHECK_DEADLOCK FALSE
