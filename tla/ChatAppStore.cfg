SPECIFICATION FairSpec
CONSTANTS
  p1 = p1
  p2 = p2
  g1 = g1
  m1 = m1
  m2 = m2
  People = {p1, p2}
  Groups = {g1}
  Texts = {m1, m2}
  Mine = {m2}
  Peer <- MCPeer
  MaxArrivals = 2
  MaxFailures = 1
  MaxRestarts = 1
INVARIANTS ShownIsStored GroupsComplete
PROPERTY CreationEnds
CHECK_DEADLOCK FALSE
