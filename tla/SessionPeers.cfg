SPECIFICATION SessionFairSpec
CONSTANTS
  a1 = a1
  a2 = a2
  b = b
  A = A
  A1 = A1
  A2 = A2
  B = B
  m1 = m1
  m2 = m2
  Devices = {a1, a2, b}
  DIDs = {A, A1, A2, B}
  Account <- MCAccount
  Host <- MCHost
  Payloads = {m1, m2}
  To <- MCTo
  Contacts <- MCContacts
  MaxDials = 2
  MaxBreaks = 1
INVARIANTS
  KnownByAccount
  ReachesAddressee
PROPERTIES
  HandshakesEnd
CHECK_DEADLOCK FALSE
