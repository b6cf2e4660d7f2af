SPECIFICATION FairSpec
CONSTANTS
  Rows = {r1, r2}
  LastVersion = 2
  MaxCalls = 3
  MaxFailures = 1
  MaxReloads = 1
INVARIANTS
  MirrorsTable
  MigrationsInOrder
PROPERTIES
  CallsSettle
CHECK_DEADLOCK FALSE
