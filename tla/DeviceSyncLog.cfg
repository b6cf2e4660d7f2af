CONSTANTS
  d1 = d1
  d2 = d2
  Devices = {d1, d2}
  Fibers = {f1, f2}
  Keys = {k1}
  Bodies = {b1}
  NoBody = NoBody
  Calls = {"put", "delete", "sync"}
  Skew <- FarSkewed
  Policy <- MixedPolicy
  MaxAge = 1
  MaxCount = 1
  Width = 0
  Lossy = TRUE
  Crashes = TRUE
  MaxTime = 3
  MaxCalls = 3
SPECIFICATION Spec
INVARIANT TypeOK LogContiguous RecordMatchesLog TruncationSafe PutAccounted
PROPERTY RetentionSafe GapOnlyByTruncation
CHECK_DEADLOCK FALSE
