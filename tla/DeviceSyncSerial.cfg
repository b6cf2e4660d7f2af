CONSTANTS
  d1 = d1
  d2 = d2
  Devices = {d1, d2}
  Fibers = {f1}
  Keys = {k1}
  Bodies = {b1, b2}
  NoBody = NoBody
  Calls = {"put", "sync"}
  Skew <- NoSkew
  Policy <- CountPolicy
  MaxAge = 1
  MaxCount = 1
  Width = 64
  Lossy = FALSE
  Crashes = FALSE
  MaxTime = 3
  MaxCalls = 4
SPECIFICATION FairSpec
PROPERTY Converges
CHECK_DEADLOCK FALSE
