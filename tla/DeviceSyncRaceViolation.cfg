CONSTANTS
  d1 = d1
  d2 = d2
  Devices = {d1, d2}
  Fibers = {f1, f2}
  Keys = {k1}
  Bodies = {b1}
  NoBody = NoBody
  Calls = {"put"}
  Skew <- NoSkew
  Policy <- NoPolicy
  MaxAge = 1
  MaxCount = 1
  Width = 0
  Lossy = FALSE
  Crashes = FALSE
  MaxTime = 2
  MaxCalls = 2
SPECIFICATION Spec
PROPERTY NewerKept
CHECK_DEADLOCK FALSE
