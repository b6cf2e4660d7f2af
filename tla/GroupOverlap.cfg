CONSTANTS
  DIDs = {a, b, c, d}
  Fibers = {f1, f2}
  OwnersInside = TRUE
  MaxCalls = 7
SPECIFICATION Spec
INVARIANT TypeOK WellFormed
PROPERTY OwnersKept AtomicUnlessOvertaken
CHECK_DEADLOCK FALSE
