CONSTANTS
  DIDs = {a, b, c}
  Founder = a
  Roles = {"admin", "member"}
  AdminRole = "admin"
  AdminRoles = {"admin"}
  Out = Out
  Invites <- OneInvite
  NoInvite = NoInvite
  Fibers = {f1, f2}
  Calls = {"join"}
  Skew <- NoSkew
  MaxTime = 1
  MaxCalls = 2
SPECIFICATION Spec
INVARIANT SingleUse
CHECK_DEADLOCK FALSE
