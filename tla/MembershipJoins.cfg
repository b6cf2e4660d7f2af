CONSTANTS
  DIDs = {a, b, c}
  Founder = a
  Roles = {"admin", "member"}
  AdminRole = "admin"
  AdminRoles = {"admin"}
  Out = Out
  Invites <- OneInvite
  NoInvite = NoInvite
  Fibers = {f1, f2}
  Calls = {"join", "kick", "leave", "setMemberRole", "addMember", "publish"}
  Skew <- NoSkew
  MaxTime = 2
  MaxCalls = 3
SPECIFICATION Spec
INVARIANT TypeOK GrantedOnly UsedTwiceOnlyTogether
CHECK_DEADLOCK FALSE
SYMMETRY Symmetry
