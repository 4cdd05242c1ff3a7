SPECIFICATION Spec
CONSTANTS
  None = None
  Malformed = Malformed
  UserNames = {ada, bob}
  Roles = {"editor", "guest"}
  Scopes = {"publish:propose"}
  RoleScopeMap <- MCRoleScopeMap
  Clients = {c1, c2}
  Patches <- MCPatches
  MaxUsers = 3
INVARIANT LeaverHasNoIdentity
INVARIANT StandingIsOnRecord
INVARIANT ScopesFollowRoles
PROPERTY DeletedForGood
CHECK_DEADLOCK FALSE
