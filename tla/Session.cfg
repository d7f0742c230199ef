SPECIFICATION FairSpec
CONSTANTS
  u1 = u1
  u2 = u2
  member = member
  User = {u1, u2}
  Portal <- MCPortal
  Checked <- MCChecked
  Mfa <- MCMfa
  Member <- MCMember
  Role = {member}
  RoleOf <- MCRoleOf
  Request = {r1, r2}
  NoUser = NoUser
  TTL = 1
  MaxRevokes = 1
  MaxChanges = 1
INVARIANT TypeOK
INVARIANT OwnUnlessRaced
PROPERTY PermissionsSettle
