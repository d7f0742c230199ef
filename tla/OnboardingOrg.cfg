SPECIFICATION Spec
CONSTANTS
  Email = {e1, e2}
  Req = {r1, r2}
  Org = {o1, o2}
  Visit = {v1}
  NoOne = NoOne
INVARIANT TenantInOwnOrg
CHECK_DEADLOCK FALSE
