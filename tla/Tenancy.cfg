SPECIFICATION FairSpec
CONSTANTS
  t1 = t1
  l1 = l1
  o1 = o1
  q1 = q1
  q2 = q2
  Tenant = {t1}
  Lease = {l1}
  Org = {o1}
  OrgOf <- MCOrgOf
  Request = {q1, q2}
  TTL = 1
  ViewTTL = 2
  MaxToggles = 1
  MaxCrashes = 1
CHECK_DEADLOCK FALSE
INVARIANTS
  TypeOK
  NoLeaseOutsideOrg
  RemovedStaysRemoved
PROPERTIES
  PagesSettle
