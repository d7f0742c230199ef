SPECIFICATION CLFairSpec
CONSTANTS
  q1 = q1
  q2 = q2
  r1 = r1
  r2 = r2
  v1 = v1
  v2 = v2
  Request = {q1, q2}
  Row = {r1, r2}
  Value = {v1, v2}
  ListTTL = 1
  MaxWrites = 2
  NoRow = NoRow
  Styles <- MCStyles
CHECK_DEADLOCK FALSE
INVARIANTS
  CLTypeOK
  ExactUnlessBlamed
PROPERTIES
  ListsSettle
