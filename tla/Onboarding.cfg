SPECIFICATION Spec
CONSTANTS
  Email = {e1, e2}
  Req = {r1, r2, r3}
  Org = {o1}
  Visit = {v1}
  NoOne = NoOne
SYMMETRY Symmetry
INVARIANTS TypeOK OneSignUpPerEmail ProfileHasAccount NoSilentOrphan OwnerKeepsOrg
PROPERTY ReservationSpec
CHECK_DEADLOCK FALSE
