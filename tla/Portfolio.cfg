SPECIFICATION Spec
CONSTANTS
  small = small
  large = large
  Property = {p1, p2}
  Unit = {x1}
  Plan = {small, large}
  Limit <- MCLimit
  Basic = small
  Row = {s1, s2}
  First = s1
  NoPlan = NoPlan
  Request = {q1, q2}
  Orphan = Orphan
SYMMETRY MCSymmetry
INVARIANT TypeOK
INVARIANT LimitHolds
INVARIANT HomelessBlamed
