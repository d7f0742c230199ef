SPECIFICATION Spec
CONSTANTS
  Unit = {u1}
  Lease = {l1, l2}
  Req = {r1, r2}
  Job = {i1}
  LastDay = 3
  MonthLength = 2
  Period = 1
  Window = 1
  Terms <- MCTerms
  Patches <- MCPatches
  MaxInFlight = 1
  MaxCrashes = 0
  Keep = Keep
  Never = Never
  NoUnit = NoUnit
  Unused = Unused
  Deleted = Deleted
INVARIANT NoOverlap
