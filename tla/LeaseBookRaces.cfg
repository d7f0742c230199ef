SPECIFICATION Spec
CONSTANTS
  Unit = {u1}
  Lease = {l1, l2}
  Req = {r1, r2, r3}
  Job = {i1, i2}
  LastDay = 3
  MonthLength = 2
  Period = 1
  Window = 1
  Terms <- MCTerms
  Patches <- MCPatches
  MaxInFlight = 2
  MaxCrashes = 1
  Keep = Keep
  Never = Never
  NoUnit = NoUnit
  Unused = Unused
  Deleted = Deleted
SYMMETRY Symmetry
INVARIANTS TypeOK BillsBounded LastPaidBacked UnitStillThere
