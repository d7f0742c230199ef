SPECIFICATION FairSpec
CONSTANTS
  a = a
  b = b
  n1 = n1
  n2 = n2
  Update = {a, b}
  Unit = {n1, n2}
  PoolSize = 2
  Bodies <- MCBodies
  NoUpdate = NoUpdate
CHECK_DEADLOCK FALSE
INVARIANTS
  TypeOK
  OkMeansWhole
PROPERTIES
  TagsLostUnseen
  AnsweredOrStarved
