SPECIFICATION Spec
CONSTANTS
  s1 = s1
  s2 = s2
  c1 = c1
  c2 = c2
  Submits <- TwoSubmits
  Checkouts <- TwoCheckouts
  Starts <- SameOrNot
  Ids = {b1, b2}
  Tags = {t1, t2}
  MayDie = TRUE
  None = None
  Absent = Absent
  Empty = Empty
INVARIANTS NoOrphans OwnRunDir SelfContained
PROPERTIES EverySubmitEnds
CHECK_DEADLOCK FALSE
