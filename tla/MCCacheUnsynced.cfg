SPECIFICATION Spec
CONSTANTS
  Jobs = {j1, j2}
  old = old
  new = new
  Contents <- Traces
  Wants <- OneBatch
  Schemes = {"s3"}
  JobsMayDie = FALSE
  NodeMayCrash = TRUE
  Absent = Absent
  Torn = Torn
  Any = Any
  NoJob = NoJob
INVARIANTS NeverTorn
CHECK_DEADLOCK FALSE
