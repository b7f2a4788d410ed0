SPECIFICATION Spec
CONSTANTS
  Jobs = {j1, j2, j3}
  old = old
  new = new
  Contents <- Traces
  Wants <- Batches
  Schemes = {"path", "s3"}
  JobsMayDie = TRUE
  NodeMayCrash = TRUE
  Absent = Absent
  Torn = Torn
  Any = Any
  NoJob = NoJob
INVARIANTS OpensWhatItAskedFor NeverTornFromPath PublishedOnce
PROPERTIES EveryJobEnds ImplementsAtomicCache
CHECK_DEADLOCK FALSE
