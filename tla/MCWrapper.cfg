SPECIFICATION Spec
CONSTANTS
  Kills = {"reclaim", "cancel"}
  MaxSignals = 3
  ShowMayFail = TRUE
  RequeueMayFail = TRUE
INVARIANTS RequeuedOnce ReclaimedComesBack CancelledStaysCancelled StatusIsTheChilds
PROPERTIES WrapperEnds
CHECK_DEADLOCK FALSE
