SPECIFICATION Spec
CONSTANTS
  Kills = {"reclaim"}
  MaxSignals = 3
  ShowMayFail = FALSE
  RequeueMayFail = FALSE
INVARIANTS EveryReclaimRequeues
CHECK_DEADLOCK FALSE
