SPECIFICATION Spec
CONSTANTS
  Threads = {t1, t2}
  CheckInterval = 3
  CounterMod = 6
  MaxTouches = 2
INVARIANTS NoStaleTrigger
PROPERTIES TouchNotSwallowed TriggerFires
CHECK_DEADLOCK FALSE
