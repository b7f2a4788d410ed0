SPECIFICATION Spec
CONSTANTS
  t1 = t1
  t2 = t2
  t3 = t3
  Threads <- ThreeThreads
  Knobs <- OnlyWorkers
  Blocks = {1}
  Unwritable = {}
  MaxInsns <- Insns
CHECK_DEADLOCK FALSE
INVARIANTS
  ExitNotEarly
