SPECIFICATION Spec
CONSTANTS
  t1 = t1
  t2 = t2
  t3 = t3
  Threads <- TwoThreads
  Knobs <- AllKnobs
  Blocks = {1, 2}
  Unwritable <- Failing
  MaxInsns <- Insns
SYMMETRY Symmetry
CHECK_DEADLOCK FALSE
INVARIANTS
  ActiveCounted
  NoHoles
  SampleExact
  NeverEarly
  ExitNotMissed
