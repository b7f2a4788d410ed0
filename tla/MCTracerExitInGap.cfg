SPECIFICATION Spec
CONSTANTS
  v1 = v1
  v2 = v2
  VCPUS = {v1}
  Knobs <- GapKnobs
  FlushThreshold = 2
  MaxMemOps = 1
  MaxInsns <- Insns
  MaxAccesses <- Accesses
  FullDisks <- Failing
INVARIANTS OneRowPerChunk
CHECK_DEADLOCK FALSE
