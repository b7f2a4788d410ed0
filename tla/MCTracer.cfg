SPECIFICATION Spec
CONSTANTS
  v1 = v1
  v2 = v2
  VCPUS = {v1, v2}
  Knobs <- AllKnobs
  FlushThreshold = 2
  MaxMemOps = 1
  MaxInsns <- Insns
  MaxAccesses <- Accesses
  FullDisks <- Failing
INVARIANTS ManifestSound ManifestComplete OneRowUnlessExitInGap MemOpsOwn ContiguousChunks
PROPERTIES ClosedStays ImplementsSchedule
CHECK_DEADLOCK FALSE
