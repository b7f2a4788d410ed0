SPECIFICATION Spec
CONSTANTS
  Jobs = {j1, j2}
  Clients = {k1, k2}
  Commands = {"status", "rollup", "force", "combine"}
  MaxCommands = 3
  MayDie = TRUE
  Empty = Empty
  Garbled = Garbled
INVARIANTS CompleteIsTrue RecordKept RolledUpStays
CHECK_DEADLOCK FALSE
