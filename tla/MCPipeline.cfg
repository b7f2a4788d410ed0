SPECIFICATION PipelineSpec
CONSTANTS
  Insns <- GuestInsns
  Formats <- RawFormat
  Program <- Guest
  Handler <- Handles
  MaxLen = 5
  MaxIdle = 7
  IdleLoop <- Idle
  WriterRecs = 2
  CountArgs <- Counts
  RECORD_SIZE = 2
  ChunkRecords <- ChunkSizes
  Pieces <- PieceLengths
INVARIANTS
  FilterExact DirectionsTrue LossAccounted FallbackAgrees
  CutExact CertifiedIsWhole IndirectTargetsTrue ConvertedPasses
