SPECIFICATION PipeSpec
CONSTANTS
  REGION_SIZE = 3
  U16 = 4
  BoundEvery = 2
  BoundBase = 1
  NoSeed = NoSeed
  Chunks = {0, 1, 2, 3}
  CompressedSizes = {1, 5}
  Seeds = {NoSeed, 7}
  WriterResults = {"ok", "none", "mismatch", "flush_error"}
  Caller = {"flush_failed"}
  RawBuffers = {}
  Builds = {"debug"}
  MaxStreams = 1
  ReadSizes = {0, 1, 2, 3}
  MaxBytes = 7
INVARIANTS ReadsNeverFail
PROPERTIES IsFifo AllReadBack
CHECK_DEADLOCK FALSE
