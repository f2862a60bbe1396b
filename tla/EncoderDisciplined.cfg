SPECIFICATION Spec
CONSTANTS
  REGION_SIZE = 3
  U16 = 4
  BoundEvery = 4
  BoundBase = 1
  NoSeed = NoSeed
  Chunks = {0, 1, 2, 4}
  CompressedSizes = {1, 3, 4}
  Seeds = {NoSeed, 7}
  WriterResults = {"ok", "none", "mismatch", "flush_error"}
  Caller = {"flush_failed"}
  RawBuffers <- MCNoRaw
  Builds = {"debug", "release"}
  MaxBytes = 7
  MaxStreams = 2
INVARIANTS TypeOK InOrder WholeWrites BufferBounded WindowIntact FlushedMeansEmitted MaxEncodedSize
CHECK_DEADLOCK FALSE
