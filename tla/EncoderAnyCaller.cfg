SPECIFICATION Spec
CONSTANTS
  REGION_SIZE = 3
  U16 = 4
  BoundEvery = 2
  BoundBase = 1
  NoSeed = NoSeed
  Chunks = {1, 2, 3}
  CompressedSizes = {1}
  Seeds = {NoSeed}
  WriterResults = {"ok", "none", "mismatch", "flush_error"}
  Caller = {"flush_midway", "retry", "reuse_unflushed"}
  RawBuffers <- MCDecoderRaw
  Builds = {"debug", "release"}
  MaxBytes = 5
  MaxStreams = 2
INVARIANTS StreamBytesKept FlushedBytesOut NoWriteSplit
CHECK_DEADLOCK FALSE
