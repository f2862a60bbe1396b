SPECIFICATION Spec
CONSTANTS
  REGION_SIZE = 3
  U16 = 4
  BoundEvery = 2
  BoundBase = 1
  NoSeed = NoSeed
  Chunks = {1, 2}
  CompressedSizes = {1}
  Seeds = {NoSeed}
  WriterResults = {"ok"}
  Caller = {"flush_midway"}
  RawBuffers <- MCNoRaw
  Builds = {"debug", "release"}
  MaxBytes = 5
  MaxStreams = 1
INVARIANTS WindowIntact
CHECK_DEADLOCK FALSE
