SPECIFICATION FrameSpec
CONSTANTS
  REGION_SIZE = 4
  U16 = 5
  BoundEvery = 4
  BoundBase = 1
  NoSeed = NoSeed
  Base = 10
  U32Len = 2
  Samples <- MCSkipFirst
  WritesOf <- MCWritesOf
  DecodedFrom <- MCDecodedFrom
  ValueOf <- MCValueOf
  LabelLengths = {0}
  Chunks = {1, 2, 3, 4}
  ReadSizes = {1, 2, 3, 4}
  CompressedSizes = {1}
  Seeds = {NoSeed}
  WriterResults = {"ok"}
  Caller = {"flush_failed"}
  RawBuffers = {}
  Builds = {"debug"}
  MaxBytes = 64
  MaxStreams = 1
INVARIANTS NeverWrongValue
CHECK_DEADLOCK FALSE
