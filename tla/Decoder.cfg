SPECIFICATION Spec
CONSTANTS
  REGION_SIZE = 3
  U16 = 4
  BoundEvery = 2
  BoundBase = 1
  NoSeed = NoSeed
  Lengths <- MCLengths
  DamagedAt = {0, 2}
  CutAt = {1, 2}
  SourceSeeds = {NoSeed, 7}
  Streams <- MCStreams
  ReadSizes = {1, 2, 4}
  Seeds = {NoSeed, 7}
  Transient = TRUE
  Retries = TRUE
  RawBuffers <- MCRaw
  Builds = {"debug", "release"}
  MaxServed = 5
  MaxStreams = 2
INVARIANTS TypeOK InOrderUntilError Verified WindowReady
PROPERTIES WindowKept OneRegionPerRead
CHECK_DEADLOCK FALSE
