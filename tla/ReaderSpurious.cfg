SPECIFICATION Spec
CONSTANTS
  FileLens = {20}
  Threshold = 3
  Requests = {1, 2, 3, 5}
  Extra = {0}
  Readers = {"file"}
  IoErrors = FALSE
INVARIANTS OutOfBoundsMeansEnd
CHECK_DEADLOCK FALSE
