SPECIFICATION Spec
CONSTANTS
  Sizes = {0, 1, 4}
  ByRefs = {TRUE, FALSE}
  FlushRetries = FALSE
  MaxBytes = 8
  Threshold = 3
  Requests = {1, 3, 5}
  Extra = {0, 1}
  Readers = {"file", "pipe"}
  IoErrors = TRUE
INVARIANTS TypeOK PrefixWritten OwnedFlushReaches ExactWhileFilled PlacedRight NothingDropped ReadBack
CHECK_DEADLOCK FALSE
