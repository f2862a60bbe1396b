SPECIFICATION Spec
CONSTANTS
  Trees <- MCTrees
INVARIANTS TypeOK OwnedWhenOk DroppedOnce NothingLeaks
CHECK_DEADLOCK FALSE
