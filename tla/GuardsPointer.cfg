SPECIFICATION Spec
CONSTANTS
  Trees <- MCTrees
INVARIANTS InitialisedWhenOk
CHECK_DEADLOCK FALSE
