SPECIFICATION Spec
CONSTANT MaxLost = 1
INVARIANT
  SuccessMeansRouted
CHECK_DEADLOCK FALSE
