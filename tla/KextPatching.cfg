SPECIFICATION Spec
CONSTANT MaxLost = 1
INVARIANTS
  HooksFindPointers
  PanicIsEarned
  HooksAreLive
  AllOrNothing
CHECK_DEADLOCK FALSE
