SPECIFICATION Spec
CONSTANTS
  Mappings <- MCMappings
  MaxInits = 1
  MaxPolls = 3
  MaxCalls = 2
INVARIANTS
  OwnAnswer
  InterruptsSetUp
PROPERTIES
  CallsReturn
CHECK_DEADLOCK FALSE
