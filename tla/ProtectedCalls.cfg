SPECIFICATION Spec
CONSTANTS
  CallLimit = 6
  BaseDepth = 4
  MaxActivations = 2
  MaxHandlerErrors = 1
  MaxValues = 2
  Budget = 5
CHECK_DEADLOCK FALSE
INVARIANTS
    ClosingSound
    OutcomesReachCallers
    NestingAccounted
PROPERTIES
    ExecutionEnds
