SPECIFICATION Spec
CONSTANTS
  Mains <- MCMains
  Protos <- MCProtos
  Registers = {0, 1, 2, 3, 4}
  CallLimit = 3
  TailLimit = 2
  Budget = 18
CHECK_DEADLOCK FALSE
INVARIANTS
    NeededValuesSurvive
    FramesRestored
PROPERTIES
    ExecutionEnds
