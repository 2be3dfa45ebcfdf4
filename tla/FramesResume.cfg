SPECIFICATION Spec
CONSTANTS
  Mains <- MCNestedYieldMains
  Protos <- MCProtos
  Registers = {0, 1, 2, 3, 4}
  CallLimit = 4
  TailLimit = 2
  Budget = 40
CHECK_DEADLOCK FALSE
INVARIANTS
    CallersSurvive
