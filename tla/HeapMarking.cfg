CONSTANTS
    GenerationModulus = 1
    MaxSlots = 3
    Kinds = {"table"}
    Modes = {{"k"}}
    KeyKinds = {"heap"}
    Profiles = {"Blu"}
    MaxOrder = 1
    MaxWires = 4
    MaxDead = 0
SPECIFICATION Spec
INVARIANTS
    CollectionIsExact
CHECK_DEADLOCK FALSE
