CONSTANTS
    GenerationModulus = 2
    MaxSlots = 3
    Kinds = {"table", "closure"}
    Modes = {{"v"}}
    KeyKinds = {"plain"}
    Profiles = {"Lua54"}
    MaxOrder = 1
    MaxWires = 4
    MaxDead = 1
SPECIFICATION Spec
INVARIANTS
    QueuedFinalizersResolve
CHECK_DEADLOCK FALSE
