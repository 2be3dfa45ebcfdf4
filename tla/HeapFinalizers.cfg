CONSTANTS
    GenerationModulus = 2
    MaxSlots = 2
    Kinds = {"table", "userdata"}
    Modes = {{"k"}, {"v"}}
    KeyKinds = {"plain", "heap"}
    Profiles = {"Lua54"}
    MaxOrder = 2
    MaxWires = 3
    MaxDead = 1
SPECIFICATION FairSpec
CHECK_DEADLOCK FALSE
INVARIANTS
    HeapAndBatchSound
PROPERTIES
    FinalizedOnce
    CollectionEnds
    ClearsOnlyTheDead
    ImplementsArena
