\* Strong and weak tables of every policy: a traversal and collections beside the
\* mutations that Lua allows during one.
SPECIFICATION Spec
CONSTANTS
    UsizeMax = 1000
    U64Max = 2
    HardLimit = 200
    MaxSingle = 200
    GcStart = 100
    GcGrowthPercent = 50
    MaxKey = 2
    NumberKeys = {}
    StringKeys = {}
    HeapKeys = {h}
    Values = {}
    HeapValues = {o}
    Nil = Nil
    ValueBytes = 1
    HashBytes = 4
    OrderBytes = 5
    OrderThreshold = 3
    CompactThreshold = 1
    TablePolicies = {"Unordered", "Insertion", "Luau"}
    ArraySizes = {0}
    HashSizes = {0}
    WeakModes = {{}, {"k", "v"}}
    Walks = TRUE
CHECK_DEADLOCK FALSE
INVARIANTS
    WeakReadsSeeWrites
    TraversalSound
PROPERTIES
    WalkReturnsReads
